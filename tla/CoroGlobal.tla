----------------------------- MODULE CoroGlobal -----------------------------
(***************************************************************************)
(* The process-wide coroutine pool of sqlite3_coro_sched.h: made by the    *)
(* first connection that acquires it, counted, and destroyed by the last   *)
(* that releases it or by a shutdown.  The state and the mutex that        *)
(* protects it are themselves made on first use, without protection, so    *)
(* that what happens inside a critical section is split into steps here.   *)
(***************************************************************************)
EXTENDS Integers, FiniteSets

CONSTANTS
  Conns,       \* connections, each with a thread of its own
  Pools,       \* pools that may be allocated
  None         \* a null pointer

VARIABLES
  initialized,       \* whether the state has been cleared
  lock_initialized,  \* state->lock_initialized
  locked,            \* whether state->lock is taken
  pool,              \* state->pool
  ref_count,         \* state->ref_count
  mem,               \* each pool's memory: "unborn", "live" or "freed"
  has,               \* the pool each connection was given
  pc,                \* where each connection's thread stands
  raced              \* for the properties: another connection came while the
                     \* first one was making the mutex

vars == <<initialized, lock_initialized, locked, pool, ref_count, mem, has, pc, raced>>
making == <<initialized, raced>>

Init ==
  /\ initialized = FALSE /\ lock_initialized = FALSE /\ locked = FALSE
  /\ pool = None /\ ref_count = 0
  /\ mem = [p \in Pools |-> "unborn"]
  /\ has = [c \in Conns |-> None]
  /\ pc = [c \in Conns |-> "idle"] /\ raced = FALSE

Goes(c, from, to) == pc[c] = from /\ pc' = [pc EXCEPT ![c] = to]

-----------------------------------------------------------------------------
(* acquire_global *)

\* The flag is read without a lock.
Looks(c, from) == Goes(c, from, IF lock_initialized THEN "lock" ELSE "init")

\* No other connection is on its way before the mutex exists.
Alone == ~lock_initialized => \A c \in Conns : pc[c] = "idle"

\* get_global_state: the static state is cleared by whoever comes first.
Begin(c) ==
  /\ has[c] = None
  /\ raced' = (raced \/ ~Alone)
  /\ IF initialized THEN Looks(c, "idle") ELSE Goes(c, "idle", "clear")
  /\ UNCHANGED <<initialized, lock_initialized, locked, pool, ref_count, mem, has>>

Clear(c) ==
  /\ Goes(c, "clear", "cleared")
  /\ lock_initialized' = FALSE /\ locked' = FALSE /\ pool' = None /\ ref_count' = 0
  /\ UNCHANGED <<making, mem, has>>

Cleared(c) ==
  /\ Looks(c, "cleared")
  /\ initialized' = TRUE
  /\ UNCHANGED <<raced, lock_initialized, locked, pool, ref_count, mem, has>>

\* A mutex that is initialised again is free, whoever has it.
InitLock(c) ==
  /\ Goes(c, "init", "flag")
  /\ locked' = FALSE
  /\ UNCHANGED <<making, lock_initialized, pool, ref_count, mem, has>>

SetFlag(c) ==
  /\ Goes(c, "flag", "lock")
  /\ lock_initialized' = TRUE
  /\ UNCHANGED <<making, locked, pool, ref_count, mem, has>>

Lock(c) ==
  /\ Goes(c, "lock", "inside")
  /\ ~locked /\ locked' = TRUE
  /\ UNCHANGED <<making, lock_initialized, pool, ref_count, mem, has>>

Allocate(c, p) ==
  /\ Goes(c, "inside", "starting")
  /\ pool = None /\ mem[p] = "unborn"
  /\ pool' = p
  /\ mem' = [mem EXCEPT ![p] = "live"]
  /\ UNCHANGED <<making, lock_initialized, locked, ref_count, has>>

\* There is no memory for a pool.
AllocateFails(c) ==
  /\ Goes(c, "inside", "idle")
  /\ pool = None
  /\ locked' = FALSE
  /\ UNCHANGED <<making, lock_initialized, pool, ref_count, mem, has>>

FreePool == /\ mem' = [p \in Pools |-> IF p = pool THEN "freed" ELSE mem[p]]
            /\ pool' = None
            /\ locked' = FALSE

\* pool_init fails.
StartFails(c) ==
  /\ Goes(c, "starting", "idle")
  /\ FreePool
  /\ UNCHANGED <<making, lock_initialized, ref_count, has>>

\* Mutant of Count: the first connection is not counted.
CountOthers == ref_count' = IF \A c \in Conns : has[c] = None THEN ref_count ELSE ref_count + 1

Count == ref_count' = ref_count + 1

\* The pool exists, or has just been started: count and return it.
Take(c) ==
  /\ \/ Goes(c, "inside", "idle") /\ pool # None
     \/ Goes(c, "starting", "idle")
  /\ Count
  /\ has' = [has EXCEPT ![c] = pool]
  /\ locked' = FALSE
  /\ UNCHANGED <<making, lock_initialized, pool, mem>>

-----------------------------------------------------------------------------
(* release_global and shutdown_global *)

IsLast == ref_count = 1

\* if (!state->lock_initialized) return
ReleaseSkips(c) ==
  /\ pc[c] = "idle" /\ has[c] # None /\ ~lock_initialized
  /\ has' = [has EXCEPT ![c] = None]
  /\ UNCHANGED <<making, lock_initialized, locked, pool, ref_count, mem, pc>>

ReleaseKeeps(c) ==
  /\ pc[c] = "idle" /\ has[c] # None
  /\ lock_initialized /\ ~locked
  /\ ~(IsLast /\ pool # None)
  /\ ref_count' = IF ref_count > 0 THEN ref_count - 1 ELSE 0
  /\ has' = [has EXCEPT ![c] = None]
  /\ UNCHANGED <<making, lock_initialized, locked, pool, mem, pc>>

\* The last one destroys the pool inside the critical section ...
ReleaseLast(c) ==
  /\ Goes(c, "idle", "joining") /\ has[c] # None
  /\ lock_initialized /\ ~locked /\ locked' = TRUE
  /\ IsLast /\ pool # None
  /\ ref_count' = ref_count - 1
  /\ has' = [has EXCEPT ![c] = None]
  /\ UNCHANGED <<making, lock_initialized, pool, mem>>

\* ... and clears the pointer when the workers have ended.
ReleaseFrees(c) ==
  /\ Goes(c, "joining", "idle")
  /\ FreePool
  /\ UNCHANGED <<making, lock_initialized, ref_count, has>>

\* shutdown_global, of an extension whose connections neither use nor release
\* the pool any more.
Shutdown(c) ==
  /\ lock_initialized
  /\ Goes(c, "idle", "closing")
  /\ \A d \in Conns : pc[d] \in {"idle", "lock"}
  /\ ~locked /\ locked' = TRUE
  /\ pool # None
  /\ has' = [d \in Conns |-> None]
  /\ UNCHANGED <<making, lock_initialized, pool, ref_count, mem>>

ShutdownFrees(c) ==
  /\ Goes(c, "closing", "idle")
  /\ FreePool
  /\ ref_count' = 0
  /\ UNCHANGED <<making, lock_initialized, has>>

-----------------------------------------------------------------------------
Next == \E c \in Conns :
  \/ Begin(c) \/ Clear(c) \/ Cleared(c) \/ InitLock(c) \/ SetFlag(c) \/ Lock(c)
  \/ AllocateFails(c) \/ StartFails(c) \/ Take(c) \/ \E p \in Pools : Allocate(c, p)
  \/ ReleaseSkips(c) \/ ReleaseKeeps(c) \/ ReleaseLast(c) \/ ReleaseFrees(c)
  \/ Shutdown(c) \/ ShutdownFrees(c)

Spec == Init /\ [][Next]_vars

-----------------------------------------------------------------------------
(* Properties *)

Inside == {c \in Conns : pc[c] \in {"inside", "starting", "joining", "closing"}}

TypeOK ==
  /\ {initialized, lock_initialized, locked, raced} \subseteq BOOLEAN
  /\ pool \in Pools \cup {None}
  /\ ref_count \in Nat
  /\ mem \in [Pools -> {"unborn", "live", "freed"}]
  /\ has \in [Conns -> Pools \cup {None}]
  /\ pc \in [Conns -> {"idle", "clear", "cleared", "init", "flag", "lock", "inside", "starting", "joining", "closing"}]

\* The count is the number of connections that have the pool, but while a
\* shutdown is ignoring them.
RefCountExact ==
  (\A c \in Conns : pc[c] # "closing")
    => ref_count = Cardinality({c \in Conns : has[c] # None})

\* All connections share one pool, and it lives as long as one has it.
SharedPool == \A c \in Conns : has[c] # None => has[c] = pool /\ mem[pool] = "live"

\* A pool is never left running with nobody to destroy it.
NoPoolLeft ==
  \A p \in Pools : mem[p] = "live" =>
    pool = p /\ (Inside # {} \/ \E c \in Conns : has[c] = p)

\* Unless two connections made the mutex at once, the connections share one pool of
\* coroutines, which lives as long as one of them has it, and no longer.
SharedSafe == TypeOK /\ (~raced => RefCountExact /\ SharedPool /\ NoPoolLeft)

=============================================================================
