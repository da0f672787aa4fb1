----------------------------- MODULE SharedPtr -----------------------------
(***************************************************************************)
(* The atomically counted shared and weak pointers of sqlite3_smart_ptr.h  *)
(* and sqlite3_smart_ptr.hpp.  A pointer variable belongs to one thread;   *)
(* the control block it leads to is shared.  Each atomic instruction, each *)
(* destructor and each call of sqlite3_free is a step of its own.  The     *)
(* pointed-to object holds no pointers of the same family.                 *)
(***************************************************************************)
EXTENDS Integers, FiniteSets

CONSTANTS
  Threads,    \* threads that share objects
  Strong,     \* variables of type SharedPtr
  Weak,       \* variables of type WeakPtr
  Owner,      \* the thread each variable belongs to
  Blocks,     \* control blocks (one per object) that may be made
  Null        \* a null m_cb

\* What is assumed of the parameters.
PointersAssumption ==
  /\ IsFiniteSet(Strong) /\ IsFiniteSet(Weak)
  /\ Strong \cap Weak = {} /\ Owner \in [Strong \cup Weak -> Threads]
  /\ Null \notin Blocks

VARIABLES
  mem,         \* the control block: "unborn", "live" or "freed"
  object,      \* cb->ptr: "none", "live" or "destroyed"
  strongCount, \* cb->strong_count
  weakCount,   \* cb->weak_count
  sp,          \* what each shared pointer variable points to
  wp,          \* what each weak pointer variable points to
  pc,          \* where each thread stands
  cb,          \* the local variable cb (m_cb) of the function it executes
  seen         \* the local variable current of weak_lock

blockVars == <<mem, object, strongCount, weakCount>>
vars == <<mem, object, strongCount, weakCount, sp, wp, pc, cb, seen>>

Idle(h) == pc[Owner[h]] = "idle"

Points(f, h, b) == f' = [f EXCEPT ![h] = b]

Init ==
  /\ mem = [b \in Blocks |-> "unborn"]
  /\ object = [b \in Blocks |-> "none"]
  /\ strongCount = [b \in Blocks |-> 0]
  /\ weakCount = [b \in Blocks |-> 0]
  /\ sp = [s \in Strong |-> Null]
  /\ wp = [w \in Weak |-> Null]
  /\ pc = [th \in Threads |-> "idle"]
  /\ cb = [th \in Threads |-> Null]
  /\ seen = [th \in Threads |-> 0]

-----------------------------------------------------------------------------
(* Shared pointers *)

\* A new block: one strong reference, and one weak one that the strong ones
\* hold together.
MakeShared(s, b) ==
  /\ Idle(s) /\ sp[s] = Null
  /\ mem[b] = "unborn"
  /\ mem' = [mem EXCEPT ![b] = "live"]
  /\ object' = [object EXCEPT ![b] = "live"]
  /\ strongCount' = [strongCount EXCEPT ![b] = 1]
  /\ weakCount' = [weakCount EXCEPT ![b] = 1]
  /\ Points(sp, s, b)
  /\ UNCHANGED <<wp, pc, cb, seen>>

\* No memory for the block: the object is destroyed, the pointer stays null.
MakeFails(s, b) ==
  /\ Idle(s) /\ sp[s] = Null
  /\ mem[b] = "unborn"
  /\ mem' = [mem EXCEPT ![b] = "freed"]
  /\ object' = [object EXCEPT ![b] = "destroyed"]
  /\ UNCHANGED <<strongCount, weakCount, sp, wp, pc, cb, seen>>

\* Mutant of AddOwner: the copy is not counted.
UncountedOwner(b) == strongCount' = strongCount

\* sqlite_atomic_increment_32(&cb->strong_count)
AddOwner(b) == strongCount' = [strongCount EXCEPT ![b] = @ + 1]

Clone(s, t) ==
  /\ Owner[s] = Owner[t] /\ Idle(s)
  /\ sp[s] # Null /\ sp[t] = Null
  /\ AddOwner(sp[s])
  /\ Points(sp, t, sp[s])
  /\ UNCHANGED <<mem, object, weakCount, wp, pc, cb, seen>>

\* A move, to a variable of the same thread or, handed over through some other
\* synchronisation, of another one.
Move(s, t) ==
  /\ Idle(s) /\ Idle(t)
  /\ sp[s] # Null /\ sp[t] = Null
  /\ sp' = [sp EXCEPT ![s] = Null, ![t] = sp[s]]
  /\ UNCHANGED <<mem, object, strongCount, weakCount, wp, pc, cb, seen>>

\* release(): the decrement, and what its result makes the thread do next.  The
\* variable is null from here on: the code clears it last, but reads it no more.
Release(s) ==
  LET b == sp[s] th == Owner[s] IN
  /\ Idle(s) /\ b # Null
  /\ strongCount' = [strongCount EXCEPT ![b] = @ - 1]
  /\ Points(sp, s, Null)
  /\ IF strongCount[b] = 1
       THEN /\ pc' = [pc EXCEPT ![th] = "destroy"]
            /\ cb' = [cb EXCEPT ![th] = b]
       ELSE UNCHANGED <<pc, cb>>
  /\ UNCHANGED <<mem, object, weakCount, wp, seen>>

Destroy(th) ==
  /\ pc[th] = "destroy"
  /\ object' = [object EXCEPT ![cb[th]] = "destroyed"]
  /\ pc' = [pc EXCEPT ![th] = "dropgroup"]
  /\ UNCHANGED <<mem, strongCount, weakCount, sp, wp, cb, seen>>

-----------------------------------------------------------------------------
(* Weak pointers *)

\* Mutant of WeakDrop: the block is given back while one weak reference is left.
WeakDropTooEarly(th, b) ==
  /\ weakCount' = [weakCount EXCEPT ![b] = @ - 1]
  /\ IF weakCount[b] <= 2
       THEN /\ pc' = [pc EXCEPT ![th] = "free"]
            /\ cb' = [cb EXCEPT ![th] = b]
       ELSE /\ pc' = [pc EXCEPT ![th] = "idle"]
            /\ cb' = [cb EXCEPT ![th] = Null]

\* Mutant of WeakDrop: sqlite3_free is missing.
WeakDropOnly(th, b) ==
  /\ weakCount' = [weakCount EXCEPT ![b] = @ - 1]
  /\ pc' = [pc EXCEPT ![th] = "idle"]
  /\ cb' = [cb EXCEPT ![th] = Null]

\* weak_release(): the decrement, and whether this thread must free the block.
WeakDrop(th, b) ==
  /\ weakCount' = [weakCount EXCEPT ![b] = @ - 1]
  /\ IF weakCount[b] = 1
       THEN /\ pc' = [pc EXCEPT ![th] = "free"]
            /\ cb' = [cb EXCEPT ![th] = b]
       ELSE /\ pc' = [pc EXCEPT ![th] = "idle"]
            /\ cb' = [cb EXCEPT ![th] = Null]

\* After the last strong reference: the weak one they held together.
DropGroup(th) ==
  /\ pc[th] = "dropgroup"
  /\ WeakDrop(th, cb[th])
  /\ UNCHANGED <<mem, object, strongCount, sp, wp, seen>>

WeakRelease(w) ==
  /\ Idle(w) /\ wp[w] # Null
  /\ WeakDrop(Owner[w], wp[w])
  /\ Points(wp, w, Null)
  /\ UNCHANGED <<mem, object, strongCount, sp, seen>>

Free(th) ==
  /\ pc[th] = "free"
  /\ mem' = [mem EXCEPT ![cb[th]] = "freed"]
  /\ pc' = [pc EXCEPT ![th] = "idle"]
  /\ cb' = [cb EXCEPT ![th] = Null]
  /\ UNCHANGED <<object, strongCount, weakCount, sp, wp, seen>>

AddWatcher(w, b) ==
  /\ weakCount' = [weakCount EXCEPT ![b] = @ + 1]
  /\ Points(wp, w, b)
  /\ UNCHANGED <<mem, object, strongCount, sp, pc, cb, seen>>

WeakCreate(s, w) ==
  /\ Owner[s] = Owner[w] /\ Idle(s)
  /\ sp[s] # Null /\ wp[w] = Null
  /\ AddWatcher(w, sp[s])

WeakClone(v, w) ==
  /\ Owner[v] = Owner[w] /\ Idle(v)
  /\ wp[v] # Null /\ wp[w] = Null
  /\ AddWatcher(w, wp[v])

WeakMove(v, w) ==
  /\ Idle(v) /\ Idle(w)
  /\ wp[v] # Null /\ wp[w] = Null
  /\ wp' = [wp EXCEPT ![v] = Null, ![w] = wp[v]]
  /\ UNCHANGED <<mem, object, strongCount, weakCount, sp, pc, cb, seen>>

-----------------------------------------------------------------------------
(* weak_lock: from a weak pointer to a shared one, if the object is alive *)

\* The first read of strong_count; zero ends the call with a null pointer.  The
\* caller has a variable for the result.
LockReads(w) ==
  LET th == Owner[w] IN
  /\ Idle(w) /\ wp[w] # Null
  /\ \E s \in Strong : Owner[s] = th /\ sp[s] = Null
  /\ strongCount[wp[w]] > 0
  /\ pc' = [pc EXCEPT ![th] = "cas"]
  /\ cb' = [cb EXCEPT ![th] = wp[w]]
  /\ seen' = [seen EXCEPT ![th] = strongCount[wp[w]]]
  /\ UNCHANGED <<blockVars, sp, wp>>

\* Mutant of StillSeen: an increment instead of the compare-and-swap.
NotCompared(th) == TRUE

\* Does the compare-and-swap find the value the thread read before?
StillSeen(th) == strongCount[cb[th]] = seen[th]

LockSucceeds(th, s) ==
  /\ pc[th] = "cas"
  /\ Owner[s] = th /\ sp[s] = Null
  /\ StillSeen(th)
  /\ AddOwner(cb[th])
  /\ Points(sp, s, cb[th])
  /\ pc' = [pc EXCEPT ![th] = "idle"]
  /\ cb' = [cb EXCEPT ![th] = Null]
  /\ UNCHANGED <<mem, object, weakCount, wp, seen>>

\* The weak compare-and-swap fails, because the count has changed or for no
\* reason; the value it found decides whether the loop goes on.
LockRetries(th) ==
  LET found == strongCount[cb[th]] IN
  /\ pc[th] = "cas"
  /\ seen' = [seen EXCEPT ![th] = found]
  /\ IF found > 0
       THEN UNCHANGED <<pc, cb>>
       ELSE /\ pc' = [pc EXCEPT ![th] = "idle"]
            /\ cb' = [cb EXCEPT ![th] = Null]
  /\ UNCHANGED <<blockVars, sp, wp>>

-----------------------------------------------------------------------------
StrongStep(s) ==
  \/ \E b \in Blocks : MakeShared(s, b) \/ MakeFails(s, b)
  \/ \E t \in Strong : Clone(s, t) \/ Move(s, t)
  \/ \E w \in Weak : WeakCreate(s, w)
  \/ Release(s)

WeakStep(w) ==
  \/ \E v \in Weak : WeakClone(w, v) \/ WeakMove(w, v)
  \/ WeakRelease(w) \/ LockReads(w)

ThreadStep(th) ==
  \/ Destroy(th) \/ DropGroup(th) \/ Free(th)
  \/ LockRetries(th)
  \/ \E s \in Strong : LockSucceeds(th, s)

Next ==
  \/ \E s \in Strong : StrongStep(s)
  \/ \E w \in Weak : WeakStep(w)
  \/ \E th \in Threads : ThreadStep(th)

Spec == Init /\ [][Next]_vars

\* A thread that has begun to release a reference goes on to the end.
Fairness == \A th \in Threads : WF_vars(Destroy(th) \/ DropGroup(th) \/ Free(th))

-----------------------------------------------------------------------------
(* Properties *)

Owners(b) == {s \in Strong : sp[s] = b}
Watchers(b) == {w \in Weak : wp[w] = b}

\* Threads between the last decrement of strong_count and that of weak_count.
Burying(b) == {th \in Threads : cb[th] = b /\ pc[th] \in {"destroy", "dropgroup"}}

TypeOK ==
  /\ mem \in [Blocks -> {"unborn", "live", "freed"}]
  /\ object \in [Blocks -> {"none", "live", "destroyed"}]
  /\ strongCount \in [Blocks -> Nat] /\ weakCount \in [Blocks -> Nat]
  /\ sp \in [Strong -> Blocks \cup {Null}]
  /\ wp \in [Weak -> Blocks \cup {Null}]
  /\ pc \in [Threads -> {"idle", "destroy", "dropgroup", "free", "cas"}]
  /\ cb \in [Threads -> Blocks \cup {Null}]
  /\ seen \in [Threads -> Nat]

\* Both counters are exact: strong_count is the number of shared pointers,
\* weak_count that of weak pointers plus one for all shared ones together,
\* given up only after the object's destructor has run.
CountsExact ==
  \A b \in Blocks : mem[b] = "live" =>
    /\ strongCount[b] = Cardinality(Owners(b))
    /\ weakCount[b] = Cardinality(Watchers(b))
                      + (IF Owners(b) \cup Burying(b) = {} THEN 0 ELSE 1)

\* No pointer dangles: a shared pointer leads to a live object, a weak pointer
\* and the local variable of a running call at least to a live block.
NoDangling ==
  /\ \A s \in Strong : sp[s] # Null => mem[sp[s]] = "live" /\ object[sp[s]] = "live"
  /\ \A w \in Weak : wp[w] # Null => mem[wp[w]] = "live"
  /\ \A th \in Threads : cb[th] # Null => mem[cb[th]] = "live"

\* An object is destroyed once, and its block freed once, by one thread.
DestroyedOnce ==
  /\ \A t1, t2 \in Threads :
       /\ t1 # t2 /\ cb[t1] = cb[t2]
       /\ {pc[t1], pc[t2]} \subseteq {"destroy", "dropgroup", "free"}
       => cb[t1] = Null
  /\ \A th \in Threads : pc[th] = "destroy" => object[cb[th]] = "live"

\* Nothing is forgotten: a live object has an owner or a thread about to destroy
\* it, a live block somebody who points to it or a thread about to free it.
NothingForgotten ==
  \A b \in Blocks :
    /\ object[b] = "live" => \/ Owners(b) # {}
                             \/ \E th \in Threads : cb[th] = b /\ pc[th] = "destroy"
    /\ mem[b] = "live" => \/ Owners(b) \cup Watchers(b) \cup Burying(b) # {}
                          \/ \E th \in Threads : cb[th] = b /\ pc[th] = "free"

\* An expired weak pointer never comes back to life.
Expired(b) == mem[b] # "unborn" /\ strongCount[b] = 0

ExpiredForEver == [][\A b \in Blocks : Expired(b) => Expired(b)']_vars

\* Every block is freed once nobody points to it any more.
Reclaimed ==
  \A b \in Blocks :
    mem[b] = "live" /\ Owners(b) \cup Watchers(b) = {} ~> mem[b] = "freed"

\* Shared and weak pointers keep the promise of RefObject.
Life(b) == CASE mem[b] = "unborn" -> "unborn"
             [] mem[b] = "freed"  -> "gone"
             [] mem[b] = "live"   -> IF object[b] = "live" THEN "alive" ELSE "dead"

Abstract == INSTANCE RefObject WITH
  Objects <- Blocks,
  owners <- [b \in Blocks |-> Owners(b)],
  watchers <- [b \in Blocks |-> Watchers(b)],
  life <- [b \in Blocks |-> Life(b)]

ImplementsRefObject == Abstract!Spec

\* The counters and the life of every block agree with the pointers to it.
Consistent == TypeOK /\ CountsExact /\ DestroyedOnce /\ NothingForgotten

=============================================================================
