----------------------------- MODULE ConnState ------------------------------
(***************************************************************************)
(* The registry of per-connection states of sqlite3_conn_state.h: a map    *)
(* from connection to entry under a spinlock, entries made outside it and  *)
(* inserted in a second critical section, and reference counts changed by  *)
(* atomic instructions.  A critical section is one step.                   *)
(***************************************************************************)
EXTENDS Integers, FiniteSets

CONSTANTS
  Threads,       \* application threads
  Dbs,           \* database connections
  Hooks,         \* functions and modules whose user data is the state
  DbOf,          \* the connection each hook belongs to
  Entries,       \* entries that may be allocated
  None,          \* a null pointer
  MallocFails    \* whether memory may be lacking for an entry, the map, or a key in it

ASSUME ThreadsAssumption == IsFiniteSet(Threads)
ASSUME HooksAssumption == IsFiniteSet(Hooks) /\ DbOf \in [Hooks -> Dbs]
ASSUME NoneAssumption == None \notin Entries /\ None \notin Dbs /\ None \notin Hooks
ASSUME MallocAssumption == MallocFails \in BOOLEAN

VARIABLES
  mem,       \* each entry's memory: "unborn", "live" or "freed"
  refcount,  \* entry->refcount
  db,        \* entry->db
  map,       \* conn_map
  ptr,       \* the entry each hook was registered with
  pc,        \* where each thread stands
  hook,      \* the hook for which a thread is inside init
  entry,     \* its local variable: new_entry in init, entry elsewhere
  oom        \* for the properties: the map has lacked memory for a key

vars == <<mem, refcount, db, map, ptr, pc, hook, entry, oom>>

Init ==
  /\ mem = [e \in Entries |-> "unborn"]
  /\ refcount = [e \in Entries |-> 0]
  /\ db = [e \in Entries |-> None]
  /\ map = [d \in Dbs |-> None]
  /\ ptr = [h \in Hooks |-> None]
  /\ pc = [th \in Threads |-> "idle"]
  /\ hook = [th \in Threads |-> None]
  /\ entry = [th \in Threads |-> None]
  /\ oom = FALSE

Goes(th, from, to) == pc[th] = from /\ pc' = [pc EXCEPT ![th] = to]

Ends(th, from) == /\ Goes(th, from, "idle")
                  /\ entry' = [entry EXCEPT ![th] = None]
                  /\ hook' = [hook EXCEPT ![th] = None]

\* SQLite calls a connection's destructors under the connection's mutex, so the
\* references to one entry are given up by one thread at a time.
Unhurried(e) ==
  \A th \in Threads : pc[th] \in {"dropping", "freeing", "free"} => entry[th] # e

-----------------------------------------------------------------------------
(* init *)

\* Mutant of Adopt: the new holder is not counted.
AdoptUncounted(h, e) == UNCHANGED refcount /\ ptr' = [ptr EXCEPT ![h] = e]

\* conn_retain, for the pointer that init returns.
Adopt(h, e) ==
  /\ refcount' = [refcount EXCEPT ![e] = @ + 1]
  /\ ptr' = [ptr EXCEPT ![h] = e]

Unregistered(h) == ptr[h] = None /\ \A th \in Threads : hook[th] # h

InitFinds(th, h) ==
  /\ pc[th] = "idle" /\ Unregistered(h)
  /\ map[DbOf[h]] # None
  /\ Adopt(h, map[DbOf[h]])
  /\ UNCHANGED <<mem, db, map, pc, hook, entry, oom>>

InitMisses(th, h) ==
  /\ Goes(th, "idle", "alloc") /\ Unregistered(h)
  /\ map[DbOf[h]] = None
  /\ hook' = [hook EXCEPT ![th] = h]
  /\ UNCHANGED <<mem, refcount, db, map, ptr, entry, oom>>

AllocFails(th) ==
  /\ MallocFails
  /\ Ends(th, "alloc")
  /\ UNCHANGED <<mem, refcount, db, map, ptr, oom>>

\* The new entry is filled in, and the user's init_fn runs, outside the lock.
Alloc(th, e) ==
  /\ Goes(th, "alloc", "insert")
  /\ mem[e] = "unborn"
  /\ mem' = [mem EXCEPT ![e] = "live"]
  /\ refcount' = [refcount EXCEPT ![e] = 1]
  /\ db' = [db EXCEPT ![e] = DbOf[hook[th]]]
  /\ entry' = [entry EXCEPT ![th] = e]
  /\ UNCHANGED <<map, ptr, hook, oom>>

\* Mutant of Taken: the map is not searched again.
NotSearchedAgain(d) == FALSE

\* Has another thread been faster?
Taken(d) == map[d] # None

InsertFinds(th) ==
  LET h == hook[th] IN
  /\ pc[th] = "insert" /\ Taken(DbOf[h])
  /\ pc' = [pc EXCEPT ![th] = "discard"]
  /\ Adopt(h, map[DbOf[h]])
  /\ hook' = [hook EXCEPT ![th] = None]
  /\ UNCHANGED <<mem, db, map, entry, oom>>

InsertSets(th) ==
  LET h == hook[th] IN
  /\ Ends(th, "insert")
  /\ ~Taken(DbOf[h])
  /\ map' = [map EXCEPT ![DbOf[h]] = entry[th]]
  /\ ptr' = [ptr EXCEPT ![h] = entry[th]]
  /\ UNCHANGED <<mem, refcount, db, oom>>

\* The map cannot take another key, which init does not notice.
InsertSkipped(th) ==
  LET h == hook[th] IN
  /\ MallocFails /\ oom' = TRUE
  /\ Ends(th, "insert")
  /\ ~Taken(DbOf[h])
  /\ ptr' = [ptr EXCEPT ![h] = entry[th]]
  /\ UNCHANGED <<mem, refcount, db, map>>

\* There is no map, and no memory for one: init returns NULL.
InsertFails(th) ==
  /\ MallocFails
  /\ Goes(th, "insert", "discard")
  /\ \A d \in Dbs : map[d] = None
  /\ hook' = [hook EXCEPT ![th] = None]
  /\ UNCHANGED <<mem, refcount, db, map, ptr, entry, oom>>

\* Mutant of Discard: the entry that was not needed is not freed.
DiscardNot(th) ==
  /\ Ends(th, "discard")
  /\ UNCHANGED <<mem, refcount, db, map, ptr, oom>>

Discard(th) ==
  /\ Ends(th, "discard")
  /\ mem' = [mem EXCEPT ![entry[th]] = "freed"]
  /\ UNCHANGED <<refcount, db, map, ptr, oom>>

-----------------------------------------------------------------------------
(* destructor and remove *)

\* conn_release: the atomic decrement.
Decrement(th, e) ==
  /\ refcount' = [refcount EXCEPT ![e] = @ - 1]
  /\ IF refcount[e] = 1
       THEN /\ pc' = [pc EXCEPT ![th] = "freeing"]
            /\ entry' = [entry EXCEPT ![th] = e]
       ELSE /\ pc' = [pc EXCEPT ![th] = "idle"]
            /\ entry' = [entry EXCEPT ![th] = None]

\* xDestroy of a hook.
Release(th, h) ==
  /\ pc[th] = "idle" /\ ptr[h] # None /\ Unhurried(ptr[h])
  /\ Decrement(th, ptr[h])
  /\ ptr' = [ptr EXCEPT ![h] = None]
  /\ UNCHANGED <<mem, db, map, hook, oom>>

\* entry->db = NULL
Forget(e) == db' = [db EXCEPT ![e] = None]

\* remove(db): the entry is unlinked, and then one reference released.  It has
\* to be that of a hook whose destructor will not be called any more: remove()
\* has taken none itself.
Remove(th, d) ==
  /\ Goes(th, "idle", "dropping")
  /\ map[d] # None /\ Unhurried(map[d])
  /\ \E h \in Hooks : ptr[h] = map[d] /\ ptr' = [ptr EXCEPT ![h] = None]
  /\ map' = [map EXCEPT ![d] = None]
  /\ Forget(map[d])
  /\ entry' = [entry EXCEPT ![th] = map[d]]
  /\ UNCHANGED <<mem, refcount, hook, oom>>

RemoveDrops(th) ==
  /\ pc[th] = "dropping"
  /\ Decrement(th, entry[th])
  /\ UNCHANGED <<mem, db, map, ptr, hook, oom>>

\* Mutant of InUseAgain: the count is not looked at again under the lock.
NoSecondLook(e) == FALSE

\* init found the entry after the count had reached zero.
InUseAgain(e) == refcount[e] > 0

\* conn_free, under the lock.
Recheck(th) ==
  LET e == entry[th] IN
  /\ pc[th] = "freeing" /\ mem[e] = "live"
  /\ IF InUseAgain(e)
       THEN Ends(th, "freeing") /\ UNCHANGED <<map, db>>
       ELSE /\ Goes(th, "freeing", "free")
            /\ map' = [d \in Dbs |-> IF d = db[e] THEN None ELSE map[d]]
            /\ Forget(e)
            /\ UNCHANGED <<hook, entry>>
  /\ UNCHANGED <<mem, refcount, ptr, oom>>

Free(th) ==
  /\ Ends(th, "free")
  /\ mem' = [mem EXCEPT ![entry[th]] = "freed"]
  /\ UNCHANGED <<refcount, db, map, ptr, oom>>

-----------------------------------------------------------------------------
Next == \E th \in Threads :
  \/ \E h \in Hooks : InitFinds(th, h) \/ InitMisses(th, h) \/ Release(th, h)
  \/ AllocFails(th) \/ \E e \in Entries : Alloc(th, e)
  \/ InsertFinds(th) \/ InsertSets(th) \/ InsertSkipped(th) \/ InsertFails(th) \/ Discard(th)
  \/ \E d \in Dbs : Remove(th, d)
  \/ RemoveDrops(th) \/ Recheck(th) \/ Free(th)

Spec == Init /\ [][Next]_vars

-----------------------------------------------------------------------------
(* Properties *)

HoldersOf(e) == {h \in Hooks : ptr[h] = e}

\* References that belong to a call in progress.
InTransit(e) == {th \in Threads : entry[th] = e /\ pc[th] \in {"insert", "discard", "dropping"}}

TypeOK ==
  /\ mem \in [Entries -> {"unborn", "live", "freed"}]
  /\ refcount \in [Entries -> Nat]
  /\ db \in [Entries -> Dbs \cup {None}]
  /\ map \in [Dbs -> Entries \cup {None}]
  /\ ptr \in [Hooks -> Entries \cup {None}]
  /\ pc \in [Threads -> {"idle", "alloc", "insert", "discard", "dropping", "freeing", "free"}]
  /\ hook \in [Threads -> Hooks \cup {None}]
  /\ entry \in [Threads -> Entries \cup {None}]
  /\ oom \in BOOLEAN

\* The count of a live entry is the number of hooks registered with it, plus the
\* reference a running init or remove has in its hands.
RefcountExact ==
  \A e \in Entries : mem[e] = "live" =>
    refcount[e] = Cardinality(HoldersOf(e)) + Cardinality(InTransit(e))

\* No hook, map slot or running call has a freed entry, and an entry that will
\* be freed is in the hands of one thread.
NoUseAfterFree ==
  /\ \A h \in Hooks : ptr[h] # None => mem[ptr[h]] = "live"
  /\ \A d \in Dbs : map[d] # None => mem[map[d]] = "live"
  /\ \A th \in Threads : entry[th] # None => mem[entry[th]] = "live"
  /\ \A t1, t2 \in Threads : pc[t1] \in {"discard", "free"} /\ entry[t2] = entry[t1] => t1 = t2

\* The map never leads to the state of another connection, and as long as it can
\* grow every state is found there until remove() unlinks it.
MapAgrees ==
  /\ \A d \in Dbs : map[d] # None => db[map[d]] = d
  /\ ~oom =>
       \A h \in Hooks : ptr[h] # None /\ db[ptr[h]] # None => map[DbOf[h]] = ptr[h]

\* The counts and the map agree with the hooks.
Consistent == TypeOK /\ RefcountExact /\ MapAgrees

\* All hooks of one connection share one state, but for a state that remove()
\* has cut off.  (Not when the map has lacked memory for a key.)
OneStatePerConnection ==
  ~oom =>
  \A g, h \in Hooks :
    /\ DbOf[g] = DbOf[h] /\ ptr[g] # None /\ ptr[h] # None
    /\ db[ptr[g]] # None /\ db[ptr[h]] # None
    => ptr[g] = ptr[h]

\* Nothing leaks: a live entry has a hook, or a thread that deals with it.
NothingLeaks ==
  \A e \in Entries : mem[e] = "live" =>
    HoldersOf(e) # {} \/ \E th \in Threads : entry[th] = e

\* No state is freed while a hook, the map or a call has it, none is left behind, all
\* hooks of a connection share one, and its count is exact.
StatesSafe == Consistent /\ NoUseAfterFree /\ NothingLeaks /\ OneStatePerConnection
=============================================================================
