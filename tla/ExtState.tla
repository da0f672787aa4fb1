------------------------------ MODULE ExtState ------------------------------
(***************************************************************************)
(* The registry of per-database-file states of sqlite3_ext_state.h and     *)
(* sqlite3_ext_state.hpp: a map from file to entry under a registry mutex, *)
(* and a reference count that is changed by atomic instructions outside    *)
(* it.  A connection is used by one thread at a time, so its program       *)
(* counter is that of the thread.  A critical section of registry_mutex is *)
(* one step; so is each atomic instruction outside it.                     *)
(***************************************************************************)
EXTENDS Integers, FiniteSets

CONSTANTS
  Conns,       \* database connections
  Files,       \* database files (an in-memory database is a file of its own)
  FileOf,      \* the file each connection has open
  Functions,   \* SQL functions registered with the state as their user data
  Caches,      \* statements that keep the state in their auxdata slot
  ConnOf,      \* the connection each function and statement belongs to
  Entries,     \* registry entries that may be allocated
  None,        \* a null pointer
  Apart,       \* whether the application keeps releases apart: see MayDrop
  MapMayFail   \* whether the map may lack memory for a new key

Holders == Functions \cup Caches

\* What is assumed of the parameters.
StatesAssumption ==
  /\ Functions \cap Caches = {} /\ IsFiniteSet(Holders) /\ IsFiniteSet(Conns)
  /\ ConnOf \in [Holders -> Conns] /\ FileOf \in [Conns -> Files] /\ Files # {}
  /\ None \notin Entries
  /\ {Apart, MapMayFail} \subseteq BOOLEAN

VARIABLES
  mem,       \* each entry's memory: "unborn", "live" or "freed"
  refcount,  \* entry->refcount
  path,      \* entry->db_path
  map,       \* registry_map
  ptr,       \* the entry each function or statement holds
  pc,        \* where each connection's thread stands
  entry,     \* its local variable entry
  oom        \* for the properties: the map has lacked memory

vars == <<mem, refcount, path, map, ptr, pc, entry, oom>>

File(h) == FileOf[ConnOf[h]]
Idle(h) == pc[ConnOf[h]] = "idle"

Init ==
  /\ mem = [e \in Entries |-> "unborn"]
  /\ refcount = [e \in Entries |-> 0]
  /\ path = [e \in Entries |-> CHOOSE f \in Files : TRUE]
  /\ map = [f \in Files |-> None]
  /\ ptr = [h \in Holders |-> None]
  /\ pc = [c \in Conns |-> "idle"]
  /\ entry = [c \in Conns |-> None]
  /\ oom = FALSE

\* Connections between the decrement to zero and the end of entry_free.
Freeing == {c \in Conns : pc[c] \in {"freeing", "destroying"}}

\* The code leaves it to chance whether an entry is given up for the second time
\* while the thread that did so for the first time has not yet looked at it
\* again.  An application rules it out that closes connections one at a time, or
\* opens no file while its last connection is being closed.
MayDrop(e) == Apart => \A c \in Freeing : entry[c] # e

-----------------------------------------------------------------------------
(* Getting the state *)

\* Mutant of Retain: the reference is not counted.
RetainNot(e) == UNCHANGED refcount

\* entry_retain
Retain(e) == refcount' = [refcount EXCEPT ![e] = @ + 1]

\* entry_find_locked
Find(f, e) == map[f] = e /\ e # None /\ Retain(e)

\* init, or from_db with a context, on a file whose state exists.
GetExisting(h) ==
  /\ Idle(h) /\ ptr[h] = None
  /\ \E e \in Entries :
       /\ Find(File(h), e)
       /\ ptr' = [ptr EXCEPT ![h] = e]
  /\ UNCHANGED <<mem, path, map, pc, entry, oom>>

\* The insertion of entry_alloc; it goes unnoticed when the map cannot grow.
Insert(f, e) ==
  \/ map' = [map EXCEPT ![f] = e] /\ UNCHANGED oom
  \/ MapMayFail /\ UNCHANGED map /\ oom' = TRUE

\* init on a file without a state: the entry is made under the registry mutex.
Create(h, e) ==
  /\ h \in Functions /\ Idle(h) /\ ptr[h] = None
  /\ map[File(h)] = None
  /\ mem[e] = "unborn"
  /\ mem' = [mem EXCEPT ![e] = "live"]
  /\ path' = [path EXCEPT ![e] = File(h)]
  /\ refcount' = [refcount EXCEPT ![e] = 1]
  /\ Insert(File(h), e)
  /\ ptr' = [ptr EXCEPT ![h] = e]
  /\ UNCHANGED <<pc, entry>>

\* from_db without a context: found and retained ...
Peek(c) ==
  /\ pc[c] = "idle"
  /\ \E e \in Entries :
       /\ Find(FileOf[c], e)
       /\ entry' = [entry EXCEPT ![c] = e]
  /\ pc' = [pc EXCEPT ![c] = "peeked"]
  /\ UNCHANGED <<mem, path, map, ptr, oom>>

-----------------------------------------------------------------------------
(* Giving it up *)

\* entry_release: the atomic decrement, and who it makes responsible.
Drop(c, e) ==
  /\ MayDrop(e)
  /\ refcount' = [refcount EXCEPT ![e] = @ - 1]
  /\ IF refcount[e] = 1
       THEN /\ pc' = [pc EXCEPT ![c] = "freeing"]
            /\ entry' = [entry EXCEPT ![c] = e]
       ELSE /\ pc' = [pc EXCEPT ![c] = "idle"]
            /\ entry' = [entry EXCEPT ![c] = None]

\* ... and released again before the pointer is returned.
Unpeek(c) ==
  /\ pc[c] = "peeked"
  /\ Drop(c, entry[c])
  /\ UNCHANGED <<mem, path, map, ptr, oom>>

\* SQLite calls the destructor: a function is unregistered, an auxdata dropped.
Release(h) ==
  /\ Idle(h) /\ ptr[h] # None
  /\ Drop(ConnOf[h], ptr[h])
  /\ ptr' = [ptr EXCEPT ![h] = None]
  /\ UNCHANGED <<mem, path, map, oom>>

\* Mutant of InUseAgain: the count is not looked at again under the lock.
NoSecondLook(e) == FALSE

\* Mutant of InUseAgain: ">= 0" for "> 0".
NotNegative(e) == refcount[e] >= 0

\* Somebody found the entry after the count had reached zero.
InUseAgain(e) == refcount[e] > 0

\* Mutant of Unlink: the map keeps its pointer to the entry.
UnlinkNot(e) == UNCHANGED map

\* The key is deleted, whichever entry it leads to.
Unlink(e) == map' = [map EXCEPT ![path[e]] = None]

\* entry_free, under the registry mutex.  Reading a freed entry is undefined
\* behaviour, and the end of what the model says of this thread.
Recheck(c) ==
  /\ pc[c] = "freeing" /\ mem[entry[c]] = "live"
  /\ IF InUseAgain(entry[c])
       THEN /\ pc' = [pc EXCEPT ![c] = "idle"]
            /\ entry' = [entry EXCEPT ![c] = None]
            /\ UNCHANGED map
       ELSE /\ pc' = [pc EXCEPT ![c] = "destroying"]
            /\ Unlink(entry[c])
            /\ UNCHANGED entry
  /\ UNCHANGED <<mem, refcount, path, ptr, oom>>

\* The state's lock and the state are destroyed, the memory is returned.
Destroy(c) ==
  /\ pc[c] = "destroying" /\ mem[entry[c]] = "live"
  /\ mem' = [mem EXCEPT ![entry[c]] = "freed"]
  /\ pc' = [pc EXCEPT ![c] = "idle"]
  /\ entry' = [entry EXCEPT ![c] = None]
  /\ UNCHANGED <<refcount, path, map, ptr, oom>>

-----------------------------------------------------------------------------
Next ==
  \/ \E h \in Holders : \/ GetExisting(h) \/ Release(h)
                        \/ \E e \in Entries : Create(h, e)
  \/ \E c \in Conns : Peek(c) \/ Unpeek(c) \/ Recheck(c) \/ Destroy(c)

Spec == Init /\ [][Next]_vars

\* A thread that has begun to release an entry goes on.
Fairness == \A c \in Conns : WF_vars(Recheck(c) \/ Destroy(c))

-----------------------------------------------------------------------------
(* Properties *)

HoldersOf(e) == {h \in Holders : ptr[h] = e}
PeekersAt(e) == {c \in Conns : pc[c] = "peeked" /\ entry[c] = e}

TypeOK ==
  /\ mem \in [Entries -> {"unborn", "live", "freed"}]
  /\ refcount \in [Entries -> Nat]
  /\ path \in [Entries -> Files]
  /\ map \in [Files -> Entries \cup {None}]
  /\ ptr \in [Holders -> Entries \cup {None}]
  /\ pc \in [Conns -> {"idle", "peeked", "freeing", "destroying"}]
  /\ entry \in [Conns -> Entries \cup {None}]
  /\ oom \in BOOLEAN

\* The count of a live entry is exactly the number of functions, statements and
\* running calls that hold it.
RefcountExact ==
  \A e \in Entries : mem[e] = "live" =>
    refcount[e] = Cardinality(HoldersOf(e)) + Cardinality(PeekersAt(e))

\* Nobody is left with a freed entry: no function, statement or map slot, and no
\* thread that is still going to read it; and one thread at most frees it.
NoUseAfterFree ==
  /\ \A h \in Holders : ptr[h] # None => mem[ptr[h]] = "live"
  /\ \A f \in Files : map[f] # None => mem[map[f]] = "live"
  /\ \A c \in Conns : entry[c] # None => mem[entry[c]] = "live"
  /\ \A c, d \in Conns : pc[c] = "destroying" /\ entry[d] = entry[c] => c = d

\* A state that somebody uses can be found by everybody who opens the file, and
\* nothing else is in its place.  (Not when the map has lacked memory.)
UsedIsRegistered == ~oom => \A h \in Holders : ptr[h] # None => map[File(h)] = ptr[h]

\* The counts and the map agree with the holders.
Consistent == TypeOK /\ RefcountExact /\ UsedIsRegistered

\* An entry that has no users any more is freed, or used again.
Reclaimed ==
  \A e \in Entries : mem[e] = "live" /\ refcount[e] = 0
                     ~> mem[e] = "freed" \/ refcount[e] > 0

\* The registry keeps the promise of StatePerFile, as long as the map has memory.
Abstract == INSTANCE StatePerFile WITH
  Objects <- Entries,
  Users <- Holders,
  FileOf <- [h \in Holders |-> File(h)],
  NoObject <- None,
  current <- map,
  given <- ptr,
  past <- {e \in Entries : \/ mem[e] = "freed"
                           \/ \E c \in Conns : pc[c] = "destroying" /\ entry[c] = e},
  void <- oom

ImplementsStatePerFile == Abstract!Spec

=============================================================================
