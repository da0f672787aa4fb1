-------------------------- MODULE ExtStateProofs ---------------------------
(***************************************************************************)
(* Proofs about ExtState for every set of connections, files, functions,   *)
(* statements and entries, of an application that keeps releases apart:    *)
(* the counts are exact, nobody is left with a freed entry, and the        *)
(* registry implements StatePerFile.                                       *)
(***************************************************************************)
EXTENDS ExtState, FiniteSetTheorems, TLAPS

-----------------------------------------------------------------------------
(* The inductive invariant *)

\* A thread is at work on an entry unless it is idle, and no two threads free one.
AtWork ==
  /\ \A c \in Conns : pc[c] = "idle" <=> entry[c] = None
  /\ \A c, d \in Freeing : entry[c] = entry[d] => c = d

\* What the map leads to belongs there; an entry that is being destroyed has no users
\* and is not in the map; a used entry is one of its user's file.
InMap ==
  /\ \A f \in Files : map[f] # None => path[map[f]] = f
  /\ \A c \in Conns : pc[c] = "destroying" =>
       /\ refcount[entry[c]] = 0
       /\ \A f \in Files : map[f] # entry[c]
  /\ \A h \in Holders : ptr[h] # None => path[ptr[h]] = File(h)

\* As long as the map has memory, every live entry is in it until it is destroyed.
LiveInMap ==
  ~oom => \A e \in Entries : mem[e] = "live" =>
            \/ map[path[e]] = e
            \/ \E c \in Conns : pc[c] = "destroying" /\ entry[c] = e

\* Nobody has an entry that is not live.
NoDangling ==
  /\ \A h \in Holders : ptr[h] # None => mem[ptr[h]] = "live"
  /\ \A f \in Files : map[f] # None => mem[map[f]] = "live"
  /\ \A c \in Conns : entry[c] # None => mem[entry[c]] = "live"

IInv == TypeOK /\ RefcountExact /\ NoDangling /\ AtWork /\ InMap /\ LiveInMap

\* Sizes of the two sets of references to an entry.
LEMMA Sizes ==
  ASSUME StatesAssumption, NEW e
  PROVE  /\ IsFiniteSet(HoldersOf(e)) /\ IsFiniteSet(PeekersAt(e))
         /\ Cardinality(HoldersOf(e)) \in Nat
         /\ Cardinality(HoldersOf(e)) = 0 <=> HoldersOf(e) = {}
         /\ Cardinality(PeekersAt(e)) \in Nat
         /\ Cardinality(PeekersAt(e)) = 0 <=> PeekersAt(e) = {}
<1>1. IsFiniteSet(HoldersOf(e)) /\ IsFiniteSet(PeekersAt(e))
  BY FS_Subset DEF StatesAssumption, HoldersOf, PeekersAt
<1> QED
  BY <1>1, FS_CardinalityType, FS_EmptySet

\* The count of a live entry.
LEMMA Counted ==
  ASSUME StatesAssumption, IInv, NEW e \in Entries, mem[e] = "live"
  PROVE  /\ refcount[e] = Cardinality(HoldersOf(e)) + Cardinality(PeekersAt(e))
         /\ refcount[e] = 0 <=> HoldersOf(e) = {} /\ PeekersAt(e) = {}
BY Sizes DEF IInv, RefcountExact

\* The two parts of the run's properties that IInv does not state as they stand.
LEMMA Registered ==
  ASSUME StatesAssumption, IInv
  PROVE  UsedIsRegistered
<1> SUFFICES ASSUME ~oom, NEW h \in Holders, ptr[h] # None
             PROVE  map[File(h)] = ptr[h]
  BY DEF UsedIsRegistered
<1>1. ptr[h] \in Entries /\ mem[ptr[h]] = "live" /\ path[ptr[h]] = File(h)
  BY DEF IInv, TypeOK, NoDangling, InMap
<1>2. h \in HoldersOf(ptr[h])
  BY DEF HoldersOf
<1>3. refcount[ptr[h]] # 0
  BY <1>1, <1>2, Counted
<1> QED
  BY <1>1, <1>3 DEF IInv, LiveInMap, InMap

\* Nobody uses what somebody frees.
LEMMA Safe ==
  ASSUME StatesAssumption, IInv
  PROVE  NoUseAfterFree
<1> SUFFICES ASSUME NEW c \in Conns, NEW d \in Conns, pc[c] = "destroying", entry[d] = entry[c]
             PROVE  c = d
  BY DEF NoUseAfterFree, IInv, NoDangling
<1>1. entry[c] \in Entries /\ mem[entry[c]] = "live" /\ refcount[entry[c]] = 0
  BY DEF IInv, TypeOK, AtWork, NoDangling, InMap
<1>2. d \notin PeekersAt(entry[c])
  BY <1>1, Counted
<1>3. pc[d] \in {"freeing", "destroying"}
  BY <1>1, <1>2 DEF StatesAssumption, IInv, TypeOK, AtWork, PeekersAt
<1> QED
  BY <1>3 DEF IInv, AtWork, Freeing

\* The first state.
LEMMA Initially ==
  ASSUME StatesAssumption
  PROVE  Init => IInv
<1> SUFFICES ASSUME Init PROVE IInv
  OBVIOUS
<1>1. TypeOK
  BY DEF StatesAssumption, Init, TypeOK
<1> QED
  BY <1>1 DEF Init, IInv, RefcountExact, NoDangling, AtWork, InMap, LiveInMap, Freeing

-----------------------------------------------------------------------------
(* What the assignments do to the two sets *)

\* A function or statement gets an entry.
LEMMA HolderComes ==
  ASSUME StatesAssumption, TypeOK, NEW h \in Holders, NEW e \in Entries, ptr[h] = None, ptr' = [ptr EXCEPT ![h] = e]
  PROVE  \A d \in Entries :
           Cardinality(HoldersOf(d)') = Cardinality(HoldersOf(d)) + (IF d = e THEN 1 ELSE 0)
<1> SUFFICES ASSUME NEW d \in Entries
             PROVE  Cardinality(HoldersOf(d)') = Cardinality(HoldersOf(d)) + (IF d = e THEN 1 ELSE 0)
  OBVIOUS
<1>1. HoldersOf(d)' = IF d = e THEN HoldersOf(d) \cup {h} ELSE HoldersOf(d)
  BY DEF StatesAssumption, TypeOK, HoldersOf
<1>2. h \notin HoldersOf(d)
  BY DEF StatesAssumption, HoldersOf
<1>3. Cardinality(HoldersOf(d) \cup {h}) = Cardinality(HoldersOf(d)) + 1
  BY <1>2, Sizes, FS_AddElement
<1>4. CASE d = e
  BY <1>1, <1>3, <1>4
<1>5. CASE d # e
  BY <1>1, <1>5, Sizes
<1> QED
  BY <1>4, <1>5

\* A function or statement gives its entry up.
LEMMA HolderGoes ==
  ASSUME StatesAssumption, TypeOK, NEW h \in Holders, ptr[h] # None, ptr' = [ptr EXCEPT ![h] = None]
  PROVE  \A d \in Entries :
           Cardinality(HoldersOf(d)') = Cardinality(HoldersOf(d)) - (IF d = ptr[h] THEN 1 ELSE 0)
<1> SUFFICES ASSUME NEW d \in Entries
             PROVE  Cardinality(HoldersOf(d)') = Cardinality(HoldersOf(d)) - (IF d = ptr[h] THEN 1 ELSE 0)
  OBVIOUS
<1>1. HoldersOf(d)' = HoldersOf(d) \ {h}
  BY DEF StatesAssumption, TypeOK, HoldersOf
<1>2. h \in HoldersOf(d) <=> d = ptr[h]
  BY DEF HoldersOf
<1>3. CASE d = ptr[h]
  <2>1. Cardinality(HoldersOf(d) \ {h}) = Cardinality(HoldersOf(d)) - 1
    BY <1>2, <1>3, Sizes, FS_RemoveElement
  <2> QED
    BY <1>1, <1>3, <2>1
<1>4. CASE d # ptr[h]
  <2>1. HoldersOf(d) \ {h} = HoldersOf(d)
    BY <1>2, <1>4
  <2> QED
    BY <1>1, <1>4, <2>1, Sizes
<1> QED
  BY <1>3, <1>4

\* A call of from_db finds an entry.
LEMMA PeekerComes ==
  ASSUME StatesAssumption, TypeOK, NEW c \in Conns, NEW e \in Entries, pc[c] = "idle",
         pc' = [pc EXCEPT ![c] = "peeked"], entry' = [entry EXCEPT ![c] = e]
  PROVE  \A d \in Entries :
           Cardinality(PeekersAt(d)') = Cardinality(PeekersAt(d)) + (IF d = e THEN 1 ELSE 0)
<1> SUFFICES ASSUME NEW d \in Entries
             PROVE  Cardinality(PeekersAt(d)') = Cardinality(PeekersAt(d)) + (IF d = e THEN 1 ELSE 0)
  OBVIOUS
<1>1. PeekersAt(d)' = IF d = e THEN PeekersAt(d) \cup {c} ELSE PeekersAt(d)
  BY DEF TypeOK, PeekersAt
<1>2. c \notin PeekersAt(d)
  BY DEF PeekersAt
<1>3. Cardinality(PeekersAt(d) \cup {c}) = Cardinality(PeekersAt(d)) + 1
  BY <1>2, Sizes, FS_AddElement
<1>4. CASE d = e
  BY <1>1, <1>3, <1>4
<1>5. CASE d # e
  BY <1>1, <1>5, Sizes
<1> QED
  BY <1>4, <1>5

\* ... and gives it up.
LEMMA PeekerGoes ==
  ASSUME StatesAssumption, TypeOK, NEW c \in Conns, pc[c] = "peeked", entry[c] \in Entries, NEW p, NEW q,
         p # "peeked", pc' = [pc EXCEPT ![c] = p], entry' = [entry EXCEPT ![c] = q]
  PROVE  \A d \in Entries :
           Cardinality(PeekersAt(d)') = Cardinality(PeekersAt(d)) - (IF d = entry[c] THEN 1 ELSE 0)
<1> SUFFICES ASSUME NEW d \in Entries
             PROVE  Cardinality(PeekersAt(d)') = Cardinality(PeekersAt(d)) - (IF d = entry[c] THEN 1 ELSE 0)
  OBVIOUS
<1>1. PeekersAt(d)' = PeekersAt(d) \ {c}
  BY DEF TypeOK, PeekersAt
<1>2. c \in PeekersAt(d) <=> d = entry[c]
  BY DEF PeekersAt
<1>3. CASE d = entry[c]
  <2>1. Cardinality(PeekersAt(d) \ {c}) = Cardinality(PeekersAt(d)) - 1
    BY <1>2, <1>3, Sizes, FS_RemoveElement
  <2> QED
    BY <1>1, <1>3, <2>1
<1>4. CASE d # entry[c]
  <2>1. PeekersAt(d) \ {c} = PeekersAt(d)
    BY <1>2, <1>4
  <2> QED
    BY <1>1, <1>4, <2>1, Sizes
<1> QED
  BY <1>3, <1>4

\* A thread that neither was nor is between the two steps of from_db.
LEMMA PeekersStay ==
  ASSUME StatesAssumption, TypeOK, NEW c \in Conns, pc[c] # "peeked", NEW p, NEW q,
         p # "peeked", pc' = [pc EXCEPT ![c] = p], entry' = [entry EXCEPT ![c] = q]
  PROVE  \A d \in Entries : PeekersAt(d)' = PeekersAt(d)
BY DEF TypeOK, PeekersAt

-----------------------------------------------------------------------------
(* The steps *)

\* A new reference to an entry that is in the map.
LEMMA FoundIsLive ==
  ASSUME StatesAssumption, IInv, NEW f \in Files, NEW e \in Entries, map[f] = e
  PROVE  /\ mem[e] = "live" /\ path[e] = f
         /\ \A c \in Conns : pc[c] = "destroying" => entry[c] # e
         /\ refcount[e] \in Nat
BY DEF StatesAssumption, IInv, NoDangling, InMap, TypeOK

\* A function or statement finds the entry of its file.
LEMMA GetExistingStep ==
  ASSUME StatesAssumption, IInv, NEW h \in Holders, GetExisting(h)
  PROVE  IInv'
<1>1. PICK e \in Entries : Find(File(h), e) /\ ptr' = [ptr EXCEPT ![h] = e]
  BY DEF GetExisting
<1>2. File(h) \in Files
  BY DEF StatesAssumption, File
<1>3. mem[e] = "live" /\ path[e] = File(h) /\ refcount[e] \in Nat
      /\ \A c \in Conns : pc[c] = "destroying" => entry[c] # e
  BY <1>1, <1>2, FoundIsLive DEF Find
<1>4. TypeOK'
  BY <1>1, <1>3 DEF IInv, TypeOK, GetExisting, Find, Retain
<1>5. RefcountExact'
  <2>1. \A d \in Entries :
           Cardinality(HoldersOf(d)') = Cardinality(HoldersOf(d)) + (IF d = e THEN 1 ELSE 0)
    BY <1>1, HolderComes DEF IInv, GetExisting
  <2>2. \A d \in Entries : PeekersAt(d)' = PeekersAt(d)
    BY DEF PeekersAt, GetExisting
  <2> SUFFICES ASSUME NEW d \in Entries, mem'[d] = "live"
               PROVE  refcount'[d] = Cardinality(HoldersOf(d)') + Cardinality(PeekersAt(d)')
    BY DEF RefcountExact
  <2>3. refcount'[d] = refcount[d] + (IF d = e THEN 1 ELSE 0)
    BY <1>1, <1>3 DEF Find, Retain, IInv, TypeOK
  <2>4. refcount[d] = Cardinality(HoldersOf(d)) + Cardinality(PeekersAt(d))
    BY Counted DEF GetExisting
  <2> QED
    BY <2>1, <2>2, <2>3, <2>4, Sizes
<1>6. NoDangling'
  BY <1>1, <1>3 DEF StatesAssumption, IInv, TypeOK, NoDangling, GetExisting
<1>7. AtWork'
  BY DEF IInv, AtWork, GetExisting, Freeing
<1>8. InMap'
  BY <1>1, <1>3 DEF IInv, TypeOK, InMap, GetExisting, Find, Retain, File
<1>9. LiveInMap'
  BY DEF IInv, LiveInMap, GetExisting
<1> QED
  BY <1>4, <1>5, <1>6, <1>7, <1>8, <1>9 DEF IInv

\* A new entry, in the map or not.
LEMMA CreateStep ==
  ASSUME StatesAssumption, IInv, NEW h \in Holders, NEW e \in Entries, Create(h, e)
  PROVE  IInv'
<1>1. File(h) \in Files
  BY DEF StatesAssumption, File
<1>2. /\ mem[e] = "unborn" /\ mem' = [mem EXCEPT ![e] = "live"]
      /\ path' = [path EXCEPT ![e] = File(h)] /\ refcount' = [refcount EXCEPT ![e] = 1]
      /\ ptr[h] = None /\ ptr' = [ptr EXCEPT ![h] = e] /\ UNCHANGED <<pc, entry>>
      /\ map[File(h)] = None /\ (oom => oom')
      /\ (map' = [map EXCEPT ![File(h)] = e] /\ UNCHANGED oom) \/ (map' = map /\ oom')
  BY DEF Create, Insert
<1>3. /\ \A g \in Holders : ptr[g] # e
      /\ \A f \in Files : map[f] # e
      /\ \A c \in Conns : entry[c] # e
  BY <1>2 DEF StatesAssumption, IInv, NoDangling
<1>4. TypeOK'
  BY <1>1, <1>2 DEF IInv, TypeOK
<1>5. RefcountExact'
  <2>1. \A d \in Entries :
           Cardinality(HoldersOf(d)') = Cardinality(HoldersOf(d)) + (IF d = e THEN 1 ELSE 0)
    BY <1>2, HolderComes DEF IInv
  <2>2. \A d \in Entries : PeekersAt(d)' = PeekersAt(d)
    BY <1>2 DEF PeekersAt
  <2>3. HoldersOf(e) = {} /\ PeekersAt(e) = {}
    BY <1>3 DEF HoldersOf, PeekersAt
  <2> SUFFICES ASSUME NEW d \in Entries, mem'[d] = "live"
               PROVE  refcount'[d] = Cardinality(HoldersOf(d)') + Cardinality(PeekersAt(d)')
    BY DEF RefcountExact
  <2>4. CASE d = e
    BY <2>1, <2>2, <2>3, <2>4, <1>2, Sizes DEF IInv, TypeOK
  <2>5. CASE d # e
    <3>1. mem[d] = "live" /\ refcount'[d] = refcount[d]
      BY <1>2, <2>5 DEF IInv, TypeOK
    <3>2. refcount[d] = Cardinality(HoldersOf(d)) + Cardinality(PeekersAt(d))
      BY <3>1, Counted
    <3> QED
      BY <2>1, <2>2, <2>5, <3>1, <3>2, Sizes
  <2> QED
    BY <2>4, <2>5
<1>6. NoDangling'
  BY <1>2 DEF IInv, TypeOK, NoDangling
<1>7. AtWork'
  BY <1>2 DEF IInv, AtWork, Freeing
<1>8. InMap'
  <2>1. \A f \in Files : map'[f] # None => path'[map'[f]] = f
    BY <1>1, <1>2, <1>3 DEF IInv, TypeOK, InMap
  <2>2. ASSUME NEW c \in Conns, pc'[c] = "destroying"
        PROVE  refcount'[entry'[c]] = 0 /\ \A f \in Files : map'[f] # entry'[c]
    BY <1>1, <1>2, <1>3, <2>2 DEF IInv, TypeOK, InMap
  <2>3. \A g \in Holders : ptr'[g] # None => path'[ptr'[g]] = File(g)
    BY <1>2, <1>3 DEF IInv, TypeOK, InMap
  <2> QED
    BY <2>1, <2>2, <2>3 DEF InMap, File
<1>9. LiveInMap'
  <2> SUFFICES ASSUME ~oom', NEW d \in Entries, mem'[d] = "live"
               PROVE  \/ map'[path'[d]] = d
                      \/ \E c \in Conns : pc'[c] = "destroying" /\ entry'[c] = d
    BY DEF LiveInMap
  <2>1. ~oom /\ map' = [map EXCEPT ![File(h)] = e]
    BY <1>2
  <2>2. CASE d = e
    BY <1>1, <1>2, <2>1, <2>2 DEF IInv, TypeOK
  <2>3. CASE d # e
    <3>1. mem[d] = "live" /\ path'[d] = path[d] /\ path[d] \in Files
      BY <1>2, <2>3 DEF IInv, TypeOK
    <3>2. map[path[d]] = d => path[d] # File(h)
      BY <1>2 DEF StatesAssumption
    <3> QED
      BY <1>1, <1>2, <2>1, <3>1, <3>2 DEF IInv, TypeOK, LiveInMap
  <2> QED
    BY <2>2, <2>3
<1> QED
  BY <1>4, <1>5, <1>6, <1>7, <1>8, <1>9 DEF IInv

\* from_db without a context, first step.
LEMMA PeekStep ==
  ASSUME StatesAssumption, IInv, NEW c \in Conns, Peek(c)
  PROVE  IInv'
<1>1. PICK e \in Entries : Find(FileOf[c], e) /\ entry' = [entry EXCEPT ![c] = e]
  BY DEF Peek
<1>2. FileOf[c] \in Files
  BY DEF StatesAssumption
<1>3. mem[e] = "live" /\ path[e] = FileOf[c] /\ refcount[e] \in Nat
      /\ \A d \in Conns : pc[d] = "destroying" => entry[d] # e
  BY <1>1, <1>2, FoundIsLive DEF Find
<1>4. TypeOK'
  BY <1>1, <1>3 DEF IInv, TypeOK, Peek, Find, Retain
<1>5. RefcountExact'
  <2>1. \A d \in Entries :
           Cardinality(PeekersAt(d)') = Cardinality(PeekersAt(d)) + (IF d = e THEN 1 ELSE 0)
    BY <1>1, PeekerComes DEF IInv, Peek
  <2>2. \A d \in Entries : HoldersOf(d)' = HoldersOf(d)
    BY DEF HoldersOf, Peek
  <2> SUFFICES ASSUME NEW d \in Entries, mem'[d] = "live"
               PROVE  refcount'[d] = Cardinality(HoldersOf(d)') + Cardinality(PeekersAt(d)')
    BY DEF RefcountExact
  <2>3. refcount'[d] = refcount[d] + (IF d = e THEN 1 ELSE 0)
    BY <1>1, <1>3 DEF Find, Retain, IInv, TypeOK
  <2>4. refcount[d] = Cardinality(HoldersOf(d)) + Cardinality(PeekersAt(d))
    BY Counted DEF Peek
  <2> QED
    BY <2>1, <2>2, <2>3, <2>4, Sizes
<1>6. NoDangling'
  BY <1>1, <1>3 DEF IInv, TypeOK, NoDangling, Peek
<1>7. AtWork'
  BY <1>1 DEF StatesAssumption, IInv, TypeOK, AtWork, Peek, Freeing
<1>8. InMap'
  BY <1>1, <1>3 DEF IInv, TypeOK, InMap, Peek, Find, Retain, File
<1>9. LiveInMap'
  BY <1>1 DEF IInv, TypeOK, LiveInMap, Peek
<1> QED
  BY <1>4, <1>5, <1>6, <1>7, <1>8, <1>9 DEF IInv

\* A reference to e is given up: what all of them have in common.
LEMMA DropStep ==
  ASSUME StatesAssumption, IInv, Apart, NEW c \in Conns, NEW e \in Entries, pc[c] \in {"idle", "peeked"},
         mem[e] = "live", refcount[e] # 0, Drop(c, e), UNCHANGED <<mem, path, map, oom>>,
         \A h \in Holders : ptr'[h] = ptr[h] \/ ptr'[h] = None,
         ptr' \in [Holders -> Entries \cup {None}]
  PROVE  TypeOK' /\ NoDangling' /\ AtWork' /\ InMap' /\ LiveInMap'
<1>1. e # None /\ refcount[e] \in Nat
  BY DEF StatesAssumption, IInv, TypeOK
<1>2. /\ refcount' = [refcount EXCEPT ![e] = @ - 1]
      /\ \A d \in Freeing : entry[d] # e
      /\ \/ /\ refcount[e] = 1
            /\ pc' = [pc EXCEPT ![c] = "freeing"] /\ entry' = [entry EXCEPT ![c] = e]
         \/ pc' = [pc EXCEPT ![c] = "idle"] /\ entry' = [entry EXCEPT ![c] = None]
  BY DEF Drop, MayDrop
<1>3. TypeOK'
  BY <1>1, <1>2 DEF IInv, TypeOK
<1>4. NoDangling'
  BY <1>1, <1>2 DEF IInv, TypeOK, NoDangling
<1>5. AtWork'
  BY <1>1, <1>2 DEF IInv, TypeOK, AtWork, Freeing
<1>6. InMap'
  <2>1. ASSUME NEW d \in Conns, pc'[d] = "destroying"
        PROVE  refcount'[entry'[d]] = 0 /\ \A f \in Files : map'[f] # entry'[d]
    <3>1. d # c /\ pc[d] = "destroying" /\ entry'[d] = entry[d]
      BY <1>2, <2>1 DEF IInv, TypeOK
    <3>2. entry[d] # e
      BY <1>2, <3>1 DEF Freeing
    <3> QED
      BY <1>2, <3>1, <3>2 DEF IInv, TypeOK, InMap
  <2> QED
    BY <2>1 DEF IInv, InMap, File
<1>7. LiveInMap'
  <2> SUFFICES ASSUME NEW d \in Conns, pc[d] = "destroying"
               PROVE  pc'[d] = "destroying" /\ entry'[d] = entry[d]
    BY DEF IInv, LiveInMap
  <2> QED
    BY <1>2 DEF IInv, TypeOK
<1> QED
  BY <1>3, <1>4, <1>5, <1>6, <1>7

\* ... and its second step.
LEMMA UnpeekStep ==
  ASSUME StatesAssumption, IInv, Apart, NEW c \in Conns, Unpeek(c)
  PROVE  IInv'
<1>1. pc[c] = "peeked" /\ entry[c] \in Entries /\ mem[entry[c]] = "live"
  BY DEF Unpeek, IInv, TypeOK, AtWork, NoDangling
<1>2. refcount[entry[c]] # 0
  BY <1>1, Counted DEF PeekersAt
<1>3. Drop(c, entry[c]) /\ UNCHANGED <<mem, path, map, ptr, oom>>
  BY DEF Unpeek
<1>4. TypeOK' /\ NoDangling' /\ AtWork' /\ InMap' /\ LiveInMap'
  BY <1>1, <1>2, <1>3, DropStep DEF IInv, TypeOK
<1>5. RefcountExact'
  <2> SUFFICES ASSUME NEW d \in Entries, mem[d] = "live"
               PROVE  refcount'[d] = Cardinality(HoldersOf(d)') + Cardinality(PeekersAt(d)')
    BY <1>3 DEF RefcountExact
  <2>1. Cardinality(PeekersAt(d)') = Cardinality(PeekersAt(d)) - (IF d = entry[c] THEN 1 ELSE 0)
    <3>1. CASE refcount[entry[c]] = 1
      BY <1>1, <1>3, <3>1, PeekerGoes DEF IInv, Drop
    <3>2. CASE refcount[entry[c]] # 1
      BY <1>1, <1>3, <3>2, PeekerGoes DEF IInv, Drop
    <3> QED
      BY <3>1, <3>2
  <2>2. HoldersOf(d)' = HoldersOf(d)
    BY <1>3 DEF HoldersOf
  <2>3. refcount'[d] = refcount[d] - (IF d = entry[c] THEN 1 ELSE 0)
    BY <1>1, <1>3 DEF Drop, IInv, TypeOK
  <2>4. refcount[d] = Cardinality(HoldersOf(d)) + Cardinality(PeekersAt(d))
    BY Counted
  <2> QED
    BY <2>1, <2>2, <2>3, <2>4, Sizes
<1> QED
  BY <1>4, <1>5 DEF IInv

\* The destructor of a function's or statement's user data.
LEMMA ReleaseStep ==
  ASSUME StatesAssumption, IInv, Apart, NEW h \in Holders, Release(h)
  PROVE  IInv'
<1> DEFINE c == ConnOf[h]
<1>1. c \in Conns /\ pc[c] = "idle" /\ ptr[h] # None /\ ptr[h] \in Entries /\ mem[ptr[h]] = "live"
  BY DEF StatesAssumption, Release, Idle, IInv, TypeOK, NoDangling
<1>2. refcount[ptr[h]] # 0
  BY <1>1, Counted DEF HoldersOf
<1>3. Drop(c, ptr[h]) /\ ptr' = [ptr EXCEPT ![h] = None] /\ UNCHANGED <<mem, path, map, oom>>
  BY DEF Release
<1>4. TypeOK' /\ NoDangling' /\ AtWork' /\ InMap' /\ LiveInMap'
  <2>1. ptr' \in [Holders -> Entries \cup {None}]
        /\ \A g \in Holders : ptr'[g] = ptr[g] \/ ptr'[g] = None
    BY <1>3 DEF IInv, TypeOK
  <2> HIDE DEF c
  <2> QED
    BY <1>1, <1>2, <1>3, <2>1, DropStep
<1>5. RefcountExact'
  <2> SUFFICES ASSUME NEW d \in Entries, mem[d] = "live"
               PROVE  refcount'[d] = Cardinality(HoldersOf(d)') + Cardinality(PeekersAt(d)')
    BY <1>3 DEF RefcountExact
  <2>1. Cardinality(HoldersOf(d)') = Cardinality(HoldersOf(d)) - (IF d = ptr[h] THEN 1 ELSE 0)
    BY <1>1, <1>3, HolderGoes DEF IInv
  <2>2. PeekersAt(d)' = PeekersAt(d)
    <3>1. CASE refcount[ptr[h]] = 1
      BY <1>1, <1>3, <3>1, PeekersStay DEF IInv, Drop
    <3>2. CASE refcount[ptr[h]] # 1
      BY <1>1, <1>3, <3>2, PeekersStay DEF IInv, Drop
    <3> QED
      BY <3>1, <3>2
  <2>3. refcount'[d] = refcount[d] - (IF d = ptr[h] THEN 1 ELSE 0)
    BY <1>1, <1>3 DEF Drop, IInv, TypeOK
  <2>4. refcount[d] = Cardinality(HoldersOf(d)) + Cardinality(PeekersAt(d))
    BY Counted
  <2> QED
    BY <2>1, <2>2, <2>3, <2>4, Sizes
<1> QED
  BY <1>4, <1>5 DEF IInv

\* The second look at the count, under the lock.
LEMMA RecheckStep ==
  ASSUME StatesAssumption, IInv, NEW c \in Conns, Recheck(c)
  PROVE  IInv'
<1> DEFINE e == entry[c]
<1>1. pc[c] = "freeing" /\ e \in Entries /\ mem[e] = "live" /\ UNCHANGED <<mem, refcount, path, ptr, oom>>
  BY DEF Recheck, IInv, TypeOK, AtWork
<1>2. PICK p \in {"idle", "destroying"}, q \in {e, None} :
        /\ pc' = [pc EXCEPT ![c] = p] /\ entry' = [entry EXCEPT ![c] = q]
        /\ p = "idle" => q = None /\ map' = map
        /\ p = "destroying" => q = e /\ refcount[e] = 0 /\ map' = [map EXCEPT ![path[e]] = None]
  <2>1. CASE InUseAgain(e)
    BY <2>1 DEF Recheck
  <2>2. CASE ~InUseAgain(e)
    <3>1. refcount[e] = 0
      BY <1>1, <2>2 DEF InUseAgain, IInv, TypeOK
    <3>2. entry' = [entry EXCEPT ![c] = e]
      BY <2>2 DEF Recheck, IInv, TypeOK
    <3> QED
      BY <2>2, <3>1, <3>2 DEF Recheck, Unlink
  <2> QED
    BY <2>1, <2>2
<1> HIDE DEF e
<1>3. TypeOK'
  BY <1>1, <1>2 DEF IInv, TypeOK
<1>4. RefcountExact'
  <2>1. \A d \in Entries : PeekersAt(d)' = PeekersAt(d)
    BY <1>1, <1>2, PeekersStay DEF IInv
  <2> QED
    BY <1>1, <2>1 DEF IInv, RefcountExact, HoldersOf
<1>5. NoDangling'
  BY <1>1, <1>2 DEF StatesAssumption, IInv, TypeOK, NoDangling
<1>6. AtWork'
  <2>1. entry[c] = e
    BY DEF e
  <2> QED
    BY <1>1, <1>2, <2>1 DEF StatesAssumption, IInv, TypeOK, AtWork, Freeing
<1>7. InMap'
  <2>1. \A f \in Files : map'[f] = map[f] \/ map'[f] = None
    BY <1>1, <1>2 DEF IInv, TypeOK
  <2>2. ASSUME NEW d \in Conns, pc'[d] = "destroying"
        PROVE  refcount'[entry'[d]] = 0 /\ \A f \in Files : map'[f] # entry'[d]
    <3>1. CASE d = c
      <4>1. refcount[e] = 0 /\ map' = [map EXCEPT ![path[e]] = None] /\ entry'[d] = e
        BY <1>2, <2>2, <3>1 DEF IInv, TypeOK
      <4>2. \A f \in Files : map[f] = e => f = path[e]
        BY <1>1 DEF StatesAssumption, IInv, InMap
      <4> QED
        BY <1>1, <4>1, <4>2 DEF StatesAssumption, IInv, TypeOK
    <3>2. CASE d # c
      <4>1. pc[d] = "destroying" /\ entry'[d] = entry[d] /\ entry[d] # None
        BY <1>2, <2>2, <3>2 DEF IInv, TypeOK, AtWork
      <4> QED
        BY <1>1, <2>1, <4>1 DEF IInv, InMap
    <3> QED
      BY <3>1, <3>2
  <2> QED
    BY <1>1, <2>1, <2>2 DEF IInv, InMap, File
<1>8. LiveInMap'
  <2> SUFFICES ASSUME ~oom, NEW d \in Entries, mem[d] = "live"
               PROVE  \/ map'[path[d]] = d
                      \/ \E b \in Conns : pc'[b] = "destroying" /\ entry'[b] = d
    BY <1>1 DEF LiveInMap
  <2>1. CASE \E b \in Conns : pc[b] = "destroying" /\ entry[b] = d
    BY <1>1, <1>2, <2>1 DEF IInv, TypeOK
  <2>2. CASE map[path[d]] = d /\ p = "idle"
    BY <1>2, <2>2
  <2>3. CASE map[path[d]] = d /\ p = "destroying"
    <3>1. CASE d = e
      BY <1>2, <2>3, <3>1 DEF IInv, TypeOK
    <3>2. CASE d # e
      <4>1. map[path[e]] = e
        <5>1. \A b \in Conns : pc[b] = "destroying" => entry[b] # e
          BY <1>1 DEF IInv, AtWork, Freeing, e
        <5> QED
          BY <1>1, <5>1 DEF IInv, LiveInMap
      <4> QED
        BY <1>1, <1>2, <2>3, <3>2, <4>1 DEF IInv, TypeOK
    <3> QED
      BY <3>1, <3>2
  <2> QED
    BY <2>1, <2>2, <2>3 DEF IInv, LiveInMap
<1> QED
  BY <1>3, <1>4, <1>5, <1>6, <1>7, <1>8 DEF IInv

\* The entry is destroyed and freed.
LEMMA DestroyStep ==
  ASSUME StatesAssumption, IInv, NEW c \in Conns, Destroy(c)
  PROVE  IInv'
<1> DEFINE e == entry[c]
<1>1. /\ pc[c] = "destroying" /\ e \in Entries /\ mem[e] = "live" /\ refcount[e] = 0
      /\ \A f \in Files : map[f] # e
  BY DEF Destroy, IInv, TypeOK, AtWork, InMap
<1>2. /\ mem' = [mem EXCEPT ![e] = "freed"]
      /\ pc' = [pc EXCEPT ![c] = "idle"] /\ entry' = [entry EXCEPT ![c] = None]
      /\ UNCHANGED <<refcount, path, map, ptr, oom>>
  BY DEF Destroy
<1>3. /\ \A h \in Holders : ptr[h] # e
      /\ \A d \in Conns : d # c => entry[d] # e
  <2>1. HoldersOf(e) = {}
    BY <1>1, Counted
  <2>2. \A d \in Conns : pc[c] = "destroying" /\ entry[d] = entry[c] => c = d
    BY Safe DEF NoUseAfterFree
  <2> QED
    BY <1>1, <2>1, <2>2 DEF HoldersOf
<1>4. TypeOK'
  BY <1>1, <1>2 DEF IInv, TypeOK
<1>5. RefcountExact'
  <2>1. \A d \in Entries : PeekersAt(d)' = PeekersAt(d)
    BY <1>1, <1>2, PeekersStay DEF IInv
  <2> QED
    BY <1>2, <2>1 DEF IInv, TypeOK, RefcountExact, HoldersOf
<1>6. NoDangling'
  BY <1>1, <1>2, <1>3 DEF IInv, TypeOK, NoDangling
<1>7. AtWork'
  BY <1>1, <1>2 DEF IInv, TypeOK, AtWork, Freeing
<1>8. InMap'
  BY <1>1, <1>2 DEF IInv, TypeOK, InMap, File
<1>9. LiveInMap'
  <2> SUFFICES ASSUME ~oom, NEW d \in Entries, mem'[d] = "live"
               PROVE  \/ map[path[d]] = d
                      \/ \E b \in Conns : pc'[b] = "destroying" /\ entry'[b] = d
    BY <1>2 DEF LiveInMap
  <2>1. d # e /\ mem[d] = "live"
    BY <1>1, <1>2 DEF IInv, TypeOK
  <2> QED
    BY <1>2, <2>1 DEF IInv, TypeOK, LiveInMap
<1> QED
  BY <1>4, <1>5, <1>6, <1>7, <1>8, <1>9 DEF IInv


\* Every step preserves the invariant.
LEMMA Step ==
  ASSUME StatesAssumption, IInv, Apart, [Next]_vars
  PROVE  IInv'
<1>1. CASE UNCHANGED vars
  BY <1>1 DEF vars, IInv, TypeOK, RefcountExact, HoldersOf, PeekersAt, NoDangling, AtWork, Freeing,
              InMap, File, LiveInMap
<1>2. CASE Next
  <2>1. ASSUME NEW h \in Holders, GetExisting(h) \/ Release(h) \/ \E e \in Entries : Create(h, e)
        PROVE  IInv'
    BY <2>1, GetExistingStep, ReleaseStep, CreateStep
  <2>2. ASSUME NEW c \in Conns, Peek(c) \/ Unpeek(c) \/ Recheck(c) \/ Destroy(c)
        PROVE  IInv'
    BY <2>2, PeekStep, UnpeekStep, RecheckStep, DestroyStep
  <2> QED
    BY <1>2, <2>1, <2>2 DEF Next
<1> QED
  BY <1>1, <1>2

-----------------------------------------------------------------------------
(* The theorems *)

\* The invariant holds of every registry whose application keeps releases apart.
THEOREM Invariant ==
  ASSUME StatesAssumption, Apart
  PROVE  Spec => []IInv
<1>1. Init => IInv
  BY Initially
<1>2. IInv /\ [Next]_vars => IInv'
  BY Step
<1> QED
  BY <1>1, <1>2, PTL DEF Spec

\* The count of a state is the number of functions, statements and running calls that
\* use it, and a used state is the one its file leads to: entry_retain, entry_release.
THEOREM CountsExactAlways ==
  ASSUME StatesAssumption, Apart
  PROVE  Spec => []Consistent
<1>1. IInv => Consistent
  BY Registered DEF IInv, Consistent
<1> QED
  BY <1>1, Invariant, PTL

\* Nobody is left with a freed state, and one thread at most frees it: entry_free.
THEOREM NeverUsedAfterFree ==
  ASSUME StatesAssumption, Apart
  PROVE  Spec => []NoUseAfterFree
<1>1. IInv => NoUseAfterFree
  BY Safe
<1> QED
  BY <1>1, Invariant, PTL

\* The entries that have been disposed of, as StatePerFile counts them.
Past == {e \in Entries : \/ mem[e] = "freed"
                         \/ \E c \in Conns : pc[c] = "destroying" /\ entry[c] = e}

\* A step that is none of the abstract registry.
LEMMA Stutter ==
  ASSUME UNCHANGED <<map, ptr, oom>>, Past' = Past
  PROVE  UNCHANGED Abstract!vars
BY DEF Abstract!vars, Past

\* A user gets the state of its file.
LEMMA OpenRefines ==
  ASSUME StatesAssumption, IInv, NEW h \in Holders, NEW e \in Entries,
         \/ GetExisting(h) /\ ptr' = [ptr EXCEPT ![h] = e] /\ map[File(h)] = e
         \/ Create(h, e) /\ ~oom'
  PROVE  Abstract!Open(h, e) /\ UNCHANGED oom
<1>1. File(h) \in Files /\ ptr[h] = None /\ ptr' = [ptr EXCEPT ![h] = e] /\ UNCHANGED <<pc, entry, oom>>
  BY DEF StatesAssumption, File, GetExisting, Create, Insert
<1>2. map' = [map EXCEPT ![File(h)] = e]
  BY <1>1 DEF GetExisting, Create, Insert, IInv, TypeOK
<1>3. Past' = Past
  BY <1>1 DEF Past, GetExisting, Create, IInv, TypeOK
<1>4. \/ map[File(h)] = e
      \/ map[File(h)] = None /\ e \notin Past /\ \A g \in Files : map[g] # e
  <2>1. CASE Create(h, e)
    <3>1. \A c \in Conns : entry[c] # e
      BY <2>1 DEF StatesAssumption, Create, IInv, NoDangling
    <3>2. \A g \in Files : map[g] # e
      BY <2>1 DEF StatesAssumption, Create, IInv, NoDangling
    <3> QED
      BY <2>1, <3>1, <3>2 DEF Create, Past
  <2> QED
    BY <2>1
<1> QED
  BY <1>1, <1>2, <1>3, <1>4 DEF Abstract!Open, Past

\* A user gives it up.
LEMMA ReleaseRefines ==
  ASSUME StatesAssumption, IInv, NEW h \in Holders, Release(h)
  PROVE  Abstract!Close(h) /\ UNCHANGED oom
<1>1. ConnOf[h] \in Conns /\ pc[ConnOf[h]] = "idle"
      /\ \E p \in {"freeing", "idle"} : \E q : pc' = [pc EXCEPT ![ConnOf[h]] = p] /\ entry' = [entry EXCEPT ![ConnOf[h]] = q]
  BY DEF StatesAssumption, Release, Drop, Idle
<1>2. Past' = Past
  BY <1>1 DEF Release, Past, IInv, TypeOK
<1> QED
  BY <1>2 DEF Abstract!Close, Release, Past

\* An entry that leaves the map is disposed of.
LEMMA UnlinkRefines ==
  ASSUME StatesAssumption, IInv, ~oom, NEW c \in Conns, Recheck(c), ~InUseAgain(entry[c]),
         NEW f \in Files, f = path[entry[c]]
  PROVE  Abstract!Retire(f)
<1> DEFINE e == entry[c]
<1>1. pc[c] = "freeing" /\ e \in Entries /\ mem[e] = "live" /\ path[e] = f
      /\ pc' = [pc EXCEPT ![c] = "destroying"] /\ map' = [map EXCEPT ![f] = None]
      /\ UNCHANGED <<mem, ptr, entry>>
  BY DEF Recheck, Unlink, IInv, TypeOK, AtWork
<1>2. refcount[e] = 0
  BY <1>1 DEF InUseAgain, IInv, TypeOK
<1>3. map[f] = e
  <2>1. \A b \in Conns : pc[b] = "destroying" => entry[b] # e
    BY <1>1 DEF IInv, AtWork, Freeing
  <2> QED
    BY <1>1, <2>1 DEF IInv, LiveInMap
<1>4. \A h \in Holders : File(h) = f => ptr[h] = None
  <2>1. HoldersOf(e) = {}
    BY <1>1, <1>2, Counted
  <2>2. \A h \in Holders : ptr[h] # None => map[File(h)] = ptr[h]
    BY Registered DEF UsedIsRegistered
  <2> QED
    BY <1>1, <1>3, <2>1, <2>2 DEF HoldersOf
<1>5. Past' = Past \cup {e}
  BY <1>1 DEF Past, IInv, TypeOK
<1> QED
  BY <1>1, <1>3, <1>4, <1>5 DEF StatesAssumption, Abstract!Retire, Abstract!UsersOf, Past

\* The other steps.
LEMMA ConnRefines ==
  ASSUME StatesAssumption, IInv, NEW c \in Conns, Peek(c) \/ Unpeek(c) \/ Recheck(c) \/ Destroy(c)
  PROVE  \/ UNCHANGED Abstract!vars
         \/ oom'
         \/ (\E f \in Files : Abstract!Retire(f)) /\ UNCHANGED oom
<1>1. CASE Peek(c)
  <2>1. Past' = Past
    BY <1>1 DEF Peek, Past, IInv, TypeOK
  <2> QED
    BY <1>1, <2>1, Stutter DEF Peek
<1>2. CASE Unpeek(c)
  <2>1. pc[c] = "peeked" /\ \E p \in {"freeing", "idle"} : \E q : pc' = [pc EXCEPT ![c] = p] /\ entry' = [entry EXCEPT ![c] = q]
    BY <1>2 DEF Unpeek, Drop
  <2>2. Past' = Past
    BY <1>2, <2>1 DEF Unpeek, Past, IInv, TypeOK
  <2> QED
    BY <1>2, <2>2, Stutter DEF Unpeek
<1>3. CASE Recheck(c) /\ InUseAgain(entry[c])
  <2>1. Past' = Past
    BY <1>3 DEF Recheck, Past, IInv, TypeOK
  <2> QED
    BY <1>3, <2>1, Stutter DEF Recheck
<1>4. CASE Recheck(c) /\ ~InUseAgain(entry[c])
  <2>1. UNCHANGED oom
    BY <1>4 DEF Recheck
  <2>2. CASE oom
    BY <2>1, <2>2
  <2>3. CASE ~oom
    <3>1. PICK f \in Files : f = path[entry[c]]
      BY <1>4 DEF Recheck, IInv, TypeOK, AtWork
    <3>2. Abstract!Retire(f)
      BY <1>4, <2>3, <3>1, UnlinkRefines
    <3> QED
      BY <2>1, <3>2
  <2> QED
    BY <2>2, <2>3
<1>5. CASE Destroy(c)
  <2>1. pc[c] = "destroying" /\ entry[c] \in Entries /\ mem' = [mem EXCEPT ![entry[c]] = "freed"]
        /\ pc' = [pc EXCEPT ![c] = "idle"] /\ entry' = [entry EXCEPT ![c] = None]
    BY <1>5 DEF Destroy, IInv, TypeOK, AtWork
  <2>2. Past' = Past
    BY <2>1 DEF Past, IInv, TypeOK
  <2> QED
    BY <1>5, <2>2, Stutter DEF Destroy
<1> QED
  BY <1>1, <1>2, <1>3, <1>4, <1>5

\* While the map has memory, everybody who opens a file gets the one state of it, which is
\* disposed of only when nobody uses it.
THEOREM RegistryImplements ==
  ASSUME StatesAssumption, Apart
  PROVE  Spec => ImplementsStatePerFile
<1>1. Init => Abstract!Init
  BY DEF Init, Abstract!Init
<1>2. IInv /\ [Next]_vars => [oom' \/ (Abstract!Next /\ UNCHANGED oom)]_(Abstract!vars)
  <2> SUFFICES ASSUME IInv, [Next]_vars
               PROVE  \/ UNCHANGED Abstract!vars \/ oom' \/ (Abstract!Next /\ UNCHANGED oom)
    OBVIOUS
  <2>1. CASE UNCHANGED vars
    BY <2>1, Stutter DEF vars, Past
  <2>2. ASSUME NEW h \in Holders, GetExisting(h)
        PROVE  \E u \in Holders, e \in Entries : Abstract!Open(u, e) /\ UNCHANGED oom
    <3>1. PICK e \in Entries : Find(File(h), e) /\ ptr' = [ptr EXCEPT ![h] = e]
      BY <2>2 DEF GetExisting
    <3> QED
      BY <2>2, <3>1, OpenRefines DEF Find
  <2>3. ASSUME NEW h \in Holders, NEW e \in Entries, Create(h, e)
        PROVE  oom' \/ (Abstract!Open(h, e) /\ UNCHANGED oom)
    BY <2>3, OpenRefines
  <2>4. ASSUME NEW h \in Holders, Release(h)
        PROVE  Abstract!Close(h) /\ UNCHANGED oom
    BY <2>4, ReleaseRefines
  <2>5. ASSUME NEW c \in Conns, Peek(c) \/ Unpeek(c) \/ Recheck(c) \/ Destroy(c)
        PROVE  UNCHANGED Abstract!vars \/ oom' \/ ((\E f \in Files : Abstract!Retire(f)) /\ UNCHANGED oom)
    BY <2>5, ConnRefines
  <2>6. CASE Next
    BY <2>2, <2>3, <2>4, <2>5, <2>6 DEF Next, Abstract!Next
  <2> QED
    BY <2>1, <2>6
<1> QED
  BY <1>1, <1>2, Invariant, PTL DEF Spec, ImplementsStatePerFile, Abstract!Spec

=============================================================================
