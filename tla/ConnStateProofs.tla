-------------------------- MODULE ConnStateProofs --------------------------
(***************************************************************************)
(* Proofs about ConnState for every set of threads, connections, hooks and *)
(* entries, and with memory lacking at any time: counts are exact, nobody  *)
(* has a freed entry, nothing leaks, and a connection has one state.       *)
(***************************************************************************)
EXTENDS ConnState, FiniteSetTheorems, TLAPS

-----------------------------------------------------------------------------
(* The inductive invariant *)

\* The entry and the hook a thread has at each point.
AtWork ==
  \A th \in Threads :
    /\ pc[th] \in {"idle", "alloc"} <=> entry[th] = None
    /\ pc[th] \in {"alloc", "insert"} <=> hook[th] # None
    /\ hook[th] # None => ptr[hook[th]] = None
    /\ \A u \in Threads : hook[u] = hook[th] /\ hook[th] # None => u = th

\* An entry that its maker has not published yet, or will throw away, is his alone.
Fresh ==
  \A th \in Threads : pc[th] \in {"insert", "discard"} =>
    /\ HoldersOf(entry[th]) = {}
    /\ \A d \in Dbs : map[d] # entry[th]
    /\ \A u \in Threads : entry[u] = entry[th] => u = th
    /\ pc[th] = "insert" => db[entry[th]] = DbOf[hook[th]]

\* The references to an entry are given up by one thread at a time, and an entry that
\* will be freed has none left and is not in the map.
Leaving ==
  /\ \A t, u \in Threads : /\ {pc[t], pc[u]} \subseteq {"dropping", "freeing", "free"}
                           /\ entry[t] = entry[u]
                           => t = u
  /\ \A th \in Threads : pc[th] = "free" => refcount[entry[th]] = 0 /\ \A d \in Dbs : map[d] # entry[th]

\* The connection of an entry, of its slot in the map and of its hooks.
OfOneDb ==
  /\ \A d \in Dbs : map[d] # None => db[map[d]] = d
  /\ \A h \in Hooks : ptr[h] # None => db[ptr[h]] \in {DbOf[h], None}

\* As long as the map has memory, an entry that still has a connection is found there, but
\* for one that is not published.
Findable ==
  ~oom => \A e \in Entries : mem[e] = "live" /\ db[e] # None =>
            \/ map[db[e]] = e
            \/ \E th \in Threads : pc[th] \in {"insert", "discard"} /\ entry[th] = e

NoDangling ==
  /\ \A h \in Hooks : ptr[h] # None => mem[ptr[h]] = "live"
  /\ \A d \in Dbs : map[d] # None => mem[map[d]] = "live"
  /\ \A th \in Threads : entry[th] # None => mem[entry[th]] = "live"

\* A live entry has references, or a thread that is about to free it.
Kept ==
  \A e \in Entries : mem[e] = "live" =>
    refcount[e] > 0 \/ \E th \in Threads : pc[th] \in {"freeing", "free"} /\ entry[th] = e

IInv == TypeOK /\ RefcountExact /\ NoDangling /\ AtWork /\ Fresh /\ Leaving /\ OfOneDb /\ Findable /\ Kept

\* Sizes of the two sets of references to an entry.
LEMMA Sizes ==
  ASSUME NEW e
  PROVE  /\ IsFiniteSet(HoldersOf(e)) /\ IsFiniteSet(InTransit(e))
         /\ Cardinality(HoldersOf(e)) \in Nat
         /\ Cardinality(HoldersOf(e)) = 0 <=> HoldersOf(e) = {}
         /\ Cardinality(InTransit(e)) \in Nat
         /\ Cardinality(InTransit(e)) = 0 <=> InTransit(e) = {}
<1>1. IsFiniteSet(HoldersOf(e)) /\ IsFiniteSet(InTransit(e))
  BY ThreadsAssumption, HooksAssumption, FS_Subset DEF HoldersOf, InTransit
<1> QED
  BY <1>1, FS_CardinalityType, FS_EmptySet

\* The count of a live entry.
LEMMA Counted ==
  ASSUME IInv, NEW e \in Entries, mem[e] = "live"
  PROVE  /\ refcount[e] = Cardinality(HoldersOf(e)) + Cardinality(InTransit(e))
         /\ refcount[e] = 0 <=> HoldersOf(e) = {} /\ InTransit(e) = {}
BY Sizes DEF IInv, RefcountExact

\* An entry a thread frees is in nobody else's hands.
LEMMA Alone ==
  ASSUME IInv, NEW t \in Threads, pc[t] \in {"discard", "free"}
  PROVE  /\ entry[t] \in Entries /\ mem[entry[t]] = "live"
         /\ HoldersOf(entry[t]) = {}
         /\ \A d \in Dbs : map[d] # entry[t]
         /\ \A u \in Threads : entry[u] = entry[t] => u = t
<1>1. entry[t] \in Entries /\ mem[entry[t]] = "live"
  BY DEF IInv, TypeOK, AtWork, NoDangling
<1>2. CASE pc[t] = "discard"
  BY <1>1, <1>2 DEF IInv, Fresh
<1>3. CASE pc[t] = "free"
  <2>1. refcount[entry[t]] = 0 /\ \A d \in Dbs : map[d] # entry[t]
    BY <1>3 DEF IInv, Leaving
  <2>2. HoldersOf(entry[t]) = {} /\ InTransit(entry[t]) = {}
    BY <1>1, <2>1, Counted
  <2>3. ASSUME NEW u \in Threads, entry[u] = entry[t] PROVE u = t
    <3>1. pc[u] \in {"freeing", "free"}
      BY <1>1, <2>2, <2>3, NoneAssumption DEF InTransit, IInv, TypeOK, AtWork
    <3> QED
      BY <1>3, <2>3, <3>1 DEF IInv, Leaving
  <2> QED
    BY <1>1, <2>1, <2>2, <2>3
<1> QED
  BY <1>2, <1>3

\* What the runs check follows from the invariant.
LEMMA Safe ==
  ASSUME IInv
  PROVE  Consistent /\ NoUseAfterFree /\ OneStatePerConnection /\ NothingLeaks
<1>1. ASSUME ~oom, NEW h \in Hooks, ptr[h] # None, db[ptr[h]] # None
      PROVE  map[DbOf[h]] = ptr[h]
  <2>1. ptr[h] \in Entries /\ mem[ptr[h]] = "live" /\ db[ptr[h]] = DbOf[h]
    BY <1>1 DEF IInv, TypeOK, NoDangling, OfOneDb
  <2>2. \A th \in Threads : pc[th] \in {"insert", "discard"} => entry[th] # ptr[h]
    BY DEF IInv, Fresh, HoldersOf
  <2> QED
    BY <1>1, <2>1, <2>2 DEF IInv, Findable
<1>2. Consistent
  BY <1>1 DEF Consistent, MapAgrees, IInv, OfOneDb
<1>3. NoUseAfterFree
  BY Alone DEF NoUseAfterFree, IInv, NoDangling
<1>4. OneStatePerConnection
  BY <1>1 DEF OneStatePerConnection
<1>5. NothingLeaks
  <2> SUFFICES ASSUME NEW e \in Entries, mem[e] = "live", HoldersOf(e) = {}
               PROVE  \E th \in Threads : entry[th] = e
    BY DEF NothingLeaks
  <2>1. CASE refcount[e] > 0
    <3>1. refcount[e] # 0
      BY <2>1 DEF IInv, TypeOK
    <3>2. InTransit(e) # {}
      BY <3>1, Counted
    <3> QED
      BY <3>2 DEF InTransit
  <2> QED
    BY <2>1 DEF IInv, Kept
<1> QED
  BY <1>2, <1>3, <1>4, <1>5

\* The first state.
LEMMA Initially ==
  ASSUME Init
  PROVE  IInv
<1>1. TypeOK
  BY DEF Init, TypeOK
<1>2. RefcountExact /\ NoDangling /\ Findable /\ Kept
  BY DEF Init, RefcountExact, NoDangling, Findable, Kept
<1>3. AtWork /\ Fresh /\ Leaving
  BY DEF Init, AtWork, Fresh, Leaving
<1>4. OfOneDb
  BY DEF Init, OfOneDb
<1> QED
  BY <1>1, <1>2, <1>3, <1>4 DEF IInv
-----------------------------------------------------------------------------
(* What the assignments do to the two sets of references *)

InHand == {"insert", "discard", "dropping"}

LEMMA HolderCount ==
  ASSUME TypeOK, NEW h \in Hooks, NEW x, ptr' = [ptr EXCEPT ![h] = x]
  PROVE  \A d \in Entries :
           Cardinality(HoldersOf(d)') = Cardinality(HoldersOf(d)) - (IF ptr[h] = d THEN 1 ELSE 0)
                                                                  + (IF x = d THEN 1 ELSE 0)
<1> SUFFICES ASSUME NEW d \in Entries
             PROVE  Cardinality(HoldersOf(d)') = Cardinality(HoldersOf(d)) - (IF ptr[h] = d THEN 1 ELSE 0)
                                                                           + (IF x = d THEN 1 ELSE 0)
  OBVIOUS
<1> DEFINE Rest == HoldersOf(d) \ {h}
<1>1. HoldersOf(d)' = IF x = d THEN Rest \cup {h} ELSE Rest
  BY DEF TypeOK, HoldersOf
<1>2. /\ IsFiniteSet(Rest) /\ Cardinality(Rest) \in Nat
      /\ Cardinality(Rest) = Cardinality(HoldersOf(d)) - (IF ptr[h] = d THEN 1 ELSE 0)
  <2>1. h \in HoldersOf(d) <=> ptr[h] = d
    BY DEF HoldersOf
  <2>2. IsFiniteSet(Rest)
    BY Sizes, FS_Subset
  <2>3. CASE ptr[h] = d
    BY <2>1, <2>2, <2>3, Sizes, FS_RemoveElement, FS_CardinalityType
  <2>4. CASE ptr[h] # d
    <3>1. Rest = HoldersOf(d)
      BY <2>1, <2>4
    <3> QED
      BY <2>2, <2>4, <3>1, Sizes
  <2> QED
    BY <2>3, <2>4
<1>3. Cardinality(Rest \cup {h}) = Cardinality(Rest) + 1
  BY <1>2, FS_AddElement
<1> HIDE DEF Rest
<1>4. CASE x = d
  BY <1>1, <1>2, <1>3, <1>4
<1>5. CASE x # d
  BY <1>1, <1>2, <1>5
<1> QED
  BY <1>4, <1>5

LEMMA TransitCount ==
  ASSUME TypeOK, NEW th \in Threads, NEW p, NEW x,
         pc' = [pc EXCEPT ![th] = p], entry' = [entry EXCEPT ![th] = x]
  PROVE  \A d \in Entries :
           Cardinality(InTransit(d)') = Cardinality(InTransit(d))
             - (IF entry[th] = d /\ pc[th] \in InHand THEN 1 ELSE 0) + (IF x = d /\ p \in InHand THEN 1 ELSE 0)
<1> SUFFICES ASSUME NEW d \in Entries
             PROVE  Cardinality(InTransit(d)') = Cardinality(InTransit(d))
                      - (IF entry[th] = d /\ pc[th] \in InHand THEN 1 ELSE 0)
                      + (IF x = d /\ p \in InHand THEN 1 ELSE 0)
  OBVIOUS
<1> DEFINE Rest == InTransit(d) \ {th}
<1> DEFINE was == entry[th] = d /\ pc[th] \in InHand
<1> DEFINE is == x = d /\ p \in InHand
<1>1. InTransit(d)' = IF is THEN Rest \cup {th} ELSE Rest
  BY DEF TypeOK, InTransit, InHand
<1>2. /\ IsFiniteSet(Rest) /\ Cardinality(Rest) \in Nat
      /\ Cardinality(Rest) = Cardinality(InTransit(d)) - (IF was THEN 1 ELSE 0)
  <2>1. th \in InTransit(d) <=> was
    BY DEF InTransit, InHand
  <2>2. IsFiniteSet(Rest)
    BY Sizes, FS_Subset
  <2> HIDE DEF was
  <2>3. CASE was
    BY <2>1, <2>2, <2>3, Sizes, FS_RemoveElement, FS_CardinalityType
  <2>4. CASE ~was
    <3>1. Rest = InTransit(d)
      BY <2>1, <2>4
    <3> QED
      BY <2>2, <2>4, <3>1, Sizes
  <2> QED
    BY <2>3, <2>4
<1>3. Cardinality(Rest \cup {th}) = Cardinality(Rest) + 1
  BY <1>2, FS_AddElement
<1> HIDE DEF Rest
<1>4. CASE is
  BY <1>1, <1>2, <1>3, <1>4
<1>5. CASE ~is
  BY <1>1, <1>2, <1>5
<1> QED
  BY <1>4, <1>5

-----------------------------------------------------------------------------
(* The steps of init *)

\* An entry in the map is published, and its holder may be joined by another.
LEMMA InMap ==
  ASSUME IInv, NEW d \in Dbs, map[d] # None
  PROVE  /\ map[d] \in Entries /\ mem[map[d]] = "live" /\ db[map[d]] = d
         /\ \A th \in Threads : pc[th] \in {"insert", "discard", "free"} => entry[th] # map[d]
         /\ refcount[map[d]] \in Nat
BY DEF IInv, TypeOK, NoDangling, OfOneDb, Fresh, Leaving

\* A hook gets the entry of its connection, by a thread that had another entry or none.
LEMMA AdoptStep ==
  ASSUME IInv, NEW h \in Hooks, NEW th \in Threads, ptr[h] = None, map[DbOf[h]] # None, Adopt(h, map[DbOf[h]]),
         UNCHANGED <<mem, db, map, entry, oom>>,
         \/ pc' = pc /\ hook' = hook /\ \A u \in Threads : hook[u] # h
         \/ /\ pc[th] = "insert" /\ hook[th] = h
            /\ pc' = [pc EXCEPT ![th] = "discard"] /\ hook' = [hook EXCEPT ![th] = None]
  PROVE  IInv'
<1> DEFINE e == map[DbOf[h]]
<1>1. DbOf[h] \in Dbs
  BY HooksAssumption
<1>2. /\ e \in Entries /\ mem[e] = "live" /\ db[e] = DbOf[h] /\ refcount[e] \in Nat /\ e # None
      /\ \A u \in Threads : pc[u] \in {"insert", "discard", "free"} => entry[u] # e
  BY <1>1, InMap
<1>3. refcount' = [refcount EXCEPT ![e] = @ + 1] /\ ptr' = [ptr EXCEPT ![h] = e]
  BY DEF Adopt
<1> HIDE DEF e
<1>4. TypeOK'
  BY <1>2, <1>3 DEF IInv, TypeOK
<1>5. \A u \in Threads : \/ pc'[u] = pc[u] /\ hook'[u] = hook[u]
                         \/ u = th /\ pc[u] = "insert" /\ pc'[u] = "discard" /\ hook'[u] = None
  BY DEF IInv, TypeOK
<1>6. RefcountExact'
  <2>1. \A d \in Entries :
           Cardinality(HoldersOf(d)') = Cardinality(HoldersOf(d)) - (IF ptr[h] = d THEN 1 ELSE 0)
                                                                  + (IF e = d THEN 1 ELSE 0)
    BY <1>3, HolderCount DEF IInv
  <2>2. \A d \in Entries : InTransit(d)' = InTransit(d)
    BY <1>5 DEF InTransit
  <2> SUFFICES ASSUME NEW d \in Entries, mem[d] = "live"
               PROVE  refcount'[d] = Cardinality(HoldersOf(d)') + Cardinality(InTransit(d)')
    BY DEF RefcountExact
  <2>3. refcount'[d] = refcount[d] + (IF d = e THEN 1 ELSE 0)
    BY <1>2, <1>3 DEF IInv, TypeOK
  <2>4. refcount[d] = Cardinality(HoldersOf(d)) + Cardinality(InTransit(d))
    BY Counted
  <2>5. ptr[h] # d
    BY NoneAssumption
  <2> QED
    BY <2>1, <2>2, <2>3, <2>4, <2>5, Sizes
<1>7. NoDangling'
  BY <1>2, <1>3 DEF IInv, TypeOK, NoDangling
<1>8. AtWork'
  <2>1. \A u \in Threads : hook'[u] # h
    BY HooksAssumption, NoneAssumption DEF IInv, TypeOK, AtWork
  <2>2. \A g \in Hooks : g # h => ptr'[g] = ptr[g]
    BY <1>3 DEF IInv, TypeOK
  <2> QED
    BY <1>5, <2>1, <2>2, NoneAssumption DEF IInv, TypeOK, AtWork
<1>9. Fresh'
  <2> SUFFICES ASSUME NEW u \in Threads, pc'[u] \in {"insert", "discard"}
               PROVE  /\ HoldersOf(entry[u])' = {}
                      /\ \A d \in Dbs : map[d] # entry[u]
                      /\ \A v \in Threads : entry[v] = entry[u] => v = u
                      /\ pc'[u] = "insert" => db[entry[u]] = DbOf[hook'[u]]
    BY DEF Fresh, HoldersOf
  <2>1. pc[u] \in {"insert", "discard"} /\ entry[u] # e
    BY <1>2, <1>5
  <2>2. HoldersOf(entry[u]) = {}
    BY <2>1 DEF IInv, Fresh
  <2>3. HoldersOf(entry[u])' = {}
    BY <1>3, <2>1, <2>2 DEF HoldersOf, IInv, TypeOK
  <2> QED
    BY <1>5, <2>1, <2>3 DEF IInv, Fresh
<1>10. Leaving'
  <2>1. \A u \in Threads : pc'[u] \in {"dropping", "freeing", "free"} => pc'[u] = pc[u]
    BY <1>5
  <2>2. \A u \in Threads : pc[u] = "free" => entry[u] # e /\ entry[u] \in Entries
    BY <1>2 DEF IInv, TypeOK, AtWork
  <2> QED
    BY <1>2, <1>3, <2>1, <2>2 DEF IInv, TypeOK, Leaving
<1>11. OfOneDb'
  BY <1>2, <1>3 DEF IInv, TypeOK, OfOneDb
<1>12. Findable'
  <2>1. \A u \in Threads : pc[u] \in {"insert", "discard"} => pc'[u] \in {"insert", "discard"}
    BY <1>5
  <2> QED
    BY <2>1 DEF IInv, Findable
<1>13. Kept'
  <2>1. \A u \in Threads : pc[u] \in {"freeing", "free"} => pc'[u] = pc[u]
    BY <1>5
  <2> QED
    BY <1>2, <1>3, <2>1 DEF IInv, TypeOK, Kept
<1> QED
  BY <1>4, <1>6, <1>7, <1>8, <1>9, <1>10, <1>11, <1>12, <1>13 DEF IInv

LEMMA InitFindsStep ==
  ASSUME IInv, NEW th \in Threads, NEW h \in Hooks, InitFinds(th, h)
  PROVE  IInv'
BY AdoptStep DEF InitFinds, Unregistered

LEMMA InsertFindsStep ==
  ASSUME IInv, NEW th \in Threads, InsertFinds(th)
  PROVE  IInv'
<1>1. PICK h \in Hooks : h = hook[th]
  BY DEF InsertFinds, IInv, TypeOK, AtWork
<1>2. ptr[h] = None
  BY <1>1, HooksAssumption, NoneAssumption DEF IInv, AtWork
<1> QED
  BY <1>1, <1>2, AdoptStep DEF InsertFinds, Taken

\* Steps that change where a thread stands and the hook it is at work for, and give it no
\* reference: the miss, and the failures.
LEMMA InitMissesStep ==
  ASSUME IInv, NEW th \in Threads, NEW h \in Hooks, InitMisses(th, h)
  PROVE  IInv'
<1>1. /\ pc[th] = "idle" /\ pc' = [pc EXCEPT ![th] = "alloc"] /\ hook' = [hook EXCEPT ![th] = h]
      /\ ptr[h] = None /\ (\A u \in Threads : hook[u] # h) /\ UNCHANGED <<mem, refcount, db, map, ptr, entry, oom>>
  BY DEF InitMisses, Goes, Unregistered
<1>2. \A d : HoldersOf(d)' = HoldersOf(d)
  BY <1>1 DEF HoldersOf
<1>3. \A d : InTransit(d)' = InTransit(d)
  BY <1>1 DEF InTransit, IInv, TypeOK
<1>4. TypeOK'
  BY <1>1 DEF IInv, TypeOK
<1>5. RefcountExact' /\ NoDangling' /\ OfOneDb'
  BY <1>1, <1>2, <1>3 DEF IInv, RefcountExact, NoDangling, OfOneDb
<1>6. AtWork'
  BY <1>1, NoneAssumption DEF IInv, TypeOK, AtWork
<1>7. Fresh' /\ Leaving' /\ Findable' /\ Kept'
  BY <1>1, <1>2 DEF IInv, TypeOK, Fresh, Leaving, Findable, Kept
<1> QED
  BY <1>4, <1>5, <1>6, <1>7 DEF IInv

LEMMA AllocFailsStep ==
  ASSUME IInv, NEW th \in Threads, AllocFails(th)
  PROVE  IInv'
<1>1. /\ pc[th] = "alloc" /\ pc' = [pc EXCEPT ![th] = "idle"] /\ hook' = [hook EXCEPT ![th] = None]
      /\ entry[th] = None /\ entry' = entry /\ UNCHANGED <<mem, refcount, db, map, ptr, oom>>
  BY DEF AllocFails, Ends, Goes, IInv, TypeOK, AtWork
<1>2. \A d : HoldersOf(d)' = HoldersOf(d)
  BY <1>1 DEF HoldersOf
<1>3. \A d : InTransit(d)' = InTransit(d)
  BY <1>1 DEF InTransit, IInv, TypeOK
<1>4. TypeOK'
  BY <1>1 DEF IInv, TypeOK
<1>5. RefcountExact' /\ NoDangling' /\ OfOneDb'
  BY <1>1, <1>2, <1>3 DEF IInv, RefcountExact, NoDangling, OfOneDb
<1>6. AtWork'
  BY <1>1, NoneAssumption DEF IInv, TypeOK, AtWork
<1>7. Fresh' /\ Leaving' /\ Findable' /\ Kept'
  BY <1>1, <1>2 DEF IInv, TypeOK, Fresh, Leaving, Findable, Kept
<1> QED
  BY <1>4, <1>5, <1>6, <1>7 DEF IInv

LEMMA AllocStep ==
  ASSUME IInv, NEW th \in Threads, NEW e \in Entries, Alloc(th, e)
  PROVE  IInv'
<1>1. /\ pc[th] = "alloc" /\ pc' = [pc EXCEPT ![th] = "insert"]
      /\ mem[e] = "unborn" /\ mem' = [mem EXCEPT ![e] = "live"]
      /\ refcount' = [refcount EXCEPT ![e] = 1]
      /\ db' = [db EXCEPT ![e] = DbOf[hook[th]]]
      /\ entry[th] = None /\ entry' = [entry EXCEPT ![th] = e]
      /\ hook[th] \in Hooks /\ DbOf[hook[th]] \in Dbs
      /\ UNCHANGED <<map, ptr, hook, oom>>
  BY HooksAssumption DEF Alloc, Goes, IInv, TypeOK, AtWork
<1>2. /\ e # None
      /\ \A h \in Hooks : ptr[h] # e
      /\ \A d \in Dbs : map[d] # e
      /\ \A u \in Threads : entry[u] # e
  BY <1>1, NoneAssumption DEF IInv, NoDangling
<1>3. \A d : HoldersOf(d)' = HoldersOf(d)
  BY <1>1 DEF HoldersOf
<1>4. TypeOK'
  BY <1>1 DEF IInv, TypeOK
<1>5. RefcountExact'
  <2>1. \A d \in Entries :
           Cardinality(InTransit(d)') = Cardinality(InTransit(d))
             - (IF entry[th] = d /\ pc[th] \in InHand THEN 1 ELSE 0) + (IF e = d /\ "insert" \in InHand THEN 1 ELSE 0)
    BY <1>1, TransitCount DEF IInv
  <2> SUFFICES ASSUME NEW d \in Entries, mem'[d] = "live"
               PROVE  refcount'[d] = Cardinality(HoldersOf(d)') + Cardinality(InTransit(d)')
    BY DEF RefcountExact
  <2>2. entry[th] # d
    BY <1>1, NoneAssumption
  <2>3. CASE d = e
    <3>1. HoldersOf(e) = {} /\ InTransit(e) = {}
      BY <1>2 DEF HoldersOf, InTransit
    <3> QED
      BY <1>1, <1>3, <2>1, <2>2, <2>3, <3>1, Sizes DEF InHand, IInv, TypeOK
  <2>4. CASE d # e
    <3>1. mem[d] = "live" /\ refcount'[d] = refcount[d]
      BY <1>1, <2>4 DEF IInv, TypeOK
    <3>2. refcount[d] = Cardinality(HoldersOf(d)) + Cardinality(InTransit(d))
      BY <3>1, Counted
    <3> QED
      BY <1>3, <2>1, <2>2, <2>4, <3>1, <3>2, Sizes
  <2> QED
    BY <2>3, <2>4
<1>6. NoDangling'
  BY <1>1, <1>2 DEF IInv, TypeOK, NoDangling
<1>7. AtWork'
  BY <1>1, <1>2 DEF IInv, TypeOK, AtWork
<1>8. Fresh'
  <2> SUFFICES ASSUME NEW u \in Threads, pc'[u] \in {"insert", "discard"}
               PROVE  /\ HoldersOf(entry'[u]) = {}
                      /\ \A d \in Dbs : map[d] # entry'[u]
                      /\ \A v \in Threads : entry'[v] = entry'[u] => v = u
                      /\ pc'[u] = "insert" => db'[entry'[u]] = DbOf[hook[u]]
    BY <1>1, <1>3 DEF Fresh, HoldersOf
  <2>1. CASE u = th
    BY <1>1, <1>2, <2>1 DEF IInv, TypeOK, HoldersOf
  <2>2. CASE u # th
    BY <1>1, <1>2, <2>2 DEF IInv, TypeOK, Fresh
  <2> QED
    BY <2>1, <2>2
<1>9. Leaving'
  BY <1>1, <1>2 DEF IInv, TypeOK, Leaving
<1>10. OfOneDb'
  BY <1>1, <1>2 DEF IInv, TypeOK, OfOneDb
<1>11. Findable'
  <2> SUFFICES ASSUME ~oom, NEW d \in Entries, mem'[d] = "live", db'[d] # None
               PROVE  map[db'[d]] = d \/ \E u \in Threads : pc'[u] \in {"insert", "discard"} /\ entry'[u] = d
    BY <1>1 DEF Findable
  <2>1. CASE d = e
    BY <1>1, <2>1 DEF IInv, TypeOK
  <2>2. CASE d # e
    <3>1. mem[d] = "live" /\ db'[d] = db[d] /\ db[d] # None
      BY <1>1, <2>2 DEF IInv, TypeOK
    <3>2. \A u \in Threads : pc[u] \in {"insert", "discard"} => pc'[u] = pc[u] /\ entry'[u] = entry[u]
      BY <1>1 DEF IInv, TypeOK
    <3> QED
      BY <3>1, <3>2 DEF IInv, Findable
  <2> QED
    BY <2>1, <2>2
<1>12. Kept'
  <2>1. \A u \in Threads : pc[u] \in {"freeing", "free"} => pc'[u] = pc[u] /\ entry'[u] = entry[u]
    BY <1>1 DEF IInv, TypeOK
  <2> QED
    BY <1>1, <2>1 DEF IInv, TypeOK, Kept
<1> QED
  BY <1>4, <1>5, <1>6, <1>7, <1>8, <1>9, <1>10, <1>11, <1>12 DEF IInv

\* A thread publishes its new entry: in the map, or, when that lacks memory, not there.
LEMMA PublishStep ==
  ASSUME IInv, NEW th \in Threads, NEW h \in Hooks, h = hook[th], Ends(th, "insert"),
         ptr' = [ptr EXCEPT ![h] = entry[th]], UNCHANGED <<mem, refcount, db>>, ~Taken(DbOf[h]),
         \/ map' = [map EXCEPT ![DbOf[h]] = entry[th]] /\ oom' = oom
         \/ map' = map /\ oom' = TRUE
  PROVE  IInv'
<1>1. PICK e \in Entries : e = entry[th]
  BY DEF Ends, Goes, IInv, TypeOK, AtWork
<1>2. DbOf[h] \in Dbs /\ map[DbOf[h]] = None
  BY HooksAssumption DEF Taken
<1>3. h # None /\ e # None /\ DbOf[h] # None
  BY <1>2, NoneAssumption, HooksAssumption
<1>4. /\ pc[th] = "insert" /\ pc' = [pc EXCEPT ![th] = "idle"]
      /\ entry' = [entry EXCEPT ![th] = None] /\ hook' = [hook EXCEPT ![th] = None]
      /\ ptr' = [ptr EXCEPT ![h] = e] /\ UNCHANGED <<mem, refcount, db>>
      /\ \/ map' = [map EXCEPT ![DbOf[h]] = e] /\ oom' = oom
         \/ map' = map /\ oom' = TRUE
  BY <1>1 DEF Ends, Goes
<1>5. /\ mem[e] = "live" /\ db[e] = DbOf[h] /\ ptr[h] = None
      /\ (\A u \in Threads : hook[u] = h => u = th)
      /\ HoldersOf(e) = {} /\ (\A d \in Dbs : map[d] # e) /\ (\A u \in Threads : entry[u] = e => u = th)
  BY <1>1, <1>3, <1>4 DEF IInv, NoDangling, AtWork, Fresh
<1>6. TypeOK'
  <2>1. oom' \in BOOLEAN
    BY <1>4, Zenon DEF IInv, TypeOK
  <2>2. map' \in [Dbs -> Entries \cup {None}]
    BY <1>4 DEF IInv, TypeOK
  <2> QED
    BY <1>4, <2>1, <2>2 DEF IInv, TypeOK
<1>7. RefcountExact'
  <2>1. \A d \in Entries :
           Cardinality(HoldersOf(d)') = Cardinality(HoldersOf(d)) - (IF ptr[h] = d THEN 1 ELSE 0)
                                                                  + (IF e = d THEN 1 ELSE 0)
    <3>1. TypeOK /\ ptr' = [ptr EXCEPT ![h] = e]
      BY <1>4 DEF IInv
    <3> QED
      BY <3>1, HolderCount
  <2>2. \A d \in Entries :
           Cardinality(InTransit(d)') = Cardinality(InTransit(d))
             - (IF entry[th] = d /\ pc[th] \in InHand THEN 1 ELSE 0) + (IF None = d /\ "idle" \in InHand THEN 1 ELSE 0)
    BY <1>4, TransitCount DEF IInv
  <2> SUFFICES ASSUME NEW d \in Entries, mem[d] = "live"
               PROVE  refcount[d] = Cardinality(HoldersOf(d)') + Cardinality(InTransit(d)')
    BY <1>4 DEF RefcountExact
  <2>3. refcount[d] = Cardinality(HoldersOf(d)) + Cardinality(InTransit(d))
    BY Counted
  <2>4. ptr[h] # d /\ None # d
    BY <1>5, NoneAssumption
  <2>5. CASE d = e
    BY <1>1, <1>4, <2>1, <2>2, <2>3, <2>4, <2>5, Sizes DEF InHand
  <2>6. CASE d # e
    BY <1>1, <1>4, <2>1, <2>2, <2>3, <2>4, <2>6, Sizes DEF InHand
  <2> QED
    BY <2>5, <2>6
<1>8. NoDangling'
  BY <1>4, <1>5 DEF IInv, TypeOK, NoDangling
<1>9. AtWork'
  <2> SUFFICES ASSUME NEW u \in Threads
               PROVE  /\ pc'[u] \in {"idle", "alloc"} <=> entry'[u] = None
                      /\ pc'[u] \in {"alloc", "insert"} <=> hook'[u] # None
                      /\ hook'[u] # None => ptr'[hook'[u]] = None
                      /\ \A v \in Threads : hook'[v] = hook'[u] /\ hook'[u] # None => v = u
    BY DEF AtWork
  <2>1. CASE u = th
    BY <1>4, <2>1 DEF IInv, TypeOK
  <2>2. CASE u # th
    <3>1. pc'[u] = pc[u] /\ entry'[u] = entry[u] /\ hook'[u] = hook[u] /\ hook[u] # h
      BY <1>4, <1>5, <2>2 DEF IInv, TypeOK
    <3>2. hook[u] # None => ptr'[hook[u]] = ptr[hook[u]]
      BY <1>4, <3>1 DEF IInv, TypeOK
    <3> QED
      BY <1>4, <3>1, <3>2 DEF IInv, TypeOK, AtWork
  <2> QED
    BY <2>1, <2>2
<1>10. \A u \in Threads : pc'[u] # "idle" => u # th /\ pc'[u] = pc[u] /\ entry'[u] = entry[u] /\ hook'[u] = hook[u]
  BY <1>4 DEF IInv, TypeOK
<1>11. Fresh'
  <2> SUFFICES ASSUME NEW u \in Threads, pc'[u] \in {"insert", "discard"}
               PROVE  /\ HoldersOf(entry[u])' = {}
                      /\ \A d \in Dbs : map'[d] # entry'[u]
                      /\ \A v \in Threads : entry'[v] = entry'[u] => v = u
                      /\ pc'[u] = "insert" => db'[entry'[u]] = DbOf[hook'[u]]
    BY DEF Fresh, HoldersOf
  <2>1. /\ u # th /\ pc'[u] = pc[u] /\ entry'[u] = entry[u] /\ hook'[u] = hook[u]
        /\ entry[u] # e /\ entry[u] # None
    BY <1>5, <1>10 DEF IInv, AtWork
  <2>2. /\ HoldersOf(entry[u]) = {} /\ (\A d \in Dbs : map[d] # entry[u])
        /\ (\A v \in Threads : entry[v] = entry[u] => v = u)
        /\ pc[u] = "insert" => db[entry[u]] = DbOf[hook[u]]
    BY <2>1 DEF IInv, Fresh
  <2>3. HoldersOf(entry[u])' = {}
    BY <1>4, <2>1, <2>2 DEF HoldersOf, IInv, TypeOK
  <2>4. \A d \in Dbs : map'[d] # entry'[u]
    BY <1>4, <2>1, <2>2 DEF IInv, TypeOK
  <2>5. \A v \in Threads : entry'[v] = entry'[u] => v = u
    BY <1>4, <2>1, <2>2 DEF IInv, TypeOK
  <2> QED
    BY <1>4, <2>1, <2>2, <2>3, <2>4, <2>5
<1>12. Leaving'
  <2>1. \A u \in Threads : pc'[u] = "free" => entry[u] # e /\ entry[u] \in Entries
    BY <1>5, <1>10 DEF IInv, TypeOK, AtWork
  <2>2. \A u \in Threads : pc'[u] = "free" => \A d \in Dbs : map'[d] # entry'[u]
    BY <1>4, <1>10, <2>1 DEF IInv, TypeOK, Leaving
  <2> QED
    BY <1>4, <1>10, <2>2 DEF IInv, Leaving
<1>13. OfOneDb'
  BY <1>4, <1>5 DEF IInv, TypeOK, OfOneDb
<1>14. Findable'
  <2> SUFFICES ASSUME ~oom', NEW d \in Entries, mem[d] = "live", db[d] # None
               PROVE  map'[db[d]] = d \/ \E u \in Threads : pc'[u] \in {"insert", "discard"} /\ entry'[u] = d
    BY <1>4 DEF Findable
  <2>1. map' = [map EXCEPT ![DbOf[h]] = e] /\ ~oom
    BY <1>4
  <2>2. CASE d = e
    BY <1>2, <1>5, <2>1, <2>2 DEF IInv, TypeOK
  <2>3. CASE d # e
    <3>1. CASE map[db[d]] = d
      BY <1>2, <2>1, <2>3, <3>1, NoneAssumption DEF IInv, TypeOK
    <3>2. CASE map[db[d]] # d
      <4>1. PICK u \in Threads : pc[u] \in {"insert", "discard"} /\ entry[u] = d
        BY <2>1, <3>2 DEF IInv, Findable
      <4> QED
        BY <1>1, <1>4, <2>3, <4>1 DEF IInv, TypeOK
    <3> QED
      BY <3>1, <3>2
  <2> QED
    BY <2>2, <2>3
<1>15. Kept'
  <2>1. \A u \in Threads : pc[u] \in {"freeing", "free"} => pc'[u] = pc[u] /\ entry'[u] = entry[u]
    BY <1>4 DEF IInv, TypeOK
  <2> QED
    BY <1>4, <2>1 DEF IInv, Kept
<1> QED
  BY <1>6, <1>7, <1>8, <1>9, <1>11, <1>12, <1>13, <1>14, <1>15 DEF IInv

LEMMA InsertSetsStep ==
  ASSUME IInv, NEW th \in Threads, InsertSets(th) \/ InsertSkipped(th)
  PROVE  IInv'
<1>1. PICK h \in Hooks : h = hook[th]
  BY DEF InsertSets, InsertSkipped, Ends, Goes, IInv, TypeOK, AtWork
<1> QED
  BY <1>1, PublishStep DEF InsertSets, InsertSkipped

LEMMA InsertFailsStep ==
  ASSUME IInv, NEW th \in Threads, InsertFails(th)
  PROVE  IInv'
<1>1. /\ pc[th] = "insert" /\ pc' = [pc EXCEPT ![th] = "discard"] /\ hook' = [hook EXCEPT ![th] = None]
      /\ UNCHANGED <<mem, refcount, db, map, ptr, entry, oom>>
  BY DEF InsertFails, Goes
<1>2. \A d : HoldersOf(d)' = HoldersOf(d)
  BY <1>1 DEF HoldersOf
<1>3. \A d : InTransit(d)' = InTransit(d)
  BY <1>1 DEF InTransit, IInv, TypeOK
<1>4. TypeOK'
  BY <1>1 DEF IInv, TypeOK
<1>5. RefcountExact' /\ NoDangling' /\ OfOneDb'
  BY <1>1, <1>2, <1>3 DEF IInv, RefcountExact, NoDangling, OfOneDb
<1>6. AtWork'
  BY <1>1, NoneAssumption DEF IInv, TypeOK, AtWork
<1>7. \A u \in Threads : \/ pc'[u] = pc[u] /\ hook'[u] = hook[u]
                         \/ u = th /\ pc[u] = "insert" /\ pc'[u] = "discard"
  BY <1>1 DEF IInv, TypeOK
<1>8. Fresh' /\ Leaving' /\ Findable' /\ Kept'
  <2>1. Fresh'
    BY <1>1, <1>2, <1>7 DEF IInv, Fresh
  <2>2. Leaving'
    BY <1>1, <1>7 DEF IInv, Leaving
  <2>3. Findable'
    BY <1>1, <1>7 DEF IInv, Findable
  <2>4. Kept'
    BY <1>1, <1>7 DEF IInv, Kept
  <2> QED
    BY <2>1, <2>2, <2>3, <2>4
<1> QED
  BY <1>4, <1>5, <1>6, <1>8 DEF IInv

-----------------------------------------------------------------------------
(* The steps of the destructors *)

\* The entry a thread has alone is freed.
LEMMA FreeStep ==
  ASSUME IInv, NEW th \in Threads, Discard(th) \/ Free(th)
  PROVE  IInv'
<1>1. PICK e : e = entry[th]
  OBVIOUS
<1>2. /\ pc[th] \in {"discard", "free"} /\ pc' = [pc EXCEPT ![th] = "idle"]
      /\ entry' = [entry EXCEPT ![th] = None] /\ hook' = [hook EXCEPT ![th] = None]
      /\ mem' = [mem EXCEPT ![e] = "freed"] /\ UNCHANGED <<refcount, db, map, ptr, oom>>
  BY <1>1 DEF Discard, Free, Ends, Goes
<1>3. /\ e \in Entries /\ e # None /\ HoldersOf(e) = {} /\ (\A d \in Dbs : map[d] # e)
      /\ \A u \in Threads : entry[u] = e => u = th
  BY <1>1, <1>2, Alone, NoneAssumption
<1>4. \A u \in Threads : pc'[u] # "idle" => u # th /\ pc'[u] = pc[u] /\ entry'[u] = entry[u] /\ hook'[u] = hook[u]
  BY <1>2 DEF IInv, TypeOK
<1>5. \A u \in Threads : u # th => pc'[u] = pc[u] /\ entry'[u] = entry[u] /\ hook'[u] = hook[u] /\ entry[u] # e
  BY <1>2, <1>3 DEF IInv, TypeOK
<1>6. \A d : HoldersOf(d)' = HoldersOf(d)
  BY <1>2 DEF HoldersOf
<1>7. TypeOK'
  BY <1>2 DEF IInv, TypeOK
<1>8. RefcountExact'
  <2> SUFFICES ASSUME NEW d \in Entries, mem'[d] = "live"
               PROVE  refcount[d] = Cardinality(HoldersOf(d)') + Cardinality(InTransit(d)')
    BY <1>2 DEF RefcountExact
  <2>1. mem[d] = "live" /\ d # e
    BY <1>2, <1>3 DEF IInv, TypeOK
  <2>2. InTransit(d)' = InTransit(d)
    BY <1>1, <1>2, <1>5, <2>1, NoneAssumption DEF InTransit, IInv, TypeOK
  <2> QED
    BY <1>6, <2>1, <2>2, Counted
<1>9. NoDangling'
  BY <1>2, <1>3, <1>5 DEF IInv, TypeOK, NoDangling, HoldersOf
<1>10. AtWork'
  BY <1>2, <1>5 DEF IInv, TypeOK, AtWork
<1>11. Fresh'
  <2> SUFFICES ASSUME NEW u \in Threads, pc'[u] \in {"insert", "discard"}
               PROVE  /\ HoldersOf(entry[u])' = {}
                      /\ \A d \in Dbs : map'[d] # entry'[u]
                      /\ \A v \in Threads : entry'[v] = entry'[u] => v = u
                      /\ pc'[u] = "insert" => db'[entry'[u]] = DbOf[hook'[u]]
    BY DEF Fresh, HoldersOf
  <2>1. u # th /\ pc'[u] = pc[u] /\ entry'[u] = entry[u] /\ hook'[u] = hook[u] /\ entry[u] # None
    BY <1>4 DEF IInv, AtWork
  <2>2. /\ HoldersOf(entry[u]) = {} /\ (\A d \in Dbs : map[d] # entry[u])
        /\ (\A v \in Threads : entry[v] = entry[u] => v = u)
        /\ pc[u] = "insert" => db[entry[u]] = DbOf[hook[u]]
    BY <2>1 DEF IInv, Fresh
  <2>3. \A v \in Threads : entry'[v] = entry'[u] => v = u
    BY <1>2, <2>1, <2>2 DEF IInv, TypeOK
  <2> QED
    BY <1>2, <1>6, <2>1, <2>2, <2>3
<1>12. Leaving'
  <2>1. \A u \in Threads : pc'[u] \in {"dropping", "freeing", "free"} => pc'[u] = pc[u] /\ entry'[u] = entry[u]
    BY <1>4
  <2> QED
    BY <1>2, <2>1 DEF IInv, Leaving
<1>13. OfOneDb'
  BY <1>2 DEF IInv, OfOneDb
<1>14. Findable'
  <2> SUFFICES ASSUME ~oom, NEW d \in Entries, mem'[d] = "live", db[d] # None
               PROVE  map[db[d]] = d \/ \E u \in Threads : pc'[u] \in {"insert", "discard"} /\ entry'[u] = d
    BY <1>2 DEF Findable
  <2>1. mem[d] = "live" /\ d # e
    BY <1>2, <1>3 DEF IInv, TypeOK
  <2> QED
    BY <1>1, <1>5, <2>1 DEF IInv, Findable
<1>15. Kept'
  <2> SUFFICES ASSUME NEW d \in Entries, mem'[d] = "live"
               PROVE  refcount[d] > 0 \/ \E u \in Threads : pc'[u] \in {"freeing", "free"} /\ entry'[u] = d
    BY <1>2 DEF Kept
  <2>1. mem[d] = "live" /\ d # e
    BY <1>2, <1>3 DEF IInv, TypeOK
  <2> QED
    BY <1>1, <1>5, <2>1 DEF IInv, Kept
<1> QED
  BY <1>7, <1>8, <1>9, <1>10, <1>11, <1>12, <1>13, <1>14, <1>15 DEF IInv

\* A reference is given up: that of a hook, or the one remove() has in its hands.
LEMMA DecrementStep ==
  ASSUME IInv, NEW th \in Threads, NEW e \in Entries, e # None, mem[e] = "live", Decrement(th, e),
         UNCHANGED <<mem, db, map, hook, oom>>,
         \/ /\ pc[th] = "idle" /\ Unhurried(e)
            /\ \E h \in Hooks : ptr[h] = e /\ ptr' = [ptr EXCEPT ![h] = None]
         \/ pc[th] = "dropping" /\ entry[th] = e /\ ptr' = ptr
  PROVE  IInv'
<1>1. PICK p, x : /\ pc' = [pc EXCEPT ![th] = p] /\ entry' = [entry EXCEPT ![th] = x]
                  /\ \/ refcount[e] = 1 /\ p = "freeing" /\ x = e
                     \/ refcount[e] # 1 /\ p = "idle" /\ x = None
  <2>1. CASE refcount[e] = 1
    BY <2>1 DEF Decrement
  <2>2. CASE refcount[e] # 1
    BY <2>2 DEF Decrement
  <2> QED
    BY <2>1, <2>2
<1>2. refcount' = [refcount EXCEPT ![e] = @ - 1]
  BY DEF Decrement
<1>3. refcount[e] \in Nat /\ refcount[e] # 0
  <2>1. HoldersOf(e) # {} \/ InTransit(e) # {}
    BY DEF HoldersOf, InTransit
  <2> QED
    BY <2>1, Counted DEF IInv, TypeOK
<1>4. \A u \in Threads : u # th => pc'[u] = pc[u] /\ entry'[u] = entry[u]
  BY <1>1 DEF IInv, TypeOK
<1>5. pc'[th] = p /\ entry'[th] = x /\ pc[th] \in {"idle", "dropping"} /\ p \in {"idle", "freeing"}
  BY <1>1 DEF IInv, TypeOK
<1>6. \A u \in Threads : u # th /\ pc[u] \in {"dropping", "freeing", "free"} => entry[u] # e
  BY DEF Unhurried, IInv, Leaving
<1>7. \A u \in Threads : pc[u] \in {"insert", "discard"} => entry[u] # e
  <2> SUFFICES ASSUME NEW u \in Threads, pc[u] \in {"insert", "discard"}, entry[u] = e
               PROVE  FALSE
    OBVIOUS
  <2>1. HoldersOf(e) = {} /\ \A v \in Threads : entry[v] = e => v = u
    BY DEF IInv, Fresh
  <2> QED
    BY <2>1 DEF HoldersOf
<1>8. \A g \in Hooks : ptr'[g] # None => ptr'[g] = ptr[g]
  BY DEF IInv, TypeOK
<1>9. TypeOK'
  <2>1. p \in {"idle", "freeing"} /\ x \in Entries \cup {None}
    BY <1>1
  <2>2. ptr' \in [Hooks -> Entries \cup {None}]
    BY DEF IInv, TypeOK
  <2> QED
    BY <1>1, <1>2, <1>3, <2>1, <2>2 DEF IInv, TypeOK
<1>10. RefcountExact'
  <2>1. \A d \in Entries :
           Cardinality(InTransit(d)') = Cardinality(InTransit(d))
             - (IF entry[th] = d /\ pc[th] \in InHand THEN 1 ELSE 0) + (IF x = d /\ p \in InHand THEN 1 ELSE 0)
    BY <1>1, TransitCount DEF IInv
  <2> SUFFICES ASSUME NEW d \in Entries, mem[d] = "live"
               PROVE  refcount'[d] = Cardinality(HoldersOf(d)') + Cardinality(InTransit(d)')
    BY DEF RefcountExact
  <2>2. refcount[d] = Cardinality(HoldersOf(d)) + Cardinality(InTransit(d))
    BY Counted
  <2>3. refcount'[d] = refcount[d] - (IF d = e THEN 1 ELSE 0) /\ refcount[d] \in Nat
    BY <1>2 DEF IInv, TypeOK
  <2>4. p \notin InHand
    BY <1>1 DEF InHand
  <2>5. CASE pc[th] = "idle"
    <3>1. PICK h \in Hooks : ptr[h] = e /\ ptr' = [ptr EXCEPT ![h] = None]
      BY <2>5
    <3>2. Cardinality(HoldersOf(d)') = Cardinality(HoldersOf(d)) - (IF ptr[h] = d THEN 1 ELSE 0)
                                                                 + (IF None = d THEN 1 ELSE 0)
      <4>1. TypeOK
        BY DEF IInv
      <4>2. \A c \in Entries :
              Cardinality(HoldersOf(c)') = Cardinality(HoldersOf(c)) - (IF ptr[h] = c THEN 1 ELSE 0)
                                                                     + (IF None = c THEN 1 ELSE 0)
        BY <3>1, <4>1, HolderCount
      <4> QED
        BY <4>2
    <3>3. None # d /\ pc[th] \notin InHand
      BY <2>5, NoneAssumption DEF InHand
    <3>4. CASE d = e
      BY <2>1, <2>2, <2>3, <2>4, <3>1, <3>2, <3>3, <3>4, Sizes
    <3>5. CASE d # e
      BY <2>1, <2>2, <2>3, <2>4, <3>1, <3>2, <3>3, <3>5, Sizes
    <3> QED
      BY <3>4, <3>5
  <2>6. CASE pc[th] = "dropping"
    <3>1. HoldersOf(d)' = HoldersOf(d) /\ entry[th] = e /\ pc[th] \in InHand
      BY <2>6 DEF HoldersOf, InHand
    <3>2. CASE d = e
      BY <2>1, <2>2, <2>3, <2>4, <3>1, <3>2, Sizes
    <3>3. CASE d # e
      BY <2>1, <2>2, <2>3, <2>4, <3>1, <3>3, Sizes
    <3> QED
      BY <3>2, <3>3
  <2> QED
    BY <1>5, <2>5, <2>6
<1>11. NoDangling'
  <2>1. \A u \in Threads : entry'[u] # None => mem[entry'[u]] = "live"
    BY <1>1, <1>4, <1>5 DEF IInv, NoDangling
  <2> QED
    BY <1>8, <2>1 DEF IInv, NoDangling
<1>12. AtWork'
  <2>1. \A u \in Threads : pc'[u] \in {"idle", "alloc"} <=> entry'[u] = None
    BY <1>1, <1>4, <1>5 DEF IInv, AtWork
  <2>2. \A u \in Threads : pc'[u] \in {"alloc", "insert"} <=> hook[u] # None
    BY <1>4, <1>5 DEF IInv, AtWork
  <2>3. \A u \in Threads : hook[u] # None => ptr'[hook[u]] = None
    BY <1>8 DEF IInv, TypeOK, AtWork
  <2> QED
    BY <2>1, <2>2, <2>3 DEF IInv, AtWork
<1>13. Fresh'
  <2> SUFFICES ASSUME NEW u \in Threads, pc'[u] \in {"insert", "discard"}
               PROVE  /\ HoldersOf(entry[u])' = {}
                      /\ \A d \in Dbs : map[d] # entry'[u]
                      /\ \A v \in Threads : entry'[v] = entry'[u] => v = u
                      /\ pc'[u] = "insert" => db[entry'[u]] = DbOf[hook[u]]
    BY DEF Fresh, HoldersOf
  <2>1. u # th /\ pc'[u] = pc[u] /\ entry'[u] = entry[u]
    BY <1>4, <1>5
  <2>2. /\ HoldersOf(entry[u]) = {} /\ (\A d \in Dbs : map[d] # entry[u])
        /\ (\A v \in Threads : entry[v] = entry[u] => v = u)
        /\ pc[u] = "insert" => db[entry[u]] = DbOf[hook[u]]
    BY <2>1 DEF IInv, Fresh
  <2>3. entry[u] # e /\ entry[u] # None
    BY <1>7, <2>1 DEF IInv, AtWork
  <2>4. HoldersOf(entry[u])' = {}
    BY <1>8, <2>1, <2>2, <2>3 DEF HoldersOf
  <2>5. \A v \in Threads : entry'[v] = entry'[u] => v = u
    BY <1>1, <1>4, <1>5, <2>1, <2>2, <2>3
  <2> QED
    BY <2>1, <2>2, <2>4, <2>5
<1>14. Leaving'
  <2>1. \A t, u \in Threads : /\ {pc'[t], pc'[u]} \subseteq {"dropping", "freeing", "free"}
                              /\ entry'[t] = entry'[u]
                              => t = u
    <3> SUFFICES ASSUME NEW t \in Threads, NEW u \in Threads, entry'[t] = entry'[u],
                        pc'[t] \in {"dropping", "freeing", "free"}, pc'[u] \in {"dropping", "freeing", "free"}
                 PROVE  t = u
      OBVIOUS
    <3>1. CASE t = th
      BY <1>1, <1>4, <1>5, <1>6, <3>1
    <3>2. CASE u = th
      BY <1>1, <1>4, <1>5, <1>6, <3>2
    <3>3. CASE t # th /\ u # th
      BY <1>4, <3>3 DEF IInv, Leaving
    <3> QED
      BY <3>1, <3>2, <3>3
  <2>2. \A u \in Threads : pc'[u] = "free" => refcount'[entry'[u]] = 0 /\ \A d \in Dbs : map[d] # entry'[u]
    <3> SUFFICES ASSUME NEW u \in Threads, pc'[u] = "free"
                 PROVE  refcount'[entry'[u]] = 0 /\ \A d \in Dbs : map[d] # entry'[u]
      OBVIOUS
    <3>1. u # th /\ pc[u] = "free" /\ entry'[u] = entry[u] /\ entry[u] # e /\ entry[u] \in Entries
      BY <1>4, <1>5, <1>6 DEF IInv, TypeOK, AtWork
    <3> QED
      BY <1>2, <3>1 DEF IInv, TypeOK, Leaving
  <2> QED
    BY <2>1, <2>2 DEF Leaving
<1>15. OfOneDb'
  BY <1>8 DEF IInv, OfOneDb
<1>16. Findable'
  <2>1. \A u \in Threads : pc[u] \in {"insert", "discard"} => pc'[u] = pc[u] /\ entry'[u] = entry[u]
    BY <1>4, <1>5
  <2> QED
    BY <2>1 DEF IInv, Findable
<1>17. Kept'
  <2> SUFFICES ASSUME NEW d \in Entries, mem[d] = "live"
               PROVE  refcount'[d] > 0 \/ \E u \in Threads : pc'[u] \in {"freeing", "free"} /\ entry'[u] = d
    BY DEF Kept
  <2>1. CASE d = e
    <3>1. CASE refcount[e] = 1
      BY <1>1, <1>5, <2>1, <3>1
    <3>2. CASE refcount[e] # 1
      BY <1>2, <1>3, <2>1, <3>2 DEF IInv, TypeOK
    <3> QED
      BY <3>1, <3>2
  <2>2. CASE d # e
    <3>1. \A u \in Threads : pc[u] \in {"freeing", "free"} => pc'[u] = pc[u] /\ entry'[u] = entry[u]
      BY <1>4, <1>5
    <3>2. refcount'[d] = refcount[d]
      BY <1>2, <2>2 DEF IInv, TypeOK
    <3> QED
      BY <3>1, <3>2 DEF IInv, Kept
  <2> QED
    BY <2>1, <2>2
<1> QED
  BY <1>9, <1>10, <1>11, <1>12, <1>13, <1>14, <1>15, <1>16, <1>17 DEF IInv

LEMMA ReleaseStep ==
  ASSUME IInv, NEW th \in Threads, (\E h \in Hooks : Release(th, h)) \/ RemoveDrops(th)
  PROVE  IInv'
<1>1. CASE \E h \in Hooks : Release(th, h)
  <2>1. PICK h \in Hooks : Release(th, h)
    BY <1>1
  <2>2. PICK e \in Entries : e = ptr[h]
    BY <2>1 DEF Release, IInv, TypeOK
  <2>3. e # None /\ mem[e] = "live"
    BY <2>1, <2>2 DEF Release, IInv, NoDangling
  <2> QED
    BY <2>1, <2>2, <2>3, DecrementStep DEF Release
<1>2. CASE RemoveDrops(th)
  <2>1. PICK e \in Entries : e = entry[th]
    BY <1>2 DEF RemoveDrops, IInv, TypeOK, AtWork
  <2>2. e # None /\ mem[e] = "live"
    BY <1>2, <2>1 DEF RemoveDrops, IInv, AtWork, NoDangling
  <2> QED
    BY <1>2, <2>1, <2>2, DecrementStep DEF RemoveDrops
<1> QED
  BY <1>1, <1>2

\* The reference of a hook passes into the hands of remove(), which unlinks the entry.
LEMMA RemoveStep ==
  ASSUME IInv, NEW th \in Threads, NEW d \in Dbs, Remove(th, d)
  PROVE  IInv'
<1>1. PICK e : e = map[d]
  OBVIOUS
<1>2. PICK h \in Hooks : ptr[h] = e /\ ptr' = [ptr EXCEPT ![h] = None]
  BY <1>1 DEF Remove
<1>3. /\ pc[th] = "idle" /\ pc' = [pc EXCEPT ![th] = "dropping"] /\ entry' = [entry EXCEPT ![th] = e]
      /\ map' = [map EXCEPT ![d] = None] /\ db' = [db EXCEPT ![e] = None]
      /\ UNCHANGED <<mem, refcount, hook, oom>> /\ e # None /\ Unhurried(e)
  BY <1>1 DEF Remove, Goes, Forget
<1>4. /\ e \in Entries /\ mem[e] = "live" /\ db[e] = d
      /\ \A u \in Threads : pc[u] \in {"insert", "discard", "free"} => entry[u] # e
  BY <1>1, <1>3, InMap
<1>5. /\ pc'[th] = "dropping" /\ entry'[th] = e /\ entry[th] = None
      /\ \A u \in Threads : u # th => pc'[u] = pc[u] /\ entry'[u] = entry[u]
  BY <1>3 DEF IInv, TypeOK, AtWork
<1>6. /\ \A g \in Hooks : ptr'[g] # None => ptr'[g] = ptr[g]
      /\ \A c \in Dbs : map'[c] # None => map'[c] = map[c] /\ map[c] # e
  BY <1>2, <1>3, <1>4 DEF IInv, TypeOK, OfOneDb
<1>7. TypeOK'
  BY <1>2, <1>3, <1>4 DEF IInv, TypeOK
<1>8. RefcountExact'
  <2>1. TypeOK
    BY DEF IInv
  <2>2. \A c \in Entries :
           Cardinality(HoldersOf(c)') = Cardinality(HoldersOf(c)) - (IF ptr[h] = c THEN 1 ELSE 0)
                                                                  + (IF None = c THEN 1 ELSE 0)
    BY <1>2, <2>1, HolderCount
  <2>3. \A c \in Entries :
           Cardinality(InTransit(c)') = Cardinality(InTransit(c))
             - (IF entry[th] = c /\ pc[th] \in InHand THEN 1 ELSE 0) + (IF e = c /\ "dropping" \in InHand THEN 1 ELSE 0)
    BY <1>3, <2>1, TransitCount
  <2> SUFFICES ASSUME NEW c \in Entries, mem[c] = "live"
               PROVE  refcount[c] = Cardinality(HoldersOf(c)') + Cardinality(InTransit(c)')
    BY <1>3 DEF RefcountExact
  <2>4. refcount[c] = Cardinality(HoldersOf(c)) + Cardinality(InTransit(c))
    BY Counted
  <2>5. None # c /\ entry[th] # c /\ "dropping" \in InHand
    BY <1>5, NoneAssumption DEF InHand
  <2>6. CASE c = e
    BY <1>2, <2>2, <2>3, <2>4, <2>5, <2>6, Sizes
  <2>7. CASE c # e
    BY <1>2, <2>2, <2>3, <2>4, <2>5, <2>7, Sizes
  <2> QED
    BY <2>6, <2>7
<1>9. NoDangling'
  <2>1. \A u \in Threads : entry'[u] # None => mem[entry'[u]] = "live"
    BY <1>4, <1>5 DEF IInv, NoDangling
  <2> QED
    BY <1>3, <1>6, <2>1 DEF IInv, NoDangling
<1>10. AtWork'
  <2>1. \A u \in Threads : pc'[u] \in {"idle", "alloc"} <=> entry'[u] = None
    BY <1>3, <1>5 DEF IInv, AtWork
  <2>2. \A u \in Threads : pc'[u] \in {"alloc", "insert"} <=> hook[u] # None
    BY <1>3, <1>5 DEF IInv, AtWork
  <2>3. \A u \in Threads : hook[u] # None => ptr'[hook[u]] = None
    BY <1>6 DEF IInv, TypeOK, AtWork
  <2> QED
    BY <1>3, <2>1, <2>2, <2>3 DEF IInv, AtWork
<1>11. Fresh'
  <2> SUFFICES ASSUME NEW u \in Threads, pc'[u] \in {"insert", "discard"}
               PROVE  /\ HoldersOf(entry[u])' = {}
                      /\ \A c \in Dbs : map'[c] # entry'[u]
                      /\ \A v \in Threads : entry'[v] = entry'[u] => v = u
                      /\ pc'[u] = "insert" => db'[entry'[u]] = DbOf[hook[u]]
    BY <1>3 DEF Fresh, HoldersOf
  <2>1. u # th /\ pc'[u] = pc[u] /\ entry'[u] = entry[u]
    BY <1>5
  <2>2. /\ HoldersOf(entry[u]) = {} /\ (\A c \in Dbs : map[c] # entry[u])
        /\ (\A v \in Threads : entry[v] = entry[u] => v = u)
        /\ pc[u] = "insert" => db[entry[u]] = DbOf[hook[u]]
    BY <2>1 DEF IInv, Fresh
  <2>3. entry[u] # e /\ entry[u] # None /\ entry[u] \in Entries
    BY <1>4, <2>1 DEF IInv, TypeOK, AtWork
  <2>4. HoldersOf(entry[u])' = {}
    BY <1>6, <2>1, <2>2, <2>3 DEF HoldersOf
  <2>5. \A v \in Threads : entry'[v] = entry'[u] => v = u
    BY <1>5, <2>1, <2>2, <2>3
  <2>6. \A c \in Dbs : map'[c] # entry'[u]
    BY <1>6, <2>1, <2>2, <2>3
  <2>7. db'[entry'[u]] = db[entry[u]]
    BY <1>3, <2>1, <2>3 DEF IInv, TypeOK
  <2> QED
    BY <2>1, <2>2, <2>4, <2>5, <2>6, <2>7
<1>12. Leaving'
  <2>1. \A t, u \in Threads : /\ {pc'[t], pc'[u]} \subseteq {"dropping", "freeing", "free"}
                              /\ entry'[t] = entry'[u]
                              => t = u
    <3> SUFFICES ASSUME NEW t \in Threads, NEW u \in Threads, entry'[t] = entry'[u],
                        pc'[t] \in {"dropping", "freeing", "free"}, pc'[u] \in {"dropping", "freeing", "free"}
                 PROVE  t = u
      OBVIOUS
    <3>1. CASE t = th
      BY <1>3, <1>5, <3>1 DEF Unhurried
    <3>2. CASE u = th
      BY <1>3, <1>5, <3>2 DEF Unhurried
    <3>3. CASE t # th /\ u # th
      BY <1>5, <3>3 DEF IInv, Leaving
    <3> QED
      BY <3>1, <3>2, <3>3
  <2>2. ASSUME NEW u \in Threads, pc'[u] = "free"
        PROVE  refcount'[entry'[u]] = 0 /\ \A c \in Dbs : map'[c] # entry'[u]
    <3>1. u # th /\ pc[u] = "free" /\ entry'[u] = entry[u] /\ entry[u] # None
      BY <1>5, <2>2 DEF IInv, AtWork
    <3>2. refcount[entry[u]] = 0 /\ \A c \in Dbs : map[c] # entry[u]
      BY <3>1 DEF IInv, Leaving
    <3> QED
      BY <1>3, <1>6, <3>1, <3>2
  <2> QED
    BY <2>1, <2>2 DEF Leaving
<1>13. OfOneDb'
  <2>1. \A c \in Dbs : map'[c] # None => db'[map'[c]] = c
    BY <1>3, <1>6 DEF IInv, TypeOK, OfOneDb
  <2>2. \A g \in Hooks : ptr'[g] # None => db'[ptr'[g]] \in {DbOf[g], None}
    BY <1>3, <1>4, <1>6 DEF IInv, TypeOK, OfOneDb
  <2> QED
    BY <2>1, <2>2 DEF OfOneDb
<1>14. Findable'
  <2> SUFFICES ASSUME ~oom, NEW c \in Entries, mem[c] = "live", db'[c] # None
               PROVE  map'[db'[c]] = c \/ \E u \in Threads : pc'[u] \in {"insert", "discard"} /\ entry'[u] = c
    BY <1>3 DEF Findable
  <2>1. c # e /\ db'[c] = db[c] /\ db[c] \in Dbs
    BY <1>3, <1>4 DEF IInv, TypeOK
  <2>2. \A u \in Threads : pc[u] \in {"insert", "discard"} => pc'[u] = pc[u] /\ entry'[u] = entry[u]
    BY <1>3, <1>5
  <2>3. map[db[c]] = c => map'[db[c]] = c
    BY <1>1, <1>3, <2>1 DEF IInv, TypeOK
  <2> QED
    BY <2>1, <2>2, <2>3 DEF IInv, Findable
<1>15. Kept'
  <2>1. \A u \in Threads : pc[u] \in {"freeing", "free"} => pc'[u] = pc[u] /\ entry'[u] = entry[u]
    BY <1>3, <1>5
  <2> QED
    BY <1>3, <2>1 DEF IInv, Kept
<1> QED
  BY <1>7, <1>8, <1>9, <1>10, <1>11, <1>12, <1>13, <1>14, <1>15 DEF IInv

\* Under the lock the count is looked at again: somebody has joined the entry, or it is unlinked.
LEMMA RecheckStep ==
  ASSUME IInv, NEW th \in Threads, Recheck(th)
  PROVE  IInv'
<1>1. PICK e : e = entry[th]
  OBVIOUS
<1>2. /\ pc[th] = "freeing" /\ mem[e] = "live" /\ e \in Entries /\ e # None
      /\ UNCHANGED <<mem, refcount, ptr, oom>>
  BY <1>1, NoneAssumption DEF Recheck, IInv, TypeOK, AtWork
<1>3. hook[th] = None /\ (\A u \in Threads : pc[u] \in {"insert", "discard"} => entry[u] # e)
  BY <1>1, <1>2 DEF IInv, AtWork, Fresh
<1>4. \A d : HoldersOf(d)' = HoldersOf(d)
  BY <1>2 DEF HoldersOf
<1>5. CASE InUseAgain(e)
  <2>1. /\ refcount[e] > 0 /\ pc' = [pc EXCEPT ![th] = "idle"] /\ entry' = [entry EXCEPT ![th] = None]
        /\ hook' = hook /\ map' = map /\ db' = db
    BY <1>1, <1>3, <1>5 DEF Recheck, InUseAgain, Ends, Goes, IInv, TypeOK
  <2>2. /\ pc'[th] = "idle" /\ entry'[th] = None
        /\ \A u \in Threads : u # th => pc'[u] = pc[u] /\ entry'[u] = entry[u]
    BY <2>1 DEF IInv, TypeOK
  <2>3. TypeOK'
    BY <1>2, <2>1 DEF IInv, TypeOK
  <2>4. \A d \in Entries : InTransit(d)' = InTransit(d)
    BY <1>2, <2>2, NoneAssumption DEF InTransit
  <2>5. RefcountExact'
    BY <1>2, <1>4, <2>4 DEF IInv, RefcountExact
  <2>6. NoDangling' /\ OfOneDb'
    BY <1>2, <2>1, <2>2 DEF IInv, NoDangling, OfOneDb
  <2>7. AtWork'
    BY <1>2, <1>3, <2>1, <2>2 DEF IInv, AtWork
  <2>8. Fresh'
    BY <1>2, <1>4, <2>1, <2>2 DEF IInv, AtWork, Fresh
  <2>9. Leaving'
    BY <1>2, <2>1, <2>2 DEF IInv, Leaving
  <2>10. Findable'
    BY <1>2, <2>1, <2>2 DEF IInv, Findable
  <2>11. Kept'
    BY <1>1, <1>2, <2>1, <2>2 DEF IInv, Kept
  <2> QED
    BY <2>3, <2>5, <2>6, <2>7, <2>8, <2>9, <2>10, <2>11 DEF IInv
<1>6. CASE ~InUseAgain(e)
  <2>1. /\ ~(refcount[e] > 0) /\ pc' = [pc EXCEPT ![th] = "free"] /\ hook' = hook /\ entry' = entry
        /\ map' = [d \in Dbs |-> IF d = db[e] THEN None ELSE map[d]] /\ db' = [db EXCEPT ![e] = None]
    BY <1>1, <1>6 DEF Recheck, InUseAgain, Goes, Forget
  <2>2. refcount[e] = 0 /\ HoldersOf(e) = {} /\ InTransit(e) = {}
    BY <1>2, <2>1, Counted DEF IInv, TypeOK
  <2>3. pc'[th] = "free" /\ \A u \in Threads : u # th => pc'[u] = pc[u]
    BY <2>1 DEF IInv, TypeOK
  <2>4. \A d \in Dbs : map'[d] # e /\ (map'[d] # None => map'[d] = map[d])
    BY <1>2, <2>1 DEF IInv, TypeOK, OfOneDb
  <2>5. TypeOK'
    BY <1>2, <2>1 DEF IInv, TypeOK
  <2>6. \A d \in Entries : InTransit(d)' = InTransit(d)
    BY <1>2, <2>1, <2>3 DEF InTransit
  <2>7. RefcountExact'
    BY <1>2, <1>4, <2>6 DEF IInv, RefcountExact
  <2>8. NoDangling'
    BY <1>2, <2>1, <2>4 DEF IInv, NoDangling
  <2>9. AtWork'
    BY <1>2, <2>1, <2>3 DEF IInv, AtWork
  <2>10. Fresh'
    <3> SUFFICES ASSUME NEW u \in Threads, pc'[u] \in {"insert", "discard"}
                 PROVE  /\ HoldersOf(entry[u])' = {}
                        /\ \A d \in Dbs : map'[d] # entry[u]
                        /\ \A v \in Threads : entry[v] = entry[u] => v = u
                        /\ pc'[u] = "insert" => db'[entry[u]] = DbOf[hook[u]]
      BY <2>1 DEF Fresh, HoldersOf
    <3>1. pc'[u] = pc[u] /\ entry[u] # e /\ entry[u] # None /\ entry[u] \in Entries
      BY <1>3, <2>3 DEF IInv, TypeOK, AtWork
    <3>2. db'[entry[u]] = db[entry[u]]
      BY <2>1, <3>1 DEF IInv, TypeOK
    <3> QED
      BY <1>4, <2>1, <2>4, <3>1, <3>2 DEF IInv, Fresh
  <2>11. Leaving'
    BY <1>1, <1>2, <2>1, <2>2, <2>3, <2>4 DEF IInv, AtWork, Leaving
  <2>12. OfOneDb'
    <3>1. \A d \in Dbs : map'[d] # None => db'[map'[d]] = d
      BY <2>1, <2>4 DEF IInv, TypeOK, OfOneDb
    <3>2. \A g \in Hooks : ptr[g] # None => db'[ptr[g]] \in {DbOf[g], None}
      BY <1>2, <2>1, <2>2 DEF HoldersOf, IInv, TypeOK, OfOneDb
    <3> QED
      BY <1>2, <3>1, <3>2 DEF OfOneDb
  <2>13. Findable'
    <3> SUFFICES ASSUME ~oom, NEW d \in Entries, mem[d] = "live", db'[d] # None
                 PROVE  map'[db'[d]] = d \/ \E u \in Threads : pc'[u] \in {"insert", "discard"} /\ entry[u] = d
      BY <1>2, <2>1 DEF Findable
    <3>1. d # e /\ db'[d] = db[d] /\ db[d] \in Dbs
      BY <1>2, <2>1 DEF IInv, TypeOK
    <3>2. \A u \in Threads : pc[u] \in {"insert", "discard"} => pc'[u] = pc[u]
      BY <1>2, <2>3
    <3>3. ASSUME map[db[d]] = d
          PROVE  map'[db[d]] = d
      <4>1. db[d] # db[e] \/ db[e] = None
        <5>1. db[e] # None => map[db[e]] = e
          BY <1>2, <1>3 DEF IInv, Findable
        <5> QED
          BY <3>1, <3>3, <5>1
      <4> QED
        BY <2>1, <3>1, <3>3, <4>1, NoneAssumption
    <3> QED
      BY <3>1, <3>2, <3>3 DEF IInv, Findable
  <2>14. Kept'
    BY <1>2, <2>1, <2>3 DEF IInv, Kept
  <2> QED
    BY <2>5, <2>7, <2>8, <2>9, <2>10, <2>11, <2>12, <2>13, <2>14 DEF IInv
<1> QED
  BY <1>5, <1>6

-----------------------------------------------------------------------------
(* The theorems *)

\* Every step preserves the invariant.
LEMMA Step ==
  ASSUME IInv, [Next]_vars
  PROVE  IInv'
<1>1. CASE Next
  <2>1. PICK th \in Threads :
          \/ \E h \in Hooks : InitFinds(th, h) \/ InitMisses(th, h) \/ Release(th, h)
          \/ AllocFails(th) \/ \E e \in Entries : Alloc(th, e)
          \/ InsertFinds(th) \/ InsertSets(th) \/ InsertSkipped(th) \/ InsertFails(th) \/ Discard(th)
          \/ \E d \in Dbs : Remove(th, d)
          \/ RemoveDrops(th) \/ Recheck(th) \/ Free(th)
    BY <1>1 DEF Next
  <2> QED
    BY <2>1, InitFindsStep, InitMissesStep, ReleaseStep, AllocFailsStep, AllocStep, InsertFindsStep,
       InsertSetsStep, InsertFailsStep, FreeStep, RemoveStep, RecheckStep
<1>2. CASE UNCHANGED vars
  BY <1>2 DEF vars, IInv, TypeOK, RefcountExact, NoDangling, AtWork, Fresh, Leaving, OfOneDb, Findable, Kept,
              HoldersOf, InTransit
<1> QED
  BY <1>1, <1>2

\* The inductive invariant holds always.
THEOREM Invariant == Spec => []IInv
BY Initially, Step, PTL DEF Spec

\* The counts are exact, and the map leads to the states the hooks have (Consistent).
THEOREM ConnectionCountsExact == Spec => []Consistent
BY Invariant, Safe, PTL

\* No hook, slot or thread has a freed entry, and none is freed twice (NoUseAfterFree).
THEOREM ConnectionStatesAlive == Spec => []NoUseAfterFree
BY Invariant, Safe, PTL

\* All hooks of a connection share one state while the map has memory (OneStatePerConnection).
THEOREM ConnectionsShare == Spec => []OneStatePerConnection
BY Invariant, Safe, PTL

\* A live entry has a hook or a thread that deals with it (NothingLeaks).
THEOREM NoStateLeaks == Spec => []NothingLeaks
BY Invariant, Safe, PTL

\* No state is freed while a hook, the map or a call has it, none is left behind, all
\* hooks of a connection share one, and its count is exact: what the run checks.
THEOREM StatesAlwaysSafe == Spec => []StatesSafe
<1>1. Consistent /\ NoUseAfterFree /\ NothingLeaks /\ OneStatePerConnection => StatesSafe
  BY DEF StatesSafe
<1> QED
  BY <1>1, ConnectionCountsExact, ConnectionStatesAlive, ConnectionsShare, NoStateLeaks, PTL

=============================================================================
