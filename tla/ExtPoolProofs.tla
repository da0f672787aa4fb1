--------------------------- MODULE ExtPoolProofs ---------------------------
(***************************************************************************)
(* Proofs about ExtPool for every set of connections, extensions and       *)
(* nodes: the list, the counts and the connections agree, no pool is used  *)
(* after it was destroyed, and none is left behind.                        *)
(***************************************************************************)
EXTENDS ExtPool, FiniteSetTheorems, SequenceTheorems, TLAPS

\* The lock is held by the one connection that destroys a pool.
Locked == \A c \in Conns : pc[c] \in {"joining", "shutting"} <=> lock = c

\* What each connection has in its hands.
Standing ==
  \A c \in Conns :
    /\ pc[c] \in {"idle", "shutting"} <=> curr[c] = None
    /\ pc[c] = "waiting" => has[c] \in {None, curr[c]}
    /\ pc[c] = "joining" => has[c] = None /\ mem[curr[c]] = "live" /\ curr[c] \notin ToSet(list)
    /\ ShuttingDown => has[c] = None

\* Each registered pool stands in the list once, and is held.
Registered ==
  /\ \A i, j \in DOMAIN list : list[i] = list[j] => i = j
  /\ \A n \in ToSet(list) : mem[n] # "unborn"
  /\ ~ShuttingDown => \A n \in ToSet(list) : mem[n] = "live" /\ \E c \in Conns : has[c] = n

\* Only the workers of a pool that exists run.
Running == \A n \in Nodes : body[n] # "none" => mem[n] = "live"

IInv ==
  /\ TypeOK /\ RefCountExact /\ OnePoolPerTag /\ NothingLeaks
  /\ Locked /\ Standing /\ Registered /\ Running

-----------------------------------------------------------------------------
(* The list *)

\* A node is put in front.
LEMMA Pushed ==
  ASSUME NEW s \in Seq(Nodes), NEW n \in Nodes
  PROVE  /\ <<n>> \o s \in Seq(Nodes)
         /\ ToSet(<<n>> \o s) = ToSet(s) \cup {n}
         /\ n \notin ToSet(s) /\ (\A i, j \in DOMAIN s : s[i] = s[j] => i = j)
              => \A i, j \in DOMAIN (<<n>> \o s) : (<<n>> \o s)[i] = (<<n>> \o s)[j] => i = j
<1> DEFINE t == <<n>> \o s
<1>1. <<n>> \in Seq(Nodes) /\ Len(<<n>>) = 1 /\ <<n>>[1] = n
  OBVIOUS
<1>2. /\ t \in Seq(Nodes) /\ Len(t) = Len(s) + 1
      /\ \A i \in 1..(Len(s) + 1) : t[i] = IF i = 1 THEN n ELSE s[i - 1]
  <2>1. /\ t \in Seq(Nodes) /\ Len(t) = 1 + Len(s)
        /\ \A i \in 1..(1 + Len(s)) : t[i] = IF i <= 1 THEN <<n>>[i] ELSE s[i - 1]
    BY <1>1, ConcatProperties
  <2> QED
    BY <1>1, <2>1, LenProperties
<1>3. DOMAIN t = 1..(Len(s) + 1) /\ DOMAIN s = 1..Len(s) /\ Len(s) \in Nat
  BY <1>2, LenProperties
<1> HIDE DEF t
<1>4. ToSet(t) = ToSet(s) \cup {n}
  <2>1. \A i \in DOMAIN t : t[i] \in ToSet(s) \cup {n}
    BY <1>2, <1>3 DEF ToSet
  <2>2. t[1] = n /\ 1 \in DOMAIN t
    BY <1>2, <1>3
  <2>3. \A i \in DOMAIN s : i + 1 \in DOMAIN t /\ t[i + 1] = s[i]
    BY <1>2, <1>3
  <2> QED
    BY <2>1, <2>2, <2>3 DEF ToSet
<1>5. ASSUME n \notin ToSet(s), \A i, j \in DOMAIN s : s[i] = s[j] => i = j,
             NEW i \in DOMAIN t, NEW j \in DOMAIN t, t[i] = t[j]
      PROVE  i = j
  <2>1. \A k \in DOMAIN s : s[k] # n
    BY <1>5 DEF ToSet
  <2>2. CASE i = 1 \/ j = 1
    <3>1. ASSUME NEW l \in DOMAIN t, t[l] = n PROVE l = 1
      <4>1. l # 1 => l - 1 \in DOMAIN s /\ t[l] = s[l - 1]
        BY <1>2, <1>3
      <4> QED
        BY <2>1, <3>1, <4>1
    <3> QED
      BY <1>2, <1>3, <1>5, <2>2, <3>1
  <2>3. CASE i # 1 /\ j # 1
    <3>1. i - 1 \in DOMAIN s /\ j - 1 \in DOMAIN s /\ s[i - 1] = s[j - 1]
      BY <1>2, <1>3, <1>5, <2>3
    <3>2. i - 1 = j - 1
      BY <1>5, <3>1
    <3> QED
      BY <1>3, <3>2
  <2> QED
    BY <2>2, <2>3
<1> QED
  BY <1>2, <1>4, <1>5 DEF t

\* A node is taken out.
LEMMA Removed ==
  ASSUME NEW s \in Seq(Nodes), NEW k \in DOMAIN s, \A i, j \in DOMAIN s : s[i] = s[j] => i = j
  PROVE  /\ RemoveAt(s, k) \in Seq(Nodes)
         /\ ToSet(RemoveAt(s, k)) = ToSet(s) \ {s[k]}
         /\ \A i, j \in DOMAIN RemoveAt(s, k) : RemoveAt(s, k)[i] = RemoveAt(s, k)[j] => i = j
<1> DEFINE t == RemoveAt(s, k)
<1> DEFINE before == SubSeq(s, 1, k - 1)
<1> DEFINE after == SubSeq(s, k + 1, Len(s))
<1>1. DOMAIN s = 1..Len(s) /\ Len(s) \in Nat /\ k \in 1..Len(s) /\ \A i \in 1..Len(s) : s[i] \in Nodes
  BY LenProperties, ElementOfSeq
<1>2. before \in Seq(Nodes) /\ Len(before) = k - 1 /\ \A i \in 1..(k - 1) : before[i] = s[i]
  <2>1. \A i \in 1..(k - 1) : s[i] \in Nodes
    BY <1>1
  <2>2. /\ before \in Seq(Nodes) /\ Len(before) = IF 1 <= k - 1 THEN k - 1 - 1 + 1 ELSE 0
        /\ \A i \in 1..(k - 1 - 1 + 1) : before[i] = s[1 + i - 1]
    BY <1>1, <2>1, SubSeqProperties
  <2> QED
    BY <1>1, <2>2
<1>3. after \in Seq(Nodes) /\ Len(after) = Len(s) - k /\ \A i \in 1..(Len(s) - k) : after[i] = s[k + i]
  <2>1. \A i \in k + 1..Len(s) : s[i] \in Nodes
    BY <1>1
  <2>2. /\ after \in Seq(Nodes) /\ Len(after) = IF k + 1 <= Len(s) THEN Len(s) - (k + 1) + 1 ELSE 0
        /\ \A i \in 1..(Len(s) - (k + 1) + 1) : after[i] = s[k + 1 + i - 1]
    BY <1>1, <2>1, SubSeqProperties
  <2> QED
    BY <1>1, <2>2
<1> HIDE DEF before, after
<1>4. /\ t \in Seq(Nodes) /\ DOMAIN t = 1..(Len(s) - 1)
      /\ \A i \in 1..(Len(s) - 1) : t[i] = IF i < k THEN s[i] ELSE s[i + 1]
  <2>1. t = before \o after
    BY DEF RemoveAt, before, after
  <2>2. /\ t \in Seq(Nodes) /\ Len(t) = Len(before) + Len(after)
        /\ \A i \in 1..(Len(before) + Len(after)) :
             t[i] = IF i <= Len(before) THEN before[i] ELSE after[i - Len(before)]
    <3>1. before \in Seq(Nodes) /\ after \in Seq(Nodes)
      BY <1>2, <1>3
    <3>2. /\ before \o after \in Seq(Nodes) /\ Len(before \o after) = Len(before) + Len(after)
          /\ \A i \in 1..(Len(before) + Len(after)) :
               (before \o after)[i] = IF i <= Len(before) THEN before[i] ELSE after[i - Len(before)]
      BY <3>1, ConcatProperties, Zenon
    <3> HIDE DEF t
    <3> QED
      BY <2>1, <3>2
  <2> HIDE DEF t
  <2>3. DOMAIN t = 1..Len(t)
    BY <2>2, LenProperties
  <2>4. ASSUME NEW i \in 1..(Len(s) - 1) PROVE t[i] = IF i < k THEN s[i] ELSE s[i + 1]
    <3>1. CASE i < k
      BY <1>1, <1>2, <2>2, <3>1
    <3>2. CASE i >= k
      <4>1. t[i] = after[i - (k - 1)] /\ i - (k - 1) \in 1..(Len(s) - k)
        BY <1>1, <1>2, <1>3, <2>2, <3>2
      <4> QED
        BY <1>1, <1>3, <3>2, <4>1
    <3> QED
      BY <1>1, <3>1, <3>2
  <2> QED
    BY <1>1, <1>2, <1>3, <2>2, <2>3, <2>4
<1> HIDE DEF t
<1>5. ToSet(t) = ToSet(s) \ {s[k]}
  <2>1. ASSUME NEW i \in DOMAIN t PROVE t[i] \in ToSet(s) \ {s[k]}
    <3> DEFINE j == IF i < k THEN i ELSE i + 1
    <3>1. j \in DOMAIN s /\ j # k /\ t[i] = s[j]
      BY <1>1, <1>4
    <3> QED
      BY <3>1 DEF ToSet
  <2>2. ASSUME NEW j \in DOMAIN s, s[j] # s[k] PROVE \E i \in DOMAIN t : t[i] = s[j]
    <3>1. CASE j < k
      BY <1>1, <1>4, <3>1
    <3>2. CASE j > k
      <4>1. j - 1 \in DOMAIN t /\ t[j - 1] = s[j]
        BY <1>1, <1>4, <3>2
      <4> QED
        BY <4>1
    <3> QED
      BY <1>1, <2>2, <3>1, <3>2
  <2> QED
    BY <2>1, <2>2 DEF ToSet
<1>6. ASSUME NEW i \in DOMAIN t, NEW j \in DOMAIN t, t[i] = t[j] PROVE i = j
  <2> DEFINE p(n) == IF n < k THEN n ELSE n + 1
  <2>1. p(i) \in DOMAIN s /\ p(j) \in DOMAIN s /\ s[p(i)] = s[p(j)]
    BY <1>1, <1>4, <1>6
  <2>2. p(i) = p(j)
    BY <2>1
  <2> QED
    BY <1>1, <1>4, <2>2
<1> QED
  BY <1>4, <1>5, <1>6 DEF t

-----------------------------------------------------------------------------
(* The counts *)

Holders(n) == {c \in Conns : has[c] = n}

\* The size of a set of connections.
LEMMA Sizes ==
  ASSUME RegistryAssumption, NEW n
  PROVE  /\ IsFiniteSet(Holders(n)) /\ Cardinality(Holders(n)) \in Nat
         /\ Cardinality(Holders(n)) = 0 <=> Holders(n) = {}
<1>1. IsFiniteSet(Holders(n))
  BY FS_Subset DEF RegistryAssumption, Holders
<1> QED
  BY <1>1, FS_CardinalityType, FS_EmptySet

\* A connection takes a pool, or gives one back.
LEMMA HolderCount ==
  ASSUME RegistryAssumption, TypeOK, NEW c \in Conns, NEW x, has' = [has EXCEPT ![c] = x], has[c] # x
  PROVE  \A n \in Nodes :
           Cardinality(Holders(n)') = Cardinality(Holders(n)) - (IF has[c] = n THEN 1 ELSE 0)
                                                              + (IF x = n THEN 1 ELSE 0)
<1> SUFFICES ASSUME NEW n \in Nodes
             PROVE  Cardinality(Holders(n)') = Cardinality(Holders(n)) - (IF has[c] = n THEN 1 ELSE 0)
                                                                       + (IF x = n THEN 1 ELSE 0)
  OBVIOUS
<1>1. CASE has[c] = n
  <2>1. Holders(n)' = Holders(n) \ {c} /\ c \in Holders(n)
    BY <1>1 DEF TypeOK, Holders
  <2>2. IsFiniteSet(Holders(n)) /\ Cardinality(Holders(n)) \in Nat
    BY Sizes
  <2>3. Cardinality(Holders(n) \ {c}) = Cardinality(Holders(n)) - 1
    BY <2>1, <2>2, FS_RemoveElement
  <2> QED
    BY <1>1, <2>1, <2>2, <2>3
<1>2. CASE x = n
  <2>1. Holders(n)' = Holders(n) \cup {c} /\ c \notin Holders(n)
    BY <1>2 DEF TypeOK, Holders
  <2> QED
    BY <1>2, <2>1, Sizes, FS_AddElement
<1>3. CASE has[c] # n /\ x # n
  <2>1. Holders(n)' = Holders(n)
    BY <1>3 DEF TypeOK, Holders
  <2> QED
    BY <1>3, <2>1, Sizes
<1> QED
  BY <1>1, <1>2, <1>3
-----------------------------------------------------------------------------
(* Invariance *)

\* What the list holds are nodes.
LEMMA Nodal ==
  ASSUME RegistryAssumption, TypeOK
  PROVE  /\ \A n \in ToSet(list) : n \in Nodes /\ n # None
         /\ \A i \in DOMAIN list : list[i] \in ToSet(list)
BY ElementOfSeq, LenProperties DEF RegistryAssumption, TypeOK, ToSet

\* What the counts must become when a connection takes a pool or gives one back.
LEMMA Counted ==
  ASSUME RegistryAssumption, IInv, NEW c \in Conns, NEW x, has' = [has EXCEPT ![c] = x], has[c] # x, ~ShuttingDown
  PROVE  \A m \in ToSet(list) :
           Cardinality(Holders(m)') = ref_count[m] - (IF has[c] = m THEN 1 ELSE 0) + (IF x = m THEN 1 ELSE 0)
<1>1. \A n \in Nodes :
        Cardinality(Holders(n)') = Cardinality(Holders(n)) - (IF has[c] = n THEN 1 ELSE 0) + (IF x = n THEN 1 ELSE 0)
  BY HolderCount DEF IInv
<1>2. \A m \in ToSet(list) : m \in Nodes /\ ref_count[m] = Cardinality(Holders(m))
  BY Nodal DEF IInv, RefCountExact, Holders
<1> QED
  BY <1>1, <1>2

\* The pool a connection finds is the one it holds, and what stands behind it.
LEMMA Found ==
  ASSUME RegistryAssumption, IInv, NEW c \in Conns, NEW n \in Nodes, has[c] # None, Match(n, TagOf[c])
  PROVE  has[c] = n
BY DEF IInv, OnePoolPerTag, Match

\* Outside the critical section nobody destroys anything.
LEMMA Unlocked ==
  ASSUME RegistryAssumption, IInv, lock = None
  PROVE  /\ \A c \in Conns : pc[c] \in {"idle", "waiting"}
         /\ ~ShuttingDown
BY DEF RegistryAssumption, IInv, Locked, TypeOK, ShuttingDown

LEMMA Initially ==
  ASSUME RegistryAssumption, Init
  PROVE  IInv
<1>1. TypeOK
  <2>1. (CHOOSE t \in Tags : TRUE) \in Tags
    BY DEF RegistryAssumption
  <2> QED
    BY <2>1 DEF Init, TypeOK
<1>2. ToSet(list) = {}
  BY DEF Init, ToSet
<1> QED
  BY <1>1, <1>2
  DEF RegistryAssumption, Init, IInv, RefCountExact, OnePoolPerTag, NothingLeaks, Locked, Standing, Registered, Running, ShuttingDown

LEMMA AcquireFindsStep ==
  ASSUME RegistryAssumption, IInv, NEW c \in Conns, NEW n \in Nodes, AcquireFinds(c, n)
  PROVE  IInv'
<1>1. /\ pc[c] = "idle" /\ has[c] = None /\ lock = None /\ n \in ToSet(list) /\ tag[n] = TagOf[c]
      /\ ref_count' = [ref_count EXCEPT ![n] = @ + 1] /\ has' = [has EXCEPT ![c] = n]
      /\ UNCHANGED <<lock, list, tag, mem, body, pc, curr>>
  BY DEF AcquireFinds, Match, AddRef
<1>2. ~ShuttingDown /\ n # None
  BY <1>1, Unlocked DEF RegistryAssumption
<1>3. TypeOK'
  BY <1>1 DEF IInv, TypeOK
<1>4. \A d \in Conns : has'[d] = IF d = c THEN n ELSE has[d]
  BY <1>1 DEF IInv, TypeOK
<1>5. RefCountExact'
  <2>1. \A m \in ToSet(list) :
          Cardinality(Holders(m)') = ref_count[m] - (IF has[c] = m THEN 1 ELSE 0) + (IF n = m THEN 1 ELSE 0)
    BY <1>1, <1>2, Counted
  <2>2. \A m \in ToSet(list) :
          ref_count'[m] = ref_count[m] - (IF has[c] = m THEN 1 ELSE 0) + (IF n = m THEN 1 ELSE 0)
    BY <1>1, Nodal DEF IInv, TypeOK
  <2> QED
    BY <1>1, <2>1, <2>2 DEF RefCountExact, Holders
<1>6. OnePoolPerTag'
  BY <1>1, <1>4 DEF IInv, OnePoolPerTag
<1>7. NothingLeaks'
  BY <1>1, <1>2, <1>4 DEF RegistryAssumption, IInv, NothingLeaks, ShuttingDown
<1>8. Locked' /\ Running'
  BY <1>1 DEF IInv, Locked, Running
<1>9. Standing'
  BY <1>1, <1>2, <1>4 DEF IInv, Standing, ShuttingDown
<1>10. Registered'
  BY <1>1, <1>2, <1>4, Nodal DEF IInv, Registered, ShuttingDown
<1> QED
  BY <1>3, <1>5, <1>6, <1>7, <1>8, <1>9, <1>10 DEF IInv

LEMMA AcquireCreatesStep ==
  ASSUME RegistryAssumption, IInv, NEW c \in Conns, NEW n \in Nodes, AcquireCreates(c, n)
  PROVE  IInv'
<1>1. /\ pc[c] = "idle" /\ has[c] = None /\ lock = None /\ mem[n] = "unborn" /\ NoMatch(TagOf[c])
      /\ mem' = [mem EXCEPT ![n] = "live"] /\ tag' = [tag EXCEPT ![n] = TagOf[c]]
      /\ ref_count' = [ref_count EXCEPT ![n] = 1] /\ list' = <<n>> \o list /\ has' = [has EXCEPT ![c] = n]
      /\ UNCHANGED <<lock, body, pc, curr>>
  BY DEF AcquireCreates
<1>2. ~ShuttingDown /\ ~ShuttingDown' /\ n # None
  BY <1>1, Unlocked DEF RegistryAssumption, ShuttingDown
<1>3. n \notin ToSet(list) /\ \A d \in Conns : has[d] # n
  BY <1>1, <1>2 DEF RegistryAssumption, IInv, Registered, OnePoolPerTag, Standing, TypeOK
<1>4. /\ list' \in Seq(Nodes) /\ ToSet(list') = ToSet(list) \cup {n}
      /\ \A i, j \in DOMAIN list' : list'[i] = list'[j] => i = j
  BY <1>1, <1>3, Pushed DEF IInv, TypeOK, Registered
<1>5. TypeOK'
  <2>1. TagOf[c] \in Tags
    BY DEF RegistryAssumption
  <2> QED
    BY <1>1, <1>4, <2>1 DEF IInv, TypeOK
<1>6. \A d \in Conns : has'[d] = IF d = c THEN n ELSE has[d]
  BY <1>1 DEF IInv, TypeOK
<1>7. \A m \in Nodes : IF m = n THEN mem'[m] = "live" /\ tag'[m] = TagOf[c] /\ ref_count'[m] = 1
                       ELSE mem'[m] = mem[m] /\ tag'[m] = tag[m] /\ ref_count'[m] = ref_count[m]
  BY <1>1 DEF IInv, TypeOK
<1>8. RefCountExact'
  <2>1. \A m \in ToSet(list) :
          Cardinality(Holders(m)') = ref_count[m] - (IF has[c] = m THEN 1 ELSE 0) + (IF n = m THEN 1 ELSE 0)
    BY <1>1, <1>2, Counted
  <2>2. \A m \in ToSet(list) : m # n /\ m # None /\ m \in Nodes
    BY <1>3, Nodal DEF IInv
  <2>3. \A m \in ToSet(list) : ref_count'[m] = Cardinality(Holders(m)')
    BY <1>1, <1>7, <2>1, <2>2 DEF IInv, TypeOK
  <2>4. Holders(n)' = {c}
    BY <1>3, <1>6 DEF Holders
  <2>5. Cardinality({c}) = 1
    BY FS_Singleton
  <2> QED
    BY <1>4, <1>7, <2>3, <2>4, <2>5 DEF RefCountExact, Holders
<1>9. OnePoolPerTag'
  <2>1. \A m \in ToSet(list) : m \in Nodes /\ m # n /\ tag[m] # TagOf[c]
    BY <1>1, <1>3, Nodal DEF IInv, NoMatch, Match
  <2> QED
    BY <1>4, <1>6, <1>7, <2>1 DEF IInv, OnePoolPerTag
<1>10. NothingLeaks'
  BY <1>1, <1>2, <1>4, <1>6, <1>7 DEF RegistryAssumption, IInv, NothingLeaks, ShuttingDown
<1>11. Locked' /\ Running'
  BY <1>1, <1>7 DEF IInv, Locked, Running
<1>12. Standing'
  <2>1. \A d \in Conns : pc[d] \in {"idle", "waiting"}
    BY <1>1, Unlocked
  <2> QED
    BY <1>1, <1>2, <1>6, <2>1 DEF IInv, Standing
<1>13. Registered'
  <2>1. ASSUME NEW m \in ToSet(list)'
        PROVE  mem'[m] = "live" /\ \E d \in Conns : has'[d] = m
    <3>1. CASE m = n
      BY <1>6, <1>7, <3>1
    <3>2. CASE m # n
      <4>1. m \in ToSet(list) /\ m \in Nodes /\ m # None
        BY <1>4, <2>1, <3>2, Nodal DEF IInv
      <4> QED
        BY <1>1, <1>2, <1>6, <1>7, <3>2, <4>1 DEF IInv, Registered
    <3> QED
      BY <3>1, <3>2
  <2> QED
    BY <1>4, <2>1 DEF Registered
<1> QED
  BY <1>5, <1>8, <1>9, <1>10, <1>11, <1>12, <1>13 DEF IInv

LEMMA ReleaseKeepsStep ==
  ASSUME RegistryAssumption, IInv, NEW c \in Conns, NEW n \in Nodes, ReleaseKeeps(c, n)
  PROVE  IInv'
<1>1. /\ pc[c] = "idle" /\ has[c] # None /\ lock = None /\ n \in ToSet(list) /\ ref_count[n] > 1
      /\ ref_count' = [ref_count EXCEPT ![n] = @ - 1] /\ has' = [has EXCEPT ![c] = None]
      /\ UNCHANGED <<lock, list, tag, mem, body, pc, curr>>
  BY DEF ReleaseKeeps, Match
<1>2. ~ShuttingDown /\ ~ShuttingDown' /\ n # None /\ has[c] = n
  BY <1>1, Unlocked, Found DEF RegistryAssumption, ReleaseKeeps, ShuttingDown
<1>3. TypeOK'
  BY <1>1 DEF IInv, TypeOK
<1>4. \A d \in Conns : has'[d] = IF d = c THEN None ELSE has[d]
  BY <1>1 DEF IInv, TypeOK
<1>5. \E d \in Conns : d # c /\ has[d] = n
  <2>1. SUFFICES ASSUME \A d \in Conns : d # c => has[d] # n PROVE FALSE
    OBVIOUS
  <2>2. Holders(n) = {c}
    BY <1>2, <2>1 DEF Holders
  <2>3. ref_count[n] = Cardinality(Holders(n))
    BY <1>1, <1>2 DEF IInv, RefCountExact, Holders
  <2>4. Cardinality({c}) = 1
    BY FS_Singleton
  <2> QED
    BY <1>1, <2>2, <2>3, <2>4
<1>6. RefCountExact'
  <2>1. \A m \in ToSet(list) :
          Cardinality(Holders(m)') = ref_count[m] - (IF has[c] = m THEN 1 ELSE 0) + (IF None = m THEN 1 ELSE 0)
    BY <1>1, Counted, <1>2
  <2>2. \A m \in ToSet(list) : m \in Nodes /\ m # None
    BY Nodal DEF IInv
  <2>3. \A m \in ToSet(list) : ref_count'[m] = Cardinality(Holders(m)')
    BY <1>1, <1>2, <2>1, <2>2 DEF IInv, TypeOK
  <2> QED
    BY <1>1, <2>3 DEF RefCountExact, Holders
<1>7. OnePoolPerTag'
  BY <1>1, <1>4 DEF IInv, OnePoolPerTag
<1>8. NothingLeaks'
  <2>1. \A m \in Nodes : (\E d \in Conns : has[d] = m) => \E d \in Conns : has'[d] = m
    BY <1>2, <1>4, <1>5
  <2> QED
    BY <1>1, <1>2, <2>1 DEF IInv, NothingLeaks, ShuttingDown
<1>9. Locked' /\ Running'
  BY <1>1 DEF IInv, Locked, Running
<1>10. Standing'
  BY <1>1, <1>2, <1>4 DEF IInv, Standing, ShuttingDown
<1>11. Registered'
  <2>1. \A m \in Nodes : (\E d \in Conns : has[d] = m) => \E d \in Conns : has'[d] = m
    BY <1>2, <1>4, <1>5
  <2> QED
    BY <1>1, <1>2, <2>1, Nodal DEF IInv, Registered
<1> QED
  BY <1>3, <1>6, <1>7, <1>8, <1>9, <1>10, <1>11 DEF IInv

\* No connection holds a pool that is unlinked.
LEMMA ReleaseUnlinksStep ==
  ASSUME RegistryAssumption, IInv, NEW c \in Conns, NEW n \in Nodes, ReleaseUnlinks(c, n)
  PROVE  IInv'
<1>1. /\ pc[c] = "idle" /\ has[c] # None /\ lock = None /\ n \in ToSet(list) /\ ref_count[n] <= 1
      /\ ref_count' = [ref_count EXCEPT ![n] = @ - 1] /\ has' = [has EXCEPT ![c] = None]
      /\ Unlink(n) /\ lock' = c /\ curr' = [curr EXCEPT ![c] = n] /\ pc' = [pc EXCEPT ![c] = "joining"]
      /\ UNCHANGED <<tag, mem, body>>
  BY DEF ReleaseUnlinks, Match, Goes
<1>2. ~ShuttingDown /\ n # None /\ has[c] = n
  BY <1>1, Unlocked, Found DEF RegistryAssumption, ReleaseUnlinks
<1>3. \A d \in Conns : /\ has'[d] = IF d = c THEN None ELSE has[d]
                       /\ curr'[d] = IF d = c THEN n ELSE curr[d]
                       /\ pc'[d] = IF d = c THEN "joining" ELSE pc[d]
  BY <1>1 DEF IInv, TypeOK
<1>4. ~ShuttingDown' /\ mem[n] = "live"
  BY <1>1, <1>2, <1>3 DEF ShuttingDown, IInv, Registered
<1>5. Holders(n) = {c} /\ ref_count[n] = 1
  <2>1. ref_count[n] = Cardinality(Holders(n)) /\ c \in Holders(n)
    BY <1>1, <1>2 DEF IInv, RefCountExact, Holders
  <2>2. Cardinality(Holders(n)) = 1
    BY <1>1, <2>1, Sizes
  <2>3. PICK d : Holders(n) = {d}
    BY <2>2, Sizes, FS_Singleton
  <2> QED
    BY <2>1, <2>2, <2>3
<1>6. \A d \in Conns : d # c => has[d] # n
  BY <1>5 DEF Holders
<1>7. /\ list' \in Seq(Nodes) /\ ToSet(list') = ToSet(list) \ {n}
      /\ \A i, j \in DOMAIN list' : list'[i] = list'[j] => i = j
  <2>1. PICK i \in DOMAIN list : list[i] = n /\ list' = RemoveAt(list, i)
    BY <1>1 DEF Unlink
  <2> QED
    BY <2>1, Removed DEF IInv, TypeOK, Registered
<1>8. TypeOK'
  BY <1>1, <1>5, <1>7 DEF IInv, TypeOK
<1>9. RefCountExact'
  <2>1. \A m \in ToSet(list) :
          Cardinality(Holders(m)') = ref_count[m] - (IF has[c] = m THEN 1 ELSE 0) + (IF None = m THEN 1 ELSE 0)
    BY <1>1, Counted, <1>2
  <2>2. \A m \in ToSet(list') : m \in Nodes /\ m # None /\ m # n /\ m \in ToSet(list)
    BY <1>7, Nodal DEF IInv
  <2>3. \A m \in ToSet(list') : ref_count'[m] = Cardinality(Holders(m)')
    BY <1>1, <1>2, <2>1, <2>2 DEF IInv, TypeOK
  <2> QED
    BY <2>3 DEF RefCountExact, Holders
<1>10. OnePoolPerTag'
  BY <1>1, <1>3, <1>6, <1>7 DEF IInv, OnePoolPerTag
<1>11. NothingLeaks'
  <2> SUFFICES ASSUME NEW m \in Nodes, mem[m] = "live", m # n
               PROVE  m \in ToSet(list) /\ \E d \in Conns : d # c /\ has[d] = m
    BY <1>1, <1>3, <1>4, <1>7 DEF NothingLeaks, ShuttingDown
  <2>1. \A d \in Conns : pc[d] # "joining"
    BY <1>1, Unlocked
  <2> QED
    BY <1>2, <2>1 DEF IInv, NothingLeaks
<1>12. Locked'
  BY <1>1, <1>3, Unlocked DEF RegistryAssumption, Locked
<1>13. Running'
  BY <1>1 DEF IInv, Running
<1>14. Standing'
  <2>1. \A d \in Conns : pc[d] \in {"idle", "waiting"}
    BY <1>1, Unlocked
  <2> QED
    BY <1>1, <1>2, <1>3, <1>4, <1>7, <2>1 DEF IInv, Standing
<1>15. Registered'
  <2>1. \A m \in ToSet(list)' : m \in ToSet(list) /\ m # n
    BY <1>7
  <2> QED
    BY <1>1, <1>2, <1>3, <1>7, <2>1 DEF IInv, Registered
<1> QED
  BY <1>8, <1>9, <1>10, <1>11, <1>12, <1>13, <1>14, <1>15 DEF IInv

LEMMA ReleaseFreesStep ==
  ASSUME RegistryAssumption, IInv, NEW c \in Conns, ReleaseFrees(c)
  PROVE  IInv'
<1>1. /\ pc[c] = "joining" /\ pc' = [pc EXCEPT ![c] = "idle"] /\ body[curr[c]] = "none"
      /\ mem' = [mem EXCEPT ![curr[c]] = "freed"] /\ lock' = None /\ curr' = [curr EXCEPT ![c] = None]
      /\ UNCHANGED <<list, tag, ref_count, body, has>>
  BY DEF ReleaseFrees, Goes, Joined
<1>2. /\ \A d \in Conns : d # c => pc[d] \in {"idle", "waiting"}
      /\ ~ShuttingDown
  BY <1>1 DEF IInv, Locked, TypeOK, ShuttingDown
<1>3. /\ \A d \in Conns : pc'[d] = IF d = c THEN "idle" ELSE pc[d]
      /\ \A d \in Conns : curr'[d] = IF d = c THEN None ELSE curr[d]
  BY <1>1 DEF IInv, TypeOK
<1>4. ~ShuttingDown'
  BY <1>2, <1>3 DEF ShuttingDown
<1>5. curr[c] \in Nodes /\ curr[c] \notin ToSet(list)
  BY <1>1 DEF IInv, Standing, TypeOK
<1>6. \A m \in Nodes : mem'[m] = IF m = curr[c] THEN "freed" ELSE mem[m]
  BY <1>1, <1>5 DEF IInv, TypeOK
<1>7. TypeOK'
  BY <1>1, <1>5 DEF IInv, TypeOK
<1>8. RefCountExact' /\ OnePoolPerTag'
  BY <1>1, <1>2 DEF IInv, RefCountExact, OnePoolPerTag
<1>9. NothingLeaks'
  BY <1>1, <1>2, <1>3, <1>6 DEF IInv, NothingLeaks
<1>10. Locked'
  BY <1>1, <1>2, <1>3 DEF RegistryAssumption, Locked
<1>11. Running'
  BY <1>1, <1>6 DEF IInv, Running
<1>12. Standing'
  BY <1>1, <1>2, <1>3, <1>4 DEF RegistryAssumption, IInv, Standing
<1>13. Registered'
  BY <1>1, <1>2, <1>5, <1>6, Nodal DEF IInv, Registered
<1> QED
  BY <1>7, <1>8, <1>9, <1>10, <1>11, <1>12, <1>13 DEF IInv

LEMMA WaitFindsStep ==
  ASSUME RegistryAssumption, IInv, NEW c \in Conns, NEW n \in Nodes, WaitFinds(c, n)
  PROVE  IInv'
<1>1. /\ pc[c] = "idle" /\ pc' = [pc EXCEPT ![c] = "waiting"] /\ lock = None /\ has[c] \in {None, n} /\ n # None
      /\ curr' = [curr EXCEPT ![c] = n] /\ UNCHANGED <<lock, list, tag, ref_count, mem, body, has>>
  <2>1. has[c] # None => has[c] = n
    BY Found DEF WaitFinds, Goes
  <2> QED
    BY <2>1 DEF RegistryAssumption, WaitFinds, Goes
<1>2. /\ \A d \in Conns : pc[d] \in {"idle", "waiting"}
      /\ ~ShuttingDown
  BY <1>1, Unlocked
<1>3. \A d \in Conns : /\ pc'[d] = IF d = c THEN "waiting" ELSE pc[d]
                       /\ curr'[d] = IF d = c THEN n ELSE curr[d]
  BY <1>1 DEF IInv, TypeOK
<1>4. ~ShuttingDown'
  BY <1>2, <1>3 DEF ShuttingDown
<1>5. TypeOK'
  BY <1>1 DEF IInv, TypeOK
<1>6. RefCountExact' /\ OnePoolPerTag' /\ Running' /\ Registered'
  <2>1. OnePoolPerTag' /\ Running'
    BY <1>1 DEF IInv, OnePoolPerTag, Running
  <2>2. RefCountExact'
    BY <1>1, <1>2 DEF IInv, RefCountExact
  <2>3. Registered'
    BY <1>1, <1>2 DEF IInv, Registered
  <2> QED
    BY <2>1, <2>2, <2>3
<1>7. NothingLeaks'
  BY <1>1, <1>2 DEF IInv, NothingLeaks
<1>8. Locked'
  BY <1>1, <1>2, <1>3 DEF RegistryAssumption, Locked
<1>9. Standing'
  BY <1>1, <1>2, <1>3, <1>4 DEF IInv, Standing
<1> QED
  BY <1>5, <1>6, <1>7, <1>8, <1>9 DEF IInv

LEMMA WaitEndsStep ==
  ASSUME RegistryAssumption, IInv, NEW c \in Conns, WaitEnds(c)
  PROVE  IInv'
<1>1. /\ pc[c] = "waiting" /\ pc' = [pc EXCEPT ![c] = "idle"]
      /\ curr' = [curr EXCEPT ![c] = None] /\ UNCHANGED <<lock, list, tag, ref_count, mem, body, has>>
  BY DEF WaitEnds, Goes
<1>2. \A d \in Conns : /\ pc'[d] = IF d = c THEN "idle" ELSE pc[d]
                       /\ curr'[d] = IF d = c THEN None ELSE curr[d]
  BY <1>1 DEF IInv, TypeOK
<1>3. ShuttingDown' <=> ShuttingDown
  BY <1>1, <1>2 DEF ShuttingDown
<1>4. TypeOK'
  BY <1>1 DEF IInv, TypeOK
<1>5. RefCountExact' /\ OnePoolPerTag' /\ Running' /\ Registered'
  <2>1. RefCountExact'
    BY <1>1, <1>3 DEF IInv, RefCountExact
  <2>2. OnePoolPerTag'
    BY <1>1 DEF IInv, OnePoolPerTag
  <2>3. Running'
    BY <1>1 DEF IInv, Running
  <2>4. Registered'
    BY <1>1, <1>3 DEF IInv, Registered
  <2> QED
    BY <2>1, <2>2, <2>3, <2>4
<1>6. NothingLeaks'
  BY <1>1, <1>2, <1>3 DEF IInv, NothingLeaks
<1>7. Locked'
  BY <1>1, <1>2 DEF IInv, Locked
<1>8. Standing'
  BY <1>1, <1>2, <1>3 DEF IInv, Standing
<1> QED
  BY <1>4, <1>5, <1>6, <1>7, <1>8 DEF IInv

LEMMA ShutdownBeginsStep ==
  ASSUME RegistryAssumption, IInv, NEW c \in Conns, ShutdownBegins(c)
  PROVE  IInv'
<1>1. /\ \A d \in Conns : pc[d] = "idle"
      /\ pc' = [pc EXCEPT ![c] = "shutting"] /\ lock' = c /\ has' = [d \in Conns |-> None]
      /\ UNCHANGED <<list, tag, ref_count, mem, body, curr>>
  BY DEF ShutdownBegins, Goes
<1>2. \A d \in Conns : has'[d] = None /\ pc'[d] = IF d = c THEN "shutting" ELSE "idle"
  BY <1>1 DEF IInv, TypeOK
<1>3. ShuttingDown'
  BY <1>2 DEF ShuttingDown
<1>4. TypeOK'
  BY <1>1 DEF IInv, TypeOK
<1>5. RefCountExact' /\ OnePoolPerTag' /\ Running' /\ Registered'
  BY <1>1, <1>2, <1>3 DEF IInv, RefCountExact, OnePoolPerTag, Running, Registered
<1>6. NothingLeaks'
  BY <1>1, <1>3 DEF IInv, NothingLeaks
<1>7. Locked'
  BY <1>1, <1>2 DEF Locked
<1>8. Standing'
  BY <1>1, <1>2 DEF IInv, Standing
<1> QED
  BY <1>4, <1>5, <1>6, <1>7, <1>8 DEF IInv

LEMMA ShutdownFreesStep ==
  ASSUME RegistryAssumption, IInv, NEW c \in Conns, ShutdownFrees(c)
  PROVE  IInv'
<1>1. PICK i \in DOMAIN list : /\ pc[c] = "shutting" /\ mem[list[i]] = "live" /\ body[list[i]] = "none"
                               /\ mem' = [mem EXCEPT ![list[i]] = "freed"]
                               /\ UNCHANGED <<lock, list, tag, ref_count, body, has, pc, curr>>
  BY DEF ShutdownFrees, Joined
<1>2. ShuttingDown /\ ShuttingDown' /\ \A d \in Conns : pc[d] \notin {"joining"}
  BY <1>1 DEF ShuttingDown, IInv, Locked
<1>3. list[i] \in Nodes /\ list[i] \in ToSet(list)
  BY Nodal DEF IInv
<1>4. \A m \in Nodes : mem'[m] = IF m = list[i] THEN "freed" ELSE mem[m]
  BY <1>1, <1>3 DEF IInv, TypeOK
<1>5. TypeOK'
  BY <1>1, <1>3 DEF IInv, TypeOK
<1>6. RefCountExact' /\ OnePoolPerTag' /\ Locked'
  BY <1>1, <1>2 DEF IInv, RefCountExact, OnePoolPerTag, Locked
<1>7. NothingLeaks'
  BY <1>1, <1>2, <1>4 DEF IInv, NothingLeaks
<1>8. Running'
  BY <1>1, <1>4 DEF IInv, Running
<1>9. Registered'
  BY <1>1, <1>2, <1>4, Nodal DEF IInv, Registered
<1>10. Standing'
  BY <1>1, <1>2 DEF IInv, Standing
<1> QED
  BY <1>5, <1>6, <1>7, <1>8, <1>9, <1>10 DEF IInv

LEMMA ShutdownEndsStep ==
  ASSUME RegistryAssumption, IInv, NEW c \in Conns, ShutdownEnds(c)
  PROVE  IInv'
<1>1. /\ pc[c] = "shutting" /\ pc' = [pc EXCEPT ![c] = "idle"] /\ list' = <<>> /\ lock' = None
      /\ \A n \in ToSet(list) : mem[n] = "freed"
      /\ UNCHANGED <<tag, ref_count, mem, body, has, curr>>
  BY DEF ShutdownEnds, ClearList, Goes
<1>2. /\ ShuttingDown /\ \A d \in Conns : has[d] = None
      /\ \A d \in Conns : d # c => pc[d] \in {"idle", "waiting"}
  BY <1>1 DEF ShuttingDown, IInv, Standing, Locked, TypeOK
<1>3. \A d \in Conns : pc'[d] = IF d = c THEN "idle" ELSE pc[d]
  BY <1>1 DEF IInv, TypeOK
<1>4. ToSet(list)' = {} /\ list' \in Seq(Nodes) /\ DOMAIN list' = {} /\ ~ShuttingDown'
  BY <1>1, <1>2, <1>3 DEF ToSet, ShuttingDown
<1>5. TypeOK'
  BY <1>1, <1>4 DEF IInv, TypeOK
<1>6. RefCountExact' /\ OnePoolPerTag' /\ Registered'
  BY <1>1, <1>2, <1>4 DEF RefCountExact, OnePoolPerTag, Registered
<1>7. \A n \in Nodes : mem[n] # "live"
  BY <1>1, <1>2 DEF IInv, NothingLeaks
<1>8. NothingLeaks' /\ Running'
  BY <1>1, <1>7 DEF IInv, NothingLeaks, Running
<1>9. Locked'
  BY <1>1, <1>2, <1>3 DEF RegistryAssumption, Locked
<1>10. Standing'
  BY <1>1, <1>2, <1>3, <1>4 DEF IInv, Standing
<1> QED
  BY <1>5, <1>6, <1>8, <1>9, <1>10 DEF IInv

\* What the bodies of the pools do.
LEMMA BodySteps ==
  ASSUME RegistryAssumption, IInv,
         \/ \E c \in Conns : BodyStarts(c)
         \/ \E n \in Nodes : BodyCalls(n) \/ BodyAnswered(n) \/ BodyEnds(n)
  PROVE  IInv'
<1>1. /\ UNCHANGED <<lock, list, tag, ref_count, mem, has, pc, curr>>
      /\ \E n \in Nodes, b \in {"none", "running", "calling"} : mem[n] = "live" /\ body' = [body EXCEPT ![n] = b]
  <2>1. ASSUME NEW c \in Conns, BodyStarts(c)
        PROVE  mem[has[c]] = "live" /\ has[c] \in Nodes /\ body' = [body EXCEPT ![has[c]] = "running"]
    BY <2>1 DEF BodyStarts, IInv, TypeOK
  <2>2. ASSUME NEW n \in Nodes, BodyCalls(n) \/ BodyAnswered(n) \/ BodyEnds(n)
        PROVE  mem[n] = "live" /\ \E b \in {"none", "running", "calling"} : body' = [body EXCEPT ![n] = b]
    BY <2>2 DEF BodyCalls, BodyAnswered, BodyEnds, IInv, Running
  <2>3. UNCHANGED <<lock, list, tag, ref_count, mem, has, pc, curr>>
    BY DEF BodyStarts, BodyCalls, BodyAnswered, BodyEnds
  <2> QED
    BY <2>1, <2>2, <2>3
<1>2. TypeOK' /\ Running'
  BY <1>1 DEF IInv, TypeOK, Running
<1>3. RefCountExact' /\ OnePoolPerTag' /\ NothingLeaks' /\ Locked' /\ Standing' /\ Registered'
  <2>1. RefCountExact' /\ OnePoolPerTag' /\ Locked'
    BY <1>1 DEF IInv, RefCountExact, OnePoolPerTag, Locked, ShuttingDown
  <2>2. NothingLeaks' /\ Registered'
    BY <1>1 DEF IInv, NothingLeaks, Registered, ShuttingDown
  <2>3. Standing'
    BY <1>1 DEF IInv, Standing, ShuttingDown
  <2> QED
    BY <2>1, <2>2, <2>3
<1> QED
  BY <1>2, <1>3 DEF IInv

LEMMA Invariance ==
  ASSUME RegistryAssumption, IInv, [Next]_vars
  PROVE  IInv'
<1>1. CASE UNCHANGED vars
  BY <1>1 DEF vars, IInv, TypeOK, RefCountExact, OnePoolPerTag, NothingLeaks, Locked, Standing, Registered,
              Running, ShuttingDown
<1>2. ASSUME NEW c \in Conns, NEW n \in Nodes,
             \/ AcquireFinds(c, n) \/ AcquireCreates(c, n) \/ ReleaseKeeps(c, n) \/ ReleaseUnlinks(c, n)
             \/ WaitFinds(c, n)
      PROVE  IInv'
  BY <1>2, AcquireFindsStep, AcquireCreatesStep, ReleaseKeepsStep, ReleaseUnlinksStep, WaitFindsStep
<1>3. ASSUME NEW c \in Conns, WaitEnds(c) \/ ShutdownBegins(c) \/ Destroying(c)
      PROVE  IInv'
  BY <1>3, WaitEndsStep, ShutdownBeginsStep, ReleaseFreesStep, ShutdownFreesStep, ShutdownEndsStep DEF Destroying
<1> QED
  BY <1>1, <1>2, <1>3, BodySteps DEF Next

-----------------------------------------------------------------------------
(* What follows *)

\* What the run checks follows from the invariant.
LEMMA Safe ==
  ASSUME RegistryAssumption, IInv
  PROVE  PoolsSafe
<1>1. ASSUME NEW c \in Conns, pc[c] = "joining" \/ (pc[c] = "waiting" /\ has[c] # None)
      PROVE  mem[curr[c]] = "live"
  <2>1. CASE pc[c] = "joining"
    BY <2>1 DEF IInv, Standing
  <2>2. CASE pc[c] = "waiting" /\ has[c] # None
    <3>1. has[c] = curr[c] /\ ~ShuttingDown
      BY <2>2 DEF IInv, Standing
    <3> QED
      BY <2>2, <3>1 DEF IInv, OnePoolPerTag, Registered
  <2> QED
    BY <1>1, <2>1, <2>2
<1>2. \A n \in Nodes : mem[n] = "freed" => body[n] = "none"
  BY DEF IInv, Running
<1> QED
  BY <1>1, <1>2 DEF IInv, PoolsSafe, Consistent, NoUseAfterFree, Registered

\* The inductive invariant holds in every state.
THEOREM Invariant ==
  ASSUME RegistryAssumption
  PROVE  Spec => []IInv
<1>1. Init => IInv
  BY Initially
<1>2. IInv /\ [Next]_vars => IInv'
  BY Invariance
<1> QED
  BY <1>1, <1>2, PTL DEF Spec

\* However connections acquire and release the pools of their extensions and the bodies of
\* the pools run meanwhile: counts are exact, nothing that was destroyed is used, and nothing
\* is left behind.
THEOREM PoolsAlwaysSafe ==
  ASSUME RegistryAssumption
  PROVE  Spec => []PoolsSafe
<1>1. IInv => PoolsSafe
  BY Safe
<1> QED
  BY <1>1, Invariant, PTL
=============================================================================
