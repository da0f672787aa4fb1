-------------------------- MODULE SharedPtrProofs --------------------------
(***************************************************************************)
(* Proofs about SharedPtr for every set of threads, pointer variables and  *)
(* objects: both counters are exact, no pointer dangles, an object dies    *)
(* and is freed once, nothing is forgotten, an expired weak pointer stays  *)
(* expired, and the counters implement RefObject.                          *)
(***************************************************************************)
EXTENDS SharedPtr, FiniteSetTheorems, TLAPS

-----------------------------------------------------------------------------
(* The inductive invariant *)

\* What is known of the block a thread is working on.
Stages ==
  /\ \A th \in Threads : pc[th] = "idle" <=> cb[th] = Null
  /\ \A th \in Threads, b \in Blocks : cb[th] = b =>
       /\ pc[th] \in {"destroy", "dropgroup"} => Owners(b) = {}
       /\ pc[th] \in {"dropgroup", "free"} => object[b] = "destroyed"
       /\ pc[th] = "free" => Owners(b) \cup Watchers(b) \cup Burying(b) = {}
       /\ pc[th] = "cas" => seen[th] > 0 /\ \E w \in Weak : Owner[w] = th /\ wp[w] = b
  /\ \A b \in Blocks : mem[b] # "live" => object[b] # "live"
  /\ \A b \in Blocks : mem[b] = "live" => object[b] # "none"

IInv == /\ TypeOK /\ CountsExact /\ NoDangling
        /\ DestroyedOnce /\ NothingForgotten /\ Stages

\* Sizes of the two sets of pointers to a block.
LEMMA Sizes ==
  ASSUME PointersAssumption, NEW b
  PROVE  /\ IsFiniteSet(Owners(b)) /\ IsFiniteSet(Watchers(b))
         /\ Cardinality(Owners(b)) \in Nat
         /\ Cardinality(Owners(b)) = 0 <=> Owners(b) = {}
         /\ Cardinality(Watchers(b)) \in Nat
         /\ Cardinality(Watchers(b)) = 0 <=> Watchers(b) = {}
<1>1. IsFiniteSet(Owners(b)) /\ IsFiniteSet(Watchers(b))
  BY FS_Subset DEF PointersAssumption, Owners, Watchers
<1> QED
  BY <1>1, FS_CardinalityType, FS_EmptySet

\* The counters of a live block.
LEMMA Counted ==
  ASSUME PointersAssumption, IInv, NEW b \in Blocks, mem[b] = "live"
  PROVE  /\ strongCount[b] = Cardinality(Owners(b))
         /\ strongCount[b] = 0 <=> Owners(b) = {}
         /\ weakCount[b] = Cardinality(Watchers(b))
                           + (IF Owners(b) \cup Burying(b) = {} THEN 0 ELSE 1)
         /\ weakCount[b] = 0 <=> Owners(b) \cup Watchers(b) \cup Burying(b) = {}
BY Sizes DEF IInv, CountsExact

\* What each kind of assignment to a pointer variable does to these sets.
LEMMA StrongSet ==
  ASSUME PointersAssumption, TypeOK, NEW s \in Strong, sp[s] = Null, NEW b \in Blocks, Points(sp, s, b)
  PROVE  \A c \in Blocks :
           /\ Owners(c)' = IF c = b THEN Owners(c) \cup {s} ELSE Owners(c)
           /\ Cardinality(Owners(c)') =
                IF c = b THEN Cardinality(Owners(c)) + 1 ELSE Cardinality(Owners(c))
<1> TAKE c \in Blocks
<1>1. Owners(c)' = IF c = b THEN Owners(c) \cup {s} ELSE Owners(c)
  BY DEF PointersAssumption, Owners, TypeOK, Points
<1>2. s \notin Owners(c)
  BY DEF PointersAssumption, Owners
<1>3. Cardinality(Owners(c) \cup {s}) = Cardinality(Owners(c)) + 1
  BY <1>2, Sizes, FS_AddElement
<1> QED
  BY <1>1, <1>3

LEMMA StrongClear ==
  ASSUME PointersAssumption, TypeOK, NEW s \in Strong, sp[s] # Null, Points(sp, s, Null)
  PROVE  \A c \in Blocks :
           /\ Owners(c)' = Owners(c) \ {s}
           /\ Cardinality(Owners(c)') =
                IF c = sp[s] THEN Cardinality(Owners(c)) - 1 ELSE Cardinality(Owners(c))
<1> TAKE c \in Blocks
<1>1. Owners(c)' = Owners(c) \ {s}
  BY DEF PointersAssumption, Owners, TypeOK, Points
<1>2. s \in Owners(c) <=> c = sp[s]
  BY DEF Owners
<1>3. Cardinality(Owners(c) \ {s}) =
        IF c = sp[s] THEN Cardinality(Owners(c)) - 1 ELSE Cardinality(Owners(c))
  BY <1>2, Sizes, FS_RemoveElement
<1> QED
  BY <1>1, <1>3

LEMMA StrongMove ==
  ASSUME PointersAssumption, TypeOK, NEW s \in Strong, NEW t \in Strong,
         sp[s] # Null, sp[t] = Null,
         sp' = [sp EXCEPT ![s] = Null, ![t] = sp[s]]
  PROVE  \A c \in Blocks :
           /\ Owners(c)' = IF c = sp[s] THEN (Owners(c) \ {s}) \cup {t} ELSE Owners(c)
           /\ Cardinality(Owners(c)') = Cardinality(Owners(c))
           /\ Owners(c)' = {} <=> Owners(c) = {}
<1> TAKE c \in Blocks
<1> DEFINE rest == Owners(c) \ {s}
<1>1. Owners(c)' = IF c = sp[s] THEN rest \cup {t} ELSE Owners(c)
  BY DEF PointersAssumption, Owners, TypeOK
<1>2. CASE c = sp[s]
  <2>1. s \in Owners(c) /\ t \notin Owners(c)
    BY <1>2 DEF Owners
  <2>2. IsFiniteSet(rest) /\ Cardinality(rest) = Cardinality(Owners(c)) - 1
    BY <2>1, Sizes, FS_RemoveElement
  <2>3. Cardinality(rest \cup {t}) = Cardinality(rest) + 1
    BY <2>1, <2>2, FS_AddElement
  <2>4. Cardinality(rest \cup {t}) = Cardinality(Owners(c))
    BY <2>2, <2>3, Sizes
  <2>5. Owners(c)' # {} /\ Owners(c) # {}
    BY <1>1, <1>2, <2>1
  <2> QED
    BY <1>1, <1>2, <2>4, <2>5
<1> QED
  BY <1>1, <1>2

LEMMA WeakSet ==
  ASSUME PointersAssumption, TypeOK, NEW w \in Weak, wp[w] = Null, NEW b \in Blocks, Points(wp, w, b)
  PROVE  \A c \in Blocks :
           /\ Watchers(c)' = IF c = b THEN Watchers(c) \cup {w} ELSE Watchers(c)
           /\ Cardinality(Watchers(c)') =
                IF c = b THEN Cardinality(Watchers(c)) + 1 ELSE Cardinality(Watchers(c))
<1> TAKE c \in Blocks
<1>1. Watchers(c)' = IF c = b THEN Watchers(c) \cup {w} ELSE Watchers(c)
  BY DEF PointersAssumption, Watchers, TypeOK, Points
<1>2. w \notin Watchers(c)
  BY DEF PointersAssumption, Watchers
<1>3. Cardinality(Watchers(c) \cup {w}) = Cardinality(Watchers(c)) + 1
  BY <1>2, Sizes, FS_AddElement
<1> QED
  BY <1>1, <1>3

LEMMA WeakClear ==
  ASSUME PointersAssumption, TypeOK, NEW w \in Weak, wp[w] # Null, Points(wp, w, Null)
  PROVE  \A c \in Blocks :
           /\ Watchers(c)' = Watchers(c) \ {w}
           /\ Cardinality(Watchers(c)') =
                IF c = wp[w] THEN Cardinality(Watchers(c)) - 1 ELSE Cardinality(Watchers(c))
<1> TAKE c \in Blocks
<1>1. Watchers(c)' = Watchers(c) \ {w}
  BY DEF PointersAssumption, Watchers, TypeOK, Points
<1>2. w \in Watchers(c) <=> c = wp[w]
  BY DEF Watchers
<1>3. Cardinality(Watchers(c) \ {w}) =
        IF c = wp[w] THEN Cardinality(Watchers(c)) - 1 ELSE Cardinality(Watchers(c))
  BY <1>2, Sizes, FS_RemoveElement
<1> QED
  BY <1>1, <1>3

LEMMA WeakMoves ==
  ASSUME PointersAssumption, TypeOK, NEW v \in Weak, NEW w \in Weak, wp[v] # Null, wp[w] = Null,
         wp' = [wp EXCEPT ![v] = Null, ![w] = wp[v]]
  PROVE  \A c \in Blocks :
           /\ Watchers(c)' = IF c = wp[v] THEN (Watchers(c) \ {v}) \cup {w} ELSE Watchers(c)
           /\ Cardinality(Watchers(c)') = Cardinality(Watchers(c))
           /\ Watchers(c)' = {} <=> Watchers(c) = {}
<1> TAKE c \in Blocks
<1> DEFINE rest == Watchers(c) \ {v}
<1>1. Watchers(c)' = IF c = wp[v] THEN rest \cup {w} ELSE Watchers(c)
  BY DEF PointersAssumption, Watchers, TypeOK
<1>2. CASE c = wp[v]
  <2>1. v \in Watchers(c) /\ w \notin Watchers(c)
    BY <1>2 DEF Watchers
  <2>2. IsFiniteSet(rest) /\ Cardinality(rest) = Cardinality(Watchers(c)) - 1
    BY <2>1, Sizes, FS_RemoveElement
  <2>3. Cardinality(rest \cup {w}) = Cardinality(rest) + 1
    BY <2>1, <2>2, FS_AddElement
  <2>4. Cardinality(rest \cup {w}) = Cardinality(Watchers(c))
    BY <2>2, <2>3, Sizes
  <2>5. Watchers(c)' # {} /\ Watchers(c) # {}
    BY <1>1, <1>2, <2>1
  <2> QED
    BY <1>1, <1>2, <2>4, <2>5
<1> QED
  BY <1>1, <1>2

LEMMA InitInv ==
  ASSUME PointersAssumption, Init
  PROVE  IInv
<1>1. TypeOK
  BY DEF Init, TypeOK
<1>2. CountsExact /\ NoDangling /\ DestroyedOnce /\ NothingForgotten /\ Stages
  BY DEF Init, CountsExact, NoDangling, DestroyedOnce, NothingForgotten, Stages
<1> QED
  BY <1>1, <1>2 DEF IInv

-----------------------------------------------------------------------------
(* Every action preserves the invariant. *)

LEMMA MakeSharedInv ==
  ASSUME PointersAssumption, IInv, NEW s \in Strong, NEW b \in Blocks, MakeShared(s, b)
  PROVE  IInv'
<1> USE DEF MakeShared, IInv
<1>1. \A c \in Blocks : Owners(c)' = IF c = b THEN Owners(c) \cup {s} ELSE Owners(c)
  BY StrongSet
<1>2. /\ \A c \in Blocks : Watchers(c)' = Watchers(c) /\ Burying(c)' = Burying(c)
      /\ Owners(b) = {} /\ Watchers(b) = {} /\ \A th \in Threads : cb[th] # b
  BY DEF PointersAssumption, Watchers, Burying, NoDangling, Owners, TypeOK
<1>3. TypeOK'
  BY DEF TypeOK, Points
<1>4. CountsExact'
  <2> SUFFICES ASSUME NEW c \in Blocks, (mem[c] = "live")'
               PROVE  /\ strongCount'[c] = Cardinality(Owners(c)')
                      /\ weakCount'[c] = Cardinality(Watchers(c)')
                           + (IF Owners(c)' \cup Burying(c)' = {} THEN 0 ELSE 1)
    BY DEF CountsExact
  <2>1. CASE c = b
    <3>1. Owners(c)' = {s} /\ Watchers(c)' = {}
      BY <1>1, <1>2, <2>1
    <3>2. Cardinality(Owners(c)') = 1 /\ Cardinality(Watchers(c)') = 0
      BY <3>1, FS_Singleton, FS_EmptySet
    <3> QED
      BY <2>1, <3>1, <3>2 DEF TypeOK
  <2>2. CASE c # b
    BY <1>1, <1>2, <2>2 DEF CountsExact, TypeOK
  <2> QED
    BY <2>1, <2>2
<1>5. NoDangling'
  BY DEF NoDangling, TypeOK, Points
<1>6. DestroyedOnce'
  BY <1>2 DEF DestroyedOnce, TypeOK
<1>7. NothingForgotten'
  <2>1. s \in Owners(b)'
    BY <1>1
  <2> QED
    BY <1>1, <1>2, <2>1 DEF NothingForgotten, TypeOK
<1>8. Stages'
  BY <1>1, <1>2 DEF PointersAssumption, Stages, TypeOK
<1> QED
  BY <1>3, <1>4, <1>5, <1>6, <1>7, <1>8

LEMMA MakeFailsInv ==
  ASSUME PointersAssumption, IInv, NEW s \in Strong, NEW b \in Blocks, MakeFails(s, b)
  PROVE  IInv'
<1> USE DEF MakeFails, IInv
<1>1. /\ \A c : Owners(c)' = Owners(c) /\ Watchers(c)' = Watchers(c) /\ Burying(c)' = Burying(c)
      /\ Owners(b) = {} /\ Watchers(b) = {} /\ \A th \in Threads : cb[th] # b
  BY DEF PointersAssumption, Watchers, Burying, NoDangling, Owners, TypeOK
<1>2. TypeOK' /\ NoDangling'
  BY <1>1 DEF TypeOK, NoDangling, Owners, Watchers
<1>3. CountsExact'
  BY <1>1 DEF CountsExact, TypeOK
<1>4. DestroyedOnce' /\ NothingForgotten'
  BY <1>1 DEF DestroyedOnce, NothingForgotten, TypeOK
<1>5. Stages'
  BY <1>1 DEF Stages, TypeOK
<1> QED
  BY <1>2, <1>3, <1>4, <1>5

LEMMA CloneInv ==
  ASSUME PointersAssumption, IInv, NEW s \in Strong, NEW t \in Strong, Clone(s, t),
         NEW b \in Blocks, sp[s] = b
  PROVE  IInv'
<1> USE DEF Clone, IInv
<1>1. b \in Blocks /\ mem[b] = "live" /\ object[b] = "live" /\ b # Null
  BY DEF TypeOK, NoDangling
<1>2. \A c \in Blocks :
        /\ Owners(c)' = IF c = b THEN Owners(c) \cup {t} ELSE Owners(c)
        /\ Cardinality(Owners(c)') =
             IF c = b THEN Cardinality(Owners(c)) + 1 ELSE Cardinality(Owners(c))
  BY <1>1, StrongSet
<1>3. /\ \A c \in Blocks : Watchers(c)' = Watchers(c) /\ Burying(c)' = Burying(c)
      /\ s \in Owners(b)
  BY DEF Watchers, Burying, Owners, TypeOK
<1>4. TypeOK'
  BY <1>1 DEF TypeOK, Points, AddOwner
<1>5. CountsExact'
  BY <1>1, <1>2, <1>3 DEF CountsExact, TypeOK, AddOwner
<1>6. NoDangling'
  BY <1>1 DEF NoDangling, TypeOK, Points
<1>7. DestroyedOnce'
  BY DEF DestroyedOnce
<1>8. NothingForgotten'
  BY <1>2, <1>3 DEF NothingForgotten
<1>9. Stages'
  BY <1>1, <1>2, <1>3 DEF Stages, TypeOK, NoDangling
<1> QED
  BY <1>4, <1>5, <1>6, <1>7, <1>8, <1>9

LEMMA MoveInv ==
  ASSUME PointersAssumption, IInv, NEW s \in Strong, NEW t \in Strong, Move(s, t)
  PROVE  IInv'
<1> USE DEF Move, IInv
<1>1. \A c \in Blocks :
        /\ Cardinality(Owners(c)') = Cardinality(Owners(c))
        /\ Owners(c)' = {} <=> Owners(c) = {}
  BY StrongMove
<1>2. \A c \in Blocks : Watchers(c)' = Watchers(c) /\ Burying(c)' = Burying(c)
  BY DEF Watchers, Burying
<1>3. TypeOK' /\ NoDangling'
  BY DEF TypeOK, NoDangling
<1>4. CountsExact'
  BY <1>1, <1>2 DEF CountsExact
<1>5. DestroyedOnce' /\ NothingForgotten'
  BY <1>1, <1>2 DEF DestroyedOnce, NothingForgotten
<1>6. Stages'
  BY <1>1, <1>2 DEF Stages, TypeOK
<1> QED
  BY <1>3, <1>4, <1>5, <1>6

LEMMA ReleaseInv ==
  ASSUME PointersAssumption, IInv, NEW s \in Strong, Release(s),
         NEW b \in Blocks, sp[s] = b, NEW th \in Threads, Owner[s] = th
  PROVE  IInv'
<1> USE DEF Release, IInv
<1>1. /\ b \in Blocks /\ mem[b] = "live" /\ object[b] = "live" /\ s \in Owners(b)
      /\ th \in Threads /\ pc[th] = "idle" /\ cb[th] = Null /\ b # Null
  BY DEF PointersAssumption, TypeOK, NoDangling, Owners, Idle, Stages
<1>2. \A c \in Blocks :
        /\ Owners(c)' = Owners(c) \ {s}
        /\ Cardinality(Owners(c)') =
             IF c = b THEN Cardinality(Owners(c)) - 1 ELSE Cardinality(Owners(c))
  BY StrongClear
<1>3. \A c \in Blocks : Watchers(c)' = Watchers(c)
  BY DEF Watchers
<1>4. \A c \in Blocks : Cardinality(Owners(c)') \in Nat
                        /\ (Cardinality(Owners(c)') = 0 <=> Owners(c)' = {})
  <2> TAKE c \in Blocks
  <2>1. IsFiniteSet(Owners(c)')
    BY <1>2, Sizes, FS_RemoveElement
  <2> QED
    BY <2>1, FS_CardinalityType, FS_EmptySet
<1>5. strongCount[b] = Cardinality(Owners(b)) /\ strongCount[b] >= 1 /\ strongCount[b] \in Nat
  BY <1>1, Counted, Sizes DEF TypeOK
<1>6. strongCount[b] = 1 <=> Owners(b)' = {}
  <2>1. Cardinality(Owners(b)') = strongCount[b] - 1
    BY <1>1, <1>2, <1>5
  <2>2. Cardinality(Owners(b)') = 0 <=> Owners(b)' = {}
    BY <1>1, <1>4
  <2> QED
    BY <1>5, <2>1, <2>2
\* No other thread is burying or freeing the block.
<1>7. \A o \in Threads : pc[o] \in {"destroy", "dropgroup", "free"} => cb[o] # b
  BY <1>1 DEF Stages
<1>8. TypeOK'
  BY <1>1, <1>5 DEF TypeOK, Points
<1>9. \A c \in Blocks : Burying(c)' = IF c = b /\ strongCount[b] = 1
                                        THEN Burying(c) \cup {th} ELSE Burying(c)
  BY <1>1 DEF PointersAssumption, Burying, TypeOK
<1>10. CountsExact'
  <2> SUFFICES ASSUME NEW c \in Blocks, mem[c] = "live"
               PROVE  /\ strongCount'[c] = Cardinality(Owners(c)')
                      /\ weakCount'[c] = Cardinality(Watchers(c)')
                           + (IF Owners(c)' \cup Burying(c)' = {} THEN 0 ELSE 1)
    BY DEF CountsExact
  <2>1. strongCount'[c] = Cardinality(Owners(c)')
    BY <1>1, <1>2, <1>5 DEF CountsExact, TypeOK
  <2>2. (Owners(c)' \cup Burying(c)' = {}) <=> (Owners(c) \cup Burying(c) = {})
    <3>1. CASE c = b
      BY <1>1, <1>6, <1>9, <3>1
    <3>2. CASE c # b
      <4>1. s \notin Owners(c)
        BY <3>2 DEF Owners
      <4> QED
        BY <1>2, <1>9, <3>2, <4>1
    <3> QED
      BY <3>1, <3>2
  <2> QED
    BY <1>3, <2>1, <2>2 DEF CountsExact
<1>11. NoDangling'
  BY <1>1 DEF NoDangling, TypeOK, Points
<1>12. DestroyedOnce'
  BY <1>1, <1>7 DEF DestroyedOnce, TypeOK
<1>13. NothingForgotten'
  <2> SUFFICES ASSUME NEW c \in Blocks PROVE
        /\ object[c] = "live" => \/ Owners(c)' # {}
                                 \/ \E o \in Threads : cb'[o] = c /\ pc'[o] = "destroy"
        /\ mem[c] = "live" => \/ (Owners(c)' \cup Watchers(c)' \cup Burying(c)') # {}
                              \/ \E o \in Threads : cb'[o] = c /\ pc'[o] = "free"
    BY DEF NothingForgotten
  <2>1. CASE c = b /\ strongCount[b] = 1
    BY <1>1, <1>9, <2>1 DEF TypeOK
  <2>2. CASE c = b /\ strongCount[b] # 1
    BY <1>6, <2>2
  <2>3. CASE c # b
    <3>1. Owners(c)' = Owners(c) /\ Watchers(c)' = Watchers(c) /\ Burying(c)' = Burying(c)
      <4>1. s \notin Owners(c)
        BY <2>3 DEF Owners
      <4> QED
        BY <1>2, <1>3, <1>9, <2>3, <4>1
    <3>2. \A o \in Threads : cb[o] = c => cb'[o] = cb[o] /\ pc'[o] = pc[o]
      BY <1>1 DEF PointersAssumption, TypeOK
    <3> QED
      BY <3>1, <3>2 DEF NothingForgotten
  <2> QED
    BY <2>1, <2>2, <2>3
<1>14. Stages'
  <2>1. \A o \in Threads : o # th => pc'[o] = pc[o] /\ cb'[o] = cb[o]
    BY <1>1 DEF TypeOK
  <2>2. \/ pc'[th] = "idle" /\ cb'[th] = Null
        \/ pc'[th] = "destroy" /\ cb'[th] = b /\ Owners(b)' = {}
    BY <1>1, <1>6 DEF TypeOK
  <2>3. ASSUME NEW o \in Threads, NEW c \in Blocks, cb'[o] = c
        PROVE  /\ pc'[o] \in {"destroy", "dropgroup"} => Owners(c)' = {}
               /\ pc'[o] \in {"dropgroup", "free"} => object'[c] = "destroyed"
               /\ pc'[o] = "free" => Owners(c)' \cup Watchers(c)' \cup Burying(c)' = {}
               /\ pc'[o] = "cas" => seen'[o] > 0 /\ \E w \in Weak : Owner[w] = o /\ wp'[w] = c
    <3>1. CASE o = th
      BY <1>1, <2>2, <2>3, <3>1 DEF PointersAssumption
    <3>2. CASE o # th
      <4>1. cb[o] = c /\ pc'[o] = pc[o]
        BY <2>1, <2>3, <3>2
      <4>2. pc[o] \in {"destroy", "dropgroup", "free"} => c # b
        BY <1>7, <4>1
      <4>3. pc[o] = "free" => Burying(c)' = Burying(c)
        BY <1>9, <4>2
      <4> QED
        BY <1>2, <1>3, <4>1, <4>2, <4>3 DEF Stages
    <3> QED
      BY <3>1, <3>2
  <2>4. \A o \in Threads : pc'[o] = "idle" <=> cb'[o] = Null
    BY <1>1, <2>1, <2>2 DEF Stages
  <2> QED
    BY <2>3, <2>4 DEF Stages
<1> QED
  BY <1>8, <1>10, <1>11, <1>12, <1>13, <1>14

LEMMA DestroyInv ==
  ASSUME PointersAssumption, IInv, NEW th \in Threads, Destroy(th), NEW b \in Blocks, cb[th] = b
  PROVE  IInv'
<1> USE DEF Destroy, IInv
<1>1. mem[b] = "live" /\ b # Null /\ Owners(b) = {}
  BY DEF PointersAssumption, TypeOK, Stages, NoDangling
<1>2. \A c \in Blocks : /\ Owners(c)' = Owners(c) /\ Watchers(c)' = Watchers(c)
                        /\ Burying(c)' = Burying(c)
  BY DEF Owners, Watchers, Burying, TypeOK
<1>3. TypeOK'
  BY <1>1 DEF TypeOK
<1>4. CountsExact'
  BY <1>2 DEF CountsExact
<1>5. NoDangling'
  BY <1>1 DEF NoDangling, TypeOK, Owners
<1>6. DestroyedOnce'
  BY <1>1 DEF DestroyedOnce, TypeOK
<1>7. NothingForgotten'
  BY <1>1, <1>2 DEF NothingForgotten, TypeOK
<1>8. Stages'
  BY <1>1, <1>2 DEF Stages, TypeOK, NoDangling
<1> QED
  BY <1>3, <1>4, <1>5, <1>6, <1>7, <1>8
LEMMA DropGroupInv ==
  ASSUME PointersAssumption, IInv, NEW th \in Threads, DropGroup(th), NEW b \in Blocks, cb[th] = b
  PROVE  IInv'
<1> USE DEF DropGroup, WeakDrop, IInv
<1>1. /\ mem[b] = "live" /\ b # Null /\ Owners(b) = {} /\ object[b] = "destroyed"
      /\ th \in Burying(b)
  BY DEF PointersAssumption, TypeOK, Stages, NoDangling, Burying
<1>2. \A o \in Threads : o # th /\ cb[o] = b => pc[o] = "cas"
  BY <1>1 DEF DestroyedOnce, TypeOK, Stages
<1>3. \A o \in Threads : o # th => pc'[o] = pc[o] /\ cb'[o] = cb[o]
  BY DEF TypeOK
<1>4. weakCount[b] = Cardinality(Watchers(b)) + 1 /\ Cardinality(Watchers(b)) \in Nat
  BY <1>1, Counted, Sizes
<1>5. \/ pc'[th] = "idle" /\ cb'[th] = Null /\ Watchers(b) # {}
      \/ pc'[th] = "free" /\ cb'[th] = b /\ Watchers(b) = {}
  <2>1. Cardinality(Watchers(b)) = 0 <=> Watchers(b) = {}
    BY Sizes
  <2> QED
    BY <1>4, <2>1 DEF TypeOK
<1>6. \A c \in Blocks : Owners(c)' = Owners(c) /\ Watchers(c)' = Watchers(c)
  BY DEF Owners, Watchers
<1>7. \A c \in Blocks : Burying(c)' = IF c = b THEN {} ELSE Burying(c)
  BY <1>2, <1>3, <1>5 DEF PointersAssumption, Burying, TypeOK
<1>8. TypeOK'
  BY <1>4 DEF TypeOK
<1>9. CountsExact'
  BY <1>1, <1>4, <1>6, <1>7 DEF CountsExact, TypeOK
<1>10. NoDangling'
  BY <1>3, <1>5 DEF NoDangling
<1>11. DestroyedOnce'
  BY <1>1, <1>2, <1>3, <1>5 DEF DestroyedOnce, TypeOK
<1>12. NothingForgotten'
  <2> SUFFICES ASSUME NEW c \in Blocks PROVE
        /\ object[c] = "live" => \/ Owners(c)' # {}
                                 \/ \E o \in Threads : cb'[o] = c /\ pc'[o] = "destroy"
        /\ mem[c] = "live" => \/ (Owners(c)' \cup Watchers(c)' \cup Burying(c)') # {}
                              \/ \E o \in Threads : cb'[o] = c /\ pc'[o] = "free"
    BY DEF NothingForgotten
  <2>1. CASE c = b
    BY <1>1, <1>5, <1>6, <2>1
  <2>2. CASE c # b
    BY <1>3, <1>6, <1>7, <2>2 DEF NothingForgotten
  <2> QED
    BY <2>1, <2>2
<1>13. Stages'
  <2>1. ASSUME NEW o \in Threads, NEW c \in Blocks, cb'[o] = c
        PROVE  /\ pc'[o] \in {"destroy", "dropgroup"} => Owners(c)' = {}
               /\ pc'[o] \in {"dropgroup", "free"} => object'[c] = "destroyed"
               /\ pc'[o] = "free" => Owners(c)' \cup Watchers(c)' \cup Burying(c)' = {}
               /\ pc'[o] = "cas" => seen'[o] > 0 /\ \E w \in Weak : Owner[w] = o /\ wp'[w] = c
    <3>1. CASE o = th
      BY <1>1, <1>5, <1>6, <1>7, <2>1, <3>1 DEF PointersAssumption
    <3>2. CASE o # th
      BY <1>2, <1>3, <1>6, <1>7, <2>1, <3>2 DEF Stages
    <3> QED
      BY <3>1, <3>2
  <2>2. \A o \in Threads : pc'[o] = "idle" <=> cb'[o] = Null
    BY <1>1, <1>3, <1>5 DEF Stages
  <2> QED
    BY <2>1, <2>2 DEF Stages
<1> QED
  BY <1>8, <1>9, <1>10, <1>11, <1>12, <1>13

LEMMA WeakReleaseInv ==
  ASSUME PointersAssumption, IInv, NEW w \in Weak, WeakRelease(w),
         NEW b \in Blocks, wp[w] = b, NEW th \in Threads, Owner[w] = th
  PROVE  IInv'
<1> USE DEF WeakRelease, WeakDrop, IInv
<1>1. /\ mem[b] = "live" /\ b # Null /\ w \in Watchers(b)
      /\ pc[th] = "idle" /\ cb[th] = Null
  BY DEF TypeOK, NoDangling, Watchers, Idle, Stages
<1>2. \A o \in Threads : o # th => pc'[o] = pc[o] /\ cb'[o] = cb[o]
  BY DEF TypeOK
<1>3. \A c \in Blocks :
        /\ Watchers(c)' = Watchers(c) \ {w}
        /\ Cardinality(Watchers(c)') =
             IF c = b THEN Cardinality(Watchers(c)) - 1 ELSE Cardinality(Watchers(c))
  BY WeakClear
<1>4. \A c \in Blocks : Owners(c)' = Owners(c)
  BY DEF Owners
<1>5. \A c \in Blocks : Burying(c)' = Burying(c)
  BY <1>1, <1>2 DEF PointersAssumption, Burying, TypeOK
<1>6. /\ weakCount[b] = Cardinality(Watchers(b))
                        + (IF Owners(b) \cup Burying(b) = {} THEN 0 ELSE 1)
      /\ weakCount[b] \in Nat
      /\ Cardinality(Watchers(b)) \in Nat /\ Cardinality(Watchers(b)) >= 1
  BY <1>1, Counted, Sizes DEF TypeOK
<1>7. Cardinality(Watchers(b)') = 0 <=> Watchers(b)' = {}
  <2>1. IsFiniteSet(Watchers(b)')
    BY <1>3, Sizes, FS_RemoveElement
  <2> QED
    BY <2>1, FS_EmptySet
<1>8. weakCount[b] = 1 <=> Owners(b) \cup Watchers(b)' \cup Burying(b) = {}
  <2>1. Cardinality(Watchers(b)') = Cardinality(Watchers(b)) - 1
    BY <1>1, <1>3
  <2> QED
    BY <1>6, <1>7, <2>1
<1>9. \/ pc'[th] = "idle" /\ cb'[th] = Null /\ weakCount[b] # 1
      \/ pc'[th] = "free" /\ cb'[th] = b /\ weakCount[b] = 1
  BY DEF TypeOK
<1>10. TypeOK'
  <2>1. CASE Owners(b) \cup Burying(b) = {}
    BY <1>1, <1>6, <2>1 DEF TypeOK, Points
  <2>2. CASE Owners(b) \cup Burying(b) # {}
    BY <1>1, <1>6, <2>2 DEF TypeOK, Points
  <2> QED
    BY <2>1, <2>2
<1>11. CountsExact'
  <2> SUFFICES ASSUME NEW c \in Blocks, mem[c] = "live"
               PROVE  /\ strongCount'[c] = Cardinality(Owners(c)')
                      /\ weakCount'[c] = Cardinality(Watchers(c)')
                           + (IF Owners(c)' \cup Burying(c)' = {} THEN 0 ELSE 1)
    BY DEF CountsExact
  <2>1. strongCount'[c] = Cardinality(Owners(c)')
    BY <1>4 DEF CountsExact
  <2>2. weakCount'[c] = IF c = b THEN weakCount[c] - 1 ELSE weakCount[c]
    BY DEF TypeOK
  <2>3. Cardinality(Watchers(c)) \in Nat
    BY Sizes
  <2> QED
    BY <1>3, <1>4, <1>5, <2>1, <2>2, <2>3 DEF CountsExact
<1>12. NoDangling'
  BY <1>1, <1>2, <1>9 DEF NoDangling, TypeOK, Points
\* The block is in nobody else's hands when the count reaches zero.
<1>13. weakCount[b] = 1 =>
         /\ object[b] = "destroyed"
         /\ \A o \in Threads : cb[o] = b => pc[o] = "cas"
  <2>1. /\ \A o \in Threads : cb[o] = b => pc[o] # "free"
        /\ \A o \in Threads : cb[o] = b => pc[o] # "idle"
    BY <1>1 DEF Stages
  <2>2. weakCount[b] = 1 => \A o \in Threads : cb[o] = b => pc[o] \notin {"destroy", "dropgroup"}
    BY <1>8 DEF Burying
  <2>3. weakCount[b] = 1 => object[b] # "live"
    BY <1>8, <2>2 DEF NothingForgotten
  <2>4. object[b] # "none"
    BY <1>1 DEF Stages
  <2> QED
    BY <2>1, <2>2, <2>3, <2>4 DEF TypeOK
<1>14. DestroyedOnce'
  <2>1. \A o \in Threads : o # th /\ cb'[o] = cb'[th] /\ pc'[th] = "free" => pc'[o] = "cas"
    BY <1>2, <1>9, <1>13
  <2>2. pc'[th] # "destroy" /\ pc'[th] # "dropgroup"
    BY <1>9
  <2>3. \A o \in Threads : pc'[o] = "destroy" => object'[cb'[o]] = "live"
    BY <1>2, <2>2 DEF DestroyedOnce
  <2>4. ASSUME NEW t1 \in Threads, NEW t2 \in Threads, t1 # t2, cb'[t1] = cb'[t2],
               pc'[t1] \in {"destroy", "dropgroup", "free"},
               pc'[t2] \in {"destroy", "dropgroup", "free"}
        PROVE  cb'[t1] = Null
    <3>1. CASE t1 = th \/ t2 = th
      BY <2>1, <2>2, <2>4, <3>1
    <3>2. CASE t1 # th /\ t2 # th
      BY <1>2, <2>4, <3>2 DEF DestroyedOnce
    <3> QED
      BY <3>1, <3>2
  <2> QED
    BY <2>3, <2>4 DEF DestroyedOnce
<1>15. NothingForgotten'
  <2> SUFFICES ASSUME NEW c \in Blocks PROVE
        /\ object[c] = "live" => \/ Owners(c)' # {}
                                 \/ \E o \in Threads : cb'[o] = c /\ pc'[o] = "destroy"
        /\ mem[c] = "live" => \/ (Owners(c)' \cup Watchers(c)' \cup Burying(c)') # {}
                              \/ \E o \in Threads : cb'[o] = c /\ pc'[o] = "free"
    BY DEF NothingForgotten
  <2>1. \A o \in Threads : cb[o] = c => cb'[o] = c /\ pc'[o] = pc[o]
    BY <1>1, <1>2 DEF PointersAssumption
  <2>2. object[c] = "live" => \/ Owners(c)' # {}
                              \/ \E o \in Threads : cb'[o] = c /\ pc'[o] = "destroy"
    BY <1>4, <2>1 DEF NothingForgotten
  <2>3. CASE c = b
    BY <1>4, <1>5, <1>8, <1>9, <2>2, <2>3
  <2>4. CASE c # b
    <3>1. w \notin Watchers(c)
      BY <2>4 DEF Watchers
    <3> QED
      BY <1>3, <1>4, <1>5, <2>1, <2>2, <3>1 DEF NothingForgotten
  <2> QED
    BY <2>3, <2>4
<1>16. Stages'
  <2>1. ASSUME NEW o \in Threads, NEW c \in Blocks, cb'[o] = c
        PROVE  /\ pc'[o] \in {"destroy", "dropgroup"} => Owners(c)' = {}
               /\ pc'[o] \in {"dropgroup", "free"} => object'[c] = "destroyed"
               /\ pc'[o] = "free" => Owners(c)' \cup Watchers(c)' \cup Burying(c)' = {}
               /\ pc'[o] = "cas" => seen'[o] > 0 /\ \E v \in Weak : Owner[v] = o /\ wp'[v] = c
    <3>1. CASE o = th
      BY <1>4, <1>5, <1>8, <1>9, <1>13, <2>1, <3>1 DEF PointersAssumption
    <3>2. CASE o # th
      <4>1. cb[o] = c /\ pc'[o] = pc[o]
        BY <1>2, <2>1, <3>2
      <4>2. \A v \in Weak : Owner[v] = o => wp'[v] = wp[v]
        BY <3>2 DEF Points, TypeOK
      <4> QED
        BY <1>3, <1>4, <1>5, <4>1, <4>2 DEF Stages
    <3> QED
      BY <3>1, <3>2
  <2>2. \A o \in Threads : pc'[o] = "idle" <=> cb'[o] = Null
    BY <1>1, <1>2, <1>9 DEF Stages
  <2> QED
    BY <2>1, <2>2 DEF Stages
<1> QED
  BY <1>10, <1>11, <1>12, <1>14, <1>15, <1>16

LEMMA FreeInv ==
  ASSUME PointersAssumption, IInv, NEW th \in Threads, Free(th), NEW b \in Blocks, cb[th] = b
  PROVE  IInv'
<1> USE DEF Free, IInv
<1>1. /\ mem[b] = "live" /\ b # Null /\ object[b] = "destroyed"
      /\ Owners(b) \cup Watchers(b) \cup Burying(b) = {}
  BY DEF PointersAssumption, TypeOK, Stages, NoDangling
<1>2. \A o \in Threads : o # th => cb[o] # b
  <2> SUFFICES ASSUME NEW o \in Threads, o # th, cb[o] = b PROVE FALSE
    OBVIOUS
  <2>1. pc[o] \notin {"idle", "destroy", "dropgroup", "cas"}
    BY <1>1 DEF Stages, Burying, Watchers
  <2>2. pc[o] # "free"
    BY <1>1 DEF DestroyedOnce
  <2> QED
    BY <2>1, <2>2 DEF TypeOK
<1>3. \A c \in Blocks : /\ Owners(c)' = Owners(c) /\ Watchers(c)' = Watchers(c)
                        /\ Burying(c)' = Burying(c)
  BY DEF PointersAssumption, Owners, Watchers, Burying, TypeOK
<1>4. TypeOK'
  BY DEF TypeOK
<1>5. CountsExact'
  BY <1>3 DEF CountsExact, TypeOK
<1>6. NoDangling'
  BY <1>1, <1>2 DEF NoDangling, TypeOK, Owners, Watchers
<1>7. DestroyedOnce'
  BY DEF DestroyedOnce, TypeOK
<1>8. NothingForgotten'
  BY <1>1, <1>3 DEF NothingForgotten, TypeOK
<1>9. Stages'
  BY <1>1, <1>3 DEF Stages, TypeOK, NoDangling
<1> QED
  BY <1>4, <1>5, <1>6, <1>7, <1>8, <1>9
\* weak_create and weak_clone: the block is live, and has a pointer already.
LEMMA AddWatcherInv ==
  ASSUME PointersAssumption, IInv, NEW w \in Weak, NEW b \in Blocks, AddWatcher(w, b), wp[w] = Null,
         Idle(w), Owners(b) \cup Watchers(b) # {}
  PROVE  IInv'
<1> USE DEF AddWatcher, IInv
<1>1. mem[b] = "live" /\ b # Null
  BY DEF PointersAssumption, NoDangling, Owners, Watchers
<1>2. \A c \in Blocks :
        /\ Watchers(c)' = IF c = b THEN Watchers(c) \cup {w} ELSE Watchers(c)
        /\ Cardinality(Watchers(c)') =
             IF c = b THEN Cardinality(Watchers(c)) + 1 ELSE Cardinality(Watchers(c))
  BY WeakSet
<1>3. \A c \in Blocks : Owners(c)' = Owners(c) /\ Burying(c)' = Burying(c)
  BY DEF Owners, Burying
<1>4. TypeOK' /\ NoDangling'
  BY <1>1 DEF TypeOK, NoDangling, Points
<1>5. CountsExact'
  <2> SUFFICES ASSUME NEW c \in Blocks, mem[c] = "live"
               PROVE  weakCount'[c] = Cardinality(Watchers(c)')
                           + (IF Owners(c) \cup Burying(c) = {} THEN 0 ELSE 1)
    BY <1>3 DEF CountsExact
  <2>1. weakCount'[c] = IF c = b THEN weakCount[c] + 1 ELSE weakCount[c]
    BY DEF TypeOK
  <2>2. Cardinality(Watchers(c)) \in Nat
    BY Sizes
  <2> QED
    BY <1>2, <2>1, <2>2 DEF CountsExact
<1>6. DestroyedOnce' /\ NothingForgotten'
  BY <1>2, <1>3 DEF DestroyedOnce, NothingForgotten
<1>7. Stages'
  <2>1. \A c \in Blocks, th \in Threads : cb[th] = c /\ pc[th] = "free" => c # b
    <3>1. \A th \in Threads : cb[th] = b => pc[th] # "free"
      BY DEF Stages
    <3> QED
      BY <3>1
  <2>2. \A v \in Weak : wp[v] # Null => wp'[v] = wp[v]
    BY DEF Points, TypeOK
  <2> QED
    BY <1>2, <1>3, <2>1, <2>2 DEF PointersAssumption, Stages
<1> QED
  BY <1>4, <1>5, <1>6, <1>7

LEMMA WeakMoveInv ==
  ASSUME PointersAssumption, IInv, NEW v \in Weak, NEW w \in Weak, WeakMove(v, w)
  PROVE  IInv'
<1> USE DEF WeakMove, IInv
<1>1. \A c \in Blocks :
        /\ Cardinality(Watchers(c)') = Cardinality(Watchers(c))
        /\ Watchers(c)' = {} <=> Watchers(c) = {}
  BY WeakMoves
<1>2. \A c \in Blocks : Owners(c)' = Owners(c) /\ Burying(c)' = Burying(c)
  BY DEF Owners, Burying
<1>3. TypeOK' /\ NoDangling'
  BY DEF TypeOK, NoDangling
<1>4. CountsExact'
  BY <1>1, <1>2 DEF CountsExact
<1>5. DestroyedOnce' /\ NothingForgotten'
  BY <1>1, <1>2 DEF DestroyedOnce, NothingForgotten
\* The threads that execute weak_lock are not idle, so their weak pointers stay.
<1>6. \A th \in Threads, u \in Weak : pc[th] = "cas" /\ Owner[u] = th => wp'[u] = wp[u]
  BY DEF Idle, TypeOK
<1>7. Stages'
  <2>1. \A c \in Blocks : (Owners(c)' \cup Watchers(c)' \cup Burying(c)' = {})
                         <=> (Owners(c) \cup Watchers(c) \cup Burying(c) = {})
    BY <1>1, <1>2
  <2>2. ASSUME NEW th \in Threads, NEW c \in Blocks, cb[th] = c, pc[th] = "cas"
        PROVE  \E u \in Weak : Owner[u] = th /\ wp'[u] = c
    <3>1. PICK u \in Weak : Owner[u] = th /\ wp[u] = c
      BY <2>2 DEF Stages
    <3> QED
      BY <1>6, <2>2, <3>1
  <2>3. \A th \in Threads, c \in Blocks : cb'[th] = c =>
          /\ pc'[th] \in {"destroy", "dropgroup"} => Owners(c)' = {}
          /\ pc'[th] \in {"dropgroup", "free"} => object'[c] = "destroyed"
          /\ pc'[th] = "free" => Owners(c)' \cup Watchers(c)' \cup Burying(c)' = {}
          /\ pc'[th] = "cas" => seen'[th] > 0
    BY <1>2, <2>1 DEF Stages
  <2>4. /\ \A th \in Threads : pc'[th] = "idle" <=> cb'[th] = Null
        /\ \A c \in Blocks : /\ mem'[c] # "live" => object'[c] # "live"
                             /\ mem'[c] = "live" => object'[c] # "none"
    BY DEF Stages
  <2>5. \A th \in Threads, c \in Blocks : cb'[th] = c /\ pc'[th] = "cas" =>
          \E u \in Weak : Owner[u] = th /\ wp'[u] = c
    BY <2>2
  <2> HIDE DEF WeakMove, IInv
  <2> QED
    BY <2>3, <2>4, <2>5 DEF Stages
<1> QED
  BY <1>3, <1>4, <1>5, <1>7

LEMMA LockReadsInv ==
  ASSUME PointersAssumption, IInv, NEW w \in Weak, LockReads(w), NEW th \in Threads, Owner[w] = th
  PROVE  IInv'
<1> USE DEF LockReads, IInv, blockVars
<1>1. pc[th] = "idle" /\ cb[th] = Null /\ wp[w] \in Blocks /\ mem[wp[w]] = "live"
  BY DEF Idle, Stages, TypeOK, NoDangling
<1>2. \A c \in Blocks : /\ Owners(c)' = Owners(c) /\ Watchers(c)' = Watchers(c)
                        /\ Burying(c)' = Burying(c)
  BY <1>1 DEF PointersAssumption, Owners, Watchers, Burying, TypeOK
<1>3. TypeOK' /\ NoDangling'
  BY <1>1 DEF TypeOK, NoDangling
<1>4. CountsExact'
  BY <1>2 DEF CountsExact
<1>5. DestroyedOnce'
  BY <1>1 DEF DestroyedOnce, TypeOK
<1>6. NothingForgotten'
  <2>1. \A o \in Threads : cb[o] # Null => cb'[o] = cb[o] /\ pc'[o] = pc[o]
    BY <1>1 DEF TypeOK
  <2> QED
    BY <1>2, <2>1 DEF PointersAssumption, NothingForgotten
<1>7. Stages'
  BY <1>1, <1>2 DEF PointersAssumption, Stages, TypeOK
<1> QED
  BY <1>3, <1>4, <1>5, <1>6, <1>7

\* A thread of weak_lock goes back to its caller with nothing.
LEMMA LockRetriesInv ==
  ASSUME PointersAssumption, IInv, NEW th \in Threads, LockRetries(th)
  PROVE  IInv'
<1> USE DEF LockRetries, IInv, blockVars
<1>1. cb[th] \in Blocks
  BY DEF Stages, TypeOK
<1>2. \A c \in Blocks : /\ Owners(c)' = Owners(c) /\ Watchers(c)' = Watchers(c)
                        /\ Burying(c)' = Burying(c)
  BY DEF Owners, Watchers, Burying, TypeOK
<1>3. TypeOK' /\ NoDangling'
  BY <1>1 DEF TypeOK, NoDangling
<1>4. CountsExact'
  BY <1>2 DEF CountsExact
<1>5. DestroyedOnce'
  BY DEF DestroyedOnce, TypeOK
<1>6. NothingForgotten'
  <2>1. \A o \in Threads : pc[o] # "cas" => cb'[o] = cb[o] /\ pc'[o] = pc[o]
    BY DEF TypeOK
  <2> QED
    BY <1>2, <2>1 DEF NothingForgotten
<1>7. Stages'
  BY <1>1, <1>2 DEF PointersAssumption, Stages, TypeOK
<1> QED
  BY <1>3, <1>4, <1>5, <1>6, <1>7

LEMMA LockSucceedsInv ==
  ASSUME PointersAssumption, IInv, NEW th \in Threads, NEW s \in Strong, LockSucceeds(th, s),
         NEW b \in Blocks, cb[th] = b
  PROVE  IInv'
<1> USE DEF LockSucceeds, StillSeen, AddOwner, IInv
<1>1. mem[b] = "live" /\ b # Null /\ strongCount[b] > 0
  BY DEF PointersAssumption, Stages, NoDangling
<1>2. Owners(b) # {} /\ object[b] = "live"
  <2>1. Owners(b) # {}
    BY <1>1, Counted
  <2> QED
    BY <1>1, <2>1 DEF Owners, NoDangling
<1>3. \A c \in Blocks :
        /\ Owners(c)' = IF c = b THEN Owners(c) \cup {s} ELSE Owners(c)
        /\ Cardinality(Owners(c)') =
             IF c = b THEN Cardinality(Owners(c)) + 1 ELSE Cardinality(Owners(c))
  BY StrongSet
<1>4. \A c \in Blocks : Watchers(c)' = Watchers(c) /\ Burying(c)' = Burying(c)
  BY DEF Watchers, Burying, TypeOK
<1>5. TypeOK' /\ NoDangling'
  BY <1>1, <1>2 DEF TypeOK, NoDangling, Points
<1>6. CountsExact'
  <2> SUFFICES ASSUME NEW c \in Blocks, mem[c] = "live"
               PROVE  /\ strongCount'[c] = Cardinality(Owners(c)')
                      /\ weakCount'[c] = Cardinality(Watchers(c)')
                           + (IF Owners(c)' \cup Burying(c)' = {} THEN 0 ELSE 1)
    BY DEF CountsExact
  <2>1. strongCount'[c] = Cardinality(Owners(c)')
    BY <1>1, <1>3 DEF CountsExact, TypeOK
  <2>2. (Owners(c)' \cup Burying(c)' = {}) <=> (Owners(c) \cup Burying(c) = {})
    BY <1>2, <1>3, <1>4
  <2> QED
    BY <1>4, <2>1, <2>2 DEF CountsExact
<1>7. DestroyedOnce'
  BY DEF DestroyedOnce, TypeOK
<1>8. NothingForgotten'
  <2>1. \A o \in Threads : pc[o] # "cas" => cb'[o] = cb[o] /\ pc'[o] = pc[o]
    BY DEF TypeOK
  <2>2. Owners(b)' # {}
    BY <1>2, <1>3
  <2> QED
    BY <1>3, <1>4, <2>1, <2>2 DEF NothingForgotten
<1>9. Stages'
  <2>1. \A o \in Threads : cb[o] = b => pc[o] \notin {"destroy", "dropgroup", "free"}
    BY <1>2 DEF Stages
  <2>2. \A o \in Threads : o # th => cb'[o] = cb[o] /\ pc'[o] = pc[o]
    BY DEF TypeOK
  <2>3. pc'[th] = "idle" /\ cb'[th] = Null
    BY DEF TypeOK
  <2> QED
    BY <1>3, <1>4, <2>1, <2>2, <2>3 DEF PointersAssumption, Stages
<1> QED
  BY <1>5, <1>6, <1>7, <1>8, <1>9

-----------------------------------------------------------------------------
LEMMA NextInv ==
  ASSUME PointersAssumption, IInv, [Next]_vars
  PROVE  IInv'
<1>1. ASSUME NEW s \in Strong, StrongStep(s) PROVE IInv'
  <2>1. sp[s] # Null => sp[s] \in Blocks /\ Owner[s] \in Threads
    BY DEF PointersAssumption, IInv, TypeOK
  <2>2. CASE \E b \in Blocks : MakeShared(s, b) \/ MakeFails(s, b)
    BY <2>2, MakeSharedInv, MakeFailsInv
  <2>3. CASE \E t \in Strong : Clone(s, t) \/ Move(s, t)
    <3>1. ASSUME NEW t \in Strong, Clone(s, t) PROVE IInv'
      BY <2>1, <3>1, CloneInv DEF Clone
    <3> QED
      BY <2>3, <3>1, MoveInv
  <2>4. ASSUME NEW w \in Weak, WeakCreate(s, w) PROVE IInv'
    <3>1. PICK b \in Blocks : b = sp[s] /\ AddWatcher(w, b) /\ wp[w] = Null
      BY <2>1, <2>4 DEF WeakCreate, AddWatcher, Points
    <3>2. Idle(w)
      BY <2>4 DEF WeakCreate, Idle
    <3>3. Owners(b) \cup Watchers(b) # {}
      BY <3>1 DEF Owners
    <3> QED
      BY <3>1, <3>2, <3>3, AddWatcherInv
  <2>5. CASE Release(s)
    <3>1. sp[s] # Null
      BY <2>5 DEF Release
    <3> QED
      BY <2>1, <2>5, <3>1, ReleaseInv
  <2> QED
    BY <1>1, <2>2, <2>3, <2>4, <2>5 DEF StrongStep
<1>2. ASSUME NEW w \in Weak, WeakStep(w) PROVE IInv'
  <2>1. (wp[w] # Null => wp[w] \in Blocks) /\ Owner[w] \in Threads
    BY DEF PointersAssumption, IInv, TypeOK
  <2>2. ASSUME NEW v \in Weak, WeakClone(w, v) PROVE IInv'
    <3>1. PICK b \in Blocks : b = wp[w] /\ AddWatcher(v, b) /\ wp[v] = Null
      BY <2>1, <2>2 DEF WeakClone, AddWatcher, Points
    <3>2. Idle(v)
      BY <2>2 DEF WeakClone, Idle
    <3>3. Owners(b) \cup Watchers(b) # {}
      BY <3>1 DEF Watchers
    <3> QED
      BY <3>1, <3>2, <3>3, AddWatcherInv
  <2>3. ASSUME NEW v \in Weak, WeakMove(w, v) PROVE IInv'
    BY <2>3, WeakMoveInv
  <2>4. CASE WeakRelease(w)
    <3>1. wp[w] # Null
      BY <2>4 DEF WeakRelease
    <3> QED
      BY <2>1, <2>4, <3>1, WeakReleaseInv
  <2>5. CASE LockReads(w)
    BY <2>1, <2>5, LockReadsInv
  <2> QED
    BY <1>2, <2>2, <2>3, <2>4, <2>5 DEF WeakStep
<1>3. ASSUME NEW th \in Threads, ThreadStep(th) PROVE IInv'
  <2>1. pc[th] # "idle" => cb[th] \in Blocks
    BY DEF IInv, TypeOK, Stages
  <2>2. CASE Destroy(th)
    BY <2>1, <2>2, DestroyInv DEF Destroy
  <2>3. CASE DropGroup(th)
    BY <2>1, <2>3, DropGroupInv DEF DropGroup
  <2>4. CASE Free(th)
    BY <2>1, <2>4, FreeInv DEF Free
  <2>5. CASE LockRetries(th)
    BY <2>5, LockRetriesInv
  <2>6. ASSUME NEW s \in Strong, LockSucceeds(th, s) PROVE IInv'
    BY <2>1, <2>6, LockSucceedsInv DEF LockSucceeds
  <2> QED
    BY <1>3, <2>2, <2>3, <2>4, <2>5, <2>6 DEF ThreadStep
<1>4. CASE UNCHANGED vars
  <2> USE <1>4 DEF vars
  <2>1. \A c \in Blocks : /\ Owners(c)' = Owners(c) /\ Watchers(c)' = Watchers(c)
                          /\ Burying(c)' = Burying(c)
    BY DEF Owners, Watchers, Burying
  <2>2. TypeOK' /\ NoDangling' /\ DestroyedOnce'
    BY DEF IInv, TypeOK, NoDangling, DestroyedOnce
  <2>3. CountsExact'
    BY <2>1 DEF IInv, CountsExact
  <2>4. NothingForgotten'
    BY <2>1 DEF IInv, NothingForgotten
  <2>5. Stages'
    BY <2>1 DEF IInv, Stages
  <2> QED
    BY <2>2, <2>3, <2>4, <2>5 DEF IInv
<1> QED
  BY <1>1, <1>2, <1>3, <1>4 DEF Next

LEMMA Invariance ==
  ASSUME PointersAssumption
  PROVE  Spec => []IInv
<1>1. Init => IInv
  BY InitInv
<1>2. IInv /\ [Next]_vars => IInv'
  BY NextInv
<1> QED
  BY <1>1, <1>2, PTL DEF Spec

-----------------------------------------------------------------------------
(* The invariants, for any number of threads, variables and blocks *)

\* Every variable keeps its type.
THEOREM TypeCorrect ==
  ASSUME PointersAssumption
  PROVE  Spec => []TypeOK
<1>1. IInv => TypeOK
  BY DEF IInv
<1> QED
  BY <1>1, Invariance, PTL

\* strong_count and weak_count are exact in every live block, so neither
\* reaches zero early or stays above zero when the last pointer is gone.
THEOREM CountsAlwaysExact ==
  ASSUME PointersAssumption
  PROVE  Spec => []CountsExact
<1>1. IInv => CountsExact
  BY DEF IInv
<1> QED
  BY <1>1, Invariance, PTL

\* No SharedPtr leads to a destroyed object, and no pointer or running call to a
\* freed block.
THEOREM NothingDangles ==
  ASSUME PointersAssumption
  PROVE  Spec => []NoDangling
<1>1. IInv => NoDangling
  BY DEF IInv
<1> QED
  BY <1>1, Invariance, PTL

\* No two threads destroy an object or free a block that each believes its own.
THEOREM DiesOnce ==
  ASSUME PointersAssumption
  PROVE  Spec => []DestroyedOnce
<1>1. IInv => DestroyedOnce
  BY DEF IInv
<1> QED
  BY <1>1, Invariance, PTL

\* A live object or block always has somebody who will release it.
THEOREM NothingIsForgotten ==
  ASSUME PointersAssumption
  PROVE  Spec => []NothingForgotten
<1>1. IInv => NothingForgotten
  BY DEF IInv
<1> QED
  BY <1>1, Invariance, PTL

\* The four together, as the model checker sees them.
THEOREM AlwaysConsistent ==
  ASSUME PointersAssumption
  PROVE  Spec => []Consistent
BY TypeCorrect, CountsAlwaysExact, DiesOnce, NothingIsForgotten, PTL DEF Consistent

-----------------------------------------------------------------------------
(* weak_lock never brings an expired object back *)

LEMMA ExpiredStays ==
  ASSUME PointersAssumption, IInv, [Next]_vars, NEW b \in Blocks, Expired(b)
  PROVE  Expired(b)'
<1> USE DEF Expired
<1>1. \A s \in Strong : sp[s] # b
  <2> SUFFICES ASSUME NEW s \in Strong, sp[s] = b PROVE FALSE
    OBVIOUS
  <2>1. mem[b] = "live"
    BY DEF PointersAssumption, IInv, NoDangling
  <2>2. Owners(b) # {}
    BY DEF Owners
  <2> QED
    BY <2>1, <2>2, Counted
<1>2. ASSUME NEW s \in Strong, StrongStep(s) PROVE Expired(b)'
  BY <1>1, <1>2 DEF StrongStep, MakeShared, MakeFails, Clone, Move, Release, AddOwner,
                    WeakCreate, AddWatcher, IInv, TypeOK
<1>3. ASSUME NEW w \in Weak, WeakStep(w) PROVE Expired(b)'
  BY <1>3 DEF WeakStep, WeakClone, WeakMove, WeakRelease, LockReads, AddWatcher, blockVars
<1>4. ASSUME NEW th \in Threads, ThreadStep(th) PROVE Expired(b)'
  <2>1. CASE Destroy(th) \/ DropGroup(th) \/ Free(th) \/ LockRetries(th)
    BY <2>1 DEF Destroy, DropGroup, Free, LockRetries, blockVars, IInv, TypeOK
  <2>2. ASSUME NEW s \in Strong, LockSucceeds(th, s) PROVE Expired(b)'
    \* The compare-and-swap found a count that is not zero.
    <3>1. cb[th] \in Blocks /\ strongCount[cb[th]] > 0
      BY <2>2 DEF LockSucceeds, StillSeen, IInv, TypeOK, Stages
    <3> QED
      BY <2>2, <3>1 DEF LockSucceeds, AddOwner, IInv, TypeOK
  <2> QED
    BY <1>4, <2>1, <2>2 DEF ThreadStep
<1>5. CASE UNCHANGED vars
  BY <1>5 DEF vars
<1> QED
  BY <1>2, <1>3, <1>4, <1>5 DEF Next

\* Once strong_count is zero it stays zero: weak_lock and expired cannot first
\* report a dead object and later a living one.
THEOREM ExpiredStaysExpired ==
  ASSUME PointersAssumption
  PROVE  Spec => ExpiredForEver
<1>1. IInv /\ [Next]_vars => [\A b \in Blocks : Expired(b) => Expired(b)']_vars
  BY ExpiredStays
<1> QED
  BY <1>1, Invariance, PTL DEF Spec, ExpiredForEver

-----------------------------------------------------------------------------
(* Every step is a step of RefObject, or none *)

LEMMA RefInit ==
  ASSUME PointersAssumption
  PROVE  Init => Abstract!Init
BY DEF PointersAssumption, Init, Abstract!Init, Owners, Watchers, Life

\* Pointers that stay leave the abstract sets alone.
LEMMA SameOwners == UNCHANGED sp => UNCHANGED [b \in Blocks |-> Owners(b)]
BY DEF Owners
LEMMA SameWatchers == UNCHANGED wp => UNCHANGED [b \in Blocks |-> Watchers(b)]
BY DEF Watchers
LEMMA SameLife == UNCHANGED <<mem, object>> => UNCHANGED [b \in Blocks |-> Life(b)]
BY DEF Life

LEMMA RefStrong ==
  ASSUME PointersAssumption, IInv, NEW s \in Strong, StrongStep(s)
  PROVE  [Abstract!Next]_(Abstract!vars)
<1> USE DEF IInv
<1>1. ASSUME NEW b \in Blocks, MakeShared(s, b) PROVE Abstract!Create(b, s)
  <2>1. [c \in Blocks |-> Life(c)]' = [[c \in Blocks |-> Life(c)] EXCEPT ![b] = "alive"]
    BY <1>1 DEF MakeShared, Life, TypeOK
  <2>2. Owners(b) = {}
    BY <1>1 DEF PointersAssumption, MakeShared, NoDangling, Owners
  <2>3. [c \in Blocks |-> Owners(c)]' = [[c \in Blocks |-> Owners(c)] EXCEPT ![b] = {s}]
    BY <1>1, <2>2, StrongSet DEF MakeShared
  <2> QED
    BY <1>1, <2>1, <2>3, SameWatchers DEF Abstract!Create, MakeShared, Life
<1>2. ASSUME NEW b \in Blocks, MakeFails(s, b) PROVE Abstract!StillBorn(b)
  <2>1. [c \in Blocks |-> Life(c)]' = [[c \in Blocks |-> Life(c)] EXCEPT ![b] = "gone"]
    BY <1>2 DEF MakeFails, Life, TypeOK
  <2> QED
    BY <1>2, <2>1, SameOwners, SameWatchers DEF Abstract!StillBorn, MakeFails, Life
<1>3. ASSUME NEW t \in Strong, Clone(s, t) PROVE \E b \in Blocks : Abstract!Own(b, t)
  <2>1. PICK b \in Blocks : b = sp[s] /\ Points(sp, t, b)
    BY <1>3 DEF Clone, Points, TypeOK
  <2>2. [c \in Blocks |-> Owners(c)]' = [[c \in Blocks |-> Owners(c)] EXCEPT ![b] = @ \cup {t}]
    BY <1>3, <2>1, StrongSet DEF Clone
  <2>3. Owners(b) # {}
    BY <2>1 DEF Owners
  <2> QED
    BY <1>3, <2>2, <2>3, SameWatchers, SameLife DEF Abstract!Own, Clone
<1>4. ASSUME NEW t \in Strong, Move(s, t) PROVE \E b \in Blocks : Abstract!PassOn(b, s, t)
  <2>1. PICK b \in Blocks : b = sp[s]
    BY <1>4 DEF Move, TypeOK
  <2>2. [c \in Blocks |-> Owners(c)]' =
          [[c \in Blocks |-> Owners(c)] EXCEPT ![b] = (@ \ {s}) \cup {t}]
    BY <1>4, <2>1, StrongMove DEF Move
  <2>3. s \in Owners(b)
    BY <2>1 DEF Owners
  <2> QED
    BY <1>4, <2>2, <2>3, SameWatchers, SameLife DEF Abstract!PassOn, Move
<1>5. ASSUME Release(s) PROVE \E b \in Blocks : Abstract!Disown(b, s)
  <2>1. PICK b \in Blocks : b = sp[s]
    BY <1>5 DEF Release, TypeOK
  <2>2. [c \in Blocks |-> Owners(c)]' = [[c \in Blocks |-> Owners(c)] EXCEPT ![b] = @ \ {s}]
    <3>1. \A c \in Blocks : Owners(c)' = IF c = b THEN Owners(c) \ {s} ELSE Owners(c)
      BY <1>5, <2>1 DEF PointersAssumption, Release, Points, Owners, TypeOK
    <3> QED
      BY <3>1
  <2>3. s \in Owners(b)
    BY <2>1 DEF Owners
  <2> QED
    BY <1>5, <2>2, <2>3, SameWatchers, SameLife DEF Abstract!Disown, Release
<1>6. ASSUME NEW w \in Weak, WeakCreate(s, w) PROVE \E b \in Blocks : Abstract!Watch(b, w)
  <2>1. PICK b \in Blocks : b = sp[s] /\ Points(wp, w, b)
    BY <1>6 DEF WeakCreate, AddWatcher, Points, TypeOK
  <2>2. [c \in Blocks |-> Watchers(c)]' =
          [[c \in Blocks |-> Watchers(c)] EXCEPT ![b] = @ \cup {w}]
    BY <1>6, <2>1, WeakSet DEF WeakCreate
  <2>3. Owners(b) # {}
    BY <2>1 DEF Owners
  <2> QED
    BY <1>6, <2>2, <2>3, SameOwners, SameLife DEF Abstract!Watch, WeakCreate, AddWatcher
<1> QED
  BY <1>1, <1>2, <1>3, <1>4, <1>5, <1>6 DEF StrongStep, Abstract!Next

LEMMA RefWeak ==
  ASSUME PointersAssumption, IInv, NEW w \in Weak, WeakStep(w)
  PROVE  [Abstract!Next]_(Abstract!vars)
<1> USE DEF IInv
<1>1. ASSUME NEW v \in Weak, WeakClone(w, v) PROVE \E b \in Blocks : Abstract!Watch(b, v)
  <2>1. PICK b \in Blocks : b = wp[w] /\ Points(wp, v, b)
    BY <1>1 DEF WeakClone, AddWatcher, Points, TypeOK
  <2>2. [c \in Blocks |-> Watchers(c)]' =
          [[c \in Blocks |-> Watchers(c)] EXCEPT ![b] = @ \cup {v}]
    BY <1>1, <2>1, WeakSet DEF WeakClone
  <2>3. Watchers(b) # {}
    BY <2>1 DEF Watchers
  <2> QED
    BY <1>1, <2>2, <2>3, SameOwners, SameLife DEF Abstract!Watch, WeakClone, AddWatcher
<1>2. ASSUME NEW v \in Weak, WeakMove(w, v) PROVE \E b \in Blocks : Abstract!PassWatch(b, w, v)
  <2>1. PICK b \in Blocks : b = wp[w]
    BY <1>2 DEF WeakMove, TypeOK
  <2>2. [c \in Blocks |-> Watchers(c)]' =
          [[c \in Blocks |-> Watchers(c)] EXCEPT ![b] = (@ \ {w}) \cup {v}]
    BY <1>2, <2>1, WeakMoves DEF WeakMove
  <2>3. w \in Watchers(b)
    BY <2>1 DEF Watchers
  <2> QED
    BY <1>2, <2>2, <2>3, SameOwners, SameLife DEF Abstract!PassWatch, WeakMove
<1>3. ASSUME WeakRelease(w) PROVE \E b \in Blocks : Abstract!Unwatch(b, w)
  <2>1. PICK b \in Blocks : b = wp[w]
    BY <1>3 DEF WeakRelease, TypeOK
  <2>2. [c \in Blocks |-> Watchers(c)]' =
          [[c \in Blocks |-> Watchers(c)] EXCEPT ![b] = @ \ {w}]
    <3>1. \A c \in Blocks : Watchers(c)' = IF c = b THEN Watchers(c) \ {w} ELSE Watchers(c)
      BY <1>3, <2>1 DEF PointersAssumption, WeakRelease, Points, Watchers, TypeOK
    <3> QED
      BY <3>1
  <2>3. w \in Watchers(b)
    BY <2>1 DEF Watchers
  <2> QED
    BY <1>3, <2>2, <2>3, SameOwners, SameLife DEF Abstract!Unwatch, WeakRelease
<1>4. ASSUME LockReads(w) PROVE UNCHANGED Abstract!vars
  BY <1>4, SameOwners, SameWatchers, SameLife DEF LockReads, blockVars, Abstract!vars
<1> QED
  BY <1>1, <1>2, <1>3, <1>4 DEF WeakStep, Abstract!Next

LEMMA RefThread ==
  ASSUME PointersAssumption, IInv, NEW th \in Threads, ThreadStep(th)
  PROVE  [Abstract!Next]_(Abstract!vars)
<1> USE DEF IInv
<1>1. ASSUME Destroy(th) PROVE \E b \in Blocks : Abstract!Die(b)
  <2>1. PICK b \in Blocks : b = cb[th] /\ mem[b] = "live" /\ object[b] = "live" /\ Owners(b) = {}
    BY <1>1 DEF PointersAssumption, Destroy, TypeOK, Stages, NoDangling, DestroyedOnce
  <2>2. [c \in Blocks |-> Life(c)]' = [[c \in Blocks |-> Life(c)] EXCEPT ![b] = "dead"]
    BY <1>1, <2>1 DEF Destroy, Life, TypeOK
  <2> QED
    BY <1>1, <2>1, <2>2, SameOwners, SameWatchers DEF Abstract!Die, Destroy, Life
<1>2. ASSUME Free(th) PROVE \E b \in Blocks : Abstract!Reclaim(b)
  <2>1. PICK b \in Blocks : /\ b = cb[th] /\ mem[b] = "live" /\ object[b] = "destroyed"
                           /\ Watchers(b) = {}
    BY <1>2 DEF PointersAssumption, Free, TypeOK, Stages, NoDangling
  <2>2. [c \in Blocks |-> Life(c)]' = [[c \in Blocks |-> Life(c)] EXCEPT ![b] = "gone"]
    BY <1>2, <2>1 DEF Free, Life, TypeOK
  <2> QED
    BY <1>2, <2>1, <2>2, SameOwners, SameWatchers DEF Abstract!Reclaim, Free, Life
<1>3. ASSUME DropGroup(th) \/ LockRetries(th) PROVE UNCHANGED Abstract!vars
  BY <1>3, SameOwners, SameWatchers, SameLife
     DEF DropGroup, LockRetries, blockVars, Abstract!vars
<1>4. ASSUME NEW s \in Strong, LockSucceeds(th, s) PROVE \E b \in Blocks : Abstract!Own(b, s)
  <2>0. cb[th] \in Blocks
    BY <1>4 DEF LockSucceeds, TypeOK, Stages
  <2>1. PICK b \in Blocks : b = cb[th] /\ Points(sp, s, b)
    BY <1>4, <2>0 DEF LockSucceeds, Points
  <2>2. [c \in Blocks |-> Owners(c)]' = [[c \in Blocks |-> Owners(c)] EXCEPT ![b] = @ \cup {s}]
    BY <1>4, <2>1, StrongSet DEF LockSucceeds
  <2>3. mem[b] = "live" /\ strongCount[b] > 0
    BY <1>4, <2>1 DEF PointersAssumption, LockSucceeds, StillSeen, Stages, NoDangling
  <2>4. Owners(b) # {}
    BY <2>3, Counted
  <2> QED
    BY <1>4, <2>2, <2>4, SameWatchers, SameLife DEF Abstract!Own, LockSucceeds
<1> QED
  BY <1>1, <1>2, <1>3, <1>4 DEF ThreadStep, Abstract!Next

\* The counters implement what RefObject says of owners and watchers.
THEOREM Refinement ==
  ASSUME PointersAssumption
  PROVE  Spec => ImplementsRefObject
<1>1. IInv /\ [Next]_vars => [Abstract!Next]_(Abstract!vars)
  <2> SUFFICES ASSUME IInv, [Next]_vars PROVE [Abstract!Next]_(Abstract!vars)
    OBVIOUS
  <2>1. CASE UNCHANGED vars
    BY <2>1, SameOwners, SameWatchers, SameLife DEF vars, Abstract!vars
  <2>2. CASE \E s \in Strong : StrongStep(s)
    BY <2>2, RefStrong
  <2>3. CASE \E w \in Weak : WeakStep(w)
    BY <2>3, RefWeak
  <2>4. CASE \E th \in Threads : ThreadStep(th)
    BY <2>4, RefThread
  <2> QED
    BY <2>1, <2>2, <2>3, <2>4 DEF Next
<1> QED
  BY <1>1, RefInit, Invariance, PTL DEF Spec, ImplementsRefObject, Abstract!Spec
=============================================================================
