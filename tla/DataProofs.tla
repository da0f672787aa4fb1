----------------------------- MODULE DataProofs ------------------------------
(***************************************************************************)
(* Proofs about Values, for any number of variables, blocks, numbers and   *)
(* texts: every block of memory has one owner, and the calls do to a store *)
(* of values what ValueStore says.  And about HashMap, for any keys, any   *)
(* hash function and any sizes: the table keeps its order, a lookup finds  *)
(* every key, every loop over the table ends, and the calls do to it what  *)
(* they would do to a finite map.  And about ValueVec, for any values and  *)
(* any sizes: the containers stay inside their memory, lose no value and   *)
(* repeat none, rows are ordered, and the calls do to a row what Lists     *)
(* says.                                                                   *)
(***************************************************************************)
EXTENDS Data, FiniteSetTheorems, WellFoundedInduction, TLAPS

SlotRecord ==
  [rep : {"gone", "inplace", "heap"}, data : Numbers \cup Short \cup {Nothing},
   ptr : Blocks \cup {None}, borrowed : BOOLEAN, immutable : BOOLEAN]

Answers == {"none", "ok", "nomem", "readonly"}

\* A pointer is to a long text in a block that is the application's if it is borrowed.
InBlocks ==
  \A s \in Slots : slot[s].ptr # None =>
    /\ slot[s].rep = "heap" /\ mem[slot[s].ptr] \in Long
    /\ slot[s].borrowed <=> slot[s].ptr \in mine

Unshared == \A s, t \in Slots : slot[s].ptr = slot[t].ptr /\ slot[s].ptr # None /\ slot[s].ptr \notin mine => s = t

Kept == \A b \in Blocks : mem[b] # Gone => b \in mine \/ \E s \in Slots : slot[s].ptr = b

MineThere == \A b \in mine : mem[b] # Gone

\* A variable out of scope is not marked, and nothing is borrowed through a null pointer.
Away ==
  \A s \in Slots : (slot[s].rep = "gone" => ~slot[s].immutable) /\ (slot[s].borrowed => slot[s].ptr # None)

ValuesInv == ValuesAssumption /\ Owners!TypeOK /\ InBlocks /\ Unshared /\ Kept /\ MineThere /\ Away

LEMMA ValuesInitially ==
  ASSUME ValuesAssumption, Owners!Init
  PROVE  ValuesInv
BY DEF ValuesInv, Owners!Init, Owners!TypeOK, Owners!OutOfScope, InBlocks, Unshared, Kept, MineThere, Away

\* What the variable owns is given back when it gets another value.
LEMMA WhatIsFreed ==
  ASSUME ValuesInv, NEW s \in Slots
  PROVE  /\ \A b \in Blocks : b \in Owners!Freed(slot[s]) <=> slot[s].ptr = b /\ b \notin mine
         /\ Owners!Freed(slot[s]) \subseteq Blocks /\ slot[s] \in SlotRecord
         /\ ~Owners!Exists(s) => Owners!Freed(slot[s]) = {}
         /\ Owners!Borrowed(slot[s]) => Owners!Freed(slot[s]) = {}
<1>1. slot[s] \in SlotRecord BY DEF ValuesInv, Owners!TypeOK, SlotRecord
<1>2. slot[s].ptr # None => slot[s].rep = "heap" /\ (slot[s].borrowed <=> slot[s].ptr \in mine)
  BY DEF ValuesInv, InBlocks
<1> QED BY <1>1, <1>2 DEF Owners!Freed, Owners!Exists, Owners!Borrowed, SlotRecord, ValuesInv, ValuesAssumption

-----------------------------------------------------------------------------
\* s gets the value v, in a block of its own if it is a long one.
Filled(s) ==
  \E v \in SlotRecord, b \in Blocks \cup {None}, c \in Owners!Contents \cup {Nothing} :
    /\ slot' = [slot EXCEPT ![s] = v] /\ Owners!Memory(Owners!Freed(slot[s]), b, c)
    /\ v.ptr = b /\ ~v.borrowed
    /\ b # None => v.rep = "heap" /\ c \in Long /\ b \in Owners!Free \cup Owners!Freed(slot[s])
    /\ v.rep = "gone" => ~v.immutable

Same(t) == Owners!ValueOf(slot[t])' = Owners!ValueOf(slot[t]) /\ slot'[t].immutable = slot[t].immutable

Elsewhere(s) == (\A t \in Slots \ {s} : Same(t)) /\ \A d \in mine : mem'[d] = mem[d]

LEMMA FilledKeeps ==
  ASSUME ValuesInv, NEW s \in Slots, Filled(s), UNCHANGED mine, answer' \in Answers
  PROVE  ValuesInv' /\ Elsewhere(s)
<1>1. PICK v \in SlotRecord, b \in Blocks \cup {None}, c \in Owners!Contents \cup {Nothing} :
        /\ slot' = [slot EXCEPT ![s] = v] /\ Owners!Memory(Owners!Freed(slot[s]), b, c) /\ v.ptr = b /\ ~v.borrowed
        /\ b # None => v.rep = "heap" /\ c \in Long /\ b \in Owners!Free \cup Owners!Freed(slot[s])
        /\ v.rep = "gone" => ~v.immutable
  BY DEF Filled
<1>2. \A t \in Slots : slot'[t] = IF t = s THEN v ELSE slot[t] BY <1>1 DEF ValuesInv, Owners!TypeOK
<1>3. \A x \in Blocks : mem'[x] = IF x = b THEN c ELSE IF slot[s].ptr = x /\ x \notin mine THEN Gone ELSE mem[x]
  BY <1>1, WhatIsFreed DEF Owners!Memory
<1>4. b # None => b \in Blocks /\ (mem[b] = Gone \/ (slot[s].ptr = b /\ b \notin mine))
  BY <1>1, WhatIsFreed DEF Owners!Free
<1>5. None \notin Blocks /\ Gone \notin Long BY DEF ValuesInv, ValuesAssumption, Owners!Contents
<1>6. ASSUME NEW t \in Slots \ {s}, slot[t].ptr # None
      PROVE  slot[t].ptr \in Blocks /\ slot[t].ptr # b /\ mem'[slot[t].ptr] = mem[slot[t].ptr]
  <2>1. slot[t].ptr \in Blocks BY <1>6 DEF ValuesInv, Owners!TypeOK
  <2>2. slot[t].ptr # b BY <1>4, <1>5, <1>6 DEF ValuesInv, InBlocks, Unshared
  <2>3. ~(slot[s].ptr = slot[t].ptr /\ slot[t].ptr \notin mine) BY <1>6 DEF ValuesInv, Unshared
  <2> QED BY <1>3, <2>1, <2>2, <2>3
<1>7. \A d \in mine : d # b /\ mem'[d] = mem[d]
  <2>1. \A d \in mine : d \in Blocks /\ d # b BY <1>4, <1>5 DEF ValuesInv, Owners!TypeOK, MineThere
  <2> QED BY <1>3, <2>1
<1>8. Owners!TypeOK'
  <2>1. slot' \in [Slots -> SlotRecord] BY <1>1 DEF ValuesInv, Owners!TypeOK, SlotRecord
  <2>2. mem' = [x \in Blocks |-> mem'[x]] BY <1>1 DEF Owners!Memory
  <2>3. \A x \in Blocks : mem'[x] \in Owners!Contents \cup {Gone}
    BY <1>1, <1>3, <1>5 DEF ValuesInv, Owners!TypeOK, Owners!Contents
  <2>4. mem' \in [Blocks -> Owners!Contents \cup {Gone}] BY <2>2, <2>3
  <2> QED BY <2>1, <2>4 DEF ValuesInv, Owners!TypeOK, SlotRecord, Answers
<1>9. InBlocks'
  <2> SUFFICES ASSUME NEW t \in Slots, slot'[t].ptr # None
               PROVE  /\ slot'[t].rep = "heap" /\ mem'[slot'[t].ptr] \in Long
                      /\ slot'[t].borrowed <=> slot'[t].ptr \in mine
    BY DEF InBlocks
  <2>1. CASE t = s
    <3>1. b # None /\ b \in Blocks /\ slot'[t] = v BY <1>1, <1>2, <1>4, <2>1
    <3>2. b \notin mine BY <1>7
    <3> QED BY <1>1, <1>3, <3>1, <3>2 DEF SlotRecord
  <2>2. CASE t # s BY <1>2, <1>6, <2>2 DEF ValuesInv, InBlocks
  <2> QED BY <2>1, <2>2
<1>10. Unshared'
  <2>1. \A t \in Slots \ {s} : slot[t].ptr # None => slot[t].ptr # v.ptr BY <1>1, <1>6
  <2> QED BY <1>2, <2>1 DEF ValuesInv, Unshared
<1>11. Kept'
  <2> SUFFICES ASSUME NEW x \in Blocks, mem'[x] # Gone PROVE x \in mine \/ \E t \in Slots : slot'[t].ptr = x
    BY DEF Kept
  <2>1. CASE x = b BY <1>1, <1>2, <2>1
  <2>2. CASE x # b
    <3>1. mem[x] # Gone /\ ~(slot[s].ptr = x /\ x \notin mine) BY <1>3, <2>2
    <3> QED BY <1>2, <3>1 DEF ValuesInv, Kept
  <2> QED BY <2>1, <2>2
<1>12. MineThere' /\ Away' BY <1>1, <1>2, <1>7 DEF ValuesInv, MineThere, Away
<1>13. Elsewhere(s)
  <2> SUFFICES ASSUME NEW t \in Slots \ {s} PROVE Same(t) BY <1>7 DEF Elsewhere
  <2>1. slot'[t] = slot[t] BY <1>2
  <2> QED BY <1>6, <2>1 DEF Same, Owners!ValueOf
<1> QED BY <1>8, <1>9, <1>10, <1>11, <1>12, <1>13 DEF ValuesInv, ValuesAssumption

LEMMA InitBufferFills ==
  ASSUME ValuesInv, NEW s \in Slots, NEW c \in Owners!Contents, NEW imm \in BOOLEAN, Owners!InitBuffer(s, c, imm, Owners!Freed(slot[s]))
  PROVE  Filled(s) /\ slot'[s].rep # "gone"
<1>1. slot' = [slot EXCEPT ![s] = slot'[s]] /\ slot'[s].rep # "gone"
  BY DEF Owners!InitBuffer, Owners!Sets, Owners!InPlace, Owners!Heap, ValuesInv, Owners!TypeOK
<1>2. CASE c \in Short /\ Owners!Sets(s, Owners!InPlace(c, imm)) /\ Owners!Memory(Owners!Freed(slot[s]), None, c)
  <2>1. Owners!InPlace(c, imm) \in SlotRecord /\ Owners!InPlace(c, imm).ptr = None /\ Owners!InPlace(c, imm).rep = "inplace"
        /\ ~Owners!InPlace(c, imm).borrowed
    BY <1>2 DEF Owners!InPlace, SlotRecord
  <2> QED BY <1>1, <1>2, <2>1 DEF Filled, Owners!Sets
<1>3. ASSUME c \in Long, NEW b \in Owners!Malloc(Owners!Free \cup Owners!Freed(slot[s])), Owners!Sets(s, Owners!Heap(b, FALSE, imm)),
             Owners!Memory(Owners!Freed(slot[s]), b, c)
      PROVE  Filled(s)
  <2>1. b \in Blocks \cup {None} /\ (b # None => b \in Owners!Free \cup Owners!Freed(slot[s]))
    BY WhatIsFreed DEF Owners!Malloc, Owners!Free
  <2>2. /\ Owners!Heap(b, FALSE, imm) \in SlotRecord /\ Owners!Heap(b, FALSE, imm).ptr = b /\ Owners!Heap(b, FALSE, imm).rep = "heap"
        /\ ~Owners!Heap(b, FALSE, imm).borrowed
    BY <2>1 DEF Owners!Heap, SlotRecord
  <2> QED BY <1>3, <2>1, <2>2 DEF Filled, Owners!Sets
<1> QED BY <1>1, <1>2, <1>3 DEF Owners!InitBuffer

LEMMA HeapFills ==
  ASSUME ValuesInv, NEW s \in Slots, NEW b \in Owners!Malloc(Owners!Free \cup Owners!Freed(slot[s])), NEW imm \in BOOLEAN, NEW c \in Long,
         Owners!Sets(s, Owners!Heap(b, FALSE, imm)), Owners!Memory(Owners!Freed(slot[s]), b, c)
  PROVE  Filled(s) /\ slot'[s].rep # "gone"
<1>1. Owners!InitBuffer(s, c, imm, Owners!Freed(slot[s])) /\ c \in Owners!Contents
  BY DEF Owners!InitBuffer, Owners!Contents
<1> QED BY <1>1, InitBufferFills

LEMMA CopyFills ==
  ASSUME ValuesInv, NEW s \in Slots, NEW t \in Slots, NEW imm \in BOOLEAN, Owners!Exists(t),
         Owners!CopyFrom(s, slot[t], imm, Owners!Freed(slot[s]))
  PROVE  Filled(s) /\ slot'[s].rep # "gone"
<1>1. slot[t] \in SlotRecord /\ slot[t].rep # "gone" BY WhatIsFreed DEF Owners!Exists
<1>2. CASE slot[t].rep = "heap" /\ slot[t].ptr # None
  <2>1. mem[slot[t].ptr] \in Long BY <1>2 DEF ValuesInv, InBlocks
  <2> QED BY <1>2, <2>1, HeapFills DEF Owners!CopyFrom
<1>3. CASE ~(slot[t].rep = "heap" /\ slot[t].ptr # None)
  <2> DEFINE v == [slot[t] EXCEPT !.borrowed = FALSE, !.immutable = imm]
  <2>1. v \in SlotRecord /\ v.ptr = slot[t].ptr /\ v.rep = slot[t].rep /\ ~v.borrowed BY <1>1 DEF SlotRecord
  <2>2. slot[t].ptr = None BY <1>3 DEF ValuesInv, InBlocks
  <2>3. slot' = [slot EXCEPT ![s] = v] /\ Owners!Memory(Owners!Freed(slot[s]), None, Nothing)
    BY <1>3 DEF Owners!CopyFrom, Owners!Sets
  <2> HIDE DEF v
  <2>4. slot'[s] = v BY <2>3 DEF ValuesInv, Owners!TypeOK
  <2> QED BY <1>1, <2>1, <2>2, <2>3, <2>4 DEF Filled
<1> QED BY <1>2, <1>3

LEMMA InPlaceFills ==
  ASSUME ValuesInv, NEW s \in Slots, NEW d \in Numbers \cup Short \cup {Nothing}, NEW imm \in BOOLEAN,
         Owners!Sets(s, Owners!InPlace(d, imm)), Owners!Memory(Owners!Freed(slot[s]), None, Nothing)
  PROVE  Filled(s) /\ slot'[s].rep # "gone"
<1> DEFINE v == Owners!InPlace(d, imm)
<1>1. v \in SlotRecord /\ v.ptr = None /\ v.rep = "inplace" /\ ~v.borrowed BY DEF Owners!InPlace, SlotRecord
<1> HIDE DEF v
<1>2. slot' = [slot EXCEPT ![s] = v] /\ slot'[s] = v BY DEF Owners!Sets, v, ValuesInv, Owners!TypeOK
<1> QED BY <1>1, <1>2 DEF Filled

\* Nothing is freed where nothing is owned.
LEMMA NothingFreed ==
  ASSUME ValuesInv, UNCHANGED mem, NEW s \in Slots, Owners!Freed(slot[s]) = {}
  PROVE  Owners!Memory(Owners!Freed(slot[s]), None, Nothing)
<1>1. mem = [x \in Blocks |-> mem[x]] /\ None \notin Blocks BY DEF ValuesInv, Owners!TypeOK, ValuesAssumption
<1> QED BY <1>1 DEF Owners!Memory

-----------------------------------------------------------------------------
\* The calls that give a value to the variable they are made on, and leave the others alone.
Filling(s) == Filled(s) /\ UNCHANGED mine /\ answer' \in {"none", "ok"} /\ (slot[s].immutable => slot'[s].rep = "gone")

\* The calls that do nothing, but may answer.
Refusing == UNCHANGED <<slot, mem, mine>> /\ answer' \in Answers

LEMMA Constructions ==
  ASSUME ValuesInv, NEW s \in Slots,
         \/ \E c \in Owners!Contents, imm \in BOOLEAN : Owners!Construct(s, c, imm)
         \/ \E t \in Slots : Owners!CopyConstruct(s, t) \/ Owners!TryClone(s, t)
  PROVE  Filling(s) \/ Refusing
<1>1. ~Owners!Exists(s) /\ Owners!Freed(slot[s]) = {} /\ ~slot[s].immutable
  BY WhatIsFreed DEF Owners!Construct, Owners!CopyConstruct, Owners!TryClone, Owners!Exists, ValuesInv, Away
<1>2. ASSUME NEW c \in Owners!Contents, NEW imm \in BOOLEAN, Owners!Construct(s, c, imm) PROVE Filling(s)
  BY <1>1, <1>2, InitBufferFills DEF Owners!Construct, Filling, Owners!Says
<1>3. ASSUME NEW t \in Slots, Owners!CopyConstruct(s, t) PROVE Filling(s)
  BY <1>1, <1>3, CopyFills DEF Owners!CopyConstruct, Filling, Owners!Says
<1>4. ASSUME NEW t \in Slots, Owners!TryClone(s, t) PROVE Filling(s) \/ Refusing
  <2>1. slot[t] \in SlotRecord /\ slot[t].immutable \in BOOLEAN /\ Owners!Exists(t)
    BY <1>4, WhatIsFreed DEF SlotRecord, Owners!TryClone
  <2>2. CASE slot[t].rep = "heap" /\ slot[t].ptr # None
    <3>1. mem[slot[t].ptr] \in Long BY <2>2 DEF ValuesInv, InBlocks
    <3>2. ASSUME NEW b \in Owners!Free, Owners!Sets(s, Owners!Heap(b, FALSE, slot[t].immutable)), Owners!Memory({}, b, mem[slot[t].ptr])
          PROVE  Filled(s)
      BY <1>1, <2>1, <3>1, <3>2, HeapFills DEF Owners!Malloc
    <3> QED BY <1>1, <1>4, <2>2, <3>2 DEF Owners!TryClone, Filling, Refusing, Owners!Says, Answers
  <2>3. CASE ~(slot[t].rep = "heap" /\ slot[t].ptr # None)
    BY <1>1, <1>4, <2>1, <2>3, CopyFills DEF Owners!TryClone, Filling, Owners!Says
  <2> QED BY <2>2, <2>3
<1> QED BY <1>2, <1>3, <1>4

LEMMA Assignments ==
  ASSUME ValuesInv, NEW s \in Slots,
         \/ Owners!Destroy(s) \/ Owners!SetNull(s) \/ \E n \in Numbers : Owners!SetNumber(s, n)
         \/ \E c \in Owners!Contents : Owners!Set(s, c) \/ Owners!TrySet(s, c)
         \/ \E t \in Slots : Owners!Assign(s, t)
  PROVE  Filling(s) \/ Refusing
<1>1. CASE Owners!Destroy(s)
  <2>1. Owners!OutOfScope \in SlotRecord /\ Owners!OutOfScope.ptr = None /\ Owners!OutOfScope.rep = "gone" /\ ~Owners!OutOfScope.immutable
      /\ ~Owners!OutOfScope.borrowed
    BY DEF Owners!OutOfScope, SlotRecord
  <2>2. slot' = [slot EXCEPT ![s] = Owners!OutOfScope] /\ slot'[s] = Owners!OutOfScope /\ Owners!Memory(Owners!Freed(slot[s]), None, Nothing)
    BY <1>1 DEF Owners!Destroy, Owners!Sets, ValuesInv, Owners!TypeOK
  <2> QED BY <1>1, <2>1, <2>2 DEF Owners!Destroy, Filling, Filled, Owners!Says
<1>2. CASE Owners!SetNull(s) BY <1>2, InPlaceFills DEF Owners!SetNull, Filling, Owners!Says, Owners!Immutable
<1>3. ASSUME NEW n \in Numbers, Owners!SetNumber(s, n) PROVE Filling(s)
  BY <1>3, InPlaceFills DEF Owners!SetNumber, Filling, Owners!Says, Owners!Immutable
<1>4. ASSUME NEW c \in Owners!Contents, Owners!Set(s, c) PROVE Filling(s)
  BY <1>4, InitBufferFills DEF Owners!Set, Filling, Owners!Says, Owners!Immutable
<1>5. ASSUME NEW c \in Owners!Contents, Owners!TrySet(s, c) PROVE Filling(s) \/ Refusing
  <2>1. CASE Owners!Immutable(s) BY <1>5, <2>1 DEF Owners!TrySet, Owners!Refused, Refusing, Owners!Says, Answers
  <2>2. CASE ~Owners!Immutable(s) /\ Owners!InitBuffer(s, c, FALSE, Owners!Freed(slot[s])) /\ Owners!Says("ok")
    BY <1>5, <2>2, InitBufferFills DEF Owners!TrySet, Filling, Owners!Says, Owners!Immutable
  <2>3. CASE ~Owners!Immutable(s) /\ c \in Long /\ Owners!TrySetLong(s, c)
    <3>1. ASSUME NEW b \in Owners!Free, Owners!Sets(s, Owners!Heap(b, FALSE, FALSE)), Owners!Memory(Owners!Freed(slot[s]), b, c)
          PROVE  Filled(s)
      BY <2>3, <3>1, HeapFills DEF Owners!Malloc
    <3> QED
      BY <1>5, <2>3, <3>1 DEF Owners!TrySet, Owners!TrySetLong, Filling, Refusing, Owners!Says, Owners!Immutable, Answers
  <2> QED BY <1>5, <2>1, <2>2, <2>3 DEF Owners!TrySet
<1>6. ASSUME NEW t \in Slots, Owners!Assign(s, t) PROVE Filling(s) \/ Refusing
  <2>1. CASE Owners!Immutable(s) \/ s = t
    BY <1>6, <2>1 DEF Owners!Assign, Owners!Refused, Refusing, Owners!Says, Answers
  <2>2. CASE ~(Owners!Immutable(s) \/ s = t)
    <3>1. Owners!Immutable(t) \in BOOLEAN BY WhatIsFreed DEF SlotRecord, Owners!Immutable
    <3> QED BY <1>6, <2>2, <3>1, CopyFills DEF Owners!Assign, Filling, Owners!Says, Owners!Immutable
  <2> QED BY <2>1, <2>2
<1> QED BY <1>1, <1>2, <1>3, <1>4, <1>5, <1>6

-----------------------------------------------------------------------------
\* A value is moved: t is null afterwards.
Moving(s, t) ==
  /\ s # t /\ ~slot[s].immutable /\ ~slot[t].immutable /\ Owners!Exists(t)
  /\ slot' = [slot EXCEPT ![s] = slot[t], ![t] = Owners!InPlace(Nothing, FALSE)]
  /\ Owners!Memory(Owners!Freed(slot[s]), None, Nothing) /\ UNCHANGED mine /\ answer' = "none"

LEMMA Moves ==
  ASSUME ValuesInv, NEW s \in Slots, NEW t \in Slots, Owners!MoveConstruct(s, t) \/ Owners!MoveAssign(s, t)
  PROVE  Filling(s) \/ Refusing \/ Moving(s, t)
<1>1. Owners!MoveConstruct(s, t) => s # t /\ Owners!Freed(slot[s]) = {} /\ ~slot[s].immutable
  BY WhatIsFreed DEF Owners!MoveConstruct, Owners!Exists, ValuesInv, Away
<1>2. CASE Owners!MoveAssign(s, t) /\ (Owners!Immutable(s) \/ s = t)
  BY <1>2 DEF Owners!MoveAssign, Owners!Refused, Refusing, Owners!Says, Answers
<1>3. CASE Owners!Exists(t) /\ s # t /\ ~slot[s].immutable /\ Owners!MoveFrom(s, t, Owners!Freed(slot[s])) /\ Owners!Says("none") /\ UNCHANGED mine
  <2>1. CASE Owners!Immutable(t) BY <1>3, <2>1, CopyFills DEF Owners!MoveFrom, Filling, Owners!Says
  <2>2. CASE ~Owners!Immutable(t) BY <1>3, <2>2 DEF Owners!MoveFrom, Moving, Owners!Says, Owners!Immutable
  <2> QED BY <2>1, <2>2
<1> QED BY <1>1, <1>2, <1>3 DEF Owners!MoveConstruct, Owners!MoveAssign, Owners!Immutable

LEMMA MovingKeeps ==
  ASSUME ValuesInv, NEW s \in Slots, NEW t \in Slots, Moving(s, t)
  PROVE  /\ ValuesInv' /\ (\A x \in Slots \ {s, t} : Same(x)) /\ (\A d \in mine : mem'[d] = mem[d])
         /\ Owners!ValueOf(slot[s])' = Owners!ValueOf(slot[t]) /\ Owners!ValueOf(slot[t])' = Nothing
         /\ ~slot'[s].immutable /\ ~slot'[t].immutable
<1> DEFINE null == Owners!InPlace(Nothing, FALSE)
<1>1. /\ null \in SlotRecord /\ null.ptr = None /\ null.rep = "inplace" /\ ~null.immutable /\ null.data = Nothing
      /\ ~null.borrowed
  BY DEF Owners!InPlace, SlotRecord
<1>2. slot' = [slot EXCEPT ![s] = slot[t], ![t] = null] BY DEF Moving
<1> HIDE DEF null
<1>3. \A x \in Slots : slot'[x] = IF x = t THEN null ELSE IF x = s THEN slot[t] ELSE slot[x]
  BY <1>2 DEF ValuesInv, Owners!TypeOK, Moving
<1>4. /\ mem' = [x \in Blocks |-> mem'[x]]
      /\ \A x \in Blocks : mem'[x] = IF slot[s].ptr = x /\ x \notin mine THEN Gone ELSE mem[x]
  BY WhatIsFreed DEF Moving, Owners!Memory, ValuesInv, ValuesAssumption
<1>5. None \notin Blocks /\ s # t /\ mine' = mine /\ answer' = "none" /\ Gone \notin Long
  BY DEF ValuesInv, ValuesAssumption, Moving, Owners!Contents
<1>6. \A x \in Slots \ {s} : slot[x].ptr # None => slot[x].ptr \in Blocks /\ mem'[slot[x].ptr] = mem[slot[x].ptr]
  <2> SUFFICES ASSUME NEW x \in Slots \ {s}, slot[x].ptr # None
               PROVE  slot[x].ptr \in Blocks /\ mem'[slot[x].ptr] = mem[slot[x].ptr]
    OBVIOUS
  <2>1. slot[x].ptr \in Blocks BY DEF ValuesInv, Owners!TypeOK
  <2>2. ~(slot[s].ptr = slot[x].ptr /\ slot[x].ptr \notin mine) BY DEF ValuesInv, Unshared
  <2> QED BY <1>4, <2>1, <2>2
<1>7. \A d \in mine : mem'[d] = mem[d] BY <1>4 DEF ValuesInv, Owners!TypeOK
<1>8. Owners!TypeOK'
  <2>1. slot' \in [Slots -> SlotRecord] BY <1>1, <1>2 DEF ValuesInv, Owners!TypeOK, SlotRecord
  <2>2. \A x \in Blocks : mem'[x] \in Owners!Contents \cup {Gone} BY <1>4 DEF ValuesInv, Owners!TypeOK
  <2>3. mem' \in [Blocks -> Owners!Contents \cup {Gone}] BY <1>4, <2>2
  <2> QED BY <1>5, <2>1, <2>3 DEF ValuesInv, Owners!TypeOK, SlotRecord
<1>9. InBlocks'
  <2> SUFFICES ASSUME NEW x \in Slots, slot'[x].ptr # None
               PROVE  /\ slot'[x].rep = "heap" /\ mem'[slot'[x].ptr] \in Long
                      /\ slot'[x].borrowed <=> slot'[x].ptr \in mine
    BY <1>5 DEF InBlocks
  <2>1. PICK y \in Slots \ {s} : slot'[x] = slot[y] BY <1>1, <1>3, <1>5
  <2> QED BY <1>6, <2>1 DEF ValuesInv, InBlocks
<1>10. Unshared' BY <1>1, <1>3, <1>5 DEF ValuesInv, Unshared
<1>11. Kept'
  <2> SUFFICES ASSUME NEW x \in Blocks, mem'[x] # Gone PROVE x \in mine \/ \E y \in Slots : slot'[y].ptr = x
    BY <1>5 DEF Kept
  <2>1. mem[x] # Gone /\ ~(slot[s].ptr = x /\ x \notin mine) BY <1>4
  <2>2. CASE x \notin mine
    <3>1. PICK y \in Slots : slot[y].ptr = x /\ y # s BY <2>1, <2>2 DEF ValuesInv, Kept
    <3> QED BY <1>3, <1>5, <3>1
  <2> QED BY <2>2
<1>12. MineThere' /\ Away' BY <1>1, <1>3, <1>5, <1>7 DEF ValuesInv, MineThere, Away
<1>13. \A x \in Slots \ {s, t} : Same(x)
  <2> SUFFICES ASSUME NEW x \in Slots \ {s, t} PROVE Same(x) OBVIOUS
  <2>1. slot'[x] = slot[x] BY <1>3
  <2> QED BY <1>6, <2>1 DEF Same, Owners!ValueOf
<1>14. Owners!ValueOf(slot[s])' = Owners!ValueOf(slot[t])
  <2>1. slot'[s] = slot[t] BY <1>3, <1>5
  <2> QED BY <1>5, <1>6, <2>1 DEF Owners!ValueOf
<1>15. Owners!ValueOf(slot[t])' = Nothing
  <2>1. slot'[t] = null BY <1>3
  <2> QED BY <1>1, <2>1 DEF Owners!ValueOf
<1>16. ~slot'[s].immutable /\ ~slot'[t].immutable BY <1>1, <1>3, <1>5 DEF Moving
<1> QED BY <1>7, <1>8, <1>9, <1>10, <1>11, <1>12, <1>13, <1>14, <1>15, <1>16 DEF ValuesInv, ValuesAssumption

-----------------------------------------------------------------------------
\* A borrowed buffer is copied, and the value stays what it is.
LEMMA Clones ==
  ASSUME ValuesInv, NEW s \in Slots, NEW tells \in BOOLEAN, Owners!CloneInPlace(s, tells)
  PROVE  \/ Filled(s) /\ UNCHANGED mine /\ answer' \in Answers /\ Same(s)
         \/ Refusing
<1>1. CASE UNCHANGED <<slot, mem>> BY <1>1 DEF Owners!CloneInPlace, Refusing, Owners!Says, Answers
<1>2. ASSUME Owners!Borrowed(slot[s]), NEW b \in Owners!Free, Owners!Sets(s, Owners!Heap(b, FALSE, Owners!Immutable(s))), Owners!Memory({}, b, mem[slot[s].ptr])
      PROVE  Filled(s) /\ Same(s)
  <2>1. slot[s] \in SlotRecord /\ Owners!Freed(slot[s]) = {} BY <1>2, WhatIsFreed
  <2>2. slot[s].rep = "heap" /\ slot[s].borrowed /\ Owners!Immutable(s) \in BOOLEAN
    BY <1>2, <2>1 DEF Owners!Borrowed, Owners!Immutable, SlotRecord
  <2>3. CASE slot[s].ptr # None
    <3>1. mem[slot[s].ptr] \in Long BY <2>3 DEF ValuesInv, InBlocks
    <3>2. Filled(s) BY <1>2, <2>1, <2>2, <3>1, HeapFills DEF Owners!Malloc
    <3>3. slot'[s] = Owners!Heap(b, FALSE, Owners!Immutable(s)) /\ mem'[b] = mem[slot[s].ptr] /\ b # None
      BY <1>2 DEF Owners!Sets, Owners!Memory, Owners!Free, ValuesInv, Owners!TypeOK, ValuesAssumption
    <3> QED BY <2>2, <2>3, <3>2, <3>3 DEF Same, Owners!ValueOf, Owners!Heap, Owners!Immutable
  <2>4. slot[s].ptr # None BY <2>2 DEF ValuesInv, Away
  <2> QED BY <2>3, <2>4
<1> QED BY <1>1, <1>2 DEF Owners!CloneInPlace, Owners!Says, Answers

\* A long text that s owns is written to.
Writing(s) ==
  /\ slot[s].rep = "heap" /\ slot[s].ptr # None /\ ~slot[s].borrowed /\ ~slot[s].immutable
  /\ \E c \in Long : mem' = [mem EXCEPT ![slot[s].ptr] = c]
  /\ UNCHANGED <<slot, mine>> /\ answer' = "none"

LEMMA Writes ==
  ASSUME ValuesInv, NEW s \in Slots, NEW c \in Owners!Contents, Owners!MutableData(s, c)
  PROVE  Filling(s) \/ Writing(s)
<1>1. ~slot[s].immutable /\ answer' = "none" /\ UNCHANGED mine
  BY DEF Owners!MutableData, Owners!Says, Owners!Immutable
<1>2. CASE slot[s].rep = "inplace" /\ c \in Short /\ Owners!Sets(s, Owners!InPlace(c, FALSE)) /\ UNCHANGED mem
  <2>1. Owners!Freed(slot[s]) = {} BY <1>2 DEF Owners!Freed
  <2> QED BY <1>1, <1>2, <2>1, InPlaceFills, NothingFreed DEF Filling
<1>3. CASE slot[s].rep = "heap" /\ slot[s].ptr # None /\ c \in Long /\ Owners!Written(s, c)
  <2>1. CASE Owners!Borrowed(slot[s])
    <3>1. Owners!Freed(slot[s]) = {} BY <2>1, WhatIsFreed
    <3> QED BY <1>1, <1>3, <2>1, <3>1, HeapFills DEF Owners!Written, Filling, Owners!Malloc
  <2>2. CASE ~Owners!Borrowed(slot[s]) BY <1>1, <1>3, <2>2 DEF Owners!Written, Writing, Owners!Borrowed
  <2> QED BY <2>1, <2>2
<1> QED BY <1>2, <1>3 DEF Owners!MutableData

LEMMA WritingKeeps ==
  ASSUME ValuesInv, NEW s \in Slots, Writing(s)
  PROVE  ValuesInv' /\ Elsewhere(s)
<1>1. PICK c \in Long : mem' = [mem EXCEPT ![slot[s].ptr] = c] BY DEF Writing
<1>2. /\ slot' = slot /\ mine' = mine /\ answer' = "none" /\ slot[s].ptr # None /\ slot[s].ptr \in Blocks
      /\ slot[s].ptr \notin mine
  BY DEF Writing, ValuesInv, Owners!TypeOK, InBlocks
<1>3. \A x \in Blocks : mem'[x] = IF x = slot[s].ptr THEN c ELSE mem[x] BY <1>1 DEF ValuesInv, Owners!TypeOK
<1>4. Owners!TypeOK' BY <1>1, <1>2 DEF ValuesInv, Owners!TypeOK, Owners!Contents
<1>5. c # Gone BY DEF ValuesInv, ValuesAssumption, Owners!Contents
<1>6. InBlocks' BY <1>2, <1>3 DEF ValuesInv, Owners!TypeOK, InBlocks
<1>7. Kept' BY <1>2, <1>3 DEF ValuesInv, Kept
<1>8. MineThere' /\ \A d \in mine : mem'[d] = mem[d] BY <1>2, <1>3 DEF ValuesInv, Owners!TypeOK, MineThere
<1>9. Unshared' /\ Away' BY <1>2 DEF ValuesInv, Unshared, Away
<1>10. ASSUME NEW t \in Slots \ {s} PROVE Same(t)
  <2>1. slot[t].ptr # None => slot[t].ptr \in Blocks /\ slot[t].ptr # slot[s].ptr
    BY <1>2 DEF ValuesInv, Owners!TypeOK, Unshared
  <2> QED BY <1>2, <1>3, <2>1 DEF Same, Owners!ValueOf, ValuesInv, InBlocks
<1> QED BY <1>4, <1>6, <1>7, <1>8, <1>9, <1>10 DEF ValuesInv, ValuesAssumption, Elsewhere

-----------------------------------------------------------------------------
\* The application lends a buffer, gives it away, or takes one back.
LEMMA BorrowKeeps ==
  ASSUME ValuesInv, NEW s \in Slots, NEW b \in Blocks, NEW imm \in BOOLEAN, Owners!Borrow(s, b, imm)
  PROVE  ValuesInv' /\ Elsewhere(s) /\ ~slot[s].immutable
<1> DEFINE v == IF mem[b] \in Short THEN Owners!InPlace(mem[b], imm) ELSE Owners!Heap(b, TRUE, imm)
<1>1. /\ slot' = [slot EXCEPT ![s] = v] /\ UNCHANGED <<mem, mine>> /\ answer' = "none" /\ b \in mine /\ ~Owners!Exists(s)
  BY DEF Owners!Borrow, Owners!Sets, Owners!Says
<1>2. mem[b] \in Owners!Contents BY <1>1 DEF ValuesInv, Owners!TypeOK, MineThere
<1>3. /\ v \in SlotRecord
      /\ v.ptr # None => v.ptr = b /\ v.rep = "heap" /\ v.borrowed /\ mem[b] \in Long
      /\ v.borrowed => v.ptr # None
      /\ v.rep # "gone"
  BY <1>2 DEF Owners!InPlace, Owners!Heap, SlotRecord, Owners!Contents, ValuesInv, ValuesAssumption
<1> HIDE DEF v
<1>4. \A t \in Slots : slot'[t] = IF t = s THEN v ELSE slot[t] BY <1>1 DEF ValuesInv, Owners!TypeOK
<1>5. slot[s].ptr = None /\ ~slot[s].immutable BY <1>1 DEF Owners!Exists, ValuesInv, InBlocks, Away
<1>6. Owners!TypeOK' BY <1>1, <1>3 DEF ValuesInv, Owners!TypeOK, SlotRecord
<1>7. InBlocks' BY <1>1, <1>3, <1>4 DEF ValuesInv, InBlocks
<1>8. Unshared'
  <2>1. v.ptr # None => v.ptr \in mine BY <1>1, <1>3
  <2> QED BY <1>1, <1>4, <2>1 DEF ValuesInv, Unshared
<1>9. Kept'
  <2> SUFFICES ASSUME NEW x \in Blocks, mem[x] # Gone PROVE x \in mine \/ \E t \in Slots : slot'[t].ptr = x
    BY <1>1 DEF Kept
  <2>1. CASE x \notin mine
    <3>1. PICK t \in Slots : slot[t].ptr = x BY <2>1 DEF ValuesInv, Kept
    <3>2. t # s BY <1>5, <3>1 DEF ValuesInv, ValuesAssumption
    <3> QED BY <1>4, <3>1, <3>2
  <2> QED BY <2>1
<1>10. MineThere' /\ Away' BY <1>1, <1>3, <1>4 DEF ValuesInv, MineThere, Away
<1>11. Elsewhere(s)
  <2> SUFFICES ASSUME NEW t \in Slots \ {s} PROVE Same(t) BY <1>1 DEF Elsewhere
  <2>1. slot'[t] = slot[t] /\ mem' = mem /\ slot[t] \in SlotRecord BY <1>1, <1>4, WhatIsFreed
  <2> QED BY <2>1 DEF Same, Owners!ValueOf, SlotRecord
<1> QED BY <1>5, <1>6, <1>7, <1>8, <1>9, <1>10, <1>11 DEF ValuesInv, ValuesAssumption

LEMMA TransferKeeps ==
  ASSUME ValuesInv, NEW s \in Slots, NEW b \in Blocks, NEW imm \in BOOLEAN, Owners!Transfer(s, b, imm)
  PROVE  /\ ValuesInv' /\ (\A t \in Slots \ {s} : Same(t)) /\ \A d \in mine \ {b} : mem'[d] = mem[d]
         /\ Owners!ValueOf(slot[s])' = mem[b] /\ b \in mine /\ mem[b] # Gone /\ ~Owners!Exists(s) /\ mine' = mine \ {b} /\ answer' = "none"
<1>1. /\ ~Owners!Exists(s) /\ b \in mine /\ (\A t \in Slots : slot[t].ptr # b) /\ mine' = mine \ {b} /\ answer' = "none"
      /\ slot[s].ptr = None
  BY DEF Owners!Transfer, Owners!Says, Owners!Exists, ValuesInv, InBlocks
<1>2. mem[b] \in Owners!Contents /\ mem[b] # Gone /\ None \notin Blocks
  BY <1>1 DEF ValuesInv, Owners!TypeOK, MineThere, ValuesAssumption
<1>3. ASSUME NEW v \in SlotRecord, slot' = [slot EXCEPT ![s] = v], v.ptr \in {None, b}, ~v.borrowed, v.rep # "gone",
             v.ptr = b => v.rep = "heap" /\ mem[b] \in Long,
             (v.rep = "inplace" /\ v.data = mem[b]) \/ (v.rep = "heap" /\ v.ptr = b),
             mem' \in [Blocks -> Owners!Contents \cup {Gone}],
             \A x \in Blocks : mem'[x] = IF x = b /\ v.ptr = None THEN Gone ELSE mem[x]
      PROVE  ValuesInv' /\ (\A t \in Slots \ {s} : Same(t)) /\ (\A d \in mine \ {b} : mem'[d] = mem[d])
             /\ Owners!ValueOf(slot[s])' = mem[b]
  <2>1. \A t \in Slots : slot'[t] = IF t = s THEN v ELSE slot[t] BY <1>3 DEF ValuesInv, Owners!TypeOK
  <2>2. Owners!TypeOK' BY <1>1, <1>3 DEF ValuesInv, Owners!TypeOK, SlotRecord
  <2>3. InBlocks' BY <1>1, <1>2, <1>3, <2>1 DEF ValuesInv, Owners!TypeOK, InBlocks
  <2>4. Unshared'
    <3>1. \A t \in Slots \ {s} : slot[t].ptr # None => slot[t].ptr # v.ptr /\ slot[t].ptr # b BY <1>1, <1>3
    <3> QED BY <1>1, <2>1, <3>1 DEF ValuesInv, Unshared
  <2>5. Kept'
    <3> SUFFICES ASSUME NEW x \in Blocks, mem'[x] # Gone PROVE x \in mine' \/ \E t \in Slots : slot'[t].ptr = x
      BY DEF Kept
    <3>1. CASE x = b BY <1>3, <2>1, <3>1
    <3>2. CASE x # b
      <4>1. mem[x] # Gone BY <1>3, <3>2
      <4> QED BY <1>1, <1>2, <2>1, <3>2, <4>1 DEF ValuesInv, Kept
    <3> QED BY <3>1, <3>2
  <2>6. MineThere' /\ Away' /\ \A d \in mine \ {b} : mem'[d] = mem[d]
    BY <1>1, <1>3, <2>1 DEF ValuesInv, Owners!TypeOK, MineThere, Away
  <2>7. ASSUME NEW t \in Slots \ {s} PROVE Same(t)
    BY <1>1, <1>3, <2>1 DEF Same, Owners!ValueOf, ValuesInv, Owners!TypeOK, InBlocks
  <2>8. Owners!ValueOf(slot[s])' = mem[b]
    <3>1. slot'[s] = v BY <2>1
    <3> QED BY <1>2, <1>3, <3>1 DEF Owners!ValueOf
  <2> QED BY <2>2, <2>3, <2>4, <2>5, <2>6, <2>7, <2>8 DEF ValuesInv, ValuesAssumption
<1>4. CASE mem[b] \in Short
  <2> DEFINE v == Owners!InPlace(mem[b], imm)
  <2>1. v \in SlotRecord /\ v.ptr = None /\ ~v.borrowed /\ v.rep = "inplace" /\ v.data = mem[b]
    BY <1>4 DEF Owners!InPlace, SlotRecord
  <2>2. slot' = [slot EXCEPT ![s] = v] /\ Owners!Memory({b}, None, Nothing)
    BY <1>4 DEF Owners!Transfer, Owners!Sets
  <2> HIDE DEF v
  <2>3. /\ \A x \in Blocks : mem'[x] = IF x = b /\ v.ptr = None THEN Gone ELSE mem[x]
        /\ mem' \in [Blocks -> Owners!Contents \cup {Gone}]
    BY <1>2, <2>1, <2>2 DEF Owners!Memory, ValuesInv, Owners!TypeOK
  <2> QED BY <1>1, <1>2, <1>3, <2>1, <2>2, <2>3
<1>5. CASE mem[b] \notin Short
  <2> DEFINE v == Owners!Heap(b, FALSE, imm)
  <2>1. v \in SlotRecord /\ v.ptr = b /\ ~v.borrowed /\ v.rep = "heap" /\ mem[b] \in Long
    BY <1>2, <1>5 DEF Owners!Heap, SlotRecord, Owners!Contents
  <2>2. slot' = [slot EXCEPT ![s] = v] /\ UNCHANGED mem BY <1>5 DEF Owners!Transfer, Owners!Sets
  <2> HIDE DEF v
  <2>3. /\ \A x \in Blocks : mem'[x] = IF x = b /\ v.ptr = None THEN Gone ELSE mem[x]
        /\ mem' \in [Blocks -> Owners!Contents \cup {Gone}]
    BY <1>2, <2>1, <2>2 DEF ValuesInv, Owners!TypeOK
  <2> QED BY <1>1, <1>2, <1>3, <2>1, <2>2, <2>3
<1> QED BY <1>1, <1>2, <1>4, <1>5

\* The memory of the application: b is allocated with the content c, or freed.
Lending(b) ==
  \E c \in Owners!Contents \cup {Gone} :
    /\ (c = Gone) <=> b \in mine
    /\ c # Gone => mem[b] = Gone
    /\ \A s \in Slots : slot[s].ptr # b
    /\ mine' = IF c = Gone THEN mine \ {b} ELSE mine \cup {b}
    /\ mem' = [mem EXCEPT ![b] = c] /\ UNCHANGED slot /\ answer' = "none"

LEMMA ApplicationLends ==
  ASSUME ValuesInv, NEW b \in Blocks, Owners!ApplicationFrees(b) \/ \E c \in Owners!Contents : Owners!ApplicationAllocates(b, c)
  PROVE  Lending(b)
<1>1. ASSUME NEW c \in Owners!Contents, Owners!ApplicationAllocates(b, c) PROVE Lending(b)
  <2>1. mem[b] = Gone /\ mine' = mine \cup {b} /\ Owners!Memory({}, b, c) /\ UNCHANGED slot /\ answer' = "none"
    BY <1>1 DEF Owners!ApplicationAllocates, Owners!Says
  <2>2. mem' = [mem EXCEPT ![b] = c] BY <2>1 DEF Owners!Memory, ValuesInv, Owners!TypeOK
  <2>3. \A s \in Slots : slot[s].ptr # b BY <2>1 DEF ValuesInv, ValuesAssumption, Owners!Contents, InBlocks
  <2>4. c # Gone /\ b \notin mine BY <2>1 DEF ValuesInv, ValuesAssumption, MineThere
  <2> QED BY <2>1, <2>2, <2>3, <2>4 DEF Lending
<1>2. CASE Owners!ApplicationFrees(b)
  <2>1. /\ b \in mine /\ (\A s \in Slots : slot[s].ptr # b) /\ mine' = mine \ {b} /\ Owners!Memory({b}, None, Nothing)
        /\ UNCHANGED slot /\ answer' = "none"
    BY <1>2 DEF Owners!ApplicationFrees, Owners!Says
  <2>2. mem' = [mem EXCEPT ![b] = Gone] BY <2>1 DEF Owners!Memory, ValuesInv, Owners!TypeOK, ValuesAssumption
  <2> QED BY <2>1, <2>2 DEF Lending
<1> QED BY <1>1, <1>2

LEMMA LendingKeeps ==
  ASSUME ValuesInv, NEW b \in Blocks, Lending(b)
  PROVE  /\ ValuesInv' /\ (\A t \in Slots : Same(t)) /\ \A d \in Blocks \ {b} : mem'[d] = mem[d] /\ (d \in mine' <=> d \in mine)
         /\ b \in mine' => mem'[b] \in Owners!Contents
<1>1. PICK c \in Owners!Contents \cup {Gone} :
        /\ (c = Gone) <=> b \in mine
        /\ c # Gone => mem[b] = Gone
        /\ \A s \in Slots : slot[s].ptr # b
        /\ mine' = IF c = Gone THEN mine \ {b} ELSE mine \cup {b}
        /\ mem' = [mem EXCEPT ![b] = c] /\ UNCHANGED slot /\ answer' = "none"
  BY DEF Lending
<1>2. \A x \in Blocks : mem'[x] = IF x = b THEN c ELSE mem[x] BY <1>1 DEF ValuesInv, Owners!TypeOK
<1>3. \A d \in Blocks \ {b} : d \in mine' <=> d \in mine BY <1>1
<1>4. b \in mine' <=> c # Gone BY <1>1
<1>5. \A s \in Slots : slot[s].ptr # None => slot[s].ptr \in Blocks \ {b} BY <1>1 DEF ValuesInv, Owners!TypeOK
<1>6. Owners!TypeOK'
  <2>1. mem' \in [Blocks -> Owners!Contents \cup {Gone}] BY <1>1 DEF ValuesInv, Owners!TypeOK
  <2>2. mine' \in SUBSET Blocks BY <1>1 DEF ValuesInv, Owners!TypeOK
  <2> QED BY <1>1, <2>1, <2>2 DEF ValuesInv, Owners!TypeOK
<1>7. InBlocks' /\ Unshared' BY <1>1, <1>2, <1>3, <1>5 DEF ValuesInv, InBlocks, Unshared
<1>8. Kept'
  <2> SUFFICES ASSUME NEW x \in Blocks, mem'[x] # Gone PROVE x \in mine' \/ \E t \in Slots : slot[t].ptr = x
    BY <1>1 DEF Kept
  <2>1. CASE x = b BY <1>2, <1>4, <2>1
  <2>2. CASE x # b BY <1>2, <1>3, <2>2 DEF ValuesInv, Kept
  <2> QED BY <2>1, <2>2
<1>9. MineThere'
  <2>1. \A d \in mine' : d \in Blocks BY <1>6 DEF Owners!TypeOK
  <2> QED BY <1>2, <1>3, <1>4, <2>1 DEF ValuesInv, MineThere
<1>10. Away' BY <1>1 DEF ValuesInv, Away
<1>11. ASSUME NEW t \in Slots PROVE Same(t)
  <2>1. slot'[t] = slot[t] /\ slot[t] \in SlotRecord /\ (slot[t].ptr # None => mem'[slot[t].ptr] = mem[slot[t].ptr])
    BY <1>1, <1>2, <1>5, WhatIsFreed
  <2> QED BY <2>1 DEF Same, Owners!ValueOf, SlotRecord
<1> QED BY <1>1, <1>2, <1>3, <1>4, <1>6, <1>7, <1>8, <1>9, <1>10, <1>11 DEF ValuesInv, ValuesAssumption

\* A variable is marked, or unmarked.
LEMMA MarkKeeps ==
  ASSUME ValuesInv, NEW s \in Slots, NEW imm \in BOOLEAN, Owners!SetImmutable(s, imm)
  PROVE  ValuesInv' /\ (\A t \in Slots : Owners!ValueOf(slot[t])' = Owners!ValueOf(slot[t]))
         /\ (\A t \in Slots : slot'[t].immutable = IF t = s THEN imm ELSE slot[t].immutable)
         /\ UNCHANGED <<mem, mine>> /\ answer' = "none"
<1> DEFINE v == [slot[s] EXCEPT !.immutable = imm]
<1>1. slot' = [slot EXCEPT ![s] = v] /\ UNCHANGED <<mem, mine>> /\ answer' = "none" /\ Owners!Exists(s)
  BY DEF Owners!SetImmutable, Owners!Sets, Owners!Says
<1>2. /\ v \in SlotRecord /\ v.rep = slot[s].rep /\ v.ptr = slot[s].ptr /\ v.borrowed = slot[s].borrowed
      /\ v.data = slot[s].data /\ v.immutable = imm
  BY WhatIsFreed DEF SlotRecord
<1> HIDE DEF v
<1>3. \A t \in Slots : slot'[t] = IF t = s THEN v ELSE slot[t] BY <1>1 DEF ValuesInv, Owners!TypeOK
<1>4. \A t \in Slots : /\ slot'[t].rep = slot[t].rep /\ slot'[t].ptr = slot[t].ptr
                       /\ slot'[t].borrowed = slot[t].borrowed /\ slot'[t].data = slot[t].data
                       /\ slot[t] \in SlotRecord
  BY <1>2, <1>3, WhatIsFreed
<1>5. Owners!TypeOK' BY <1>1, <1>2 DEF ValuesInv, Owners!TypeOK, SlotRecord
<1>6. InBlocks' /\ Unshared' /\ Kept' /\ MineThere'
  BY <1>1, <1>4 DEF ValuesInv, InBlocks, Unshared, Kept, MineThere
<1>7. Away' BY <1>1, <1>3, <1>4 DEF ValuesInv, Away, Owners!Exists
<1>8. ASSUME NEW t \in Slots PROVE Owners!ValueOf(slot[t])' = Owners!ValueOf(slot[t])
  <2>1. /\ slot'[t].rep = slot[t].rep /\ slot'[t].ptr = slot[t].ptr /\ slot'[t].data = slot[t].data
        /\ slot[t] \in SlotRecord /\ mem' = mem
    BY <1>1, <1>4
  <2> QED BY <2>1 DEF Owners!ValueOf, SlotRecord
<1> QED BY <1>1, <1>2, <1>3, <1>5, <1>6, <1>7, <1>8 DEF ValuesInv, ValuesAssumption

-----------------------------------------------------------------------------
\* The steps, by what they do.
LEMMA StepCases ==
  ASSUME ValuesInv, Owners!Next
  PROVE  \/ Refusing
         \/ \E s \in Slots :
              \/ Filling(s) \/ Writing(s)
              \/ Filled(s) /\ UNCHANGED mine /\ answer' \in Answers /\ Same(s)
              \/ \E t \in Slots : Moving(s, t)
              \/ \E imm \in BOOLEAN : Owners!SetImmutable(s, imm)
              \/ \E b \in Blocks, imm \in BOOLEAN : Owners!Borrow(s, b, imm) \/ Owners!Transfer(s, b, imm)
         \/ \E b \in Blocks : Lending(b)
<1>1. ASSUME NEW s \in Slots, NEW c \in Owners!Contents,
             Owners!Set(s, c) \/ Owners!TrySet(s, c) \/ Owners!MutableData(s, c) \/ \E imm \in BOOLEAN : Owners!Construct(s, c, imm)
      PROVE  Filling(s) \/ Refusing \/ Writing(s)
  BY <1>1, Assignments, Writes, Constructions
<1>2. ASSUME NEW s \in Slots, Owners!Destroy(s) \/ Owners!SetNull(s) \/ \E n \in Numbers : Owners!SetNumber(s, n)
      PROVE  Filling(s) \/ Refusing
  BY <1>2, Assignments
<1>3. ASSUME NEW s \in Slots, NEW t \in Slots,
             Owners!CopyConstruct(s, t) \/ Owners!MoveConstruct(s, t) \/ Owners!TryClone(s, t) \/ Owners!Assign(s, t) \/ Owners!MoveAssign(s, t)
      PROVE  Filling(s) \/ Refusing \/ Moving(s, t)
  BY <1>3, Constructions, Assignments, Moves
<1>4. ASSUME NEW b \in Blocks, Owners!ApplicationFrees(b) \/ \E c \in Owners!Contents : Owners!ApplicationAllocates(b, c)
      PROVE  Lending(b)
  BY <1>4, ApplicationLends
<1> QED BY <1>1, <1>2, <1>3, <1>4, Clones DEF Owners!Next

LEMMA ValuesStutter ==
  ASSUME ValuesInv, UNCHANGED <<slot, mem, mine>>, answer' \in Answers
  PROVE  ValuesInv'
BY DEF ValuesInv, ValuesAssumption, Owners!TypeOK, Answers, InBlocks, Unshared, Kept, MineThere, Away

\* The inductive invariant of the values holds in every state.
THEOREM ValuesInvariance == ASSUME ValuesAssumption PROVE Owners!Spec => []ValuesInv
<1>1. ASSUME ValuesInv, [Owners!Next]_(Owners!vars) PROVE ValuesInv'
  <2>1. CASE UNCHANGED Owners!vars BY <1>1, <2>1, ValuesStutter DEF Owners!vars, ValuesInv, Owners!TypeOK, Answers
  <2>2. CASE Refusing BY <1>1, <2>2, ValuesStutter DEF Refusing
  <2>3. ASSUME NEW s \in Slots, Filling(s) \/ (Filled(s) /\ UNCHANGED mine /\ answer' \in Answers /\ Same(s))
        PROVE  ValuesInv'
    BY <1>1, <2>3, FilledKeeps DEF Filling, Answers
  <2> QED
    BY <1>1, <2>1, <2>2, <2>3, StepCases, WritingKeeps, MovingKeeps, MarkKeeps, BorrowKeeps, TransferKeeps, LendingKeeps
<1>2. Owners!Init => ValuesInv BY ValuesInitially
<1> QED BY <1>1, <1>2, PTL DEF Owners!Spec

LEMMA ValuesFollow ==
  ASSUME ValuesInv
  PROVE  Owners!ValuesConsistent
<1>1. Owners!OneOwner
  <2>0. \A b \in Blocks : Owners!Cardinality(Owners!OwnersOf(b)) = Cardinality(Owners!OwnersOf(b))
    BY DEF Owners!Cardinality, Cardinality
  <2> SUFFICES ASSUME NEW b \in Blocks
               PROVE  /\ mem[b] = Gone => b \notin mine /\ \A s \in Slots : slot[s].ptr # b
                      /\ mem[b] # Gone => IF b \in mine THEN Owners!OwnersOf(b) = {} ELSE Cardinality(Owners!OwnersOf(b)) = 1
                      /\ \A s \in Slots : slot[s].ptr = b /\ s \notin Owners!OwnersOf(b) => Owners!Borrowed(slot[s]) /\ b \in mine
    BY <2>0 DEF Owners!OneOwner
  <2>1. b # None /\ Gone \notin Long BY DEF ValuesInv, ValuesAssumption, Owners!Contents
  <2>2. Owners!OwnersOf(b) = {s \in Slots : slot[s].ptr = b /\ b \notin mine} BY WhatIsFreed DEF Owners!OwnersOf
  <2>3. mem[b] = Gone => b \notin mine /\ \A s \in Slots : slot[s].ptr # b
    BY <2>1 DEF ValuesInv, MineThere, InBlocks
  <2>4. ASSUME mem[b] # Gone, b \notin mine PROVE Cardinality(Owners!OwnersOf(b)) = 1
    <3>1. PICK s \in Slots : slot[s].ptr = b BY <2>4 DEF ValuesInv, Kept
    <3>2. Owners!OwnersOf(b) = {s} BY <2>1, <2>2, <2>4, <3>1 DEF ValuesInv, Unshared
    <3> QED BY <3>2, FS_Singleton
  <2>5. \A s \in Slots : slot[s].ptr = b /\ s \notin Owners!OwnersOf(b) => Owners!Borrowed(slot[s]) /\ b \in mine
    BY <2>1, <2>2 DEF ValuesInv, InBlocks, Owners!Borrowed
  <2> QED BY <2>2, <2>3, <2>4, <2>5
<1> QED BY <1>1 DEF ValuesInv, InBlocks, Owners!ValuesConsistent

\* In every state of values each block of memory has one owner, the application or a variable;
\* nothing is lost, freed twice or freed while it is borrowed.
THEOREM ValuesAlwaysConsistent == ASSUME ValuesAssumption PROVE Owners!Spec => []Owners!ValuesConsistent
  BY ValuesInvariance, ValuesFollow, PTL

-----------------------------------------------------------------------------
(* Values implements ValueStore *)

Typed ==
  \A s \in Slots : /\ Owners!ValueOf(slot[s]) \in Numbers \cup Owners!Contents \cup {Nothing, Lost, Gone}
                   /\ Owners!ValueOf(slot[s]) = Gone <=> slot[s].rep = "gone"
                   /\ slot[s].immutable \in BOOLEAN

LEMMA ValueTyped == ValuesInv => Typed
<1> SUFFICES ASSUME ValuesInv, NEW s \in Slots
             PROVE  /\ Owners!ValueOf(slot[s]) \in Numbers \cup Owners!Contents \cup {Nothing, Lost, Gone}
                    /\ Owners!ValueOf(slot[s]) = Gone <=> slot[s].rep = "gone"
                    /\ slot[s].immutable \in BOOLEAN
  BY DEF Typed
<1>1. slot[s] \in SlotRecord BY WhatIsFreed
<1>2. slot[s].ptr # None => mem[slot[s].ptr] \in Long BY DEF ValuesInv, InBlocks
<1>3. Gone \notin Numbers \cup Owners!Contents \cup {Nothing, Lost} BY DEF ValuesInv, ValuesAssumption
<1> QED BY <1>1, <1>2, <1>3 DEF Owners!ValueOf, SlotRecord, Owners!Contents

LEMMA ValueTypedNext == ValuesInv' => Typed'
  BY ValueTyped, PTL

LEMMA Puts ==
  ASSUME ValuesInv, ValuesInv', NEW s \in Slots, Elsewhere(s), UNCHANGED mine, answer' \in {"none", "ok"},
         slot[s].immutable => slot'[s].rep = "gone"
  PROVE  Owners!Abstract!Put(s)
<1> DEFINE v == Owners!ValueOf(slot[s])'
           imm == slot'[s].immutable
<1>1. v \in (Numbers \cup Owners!Contents) \cup {Nothing, Lost, Gone} /\ imm \in BOOLEAN /\ (v = Gone <=> slot'[s].rep = "gone")
  BY ValueTypedNext DEF Typed
<1>2. \A t \in Slots : Owners!ValueOf(slot[t])' = IF t = s THEN v ELSE Owners!ValueOf(slot[t])
  BY DEF Elsewhere, Same
<1>3. \A t \in Slots : slot'[t].immutable = IF t = s THEN imm ELSE slot[t].immutable BY DEF Elsewhere, Same
<1>4. imm = (imm /\ v # Gone) BY <1>1 DEF ValuesInv, Away
<1>5. \A b \in Blocks : (IF b \in mine THEN mem[b] ELSE Gone)' = IF b \in mine THEN mem[b] ELSE Gone
  BY DEF Elsewhere
<1> HIDE DEF v, imm
<1>6. [t \in Slots |-> Owners!ValueOf(slot[t])]' = [[t \in Slots |-> Owners!ValueOf(slot[t])] EXCEPT ![s] = v]
  BY <1>2
<1>7. [t \in Slots |-> slot[t].immutable]' = [[t \in Slots |-> slot[t].immutable] EXCEPT ![s] = imm /\ v # Gone]
  BY <1>3, <1>4
<1>8. UNCHANGED [b \in Blocks |-> IF b \in mine THEN mem[b] ELSE Gone] BY <1>5
<1>9. [t \in Slots |-> slot[t].immutable][s] => v = Gone BY <1>1
<1> QED BY <1>1, <1>6, <1>7, <1>8, <1>9 DEF Owners!Abstract!Put

LEMMA Takes ==
  ASSUME ValuesInv, ValuesInv', NEW s \in Slots, NEW t \in Slots, Moving(s, t)
  PROVE  Owners!Abstract!Take(s, t)
<1>1. /\ s # t /\ ~slot[s].immutable /\ ~slot[t].immutable /\ UNCHANGED mine /\ answer' = "none" BY DEF Moving
<1>2. \A x \in Slots : Owners!ValueOf(slot[x])' =
        IF x = s THEN Owners!ValueOf(slot[t]) ELSE IF x = t THEN Nothing ELSE Owners!ValueOf(slot[x])
  <2>1. \A x \in Slots \ {s, t} : Owners!ValueOf(slot[x])' = Owners!ValueOf(slot[x]) BY MovingKeeps DEF Same
  <2>2. Owners!ValueOf(slot[s])' = Owners!ValueOf(slot[t]) /\ Owners!ValueOf(slot[t])' = Nothing BY MovingKeeps
  <2> SUFFICES ASSUME NEW x \in Slots
               PROVE  Owners!ValueOf(slot[x])' = IF x = s THEN Owners!ValueOf(slot[t]) ELSE IF x = t THEN Nothing ELSE Owners!ValueOf(slot[x])
    OBVIOUS
  <2>3. CASE x \in {s, t} BY <2>2, <2>3
  <2>4. CASE x \notin {s, t} BY <2>1, <2>4
  <2> QED BY <2>3, <2>4
<1>3. \A x \in Slots : slot'[x].immutable = IF x = s THEN FALSE ELSE slot[x].immutable
  <2>1. slot'[s].immutable = FALSE /\ slot'[t].immutable = FALSE /\ slot[t].immutable = FALSE
    BY <1>1, MovingKeeps, ValueTyped, ValueTypedNext DEF Typed
  <2>2. \A x \in Slots \ {s, t} : slot'[x].immutable = slot[x].immutable BY MovingKeeps DEF Same
  <2> QED BY <2>1, <2>2
<1>4. \A b \in Blocks : (IF b \in mine THEN mem[b] ELSE Gone)' = IF b \in mine THEN mem[b] ELSE Gone
  BY <1>1, MovingKeeps
<1> DEFINE val == [x \in Slots |-> Owners!ValueOf(slot[x])]
<1>5. val' = [x \in Slots |-> IF x = s THEN val[t] ELSE IF x = t /\ TRUE THEN Nothing ELSE val[x]] BY <1>2
<1>6. [x \in Slots |-> slot[x].immutable]' = [[x \in Slots |-> slot[x].immutable] EXCEPT ![s] = FALSE] BY <1>3
<1>7. UNCHANGED [b \in Blocks |-> IF b \in mine THEN mem[b] ELSE Gone] BY <1>4
<1>8. ~[x \in Slots |-> slot[x].immutable][s] /\ ~[x \in Slots |-> slot[x].immutable][t] BY <1>1
<1> QED BY <1>1, <1>5, <1>6, <1>7, <1>8 DEF Owners!Abstract!Take

LEMMA Adopts ==
  ASSUME ValuesInv, ValuesInv', NEW s \in Slots, NEW b \in Blocks, NEW imm \in BOOLEAN, Owners!Transfer(s, b, imm)
  PROVE  Owners!Abstract!Adopt(s, b)
<1>1. /\ (\A t \in Slots \ {s} : Same(t)) /\ (\A d \in mine \ {b} : mem'[d] = mem[d])
      /\ Owners!ValueOf(slot[s])' = mem[b] /\ b \in mine /\ mem[b] # Gone /\ ~Owners!Exists(s) /\ mine' = mine \ {b} /\ answer' = "none"
  BY TransferKeeps
<1>2. \A t \in Slots : Owners!ValueOf(slot[t])' = IF t = s THEN mem[b] ELSE Owners!ValueOf(slot[t])
  BY <1>1 DEF Same
<1>3. \A t \in Slots : slot'[t].immutable = IF t = s THEN slot'[s].immutable ELSE slot[t].immutable
  BY <1>1 DEF Same
<1>4. \A d \in Blocks : (IF d \in mine THEN mem[d] ELSE Gone)' = IF d = b THEN Gone ELSE IF d \in mine THEN mem[d] ELSE Gone
  BY <1>1
<1>5. Owners!ValueOf(slot[s]) = Gone /\ slot'[s].immutable \in BOOLEAN
  BY <1>1, ValueTyped, ValueTypedNext DEF Typed, Owners!Exists
<1>6. [t \in Slots |-> Owners!ValueOf(slot[t])]' = [[t \in Slots |-> Owners!ValueOf(slot[t])] EXCEPT ![s] = mem[b]]
  BY <1>2
<1>7. [t \in Slots |-> slot[t].immutable]' = [[t \in Slots |-> slot[t].immutable] EXCEPT ![s] = slot'[s].immutable]
  BY <1>3
<1>8. [d \in Blocks |-> IF d \in mine THEN mem[d] ELSE Gone]'
        = [[d \in Blocks |-> IF d \in mine THEN mem[d] ELSE Gone] EXCEPT ![b] = Gone]
  BY <1>4
<1> QED BY <1>1, <1>5, <1>6, <1>7, <1>8 DEF Owners!Abstract!Adopt

LEMMA Marks ==
  ASSUME ValuesInv, ValuesInv', NEW s \in Slots, NEW imm \in BOOLEAN, Owners!SetImmutable(s, imm)
  PROVE  Owners!Abstract!Mark(s) \/ Owners!Abstract!Refuse
<1>1. /\ \A t \in Slots : Owners!ValueOf(slot[t])' = Owners!ValueOf(slot[t])
      /\ \A t \in Slots : slot'[t].immutable = IF t = s THEN imm ELSE slot[t].immutable
      /\ UNCHANGED <<mem, mine>> /\ answer' = "none"
  BY MarkKeeps
<1>2. /\ UNCHANGED [t \in Slots |-> Owners!ValueOf(slot[t])]
      /\ UNCHANGED [b \in Blocks |-> IF b \in mine THEN mem[b] ELSE Gone]
  BY <1>1
<1>3. CASE slot[s].immutable = imm
  <2>1. UNCHANGED [t \in Slots |-> slot[t].immutable] BY <1>1, <1>3
  <2> QED BY <1>1, <1>2, <2>1 DEF Owners!Abstract!Refuse
<1>4. CASE slot[s].immutable # imm
  <2>1. imm = ~slot[s].immutable BY <1>4, ValueTyped DEF Typed
  <2>2. [t \in Slots |-> slot[t].immutable]'
          = [[t \in Slots |-> slot[t].immutable] EXCEPT ![s] = ~[t \in Slots |-> slot[t].immutable][s]]
    BY <1>1, <2>1
  <2> QED BY <1>1, <1>2, <2>2 DEF Owners!Abstract!Mark
<1> QED BY <1>3, <1>4

LEMMA Lends ==
  ASSUME ValuesInv, ValuesInv', NEW b \in Blocks, Lending(b)
  PROVE  Owners!Abstract!Application
<1>1. /\ \A t \in Slots : Same(t)
      /\ \A d \in Blocks \ {b} : mem'[d] = mem[d] /\ (d \in mine' <=> d \in mine)
      /\ b \in mine' => mem'[b] \in Owners!Contents
      /\ answer' = "none"
  BY LendingKeeps DEF Lending
<1>2. /\ UNCHANGED [t \in Slots |-> Owners!ValueOf(slot[t])]
      /\ UNCHANGED [t \in Slots |-> slot[t].immutable]
  BY <1>1 DEF Same
<1> DEFINE w == IF b \in mine' THEN mem'[b] ELSE Gone
<1>3. w \in (Numbers \cup Owners!Contents) \cup {Gone} BY <1>1
<1>4. \A d \in Blocks : (IF d \in mine THEN mem[d] ELSE Gone)' = IF d = b THEN w ELSE IF d \in mine THEN mem[d] ELSE Gone
  BY <1>1
<1> HIDE DEF w
<1>5. [d \in Blocks |-> IF d \in mine THEN mem[d] ELSE Gone]'
        = [[d \in Blocks |-> IF d \in mine THEN mem[d] ELSE Gone] EXCEPT ![b] = w]
  BY <1>4
<1> QED BY <1>1, <1>2, <1>3, <1>5 DEF Owners!Abstract!Application

LEMMA Refusals ==
  ASSUME \A t \in Slots : Same(t), UNCHANGED mine, \A d \in mine : mem'[d] = mem[d], answer' \in Answers
  PROVE  Owners!Abstract!Refuse
<1>1. /\ UNCHANGED [t \in Slots |-> Owners!ValueOf(slot[t])]
      /\ UNCHANGED [t \in Slots |-> slot[t].immutable]
      /\ UNCHANGED [d \in Blocks |-> IF d \in mine THEN mem[d] ELSE Gone]
  BY DEF Same
<1> QED BY <1>1 DEF Owners!Abstract!Refuse, Answers

LEMMA StepImplements ==
  ASSUME ValuesInv, ValuesInv', Owners!Next
  PROVE  Owners!Abstract!Next
<1>1. CASE Refusing
  <2>1. ASSUME NEW t \in Slots PROVE Same(t)
    <3>1. slot'[t] = slot[t] /\ mem' = mem /\ slot[t] \in SlotRecord BY <1>1, WhatIsFreed DEF Refusing
    <3> QED BY <3>1 DEF Same, Owners!ValueOf, SlotRecord
  <2>2. Owners!Abstract!Refuse BY <1>1, <2>1, Refusals DEF Refusing
  <2> QED BY <2>2 DEF Owners!Abstract!Next
<1>2. ASSUME NEW s \in Slots, Filling(s) \/ Writing(s) PROVE Owners!Abstract!Next
  <2>1. /\ Elsewhere(s) /\ UNCHANGED mine /\ answer' \in {"none", "ok"}
        /\ slot[s].immutable => slot'[s].rep = "gone"
    BY <1>2, FilledKeeps, WritingKeeps DEF Filling, Writing, Answers
  <2>2. Owners!Abstract!Put(s) BY <2>1, Puts
  <2> QED BY <2>2 DEF Owners!Abstract!Next
<1>3. ASSUME NEW s \in Slots, Filled(s), UNCHANGED mine, answer' \in Answers, Same(s) PROVE Owners!Abstract!Next
  <2>1. Elsewhere(s) BY <1>3, FilledKeeps
  <2>2. Owners!Abstract!Refuse BY <1>3, <2>1, Refusals DEF Elsewhere
  <2> QED BY <2>2 DEF Owners!Abstract!Next
<1>4. ASSUME NEW s \in Slots, NEW t \in Slots, Moving(s, t) PROVE Owners!Abstract!Next
  BY <1>4, Takes DEF Owners!Abstract!Next
<1>5. ASSUME NEW s \in Slots, NEW imm \in BOOLEAN, Owners!SetImmutable(s, imm) PROVE Owners!Abstract!Next
  BY <1>5, Marks DEF Owners!Abstract!Next
<1>6. ASSUME NEW s \in Slots, NEW b \in Blocks, NEW imm \in BOOLEAN, Owners!Borrow(s, b, imm) PROVE Owners!Abstract!Next
  <2>1. /\ Elsewhere(s) /\ UNCHANGED mine /\ answer' \in {"none", "ok"} /\ ~slot[s].immutable
    BY <1>6, BorrowKeeps DEF Owners!Borrow, Owners!Says
  <2>2. Owners!Abstract!Put(s) BY <2>1, Puts
  <2> QED BY <2>2 DEF Owners!Abstract!Next
<1>7. ASSUME NEW s \in Slots, NEW b \in Blocks, NEW imm \in BOOLEAN, Owners!Transfer(s, b, imm) PROVE Owners!Abstract!Next
  BY <1>7, Adopts DEF Owners!Abstract!Next
<1>8. ASSUME NEW b \in Blocks, Lending(b) PROVE Owners!Abstract!Next BY <1>8, Lends DEF Owners!Abstract!Next
<1> QED BY <1>1, <1>2, <1>3, <1>4, <1>5, <1>6, <1>7, <1>8, StepCases

\* The calls on values do what ValueStore promises: only the variable a call is made on changes,
\* immutable variables and the application's buffers stay, and an error leaves everything.
THEOREM ValuesImplement == ASSUME ValuesAssumption PROVE Owners!Spec => Owners!ImplementsValueStore
<1>1. ASSUME Owners!Init PROVE Owners!Abstract!Init
  BY <1>1 DEF Owners!Init, Owners!Abstract!Init, Owners!OutOfScope, Owners!ValueOf
<1>2. ASSUME ValuesInv, ValuesInv', [Owners!Next]_(Owners!vars) PROVE [Owners!Abstract!Next]_(Owners!Abstract!vars)
  <2>1. CASE UNCHANGED Owners!vars BY <2>1 DEF Owners!vars, Owners!Abstract!vars, Owners!ValueOf
  <2> QED BY <1>2, <2>1, StepImplements
<1> QED BY <1>1, <1>2, ValuesInvariance, PTL DEF Owners!Spec, Owners!Abstract!Spec, Owners!ImplementsValueStore

-----------------------------------------------------------------------------
(* HashMap: the table keeps its order, whatever is called, and every loop over it ends *)

\* Induction over the numbers, in the form of sets.
LEMMA Least ==
  ASSUME NEW T, T \subseteq Nat, T # {}
  PROVE  \E x \in T : \A y \in T : x <= y
<1>1. PICK x \in T : \A y \in T : <<y, x>> \notin OpToRel(<, Nat) BY NatLessThanWellFounded, WFMin
<1>2. ASSUME NEW y \in T
      PROVE  x <= y
  <2>1. x \in Nat /\ y \in Nat OBVIOUS
  <2>2. OpToRel(<, Nat) = {s \in Nat \X Nat : s[1] < s[2]} BY DEF OpToRel
  <2>3. <<y, x>> \in Nat \X Nat /\ <<y, x>>[1] = y /\ <<y, x>>[2] = x BY <2>1
  <2>4. ~(y < x) BY <1>1, <2>2, <2>3
  <2> QED BY <2>1, <2>4
<1> QED BY <1>2

LEMMA Induct ==
  ASSUME NEW T, 0 \in T, \A n \in Nat : n \in T => n + 1 \in T
  PROVE  \A n \in Nat : n \in T
<1> SUFFICES ASSUME Nat \ T # {} PROVE FALSE OBVIOUS
<1>1. PICK m \in Nat \ T : \A y \in Nat \ T : m <= y BY Least
<1>2. m # 0 /\ m - 1 \in Nat /\ m - 1 \in T BY <1>1
<1> QED BY <1>1, <1>2

\* Division with a remainder.
LEMMA Divides ==
  ASSUME NEW a \in Nat, NEW n \in Nat \ {0}
  PROVE  a \div n \in Nat /\ a % n \in 0 .. n - 1 /\ a = n * (a \div n) + (a % n)
OBVIOUS

LEMMA ModIs ==
  ASSUME NEW n \in Nat \ {0}, NEW q \in Nat, NEW r \in 0 .. n - 1
  PROVE  (n * q + r) % n = r
<1> DEFINE a == n * q + r
<1>0. a \in Nat OBVIOUS
<1>1. /\ a \div n \in Nat /\ a % n \in 0 .. n - 1 /\ a = n * (a \div n) + (a % n) BY <1>0, Divides
<1> HIDE DEF a
<1>2. ASSUME NEW x \in Nat, NEW y \in Nat, x < y PROVE n * x + n <= n * y
  <2>1. y - x - 1 \in Nat /\ y = x + 1 + (y - x - 1) BY <1>2
  <2>2. n * y = n * x + n + n * (y - x - 1) BY <2>1
  <2>3. n * (y - x - 1) \in Nat BY <2>1
  <2> QED BY <2>2, <2>3
<1>3. a = n * q + r BY DEF a
<1>4. ~(q < a \div n) BY <1>1, <1>2, <1>3
<1>5. ~(a \div n < q) BY <1>1, <1>2, <1>3
<1>6. a \div n = q
  <2> DEFINE m == a \div n
  <2>1. m \in Nat /\ ~(q < m) /\ ~(m < q) BY <1>1, <1>4, <1>5
  <2> HIDE DEF m
  <2>2. m = q BY <2>1
  <2> QED BY <2>2 DEF m
<1>7. a % n = r BY <1>1, <1>3, <1>6
<1> QED BY <1>7 DEF a

LEMMA Wraps ==
  ASSUME NEW n \in Nat \ {0}, NEW x \in 0 .. 2 * n - 1
  PROVE  x % n = IF x < n THEN x ELSE x - n
<1>1. CASE x < n
  <2>1. x = n * 0 + x /\ x \in 0 .. n - 1 BY <1>1
  <2> QED BY <1>1, <2>1, ModIs
<1>2. CASE ~(x < n)
  <2>1. x = n * 1 + (x - n) /\ x - n \in 0 .. n - 1 BY <1>2
  <2> QED BY <1>2, <2>1, ModIs
<1> QED BY <1>1, <1>2

LEMMA ModShift ==
  ASSUME NEW n \in Nat \ {0}, NEW a \in Nat, NEW d \in 0 .. n - 1
  PROVE  /\ a % n \in 0 .. n - 1
         /\ (a + d) % n = IF (a % n) + d < n THEN (a % n) + d ELSE (a % n) + d - n
<1>1. a \div n \in Nat /\ a % n \in 0 .. n - 1 /\ a = n * (a \div n) + (a % n) BY Divides
<1> DEFINE q == a \div n
           r == a % n
<1> HIDE DEF q, r
<1>2. q \in Nat /\ r \in 0 .. n - 1 /\ a = n * q + r BY <1>1 DEF q, r
<1>3. CASE r + d < n
  <2>1. a + d = n * q + (r + d) /\ r + d \in 0 .. n - 1 BY <1>2, <1>3
  <2> QED BY <1>2, <1>3, <2>1, ModIs DEF r
<1>4. CASE ~(r + d < n)
  <2>1. n * (q + 1) = n * q + n /\ q + 1 \in Nat BY <1>2
  <2>2. a + d = n * (q + 1) + (r + d - n) /\ r + d - n \in 0 .. n - 1 BY <1>2, <1>4, <2>1
  <2> QED BY <1>2, <1>4, <2>1, <2>2, ModIs DEF r
<1> QED BY <1>3, <1>4

\* The n buckets of a table are a ring.
Ring(n, x) == IF x < n THEN x ELSE x - n
Home(n, k) == Hash[k] % n

Bucket == {Empty} \cup [key : Keys, val : Values \cup {None}, dib : Nat \ {0}]
Table(t, n) == n \in Nat /\ n >= 2 /\ t \in [0 .. n - 1 -> Bucket]

\* Entries are as far from home as they say, and at most one step further than those in front.
Homes(t, n) ==
  \A i \in 0 .. n - 1 : t[i].dib # 0 => t[i].dib <= n /\ Ring(n, Home(n, t[i].key) + t[i].dib - 1) = i
Stepwise(t, n) == \A i \in 0 .. n - 1 : t[Ring(n, i + 1)].dib <= t[i].dib + 1
Once(t, n) == \A i, j \in 0 .. n - 1 : t[i].dib # 0 /\ t[j].dib # 0 /\ t[i].key = t[j].key => i = j
Robin(t, n) == Table(t, n) /\ Homes(t, n) /\ Stepwise(t, n) /\ Once(t, n)

Room(t, n) == \E i \in 0 .. n - 1 : t[i].dib = 0
NotIn(k, t, n) == \A i \in 0 .. n - 1 : t[i].dib # 0 => t[i].key # k
Pairs(t) == {<<t[i].key, t[i].val>> : i \in Used(t)}

LEMMA BucketIs ==
  ASSUME NEW b \in Bucket
  PROVE  /\ b.dib \in Nat /\ (b = Empty <=> b.dib = 0) /\ (b = Empty => b.key = None)
         /\ b.dib # 0 => b \in [key : Keys, val : Values \cup {None}, dib : Nat \ {0}]
                         /\ b.key \in Keys /\ b.val \in Values \cup {None}
BY DEF Bucket, Empty

LEMMA TableSize ==
  ASSUME NEW n \in Nat, NEW t, DOMAIN t = 0 .. n - 1
  PROVE  Size(t) = n
<1>1. Cardinality(0 .. n - 1) = n BY FS_Interval
<1> QED BY <1>1 DEF Size

LEMMA TableIs ==
  ASSUME NEW n, NEW t, Table(t, n)
  PROVE  /\ n \in Nat /\ n >= 2 /\ DOMAIN t = 0 .. n - 1 /\ Size(t) = n
         /\ \A i \in 0 .. n - 1 : t[i] \in Bucket /\ t[i].dib \in Nat
         /\ Used(t) = {i \in 0 .. n - 1 : t[i].dib # 0} /\ IsFiniteSet(Used(t)) /\ Used(t) \subseteq 0 .. n - 1
<1>1. n \in Nat /\ n >= 2 /\ DOMAIN t = 0 .. n - 1 /\ \A i \in 0 .. n - 1 : t[i] \in Bucket BY DEF Table
<1>2. Size(t) = n BY <1>1, TableSize
<1>3. \A i \in 0 .. n - 1 : t[i].dib \in Nat BY <1>1, BucketIs
<1>4. Used(t) = {i \in 0 .. n - 1 : t[i].dib # 0} BY <1>1 DEF Used
<1>5. IsFiniteSet(0 .. n - 1) BY <1>1, FS_Interval
<1>6. IsFiniteSet(Used(t)) BY <1>4, <1>5, FS_Subset
<1> QED BY <1>1, <1>2, <1>3, <1>4, <1>6

LEMMA HomeIn ==
  ASSUME NEW n \in Nat \ {0}, NEW k \in Keys
  PROVE  Home(n, k) \in 0 .. n - 1
<1>1. Hash[k] \in Nat BY HashAssumption
<1> QED BY <1>1, Divides DEF Home

\* Where a probe looks.
LEMMA ProbeAt ==
  ASSUME NEW n, NEW t, Table(t, n), NEW k \in Keys, NEW d \in 0 .. n - 1
  PROVE  At(t, k, d) = Ring(n, Home(n, k) + d) /\ At(t, k, d) \in 0 .. n - 1
<1>1. n \in Nat /\ n >= 2 /\ Size(t) = n /\ Hash[k] \in Nat BY TableIs, HashAssumption
<1>2. /\ Hash[k] % n \in 0 .. n - 1
      /\ (Hash[k] + d) % n = IF (Hash[k] % n) + d < n THEN (Hash[k] % n) + d ELSE (Hash[k] % n) + d - n
  <2> DEFINE a == Hash[k]
  <2>1. n \in Nat \ {0} /\ a \in Nat BY <1>1
  <2> HIDE DEF a
  <2>2. /\ a % n \in 0 .. n - 1
        /\ (a + d) % n = IF (a % n) + d < n THEN (a % n) + d ELSE (a % n) + d - n
    BY <2>1, ModShift
  <2> QED BY <2>2 DEF a
<1>3. At(t, k, d) = Ring(n, Home(n, k) + d) BY <1>1, <1>2 DEF At, Ring, Home
<1>4. Home(n, k) \in 0 .. n - 1 BY <1>1, HomeIn
<1>5. Ring(n, Home(n, k) + d) \in 0 .. n - 1 BY <1>1, <1>4 DEF Ring
<1> QED BY <1>3, <1>5

\* Going back from an entry to its home, distances go down by one at most.
LEMMA Backwards ==
  ASSUME NEW n, NEW t, Robin(t, n), NEW i \in 0 .. n - 1, t[i].dib # 0
  PROVE  /\ t[i].dib \in 1 .. n /\ t[i].key \in Keys
         /\ \A d \in 0 .. t[i].dib - 1 : t[Ring(n, Home(n, t[i].key) + d)].dib >= d + 1
<1> DEFINE m == t[i].dib
           h == Home(n, t[i].key)
           Far == {j \in Nat : j <= m - 1 => t[Ring(n, h + (m - 1 - j))].dib >= m - j}
<1>1. Table(t, n) /\ n \in Nat /\ n >= 2 /\ m \in 1 .. n /\ t[i].key \in Keys
  BY TableIs, BucketIs DEF Robin, Homes
<1>2. h \in 0 .. n - 1 /\ Ring(n, h + m - 1) = i BY <1>1, HomeIn DEF Robin, Homes
<1>3. \A x \in 0 .. n - 1 : t[x].dib \in Nat BY <1>1, TableIs
<1> HIDE DEF h
<1>4. 0 \in Far
  <2>1. h + (m - 1 - 0) = h + m - 1 /\ m - 0 = m BY <1>1, <1>2
  <2> QED BY <1>1, <1>2, <2>1
<1>5. ASSUME NEW j \in Nat, j \in Far
      PROVE  j + 1 \in Far
  <2> SUFFICES ASSUME j + 1 <= m - 1 PROVE t[Ring(n, h + (m - 1 - (j + 1)))].dib >= m - (j + 1) OBVIOUS
  <2> DEFINE x == Ring(n, h + (m - 1 - (j + 1)))
  <2>1. x \in 0 .. n - 1 /\ Ring(n, x + 1) = Ring(n, h + (m - 1 - j)) BY <1>1, <1>2 DEF Ring
  <2>2. t[Ring(n, h + (m - 1 - j))].dib >= m - j BY <1>1, <1>5
  <2>3. t[Ring(n, x + 1)].dib <= t[x].dib + 1 BY <2>1 DEF Robin, Stepwise
  <2>4. t[x].dib \in Nat /\ t[Ring(n, x + 1)].dib \in Nat BY <1>1, <1>2, <1>3, <2>1 DEF Ring
  <2>6. m \in Nat BY <1>1
  <2> HIDE DEF x, m
  <2>5. t[x].dib + 1 >= m - j BY <2>1, <2>2, <2>3, <2>4, <2>6
  <2>7. t[x].dib >= m - (j + 1) BY <2>4, <2>5, <2>6
  <2> QED BY <2>7 DEF x
<1> HIDE DEF Far
<1>6. \A j \in Nat : j \in Far BY <1>4, <1>5, Induct
<1>7. ASSUME NEW d \in 0 .. m - 1
      PROVE  t[Ring(n, h + d)].dib >= d + 1
  <2>1. m - 1 - d \in Nat /\ m - 1 - (m - 1 - d) = d /\ m - (m - 1 - d) = d + 1 /\ m - 1 - d <= m - 1 BY <1>1
  <2>2. m - 1 - d \in Far BY <1>6, <2>1
  <2> HIDE DEF m
  <2>3. t[Ring(n, h + (m - 1 - (m - 1 - d)))].dib >= m - (m - 1 - d) BY <2>1, <2>2 DEF Far
  <2> QED BY <2>1, <2>3
<1> QED BY <1>1, <1>7 DEF h

LEMMA OneLeast ==
  ASSUME NEW x \in Nat PROVE Min({x}) = x
BY DEF Min

\* An entry is found in its bucket, and a key that is not there is not found.
LEMMA Found ==
  ASSUME NEW n, NEW t, Robin(t, n), NEW i \in 0 .. n - 1, t[i].dib # 0
  PROVE  Position(t, t[i].key) = i
<1> DEFINE k == t[i].key
           m == t[i].dib
           h == Home(n, k)
           hits == {d \in Reached(t, k) : t[At(t, k, d)].key = k}
<1>1. /\ Table(t, n) /\ n \in Nat /\ n >= 2 /\ m \in 1 .. n /\ k \in Keys /\ Size(t) = n
      /\ \A d \in 0 .. m - 1 : t[Ring(n, h + d)].dib >= d + 1
  BY Backwards, TableIs DEF Robin
<1>2. h \in 0 .. n - 1 /\ Ring(n, h + m - 1) = i BY <1>1, HomeIn DEF Robin, Homes
<1>3. \A d \in 0 .. n - 1 : At(t, k, d) = Ring(n, h + d) /\ At(t, k, d) \in 0 .. n - 1 BY <1>1, ProbeAt
<1> HIDE DEF h
<1>4. m - 1 \in hits
  <2>1. ASSUME NEW e \in 0 .. (m - 1) - 1
        PROVE  t[At(t, k, e)].dib # 0
    <3>1. e \in 0 .. m - 1 /\ e \in 0 .. n - 1 /\ At(t, k, e) \in 0 .. n - 1 BY <1>1, <1>3
    <3>2. t[At(t, k, e)].dib >= e + 1 /\ t[At(t, k, e)].dib \in Nat BY <1>1, <1>3, <3>1, TableIs
    <3> QED BY <3>1, <3>2
  <2>2. m - 1 \in 0 .. n - 1 /\ h + (m - 1) = h + m - 1 BY <1>1, <1>2
  <2>3. At(t, k, m - 1) = i BY <1>2, <1>3, <2>2
  <2> QED BY <1>1, <2>1, <2>2, <2>3 DEF Reached
<1>5. ASSUME NEW d \in hits
      PROVE  d = m - 1
  <2>1. d \in 0 .. n - 1 /\ t[At(t, k, d)].key = k BY <1>1 DEF Reached
  <2>2. At(t, k, d) \in 0 .. n - 1 /\ At(t, k, d) = Ring(n, h + d) BY <1>3, <2>1
  <2>3. t[At(t, k, d)].dib # 0
    <3>1. t[At(t, k, d)] \in Bucket BY <1>1, <2>2, TableIs
    <3> QED BY <1>1, <2>1, <3>1, BucketIs, HashAssumption
  <2>4. At(t, k, d) = i BY <2>1, <2>2, <2>3 DEF Robin, Once
  <2>5. Ring(n, h + d) = Ring(n, h + m - 1) BY <1>2, <2>2, <2>4
  <2> QED BY <1>1, <1>2, <2>1, <2>5 DEF Ring
<1>6. hits = {m - 1} /\ m - 1 \in Nat BY <1>1, <1>4, <1>5
<1>7. Min(hits) = m - 1 BY <1>6, OneLeast
<1>8. At(t, k, m - 1) = i BY <1>1, <1>2, <1>3
<1> QED BY <1>6, <1>7, <1>8 DEF Position

LEMMA NotFound ==
  ASSUME NEW n, NEW t, Table(t, n), NEW k \in Keys, NotIn(k, t, n)
  PROVE  Position(t, k) = -1
<1> DEFINE hits == {d \in Reached(t, k) : t[At(t, k, d)].key = k}
<1>1. Size(t) = n BY TableIs
<1>2. ASSUME NEW d \in hits
      PROVE  FALSE
  <2>1. d \in 0 .. n - 1 /\ t[At(t, k, d)].key = k BY <1>1 DEF Reached
  <2>2. At(t, k, d) \in 0 .. n - 1 BY <2>1, ProbeAt
  <2>3. t[At(t, k, d)] \in Bucket BY <2>2, TableIs
  <2>4. t[At(t, k, d)].dib # 0 BY <2>1, <2>3, BucketIs, HashAssumption
  <2> QED BY <2>1, <2>2, <2>4 DEF NotIn
<1>3. hits = {} BY <1>2
<1> QED BY <1>3 DEF Position

\* Conversely, what a lookup finds is an entry with that key.
LEMMA PositionIs ==
  ASSUME NEW n, NEW t, Robin(t, n), NEW k \in Keys
  PROVE  LET p == Position(t, k) IN
         \/ p = -1 /\ NotIn(k, t, n)
         \/ p \in 0 .. n - 1 /\ p \in Used(t) /\ t[p].dib # 0 /\ t[p].key = k
<1>1. Table(t, n) BY DEF Robin
<1>2. CASE NotIn(k, t, n) BY <1>1, <1>2, NotFound
<1>3. CASE ~NotIn(k, t, n)
  <2>1. PICK i \in 0 .. n - 1 : t[i].dib # 0 /\ t[i].key = k BY <1>3 DEF NotIn
  <2>2. Position(t, k) = i BY <2>1, Found
  <2>3. i \in Used(t) BY <1>1, <2>1, TableIs
  <2> QED BY <2>1, <2>2, <2>3
<1> QED BY <1>2, <1>3

Pair(b) == <<b.key, b.val>>
\* The changes of a bucket, of an entry's distance and of its value.
Put(t, p, x) == [t EXCEPT ![p] = x]
Further(b) == [b EXCEPT !.dib = @ + 1]
Valued(b, v) == [b EXCEPT !.val = v]
State(n) == [table : [0 .. n - 1 -> Bucket], hand : Bucket, found : BOOLEAN]

LEMMA OneFurther ==
  ASSUME NEW b \in Bucket, b.dib # 0
  PROVE  LET c == Further(b) IN
         c \in Bucket /\ c.key = b.key /\ c.val = b.val /\ c.dib = b.dib + 1 /\ c.dib # 0 /\ c # Empty
<1>1. b \in [key : Keys, val : Values \cup {None}, dib : Nat \ {0}] /\ b.dib + 1 \in Nat \ {0} BY BucketIs
<1> DEFINE c == Further(b)
<1>2. /\ c \in [key : Keys, val : Values \cup {None}, dib : Nat \ {0}]
      /\ c.key = b.key /\ c.val = b.val /\ c.dib = b.dib + 1
  BY <1>1 DEF Further
<1>3. c \in Bucket /\ c.dib # 0 BY <1>2 DEF Bucket
<1> HIDE DEF c
<1>4. c # Empty BY <1>3, BucketIs
<1> QED BY <1>2, <1>3, <1>4 DEF c

LEMMA Visits ==
  ASSUME NEW n \in Nat, NEW s \in State(n), NEW p \in 0 .. n - 1, NEW new
  PROVE  LET b == s.table[p]
             v == Visit(s, p, new)
             same == b.key = new.key /\ Hash[b.key] = Hash[s.hand.key]
         IN  /\ s.hand = Empty => v = s
             /\ s.hand # Empty /\ b = Empty =>
                  v.table = Put(s.table, p, s.hand) /\ v.hand = Empty /\ (v.found <=> s.found)
             /\ s.hand # Empty /\ b # Empty /\ same =>
                  v.table = Put(s.table, p, Valued(b, new.val)) /\ v.hand = Empty /\ v.found
             /\ s.hand # Empty /\ b # Empty /\ ~same /\ b.dib < s.hand.dib =>
                  /\ v.table = Put(s.table, p, s.hand) /\ v.hand = Further(b)
                  /\ (v.found <=> s.found)
             /\ s.hand # Empty /\ b # Empty /\ ~same /\ ~(b.dib < s.hand.dib) =>
                  v.table = s.table /\ v.hand = Further(s.hand) /\ (v.found <=> s.found)
<1> DEFINE b == s.table[p]
           v == Visit(s, p, new)
           same == b.key = new.key /\ Hash[b.key] = Hash[s.hand.key]
<1>1. DOMAIN s = {"table", "hand", "found"} /\ s = [table |-> s.table, hand |-> s.hand, found |-> s.found]
  BY DEF State
<1>2. CASE s.hand = Empty BY <1>2 DEF Visit
<1>3. CASE s.hand # Empty /\ b = Empty
  <2>1. v = [s EXCEPT !.table[p] = s.hand, !.hand = Empty] BY <1>3 DEF Visit
  <2> QED BY <1>1, <1>3, <2>1 DEF Put
<1>4. CASE s.hand # Empty /\ b # Empty /\ same
  <2>1. v = [s EXCEPT !.table[p].val = new.val, !.hand = Empty, !.found = TRUE] BY <1>4 DEF Visit
  <2> QED BY <1>1, <1>4, <2>1 DEF Put, Valued
<1>5. CASE s.hand # Empty /\ b # Empty /\ ~same /\ b.dib < s.hand.dib
  <2>1. v = [s EXCEPT !.table[p] = s.hand, !.hand = [b EXCEPT !.dib = @ + 1]] BY <1>5 DEF Visit
  <2> QED BY <1>1, <1>5, <2>1 DEF Put, Further
<1>6. CASE s.hand # Empty /\ b # Empty /\ ~same /\ ~(b.dib < s.hand.dib)
  <2>1. v = [s EXCEPT !.hand.dib = @ + 1] BY <1>6 DEF Visit
  <2> QED BY <1>1, <1>6, <2>1 DEF Further
<1> QED BY <1>2, <1>3, <1>4, <1>5, <1>6

\* An entry takes the place of a nearer one, or an empty bucket.
LEMMA Replaced ==
  ASSUME NEW n, NEW t, Robin(t, n), NEW p \in 0 .. n - 1, NEW x \in Bucket,
         x.dib \in 1 .. n, Ring(n, Home(n, x.key) + x.dib - 1) = p, NotIn(x.key, t, n),
         t[p].dib < x.dib, \A q \in 0 .. n - 1 : Ring(n, q + 1) = p => x.dib <= t[q].dib + 1
  PROVE  LET u == Put(t, p, x) IN
         /\ Robin(u, n) /\ Used(u) = Used(t) \cup {p}
         /\ t[p].dib = 0 => Pairs(u) = Pairs(t) \cup {Pair(x)}
         /\ t[p].dib # 0 => Pairs(u) \cup {Pair(t[p])} = Pairs(t) \cup {Pair(x)} /\ NotIn(t[p].key, u, n)
<1> DEFINE u == Put(t, p, x)
<1>1. /\ Table(t, n) /\ n \in Nat /\ n >= 2 /\ t \in [0 .. n - 1 -> Bucket]
      /\ \A i \in 0 .. n - 1 : t[i] \in Bucket /\ t[i].dib \in Nat
  BY TableIs DEF Robin, Table
<1>2. /\ u \in [0 .. n - 1 -> Bucket] /\ u[p] = x
      /\ \A i \in 0 .. n - 1 : i # p => u[i] = t[i]
  BY <1>1 DEF Put
<1> HIDE DEF u
<1>3. Table(u, n) BY <1>1, <1>2 DEF Table
<1>4. Homes(u, n) BY <1>1, <1>2 DEF Robin, Homes
<1>5. Stepwise(u, n)
  <2> SUFFICES ASSUME NEW i \in 0 .. n - 1 PROVE u[Ring(n, i + 1)].dib <= u[i].dib + 1 BY DEF Stepwise
  <2>1. Ring(n, i + 1) \in 0 .. n - 1 /\ Ring(n, i + 1) # i BY <1>1 DEF Ring
  <2>2. t[Ring(n, i + 1)].dib <= t[i].dib + 1 BY DEF Robin, Stepwise
  <2>3. t[Ring(n, i + 1)].dib \in Nat /\ t[i].dib \in Nat /\ t[p].dib \in Nat /\ x.dib \in Nat BY <1>1, <2>1
  <2>4. CASE Ring(n, i + 1) = p BY <1>2, <2>1, <2>4
  <2>5. CASE i = p
    <3>1. u[Ring(n, i + 1)] = t[Ring(n, i + 1)] /\ u[i] = x BY <1>2, <2>1, <2>5
    <3> QED BY <2>2, <2>3, <2>5, <3>1
  <2>6. CASE Ring(n, i + 1) # p /\ i # p BY <1>2, <2>1, <2>2, <2>6
  <2> QED BY <2>4, <2>5, <2>6
<1>6. Once(u, n) BY <1>2 DEF Robin, Once, NotIn
<1>7. Used(u) = Used(t) \cup {p}
  <2>1. Used(u) = {i \in 0 .. n - 1 : u[i].dib # 0} /\ Used(t) = {i \in 0 .. n - 1 : t[i].dib # 0}
    BY <1>1, <1>3, TableIs
  <2>2. u[p].dib # 0 BY <1>2
  <2> QED BY <1>2, <2>1, <2>2
<1>8. ASSUME t[p].dib = 0 PROVE Pairs(u) = Pairs(t) \cup {Pair(x)}
  <2>1. p \notin Used(t) /\ Used(t) \subseteq 0 .. n - 1 BY <1>1, <1>8, TableIs
  <2>2. \A i \in Used(t) : u[i] = t[i] BY <1>2, <2>1
  <2> QED BY <1>2, <1>7, <2>2 DEF Pairs, Pair
<1>9. ASSUME t[p].dib # 0 PROVE Pairs(u) \cup {Pair(t[p])} = Pairs(t) \cup {Pair(x)} /\ NotIn(t[p].key, u, n)
  <2>1. p \in Used(t) /\ Used(t) \subseteq 0 .. n - 1 /\ Used(u) = Used(t) BY <1>1, <1>7, <1>9, TableIs
  <2>2. \A i \in Used(t) : i # p => u[i] = t[i] BY <1>2, <2>1
  <2>3. Pairs(u) \cup {Pair(t[p])} = Pairs(t) \cup {Pair(x)} BY <1>2, <2>1, <2>2 DEF Pairs, Pair
  <2>4. NotIn(t[p].key, u, n) BY <1>2, <1>9 DEF NotIn, Robin, Once
  <2> QED BY <2>3, <2>4
<1> QED BY <1>3, <1>4, <1>5, <1>6, <1>7, <1>8, <1>9 DEF Robin, u

\* The rounds of the insertion loop exist.
LEMMA Rounds ==
  ASSUME NEW n \in Nat, NEW t, Size(t) = n, NEW e, NEW new
  PROVE  \E R : /\ R[0] = [table |-> t, hand |-> [e EXCEPT !.dib = 1], found |-> FALSE]
                /\ \A d \in 0 .. n - 1 : R[d + 1] = Visit(R[d], At(t, e.key, d), new)
                /\ Insertion(t, e, new) = R[n]
<1> DEFINE start == [table |-> t, hand |-> [e EXCEPT !.dib = 1], found |-> FALSE]
           Run(f, m) == [d \in 0 .. m |-> IF d = 0 THEN start ELSE Visit(f[d - 1], At(t, e.key, d - 1), new)]
           Some == {m \in Nat : \E f : f = Run(f, m)}
<1>1. \A m \in Nat : m \in Some
  <2>1. 0 \in Some
    <3>1. [d \in 0 .. 0 |-> start] = Run([d \in 0 .. 0 |-> start], 0) OBVIOUS
    <3> QED BY <3>1
  <2>2. ASSUME NEW m \in Nat, m \in Some
        PROVE  m + 1 \in Some
    <3>1. PICK f : f = Run(f, m) BY <2>2
    <3> DEFINE g == [d \in 0 .. m + 1 |-> IF d = m + 1 THEN Visit(f[m], At(t, e.key, m), new) ELSE f[d]]
    <3> HIDE DEF start
    <3>2. \A d \in 0 .. m : f[d] = IF d = 0 THEN start ELSE Visit(f[d - 1], At(t, e.key, d - 1), new) BY <3>1
    <3>3. \A d \in 0 .. m + 1 : g[d] = IF d = 0 THEN start ELSE Visit(g[d - 1], At(t, e.key, d - 1), new) BY <3>2
    <3>4. g = Run(g, m + 1)
      <4> HIDE DEF g
      <4>1. g = [d \in 0 .. m + 1 |-> g[d]] BY DEF g
      <4> QED BY <3>3, <4>1
    <3>5. \E h : h = Run(h, m + 1)
      <4> HIDE DEF g
      <4> QED BY <3>4
    <3> QED BY <3>5
  <2> HIDE DEF Some
  <2> QED BY <2>1, <2>2, Induct
<1> DEFINE R == CHOOSE f : f = Run(f, n)
<1>2. R = Run(R, n) BY <1>1
<1>3. Insertion(t, e, new) = R[n] BY DEF Insertion
<1>4. R[0] = start /\ \A d \in 0 .. n - 1 : R[d + 1] = Visit(R[d], At(t, e.key, d), new)
  <2> HIDE DEF R, start
  <2> QED BY <1>2
<1> QED BY <1>3, <1>4

\* The d-th round: what was displaced by the entry e is in hand, or e has its place.
Spot(n, e, d) == Ring(n, Home(n, e.key) + d)
Carrying(h, u, t, n, e, d) ==
  /\ Used(u) = Used(t) /\ h.dib \in 1 .. d + 1 /\ NotIn(h.key, u, n)
  /\ \A j \in 0 .. n - 1 : IF j < d THEN t[Spot(n, e, j)].dib # 0 ELSE u[Spot(n, e, j)] = t[Spot(n, e, j)]
  /\ d < n => Ring(n, Home(n, h.key) + h.dib - 1) = Spot(n, e, d)
  /\ d > 0 => h.dib <= u[Spot(n, e, d - 1)].dib + 1
  /\ Pairs(u) \cup {Pair(h)} = Pairs(t) \cup {Pair(e)}
Settled(u, t, n, e) ==
  /\ Pairs(u) = Pairs(t) \cup {Pair(e)}
  /\ \E x \in 0 .. n - 1 : t[x].dib = 0 /\ Used(u) = Used(t) \cup {x}
Going(s, t, n, e, d) ==
  /\ s \in State(n) /\ ~s.found /\ Robin(s.table, n)
  /\ s.hand # Empty => Carrying(s.hand, s.table, t, n, e, d)
  /\ s.hand = Empty => Settled(s.table, t, n, e)

LEMMA SpotIn ==
  ASSUME NEW n \in Nat, n >= 2, NEW e, e.key \in Keys, NEW d \in 0 .. n - 1
  PROVE  /\ Spot(n, e, d) \in 0 .. n - 1
         /\ \A q \in 0 .. n - 1 : Ring(n, q + 1) = Spot(n, e, d) /\ d > 0 => q = Spot(n, e, d - 1)
         /\ d + 1 < n => Ring(n, Spot(n, e, d) + 1) = Spot(n, e, d + 1)
         /\ \A j \in 0 .. n - 1 : Spot(n, e, j) = Spot(n, e, d) => j = d
<1>1. Home(n, e.key) \in 0 .. n - 1 BY HomeIn
<1> DEFINE h == Home(n, e.key)
<1> HIDE DEF h
<1>2. h \in 0 .. n - 1 BY <1>1 DEF h
<1>3. Ring(n, h + d) \in 0 .. n - 1 BY <1>2 DEF Ring
<1>4. \A q \in 0 .. n - 1 : Ring(n, q + 1) = Ring(n, h + d) /\ d > 0 => q = Ring(n, h + (d - 1)) BY <1>2 DEF Ring
<1>5. d + 1 < n => Ring(n, Ring(n, h + d) + 1) = Ring(n, h + (d + 1)) BY <1>2 DEF Ring
<1>6. \A j \in 0 .. n - 1 : Ring(n, h + j) = Ring(n, h + d) => j = d BY <1>2 DEF Ring
<1> QED BY <1>3, <1>4, <1>5, <1>6 DEF Spot, h

\* Every corner of the ring is a spot of the probe.
LEMMA SpotsAll ==
  ASSUME NEW n \in Nat, n >= 2, NEW e, e.key \in Keys, NEW x \in 0 .. n - 1
  PROVE  \E d \in 0 .. n - 1 : x = Spot(n, e, d)
<1>1. Home(n, e.key) \in 0 .. n - 1 BY HomeIn
<1> DEFINE h == Home(n, e.key)
           d == IF x >= h THEN x - h ELSE x - h + n
<1>2. d \in 0 .. n - 1 /\ x = Ring(n, h + d)
  <2> HIDE DEF h
  <2>1. h \in 0 .. n - 1 BY <1>1 DEF h
  <2> QED BY <2>1 DEF Ring
<1> QED BY <1>2 DEF Spot

LEMMA VisitState ==
  ASSUME NEW n \in Nat, NEW s \in State(n), NEW p \in 0 .. n - 1, NEW new, new.val \in Values \cup {None}
  PROVE  Visit(s, p, new) \in State(n)
<1> DEFINE b == s.table[p]
           v == Visit(s, p, new)
           same == b.key = new.key /\ Hash[b.key] = Hash[s.hand.key]
<1>1. s.table \in [0 .. n - 1 -> Bucket] /\ s.hand \in Bucket /\ b \in Bucket /\ Empty \in Bucket
  BY DEF State, Bucket
<1>2. CASE s.hand = Empty BY <1>2 DEF Visit
<1>3. CASE s.hand # Empty /\ b = Empty
  <2>1. v = [s EXCEPT !.table[p] = s.hand, !.hand = Empty] BY <1>3 DEF Visit
  <2> QED BY <1>1, <2>1 DEF State
<1>4. CASE s.hand # Empty /\ b # Empty /\ same
  <2>1. v = [s EXCEPT !.table[p].val = new.val, !.hand = Empty, !.found = TRUE] BY <1>4 DEF Visit
  <2>2. [b EXCEPT !.val = new.val] \in Bucket
    <3>1. b \in [key : Keys, val : Values \cup {None}, dib : Nat \ {0}] BY <1>1, <1>4, BucketIs
    <3>2. [b EXCEPT !.val = new.val] \in [key : Keys, val : Values \cup {None}, dib : Nat \ {0}] BY <3>1
    <3> QED BY <3>2 DEF Bucket
  <2>3. [s.table EXCEPT ![p] = [b EXCEPT !.val = new.val]] \in [0 .. n - 1 -> Bucket] BY <1>1, <2>2
  <2>4. [s.table EXCEPT ![p].val = new.val] = [s.table EXCEPT ![p] = [b EXCEPT !.val = new.val]] OBVIOUS
  <2> QED BY <1>1, <2>1, <2>3, <2>4 DEF State
<1>5. CASE s.hand # Empty /\ b # Empty /\ ~same /\ b.dib < s.hand.dib
  <2>1. v = [s EXCEPT !.table[p] = s.hand, !.hand = [b EXCEPT !.dib = @ + 1]] BY <1>5 DEF Visit
  <2>2. [b EXCEPT !.dib = @ + 1] \in Bucket BY <1>1, <1>5, BucketIs, OneFurther DEF Further
  <2> QED BY <1>1, <2>1, <2>2 DEF State
<1>6. CASE s.hand # Empty /\ b # Empty /\ ~same /\ ~(b.dib < s.hand.dib)
  <2>1. v = [s EXCEPT !.hand.dib = @ + 1] BY <1>6 DEF Visit
  <2>2. [s.hand EXCEPT !.dib = @ + 1] \in Bucket BY <1>1, <1>6, BucketIs, OneFurther DEF Further
  <2>3. v = [s EXCEPT !.hand = [s.hand EXCEPT !.dib = @ + 1]] BY <2>1
  <2> QED BY <1>1, <2>2, <2>3 DEF State
<1> QED BY <1>2, <1>3, <1>4, <1>5, <1>6

LEMMA RingNext ==
  ASSUME NEW n \in Nat, NEW x \in 0 .. 2 * n - 2
  PROVE  Ring(n, Ring(n, x) + 1) = Ring(n, x + 1)
BY DEF Ring

LEMMA GoingStep ==
  ASSUME NEW n, NEW t, Robin(t, n), NEW e \in Bucket, e.dib # 0, NotIn(e.key, t, n),
         NEW new, new.key \in {None, e.key}, new.val \in Values \cup {None},
         NEW d \in 0 .. n - 1, NEW s, Going(s, t, n, e, d), NEW p, p = Spot(n, e, d)
  PROVE  Going(Visit(s, p, new), t, n, e, d + 1)
<1> DEFINE u == s.table
           h == s.hand
           b == u[p]
           v == Visit(s, p, new)
<1>1. /\ Table(t, n) /\ Table(u, n) /\ Robin(u, n) /\ n \in Nat /\ n >= 2 /\ s \in State(n) /\ ~s.found
      /\ e.key \in Keys
  BY TableIs, BucketIs DEF Going, Robin
<1>2. /\ p \in 0 .. n - 1
      /\ \A q \in 0 .. n - 1 : Ring(n, q + 1) = p /\ d > 0 => q = Spot(n, e, d - 1)
      /\ d + 1 < n => Ring(n, p + 1) = Spot(n, e, d + 1)
      /\ \A j \in 0 .. n - 1 : Spot(n, e, j) = p => j = d
      /\ \A j \in 0 .. n - 1 : Spot(n, e, j) \in 0 .. n - 1
  <2>1. n \in Nat /\ n >= 2 /\ e.key \in Keys /\ d \in 0 .. n - 1 BY <1>1
  <2>2. /\ Spot(n, e, d) \in 0 .. n - 1
        /\ \A q \in 0 .. n - 1 : Ring(n, q + 1) = Spot(n, e, d) /\ d > 0 => q = Spot(n, e, d - 1)
        /\ d + 1 < n => Ring(n, Spot(n, e, d) + 1) = Spot(n, e, d + 1)
        /\ \A j \in 0 .. n - 1 : Spot(n, e, j) = Spot(n, e, d) => j = d
    BY ONLY <2>1, SpotIn
  <2>3. ASSUME NEW j \in 0 .. n - 1 PROVE Spot(n, e, j) \in 0 .. n - 1 BY ONLY <2>1, <2>3, SpotIn
  <2> QED BY <2>2, <2>3
<1>3. v \in State(n) BY <1>1, <1>2, VisitState
<1>4. CASE h = Empty
  <2>1. v = s BY <1>1, <1>2, <1>4, Visits
  <2> QED BY <1>4, <2>1 DEF Going
<1>5. CASE h # Empty
  <2>1. Carrying(h, u, t, n, e, d) BY <1>5 DEF Going
  <2>2. b = t[p] /\ b \in Bucket /\ b.dib \in Nat /\ h \in Bucket /\ h.dib # 0 /\ h.dib \in 1 .. d + 1
    BY <1>1, <1>2, <1>5, <2>1, TableIs, BucketIs DEF Carrying, State
  <2>3. Ring(n, Home(n, h.key) + h.dib - 1) = p /\ NotIn(h.key, u, n) /\ Home(n, h.key) \in 0 .. n - 1
    BY <1>1, <2>1, <2>2, BucketIs, HomeIn DEF Carrying
  <2>4. \A q \in 0 .. n - 1 : Ring(n, q + 1) = p => h.dib <= u[q].dib + 1
    <3> SUFFICES ASSUME NEW q \in 0 .. n - 1, Ring(n, q + 1) = p PROVE h.dib <= u[q].dib + 1 OBVIOUS
    <3>1. u[q].dib \in Nat BY <1>1, TableIs
    <3>2. CASE d = 0 BY <2>2, <3>1, <3>2
    <3>3. CASE d > 0 BY <1>2, <2>1, <3>3 DEF Carrying
    <3> QED BY <3>2, <3>3
  <2>5. ~(b # Empty /\ b.key = new.key) BY <1>2, <2>2, BucketIs, HashAssumption DEF NotIn
  <2>6. h.dib \in 1 .. n BY <1>1, <2>2
  <2>a. b # Empty => ~(b.key = new.key /\ Hash[b.key] = Hash[h.key]) BY <2>5
  <2>b. ASSUME b.dib < h.dib
        PROVE  /\ Robin(Put(u, p, h), n) /\ Used(Put(u, p, h)) = Used(u) \cup {p}
               /\ b.dib = 0 => Pairs(Put(u, p, h)) = Pairs(u) \cup {Pair(h)}
               /\ b.dib # 0 => /\ Pairs(Put(u, p, h)) \cup {Pair(b)} = Pairs(u) \cup {Pair(h)}
                               /\ NotIn(b.key, Put(u, p, h), n)
    <3>1. /\ Robin(u, n) /\ p \in 0 .. n - 1 /\ h \in Bucket /\ h.dib \in 1 .. n
          /\ Ring(n, Home(n, h.key) + h.dib - 1) = p /\ NotIn(h.key, u, n) /\ u[p].dib < h.dib
      BY <1>1, <1>2, <2>2, <2>3, <2>6, <2>b
    <3> HIDE DEF u, h
    <3> QED BY <2>4, <3>1, Replaced
  <2>7. CASE b = Empty
    <3>1. v.table = Put(u, p, h) /\ v.hand = Empty /\ ~v.found BY <1>1, <1>2, <1>5, <2>7, Visits
    <3>2. b.dib = 0 /\ b.dib < h.dib BY <2>2, <2>7, BucketIs
    <3>3. Robin(v.table, n) /\ Used(v.table) = Used(u) \cup {p} /\ Pairs(v.table) = Pairs(u) \cup {Pair(h)}
      BY <2>b, <3>1, <3>2
    <3>4. Settled(v.table, t, n, e) BY <1>2, <2>1, <2>2, <3>2, <3>3 DEF Settled, Carrying
    <3> QED BY <1>3, <3>1, <3>3, <3>4 DEF Going
  <2>8. CASE b # Empty /\ b.dib < h.dib
    <3>1. v.table = Put(u, p, h) /\ v.hand = Further(b) /\ ~v.found BY <1>1, <1>2, <1>5, <2>a, <2>8, Visits
    <3>2. b.dib # 0 BY <2>2, <2>8, BucketIs
    <3>3. /\ Robin(v.table, n) /\ Used(v.table) = Used(u) \cup {p}
          /\ Pairs(v.table) \cup {Pair(b)} = Pairs(u) \cup {Pair(h)} /\ NotIn(b.key, v.table, n)
      BY <2>8, <2>b, <3>1, <3>2
    <3>4. /\ v.hand \in Bucket /\ v.hand.key = b.key /\ v.hand.val = b.val /\ v.hand.dib = b.dib + 1
          /\ v.hand # Empty
      BY <2>2, <3>1, <3>2, OneFurther
    <3>5. p \in Used(t) /\ Used(v.table) = Used(t) /\ t[p].dib # 0
      BY <1>1, <1>2, <2>1, <2>2, <3>2, <3>3, TableIs DEF Carrying
    <3>6. v.hand.dib \in 1 .. (d + 1) + 1 /\ b.dib <= d BY <2>2, <2>8, <3>4
    <3>7. \A j \in 0 .. n - 1 : IF j < d + 1 THEN t[Spot(n, e, j)].dib # 0
                                ELSE v.table[Spot(n, e, j)] = t[Spot(n, e, j)]
      <4> SUFFICES ASSUME NEW j \in 0 .. n - 1
                   PROVE IF j < d + 1 THEN t[Spot(n, e, j)].dib # 0 ELSE v.table[Spot(n, e, j)] = t[Spot(n, e, j)]
        OBVIOUS
      <4>1. CASE j = d BY <3>5, <4>1
      <4>2. CASE j # d
        <5>1. v.table[Spot(n, e, j)] = u[Spot(n, e, j)] BY <1>1, <1>2, <3>1, <4>2, TableIs DEF Put
        <5>2. IF j < d THEN t[Spot(n, e, j)].dib # 0 ELSE u[Spot(n, e, j)] = t[Spot(n, e, j)] BY <2>1 DEF Carrying
        <5>3. j < d + 1 <=> j < d BY <4>2
        <5> QED BY <5>1, <5>2, <5>3
      <4> QED BY <4>1, <4>2
    <3>8. d + 1 < n => Ring(n, Home(n, v.hand.key) + v.hand.dib - 1) = Spot(n, e, d + 1)
      <4>1. Home(n, b.key) \in 0 .. n - 1 /\ Ring(n, Home(n, b.key) + b.dib - 1) = p
        BY <1>1, <1>2, <2>2, <3>2, BucketIs, HomeIn DEF Robin, Homes
      <4> DEFINE w == Home(n, b.key)
                 m == b.dib
      <4>2. w \in 0 .. n - 1 /\ m \in Nat /\ m # 0 /\ m <= d /\ v.hand.dib = m + 1 /\ Home(n, v.hand.key) = w
        BY <2>2, <3>2, <3>4, <3>6, <4>1
      <4> HIDE DEF w, m
      <4>3. w + m - 1 \in 0 .. 2 * n - 2 /\ w + m - 1 + 1 = w + (m + 1) - 1 BY <1>1, <4>2
      <4>4. Ring(n, Ring(n, w + m - 1) + 1) = Ring(n, w + (m + 1) - 1) BY <1>1, <4>3, RingNext
      <4>5. Ring(n, w + m - 1) = p BY <4>1 DEF w, m
      <4> QED BY <1>2, <4>2, <4>4, <4>5
    <3>9. d + 1 > 0 => v.hand.dib <= v.table[Spot(n, e, (d + 1) - 1)].dib + 1
      <4>1. (d + 1) - 1 = d /\ v.table[p] = h BY <1>1, <1>2, <3>1, TableIs DEF Put
      <4> QED BY <2>2, <2>8, <3>4, <4>1
    <3>10. Pairs(v.table) \cup {Pair(v.hand)} = Pairs(t) \cup {Pair(e)} BY <2>1, <3>3, <3>4 DEF Carrying, Pair
    <3>11. Carrying(v.hand, v.table, t, n, e, d + 1)
      BY <3>3, <3>4, <3>5, <3>6, <3>7, <3>8, <3>9, <3>10 DEF Carrying
    <3> QED BY <1>3, <3>1, <3>3, <3>4, <3>11 DEF Going
  <2>9. CASE b # Empty /\ ~(b.dib < h.dib)
    <3>1. v.table = u /\ v.hand = Further(h) /\ ~v.found
      <4>1. n \in Nat /\ s \in State(n) /\ p \in 0 .. n - 1 /\ ~s.found BY <1>1, <1>2
      <4>2. h # Empty /\ b # Empty /\ ~(b.key = new.key /\ Hash[b.key] = Hash[h.key]) /\ ~(b.dib < h.dib)
        BY <1>5, <2>a, <2>9
      <4> QED BY <4>1, <4>2, Visits
    <3>2. v.hand.key = h.key /\ v.hand.val = h.val /\ v.hand.dib = h.dib + 1 /\ v.hand # Empty
      BY <2>2, <3>1, OneFurther
    <3>3. v.hand.dib \in 1 .. (d + 1) + 1 BY <2>2, <3>2
    <3>4. \A j \in 0 .. n - 1 : IF j < d + 1 THEN t[Spot(n, e, j)].dib # 0
                                ELSE v.table[Spot(n, e, j)] = t[Spot(n, e, j)]
      <4> SUFFICES ASSUME NEW j \in 0 .. n - 1
                   PROVE IF j < d + 1 THEN t[Spot(n, e, j)].dib # 0 ELSE v.table[Spot(n, e, j)] = t[Spot(n, e, j)]
        OBVIOUS
      <4>1. t[p].dib # 0 BY <2>2, <2>9, BucketIs
      <4>2. IF j < d THEN t[Spot(n, e, j)].dib # 0 ELSE u[Spot(n, e, j)] = t[Spot(n, e, j)] BY <2>1 DEF Carrying
      <4>3. j < d + 1 <=> j < d \/ j = d OBVIOUS
      <4> QED BY <3>1, <4>1, <4>2, <4>3
    <3>5. d + 1 < n => Ring(n, Home(n, v.hand.key) + v.hand.dib - 1) = Spot(n, e, d + 1)
      <4> DEFINE w == Home(n, h.key)
                 m == h.dib
      <4>1. w \in 0 .. n - 1 /\ m \in Nat /\ m # 0 /\ m <= d + 1 /\ v.hand.dib = m + 1 /\ Home(n, v.hand.key) = w
        BY <2>2, <2>3, <3>2
      <4>2. Ring(n, w + m - 1) = p BY <2>3
      <4> HIDE DEF w, m
      <4>3. w + m - 1 \in 0 .. 2 * n - 2 /\ w + m - 1 + 1 = w + (m + 1) - 1 BY <1>1, <4>1
      <4>4. Ring(n, Ring(n, w + m - 1) + 1) = Ring(n, w + (m + 1) - 1) BY <1>1, <4>3, RingNext
      <4> QED BY <1>2, <4>1, <4>2, <4>4
    <3>6. d + 1 > 0 => v.hand.dib <= v.table[Spot(n, e, (d + 1) - 1)].dib + 1
      <4>1. (d + 1) - 1 = d OBVIOUS
      <4> QED BY <2>2, <2>9, <3>1, <3>2, <4>1
    <3>7. Carrying(v.hand, v.table, t, n, e, d + 1)
      BY <2>1, <2>3, <3>1, <3>2, <3>3, <3>4, <3>5, <3>6 DEF Carrying, Pair
    <3> QED BY <1>1, <1>3, <3>1, <3>2, <3>7 DEF Going
  <2> QED BY <2>7, <2>8, <2>9
<1> QED BY <1>4, <1>5

\* A new entry finds its place, and moves the others so that all is in order.
LEMMA InsertNew ==
  ASSUME NEW n, NEW t, Robin(t, n), Room(t, n), NEW e \in Bucket, e.dib # 0, NotIn(e.key, t, n),
         NEW new, new.key \in {None, e.key}, new.val \in Values \cup {None}
  PROVE  LET s == Insertion(t, e, new) IN
         s.table \in [0 .. n - 1 -> Bucket] /\ Robin(s.table, n) /\ ~s.found /\ Settled(s.table, t, n, e)
<1>1. Table(t, n) /\ n \in Nat /\ n >= 2 /\ Size(t) = n /\ e.key \in Keys BY TableIs, BucketIs DEF Robin
<1>2. PICK R : /\ R[0] = [table |-> t, hand |-> [e EXCEPT !.dib = 1], found |-> FALSE]
               /\ \A d \in 0 .. n - 1 : R[d + 1] = Visit(R[d], At(t, e.key, d), new)
               /\ Insertion(t, e, new) = R[n]
  BY <1>1, Rounds
<1> DEFINE Sound == {d \in Nat : d <= n => Going(R[d], t, n, e, d)}
<1>3. 0 \in Sound
  <2> DEFINE h == [e EXCEPT !.dib = 1]
  <2>1. e \in [key : Keys, val : Values \cup {None}, dib : Nat \ {0}] BY BucketIs
  <2>2. /\ h \in [key : Keys, val : Values \cup {None}, dib : Nat \ {0}]
        /\ h.key = e.key /\ h.val = e.val /\ h.dib = 1
    BY <2>1
  <2>3. h \in Bucket BY <2>2 DEF Bucket
  <2>4. R[0].table = t /\ R[0].hand = h /\ ~R[0].found /\ R[0] \in State(n) BY <1>1, <1>2, <2>3 DEF State, Table
  <2> HIDE DEF h
  <2>5. h # Empty BY <2>2, <2>3, BucketIs
  <2>6. Home(n, e.key) \in 0 .. n - 1 BY <1>1, HomeIn
  <2>7. Ring(n, Home(n, h.key) + h.dib - 1) = Spot(n, e, 0)
    <3>1. Home(n, e.key) + 1 - 1 = Home(n, e.key) + 0 BY <2>6
    <3> QED BY <2>2, <3>1 DEF Spot
  <2>8. Carrying(h, t, t, n, e, 0) BY <1>1, <2>2, <2>7 DEF Carrying, Pair
  <2> QED BY <2>4, <2>5, <2>8 DEF Going
<1>4. ASSUME NEW d \in Nat, d \in Sound
      PROVE  d + 1 \in Sound
  <2> SUFFICES ASSUME d + 1 <= n PROVE Going(R[d + 1], t, n, e, d + 1) OBVIOUS
  <2>1. d \in 0 .. n - 1 /\ Going(R[d], t, n, e, d) BY <1>1, <1>4
  <2>2. At(t, e.key, d) = Spot(n, e, d) BY <1>1, <2>1, ProbeAt DEF Spot
  <2>3. R[d + 1] = Visit(R[d], Spot(n, e, d), new) BY <1>2, <2>1, <2>2
  <2> QED BY <2>1, <2>3, GoingStep
<1> HIDE DEF Sound
<1>5. \A d \in Nat : d \in Sound BY <1>3, <1>4, Induct
<1>6. Going(R[n], t, n, e, n) BY <1>1, <1>5 DEF Sound
<1>7. R[n].hand = Empty
  <2> SUFFICES ASSUME R[n].hand # Empty PROVE FALSE OBVIOUS
  <2>1. Carrying(R[n].hand, R[n].table, t, n, e, n) BY <1>6 DEF Going
  <2>2. PICK x \in 0 .. n - 1 : t[x].dib = 0 BY DEF Room
  <2>3. PICK d \in 0 .. n - 1 : x = Spot(n, e, d) BY <1>1, SpotsAll
  <2>4. d < n BY <1>1
  <2>5. t[Spot(n, e, d)].dib # 0 BY <2>1, <2>4 DEF Carrying
  <2> QED BY <2>2, <2>3, <2>5
<1>8. R[n].table \in [0 .. n - 1 -> Bucket] BY <1>6 DEF Going, State
<1> QED BY <1>2, <1>6, <1>7, <1>8 DEF Going

\* With a key that is there, the search comes to its entry with the new one in hand.
LEMMA InsertFound ==
  ASSUME NEW n, NEW t, Robin(t, n), NEW q \in 0 .. n - 1, t[q].dib # 0, NEW e \in Bucket, e.dib # 0, e.key = t[q].key
  PROVE  LET s == Insertion(t, e, e) IN s.table = Put(t, q, Valued(t[q], e.val)) /\ s.found
<1> DEFINE m == t[q].dib
           w == Put(t, q, Valued(t[q], e.val))
           Sought(s, d) ==
             /\ s \in State(n)
             /\ d < m => s.table = t /\ ~s.found /\ s.hand # Empty /\ s.hand.key = e.key /\ s.hand.dib = d + 1
             /\ ~(d < m) => s.table = w /\ s.found /\ s.hand = Empty
<1>1. /\ Table(t, n) /\ n \in Nat /\ n >= 2 /\ Size(t) = n /\ e.key \in Keys /\ e.val \in Values \cup {None}
      /\ m \in 1 .. n /\ \A d \in 0 .. m - 1 : t[Spot(n, e, d)].dib >= d + 1
  BY TableIs, BucketIs, Backwards DEF Robin, Spot
<1>2. PICK R : /\ R[0] = [table |-> t, hand |-> [e EXCEPT !.dib = 1], found |-> FALSE]
               /\ \A d \in 0 .. n - 1 : R[d + 1] = Visit(R[d], At(t, e.key, d), e)
               /\ Insertion(t, e, e) = R[n]
  BY <1>1, Rounds
<1>3. Spot(n, e, m - 1) = q
  <2>1. Home(n, e.key) \in 0 .. n - 1 /\ Ring(n, Home(n, e.key) + m - 1) = q BY <1>1, HomeIn DEF Robin, Homes
  <2>2. Home(n, e.key) + m - 1 = Home(n, e.key) + (m - 1) BY <1>1, <2>1
  <2> QED BY <2>1, <2>2 DEF Spot
<1> DEFINE Sound == {d \in Nat : d <= n => Sought(R[d], d)}
<1>4. 0 \in Sound
  <2> DEFINE h == [e EXCEPT !.dib = 1]
  <2>1. e \in [key : Keys, val : Values \cup {None}, dib : Nat \ {0}] BY BucketIs
  <2>2. /\ h \in [key : Keys, val : Values \cup {None}, dib : Nat \ {0}]
        /\ h.key = e.key /\ h.val = e.val /\ h.dib = 1
    BY <2>1
  <2>3. h \in Bucket BY <2>2 DEF Bucket
  <2>4. R[0].table = t /\ R[0].hand = h /\ ~R[0].found /\ R[0] \in State(n) BY <1>1, <1>2, <2>3 DEF State, Table
  <2> HIDE DEF h
  <2>5. h # Empty BY <2>2, <2>3, BucketIs
  <2>6. 0 < m /\ h.dib = 0 + 1 BY <1>1, <2>2
  <2> QED BY <2>2, <2>4, <2>5, <2>6
<1>5. ASSUME NEW d \in Nat, d \in Sound
      PROVE  d + 1 \in Sound
  <2> SUFFICES ASSUME d + 1 <= n PROVE Sought(R[d + 1], d + 1) OBVIOUS
  <2> DEFINE p == Spot(n, e, d)
             s == R[d]
             v == R[d + 1]
  <2>1. d \in 0 .. n - 1 /\ Sought(s, d) BY <1>1, <1>5
  <2>2. p \in 0 .. n - 1 /\ At(t, e.key, d) = p BY <1>1, <2>1, ProbeAt DEF Spot
  <2>3. v = Visit(s, p, e) /\ s \in State(n) BY <1>2, <2>1, <2>2
  <2>4. v \in State(n) BY <1>1, <2>2, <2>3, VisitState
  <2> HIDE DEF p, s, v
  <2>5. CASE ~(d < m)
    <3>1. s.table = w /\ s.found /\ s.hand = Empty /\ ~(d + 1 < m) BY <1>1, <2>1, <2>5
    <3>2. v = s BY <1>1, <2>2, <2>3, <3>1, Visits
    <3> HIDE DEF w
    <3> QED BY <2>4, <3>1, <3>2 DEF v
  <2>6. CASE d < m
    <3>1. /\ s.table = t /\ ~s.found /\ s.hand # Empty /\ s.hand.key = e.key /\ s.hand.dib = d + 1
          /\ d \in 0 .. m - 1
      BY <1>1, <2>1, <2>6
    <3>2. t[p] \in Bucket /\ t[p].dib >= d + 1 /\ t[p].dib \in Nat BY <1>1, <2>2, <3>1, TableIs DEF p
    <3>3. t[p].dib # 0 /\ t[p] # Empty /\ ~(t[p].dib < s.hand.dib) BY <3>1, <3>2, BucketIs
    <3>4. CASE d = m - 1
      <4>1. p = q /\ ~(d + 1 < m) BY <1>1, <1>3, <3>4 DEF p
      <4>2. s.table[p].key = e.key /\ Hash[s.table[p].key] = Hash[s.hand.key] /\ s.table[p] # Empty
        BY <3>1, <3>3, <4>1
      <4>3. v.table = Put(s.table, p, Valued(s.table[p], e.val)) /\ v.hand = Empty /\ v.found
        BY <1>1, <2>2, <2>3, <3>1, <4>2, Visits
      <4>4. v.table = w BY <3>1, <4>1, <4>3
      <4> HIDE DEF w
      <4> QED BY <2>4, <4>1, <4>3, <4>4 DEF v
    <3>5. CASE d # m - 1
      <4>1. d + 1 < m /\ p # q
        <5>1. d + 1 < m /\ m - 1 \in 0 .. n - 1 BY <1>1, <3>1, <3>5
        <5>2. \A j \in 0 .. n - 1 : Spot(n, e, j) = Spot(n, e, d) => j = d BY <1>1, <2>1, SpotIn
        <5> QED BY <1>3, <3>5, <5>1, <5>2 DEF p
      <4>2. t[p].key # e.key BY <2>2, <3>3, <4>1 DEF Robin, Once
      <4>3. v.table = s.table /\ v.hand = Further(s.hand) /\ (v.found <=> s.found)
        BY <1>1, <2>2, <2>3, <3>1, <3>3, <4>2, Visits
      <4>4. s.hand \in Bucket /\ s.hand.dib # 0 BY <1>1, <2>3, <3>1 DEF State
      <4>5. v.hand # Empty /\ v.hand.key = e.key /\ v.hand.dib = (d + 1) + 1 BY <3>1, <4>3, <4>4, OneFurther
      <4> HIDE DEF w, m
      <4> QED BY <2>4, <3>1, <4>1, <4>3, <4>5 DEF v
    <3> QED BY <3>4, <3>5
  <2> QED BY <2>5, <2>6
<1> HIDE DEF Sound
<1>6. \A d \in Nat : d \in Sound BY <1>4, <1>5, Induct
<1>7. Sought(R[n], n) /\ ~(n < m) BY <1>1, <1>6 DEF Sound
<1> QED BY <1>2, <1>7

LEMMA NotInPairs ==
  ASSUME NEW n, NEW t, Table(t, n), NEW k
  PROVE  NotIn(k, t, n) <=> \A v : <<k, v>> \notin Pairs(t)
<1>1. Used(t) = {i \in 0 .. n - 1 : t[i].dib # 0} BY TableIs
<1>2. ASSUME NotIn(k, t, n), NEW v, <<k, v>> \in Pairs(t)
      PROVE  FALSE
  <2>1. PICK i \in Used(t) : <<k, v>> = <<t[i].key, t[i].val>> BY <1>2 DEF Pairs
  <2>2. k = t[i].key BY <2>1
  <2> QED BY <1>1, <1>2, <2>1, <2>2 DEF NotIn
<1>3. ASSUME \A v : <<k, v>> \notin Pairs(t), NEW i \in 0 .. n - 1, t[i].dib # 0, t[i].key = k
      PROVE  FALSE
  <2>1. i \in Used(t) BY <1>1, <1>3
  <2>2. <<t[i].key, t[i].val>> \in Pairs(t) BY <2>1 DEF Pairs
  <2> QED BY <1>3, <2>2
<1> QED BY <1>2, <1>3 DEF NotIn

LEMMA ProperSubset ==
  ASSUME NEW S, IsFiniteSet(S), NEW T, T \subseteq S, T # S
  PROVE  Cardinality(T) < Cardinality(S)
<1>1. Cardinality(T) <= Cardinality(S) /\ (Cardinality(S) = Cardinality(T) => S = T) /\ IsFiniteSet(T)
  BY FS_Subset
<1>2. Cardinality(T) \in Nat /\ Cardinality(S) \in Nat BY <1>1, FS_CardinalityType
<1> QED BY <1>1, <1>2

LEMMA RoomLeft ==
  ASSUME NEW n, NEW t, Table(t, n)
  PROVE  /\ Cardinality(Used(t)) \in Nat /\ Cardinality(Used(t)) <= n
         /\ Room(t, n) <=> Cardinality(Used(t)) < n
<1>1. n \in Nat /\ Used(t) = {i \in 0 .. n - 1 : t[i].dib # 0} /\ IsFiniteSet(Used(t)) /\ Used(t) \subseteq 0 .. n - 1
  BY TableIs
<1>2. IsFiniteSet(0 .. n - 1) /\ Cardinality(0 .. n - 1) = n BY <1>1, FS_Interval
<1>3. Cardinality(Used(t)) \in Nat /\ Cardinality(Used(t)) <= n BY <1>1, <1>2, FS_Subset, FS_CardinalityType
<1>4. ASSUME Used(t) # 0 .. n - 1 PROVE Cardinality(Used(t)) < n
  <2>1. Cardinality(Used(t)) < Cardinality(0 .. n - 1) BY <1>1, <1>2, <1>4, ProperSubset
  <2> QED BY <1>2, <2>1
<1>6. ASSUME Used(t) = 0 .. n - 1 PROVE ~(Cardinality(Used(t)) < n)
  <2>1. Cardinality(Used(t)) = n BY ONLY <1>2, <1>6
  <2> QED BY <1>1, <2>1
<1>5. Room(t, n) <=> Used(t) # 0 .. n - 1 BY <1>1 DEF Room
<1>7. Room(t, n) <=> Cardinality(Used(t)) < n BY <1>4, <1>5, <1>6
<1> QED BY <1>3, <1>7

LEMMA PlacedIn ==
  ASSUME NEW n, NEW t, Robin(t, n), Cardinality(Used(t)) < n, NEW e \in Bucket, e.dib # 0, NotIn(e.key, t, n),
         NEW new, new.key \in {None, e.key}, new.val \in Values \cup {None}
  PROVE  LET s == Insertion(t, e, new) IN
         /\ Robin(s.table, n) /\ ~s.found
         /\ Cardinality(Used(s.table)) = Cardinality(Used(t)) + 1 /\ Pairs(s.table) = Pairs(t) \cup {Pair(e)}
<1> DEFINE s == Insertion(t, e, new)
<1>1. Table(t, n) /\ Room(t, n) BY RoomLeft DEF Robin
<1>2. Robin(s.table, n) /\ ~s.found /\ Settled(s.table, t, n, e) BY <1>1, InsertNew
<1> HIDE DEF s
<1>3. PICK x \in 0 .. n - 1 : t[x].dib = 0 /\ Used(s.table) = Used(t) \cup {x} BY <1>2 DEF Settled
<1>4. x \notin Used(t) /\ IsFiniteSet(Used(t)) BY <1>1, <1>3, TableIs
<1>5. Cardinality(Used(s.table)) = Cardinality(Used(t)) + 1 BY <1>3, <1>4, FS_AddElement
<1> QED BY <1>2, <1>5 DEF Settled, s

LEMMA Places ==
  ASSUME NEW n, NEW t, Robin(t, n), Cardinality(Used(t)) < n, NEW e \in Bucket, e.dib # 0, NotIn(e.key, t, n)
  PROVE  LET u == Placed(t, e) IN
         /\ Robin(u, n)
         /\ Cardinality(Used(u)) = Cardinality(Used(t)) + 1 /\ Pairs(u) = Pairs(t) \cup {Pair(e)}
<1>1. Empty.key = None /\ Empty.val = None BY DEF Empty
<1> QED BY <1>1, PlacedIn DEF Placed

LEMMA NoEntries ==
  ASSUME NEW n \in Nat, n >= 2
  PROVE  LET t == EmptyTable(n) IN
         /\ Robin(t, n) /\ Used(t) = {} /\ Cardinality(Used(t)) = 0 /\ Pairs(t) = {} /\ Size(t) = n
<1> DEFINE t == EmptyTable(n)
<1>1. Empty \in Bucket /\ Empty.dib = 0 BY DEF Bucket, Empty
<1>2. t \in [0 .. n - 1 -> Bucket] /\ \A i \in 0 .. n - 1 : t[i] = Empty BY <1>1 DEF EmptyTable
<1> HIDE DEF t
<1>3. Table(t, n) /\ \A i \in 0 .. n - 1 : t[i].dib = 0 BY <1>1, <1>2 DEF Table
<1>4. Used(t) = {} BY <1>3, TableIs
<1>5. Stepwise(t, n)
  <2>1. \A i \in 0 .. n - 1 : Ring(n, i + 1) \in 0 .. n - 1 BY DEF Ring
  <2> QED BY <1>3, <2>1 DEF Stepwise
<1>6. Robin(t, n) BY <1>3, <1>5 DEF Robin, Homes, Once
<1>7. Cardinality(Used(t)) = 0 /\ Pairs(t) = {} /\ Size(t) = n BY <1>3, <1>4, FS_EmptySet, TableIs DEF Pairs
<1> QED BY <1>4, <1>6, <1>7 DEF t

\* The moves of one table's entries into another exist.
LEMMA EntryMoves ==
  ASSUME NEW n \in Nat, NEW t, Size(t) = n, NEW m
  PROVE  \E R : /\ R[0] = EmptyTable(m)
                /\ \A i \in 0 .. n - 1 : R[i + 1] = IF t[i].dib = 0 THEN R[i] ELSE Placed(R[i], t[i])
                /\ Rehashed(t, m) = R[n]
<1> DEFINE start == EmptyTable(m)
           Run(f, w) == [i \in 0 .. w |-> IF i = 0 THEN start
                           ELSE IF t[i - 1].dib = 0 THEN f[i - 1] ELSE Placed(f[i - 1], t[i - 1])]
           Some == {w \in Nat : \E f : f = Run(f, w)}
<1>1. \A w \in Nat : w \in Some
  <2>1. 0 \in Some
    <3>1. [i \in 0 .. 0 |-> start] = Run([i \in 0 .. 0 |-> start], 0) OBVIOUS
    <3> QED BY <3>1
  <2>2. ASSUME NEW w \in Nat, w \in Some
        PROVE  w + 1 \in Some
    <3>1. PICK f : f = Run(f, w) BY <2>2
    <3> DEFINE last == IF t[w].dib = 0 THEN f[w] ELSE Placed(f[w], t[w])
               g == [i \in 0 .. w + 1 |-> IF i = w + 1 THEN last ELSE f[i]]
    <3> HIDE DEF start
    <3>2. \A i \in 0 .. w : f[i] = IF i = 0 THEN start
                                   ELSE IF t[i - 1].dib = 0 THEN f[i - 1] ELSE Placed(f[i - 1], t[i - 1])
      BY <3>1
    <3>3. \A i \in 0 .. w + 1 : g[i] = IF i = 0 THEN start
                                       ELSE IF t[i - 1].dib = 0 THEN g[i - 1] ELSE Placed(g[i - 1], t[i - 1])
      BY <3>2
    <3>4. g = Run(g, w + 1)
      <4> HIDE DEF g
      <4>1. g = [i \in 0 .. w + 1 |-> g[i]] BY DEF g
      <4> QED BY <3>3, <4>1
    <3>5. \E h : h = Run(h, w + 1)
      <4> HIDE DEF g
      <4> QED BY <3>4
    <3> QED BY <3>5
  <2> HIDE DEF Some
  <2> QED BY <2>1, <2>2, Induct
<1> DEFINE R == CHOOSE f : f = Run(f, n)
<1>2. R = Run(R, n) BY <1>1
<1>3. Rehashed(t, m) = R[n] BY DEF Rehashed
<1>4. /\ R[0] = start
      /\ \A i \in 0 .. n - 1 : R[i + 1] = IF t[i].dib = 0 THEN R[i] ELSE Placed(R[i], t[i])
  <2> HIDE DEF R, start
  <2> QED BY <1>2
<1> QED BY <1>3, <1>4

\* The entries of the first buckets.
Ahead(t, i) == {j \in Used(t) : j < i}
AheadPairs(t, i) == {<<t[j].key, t[j].val>> : j \in Ahead(t, i)}

LEMMA AheadGrows ==
  ASSUME NEW n, NEW t, Table(t, n)
  PROVE  /\ Ahead(t, 0) = {} /\ AheadPairs(t, 0) = {} /\ Ahead(t, n) = Used(t) /\ AheadPairs(t, n) = Pairs(t)
         /\ \A i \in 0 .. n - 1 :
              /\ IsFiniteSet(Ahead(t, i)) /\ Cardinality(Ahead(t, i)) \in Nat
              /\ t[i].dib = 0 => Ahead(t, i + 1) = Ahead(t, i) /\ AheadPairs(t, i + 1) = AheadPairs(t, i)
              /\ t[i].dib # 0 => /\ Cardinality(Ahead(t, i + 1)) = Cardinality(Ahead(t, i)) + 1
                                /\ AheadPairs(t, i + 1) = AheadPairs(t, i) \cup {Pair(t[i])}
                                /\ Cardinality(Ahead(t, i)) < Cardinality(Used(t))
<1>1. /\ n \in Nat /\ IsFiniteSet(Used(t)) /\ Used(t) = {i \in 0 .. n - 1 : t[i].dib # 0}
      /\ Cardinality(Used(t)) \in Nat
  BY TableIs, RoomLeft
<1>2. Ahead(t, 0) = {} /\ Ahead(t, n) = Used(t) BY <1>1 DEF Ahead
<1>3. AheadPairs(t, 0) = {} /\ AheadPairs(t, n) = Pairs(t) BY <1>2 DEF AheadPairs, Pairs
<1>4. ASSUME NEW i \in 0 .. n - 1
      PROVE  IsFiniteSet(Ahead(t, i)) /\ Cardinality(Ahead(t, i)) \in Nat
  <2>1. Ahead(t, i) \subseteq Used(t) BY DEF Ahead
  <2> QED BY <1>1, <2>1, FS_Subset, FS_CardinalityType
<1>5. ASSUME NEW i \in 0 .. n - 1, t[i].dib = 0
      PROVE  Ahead(t, i + 1) = Ahead(t, i) /\ AheadPairs(t, i + 1) = AheadPairs(t, i)
  <2>1. Ahead(t, i + 1) = Ahead(t, i) BY <1>1, <1>5 DEF Ahead
  <2> QED BY <2>1 DEF AheadPairs
<1>6. ASSUME NEW i \in 0 .. n - 1, t[i].dib # 0
      PROVE  /\ Cardinality(Ahead(t, i + 1)) = Cardinality(Ahead(t, i)) + 1
             /\ AheadPairs(t, i + 1) = AheadPairs(t, i) \cup {Pair(t[i])}
             /\ Cardinality(Ahead(t, i)) < Cardinality(Used(t))
  <2>1. Ahead(t, i + 1) = Ahead(t, i) \cup {i} /\ i \notin Ahead(t, i) BY <1>1, <1>6 DEF Ahead
  <2>2. Cardinality(Ahead(t, i + 1)) = Cardinality(Ahead(t, i)) + 1 BY <1>4, <2>1, FS_AddElement
  <2>3. AheadPairs(t, i + 1) = AheadPairs(t, i) \cup {Pair(t[i])} BY <2>1 DEF AheadPairs, Pair
  <2>4. Ahead(t, i) \subseteq Used(t) /\ Ahead(t, i) # Used(t) BY <1>1, <1>6 DEF Ahead
  <2>5. Cardinality(Ahead(t, i)) < Cardinality(Used(t)) BY <1>1, <2>4, ProperSubset
  <2> QED BY <2>2, <2>3, <2>5
<1> QED BY <1>2, <1>3, <1>4, <1>5, <1>6

\* An entry of t is not among those in front of it.
LEMMA AheadApart ==
  ASSUME NEW n, NEW t, Table(t, n), Once(t, n), NEW i \in 0 .. n - 1, t[i].dib # 0,
         NEW m, NEW u, Table(u, m), Pairs(u) \subseteq AheadPairs(t, i)
  PROVE  NotIn(t[i].key, u, m)
<1>1. ASSUME NEW v, <<t[i].key, v>> \in Pairs(u)
      PROVE  FALSE
  <2>1. PICK j \in Ahead(t, i) : <<t[i].key, v>> = <<t[j].key, t[j].val>> BY <1>1 DEF AheadPairs
  <2>2. t[i].key = t[j].key BY <2>1
  <2>3. j \in 0 .. n - 1 /\ t[j].dib # 0 /\ j < i BY TableIs DEF Ahead
  <2> QED BY <2>2, <2>3 DEF Once
<1> QED BY <1>1, NotInPairs

\* Moving the entries into a table that has room for them neither loses nor adds one.
LEMMA RehashedIs ==
  ASSUME NEW n, NEW t, Table(t, n), Once(t, n), NEW m \in Nat, m >= 2, Cardinality(Used(t)) < m
  PROVE  LET u == Rehashed(t, m) IN
         Robin(u, m) /\ Cardinality(Used(u)) = Cardinality(Used(t)) /\ Pairs(u) = Pairs(t)
<1>1. n \in Nat /\ Size(t) = n /\ Cardinality(Used(t)) \in Nat /\ \A i \in 0 .. n - 1 : t[i] \in Bucket
  BY TableIs, RoomLeft
<1>2. PICK R : /\ R[0] = EmptyTable(m)
               /\ \A i \in 0 .. n - 1 : R[i + 1] = IF t[i].dib = 0 THEN R[i] ELSE Placed(R[i], t[i])
               /\ Rehashed(t, m) = R[n]
  BY <1>1, EntryMoves
<1> DEFINE Upto(u, i) == Robin(u, m) /\ Pairs(u) = AheadPairs(t, i) /\ Cardinality(Used(u)) = Cardinality(Ahead(t, i))
           Sound == {i \in Nat : i <= n => Upto(R[i], i)}
<1>3. 0 \in Sound
  <2>1. Ahead(t, 0) = {} /\ AheadPairs(t, 0) = {} /\ Cardinality({}) = 0 BY AheadGrows, FS_EmptySet
  <2> QED BY <1>2, <2>1, NoEntries
<1>4. ASSUME NEW i \in Nat, i \in Sound
      PROVE  i + 1 \in Sound
  <2> SUFFICES ASSUME i + 1 <= n PROVE Upto(R[i + 1], i + 1) OBVIOUS
  <2>1. i \in 0 .. n - 1 /\ Upto(R[i], i) BY <1>1, <1>4
  <2>2. CASE t[i].dib = 0
    <3>1. R[i + 1] = R[i] BY <1>2, <2>1, <2>2
    <3>2. Ahead(t, i + 1) = Ahead(t, i) /\ AheadPairs(t, i + 1) = AheadPairs(t, i) BY <2>1, <2>2, AheadGrows
    <3> QED BY <2>1, <3>1, <3>2
  <2>3. CASE t[i].dib # 0
    <3>1. R[i + 1] = Placed(R[i], t[i]) BY <1>2, <2>1, <2>3
    <3>2. /\ Cardinality(Ahead(t, i + 1)) = Cardinality(Ahead(t, i)) + 1
          /\ AheadPairs(t, i + 1) = AheadPairs(t, i) \cup {Pair(t[i])}
          /\ Cardinality(Ahead(t, i)) < Cardinality(Used(t)) /\ Cardinality(Ahead(t, i)) \in Nat
      BY <2>1, <2>3, AheadGrows
    <3>3. Table(R[i], m) /\ Cardinality(Used(R[i])) < m BY <1>1, <2>1, <3>2 DEF Robin
    <3>4. NotIn(t[i].key, R[i], m) BY <2>1, <2>3, <3>3, AheadApart
    <3>5. /\ Robin(Placed(R[i], t[i]), m)
          /\ Cardinality(Used(Placed(R[i], t[i]))) = Cardinality(Used(R[i])) + 1
          /\ Pairs(Placed(R[i], t[i])) = Pairs(R[i]) \cup {Pair(t[i])}
      BY <1>1, <2>1, <2>3, <3>3, <3>4, Places
    <3> QED BY <2>1, <3>1, <3>2, <3>5
  <2> QED BY <2>2, <2>3
<1> HIDE DEF Sound
<1>5. \A i \in Nat : i \in Sound BY <1>3, <1>4, Induct
<1>6. Upto(R[n], n) BY <1>1, <1>5 DEF Sound
<1>7. Ahead(t, n) = Used(t) /\ AheadPairs(t, n) = Pairs(t) BY AheadGrows
<1> QED BY <1>2, <1>6, <1>7

\* Limits are below the size.
LEMMA Quotient ==
  ASSUME NEW n \in Nat \ {0}, NEW p \in 0 .. 99
  PROVE  Percent(n, p) \in Nat /\ Percent(n, p) < n
<1> DEFINE a == n * p
<1>1. a \in Nat /\ a < 100 * n
  <2>1. n * (100 - p) \in Nat \ {0} /\ n * p + n * (100 - p) = 100 * n OBVIOUS
  <2>2. n * p \in Nat OBVIOUS
  <2> QED BY <2>1, <2>2
<1> HIDE DEF a
<1>2. a \div 100 \in Nat /\ a % 100 \in 0 .. 99 /\ a = 100 * (a \div 100) + (a % 100) BY <1>1, Divides
<1>3. a \div 100 < n BY <1>1, <1>2
<1> QED BY <1>2, <1>3 DEF Percent, a

\* What copying does with the entry in bucket i.
Onward(u, t, i, Missed) ==
  LET full == Cardinality(Used(u)) >= Percent(Size(u), GrowAt)
  IN  IF t[i].dib = 0 \/ (full /\ i \in Missed) THEN u
      ELSE Placed(IF full THEN Rehashed(u, 2 * Size(u)) ELSE u, t[i])

LEMMA Copies ==
  ASSUME NEW n \in Nat, NEW t, Size(t) = n, NEW c, NEW Missed
  PROVE  \E R : /\ R[0] = EmptyTable(c)
                /\ \A i \in 0 .. n - 1 : R[i + 1] = Onward(R[i], t, i, Missed)
                /\ Copied(t, c, Missed) = R[n]
<1> DEFINE start == EmptyTable(c)
           Run(f, w) == [i \in 0 .. w |-> IF i = 0 THEN start ELSE Onward(f[i - 1], t, i - 1, Missed)]
           Some == {w \in Nat : \E f : f = Run(f, w)}
<1>1. \A w \in Nat : w \in Some
  <2>1. 0 \in Some
    <3>1. [i \in 0 .. 0 |-> start] = Run([i \in 0 .. 0 |-> start], 0) OBVIOUS
    <3> QED BY <3>1
  <2>2. ASSUME NEW w \in Nat, w \in Some
        PROVE  w + 1 \in Some
    <3>1. PICK f : f = Run(f, w) BY <2>2
    <3> DEFINE g == [i \in 0 .. w + 1 |-> IF i = w + 1 THEN Onward(f[w], t, w, Missed) ELSE f[i]]
    <3> HIDE DEF start
    <3>2. \A i \in 0 .. w : f[i] = IF i = 0 THEN start ELSE Onward(f[i - 1], t, i - 1, Missed) BY <3>1
    <3>3. \A i \in 0 .. w + 1 : g[i] = IF i = 0 THEN start ELSE Onward(g[i - 1], t, i - 1, Missed) BY <3>2
    <3>4. g = Run(g, w + 1)
      <4> HIDE DEF g
      <4>1. g = [i \in 0 .. w + 1 |-> g[i]] BY DEF g
      <4> QED BY <3>3, <4>1
    <3>5. \E h : h = Run(h, w + 1)
      <4> HIDE DEF g
      <4> QED BY <3>4
    <3> QED BY <3>5
  <2> HIDE DEF Some
  <2> QED BY <2>1, <2>2, Induct
<1> DEFINE R == CHOOSE f : f = Run(f, n)
<1>2. R = Run(R, n) BY <1>1
<1>3. Copied(t, c, Missed) = R[n] BY DEF Copied, Onward
<1>4. R[0] = start /\ \A i \in 0 .. n - 1 : R[i + 1] = Onward(R[i], t, i, Missed)
  <2> HIDE DEF R, start
  <2> QED BY <1>2
<1> QED BY <1>3, <1>4

Roomy(u) == Robin(u, Size(u)) /\ Cardinality(Used(u)) < Size(u)

\* A copy that grows as it fills up has the entries that were not missed, in order.
LEMMA CopiedIs ==
  ASSUME NEW n, NEW t, Table(t, n), Once(t, n), NEW c \in Nat, c >= 2, NEW Missed
  PROVE  LET u == Copied(t, c, Missed) IN
         Roomy(u) /\ Pairs(u) \subseteq Pairs(t) /\ (Missed = {} => Pairs(u) = Pairs(t))
<1>1. n \in Nat /\ Size(t) = n /\ \A i \in 0 .. n - 1 : t[i] \in Bucket BY TableIs
<1>2. PICK R : /\ R[0] = EmptyTable(c)
               /\ \A i \in 0 .. n - 1 : R[i + 1] = Onward(R[i], t, i, Missed)
               /\ Copied(t, c, Missed) = R[n]
  BY <1>1, Copies
<1> DEFINE Upto(u, i) ==
             Roomy(u) /\ Pairs(u) \subseteq AheadPairs(t, i) /\ (Missed = {} => Pairs(u) = AheadPairs(t, i))
           Sound == {i \in Nat : i <= n => Upto(R[i], i)}
<1>3. 0 \in Sound
  <2> DEFINE u == EmptyTable(c)
  <2>1. AheadPairs(t, 0) = {} BY AheadGrows
  <2>2. Robin(u, c) /\ Cardinality(Used(u)) = 0 /\ Pairs(u) = {} /\ Size(u) = c BY NoEntries
  <2> QED BY <1>2, <2>1, <2>2 DEF Roomy
<1>4. ASSUME NEW i \in Nat, i \in Sound
      PROVE  i + 1 \in Sound
  <2> SUFFICES ASSUME i + 1 <= n PROVE Upto(R[i + 1], i + 1) OBVIOUS
  <2> DEFINE u == R[i]
             m == Size(u)
             full == Cardinality(Used(u)) >= Percent(m, GrowAt)
  <2>1. i \in 0 .. n - 1 /\ Upto(u, i) /\ R[i + 1] = Onward(u, t, i, Missed) BY <1>1, <1>2, <1>4
  <2>2. /\ m \in Nat /\ m >= 2 /\ Table(u, m) /\ Once(u, m) /\ Cardinality(Used(u)) \in Nat
        /\ Cardinality(Used(u)) < m
    BY <2>1, TableIs, RoomLeft DEF Roomy, Robin
  <2> HIDE DEF u, m
  <2>7. m \in Nat \ {0} /\ GrowAt \in 0 .. 99 BY <2>2, SizesAssumption
  <2>3. Percent(m, GrowAt) \in Nat /\ Percent(m, GrowAt) < m BY <2>7, Quotient
  <2>4. CASE t[i].dib = 0
    <3>1. R[i + 1] = u BY <2>1, <2>4 DEF Onward
    <3>2. AheadPairs(t, i + 1) = AheadPairs(t, i) BY <2>1, <2>4, AheadGrows
    <3> QED BY <2>1, <3>1, <3>2
  <2>5. CASE t[i].dib # 0 /\ full /\ i \in Missed
    <3>1. R[i + 1] = u BY <2>1, <2>5 DEF Onward, m
    <3>2. AheadPairs(t, i + 1) = AheadPairs(t, i) \cup {Pair(t[i])} BY <2>1, <2>5, AheadGrows
    <3> QED BY <2>1, <2>5, <3>1, <3>2
  <2>6. CASE t[i].dib # 0 /\ ~(full /\ i \in Missed)
    <3> DEFINE w == IF full THEN Rehashed(u, 2 * m) ELSE u
               k == IF full THEN 2 * m ELSE m
               v == Placed(w, t[i])
    <3>1. R[i + 1] = v BY <2>1, <2>6 DEF Onward, m
    <3>2. /\ Robin(w, k) /\ Table(w, k) /\ Cardinality(Used(w)) \in Nat /\ Cardinality(Used(w)) + 1 < k
          /\ Pairs(w) = Pairs(u) /\ k \in Nat
      <4>1. CASE full
        <5>1. 2 * m \in Nat /\ 2 * m >= 2 /\ Cardinality(Used(u)) < 2 * m BY <2>2
        <5>2. /\ Robin(Rehashed(u, 2 * m), 2 * m)
              /\ Cardinality(Used(Rehashed(u, 2 * m))) = Cardinality(Used(u))
              /\ Pairs(Rehashed(u, 2 * m)) = Pairs(u)
          BY <2>2, <5>1, RehashedIs
        <5> QED BY <2>2, <4>1, <5>1, <5>2 DEF Robin
      <4>2. CASE ~full
        <5>1. Cardinality(Used(u)) + 1 < m BY <2>2, <2>3, <4>2
        <5>2. Robin(u, m) BY <2>1 DEF Roomy, m
        <5> QED BY <2>2, <4>2, <5>1, <5>2
      <4> QED BY <4>1, <4>2
    <3> HIDE DEF w, k
    <3>3. NotIn(t[i].key, w, k) BY <2>1, <2>6, <3>2, AheadApart
    <3>4. t[i] \in Bucket BY <1>1, <2>1
    <3>5. Robin(v, k) /\ Cardinality(Used(v)) = Cardinality(Used(w)) + 1 /\ Pairs(v) = Pairs(w) \cup {Pair(t[i])}
      BY <2>6, <3>2, <3>3, <3>4, Places
    <3> HIDE DEF v
    <3>6. Size(v) = k BY <3>5, TableIs DEF Robin
    <3>7. AheadPairs(t, i + 1) = AheadPairs(t, i) \cup {Pair(t[i])} BY <2>1, <2>6, AheadGrows
    <3>8. Roomy(v) BY <3>2, <3>5, <3>6 DEF Roomy
    <3> QED BY <2>1, <3>1, <3>2, <3>5, <3>7, <3>8
  <2> QED BY <2>4, <2>5, <2>6
<1> HIDE DEF Sound
<1>5. \A i \in Nat : i \in Sound BY <1>3, <1>4, Induct
<1>6. Upto(R[n], n) BY <1>1, <1>5 DEF Sound
<1>7. AheadPairs(t, n) = Pairs(t) BY AheadGrows
<1> QED BY <1>2, <1>6, <1>7

LEMMA LeastIs ==
  ASSUME NEW S, S \subseteq Nat, S # {}
  PROVE  Min(S) \in S /\ \A y \in S : Min(S) <= y
BY Least DEF Min

\* The x-th bucket behind p.
Off(n, p, x) == Ring(n, p + x)
Nearer(b) == [b EXCEPT !.dib = @ - 1]

LEMMA OneNearer ==
  ASSUME NEW b \in Bucket, b.dib >= 2
  PROVE  LET c == Nearer(b) IN
         c \in Bucket /\ c.key = b.key /\ c.val = b.val /\ c.dib = b.dib - 1 /\ c.dib # 0 /\ Pair(c) = Pair(b)
<1>1. b \in [key : Keys, val : Values \cup {None}, dib : Nat \ {0}] /\ b.dib - 1 \in Nat \ {0} BY BucketIs
<1> DEFINE c == Nearer(b)
<1>2. /\ c \in [key : Keys, val : Values \cup {None}, dib : Nat \ {0}]
      /\ c.key = b.key /\ c.val = b.val /\ c.dib = b.dib - 1
  BY <1>1 DEF Nearer
<1> QED BY <1>1, <1>2 DEF Bucket, Pair

Circle(n, p) ==
  /\ Off(n, p, 0) = p /\ Ring(n, Off(n, p, n - 1) + 1) = p
  /\ \A x \in 0 .. n - 1 : Off(n, p, x) \in 0 .. n - 1
  /\ \A x \in 0 .. n - 2 : Ring(n, Off(n, p, x) + 1) = Off(n, p, x + 1)
  /\ \A x, y \in 0 .. n - 1 : Off(n, p, x) = Off(n, p, y) => x = y
  /\ \A i \in 0 .. n - 1 : \E x \in 0 .. n - 1 : i = Off(n, p, x)

\* w is t with the entry of p taken out and the next run - 1 entries moved back.
Shifted(w, t, n, p, run) ==
  /\ w = [i \in 0 .. n - 1 |-> w[i]]
  /\ \A x \in 1 .. run - 1 : t[Off(n, p, x)].dib >= 2
  /\ t[Off(n, p, run)].dib <= 1
  /\ \A x \in 0 .. n - 1 :
       /\ x < run - 1 => w[Off(n, p, x)] = Nearer(t[Off(n, p, x + 1)])
       /\ x = run - 1 => w[Off(n, p, x)] = Empty
       /\ x >= run => w[Off(n, p, x)] = t[Off(n, p, x)]

LEMMA OffIs ==
  ASSUME NEW n \in Nat, n >= 2, NEW p \in 0 .. n - 1
  PROVE  Circle(n, p)
<1>1. Off(n, p, 0) = p /\ Ring(n, Off(n, p, n - 1) + 1) = p BY DEF Off, Ring
<1>2. \A x \in 0 .. n - 1 : Off(n, p, x) \in 0 .. n - 1 BY DEF Off, Ring
<1>3. \A x \in 0 .. n - 2 : Ring(n, Off(n, p, x) + 1) = Off(n, p, x + 1) BY DEF Off, Ring
<1>4. \A x, y \in 0 .. n - 1 : Off(n, p, x) = Off(n, p, y) => x = y BY DEF Off, Ring
<1>5. ASSUME NEW i \in 0 .. n - 1
      PROVE  \E x \in 0 .. n - 1 : i = Off(n, p, x)
  <2> DEFINE x == IF i >= p THEN i - p ELSE i - p + n
  <2>1. x \in 0 .. n - 1 /\ i = Off(n, p, x) BY DEF Off, Ring
  <2> QED BY <2>1
<1> QED BY <1>1, <1>2, <1>3, <1>4, <1>5 DEF Circle

\* The same numbers, as the code reckons them.
LEMMA OffMod ==
  ASSUME NEW n \in Nat, n >= 2, NEW p \in 0 .. n - 1, NEW x \in 0 .. n - 1
  PROVE  /\ (Off(n, p, x) - p + n) % n = x
         /\ x < n - 1 => (Off(n, p, x) + 1) % n = Off(n, p, x + 1)
         /\ (p + x) % n = Off(n, p, x)
<1>0. n \in Nat \ {0} OBVIOUS
<1>1. (Off(n, p, x) - p + n) % n = x
  <2> DEFINE a == Off(n, p, x) - p + n
  <2>1. Off(n, p, x) \in 0 .. n - 1 /\ a \in 0 .. 2 * n - 1 /\ (IF a < n THEN a ELSE a - n) = x BY DEF Off, Ring
  <2> HIDE DEF a
  <2>2. a % n = IF a < n THEN a ELSE a - n BY <1>0, <2>1, Wraps
  <2> QED BY <2>1, <2>2 DEF a
<1>2. ASSUME x < n - 1
      PROVE  (Off(n, p, x) + 1) % n = Off(n, p, x + 1)
  <2> DEFINE a == Off(n, p, x) + 1
  <2>1. a \in 0 .. 2 * n - 1 /\ (IF a < n THEN a ELSE a - n) = Off(n, p, x + 1) BY <1>2 DEF Off, Ring
  <2> HIDE DEF a
  <2>2. a % n = IF a < n THEN a ELSE a - n BY <1>0, <2>1, Wraps
  <2> QED BY <2>1, <2>2 DEF a
<1>3. (p + x) % n = Off(n, p, x)
  <2> DEFINE a == p + x
  <2>1. a \in 0 .. 2 * n - 1 /\ (IF a < n THEN a ELSE a - n) = Off(n, p, x) BY DEF Off, Ring
  <2> HIDE DEF a
  <2>2. a % n = IF a < n THEN a ELSE a - n BY <1>0, <2>1, Wraps
  <2> QED BY <2>1, <2>2 DEF a
<1> QED BY <1>1, <1>2, <1>3

\* How the entries behind p move: those that are not at home, up to the first that is.
LEMMA Shifts ==
  ASSUME NEW n, NEW t, Table(t, n), NEW p \in 0 .. n - 1, t[p].dib # 0, Room(t, n)
  PROVE  LET w == ShiftedBack(t, p) IN
         \E run \in 1 .. n - 1 : Shifted(w, t, n, p, run)
<1> DEFINE u == [t EXCEPT ![p] = Empty]
           S == {r \in 1 .. n : u[(p + r) % n].dib <= 1}
           run == Min(S)
           Behind(i) == (i - p + n) % n
           val(i) == CASE Behind(i) < run - 1 -> [u[(i + 1) % n] EXCEPT !.dib = @ - 1]
                       [] Behind(i) = run - 1 -> Empty
                       [] Behind(i) > run - 1 -> u[i]
           w == [i \in DOMAIN t |-> val(i)]
<1>1. /\ n \in Nat /\ n >= 2 /\ Size(t) = n /\ DOMAIN t = 0 .. n - 1
      /\ \A i \in 0 .. n - 1 : t[i].dib \in Nat
  BY TableIs
<1>2. ShiftedBack(t, p) = w BY <1>1 DEF ShiftedBack
<1>3. PICK e \in 1 .. n - 1 : t[Off(n, p, e)].dib = 0
  <2>1. PICK i \in 0 .. n - 1 : t[i].dib = 0 BY DEF Room
  <2>2. PICK x \in 0 .. n - 1 : i = Off(n, p, x) BY <1>1, OffIs DEF Circle
  <2>3. x # 0
    <3>1. Off(n, p, 0) = p BY <1>1, OffIs DEF Circle
    <3> QED BY <2>1, <2>2, <3>1
  <2> QED BY <1>1, <2>1, <2>2, <2>3
<1>4. \A x \in 1 .. n - 1 : Off(n, p, x) \in 0 .. n - 1 /\ Off(n, p, x) # p /\ u[Off(n, p, x)] = t[Off(n, p, x)]
  <2>1. ASSUME NEW x \in 1 .. n - 1
        PROVE  Off(n, p, x) \in 0 .. n - 1 /\ Off(n, p, x) # p
    <3>1. x \in 0 .. n - 1 /\ 0 \in 0 .. n - 1 /\ x # 0 BY <1>1
    <3>2. Off(n, p, 0) = p BY <1>1, OffIs DEF Circle
    <3>3. Off(n, p, x) \in 0 .. n - 1 BY <1>1, <3>1, OffIs DEF Circle
    <3>4. \A y, z \in 0 .. n - 1 : Off(n, p, y) = Off(n, p, z) => y = z BY <1>1, OffIs DEF Circle
    <3> HIDE DEF S, run, w, u
    <3> QED BY <3>1, <3>2, <3>3, <3>4
  <2> QED BY <1>1, <2>1
<1>5. \A x \in 1 .. n - 1 : (p + x) % n = Off(n, p, x) BY <1>1, OffMod
<1> HIDE DEF u
<1>6. e \in S /\ S \subseteq 1 .. n BY <1>1, <1>3, <1>4, <1>5
<1>7. run \in S /\ \A y \in S : run <= y
  <2> HIDE DEF S
  <2>1. S \subseteq Nat /\ S # {} BY <1>1, <1>6
  <2> QED BY <2>1, LeastIs
<1>8. run \in 1 .. n - 1 /\ u[(p + run) % n].dib <= 1
  <2>1. run <= e /\ run \in 1 .. n /\ u[(p + run) % n].dib <= 1 BY <1>6, <1>7
  <2> HIDE DEF run
  <2> QED BY <1>1, <2>1
<1>9. \A x \in 1 .. run - 1 : t[Off(n, p, x)].dib >= 2
  <2> HIDE DEF run
  <2> SUFFICES ASSUME NEW x \in 1 .. run - 1, ~(t[Off(n, p, x)].dib >= 2) PROVE FALSE OBVIOUS
  <2>1. x \in 1 .. n - 1 /\ x \in 1 .. n BY <1>1, <1>8
  <2>2. t[Off(n, p, x)].dib <= 1 BY <1>1, <1>4, <2>1
  <2>3. x \in S BY <1>4, <1>5, <2>1, <2>2
  <2> QED BY <1>7, <1>8, <2>3
<1> HIDE DEF run, S
<1>10. t[Off(n, p, run)].dib <= 1 BY <1>4, <1>5, <1>8
<1>11. ASSUME NEW x \in 0 .. n - 1
       PROVE  /\ x < run - 1 => w[Off(n, p, x)] = Nearer(t[Off(n, p, x + 1)])
              /\ x = run - 1 => w[Off(n, p, x)] = Empty
              /\ x >= run => w[Off(n, p, x)] = t[Off(n, p, x)]
  <2> DEFINE i == Off(n, p, x)
  <2>1. i \in 0 .. n - 1 BY <1>1, OffIs DEF Circle
  <2>6. Behind(i) = x BY <1>1, OffMod
  <2>2. w[i] = CASE x < run - 1 -> [u[(i + 1) % n] EXCEPT !.dib = @ - 1]
                 [] x = run - 1 -> Empty
                 [] x > run - 1 -> u[i]
    BY <1>1, <2>1, <2>6
  <2>3. ASSUME x < run - 1 PROVE w[i] = Nearer(t[Off(n, p, x + 1)])
    <3>1. x \in 0 .. n - 2 /\ x + 1 \in 1 .. n - 1 BY <1>1, <1>8, <2>3
    <3>2. (i + 1) % n = Off(n, p, x + 1) BY <1>1, <2>3, <3>1, OffMod
    <3>3. u[Off(n, p, x + 1)] = t[Off(n, p, x + 1)] BY <1>4, <3>1
    <3>4. ~(x = run - 1) /\ ~(x > run - 1) BY <1>8, <2>3
    <3>5. w[i] = [u[(i + 1) % n] EXCEPT !.dib = @ - 1] BY <2>2, <2>3, <3>4
    <3> QED BY <3>2, <3>3, <3>5 DEF Nearer
  <2>4. ASSUME x = run - 1 PROVE w[i] = Empty
    <3>1. ~(x < run - 1) /\ ~(x > run - 1) BY <1>8, <2>4
    <3> QED BY <2>2, <2>4, <3>1
  <2>5. ASSUME x >= run PROVE w[i] = t[i]
    <3>1. x > run - 1 /\ ~(x < run - 1) /\ ~(x = run - 1) /\ x \in 1 .. n - 1 BY <1>1, <1>8, <2>5
    <3>2. u[i] = t[i] BY <1>4, <3>1
    <3> QED BY <2>2, <3>1, <3>2
  <2> QED BY <2>3, <2>4, <2>5
<1>12. w = [i \in 0 .. n - 1 |-> w[i]]
  <2> HIDE DEF val
  <2> QED BY <1>1
<1> HIDE DEF w
<1> QED BY <1>2, <1>8, <1>9, <1>10, <1>11, <1>12 DEF Shifted

\* One step back on the ring.
LEMMA RingBack ==
  ASSUME NEW n \in Nat, NEW h \in 0 .. n - 1, NEW d \in Nat, d >= 2, d <= n, NEW i \in 0 .. n - 1,
         Ring(n, i + 1) = Ring(n, h + d - 1)
  PROVE  Ring(n, h + (d - 1) - 1) = i
BY DEF Ring

\* Deleting an entry keeps the order of the others, and what they are.
LEMMA ShiftedIs ==
  ASSUME NEW n, NEW t, Robin(t, n), NEW p \in 0 .. n - 1, t[p].dib # 0, Room(t, n)
  PROVE  LET w == ShiftedBack(t, p) IN
         /\ Robin(w, n) /\ Cardinality(Used(w)) = Cardinality(Used(t)) - 1
         /\ Pairs(w) = Pairs(t) \ {Pair(t[p])}
<1> DEFINE w == ShiftedBack(t, p)
           F(x) == Off(n, p, x)
<1>1. /\ Table(t, n) /\ n \in Nat /\ n >= 2 /\ Size(t) = n /\ DOMAIN t = 0 .. n - 1
      /\ \A i \in 0 .. n - 1 : t[i] \in Bucket /\ t[i].dib \in Nat
  BY TableIs DEF Robin
<1>21. PICK run \in 1 .. n - 1 : Shifted(w, t, n, p, run) BY <1>1, Shifts
<1>22. w = [i \in 0 .. n - 1 |-> w[i]] BY <1>21 DEF Shifted
<1>2. /\ \A x \in 1 .. run - 1 : t[F(x)].dib >= 2
      /\ t[F(run)].dib <= 1
      /\ \A x \in 0 .. n - 1 :
           /\ x < run - 1 => w[F(x)] = Nearer(t[F(x + 1)])
           /\ x = run - 1 => w[F(x)] = Empty
           /\ x >= run => w[F(x)] = t[F(x)]
  BY <1>21 DEF Shifted
<1>31. Circle(n, p) BY <1>1, OffIs
<1>3. /\ F(0) = p /\ Ring(n, F(n - 1) + 1) = p
      /\ \A x \in 0 .. n - 1 : F(x) \in 0 .. n - 1
      /\ \A x \in 0 .. n - 2 : Ring(n, F(x) + 1) = F(x + 1)
      /\ \A x, y \in 0 .. n - 1 : F(x) = F(y) => x = y
      /\ \A i \in 0 .. n - 1 : \E x \in 0 .. n - 1 : i = F(x)
  BY <1>31 DEF Circle
<1> DEFINE src(x) == IF x < run - 1 THEN x + 1 ELSE x
<1> HIDE DEF w, F
\* Every entry of w is one of t, which stood at the same place or one behind.
<1>5. ASSUME NEW x \in 0 .. n - 1
      PROVE  /\ x = run - 1 => w[F(x)] = Empty /\ w[F(x)].dib = 0
             /\ x # run - 1 =>
                  /\ src(x) \in 1 .. n - 1 /\ src(x) \in 0 .. n - 1 /\ src(x) # 0
                  /\ w[F(x)].key = t[F(src(x))].key /\ Pair(w[F(x)]) = Pair(t[F(src(x))])
                  /\ w[F(x)].dib = t[F(src(x))].dib - (IF x < run - 1 THEN 1 ELSE 0)
                  /\ (w[F(x)].dib # 0 <=> t[F(src(x))].dib # 0)
                  /\ x < run - 1 => t[F(src(x))].dib >= 2
             /\ w[F(x)] \in Bucket
  <2>1. CASE x < run - 1
    <3>1. x + 1 \in 1 .. run - 1 /\ x + 1 \in 1 .. n - 1 /\ x + 1 \in 0 .. n - 1 /\ x # run - 1 BY <1>1, <2>1
    <3>2. t[F(x + 1)].dib >= 2 /\ t[F(x + 1)] \in Bucket /\ w[F(x)] = Nearer(t[F(x + 1)])
      BY <1>1, <1>2, <1>3, <2>1, <3>1
    <3> DEFINE b == t[F(x + 1)]
               c == Nearer(b)
    <3>3. c \in Bucket /\ c.key = b.key /\ c.dib = b.dib - 1 /\ c.dib # 0 /\ Pair(c) = Pair(b)
      <4>1. b \in Bucket /\ b.dib >= 2 BY <3>2
      <4> HIDE DEF b
      <4> QED BY <4>1, OneNearer
    <3>4. b.dib \in Nat BY <3>2, BucketIs
    <3> HIDE DEF b, c
    <3>5. src(x) = x + 1 /\ b = t[F(x + 1)] /\ c = w[F(x)] BY <2>1, <3>2 DEF b, c
    <3> QED BY <2>1, <3>1, <3>2, <3>3, <3>4, <3>5
  <2>2. CASE x = run - 1
    <3>1. w[F(x)] = Empty /\ Empty \in Bucket /\ Empty.dib = 0 BY <1>2, <2>2 DEF Bucket, Empty
    <3> QED BY <2>2, <3>1
  <2>3. CASE x >= run
    <3>1. src(x) = x /\ w[F(x)] = t[F(x)] /\ x # run - 1 /\ ~(x < run - 1) /\ x \in 1 .. n - 1 BY <1>1, <1>2, <2>3
    <3>2. t[F(x)] \in Bucket /\ t[F(x)].dib \in Nat BY <1>1, <1>3
    <3> QED BY <3>1, <3>2
  <2> QED BY <2>1, <2>2, <2>3
<1>6. Table(w, n)
  <2>1. \A i \in 0 .. n - 1 : w[i] \in Bucket BY <1>3, <1>5
  <2> QED BY <1>1, <1>22, <2>1 DEF Table
<1>7. Homes(w, n)
  <2> SUFFICES ASSUME NEW i \in 0 .. n - 1, w[i].dib # 0
               PROVE  w[i].dib <= n /\ Ring(n, Home(n, w[i].key) + w[i].dib - 1) = i
    BY DEF Homes
  <2>1. PICK x \in 0 .. n - 1 : i = F(x) BY <1>3
  <2>2. x # run - 1 BY <1>5, <2>1
  <2> DEFINE j == F(src(x))
             h == Home(n, t[j].key)
             d == t[j].dib
  <2>3. /\ j \in 0 .. n - 1 /\ d # 0 /\ w[i].key = t[j].key /\ d \in Nat
        /\ w[i].dib = d - (IF x < run - 1 THEN 1 ELSE 0)
        /\ x < run - 1 => d >= 2
    BY <1>1, <1>3, <1>5, <2>1, <2>2
  <2>4. d <= n /\ Ring(n, h + d - 1) = j BY <2>3 DEF Robin, Homes
  <2>5. h \in 0 .. n - 1
    <3>1. t[j].key \in Keys /\ n \in Nat \ {0} BY <1>1, <2>3, BucketIs
    <3> QED BY <3>1, HomeIn
  <2>6. CASE x < run - 1
    <3>0. x \in 0 .. n - 2 /\ j = F(x + 1) BY <1>1, <2>6
    <3>1. Ring(n, F(x) + 1) = F(x + 1) BY <1>3, <3>0
    <3> HIDE DEF j, h, d
    <3>2. i \in 0 .. n - 1 /\ Ring(n, i + 1) = j /\ d - 1 \in Nat /\ d - 1 >= 1 /\ d <= n
      BY <2>1, <2>3, <2>4, <2>6, <3>0, <3>1
    <3>3. Ring(n, h + (d - 1) - 1) = i
      <4>1. n \in Nat /\ h \in 0 .. n - 1 /\ d \in Nat /\ d >= 2 /\ d <= n /\ Ring(n, i + 1) = Ring(n, h + d - 1)
        BY <1>1, <2>3, <2>4, <2>5, <3>2
      <4> QED BY ONLY <4>1, <3>2, RingBack
    <3> QED BY <1>1, <2>3, <2>4, <2>6, <3>2, <3>3 DEF h
  <2>7. CASE ~(x < run - 1)
    <3>1. j = i BY <2>1, <2>7
    <3> QED BY <2>3, <2>4, <2>7, <3>1
  <2> QED BY <2>6, <2>7
<1>8. Stepwise(w, n)
  <2> SUFFICES ASSUME NEW i \in 0 .. n - 1
               PROVE  w[Ring(n, i + 1)].dib <= w[i].dib + 1
    BY DEF Stepwise
  <2>1. PICK x \in 0 .. n - 1 : i = F(x) BY <1>3
  <2>0. \A y \in 0 .. n - 1 : w[F(y)].dib \in Nat /\ t[F(y)].dib \in Nat BY <1>1, <1>3, <1>5, BucketIs
  <2>2. CASE x < n - 1
    <3>1. x \in 0 .. n - 2 /\ x + 1 \in 0 .. n - 1 /\ Ring(n, i + 1) = F(x + 1) BY <1>1, <1>3, <2>1, <2>2
    <3>2. ASSUME NEW y \in 0 .. n - 2
          PROVE  t[F(y + 1)].dib <= t[F(y)].dib + 1
      <4>1. y \in 0 .. n - 1 BY <1>1
      <4>2. F(y) \in 0 .. n - 1 /\ Ring(n, F(y) + 1) = F(y + 1) BY <1>3, <4>1
      <4> QED BY <4>2 DEF Robin, Stepwise
    <3>3. CASE x + 1 = run - 1 BY <1>5, <2>0, <2>1, <3>1, <3>3
    <3>4. CASE x = run - 1
      <4>1. x + 1 = run /\ w[F(x + 1)] = t[F(run)] /\ t[F(run)].dib <= 1 BY <1>2, <3>1, <3>4
      <4> QED BY <2>0, <2>1, <3>1, <4>1
    <3>5. CASE x + 1 < run - 1
      <4>1. x < run - 1 /\ x # run - 1 /\ x + 1 # run - 1 /\ src(x) = x + 1 /\ src(x + 1) = x + 1 + 1 /\ x + 1 \in 0 .. n - 2
        BY <1>1, <3>1, <3>5
      <4>2. w[F(x + 1)].dib = t[F(x + 1 + 1)].dib - 1 BY <1>5, <3>1, <3>5, <4>1
      <4>3. w[F(x)].dib = t[F(x + 1)].dib - 1 BY <1>5, <4>1
      <4>4. t[F(x + 1 + 1)].dib <= t[F(x + 1)].dib + 1 BY <3>2, <4>1
      <4>5. x + 1 + 1 \in 0 .. n - 1 BY <1>1, <4>1
      <4> QED BY <2>0, <2>1, <3>1, <4>2, <4>3, <4>4, <4>5
    <3>6. CASE x >= run
      <4>1. x + 1 >= run /\ w[F(x + 1)] = t[F(x + 1)] /\ w[F(x)] = t[F(x)] BY <1>2, <3>1, <3>6
      <4> QED BY <2>1, <3>1, <3>2, <4>1
    <3> QED BY <1>1, <3>1, <3>3, <3>4, <3>5, <3>6
  <2>3. CASE x = n - 1
    <3>1. Ring(n, i + 1) = F(0) /\ 0 \in 0 .. n - 1 /\ 1 \in 0 .. n - 1 /\ 0 \in 0 .. n - 2 /\ x >= run
      BY <1>1, <1>3, <2>1, <2>3
    <3>2. w[i] = t[F(x)] BY <1>2, <2>1, <3>1
    <3>3. CASE run = 1 BY <1>5, <2>0, <2>1, <3>1, <3>3
    <3>4. CASE run > 1
      <4>1. src(0) = 1 /\ 0 < run - 1 /\ 0 # run - 1 BY <3>4
      <4>2. w[F(0)].dib = t[F(1)].dib - 1 BY <1>5, <3>1, <4>1
      <4>3. t[F(1)].dib <= t[F(0)].dib + 1
        <5>1. Ring(n, F(0) + 1) = F(0 + 1) /\ 0 + 1 = 1 BY <1>3, <3>1
        <5> QED BY <1>3, <3>1, <5>1 DEF Robin, Stepwise
      <4>4. t[F(0)].dib <= t[F(x)].dib + 1 BY <1>3, <2>1, <3>1 DEF Robin, Stepwise
      <4> QED BY <2>0, <3>1, <3>2, <4>2, <4>3, <4>4
    <3> QED BY <1>1, <3>3, <3>4
  <2> QED BY <1>1, <2>2, <2>3
<1>9. \A x, y \in 0 .. n - 1 : x # run - 1 /\ y # run - 1 /\ src(x) = src(y) => x = y BY <1>1
<1>10. Once(w, n)
  <2> SUFFICES ASSUME NEW i \in 0 .. n - 1, NEW j \in 0 .. n - 1,
                      w[i].dib # 0, w[j].dib # 0, w[i].key = w[j].key
               PROVE  i = j
    BY DEF Once
  <2>1. PICK x \in 0 .. n - 1 : i = F(x) BY <1>3
  <2>2. PICK y \in 0 .. n - 1 : j = F(y) BY <1>3
  <2>3. x # run - 1 /\ y # run - 1 BY <1>5, <2>1, <2>2
  <2>4. /\ F(src(x)) \in 0 .. n - 1 /\ t[F(src(x))].dib # 0 /\ t[F(src(x))].key = w[i].key
        /\ src(x) \in 0 .. n - 1
    BY <1>3, <1>5, <2>1, <2>3
  <2>5. /\ F(src(y)) \in 0 .. n - 1 /\ t[F(src(y))].dib # 0 /\ t[F(src(y))].key = w[j].key
        /\ src(y) \in 0 .. n - 1
    BY <1>3, <1>5, <2>2, <2>3
  <2>6. F(src(x)) = F(src(y)) BY <2>4, <2>5 DEF Robin, Once
  <2>7. src(x) = src(y) BY <1>3, <2>4, <2>5, <2>6
  <2> QED BY <1>9, <2>1, <2>2, <2>3, <2>7
<1>11. Used(w) = Used(t) \ {F(run - 1)} /\ F(run - 1) \in Used(t)
  <2>1. Used(w) = {i \in 0 .. n - 1 : w[i].dib # 0} /\ Used(t) = {i \in 0 .. n - 1 : t[i].dib # 0}
    BY <1>1, <1>6, TableIs
  <2>2. \A x \in 0 .. run - 1 : t[F(x)].dib # 0
    <3> SUFFICES ASSUME NEW x \in 0 .. run - 1 PROVE t[F(x)].dib # 0 OBVIOUS
    <3>1. CASE x = 0 BY <1>3, <3>1
    <3>2. CASE x # 0
      <4>1. x \in 1 .. run - 1 /\ x \in 0 .. n - 1 BY <1>1, <3>2
      <4>2. t[F(x)].dib >= 2 BY <1>2, <4>1
      <4>3. t[F(x)].dib \in Nat BY <1>1, <1>3, <4>1
      <4> QED BY <4>2, <4>3
    <3> QED BY <3>1, <3>2
  <2>3. ASSUME NEW x \in 0 .. n - 1
        PROVE  w[F(x)].dib # 0 <=> t[F(x)].dib # 0 /\ x # run - 1
    <3>1. CASE x < run - 1
      <4>1. w[F(x)].dib # 0
        <5>1. src(x) = x + 1 /\ x # run - 1 /\ t[F(src(x))].dib >= 2 /\ (w[F(x)].dib # 0 <=> t[F(src(x))].dib # 0)
          BY <1>5, <3>1
        <5>2. t[F(src(x))].dib \in Nat BY <1>1, <1>3, <1>5, <5>1
        <5> QED BY <5>1, <5>2
      <4> QED BY <2>2, <3>1, <4>1
    <3>2. CASE x = run - 1 BY <1>5, <3>2
    <3>3. CASE x >= run BY <1>2, <3>3
    <3> QED BY <3>1, <3>2, <3>3
  <2>4. run - 1 \in 0 .. n - 1 /\ run - 1 \in 0 .. run - 1 BY <1>1
  <2>5. ASSUME NEW i \in 0 .. n - 1
        PROVE  w[i].dib # 0 <=> t[i].dib # 0 /\ i # F(run - 1)
    BY <1>3, <2>3, <2>4
  <2>6. F(run - 1) \in Used(t) BY <1>3, <2>1, <2>2, <2>4
  <2> QED BY <2>1, <2>5, <2>6
<1>12. Cardinality(Used(w)) = Cardinality(Used(t)) - 1
  <2>1. IsFiniteSet(Used(t)) BY <1>1, TableIs
  <2> QED BY <1>11, <2>1, FS_RemoveElement
<1>13. Pairs(w) = Pairs(t) \ {Pair(t[p])}
  <2>0. Used(w) = {i \in 0 .. n - 1 : w[i].dib # 0} /\ Used(t) = {i \in 0 .. n - 1 : t[i].dib # 0}
    BY <1>1, <1>6, TableIs
  <2>1. ASSUME NEW e \in Pairs(w)
        PROVE  e \in Pairs(t) /\ e # Pair(t[p])
    <3>1. PICK i \in 0 .. n - 1 : w[i].dib # 0 /\ e = Pair(w[i]) BY <2>0 DEF Pairs, Pair
    <3>2. PICK x \in 0 .. n - 1 : i = F(x) BY <1>3
    <3>3. x # run - 1 BY <1>5, <3>1, <3>2
    <3> DEFINE j == F(src(x))
    <3>4. src(x) \in 0 .. n - 1 /\ src(x) # 0 /\ t[j].dib # 0 /\ e = Pair(t[j]) BY <1>5, <3>1, <3>2, <3>3
    <3>5. j \in 0 .. n - 1 BY <1>3, <3>4
    <3>6. j # p
      <4>1. 0 \in 0 .. n - 1 BY <1>1
      <4> QED BY <1>3, <3>4, <4>1
    <3> HIDE DEF j
    <3>7. t[j].key # t[p].key BY <3>4, <3>5, <3>6 DEF Robin, Once
    <3>8. e \in Pairs(t) BY <2>0, <3>4, <3>5 DEF Pairs, Pair
    <3> QED BY <3>4, <3>7, <3>8 DEF Pair
  <2>2. ASSUME NEW e \in Pairs(t), e # Pair(t[p])
        PROVE  e \in Pairs(w)
    <3>1. PICK i \in 0 .. n - 1 : t[i].dib # 0 /\ e = Pair(t[i]) BY <2>0 DEF Pairs, Pair
    <3>2. PICK y \in 0 .. n - 1 : i = F(y) BY <1>3
    <3>3. y # 0 BY <1>3, <2>2, <3>1, <3>2
    <3> DEFINE x == IF y <= run - 1 THEN y - 1 ELSE y
    <3>4. x \in 0 .. n - 1 /\ x # run - 1 /\ src(x) = y BY <1>1, <3>3
    <3>5. w[F(x)].dib # 0 /\ Pair(w[F(x)]) = e /\ F(x) \in 0 .. n - 1 BY <1>3, <1>5, <3>1, <3>2, <3>4
    <3> HIDE DEF x
    <3> QED BY <2>0, <3>5 DEF Pairs, Pair
  <2> QED BY <2>1, <2>2
<1> QED BY <1>6, <1>7, <1>8, <1>10, <1>12, <1>13 DEF Robin, w

\* A new value for a key changes nothing but that.
LEMMA ValuedIs ==
  ASSUME NEW n, NEW t, Robin(t, n), NEW q \in 0 .. n - 1, t[q].dib # 0, NEW v \in Values \cup {None}
  PROVE  LET w == Put(t, q, Valued(t[q], v)) IN
         Robin(w, n) /\ Used(w) = Used(t) /\ Pairs(w) = (Pairs(t) \ {Pair(t[q])}) \cup {<<t[q].key, v>>}
<1> DEFINE w == Put(t, q, Valued(t[q], v))
<1>1. /\ Table(t, n) /\ n \in Nat /\ n >= 2 /\ t \in [0 .. n - 1 -> Bucket]
      /\ \A i \in 0 .. n - 1 : t[i] \in Bucket
  BY TableIs DEF Robin, Table
<1>2. /\ Valued(t[q], v) \in Bucket /\ Valued(t[q], v).key = t[q].key /\ Valued(t[q], v).dib = t[q].dib
      /\ Valued(t[q], v).val = v
  <2>1. t[q] \in [key : Keys, val : Values \cup {None}, dib : Nat \ {0}] BY <1>1, BucketIs
  <2> QED BY <2>1 DEF Valued, Bucket
<1>3. /\ w \in [0 .. n - 1 -> Bucket] /\ w[q] = Valued(t[q], v)
      /\ \A i \in 0 .. n - 1 : i # q => w[i] = t[i]
  BY <1>1, <1>2 DEF Put
<1> HIDE DEF w
<1>4. \A i \in 0 .. n - 1 : w[i].key = t[i].key /\ w[i].dib = t[i].dib BY <1>2, <1>3
<1>5. Table(w, n) BY <1>1, <1>3 DEF Table
<1>6. Homes(w, n) /\ Once(w, n) BY <1>4 DEF Robin, Homes, Once
<1>7. Stepwise(w, n)
  <2>1. \A i \in 0 .. n - 1 : Ring(n, i + 1) \in 0 .. n - 1 BY <1>1 DEF Ring
  <2> QED BY <1>4, <2>1 DEF Robin, Stepwise
<1>8. Used(t) = {i \in 0 .. n - 1 : t[i].dib # 0} /\ Used(w) = {i \in 0 .. n - 1 : w[i].dib # 0}
  BY <1>1, <1>5, TableIs
<1>9. Used(w) = Used(t) /\ q \in Used(t) BY <1>4, <1>8
<1>10. Pairs(w) = (Pairs(t) \ {Pair(t[q])}) \cup {<<t[q].key, v>>}
  <2>1. ASSUME NEW e \in Pairs(w) PROVE e \in (Pairs(t) \ {Pair(t[q])}) \cup {<<t[q].key, v>>}
    <3>1. PICK i \in 0 .. n - 1 : t[i].dib # 0 /\ e = Pair(w[i]) BY <1>8, <1>9 DEF Pairs, Pair
    <3>2. CASE i = q BY <1>2, <1>3, <3>1, <3>2 DEF Pair
    <3>3. CASE i # q
      <4>1. w[i] = t[i] /\ t[i].key # t[q].key BY <1>3, <3>1, <3>3 DEF Robin, Once
      <4>2. e \in Pairs(t) BY <1>8, <3>1, <4>1 DEF Pairs, Pair
      <4> QED BY <3>1, <4>1, <4>2 DEF Pair
    <3> QED BY <3>2, <3>3
  <2>2. ASSUME NEW e \in Pairs(t), e # Pair(t[q]) PROVE e \in Pairs(w)
    <3>1. PICK i \in 0 .. n - 1 : t[i].dib # 0 /\ e = Pair(t[i]) BY <1>8 DEF Pairs, Pair
    <3>2. w[i] = t[i] BY <1>3, <2>2, <3>1
    <3> QED BY <1>8, <1>9, <3>1, <3>2 DEF Pairs, Pair
  <2>3. <<t[q].key, v>> \in Pairs(w)
    <3>1. w[q].key = t[q].key /\ w[q].val = v BY <1>2, <1>3
    <3> QED BY <1>9, <3>1 DEF Pairs
  <2> QED BY <2>1, <2>2, <2>3
<1> QED BY <1>5, <1>6, <1>7, <1>9, <1>10 DEF Robin, w

\* As many entries as keys, at most.
LEMMA FewerThanKeys ==
  ASSUME NEW n, NEW t, Table(t, n), Once(t, n), IsFiniteSet(Keys)
  PROVE  Cardinality(Used(t)) <= Cardinality(Keys)
<1>1. Used(t) = {i \in 0 .. n - 1 : t[i].dib # 0} /\ \A i \in 0 .. n - 1 : t[i] \in Bucket BY TableIs
<1> DEFINE f == [i \in Used(t) |-> t[i].key]
<1>2. \A i \in Used(t) : t[i].key \in Keys BY <1>1, BucketIs
<1>3. \A i, j \in Used(t) : t[i].key = t[j].key => i = j BY <1>1 DEF Once
<1>4. f \in Injection(Used(t), Keys) BY <1>2, <1>3 DEF Injection, IsInjective
<1> QED BY <1>4, FS_Injection

\* Emptied where they are.
Emptied(t, S) == [i \in DOMAIN t |-> IF t[i].key \in S THEN Empty ELSE t[i]]
Hits(t, S) == {i \in Used(t) : t[i].key \in S}

LEMMA EmptiedIs ==
  ASSUME NEW n, NEW t, Table(t, n), Once(t, n), NEW S
  PROVE  /\ Table(Emptied(t, S), n) /\ Once(Emptied(t, S), n) /\ IsFiniteSet(Hits(t, S))
         /\ Cardinality(Used(Emptied(t, S))) = Cardinality(Used(t)) - Cardinality(Hits(t, S))
         /\ \A i \in 0 .. n - 1 : Emptied(t, S)[i] = Empty \/ Emptied(t, S)[i] = t[i]
         /\ Pairs(Emptied(t, S)) = {e \in Pairs(t) : e[1] \notin S}
<1> DEFINE w == Emptied(t, S)
           hits == Hits(t, S)
<1>1. /\ n \in Nat /\ n >= 2 /\ DOMAIN t = 0 .. n - 1 /\ \A i \in 0 .. n - 1 : t[i] \in Bucket
      /\ Used(t) = {i \in 0 .. n - 1 : t[i].dib # 0} /\ IsFiniteSet(Used(t))
  BY TableIs
<1>2. Empty \in Bucket /\ Empty.dib = 0 BY DEF Bucket, Empty
<1>3. w \in [0 .. n - 1 -> Bucket] /\ \A i \in 0 .. n - 1 : w[i] = IF t[i].key \in S THEN Empty ELSE t[i]
  BY <1>1, <1>2 DEF Emptied
<1> HIDE DEF w
<1>4. Table(w, n) BY <1>1, <1>3 DEF Table
<1>5. Once(w, n) BY <1>2, <1>3 DEF Once
<1>6. Used(w) = Used(t) \ hits
  <2>1. Used(w) = {i \in 0 .. n - 1 : w[i].dib # 0} BY <1>4, TableIs
  <2> QED BY <1>1, <1>2, <1>3, <2>1 DEF Hits
<1>7. IsFiniteSet(hits) /\ Cardinality(Used(w)) = Cardinality(Used(t)) - Cardinality(hits)
  <2>1. Used(t) \cap hits = hits BY DEF Hits
  <2>2. Cardinality(Used(t) \ hits) = Cardinality(Used(t)) - Cardinality(Used(t) \cap hits) BY <1>1, FS_Difference
  <2>3. IsFiniteSet(hits) BY <1>1, FS_Subset DEF Hits
  <2> QED BY <1>6, <2>1, <2>2, <2>3
<1>8. Pairs(w) = {e \in Pairs(t) : e[1] \notin S}
  <2>1. \A i \in Used(w) : i \in Used(t) /\ t[i].key \notin S /\ w[i] = t[i] BY <1>1, <1>3, <1>6 DEF Hits
  <2>2. \A i \in Used(t) : t[i].key \notin S => i \in Used(w) BY <1>6 DEF Hits
  <2> QED BY <2>1, <2>2 DEF Pairs
<1> QED BY <1>3, <1>4, <1>5, <1>7, <1>8 DEF w

-----------------------------------------------------------------------------
(* Sizes *)

LEMMA PowerAbove ==
  ASSUME NEW j \in Nat
  PROVE  2 ^ j \in Nat /\ 2 ^ j > j
<1> DEFINE S == 1 .. j
           f == [i \in 0 .. j |-> 1 .. i]
<1>1. IsFiniteSet(S) /\ Cardinality(S) = j BY FS_Interval
<1>2. IsFiniteSet(SUBSET S) /\ Cardinality(SUBSET S) = 2 ^ j BY <1>1, FS_SUBSET
<1>3. Cardinality(SUBSET S) \in Nat BY <1>2, FS_CardinalityType
<1>4. f \in Injection(0 .. j, SUBSET S)
  <2>1. \A i \in 0 .. j : 1 .. i \in SUBSET S OBVIOUS
  <2>2. ASSUME NEW i \in 0 .. j, NEW k \in 0 .. j, 1 .. i = 1 .. k
        PROVE  i = k
    <3>1. i > 0 => i \in 1 .. k BY <2>2
    <3>2. k > 0 => k \in 1 .. i BY <2>2
    <3> QED BY <3>1, <3>2
  <2> QED BY <2>1, <2>2 DEF Injection, IsInjective
<1>5. Cardinality(0 .. j) <= Cardinality(SUBSET S) BY <1>2, <1>4, FS_Injection
<1>6. Cardinality(0 .. j) = j + 1 BY FS_Interval
<1> QED BY <1>2, <1>3, <1>5, <1>6

LEMMA Times ==
  ASSUME NEW a \in Nat, NEW b \in Nat, b >= 1
  PROVE  a * b \in Nat /\ a * b >= a
<1>1. a * b = a + a * (b - 1) /\ a * (b - 1) \in Nat OBVIOUS
<1> QED BY <1>1

LEMMA DoubledAtLeast ==
  ASSUME NEW n \in Nat, NEW g \in Nat, g >= 1
  PROVE  n * 2 ^ g \in Nat /\ n * 2 ^ g >= 2 * n
<1> DEFINE q == 2 ^ g
<1>1. q \in Nat /\ q > g BY PowerAbove
<1> HIDE DEF q
<1>2. q - 1 \in Nat /\ q - 1 >= 1 /\ n * q = n + n * (q - 1) BY <1>1
<1>3. n * (q - 1) \in Nat /\ n * (q - 1) >= n BY <1>2, Times
<1>4. n * q \in Nat /\ n * q >= 2 * n BY <1>2, <1>3
<1> QED BY <1>4 DEF q

LEMMA RoundedUp ==
  ASSUME NEW n \in Nat
  PROVE  RoundUp(n) \in Nat /\ RoundUp(n) >= n /\ RoundUp(n) >= 2
<1> DEFINE J == {j \in 0 .. n : MinCap * 2 ^ j >= n}
           S == {MinCap * 2 ^ j : j \in J}
<1>1. MinCap \in Nat /\ MinCap >= 2 BY SizesAssumption
<1>2. ASSUME NEW j \in Nat PROVE MinCap * 2 ^ j \in Nat /\ MinCap * 2 ^ j >= 2 /\ MinCap * 2 ^ j >= j
  <2> DEFINE q == 2 ^ j
  <2>1. q \in Nat /\ q > j BY PowerAbove
  <2> HIDE DEF q
  <2>2. q >= 1 /\ MinCap * q \in Nat /\ MinCap * q >= MinCap BY <1>1, <2>1, Times
  <2>3. q * MinCap >= q /\ q * MinCap = MinCap * q BY <1>1, <2>1, Times
  <2> QED BY <1>1, <2>1, <2>2, <2>3 DEF q
<1>3. n \in J BY <1>2
<1>4. S \subseteq Nat /\ S # {} BY <1>2, <1>3
<1>5. Min(S) \in S
  <2> HIDE DEF S
  <2> QED BY <1>4, LeastIs
<1>6. PICK j \in J : RoundUp(n) = MinCap * 2 ^ j BY <1>5 DEF RoundUp
<1>7. j \in Nat /\ MinCap * 2 ^ j >= n OBVIOUS
<1> QED BY <1>2, <1>6, <1>7

LEMMA HalfIs ==
  ASSUME NEW s \in Nat
  PROVE  /\ s \div 2 \in 0 .. s /\ s >= 1 => s \div 2 < s
         /\ \A m \in Nat : 2 * m <= s => m <= s \div 2
<1>1. s \div 2 \in Nat /\ s % 2 \in 0 .. 1 /\ s = 2 * (s \div 2) + (s % 2) BY Divides
<1> DEFINE h == s \div 2
           r == s % 2
<1> HIDE DEF h, r
<1>2. h \in Nat /\ r \in 0 .. 1 /\ s = 2 * h + r BY <1>1 DEF h, r
<1>3. h \in 0 .. s /\ (s >= 1 => h < s) /\ \A m \in Nat : 2 * m <= s => m <= h BY <1>2
<1> QED BY <1>3 DEF h

\* The table shrinks where a quarter of it would do.
LEMMA ShrinkIs ==
  ASSUME NEW s \in Nat, NEW m \in Nat, m <= Percent(s, ShrinkAt)
  PROVE  4 * m <= s /\ 2 * m <= s \div 2
<1> DEFINE a == s * ShrinkAt
           p == ShrinkAt
<1>1. p \in Nat /\ p <= 25 BY SizesAssumption
<1>2. a \in Nat /\ a <= 25 * s
  <2> HIDE DEF p
  <2>1. s * p + s * (25 - p) = 25 * s /\ s * p \in Nat /\ s * (25 - p) \in Nat BY <1>1
  <2>2. s * p <= 25 * s BY <2>1
  <2> QED BY <2>1, <2>2 DEF p
<1> HIDE DEF a
<1>3. a \div 100 \in Nat /\ a % 100 \in 0 .. 99 /\ a = 100 * (a \div 100) + (a % 100) BY <1>2, Divides
<1>4. m <= a \div 100 BY DEF Percent, a
<1>5. 4 * m <= s BY <1>2, <1>3, <1>4
<1> QED BY <1>5, HalfIs

LEMMA MaxIs ==
  ASSUME NEW a \in Nat, NEW b \in Nat
  PROVE  Max({a, b}) \in {a, b} /\ Max({a, b}) >= a /\ Max({a, b}) >= b
<1>1. \E x \in {a, b} : \A y \in {a, b} : x >= y OBVIOUS
<1> QED BY <1>1 DEF Max

LEMMA MinIs ==
  ASSUME NEW a \in Nat, NEW b \in Nat
  PROVE  Min({a, b}) \in {a, b} /\ Min({a, b}) <= a /\ Min({a, b}) <= b
<1>1. \E x \in {a, b} : \A y \in {a, b} : x <= y OBVIOUS
<1> QED BY <1>1 DEF Min

LEMMA ClampedIs ==
  ASSUME NEW p \in Nat, NEW low \in Nat, NEW high \in Nat, low <= high
  PROVE  Clamped(p, low, high) \in low .. high
<1> DEFINE m == Max({p, low})
<1>1. m \in Nat /\ m >= low BY MaxIs
<1> HIDE DEF m
<1>2. Min({m, high}) \in {m, high} /\ Min({m, high}) <= high BY <1>1, MinIs
<1> QED BY <1>1, <1>2 DEF Clamped, m

\* The halvings of filter exist, and leave room for the entries.
LEMMA Halvings ==
  ASSUME NEW z \in Nat, Size(buckets) = z, cap \in Nat, NEW n \in Nat
  PROVE  \E H : /\ \A s \in 0 .. z : H[s] = IF s > cap /\ n <= Percent(s, ShrinkAt) THEN H[s \div 2] ELSE s
                /\ FilterTarget(n) = Max({H[z], cap})
<1> DEFINE Cut(s) == s > cap /\ n <= Percent(s, ShrinkAt)
           Run(f, w) == [s \in 0 .. w |-> IF Cut(s) THEN f[s \div 2] ELSE s]
           Some == {w \in Nat : \E f : f = Run(f, w)}
<1>1. \A w \in Nat : w \in Some
  <2>1. 0 \in Some
    <3>1. ~Cut(0) OBVIOUS
    <3> HIDE DEF Cut
    <3>2. [s \in 0 .. 0 |-> 0] = Run([s \in 0 .. 0 |-> 0], 0) BY <3>1
    <3> QED BY <3>2
  <2>2. ASSUME NEW w \in Nat, w \in Some
        PROVE  w + 1 \in Some
    <3>1. PICK f : f = Run(f, w) BY <2>2
    <3> DEFINE v == w + 1
               last == IF Cut(v) THEN f[v \div 2] ELSE v
               g == [s \in 0 .. v |-> IF s = v THEN last ELSE f[s]]
    <3> HIDE DEF Cut
    <3>2. \A s \in 0 .. w : f[s] = IF Cut(s) THEN f[s \div 2] ELSE s BY <3>1
    <3>3. v \in Nat /\ v # 0 /\ v \div 2 \in 0 .. w
      <4>1. v \in Nat /\ v >= 1 OBVIOUS
      <4> HIDE DEF v
      <4>2. v \div 2 \in 0 .. v /\ v \div 2 < v BY <4>1, HalfIs
      <4> DEFINE x == v \div 2
      <4> HIDE DEF x
      <4>3. x \in 0 .. v /\ x < v BY <4>2 DEF x
      <4>4. x \in 0 .. w BY <4>3 DEF v
      <4> QED BY <4>1, <4>4 DEF x
    <3>4. \A s \in 0 .. w : s \in 0 .. v /\ s # v /\ s \div 2 \in 0 .. w
      <4> SUFFICES ASSUME NEW s \in 0 .. w PROVE s \in 0 .. v /\ s # v /\ s \div 2 \in 0 .. w OBVIOUS
      <4>1. s \div 2 \in 0 .. s BY HalfIs
      <4> DEFINE x == s \div 2
      <4> HIDE DEF x
      <4>2. x \in 0 .. s BY <4>1 DEF x
      <4>3. x \in 0 .. w /\ s \in 0 .. v /\ s # v BY <4>2
      <4> QED BY <4>3 DEF x
    <3>5. \A s \in 0 .. v : s = v \/ s \in 0 .. w OBVIOUS
    <3> HIDE DEF v
    <3>6. \A s \in 0 .. v : g[s] = IF Cut(s) THEN g[s \div 2] ELSE s
      <4>1. v \in 0 .. v /\ v \div 2 \in 0 .. v /\ v \div 2 # v BY <3>3, <3>4
      <4>2. g[v] = last /\ g[v \div 2] = f[v \div 2] BY <4>1
      <4>3. ASSUME NEW s \in 0 .. w PROVE g[s] = IF Cut(s) THEN g[s \div 2] ELSE s
        <5>1. g[s] = f[s] /\ g[s \div 2] = f[s \div 2] BY <3>4
        <5> QED BY <3>2, <5>1
      <4> QED BY <3>5, <4>2, <4>3
    <3>7. g = Run(g, v)
      <4> HIDE DEF g
      <4>1. g = [s \in 0 .. v |-> g[s]] BY DEF g
      <4> QED BY <3>6, <4>1
    <3>8. \E h : h = Run(h, v)
      <4> HIDE DEF g
      <4> QED BY <3>7
    <3> QED BY <3>3, <3>8 DEF v
  <2> HIDE DEF Some
  <2> QED BY <2>1, <2>2, Induct
<1> DEFINE H == CHOOSE f : f = Run(f, z)
<1>2. H = Run(H, z) BY <1>1
<1>3. FilterTarget(n) = Max({H[z], cap}) BY DEF FilterTarget
<1>4. \A s \in 0 .. z : H[s] = IF Cut(s) THEN H[s \div 2] ELSE s
  <2> HIDE DEF H, Cut
  <2> QED BY <1>2
<1> QED BY <1>3, <1>4

LEMMA FilteredTo ==
  ASSUME NEW z \in Nat, Size(buckets) = z, cap \in Nat, cap >= 2, NEW n \in Nat, n >= 1, n < z
  PROVE  FilterTarget(n) \in Nat /\ FilterTarget(n) > n /\ FilterTarget(n) >= 2
<1>1. PICK H : /\ \A s \in 0 .. z : H[s] = IF s > cap /\ n <= Percent(s, ShrinkAt) THEN H[s \div 2] ELSE s
               /\ FilterTarget(n) = Max({H[z], cap})
  BY Halvings
<1> DEFINE Wide(s) == H[s] \in Nat /\ H[s] > n
           Ample == {w \in Nat : \A s \in 0 .. w : s <= z /\ s > n => Wide(s)}
<1>2. 0 \in Ample OBVIOUS
<1>3. ASSUME NEW w \in Nat, w \in Ample
      PROVE  w + 1 \in Ample
  <2> SUFFICES ASSUME NEW s \in 0 .. w + 1, s <= z, s > n PROVE Wide(s) OBVIOUS
  <2>1. CASE s \in 0 .. w BY <1>3, <2>1
  <2>2. CASE s \notin 0 .. w
    <3>1. s = w + 1 /\ s \in 0 .. z BY <2>2
    <3>2. CASE s > cap /\ n <= Percent(s, ShrinkAt)
      <4> DEFINE x == s \div 2
      <4>1. 2 * n <= x BY <3>2, ShrinkIs
      <4>2. x \in 0 .. s /\ x < s BY HalfIs
      <4> HIDE DEF x
      <4>3. x \in 0 .. w /\ x <= z /\ x > n BY <3>1, <4>1, <4>2
      <4>4. Wide(x) BY <1>3, <4>3
      <4>5. H[s] = H[x] BY <1>1, <3>1, <3>2 DEF x
      <4> QED BY <4>4, <4>5
    <3>3. CASE ~(s > cap /\ n <= Percent(s, ShrinkAt))
      <4>1. H[s] = s BY <1>1, <3>1, <3>3
      <4> QED BY <4>1
    <3> QED BY <3>2, <3>3
  <2> QED BY <2>1, <2>2
<1> HIDE DEF Ample
<1>4. \A w \in Nat : w \in Ample BY <1>2, <1>3, Induct
<1>5. H[z] \in Nat /\ H[z] > n BY <1>4 DEF Ample
<1> DEFINE h == H[z]
<1>6. Max({h, cap}) \in {h, cap} /\ Max({h, cap}) >= h /\ Max({h, cap}) >= cap BY <1>5, MaxIs
<1>7. Max({h, cap}) \in Nat BY <1>5, <1>6
<1> HIDE DEF h
<1> QED BY <1>1, <1>5, <1>6, <1>7 DEF h

-----------------------------------------------------------------------------
(* What a table stands for *)

Graph(f, P) == f = [k \in {e[1] : e \in P} |-> f[k]] /\ \A e \in P : f[e[1]] = e[2]
Less(P, k) == {e \in P : e[1] # k}

LEMMA ContentsAre ==
  ASSUME NEW n, NEW t, Table(t, n), Once(t, n)
  PROVE  Graph(ContentsOf(t), Pairs(t))
<1> DEFINE entries == {t[i] : i \in Used(t)}
           f == [k \in {e.key : e \in entries} |-> (CHOOSE e \in entries : e.key = k).val]
<1>1. ContentsOf(t) = f BY DEF ContentsOf
<1>2. {e[1] : e \in Pairs(t)} = {e.key : e \in entries}
  <2>1. ASSUME NEW x \in {e[1] : e \in Pairs(t)} PROVE x \in {e.key : e \in entries}
    <3>1. PICK i \in Used(t) : x = <<t[i].key, t[i].val>>[1] BY <2>1 DEF Pairs
    <3>2. x = t[i].key /\ t[i] \in entries BY <3>1
    <3> HIDE DEF entries
    <3> QED BY <3>2
  <2>2. ASSUME NEW x \in {e.key : e \in entries} PROVE x \in {e[1] : e \in Pairs(t)}
    <3>1. PICK i \in Used(t) : x = t[i].key BY <2>2
    <3>2. <<t[i].key, t[i].val>> \in Pairs(t) /\ <<t[i].key, t[i].val>>[1] = x BY <3>1 DEF Pairs
    <3> QED BY <3>2
  <2> QED BY <2>1, <2>2
<1>3. ASSUME NEW i \in Used(t)
      PROVE  f[t[i].key] = t[i].val
  <2>1. t[i] \in entries OBVIOUS
  <2>2. \A e \in entries : e.key = t[i].key => e = t[i]
    <3> SUFFICES ASSUME NEW j \in Used(t), t[j].key = t[i].key PROVE t[j] = t[i] OBVIOUS
    <3>1. i \in 0 .. n - 1 /\ j \in 0 .. n - 1 /\ t[i].dib # 0 /\ t[j].dib # 0 BY TableIs
    <3> QED BY <3>1 DEF Once
  <2> DEFINE c == CHOOSE e \in entries : e.key = t[i].key
  <2> HIDE DEF entries
  <2>3. c \in entries /\ c.key = t[i].key BY <2>1
  <2>4. c = t[i] BY <2>2, <2>3
  <2>5. t[i].key \in {e.key : e \in entries} BY <2>1
  <2> QED BY <2>4, <2>5
<1>4. \A e \in Pairs(t) : f[e[1]] = e[2]
  <2> HIDE DEF f
  <2> QED BY <1>3 DEF Pairs
<1>5. f = [k \in {e.key : e \in entries} |-> f[k]] OBVIOUS
<1> HIDE DEF f, entries
<1> QED BY <1>1, <1>2, <1>4, <1>5 DEF Graph

LEMMA SameGraph ==
  ASSUME NEW P, NEW f, NEW g, Graph(f, P), Graph(g, P)
  PROVE  f = g
<1> DEFINE D == {e[1] : e \in P}
<1>1. \A k \in D : f[k] = g[k] BY DEF Graph
<1>2. f = [k \in D |-> f[k]] /\ g = [k \in D |-> g[k]] BY DEF Graph
<1> HIDE DEF D
<1> QED BY <1>1, <1>2

LEMMA UpdatedGraph ==
  ASSUME NEW P, NEW f, Graph(f, P), NEW k, NEW v
  PROVE  Graph(Updated(f, k, v), Less(P, k) \cup {<<k, v>>})
<1> DEFINE D == {e[1] : e \in P}
           Q == Less(P, k) \cup {<<k, v>>}
           g == [j \in D \cup {k} |-> IF j = k THEN v ELSE f[j]]
<1>1. DOMAIN f = D
  <2>1. f = [j \in D |-> f[j]] BY DEF Graph
  <2> HIDE DEF D
  <2> QED BY <2>1
<1>2. Updated(f, k, v) = g BY <1>1 DEF Updated
<1>3. {e[1] : e \in Q} = D \cup {k}
  <2>0. <<k, v>>[1] = k OBVIOUS
  <2>1. ASSUME NEW x \in {e[1] : e \in Q} PROVE x \in D \cup {k} BY <2>0 DEF Less
  <2>2. ASSUME NEW x \in D PROVE x \in {e[1] : e \in Q}
    <3>1. PICK e \in P : x = e[1] OBVIOUS
    <3>2. CASE x = k BY <2>0, <3>2
    <3>3. CASE x # k BY <3>1, <3>3 DEF Less
    <3> QED BY <3>2, <3>3
  <2>3. k \in {e[1] : e \in Q} BY <2>0
  <2> HIDE DEF Q, D
  <2> QED BY <2>1, <2>2, <2>3
<1>4. ASSUME NEW e \in Q PROVE g[e[1]] = e[2]
  <2>1. CASE e = <<k, v>> BY <2>1
  <2>2. CASE e \in P /\ e[1] # k BY <2>2 DEF Graph
  <2> QED BY <2>1, <2>2 DEF Less
<1>5. g = [j \in D \cup {k} |-> g[j]] OBVIOUS
<1> HIDE DEF g, D, Q
<1> QED BY <1>2, <1>3, <1>4, <1>5 DEF Graph, Q

LEMMA RestrictedGraph ==
  ASSUME NEW P, NEW f, Graph(f, P), NEW S
  PROVE  Graph(Restrict(f, DOMAIN f \ S), {e \in P : e[1] \notin S})
<1> DEFINE D == {e[1] : e \in P}
           Q == {e \in P : e[1] \notin S}
           g == [j \in D \ S |-> f[j]]
<1>1. DOMAIN f = D
  <2>1. f = [j \in D |-> f[j]] BY DEF Graph
  <2> HIDE DEF D
  <2> QED BY <2>1
<1>2. Restrict(f, DOMAIN f \ S) = g BY <1>1 DEF Restrict
<1>3. {e[1] : e \in Q} = D \ S OBVIOUS
<1>4. ASSUME NEW e \in Q PROVE g[e[1]] = e[2] BY DEF Graph
<1>5. g = [j \in D \ S |-> g[j]] OBVIOUS
<1> HIDE DEF g, D, Q
<1> QED BY <1>2, <1>3, <1>4, <1>5 DEF Graph, Q

\* Fewer pairs are a restriction.
Shrunk(f, g) == \E S \in SUBSET DOMAIN f : g = Restrict(f, DOMAIN f \ S)

LEMMA LessGraph ==
  ASSUME NEW P, NEW f, Graph(f, P), NEW Q, Q \subseteq P, NEW g, Graph(g, Q)
  PROVE  Shrunk(f, g)
<1> DEFINE D == {e[1] : e \in P}
           B == {e[1] : e \in Q}
           S == D \ B
<1>1. f = [j \in D |-> f[j]] /\ g = [j \in B |-> g[j]] BY DEF Graph
<1>2. B \subseteq D /\ \A k \in B : g[k] = f[k] BY DEF Graph
<1> HIDE DEF D, B
<1>3. DOMAIN f = D /\ DOMAIN f \ S = B /\ S \in SUBSET DOMAIN f BY <1>1, <1>2
<1>4. g = [j \in B |-> f[j]] BY <1>1, <1>2
<1> HIDE DEF S
<1> QED BY <1>3, <1>4 DEF Restrict, Shrunk

\* The pairs of the other keys.
LEMMA OtherPairs ==
  ASSUME NEW n, NEW t, Table(t, n), Once(t, n), NEW k
  PROVE  /\ NotIn(k, t, n) => Less(Pairs(t), k) = Pairs(t)
         /\ \A q \in 0 .. n - 1 : t[q].dib # 0 /\ t[q].key = k =>
              Less(Pairs(t), k) = Pairs(t) \ {Pair(t[q])} /\ Pair(t[q]) \in Pairs(t)
<1>1. Used(t) = {i \in 0 .. n - 1 : t[i].dib # 0} BY TableIs
<1>2. ASSUME NotIn(k, t, n) PROVE Less(Pairs(t), k) = Pairs(t)
  <2>1. \A e \in Pairs(t) : e[1] # k BY <1>1, <1>2 DEF Pairs, NotIn
  <2> QED BY <2>1 DEF Less
<1>3. ASSUME NEW q \in 0 .. n - 1, t[q].dib # 0, t[q].key = k
      PROVE  Less(Pairs(t), k) = Pairs(t) \ {Pair(t[q])} /\ Pair(t[q]) \in Pairs(t)
  <2>1. Pair(t[q]) \in Pairs(t) /\ Pair(t[q])[1] = k BY <1>1, <1>3 DEF Pairs, Pair
  <2>2. ASSUME NEW e \in Pairs(t), e[1] = k PROVE e = Pair(t[q])
    <3>1. PICK i \in 0 .. n - 1 : t[i].dib # 0 /\ e = <<t[i].key, t[i].val>> BY <1>1 DEF Pairs
    <3>2. i = q BY <1>3, <2>2, <3>1 DEF Once
    <3> QED BY <3>1, <3>2 DEF Pair
  <2> QED BY <2>1, <2>2 DEF Less
<1> QED BY <1>2, <1>3

\* What becomes of the pairs when k is given the value v: in its bucket, or in a new one.
LEMMA AssignedIs ==
  ASSUME NEW n, NEW t, Robin(t, n), NEW q \in 0 .. n - 1, t[q].dib # 0, NEW k, t[q].key = k, NEW v \in Values \cup {None}
  PROVE  LET w == Put(t, q, Valued(t[q], v)) IN
         Robin(w, n) /\ Used(w) = Used(t) /\ Pairs(w) = Less(Pairs(t), k) \cup {<<k, v>>}
<1>1. Table(t, n) /\ Once(t, n) BY DEF Robin
<1>2. Less(Pairs(t), k) = Pairs(t) \ {Pair(t[q])} BY <1>1, OtherPairs
<1> DEFINE w == Put(t, q, Valued(t[q], v))
<1>3. Robin(w, n) /\ Used(w) = Used(t) /\ Pairs(w) = (Pairs(t) \ {Pair(t[q])}) \cup {<<t[q].key, v>>} BY ValuedIs
<1> HIDE DEF w
<1> QED BY <1>2, <1>3 DEF w

LEMMA OneEntry ==
  ASSUME NEW k \in Keys, NEW v \in Values \cup {None}
  PROVE  LET e == Entry(k, v) IN
         e \in Bucket /\ e.dib # 0 /\ e.key = k /\ e.val = v /\ Pair(e) = <<k, v>>
BY DEF Entry, Bucket, Pair

LEMMA PlacedNew ==
  ASSUME NEW n, NEW g, Robin(g, n), Cardinality(Used(g)) < n, NEW k \in Keys, NEW v \in Values \cup {None}, NotIn(k, g, n)
  PROVE  LET u == Placed(g, Entry(k, v)) IN
         /\ Robin(u, n) /\ Cardinality(Used(u)) = Cardinality(Used(g)) + 1
         /\ Pairs(u) = Less(Pairs(g), k) \cup {<<k, v>>}
<1> DEFINE e == Entry(k, v)
<1>1. e \in Bucket /\ e.dib # 0 /\ e.key = k /\ Pair(e) = <<k, v>> BY OneEntry
<1>2. Table(g, n) /\ Once(g, n) BY DEF Robin
<1>3. Less(Pairs(g), k) = Pairs(g) BY <1>2, OtherPairs
<1> HIDE DEF e
<1>4. NotIn(e.key, g, n) BY <1>1
<1>5. /\ Robin(Placed(g, e), n) /\ Cardinality(Used(Placed(g, e))) = Cardinality(Used(g)) + 1
      /\ Pairs(Placed(g, e)) = Pairs(g) \cup {Pair(e)}
  BY <1>1, <1>4, Places
<1> QED BY <1>1, <1>3, <1>5 DEF e

LEMMA InsertedIs ==
  ASSUME NEW n, NEW g, Robin(g, n), Cardinality(Used(g)) < n, NEW k \in Keys, NEW v \in Values \cup {None}
  PROVE  LET s == Insertion(g, Entry(k, v), Entry(k, v)) IN
         /\ Robin(s.table, n) /\ Pairs(s.table) = Less(Pairs(g), k) \cup {<<k, v>>}
         /\ s.found => Cardinality(Used(s.table)) = Cardinality(Used(g))
         /\ ~s.found => Cardinality(Used(s.table)) = Cardinality(Used(g)) + 1
<1> DEFINE e == Entry(k, v)
           s == Insertion(g, e, e)
<1>1. e \in Bucket /\ e.dib # 0 /\ e.key = k /\ e.val = v /\ Pair(e) = <<k, v>> BY OneEntry
<1>2. Table(g, n) /\ Once(g, n) BY DEF Robin
<1> HIDE DEF e
<1>3. CASE NotIn(k, g, n)
  <2>1. NotIn(e.key, g, n) /\ e.key \in {None, e.key} /\ e.val \in Values \cup {None} BY <1>1, <1>3
  <2>2. /\ Robin(Insertion(g, e, e).table, n) /\ ~Insertion(g, e, e).found
        /\ Cardinality(Used(Insertion(g, e, e).table)) = Cardinality(Used(g)) + 1
        /\ Pairs(Insertion(g, e, e).table) = Pairs(g) \cup {Pair(e)}
    BY <1>1, <2>1, PlacedIn
  <2>3. Less(Pairs(g), k) = Pairs(g) BY <1>2, <1>3, OtherPairs
  <2> HIDE DEF s
  <2> QED BY <1>1, <2>2, <2>3 DEF s, e
<1>4. CASE ~NotIn(k, g, n)
  <2>1. PICK q \in 0 .. n - 1 : g[q].dib # 0 /\ g[q].key = k BY <1>4 DEF NotIn
  <2>2. e.key = g[q].key BY <1>1, <2>1
  <2>3. Insertion(g, e, e).table = Put(g, q, Valued(g[q], e.val)) /\ Insertion(g, e, e).found
    BY <1>1, <2>1, <2>2, InsertFound
  <2>4. /\ Robin(Put(g, q, Valued(g[q], v)), n) /\ Used(Put(g, q, Valued(g[q], v))) = Used(g)
        /\ Pairs(Put(g, q, Valued(g[q], v))) = Less(Pairs(g), k) \cup {<<k, v>>}
    BY <2>1, AssignedIs
  <2>5. Insertion(g, e, e).table = Put(g, q, Valued(g[q], v)) BY <1>1, <2>3
  <2> HIDE DEF s
  <2> QED BY <2>3, <2>4, <2>5 DEF s, e
<1> QED BY <1>3, <1>4

-----------------------------------------------------------------------------
(* The state of a map *)

HashFields ==
  /\ kind \in Tables /\ oom \in BOOLEAN /\ count \in Nat /\ cap \in Nat
  /\ loadfactor \in 1 .. 99 /\ growpower \in Nat \ {0}
  /\ \E f \in 1 .. 99 : growat = Percent(Size(buckets), f) /\ (cpp => f = loadfactor)
  /\ shrinkat = Percent(Size(buckets), ShrinkAt)

TableFits(t) ==
  /\ Table(t, Size(t)) /\ Once(t, Size(t)) /\ Cardinality(Used(t)) < Size(t)
  /\ \A i \in 0 .. Size(t) - 1 : t[i].dib <= Size(t)

HashTable ==
  \/ buckets = EmptyTable(0) /\ cap = 0 /\ count = 0 /\ broken = "no"
  \/ /\ TableFits(buckets) /\ cap >= 2 /\ count = Cardinality(Used(buckets))
     /\ (broken = "no" /\ Robin(buckets, Size(buckets))) \/ broken = "holes"

HashInv == HashFields /\ HashTable

LEMMA RoomyFits ==
  ASSUME NEW t, Roomy(t)
  PROVE  TableFits(t) /\ Size(t) \in Nat /\ Size(t) >= 2
<1> DEFINE n == Size(t)
<1>1. Table(t, n) /\ Once(t, n) /\ n \in Nat /\ n >= 2 /\ Cardinality(Used(t)) < n /\ \A i \in 0 .. n - 1 : t[i].dib \in Nat
  BY TableIs DEF Roomy, Robin
<1>2. \A i \in 0 .. n - 1 : t[i].dib # 0 => t[i].dib <= n BY DEF Roomy, Robin, Homes
<1> HIDE DEF n
<1>3. \A i \in 0 .. n - 1 : t[i].dib <= n BY <1>1, <1>2
<1> QED BY <1>1, <1>3 DEF TableFits, n

LEMMA RoomyIs ==
  ASSUME NEW t, NEW n, Robin(t, n), Cardinality(Used(t)) < n
  PROVE  Roomy(t) /\ Size(t) = n
<1>1. Size(t) = n BY TableIs DEF Robin
<1> QED BY <1>1 DEF Roomy

\* A step that leaves a table with room, and limits that fit it, keeps the invariant.
LEMMA Establish ==
  ASSUME NEW t, buckets' = t, Roomy(t), count' = Cardinality(Used(t)), cap' \in Nat, cap' >= 2, broken' = "no",
         NEW f \in 1 .. 99, growat' = Percent(Size(t), f), cpp' => f = loadfactor',
         shrinkat' = Percent(Size(t), ShrinkAt),
         kind' \in Tables, oom' \in BOOLEAN, loadfactor' \in 1 .. 99, growpower' \in Nat \ {0}
  PROVE  HashInv'
<1>1. TableFits(t) /\ Cardinality(Used(t)) \in Nat
  <2>1. Table(t, Size(t)) BY DEF Roomy, Robin
  <2> QED BY <2>1, RoomyFits, RoomLeft
<1>2. HashFields' BY <1>1 DEF HashFields
<1>3. HashTable' BY <1>1 DEF HashTable, Roomy
<1> QED BY <1>2, <1>3 DEF HashInv

LEMMA Present ==
  ASSUME HashInv, ~Absent
  PROVE  /\ TableFits(buckets) /\ cap >= 2 /\ cap \in Nat /\ count = Cardinality(Used(buckets))
         /\ Size(buckets) \in Nat /\ Size(buckets) >= 2 /\ Table(buckets, Size(buckets))
         /\ DOMAIN buckets = 0 .. Size(buckets) - 1 /\ count \in Nat /\ count < Size(buckets)
         /\ broken = "no" => Robin(buckets, Size(buckets)) /\ Roomy(buckets) /\ Room(buckets, Size(buckets))
<1>1. buckets # EmptyTable(0) BY DEF Absent, EmptyTable
<1>2. /\ TableFits(buckets) /\ cap >= 2 /\ count = Cardinality(Used(buckets))
      /\ broken = "no" => Robin(buckets, Size(buckets))
  BY <1>1 DEF HashInv, HashTable
<1>3. Table(buckets, Size(buckets)) /\ Cardinality(Used(buckets)) < Size(buckets) BY <1>2 DEF TableFits
<1>4. /\ Size(buckets) \in Nat /\ Size(buckets) >= 2 /\ DOMAIN buckets = 0 .. Size(buckets) - 1
      /\ Room(buckets, Size(buckets))
  BY <1>3, TableIs, RoomLeft
<1>5. cap \in Nat /\ count \in Nat BY DEF HashInv, HashFields
<1> QED BY <1>2, <1>3, <1>4, <1>5 DEF Roomy

LEMMA NoPairs ==
  ASSUME Absent
  PROVE  Used(buckets) = {} /\ Pairs(buckets) = {}
<1>1. Used(buckets) = {} BY DEF Absent, Used
<1> QED BY <1>1 DEF Pairs

\* What the map stands for, with or without holes.
LEMMA ContentsGraph ==
  ASSUME HashInv
  PROVE  Graph(Contents, Pairs(buckets))
<1>1. CASE Absent
  <2>1. Used(buckets) = {} BY <1>1, NoPairs
  <2>2. Pairs(buckets) = {} BY <1>1, NoPairs
  <2>3. \A x : x \notin {buckets[i] : i \in Used(buckets)} BY <2>1
  <2>4. {buckets[i] : i \in Used(buckets)} = {} BY <2>3
  <2> DEFINE f == [k \in {} |-> (CHOOSE e \in {} : e.key = k).val]
  <2>5. Contents = f BY <2>4 DEF Contents, ContentsOf
  <2>6. f = [k \in {} |-> f[k]] OBVIOUS
  <2> HIDE DEF f
  <2>7. {e[1] : e \in {}} = {} OBVIOUS
  <2> QED BY <2>2, <2>5, <2>6, <2>7 DEF Graph
<1>2. CASE ~Absent
  <2>1. Table(buckets, Size(buckets)) /\ Once(buckets, Size(buckets)) BY <1>2, Present DEF TableFits
  <2> QED BY <2>1, ContentsAre DEF Contents
<1> QED BY <1>1, <1>2

\* What a call may do to the pairs: drop some, or give one key a value.
Follows ==
  \/ Pairs(buckets)' \subseteq Pairs(buckets)
  \/ \E k \in Keys, v \in Values \cup {None} : Pairs(buckets)' = Less(Pairs(buckets), k) \cup {<<k, v>>}

\* The table in which a new entry is put.
LEMMA GrownIs ==
  ASSUME HashInv, Works
  PROVE  LET n == IF MustGrow THEN NextSize ELSE Size(buckets) IN
         /\ Robin(Grown, n) /\ Table(Grown, n) /\ n \in Nat /\ count + 1 < n
         /\ Cardinality(Used(Grown)) = count /\ Pairs(Grown) = Pairs(buckets)
<1> DEFINE z == Size(buckets)
<1>1. /\ Robin(buckets, z) /\ Table(buckets, z) /\ z \in Nat /\ z >= 2
      /\ count = Cardinality(Used(buckets)) /\ count \in Nat /\ count < z
  BY Present DEF Works
<1>2. Once(buckets, z) BY <1>1 DEF Robin
<1>3. CASE MustGrow
  <2>1. growpower \in Nat /\ growpower >= 1 BY DEF HashInv, HashFields
  <2> HIDE DEF z
  <2>2. z * 2 ^ growpower \in Nat /\ z * 2 ^ growpower >= 2 * z BY <1>1, <2>1, DoubledAtLeast
  <2> DEFINE m == z * 2 ^ growpower
  <2>3. NextSize = m /\ Grown = Rehashed(buckets, m) BY <1>3 DEF NextSize, Grown, z
  <2>4. m \in Nat /\ m >= 2 * z BY <2>2
  <2> HIDE DEF m
  <2>5. m >= 2 /\ count < m /\ count + 1 < m BY <1>1, <2>4
  <2>6. /\ Robin(Rehashed(buckets, m), m) /\ Pairs(Rehashed(buckets, m)) = Pairs(buckets)
        /\ Cardinality(Used(Rehashed(buckets, m))) = Cardinality(Used(buckets))
    BY <1>1, <1>2, <2>4, <2>5, RehashedIs
  <2> QED BY <1>1, <1>3, <2>3, <2>4, <2>5, <2>6 DEF Robin
<1>4. CASE ~MustGrow
  <2>1. PICK f \in 1 .. 99 : growat = Percent(z, f) BY DEF HashInv, HashFields
  <2>2. growat \in Nat /\ growat < z
    <3>1. z \in Nat \ {0} /\ f \in 0 .. 99 BY <1>1
    <3> HIDE DEF z
    <3> QED BY <2>1, <3>1, Quotient
  <2>3. ~(count >= growat) BY <1>4 DEF MustGrow
  <2> HIDE DEF z
  <2>4. count + 1 < z BY <1>1, <2>2, <2>3
  <2> QED BY <1>1, <1>4, <2>4 DEF Grown, z
<1> QED BY <1>3, <1>4

\* The limits that go with it.
LEMMA GrownLimitsAre ==
  ASSUME HashInv, Works, GrownLimits, kind' = kind, loadfactor' = loadfactor
  PROVE  LET n == IF MustGrow THEN NextSize ELSE Size(buckets) IN
         /\ \E f \in 1 .. 99 : growat' = Percent(n, f) /\ (cpp' => f = loadfactor')
         /\ shrinkat' = Percent(n, ShrinkAt)
<1>1. cpp' <=> cpp BY DEF cpp
<1>2. loadfactor \in 1 .. 99 /\ GrowAt \in 1 .. 99 BY SizesAssumption DEF HashInv, HashFields
<1>3. CASE MustGrow
  <2> DEFINE f == IF cpp THEN loadfactor ELSE GrowAt
  <2>1. f \in 1 .. 99 /\ (cpp => f = loadfactor) BY <1>2
  <2>2. growat' = Percent(NextSize, f) /\ shrinkat' = Percent(NextSize, ShrinkAt) BY <1>3 DEF GrownLimits
  <2> HIDE DEF f
  <2> QED BY <1>1, <1>3, <2>1, <2>2
<1>4. CASE ~MustGrow
  <2>1. growat' = growat /\ shrinkat' = shrinkat BY <1>4 DEF GrownLimits
  <2> QED BY <1>1, <1>4, <2>1 DEF HashInv, HashFields
<1> QED BY <1>3, <1>4

\* A key that is not found is placed.
LEMMA PutNew ==
  ASSUME HashInv, Works, NEW k \in Keys, NEW v \in Values \cup {None}, Position(buckets, k) = -1
  PROVE  LET n == IF MustGrow THEN NextSize ELSE Size(buckets)
             t == Placed(Grown, Entry(k, v))
         IN  /\ Robin(t, n) /\ Cardinality(Used(t)) = count + 1
             /\ Pairs(t) = Less(Pairs(buckets), k) \cup {<<k, v>>}
<1> DEFINE n == IF MustGrow THEN NextSize ELSE Size(buckets)
           g == Grown
<1>0. broken = "no" /\ ~Absent BY DEF Works
<1>2. /\ Robin(g, n) /\ Table(g, n) /\ n \in Nat /\ count + 1 < n
      /\ Cardinality(Used(g)) = count /\ count \in Nat /\ Pairs(g) = Pairs(buckets)
  BY GrownIs DEF HashInv, HashFields
<1>6. NotIn(k, g, n)
  <2> DEFINE z == Size(buckets)
  <2>1. Robin(buckets, z) /\ Table(buckets, z) BY <1>0, Present
  <2>2. NotIn(k, buckets, z)
    <3> HIDE DEF z
    <3>1. Position(buckets, k) \notin 0 .. z - 1 OBVIOUS
    <3> QED BY <2>1, <3>1, PositionIs
  <2> HIDE DEF z, g, n
  <2>3. \A x : <<k, x>> \notin Pairs(buckets) BY <2>1, <2>2, NotInPairs
  <2> QED BY <1>2, <2>3, NotInPairs
<1> HIDE DEF n, g
<1>7. Cardinality(Used(g)) < n BY <1>2
<1> QED BY <1>2, <1>6, <1>7, PlacedNew DEF g, n

LEMMA SettingsKept ==
  ASSUME HashInv, ~Absent, UNCHANGED Settings
  PROVE  /\ kind' = kind /\ kind' \in Tables /\ (cpp' <=> cpp) /\ cap' \in Nat /\ cap' >= 2 /\ broken' = broken
         /\ loadfactor' = loadfactor /\ loadfactor' \in 1 .. 99 /\ growpower' \in Nat \ {0}
<1>1. cap \in Nat /\ cap >= 2 BY Present
<1> QED BY <1>1 DEF Settings, HashInv, HashFields, cpp

LEMMA PutCKeeps ==
  ASSUME HashInv, NEW k \in Keys, NEW v \in Values \cup {None}, PutC(k, v)
  PROVE  HashInv' /\ Follows
<1> DEFINE n == IF MustGrow THEN NextSize ELSE Size(buckets)
           s == InsertedWhileSearching(k, v)
           t == s.table
<1>0. Works /\ broken = "no" /\ ~Absent BY DEF PutC, Works
<1>1. /\ buckets' = t /\ (count' = IF s.found THEN count ELSE count + 1)
      /\ GrownLimits /\ oom' = FALSE /\ UNCHANGED Settings
  BY DEF PutC
<1>2. /\ Robin(Grown, n) /\ n \in Nat /\ count + 1 < n /\ Pairs(Grown) = Pairs(buckets)
      /\ Cardinality(Used(Grown)) = count /\ count \in Nat
  BY <1>0, GrownIs DEF HashInv, HashFields
<1>4. PICK f \in 1 .. 99 : growat' = Percent(n, f) /\ (cpp' => f = loadfactor')
  BY <1>0, <1>1, SettingsKept, GrownLimitsAre
<1>5. shrinkat' = Percent(n, ShrinkAt) BY <1>0, <1>1, SettingsKept, GrownLimitsAre
<1> HIDE DEF n
<1>6. /\ Robin(t, n) /\ Pairs(t) = Less(Pairs(buckets), k) \cup {<<k, v>>}
      /\ s.found => Cardinality(Used(t)) = count
      /\ ~s.found => Cardinality(Used(t)) = count + 1
  <2>1. Cardinality(Used(Grown)) < n BY <1>2
  <2> QED BY <1>2, <2>1, InsertedIs DEF InsertedWhileSearching
<1> HIDE DEF s
<1>7. Cardinality(Used(t)) < n /\ count' = Cardinality(Used(t)) BY <1>1, <1>2, <1>6
<1> HIDE DEF t
<1>8. Roomy(t) /\ Size(t) = n BY <1>6, <1>7, RoomyIs
<1>9. /\ kind' \in Tables /\ cap' \in Nat /\ cap' >= 2 /\ broken' = "no" /\ oom' \in BOOLEAN
      /\ loadfactor' \in 1 .. 99 /\ growpower' \in Nat \ {0}
  BY <1>0, <1>1, SettingsKept
<1>10. HashInv' BY <1>1, <1>4, <1>5, <1>7, <1>8, <1>9, Establish
<1>11. Follows BY <1>1, <1>6 DEF Follows
<1> QED BY <1>10, <1>11

LEMMA PlaceNewKeeps ==
  ASSUME HashInv, NEW k \in Keys, NEW v \in Values \cup {None}, PlaceNew(k, v)
  PROVE  HashInv' /\ Follows
<1> DEFINE n == IF MustGrow THEN NextSize ELSE Size(buckets)
           t == Placed(Grown, Entry(k, v))
<1>0. Works /\ broken = "no" /\ ~Absent BY DEF PlaceNew, Works
<1>1. /\ buckets' = t /\ count' = count + 1
      /\ GrownLimits /\ oom' = oom /\ UNCHANGED Settings /\ Position(buckets, k) = -1
  BY DEF PlaceNew
<1>2. n \in Nat /\ count + 1 < n /\ count \in Nat /\ oom \in BOOLEAN BY <1>0, GrownIs DEF HashInv, HashFields
<1>4. PICK f \in 1 .. 99 : growat' = Percent(n, f) /\ (cpp' => f = loadfactor')
  BY <1>0, <1>1, SettingsKept, GrownLimitsAre
<1>5. shrinkat' = Percent(n, ShrinkAt) BY <1>0, <1>1, SettingsKept, GrownLimitsAre
<1>7. Robin(t, n) /\ Cardinality(Used(t)) = count + 1 /\ Pairs(t) = Less(Pairs(buckets), k) \cup {<<k, v>>}
  BY <1>0, <1>1, PutNew
<1> HIDE DEF n, t
<1>8. Roomy(t) /\ Size(t) = n BY <1>2, <1>7, RoomyIs
<1>9. /\ kind' \in Tables /\ cap' \in Nat /\ cap' >= 2 /\ broken' = "no" /\ oom' \in BOOLEAN
      /\ loadfactor' \in 1 .. 99 /\ growpower' \in Nat \ {0}
  BY <1>0, <1>1, <1>2, SettingsKept
<1>10. HashInv' BY <1>1, <1>4, <1>5, <1>7, <1>8, <1>9, Establish
<1>11. Follows BY <1>1, <1>7 DEF Follows
<1> QED BY <1>10, <1>11

\* Only fields that the invariant leaves free have changed.
LEMMA PutFailsKeeps ==
  ASSUME HashInv, NEW k \in Keys, PutFails(k)
  PROVE  HashInv' /\ Follows
<1>1. UNCHANGED <<buckets, count, growat, shrinkat, cap, loadfactor, growpower, kind, broken>> /\ oom' = TRUE
  BY DEF PutFails, Settings
<1>2. HashFields' BY <1>1 DEF HashInv, HashFields, cpp
<1>3. HashTable' BY <1>1 DEF HashInv, HashTable
<1>4. HashInv' BY <1>2, <1>3 DEF HashInv
<1>5. Follows BY <1>1 DEF Follows
<1> QED BY <1>4, <1>5

LEMMA AssignKeeps ==
  ASSUME HashInv, NEW k \in Keys, NEW v \in Values, AssignCpp(k, v)
  PROVE  HashInv' /\ Follows
<1> DEFINE z == Size(buckets)
           p == Position(buckets, k)
           t == Put(buckets, p, Valued(buckets[p], v))
<1>0. Works /\ broken = "no" /\ ~Absent /\ p # -1 BY DEF AssignCpp, Works
<1>1. /\ buckets' = t /\ growat' = growat /\ shrinkat' = shrinkat /\ count' = count /\ oom' = oom
      /\ UNCHANGED Settings
  <2>1. AssignedOrPlaced(k, v) = t BY <1>0 DEF AssignedOrPlaced, Put, Valued
  <2> HIDE DEF t
  <2> QED BY <2>1 DEF AssignCpp, SameSize
<1>2. Robin(buckets, z) /\ z \in Nat /\ count = Cardinality(Used(buckets)) /\ count < z BY <1>0, Present
<1>3. p \in 0 .. z - 1 /\ buckets[p].dib # 0 /\ buckets[p].key = k
  <2> HIDE DEF z
  <2> QED BY <1>0, <1>2, PositionIs
<1>4. Robin(t, z) /\ Used(t) = Used(buckets) /\ Pairs(t) = Less(Pairs(buckets), k) \cup {<<k, v>>}
  <2> HIDE DEF z, p
  <2> QED BY <1>2, <1>3, AssignedIs
<1> HIDE DEF t, p
<1>5. Roomy(t) /\ Size(t) = z
  <2> HIDE DEF z
  <2> QED BY <1>2, <1>4, RoomyIs
<1>6. PICK f \in 1 .. 99 : growat = Percent(z, f) /\ (cpp => f = loadfactor) BY DEF HashInv, HashFields
<1>7. shrinkat = Percent(z, ShrinkAt) /\ oom \in BOOLEAN BY DEF HashInv, HashFields
<1>8. /\ kind' \in Tables /\ (cpp' <=> cpp) /\ cap' \in Nat /\ cap' >= 2 /\ broken' = "no"
      /\ loadfactor' = loadfactor /\ loadfactor' \in 1 .. 99 /\ growpower' \in Nat \ {0}
  BY <1>0, <1>1, SettingsKept
<1>9. growat' = Percent(Size(t), f) /\ (cpp' => f = loadfactor') /\ shrinkat' = Percent(Size(t), ShrinkAt)
  BY <1>1, <1>5, <1>6, <1>7, <1>8
<1>10. count' = Cardinality(Used(t)) /\ oom' \in BOOLEAN BY <1>1, <1>2, <1>4, <1>7
<1>11. HashInv' BY <1>1, <1>5, <1>8, <1>9, <1>10, Establish
<1>12. Follows BY <1>1, <1>4 DEF Follows
<1> QED BY <1>11, <1>12

\* A map that was just made.
LEMMA MadeKeeps ==
  ASSUME HashInv, NEW t, Roomy(t), NEW c \in Nat, c >= 2, Made(t, c), oom' \in BOOLEAN
  PROVE  HashInv'
<1>1. /\ buckets' = t /\ count' = Cardinality(Used(t)) /\ cap' = c
      /\ loadfactor' = GrowAt /\ growpower' = 1 /\ broken' = "no" /\ kind' = kind
      /\ growat' = Percent(Size(t), GrowAt) /\ shrinkat' = Percent(Size(t), ShrinkAt)
  BY DEF Made
<1>2. GrowAt \in 1 .. 99 /\ kind \in Tables BY SizesAssumption DEF HashInv, HashFields
<1> QED BY <1>1, <1>2, Establish

LEMMA InsertFirstKeeps ==
  ASSUME HashInv, Absent, NEW k \in Keys, NEW v \in Values \cup {None},
         Made(Placed(EmptyTable(MinCap), Entry(k, v)), MinCap), oom' = FALSE
  PROVE  HashInv' /\ Follows
<1> DEFINE t == EmptyTable(MinCap)
           u == Placed(t, Entry(k, v))
<1>1. MinCap \in Nat /\ MinCap >= 2 BY SizesAssumption
<1>2. Robin(t, MinCap) /\ Used(t) = {} /\ Cardinality(Used(t)) = 0 /\ Table(t, MinCap) /\ Pairs(t) = {}
  BY <1>1, NoEntries DEF Robin
<1>3. Made(u, MinCap) OBVIOUS
<1> HIDE DEF t
<1>4. NotIn(k, t, MinCap) BY <1>2, TableIs DEF NotIn
<1>5. Robin(u, MinCap) /\ Cardinality(Used(u)) = 0 + 1 /\ Pairs(u) = Less({}, k) \cup {<<k, v>>}
  <2>1. Cardinality(Used(t)) < MinCap BY <1>1, <1>2
  <2> QED BY <1>2, <1>4, <2>1, PlacedNew
<1> HIDE DEF u
<1>6. Roomy(u) BY <1>1, <1>5, RoomyIs
<1>7. HashInv' BY <1>1, <1>3, <1>6, MadeKeeps
<1>8. Pairs(buckets) = {} BY NoPairs
<1>9. buckets' = u BY <1>3 DEF Made
<1>10. Follows BY <1>5, <1>8, <1>9 DEF Follows
<1> QED BY <1>7, <1>10

LEMMA CopyKeeps ==
  ASSUME HashInv, CopyTable
  PROVE  HashInv' /\ Follows
<1>0. Works /\ broken = "no" /\ ~Absent BY DEF CopyTable, Works
<1>1. PICK Missed : /\ Made(Copied(buckets, cap, Missed), cap)
                    /\ oom' = (Cardinality(Used(Copied(buckets, cap, Missed))) < count)
  BY DEF CopyTable
<1> DEFINE z == Size(buckets)
           t == Copied(buckets, cap, Missed)
<1>2. Table(buckets, z) /\ Once(buckets, z) /\ cap \in Nat /\ cap >= 2 BY <1>0, Present DEF Robin
<1>3. Roomy(t) /\ Pairs(t) \subseteq Pairs(buckets)
  <2> HIDE DEF z
  <2> QED BY <1>2, CopiedIs
<1> HIDE DEF t
<1>4. Made(t, cap) /\ oom' \in BOOLEAN BY <1>1 DEF t
<1>5. HashInv' BY <1>2, <1>3, <1>4, MadeKeeps
<1>6. Follows
  <2>1. buckets' = t BY <1>4 DEF Made
  <2> QED BY <1>3, <2>1 DEF Follows
<1> QED BY <1>5, <1>6

LEMMA NoTable ==
  LET t == EmptyTable(0) IN DOMAIN t = {} /\ Size(t) = 0 /\ Used(t) = {} /\ Cardinality(Used(t)) = 0
<1> DEFINE t == EmptyTable(0)
<1>1. DOMAIN t = {} BY DEF EmptyTable
<1> HIDE DEF t
<1>2. Used(t) = {} BY <1>1 DEF Used
<1>3. Size(t) = 0 /\ Cardinality(Used(t)) = 0 BY <1>1, <1>2, FS_EmptySet DEF Size
<1> QED BY <1>1, <1>2, <1>3 DEF t

LEMMA AbsentAfter ==
  ASSUME HashInv, Made(EmptyTable(0), 0), oom' = FALSE
  PROVE  HashInv' /\ Follows
<1> DEFINE t == EmptyTable(0)
<1>1. /\ buckets' = t /\ count' = Cardinality(Used(t)) /\ cap' = 0
      /\ loadfactor' = GrowAt /\ growpower' = 1 /\ broken' = "no" /\ kind' = kind
      /\ growat' = Percent(Size(t), GrowAt) /\ shrinkat' = Percent(Size(t), ShrinkAt)
  BY DEF Made
<1>2. Cardinality(Used(t)) = 0 BY NoTable
<1>3. GrowAt \in 1 .. 99 /\ kind \in Tables BY SizesAssumption DEF HashInv, HashFields
<1>4. HashFields'
  <2> HIDE DEF t
  <2>1. PICK f \in 1 .. 99 : f = GrowAt BY <1>3
  <2>2. growat' = Percent(Size(t), f) /\ loadfactor' = f /\ f \in 1 .. 99 /\ count' = 0 BY <1>1, <1>2, <2>1
  <2>3. Size(buckets)' = Size(t) BY <1>1
  <2>7. oom' \in BOOLEAN OBVIOUS
  <2>8. kind' \in Tables BY <1>1, <1>3
  <2>9. cap' \in Nat /\ growpower' \in Nat \ {0} BY <1>1
  <2>4. oom' \in BOOLEAN /\ kind' \in Tables /\ cap' \in Nat /\ growpower' \in Nat \ {0} BY <2>7, <2>8, <2>9
  <2>5. \E d \in 1 .. 99 : growat' = Percent(Size(buckets)', d) /\ (cpp' => d = loadfactor') BY <2>2, <2>3
  <2>6. shrinkat' = Percent(Size(buckets)', ShrinkAt) BY <1>1, <2>3
  <2> QED BY <2>2, <2>4, <2>5, <2>6 DEF HashFields
<1>5. HashTable' BY <1>1, <1>2 DEF HashTable
<1>6. HashInv' BY <1>4, <1>5 DEF HashInv
<1>7. Follows
  <2>1. Pairs(t) = {} BY NoTable DEF Pairs
  <2> HIDE DEF t
  <2> QED BY <1>1, <2>1 DEF Follows
<1> QED BY <1>6, <1>7

LEMMA TakeOutKeeps ==
  ASSUME HashInv, NEW k \in Keys, TakeOut(k), oom' \in BOOLEAN
  PROVE  HashInv' /\ Follows
<1> DEFINE z == Size(buckets)
           p == Position(buckets, k)
           w == ShiftedBack(buckets, p)
           n == count - 1
<1>0. Works /\ broken = "no" /\ ~Absent /\ p # -1 BY DEF TakeOut, Works
<1>1. count' = n /\ ShrinkIfNeeded(w, n) /\ UNCHANGED Settings BY DEF TakeOut
<1>2. /\ Robin(buckets, z) /\ z \in Nat /\ z >= 2 /\ count = Cardinality(Used(buckets)) /\ count < z
      /\ Room(buckets, z) /\ count \in Nat /\ cap \in Nat /\ cap >= 2
  BY <1>0, Present
<1>3. p \in 0 .. z - 1 /\ buckets[p].dib # 0
  <2> HIDE DEF z
  <2> QED BY <1>0, <1>2, PositionIs
<1>4. Robin(w, z) /\ Cardinality(Used(w)) = n /\ Pairs(w) \subseteq Pairs(buckets)
  <2> HIDE DEF z, p
  <2>1. /\ Robin(ShiftedBack(buckets, p), z)
        /\ Cardinality(Used(ShiftedBack(buckets, p))) = Cardinality(Used(buckets)) - 1
        /\ Pairs(ShiftedBack(buckets, p)) = Pairs(buckets) \ {Pair(buckets[p])}
    BY <1>2, <1>3, ShiftedIs
  <2> QED BY <1>2, <2>1
<1> HIDE DEF w
<1>5. n \in Nat /\ n < z /\ Table(w, z) /\ Once(w, z) /\ Size(w) = z
  <2>1. Table(w, z) /\ Once(w, z) BY <1>4 DEF Robin
  <2>2. Cardinality(Used(w)) \in Nat /\ Size(w) = z
    <3> HIDE DEF z
    <3> QED BY <2>1, RoomLeft, TableIs
  <2> QED BY <1>2, <1>4, <2>1, <2>2
<1>6. PICK f \in 1 .. 99 : growat = Percent(z, f) /\ (cpp => f = loadfactor) BY DEF HashInv, HashFields
<1>7. shrinkat = Percent(z, ShrinkAt) BY DEF HashInv, HashFields
<1>8. /\ kind' \in Tables /\ (cpp' <=> cpp) /\ cap' \in Nat /\ cap' >= 2 /\ broken' = "no"
      /\ loadfactor' = loadfactor /\ loadfactor' \in 1 .. 99 /\ growpower' \in Nat \ {0}
  BY <1>0, <1>1, SettingsKept
<1> HIDE DEF z, n
<1>9. CASE SameSize(w)
  <2>1. Roomy(w) /\ buckets' = w /\ growat' = growat /\ shrinkat' = shrinkat
    BY <1>4, <1>5, <1>9, RoomyIs DEF SameSize
  <2>2. HashInv' BY <1>1, <1>4, <1>5, <1>6, <1>7, <1>8, <2>1, Establish
  <2>3. Follows BY <1>4, <2>1 DEF Follows
  <2> QED BY <2>2, <2>3
<1>10. CASE Size(w) > cap /\ n <= shrinkat /\ Resized(w, RoundUp(Size(w) \div 2))
  <2> DEFINE h == z \div 2
             m == RoundUp(h)
             t == Rehashed(w, m)
             g == IF cpp THEN loadfactor ELSE GrowAt
  <2>1. z > cap /\ n <= Percent(z, ShrinkAt) BY <1>5, <1>7, <1>10
  <2>2. 2 * n <= h /\ h \in Nat
    <3>1. h \in 0 .. z BY <1>2, HalfIs
    <3> QED BY <1>2, <1>5, <2>1, <3>1, ShrinkIs
  <2>3. buckets' = t /\ growat' = Percent(m, g) /\ shrinkat' = Percent(m, ShrinkAt) BY <1>5, <1>10 DEF Resized
  <2> HIDE DEF h
  <2>4. m \in Nat /\ m >= h /\ m >= 2 BY <2>2, RoundedUp
  <2> HIDE DEF m
  <2>5. n < m BY <1>5, <2>2, <2>4
  <2>6. Robin(t, m) /\ Cardinality(Used(t)) = n /\ Pairs(t) = Pairs(w) BY <1>4, <1>5, <2>4, <2>5, RehashedIs
  <2> HIDE DEF t
  <2>7. Roomy(t) /\ Size(t) = m BY <2>5, <2>6, RoomyIs
  <2>8. g \in 1 .. 99 /\ (cpp => g = loadfactor) BY SizesAssumption DEF HashInv, HashFields
  <2> HIDE DEF g
  <2>9. HashInv' BY <1>1, <1>8, <2>3, <2>6, <2>7, <2>8, Establish
  <2>10. Follows BY <1>4, <2>3, <2>6 DEF Follows
  <2> QED BY <2>9, <2>10
<1> QED BY <1>1, <1>9, <1>10 DEF ShrinkIfNeeded

\* All entries are gone.
LEMMA ClearedKeeps ==
  ASSUME HashInv, ~Absent, NEW update \in BOOLEAN, Cleared(update), broken' = "no",
         UNCHANGED <<loadfactor, growpower, oom, kind>>
  PROVE  HashInv' /\ Follows
<1> DEFINE z == Size(buckets)
<1>1. cap \in Nat /\ cap >= 2 /\ z \in Nat /\ z >= 2 BY Present
<1>2. count' = 0 /\ cap' = IF update THEN z ELSE cap BY DEF Cleared
<1>3. PICK n \in {z, cap} : buckets' = EmptyTable(n) /\ growat' = Percent(n, loadfactor) /\ shrinkat' = Percent(n, ShrinkAt)
  <2> HIDE DEF z
  <2>1. \E n \in IF update THEN {z} ELSE {cap} \cup (IF MallocFails THEN {z} ELSE {}) :
           buckets' = EmptyTable(n) /\ growat' = Percent(n, loadfactor) /\ shrinkat' = Percent(n, ShrinkAt)
    BY DEF Cleared, z
  <2> QED BY <2>1, MallocAssumption
<1>4. loadfactor \in 1 .. 99 /\ growpower \in Nat \ {0} /\ oom \in BOOLEAN /\ kind \in Tables
  BY DEF HashInv, HashFields
<1> HIDE DEF z
<1> DEFINE t == EmptyTable(n)
<1>5. n \in Nat /\ n >= 2 /\ cap' \in Nat /\ cap' >= 2 BY <1>1, <1>2
<1>6. Robin(t, n) /\ Cardinality(Used(t)) = 0 /\ Pairs(t) = {} BY <1>5, NoEntries
<1>8. buckets' = t /\ growat' = Percent(n, loadfactor) /\ shrinkat' = Percent(n, ShrinkAt) BY <1>3
<1> HIDE DEF t
<1>7. Roomy(t) /\ Size(t) = n BY <1>5, <1>6, RoomyIs
<1>9. HashInv' BY <1>2, <1>4, <1>5, <1>6, <1>7, <1>8, Establish
<1>10. Follows BY <1>6, <1>8 DEF Follows
<1> QED BY <1>9, <1>10

LEMMA ClearTableKeeps ==
  ASSUME HashInv, NEW update \in BOOLEAN, ClearTable(update)
  PROVE  HashInv' /\ Follows
BY ClearedKeeps DEF ClearTable

LEMMA FilterKeeps ==
  ASSUME HashInv, NEW S, FilterTable(S)
  PROVE  HashInv' /\ Follows
<1> DEFINE z == Size(buckets)
           w == Emptied(buckets, S)
           hits == Hits(buckets, S)
           n == count - Cardinality(hits)
           m == FilterTarget(n)
           t == Rehashed(w, m)
           g == IF cpp THEN loadfactor ELSE GrowAt
<1>0. Works /\ broken = "no" /\ ~Absent /\ UNCHANGED <<loadfactor, growpower, oom, kind>>
  BY DEF FilterTable, Works
<1>1. \/ n = 0 /\ Cleared(FALSE) /\ UNCHANGED broken
      \/ /\ n # 0 /\ count' = n /\ UNCHANGED cap
         /\ \/ Resized(w, m) /\ UNCHANGED broken
            \/ SameSize(w) /\ broken' = "holes"
  BY DEF FilterTable, Without, Emptied, Hits
<1>2. /\ Robin(buckets, z) /\ z \in Nat /\ z >= 2 /\ count = Cardinality(Used(buckets)) /\ count < z
      /\ count \in Nat /\ cap \in Nat /\ cap >= 2 /\ Table(buckets, z) /\ Once(buckets, z)
      /\ \A i \in 0 .. z - 1 : buckets[i].dib <= z
  BY <1>0, Present DEF Robin, TableFits
<1>3. /\ Table(w, z) /\ Once(w, z) /\ Cardinality(Used(w)) = n /\ Pairs(w) \subseteq Pairs(buckets)
      /\ \A i \in 0 .. z - 1 : w[i] = Empty \/ w[i] = buckets[i]
  <2> HIDE DEF z
  <2>1. /\ Table(w, z) /\ Once(w, z)
        /\ Cardinality(Used(w)) = Cardinality(Used(buckets)) - Cardinality(hits)
        /\ \A i \in 0 .. z - 1 : w[i] = Empty \/ w[i] = buckets[i]
        /\ Pairs(w) = {e \in Pairs(buckets) : e[1] \notin S}
    BY <1>2, EmptiedIs
  <2> HIDE DEF w, hits
  <2> QED BY <1>2, <2>1
<1>4. n \in Nat /\ n <= count /\ Size(w) = z
  <2>1. IsFiniteSet(hits) /\ Cardinality(hits) \in Nat
    <3>1. IsFiniteSet(Used(buckets))
      <4> HIDE DEF z
      <4> QED BY <1>2, TableIs
    <3>2. hits \subseteq Used(buckets) BY DEF Hits
    <3> QED BY <3>1, <3>2, FS_Subset, FS_CardinalityType
  <2> HIDE DEF z, w, hits
  <2>2. Cardinality(Used(w)) \in Nat /\ Size(w) = z BY <1>3, RoomLeft, TableIs
  <2> QED BY <1>2, <1>3, <2>1, <2>2
<1>5. loadfactor \in 1 .. 99 /\ growpower \in Nat \ {0} /\ oom \in BOOLEAN /\ kind \in Tables /\ GrowAt \in 1 .. 99
  BY SizesAssumption DEF HashInv, HashFields
<1>6. cpp' <=> cpp BY <1>0 DEF cpp
<1>7. z = Size(buckets) OBVIOUS
<1> HIDE DEF z, w, n, hits
<1>8. CASE Cleared(FALSE) /\ UNCHANGED broken BY <1>0, <1>8, ClearedKeeps
<1>9. CASE n # 0 /\ count' = n /\ UNCHANGED cap /\ Resized(w, m) /\ UNCHANGED broken
  <2>1. buckets' = t /\ growat' = Percent(m, g) /\ shrinkat' = Percent(m, ShrinkAt) BY <1>9 DEF Resized
  <2>2. n >= 1 /\ n < z BY <1>2, <1>4, <1>9
  <2>3. m \in Nat /\ m > n /\ m >= 2 BY <1>2, <1>4, <1>7, <2>2, FilteredTo
  <2> HIDE DEF m
  <2>4. Robin(t, m) /\ Cardinality(Used(t)) = n /\ Pairs(t) = Pairs(w)
    <3>1. Cardinality(Used(w)) < m BY <1>3, <1>4, <2>3
    <3> QED BY <1>3, <2>3, <3>1, RehashedIs
  <2>5. g \in 1 .. 99 /\ (cpp => g = loadfactor) BY <1>5
  <2> HIDE DEF t, g
  <2>6. Roomy(t) /\ Size(t) = m BY <1>4, <2>3, <2>4, RoomyIs
  <2>7. cap' \in Nat /\ cap' >= 2 /\ broken' = "no" /\ kind' \in Tables /\ oom' \in BOOLEAN /\ (cpp' => g = loadfactor')
        /\ loadfactor' \in 1 .. 99 /\ growpower' \in Nat \ {0}
    BY <1>0, <1>2, <1>5, <1>6, <1>9, <2>5
  <2>8. HashInv' BY <1>9, <2>1, <2>4, <2>5, <2>6, <2>7, Establish
  <2>9. Follows BY <1>3, <2>1, <2>4 DEF Follows
  <2> QED BY <2>8, <2>9
<1>10. CASE n # 0 /\ count' = n /\ UNCHANGED cap /\ SameSize(w) /\ broken' = "holes"
  <2>1. buckets' = w /\ growat' = growat /\ shrinkat' = shrinkat BY <1>10 DEF SameSize
  <2>2. PICK f \in 1 .. 99 : growat = Percent(z, f) /\ (cpp => f = loadfactor) BY <1>7 DEF HashInv, HashFields
  <2>3. shrinkat = Percent(z, ShrinkAt) BY <1>7 DEF HashInv, HashFields
  <2>4. HashFields' BY <1>0, <1>2, <1>4, <1>5, <1>6, <1>10, <2>1, <2>2, <2>3 DEF HashFields
  <2>5. TableFits(w)
    <3>1. \A i \in 0 .. z - 1 : w[i].dib <= z
      <4>1. Empty.dib = 0 BY DEF Empty
      <4> QED BY <1>2, <1>3, <4>1
    <3> QED BY <1>2, <1>3, <1>4, <3>1 DEF TableFits
  <2>6. HashTable' BY <1>2, <1>3, <1>10, <2>1, <2>5 DEF HashTable
  <2>7. Follows BY <1>3, <2>1 DEF Follows
  <2> QED BY <2>4, <2>6, <2>7 DEF HashInv
<1> QED BY <1>1, <1>8, <1>9, <1>10

LEMMA LoadFactorKeeps ==
  ASSUME HashInv, NEW h \in Factors, LoadFactorBecomes(h)
  PROVE  HashInv' /\ Follows
<1> DEFINE z == Size(buckets)
           f == Clamped(h, 50, 95)
<1>1. /\ loadfactor' = f /\ growat' = Percent(z, f)
      /\ UNCHANGED <<buckets, count, cap, shrinkat, growpower, oom, kind, broken>>
  BY DEF LoadFactorBecomes
<1>2. f \in 50 .. 95
  <2>1. h \in Nat /\ 50 \in Nat /\ 95 \in Nat /\ 50 <= 95 BY SizesAssumption
  <2> QED BY ONLY <2>1, ClampedIs
<1> HIDE DEF f
<1>3. f \in 1 .. 99 BY <1>2
<1>4. HashFields' BY <1>1, <1>3 DEF HashInv, HashFields, cpp
<1>5. HashTable' BY <1>1 DEF HashInv, HashTable
<1>6. HashInv' BY <1>4, <1>5 DEF HashInv
<1>7. Follows BY <1>1 DEF Follows
<1> QED BY <1>6, <1>7

LEMMA GrowPowerKeeps ==
  ASSUME HashInv, NEW h \in Powers, GrowPowerBecomes(h)
  PROVE  HashInv' /\ Follows
<1> DEFINE f == Clamped(h, 1, 16)
<1>1. /\ growpower' = f
      /\ UNCHANGED <<buckets, count, cap, shrinkat, growat, loadfactor, oom, kind, broken>>
  BY DEF GrowPowerBecomes
<1>2. f \in 1 .. 16
  <2>1. h \in Nat /\ 1 \in Nat /\ 16 \in Nat /\ 1 <= 16 BY SizesAssumption
  <2> QED BY ONLY <2>1, ClampedIs
<1> HIDE DEF f
<1>3. f \in Nat \ {0} BY <1>2
<1>4. HashFields' BY <1>1, <1>3 DEF HashInv, HashFields, cpp
<1>5. HashTable' BY <1>1 DEF HashInv, HashTable
<1>6. HashInv' BY <1>4, <1>5 DEF HashInv
<1>7. Follows BY <1>1 DEF Follows
<1> QED BY <1>6, <1>7

LEMMA RehashKeeps ==
  ASSUME HashInv, NEW n \in Sizes, Rehash(n), count < RoundUp(n)
  PROVE  HashInv' /\ Follows
<1> DEFINE z == Size(buckets)
           m == RoundUp(n)
           t == Rehashed(buckets, m)
           g == IF cpp THEN loadfactor ELSE GrowAt
<1>0. Works /\ broken = "no" /\ ~Absent /\ UNCHANGED <<count, cap, loadfactor, growpower, oom, kind>>
  BY DEF Rehash, Works
<1>1. /\ z \in Nat /\ count = Cardinality(Used(buckets)) /\ count \in Nat /\ cap \in Nat /\ cap >= 2
      /\ Table(buckets, z) /\ Once(buckets, z)
  BY <1>0, Present DEF Robin
<1>2. m \in Nat /\ m >= 2 BY SizesAssumption, RoundedUp
<1> HIDE DEF z
<1>3. count < m OBVIOUS
<1>4. ~(count > m) BY <1>1, <1>2, <1>3
<1>5. broken' = "no" /\ buckets' = t /\ growat' = Percent(m, g) /\ shrinkat' = Percent(m, ShrinkAt)
  BY <1>4 DEF Rehash, Resized
<1> HIDE DEF m
<1>6. Robin(t, m) /\ Cardinality(Used(t)) = count /\ Pairs(t) = Pairs(buckets) BY <1>1, <1>2, <1>3, RehashedIs
<1>7. g \in 1 .. 99 /\ (cpp' => g = loadfactor') BY <1>0, SizesAssumption DEF HashInv, HashFields, cpp
<1> HIDE DEF t, g
<1>8. Roomy(t) /\ Size(t) = m BY <1>3, <1>6, RoomyIs
<1>9. /\ kind' \in Tables /\ oom' \in BOOLEAN /\ loadfactor' \in 1 .. 99 /\ growpower' \in Nat \ {0}
      /\ cap' \in Nat /\ cap' >= 2
  BY <1>0, <1>1 DEF HashInv, HashFields
<1>10. HashInv' BY <1>0, <1>5, <1>6, <1>7, <1>8, <1>9, Establish
<1>11. Follows BY <1>5, <1>6 DEF Follows
<1> QED BY <1>10, <1>11

LEMMA ResizeFirstKeeps ==
  ASSUME HashInv, NEW n \in Sizes, Made(EmptyTable(RoundUp(n)), RoundUp(n)), oom' = FALSE
  PROVE  HashInv' /\ Follows
<1> DEFINE m == RoundUp(n)
           t == EmptyTable(m)
<1>1. m \in Nat /\ m >= 2 BY SizesAssumption, RoundedUp
<1> HIDE DEF m
<1>2. Robin(t, m) /\ Cardinality(Used(t)) = 0 /\ Pairs(t) = {} BY <1>1, NoEntries
<1> HIDE DEF t
<1>3. Roomy(t) BY <1>1, <1>2, RoomyIs
<1>4. Made(t, m) BY DEF t, m
<1>5. HashInv' BY <1>1, <1>3, <1>4, MadeKeeps
<1>6. Follows
  <2>1. buckets' = t BY <1>4 DEF Made
  <2> QED BY <1>2, <2>1 DEF Follows
<1> QED BY <1>5, <1>6

-----------------------------------------------------------------------------
LEMMA HashInitially ==
  ASSUME Init
  PROVE  HashInv
<1>1. /\ kind \in Tables /\ buckets = EmptyTable(cap) /\ count = 0 /\ growpower = 1 /\ loadfactor = GrowAt
      /\ growat = Percent(cap, GrowAt) /\ shrinkat = Percent(cap, ShrinkAt) /\ oom = FALSE /\ broken = "no"
  BY DEF Init
<1>2. GrowAt \in 1 .. 99 BY SizesAssumption
<1> DEFINE t == EmptyTable(cap)
<1>3. CASE cap = 0
  <2>1. Size(t) = 0 BY <1>3, NoTable
  <2>2. HashFields
    <3>1. oom \in BOOLEAN BY <1>1
    <3>2. kind \in Tables /\ count \in Nat /\ cap \in Nat /\ loadfactor \in 1 .. 99 /\ growpower \in Nat \ {0}
      BY <1>1, <1>2, <1>3
    <3>3. Size(buckets) = cap BY <1>1, <1>3, <2>1
    <3>4. \E f \in 1 .. 99 : growat = Percent(Size(buckets), f) /\ (cpp => f = loadfactor) BY <1>1, <1>2, <3>3
    <3> QED BY <1>1, <3>1, <3>2, <3>3, <3>4 DEF HashFields
  <2>3. HashTable BY <1>1, <1>3 DEF HashTable
  <2> QED BY <2>2, <2>3 DEF HashInv
<1>4. CASE cap # 0
  <2>1. PICK c \in Caps : cap = RoundUp(c) BY <1>4 DEF Init
  <2>2. cap \in Nat /\ cap >= 2 BY <2>1, SizesAssumption, RoundedUp
  <2>3. Robin(t, cap) /\ Cardinality(Used(t)) = 0 BY <2>2, NoEntries
  <2>4. Roomy(t) /\ Size(t) = cap
    <3> HIDE DEF t
    <3> QED BY <2>2, <2>3, RoomyIs
  <2>5. TableFits(t)
    <3> HIDE DEF t
    <3> QED BY <2>4, RoomyFits
  <2>6. buckets = t BY <1>1
  <2> HIDE DEF t
  <2>7. HashFields
    <3>1. oom \in BOOLEAN BY <1>1
    <3>2. kind \in Tables /\ count \in Nat /\ cap \in Nat /\ loadfactor \in 1 .. 99 /\ growpower \in Nat \ {0}
      BY <1>1, <1>2, <2>2
    <3>3. Size(buckets) = cap BY <2>4, <2>6
    <3>4. \E f \in 1 .. 99 : growat = Percent(Size(buckets), f) /\ (cpp => f = loadfactor) BY <1>1, <1>2, <3>3
    <3> QED BY <1>1, <3>1, <3>2, <3>3, <3>4 DEF HashFields
  <2>8. HashTable BY <1>1, <2>2, <2>3, <2>4, <2>5, <2>6 DEF HashTable
  <2> QED BY <2>7, <2>8 DEF HashInv
<1> QED BY <1>3, <1>4

LEMMA OomIs ==
  ASSUME HashInv
  PROVE  /\ oom' = FALSE => oom' \in BOOLEAN
         /\ UNCHANGED oom => oom' \in BOOLEAN
BY DEF HashInv, HashFields

\* One step of a map or a set.
LEMMA NextKeeps ==
  ASSUME HashInv, RoomAsked, Next
  PROVE  HashInv' /\ Follows
<1>1. ASSUME NEW k \in Keys, NEW v \in Values, SetC(k, v)
      PROVE  HashInv' /\ Follows
  BY <1>1, PutCKeeps DEF SetC
<1>2. ASSUME NEW k \in Keys, NEW v \in Values, AssignCpp(k, v)
      PROVE  HashInv' /\ Follows
  BY <1>2, AssignKeeps
<1>3. ASSUME NEW k \in Keys, NEW v \in Values, InsertCpp(k, v)
      PROVE  HashInv' /\ Follows
  BY <1>3, PlaceNewKeeps DEF InsertCpp
<1>4. ASSUME NEW k \in Keys, NEW v \in Values, InsertFirst(k, v)
      PROVE  HashInv' /\ Follows
  BY <1>4, InsertFirstKeeps DEF InsertFirst
<1>5. ASSUME NEW k \in Keys, SetFails(k)
      PROVE  HashInv' /\ Follows
  BY <1>5, PutFailsKeeps DEF SetFails
<1>6. ASSUME NEW k \in Keys, DeleteC(k) \/ ExtractC(k) \/ EraseCpp(k)
      PROVE  HashInv' /\ Follows
  BY <1>6, OomIs, TakeOutKeeps DEF DeleteC, ExtractC, EraseCpp
<1>7. ASSUME NEW k \in Keys, NEW v \in Values, Subscript(k, v)
      PROVE  HashInv' /\ Follows
  BY <1>7, <1>3, <1>4 DEF Subscript
<1>8. ASSUME NEW update \in BOOLEAN, ClearC(update) \/ ClearCpp(update)
      PROVE  HashInv' /\ Follows
  BY <1>8, ClearTableKeeps DEF ClearC, ClearCpp
<1>9. ASSUME NEW S \in SUBSET Keys, FilterC(S) \/ FilterCpp(S)
      PROVE  HashInv' /\ Follows
  BY <1>9, FilterKeeps DEF FilterC, FilterCpp
<1>10. ASSUME CopyMap PROVE HashInv' /\ Follows BY <1>10, CopyKeeps DEF CopyMap
<1>11. ASSUME MoveMap PROVE HashInv' /\ Follows BY <1>11, AbsentAfter DEF MoveMap, MoveAway
<1>12. ASSUME NEW f \in Factors, SetLoadFactor(f) PROVE HashInv' /\ Follows
  BY <1>12, LoadFactorKeeps DEF SetLoadFactor
<1>13. ASSUME NEW p \in Powers, SetGrowPower(p) PROVE HashInv' /\ Follows
  BY <1>13, GrowPowerKeeps DEF SetGrowPower
<1>14. ASSUME NEW n \in Sizes, ResizeC(n) \/ ResizeCpp(n) PROVE HashInv' /\ Follows
  BY <1>14, RehashKeeps DEF ResizeC, ResizeCpp, RoomAsked
<1>15. ASSUME NEW n \in Sizes, ResizeFirst(n) PROVE HashInv' /\ Follows BY <1>15, ResizeFirstKeeps DEF ResizeFirst
<1> QED BY <1>1, <1>2, <1>3, <1>4, <1>5, <1>6, <1>7, <1>8, <1>9, <1>10, <1>11, <1>12, <1>13, <1>14, <1>15 DEF Next

LEMMA SetNextKeeps ==
  ASSUME HashInv, RoomAsked, SetNext
  PROVE  HashInv' /\ Follows
<1>1. ASSUME NEW k \in Keys, InsertItemC(k)
      PROVE  HashInv' /\ Follows
  BY <1>1, PutCKeeps DEF InsertItemC
<1>2. ASSUME NEW k \in Keys, InsertItem(k)
      PROVE  HashInv' /\ Follows
  BY <1>2, PlaceNewKeeps DEF InsertItem
<1>3. ASSUME NEW k \in Keys, InsertFirstItem(k)
      PROVE  HashInv' /\ Follows
  BY <1>3, InsertFirstKeeps DEF InsertFirstItem
<1>4. ASSUME NEW k \in Keys, InsertItemFails(k)
      PROVE  HashInv' /\ Follows
  BY <1>4, PutFailsKeeps DEF InsertItemFails
<1>5. ASSUME NEW k \in Keys, RemoveItemC(k) \/ ExtractItemC(k) \/ EraseItem(k)
      PROVE  HashInv' /\ Follows
  BY <1>5, OomIs, TakeOutKeeps DEF RemoveItemC, ExtractItemC, EraseItem
<1>6. ASSUME NEW update \in BOOLEAN, ClearItemsC(update) \/ ClearItems(update)
      PROVE  HashInv' /\ Follows
  BY <1>6, ClearTableKeeps DEF ClearItemsC, ClearItems
<1>7. ASSUME NEW S \in SUBSET Keys, FilterItemsC(S) \/ FilterItems(S)
      PROVE  HashInv' /\ Follows
  BY <1>7, FilterKeeps DEF FilterItemsC, FilterItems
<1>8. ASSUME CopySet PROVE HashInv' /\ Follows BY <1>8, CopyKeeps DEF CopySet
<1>9. ASSUME MoveSet PROVE HashInv' /\ Follows BY <1>9, AbsentAfter DEF MoveSet, MoveAway
<1>10. ASSUME NEW f \in Factors, LoadFactorOfItems(f) PROVE HashInv' /\ Follows
  BY <1>10, LoadFactorKeeps DEF LoadFactorOfItems
<1>11. ASSUME NEW p \in Powers, GrowPowerOfItems(p) PROVE HashInv' /\ Follows
  BY <1>11, GrowPowerKeeps DEF GrowPowerOfItems
<1>12. ASSUME NEW n \in Sizes, ResizeItems(n) PROVE HashInv' /\ Follows
  BY <1>12, RehashKeeps DEF ResizeItems, RoomAsked
<1>13. ASSUME NEW n \in Sizes, ResizeFirstItems(n) PROVE HashInv' /\ Follows
  BY <1>13, ResizeFirstKeeps DEF ResizeFirstItems
<1> QED BY <1>1, <1>2, <1>3, <1>4, <1>5, <1>6, <1>7, <1>8, <1>9, <1>10, <1>11, <1>12, <1>13 DEF SetNext

\* The inductive invariant of the table holds in every state, as long as the application asks for
\* no size below the number of entries.
THEOREM HashInvariance == HashSpec /\ [][RoomAsked]_vars => []HashInv
<1>1. ASSUME HashInv, [HashNext]_vars, [RoomAsked]_vars PROVE HashInv'
  <2>1. CASE UNCHANGED vars BY <1>1, <2>1 DEF vars, HashInv, HashFields, HashTable, cpp
  <2>2. CASE Next /\ RoomAsked BY <1>1, <2>2, NextKeeps
  <2>3. CASE SetNext /\ RoomAsked BY <1>1, <2>3, SetNextKeeps
  <2> QED BY <1>1, <2>1, <2>2, <2>3 DEF HashNext
<1>2. Init => HashInv BY HashInitially
<1> QED BY <1>1, <1>2, PTL DEF HashSpec

\* What the invariant means to the callers.
LEMMA AbsentFollows ==
  ASSUME HashInv, Absent
  PROVE  Consistent /\ ProbesEnd
<1>1. buckets = EmptyTable(0) /\ count = 0 /\ broken = "no" /\ cap = 0
  <2>1. ~TableFits(buckets)
    <3>1. ASSUME TableFits(buckets) PROVE FALSE
      <4>1. Table(buckets, Size(buckets)) BY <3>1 DEF TableFits
      <4>2. DOMAIN buckets = 0 .. Size(buckets) - 1 /\ Size(buckets) \in Nat /\ Size(buckets) >= 2
        BY <4>1, TableIs
      <4> QED BY <4>2 DEF Absent
    <3> QED BY <3>1
  <2> QED BY <2>1 DEF HashInv, HashTable
<1>2. Size(buckets) = 0 /\ Used(buckets) = {} /\ DOMAIN buckets = {} /\ Cardinality(Used(buckets)) = 0
  BY <1>1, NoTable
<1>3. Findable /\ RobinHood BY <1>1, <1>2 DEF Findable, RobinHood
<1>4. LoadFactorHolds BY DEF LoadFactorHolds, HashInv, HashFields
<1>5. ProbesEnd BY <1>1 DEF ProbesEnd
<1>6. TypeOK
  <2>1. DOMAIN buckets = 0 .. Size(buckets) - 1 BY <1>2
  <2>2. growat \in Nat /\ shrinkat \in Nat
    <3>1. \A f \in 1 .. 99 : Percent(0, f) \in Nat
      <4>1. \A f \in 1 .. 99 : 0 * f = 0 OBVIOUS
      <4>2. 0 \div 100 \in Nat OBVIOUS
      <4> QED BY <4>1, <4>2 DEF Percent
    <3>2. Percent(0, ShrinkAt) \in Nat
      <4>1. ShrinkAt \in Nat /\ 0 * ShrinkAt = 0 BY SizesAssumption
      <4>2. 0 \div 100 \in Nat OBVIOUS
      <4> QED BY <4>1, <4>2 DEF Percent
    <3> QED BY <1>2, <3>1, <3>2 DEF HashInv, HashFields
  <2>3. oom \in BOOLEAN /\ kind \in Tables BY DEF HashInv, HashFields
  <2>4. {count, cap, loadfactor, growpower} \subseteq Nat BY DEF HashInv, HashFields
  <2> QED BY <1>1, <1>2, <2>1, <2>2, <2>3, <2>4 DEF TypeOK
<1> QED BY <1>3, <1>4, <1>5, <1>6 DEF Consistent

LEMMA PercentIn ==
  ASSUME NEW n \in Nat, NEW p \in Nat
  PROVE  Percent(n, p) \in Nat
<1> DEFINE a == n * p
<1>1. a \in Nat OBVIOUS
<1> HIDE DEF a
<1>2. a \div 100 \in Nat BY <1>1
<1> QED BY <1>2 DEF Percent, a

LEMMA HashFollows ==
  ASSUME HashInv
  PROVE  Consistent /\ ProbesEnd
<1> SUFFICES ASSUME ~Absent PROVE Consistent /\ ProbesEnd BY AbsentFollows
<1> DEFINE n == Size(buckets)
<1>1. /\ TableFits(buckets) /\ count = Cardinality(Used(buckets)) /\ n \in Nat /\ n >= 2 /\ Table(buckets, n)
      /\ DOMAIN buckets = 0 .. n - 1 /\ count \in Nat /\ count < n
      /\ broken = "no" => Robin(buckets, n)
  BY Present
<1>2. broken \in {"no", "holes"} BY DEF HashInv, HashTable
<1>3. Used(buckets) = {i \in 0 .. n - 1 : buckets[i].dib # 0} /\ \A i \in 0 .. n - 1 : buckets[i] \in Bucket
  <2> HIDE DEF n
  <2> QED BY <1>1, TableIs
<1>4. ProbesEnd
  <2>1. Room(buckets, n)
    <3> HIDE DEF n
    <3> QED BY <1>1, RoomLeft
  <2> HIDE DEF n
  <2>2. Used(buckets) # DOMAIN buckets BY <1>1, <1>3, <2>1 DEF Room
  <2> QED BY <1>2, <2>2 DEF ProbesEnd
<1>5. TypeOK
  <2>1. \A i \in 0 .. n - 1 :
          buckets[i] = Empty \/ buckets[i] \in [key : Keys, val : Values \cup {None}, dib : 1 .. n]
    <3> SUFFICES ASSUME NEW i \in 0 .. n - 1, buckets[i] # Empty
                 PROVE  buckets[i] \in [key : Keys, val : Values \cup {None}, dib : 1 .. n]
      OBVIOUS
    <3>1. buckets[i] \in [key : Keys, val : Values \cup {None}, dib : Nat \ {0}] BY <1>3 DEF Bucket
    <3>2. buckets[i].dib <= n BY <1>1 DEF TableFits
    <3>3. buckets[i].dib \in 1 .. n
      <4> HIDE DEF n
      <4> QED BY <1>1, <3>1, <3>2
    <3> QED BY <3>1, <3>3
  <2>2. PICK f \in 1 .. 99 : growat = Percent(n, f) BY DEF HashInv, HashFields
  <2>3. growat \in Nat
    <3>1. f \in Nat OBVIOUS
    <3> HIDE DEF n
    <3> QED BY <1>1, <2>2, <3>1, PercentIn
  <2>4. shrinkat \in Nat
    <3>1. shrinkat = Percent(n, ShrinkAt) /\ ShrinkAt \in Nat BY SizesAssumption DEF HashInv, HashFields
    <3> HIDE DEF n
    <3> QED BY <1>1, <3>1, PercentIn
  <2>5. oom \in BOOLEAN /\ kind \in Tables BY DEF HashInv, HashFields
  <2>6. {count, cap, loadfactor, growpower} \subseteq Nat BY DEF HashInv, HashFields
  <2>7. \A i \in DOMAIN buckets :
          buckets[i] = Empty \/ buckets[i] \in [key : Keys, val : Values \cup {None}, dib : 1 .. Size(buckets)]
    BY <1>1, <2>1
  <2>8. DOMAIN buckets = 0 .. Size(buckets) - 1 BY <1>1
  <2> QED BY <1>2, <2>3, <2>4, <2>5, <2>6, <2>7, <2>8 DEF TypeOK
<1>6. Findable
  <2> SUFFICES ASSUME broken # "holes"
               PROVE  \A i \in Used(buckets) : Position(buckets, buckets[i].key) = i
    BY <1>1 DEF Findable
  <2>1. Robin(buckets, n) BY <1>1, <1>2
  <2> HIDE DEF n
  <2> QED BY <1>3, <2>1, Found
<1>7. RobinHood
  <2> SUFFICES ASSUME broken # "holes", NEW i \in Used(buckets)
               PROVE  /\ (Hash[buckets[i].key] + buckets[i].dib - 1) % n = i
                      /\ buckets[i].dib <= buckets[(i - 1 + n) % n].dib + 1
    BY DEF RobinHood
  <2>1. Robin(buckets, n) BY <1>1, <1>2
  <2>2. i \in 0 .. n - 1 /\ buckets[i].dib # 0 /\ n \in Nat \ {0} BY <1>1, <1>3
  <2> HIDE DEF n
  <2>3. (Hash[buckets[i].key] + buckets[i].dib - 1) % n = i
    <3> DEFINE a == Hash[buckets[i].key]
               d == buckets[i].dib
    <3>1. d \in 1 .. n /\ buckets[i].key \in Keys BY <2>1, <2>2, Backwards
    <3>2. a \in Nat BY <3>1, HashAssumption
    <3>3. Ring(n, Home(n, buckets[i].key) + d - 1) = i BY <2>1, <2>2 DEF Robin, Homes
    <3>4. Home(n, buckets[i].key) = a % n BY DEF Home
    <3> HIDE DEF a, d
    <3>5. d - 1 \in 0 .. n - 1 /\ a + d - 1 = a + (d - 1) BY <2>2, <3>1, <3>2
    <3>6. /\ a % n \in 0 .. n - 1
          /\ (a + (d - 1)) % n = IF (a % n) + (d - 1) < n THEN (a % n) + (d - 1) ELSE (a % n) + (d - 1) - n
      BY <2>2, <3>2, <3>5, ModShift
    <3> DEFINE r == a % n
    <3>7. r \in 0 .. n - 1 /\ Ring(n, r + d - 1) = i BY <3>3, <3>4, <3>6
    <3>8. (a + (d - 1)) % n = IF r + (d - 1) < n THEN r + (d - 1) ELSE r + (d - 1) - n BY <3>6
    <3> HIDE DEF r
    <3>9. (a + (d - 1)) % n = i BY <2>2, <3>1, <3>5, <3>7, <3>8 DEF Ring
    <3> QED BY <3>5, <3>9 DEF a, d
  <2>4. buckets[i].dib <= buckets[(i - 1 + n) % n].dib + 1
    <3> DEFINE x == i - 1 + n
    <3>1. x \in 0 .. 2 * n - 1 /\ Ring(n, Ring(n, x) + 1) = i /\ Ring(n, x) \in 0 .. n - 1 BY <2>2 DEF Ring
    <3> HIDE DEF x
    <3>2. x % n = Ring(n, x) BY <2>2, <3>1, Wraps DEF Ring
    <3>3. buckets[i].dib <= buckets[Ring(n, x)].dib + 1 BY <2>1, <3>1 DEF Robin, Stepwise
    <3> QED BY <3>2, <3>3 DEF x
  <2> QED BY <2>3, <2>4
<1>8. LoadFactorHolds BY DEF LoadFactorHolds, HashInv, HashFields
<1> QED BY <1>4, <1>5, <1>6, <1>7, <1>8 DEF Consistent

\* A lookup finds every key in the only bucket that has it, entries stand in the order of their
\* distances from home, the limits fit the table, and no loop over the table is endless.
THEOREM HashAlwaysConsistent == HashSpec /\ [][RoomAsked]_vars => [](Consistent /\ ProbesEnd)
  BY HashInvariance, HashFollows, PTL

\* The hypothesis holds of an application that only asks for sizes with room for all keys.
RoomForAll == IsFiniteSet(Keys) /\ \A n \in Sizes : Cardinality(Keys) < RoundUp(n)

LEMMA RoomSuffices ==
  ASSUME RoomForAll, HashInv
  PROVE  RoomAsked
<1> SUFFICES ASSUME NEW n \in Sizes, Rehash(n) PROVE count < RoundUp(n)
  BY DEF RoomAsked, ResizeC, ResizeCpp, ResizeItems
<1> DEFINE z == Size(buckets)
           m == RoundUp(n)
<1>0. broken = "no" /\ ~Absent BY DEF Rehash, Works
<1>1. z \in Nat /\ count = Cardinality(Used(buckets)) /\ count \in Nat /\ Table(buckets, z) /\ Once(buckets, z)
  BY <1>0, Present DEF Robin
<1>2. m \in Nat /\ Cardinality(Keys) < m /\ IsFiniteSet(Keys) BY SizesAssumption, RoundedUp DEF RoomForAll
<1> HIDE DEF z, m
<1>3. Cardinality(Used(buckets)) <= Cardinality(Keys) /\ Cardinality(Keys) \in Nat
  BY <1>1, <1>2, FewerThanKeys, FS_CardinalityType
<1> QED BY <1>1, <1>2, <1>3 DEF m

\* With such sizes the hypothesis of the theorems above is no more than that.
THEOREM RoomAlwaysAsked == ASSUME RoomForAll PROVE HashSpec => [][RoomAsked]_vars
<1>1. HashInv /\ [HashNext]_vars => [RoomAsked]_vars BY RoomSuffices
<1>2. ASSUME HashInv, [HashNext]_vars PROVE HashInv'
  <2>1. CASE UNCHANGED vars BY <1>2, <2>1 DEF vars, HashInv, HashFields, HashTable, cpp
  <2>2. RoomAsked BY <1>2, RoomSuffices
  <2>3. CASE HashNext BY <1>2, <2>2, <2>3, NextKeeps, SetNextKeeps DEF HashNext
  <2> QED BY <1>2, <2>1, <2>3
<1>3. Init => HashInv BY HashInitially
<1> QED BY <1>1, <1>2, <1>3, PTL DEF HashSpec

-----------------------------------------------------------------------------
(* A table is a finite map *)

Represents == Graph(Contents, Pairs(buckets))

\* What a call does to the pairs, it does to the map.
LEMMA MapFollows ==
  ASSUME Represents, Represents', Follows
  PROVE  Promise!Next
<1> DEFINE P == Pairs(buckets)
           Q == Pairs(buckets)'
           f == Contents
           g == Contents'
<1>1. Graph(f, P) /\ Graph(g, Q) BY DEF Represents
<1>2. CASE Q \subseteq P
  <2> HIDE DEF P, Q, f, g
  <2>0. Shrunk(f, g) BY <1>1, <1>2, LessGraph
  <2>1. PICK S \in SUBSET DOMAIN f : g = Restrict(f, DOMAIN f \ S) BY <2>0 DEF Shrunk
  <2>2. Promise!Drop(S) BY <2>1 DEF Promise!Drop, Restrict, f, g
  <2> QED BY <2>1, <2>2 DEF Promise!Next, f
<1>3. CASE \E k \in Keys, v \in Values \cup {None} : Q = Less(P, k) \cup {<<k, v>>}
  <2>1. PICK k \in Keys, v \in Values \cup {None} : Q = Less(P, k) \cup {<<k, v>>} BY <1>3
  <2> HIDE DEF P, Q, f, g
  <2>2. Graph(Updated(f, k, v), Q) BY <1>1, <2>1, UpdatedGraph
  <2>3. g = Updated(f, k, v) BY <1>1, <2>2, SameGraph
  <2>4. Promise!Put(k, v) BY <2>3 DEF Promise!Put, Updated, f, g
  <2> QED BY <2>4 DEF Promise!Next
<1> QED BY <1>2, <1>3 DEF Follows

LEMMA EmptyMap ==
  ASSUME Init, Represents
  PROVE  Promise!Init
<1>1. buckets = EmptyTable(cap) BY DEF Init
<1>2. \A i \in DOMAIN buckets : buckets[i].dib = 0 BY <1>1 DEF EmptyTable, Empty
<1>3. Used(buckets) = {} BY <1>2 DEF Used
<1>4. Pairs(buckets) = {} BY <1>3 DEF Pairs
<1>5. Contents = [k \in {e[1] : e \in {}} |-> Contents[k]] BY <1>4 DEF Represents, Graph
<1>6. {e[1] : e \in {}} = {} OBVIOUS
<1>7. Contents \in [{} -> Values \cup {None}] BY <1>5, <1>6
<1> QED BY <1>7 DEF Promise!Init

\* The table implements a finite map: every call gives one key a value, drops some keys, or
\* changes nothing; growing, shrinking, copying and rebuilding lose no entry and add none.
THEOREM TablesImplementMaps == HashSpec /\ [][RoomAsked]_vars => ImplementsFiniteMap
<1>1. HashInv => Represents BY ContentsGraph DEF Represents
<1>2. Init => HashInv BY HashInitially
<1>3. Init /\ Represents => Promise!Init BY EmptyMap
<1>4. HashInv /\ Represents /\ Represents' /\ [HashNext]_vars /\ [RoomAsked]_vars => [Promise!Next]_Contents
  <2> SUFFICES ASSUME HashInv, Represents, Represents', [HashNext]_vars, [RoomAsked]_vars
               PROVE  [Promise!Next]_Contents
    OBVIOUS
  <2>1. CASE UNCHANGED vars BY <2>1 DEF vars, Contents, ContentsOf, Used
  <2>2. CASE Next /\ RoomAsked BY <2>2, NextKeeps, MapFollows
  <2>3. CASE SetNext /\ RoomAsked BY <2>3, SetNextKeeps, MapFollows
  <2> QED BY <2>1, <2>2, <2>3 DEF HashNext
<1> QED BY <1>1, <1>2, <1>3, <1>4, HashInvariance, PTL DEF HashSpec, ImplementsFiniteMap, Promise!Spec

-----------------------------------------------------------------------------
(* An iterator visits every entry once *)

OnTo(t, s) ==
  LET j == AdvancedToValid(t, s.next) IN
  IF j = Size(t) THEN s ELSE [seen |-> Append(s.seen, j), next |-> j + 1]

LEMMA Visiting ==
  ASSUME NEW n \in Nat, NEW t, Size(t) = n
  PROVE  \E R : /\ R[0] = [seen |-> <<>>, next |-> 0]
                /\ \A i \in 0 .. n - 1 : R[i + 1] = OnTo(t, R[i])
                /\ Walk(t) = R[n].seen
<1> DEFINE start == [seen |-> <<>>, next |-> 0]
           Run(f, w) == [i \in 0 .. w |-> IF i = 0 THEN start ELSE OnTo(t, f[i - 1])]
           Some == {w \in Nat : \E f : f = Run(f, w)}
<1>1. \A w \in Nat : w \in Some
  <2>1. 0 \in Some
    <3>1. [i \in 0 .. 0 |-> start] = Run([i \in 0 .. 0 |-> start], 0) OBVIOUS
    <3> QED BY <3>1
  <2>2. ASSUME NEW w \in Nat, w \in Some
        PROVE  w + 1 \in Some
    <3>1. PICK f : f = Run(f, w) BY <2>2
    <3> DEFINE last == OnTo(t, f[w])
               g == [i \in 0 .. w + 1 |-> IF i = w + 1 THEN last ELSE f[i]]
    <3> HIDE DEF start
    <3>2. \A i \in 0 .. w : f[i] = IF i = 0 THEN start ELSE OnTo(t, f[i - 1]) BY <3>1
    <3>3. \A i \in 0 .. w + 1 : g[i] = IF i = 0 THEN start ELSE OnTo(t, g[i - 1]) BY <3>2
    <3>4. g = Run(g, w + 1)
      <4> HIDE DEF g
      <4>1. g = [i \in 0 .. w + 1 |-> g[i]] BY DEF g
      <4> QED BY <3>3, <4>1
    <3>5. \E h : h = Run(h, w + 1)
      <4> HIDE DEF g
      <4> QED BY <3>4
    <3> QED BY <3>5
  <2> HIDE DEF Some
  <2> QED BY <2>1, <2>2, Induct
<1> DEFINE R == CHOOSE f : f = Run(f, n)
<1>2. R = Run(R, n) BY <1>1
<1>3. Walk(t) = R[n].seen BY DEF Walk, OnTo
<1>4. R[0] = start /\ \A i \in 0 .. n - 1 : R[i + 1] = OnTo(t, R[i])
  <2> HIDE DEF R, start
  <2> QED BY <1>2
<1> QED BY <1>3, <1>4

\* An iterator that has made i steps has seen, in order, what is in front of the bucket it comes to next.
Walking(s, t, n, i) ==
  /\ s.seen \in Seq(0 .. n - 1) /\ s.next \in 0 .. n
  /\ Range(s.seen) = Ahead(t, s.next) /\ Ascending(s.seen)
  /\ s.next >= i \/ Ahead(t, s.next) = Used(t)

LEMMA OnToIs ==
  ASSUME NEW n, NEW t, Table(t, n), NEW i \in Nat, NEW s, Walking(s, t, n, i)
  PROVE  Walking(OnTo(t, s), t, n, i + 1)
<1> DEFINE x == s.next
           a == s.seen
           S == {j \in Used(t) : j >= x} \cup {n}
           m == Min(S)
<1>1. n \in Nat /\ Size(t) = n /\ Used(t) \subseteq 0 .. n - 1 BY TableIs
<1>2. /\ a \in Seq(0 .. n - 1) /\ x \in 0 .. n /\ Range(a) = Ahead(t, x) /\ Ascending(a)
      /\ x >= i \/ Ahead(t, x) = Used(t)
  BY DEF Walking
<1>3. m \in S /\ \A y \in S : m <= y
  <2>1. S \subseteq Nat /\ S # {} BY <1>1
  <2> HIDE DEF S
  <2> QED BY <2>1, LeastIs
<1>4. AdvancedToValid(t, s.next) = m BY <1>1 DEF AdvancedToValid
<1> HIDE DEF m
<1>5. CASE m = n
  <2>1. OnTo(t, s) = s BY <1>1, <1>4, <1>5 DEF OnTo
  <2>2. \A j \in Used(t) : j < x
    <3> SUFFICES ASSUME NEW j \in Used(t), ~(j < x) PROVE FALSE OBVIOUS
    <3>1. j \in S /\ j < n BY <1>1, <1>2
    <3> QED BY <1>1, <1>3, <1>5, <3>1
  <2>3. Ahead(t, x) = Used(t) BY <2>2 DEF Ahead
  <2> QED BY <1>2, <2>1, <2>3 DEF Walking
<1>6. CASE m # n
  <2> DEFINE b == Append(a, m)
  <2>1. m \in Used(t) /\ m >= x /\ m \in 0 .. n - 1 BY <1>1, <1>3, <1>6
  <2>2. OnTo(t, s).seen = b /\ OnTo(t, s).next = m + 1 BY <1>1, <1>4, <1>6 DEF OnTo
  <2>3. /\ b \in Seq(0 .. n - 1) /\ Len(b) = Len(a) + 1 /\ Len(a) \in Nat
        /\ DOMAIN b = 1 .. Len(a) + 1 /\ DOMAIN a = 1 .. Len(a)
        /\ b[Len(a) + 1] = m /\ \A j \in 1 .. Len(a) : b[j] = a[j]
    BY <1>2, <2>1
  <2> HIDE DEF b, S
  <2>4. Range(b) = Range(a) \cup {m} BY <2>3 DEF Range
  <2>5. Ahead(t, m + 1) = Ahead(t, x) \cup {m}
    <3>1. \A j \in Used(t) : j < m + 1 <=> j < x \/ j = m
      <4> SUFFICES ASSUME NEW j \in Used(t) PROVE j < m + 1 <=> j < x \/ j = m OBVIOUS
      <4>1. j \in Nat /\ (j >= x => m <= j) BY <1>1, <1>3 DEF S
      <4> QED BY <1>2, <2>1, <4>1
    <3> QED BY <2>1, <3>1 DEF Ahead
  <2>6. Ascending(b)
    <3> SUFFICES ASSUME NEW j \in DOMAIN b, NEW l \in DOMAIN b, j < l PROVE b[j] < b[l] BY DEF Ascending
    <3>1. j \in 1 .. Len(a) /\ b[j] = a[j] /\ a[j] \in Ahead(t, x) BY <1>2, <2>3 DEF Range
    <3>2. CASE l = Len(a) + 1
      <4>1. a[j] < x /\ a[j] \in Nat BY <1>1, <3>1 DEF Ahead
      <4> QED BY <1>2, <2>1, <2>3, <3>1, <3>2, <4>1
    <3>3. CASE l # Len(a) + 1
      <4>1. l \in 1 .. Len(a) /\ b[l] = a[l] BY <2>3, <3>3
      <4> QED BY <1>2, <2>3, <3>1, <4>1 DEF Ascending
    <3> QED BY <3>2, <3>3
  <2>7. m + 1 >= i + 1 \/ Ahead(t, m + 1) = Used(t)
    <3>1. CASE x >= i BY <1>2, <2>1, <3>1
    <3>2. CASE Ahead(t, x) = Used(t)
      <4>1. m < x BY <2>1, <3>2 DEF Ahead
      <4> QED BY <1>2, <2>1, <4>1
    <3> QED BY <1>2, <3>1, <3>2
  <2>8. m + 1 \in 0 .. n BY <1>1, <2>1
  <2> QED BY <1>2, <2>2, <2>3, <2>4, <2>5, <2>6, <2>7, <2>8 DEF Walking
<1> QED BY <1>5, <1>6

LEMMA WalkIs ==
  ASSUME NEW n, NEW t, Table(t, n)
  PROVE  Walk(t) \in Seq(0 .. n - 1) /\ Range(Walk(t)) = Used(t) /\ Ascending(Walk(t))
<1>1. n \in Nat /\ Size(t) = n BY TableIs
<1>2. PICK R : /\ R[0] = [seen |-> <<>>, next |-> 0]
               /\ \A i \in 0 .. n - 1 : R[i + 1] = OnTo(t, R[i])
               /\ Walk(t) = R[n].seen
  BY <1>1, Visiting
<1> DEFINE Sound == {i \in Nat : i <= n => Walking(R[i], t, n, i)}
<1>3. 0 \in Sound
  <2>1. R[0].seen = <<>> /\ R[0].next = 0 BY <1>2
  <2>2. Ahead(t, 0) = {} BY AheadGrows
  <2>3. <<>> \in Seq(0 .. n - 1) /\ Range(<<>>) = {} /\ Ascending(<<>>) BY DEF Range, Ascending
  <2>4. Walking(R[0], t, n, 0)
    <3> HIDE DEF Sound
    <3>1. R[0].seen \in Seq(0 .. n - 1) /\ Range(R[0].seen) = {} /\ Ascending(R[0].seen) BY <2>1, <2>3
    <3>2. R[0].next \in 0 .. n /\ R[0].next >= 0 /\ Ahead(t, R[0].next) = {} BY <1>1, <2>1, <2>2
    <3> QED BY <3>1, <3>2 DEF Walking
  <2> QED BY <2>4
<1>4. ASSUME NEW i \in Nat, i \in Sound
      PROVE  i + 1 \in Sound
  <2> SUFFICES ASSUME i + 1 <= n PROVE Walking(R[i + 1], t, n, i + 1) OBVIOUS
  <2>1. i \in 0 .. n - 1 /\ Walking(R[i], t, n, i) BY <1>1, <1>4
  <2>2. Walking(OnTo(t, R[i]), t, n, i + 1) BY <2>1, OnToIs
  <2> QED BY <1>2, <2>1, <2>2
<1> HIDE DEF Sound
<1>5. \A i \in Nat : i \in Sound BY <1>3, <1>4, Induct
<1>6. Walking(R[n], t, n, n) BY <1>1, <1>5 DEF Sound
<1>7. Ahead(t, R[n].next) = Used(t)
  <2>1. Ahead(t, n) = Used(t) BY AheadGrows
  <2>2. R[n].next = n \/ Ahead(t, R[n].next) = Used(t) BY <1>1, <1>6 DEF Walking
  <2> QED BY <2>1, <2>2
<1> QED BY <1>2, <1>6, <1>7 DEF Walking

LEMMA Prefix ==
  ASSUME NEW S, NEW w \in Seq(S), NEW d \in 1 .. Len(w)
  PROVE  SubSeq(w, 1, d) \in Seq(S) /\ Len(SubSeq(w, 1, d)) = d /\ SubSeq(w, 1, d)[d] = w[d]
<1>1. d \in Nat /\ d >= 1 /\ d <= Len(w) /\ Len(w) \in Nat /\ 1 + d - 1 = d /\ d - 1 + 1 = d OBVIOUS
<1>2. \A i \in 1 .. d : w[i] \in S BY <1>1
<1>3. Len(SubSeq(w, 1, d)) = d BY <1>1
<1>4. SubSeq(w, 1, d)[d] = w[d] BY <1>1
<1>5. SubSeq(w, 1, d) \in Seq(S) BY <1>1, <1>2
<1> QED BY <1>3, <1>4, <1>5

\* A callback that refuses no entry sees all of them, and one that refuses k sees k last.
LEMMA ScannedIs ==
  ASSUME NEW n, NEW t, Table(t, n)
  PROVE  /\ Scanned(t, {}) = Walk(t)
         /\ \A q \in Used(t) : LET s == Scanned(t, {t[q].key}) IN
              /\ s \in Seq(0 .. n - 1) /\ Len(s) \in Nat \ {0} /\ DOMAIN s = 1 .. Len(s)
              /\ s[Len(s)] \in Used(t) /\ t[s[Len(s)]].key = t[q].key
<1> DEFINE w == Walk(t)
<1>1. w \in Seq(0 .. n - 1) /\ Range(w) = Used(t) /\ DOMAIN w = 1 .. Len(w) /\ Len(w) \in Nat BY WalkIs
<1>2. Scanned(t, {}) = w
  <2>1. {i \in DOMAIN w : t[w[i]].key \in {}} = {} OBVIOUS
  <2>2. SubSeq(w, 1, Len(w)) = w
    <3> HIDE DEF w
    <3> QED BY <1>1
  <2> QED BY <2>1, <2>2 DEF Scanned
<1>3. ASSUME NEW q \in Used(t)
      PROVE  LET s == Scanned(t, {t[q].key}) IN
             /\ s \in Seq(0 .. n - 1) /\ Len(s) \in Nat \ {0} /\ DOMAIN s = 1 .. Len(s)
             /\ s[Len(s)] \in Used(t) /\ t[s[Len(s)]].key = t[q].key
  <2> DEFINE hits == {i \in DOMAIN w : t[w[i]].key \in {t[q].key}}
             d == Min(hits)
             s == SubSeq(w, 1, d)
  <2>0. Scanned(t, {t[q].key}) = SubSeq(w, 1, IF hits = {} THEN Len(w) ELSE d) BY DEF Scanned
  <2> HIDE DEF w
  <2>1. PICK i \in DOMAIN w : w[i] = q BY <1>1 DEF Range
  <2>2. hits # {} /\ hits \subseteq Nat BY <1>1, <2>1
  <2>3. d \in hits
    <3> HIDE DEF hits
    <3> QED BY <2>2, LeastIs
  <2>4. Scanned(t, {t[q].key}) = s BY <2>0, <2>2
  <2> HIDE DEF d
  <2>5. d \in 1 .. Len(w) /\ t[w[d]].key = t[q].key /\ w[d] \in Used(t) BY <1>1, <2>3 DEF Range
  <2> HIDE DEF hits
  <2>6. s \in Seq(0 .. n - 1) /\ Len(s) = d /\ s[d] = w[d] BY <1>1, <2>5, Prefix
  <2> HIDE DEF s
  <2>7. DOMAIN s = 1 .. Len(s) /\ Len(s) \in Nat \ {0} BY <1>1, <2>5, <2>6
  <2> QED BY <2>4, <2>5, <2>6, <2>7
<1> QED BY <1>2, <1>3

\* It sees as many as there are.
LEMMA WalkLength ==
  ASSUME NEW n, NEW t, Table(t, n)
  PROVE  Len(Walk(t)) = Cardinality(Used(t))
<1> DEFINE w == Walk(t)
<1>1. /\ w \in Seq(0 .. n - 1) /\ Range(w) = Used(t) /\ Ascending(w)
      /\ DOMAIN w = 1 .. Len(w) /\ Len(w) \in Nat
  BY WalkIs
<1>2. n \in Nat /\ Used(t) \subseteq 0 .. n - 1 BY TableIs
<1> HIDE DEF w
<1>3. \A i \in 1 .. Len(w) : w[i] \in Used(t) /\ w[i] \in Nat BY <1>1, <1>2 DEF Range
<1>4. \A i, j \in 1 .. Len(w) : w[i] = w[j] => i = j
  <2> SUFFICES ASSUME NEW i \in 1 .. Len(w), NEW j \in 1 .. Len(w), i # j PROVE w[i] # w[j] OBVIOUS
  <2>1. CASE i < j
    <3>1. w[i] < w[j] BY <1>1, <2>1 DEF Ascending
    <3> QED BY <1>3, <3>1
  <2>2. CASE j < i
    <3>1. w[j] < w[i] BY <1>1, <2>2 DEF Ascending
    <3> QED BY <1>3, <3>1
  <2> QED BY <1>1, <2>1, <2>2
<1>5. \A q \in Used(t) : \E i \in 1 .. Len(w) : w[i] = q BY <1>1 DEF Range
<1>6. w \in Bijection(1 .. Len(w), Used(t))
  <2>1. w \in [1 .. Len(w) -> Used(t)]
    <3>1. w = [i \in 1 .. Len(w) |-> w[i]] BY <1>1
    <3> QED BY <1>3, <3>1
  <2>2. w \in Injection(1 .. Len(w), Used(t)) BY <1>4, <2>1 DEF Injection, IsInjective
  <2>3. w \in Surjection(1 .. Len(w), Used(t)) BY <1>5, <2>1 DEF Surjection
  <2> QED BY <2>2, <2>3 DEF Bijection
<1>7. Cardinality(Used(t)) = Len(w)
  <2>1. Len(w) \in Nat /\ ExistsBijection(1 .. Len(w), Used(t)) BY <1>1, <1>6 DEF ExistsBijection
  <2> QED BY <2>1, FS_CountingElements
<1> QED BY <1>7 DEF w

-----------------------------------------------------------------------------
(* What the calls do and return *)

LEMMA ContentsUpdated ==
  ASSUME NEW n, NEW u, Robin(u, n), NEW f, NEW P, Graph(f, P), NEW k, NEW v,
         Pairs(u) = Less(P, k) \cup {<<k, v>>}
  PROVE  ContentsOf(u) = Updated(f, k, v)
<1>1. Graph(ContentsOf(u), Pairs(u)) BY ContentsAre DEF Robin
<1>2. Graph(Updated(f, k, v), Pairs(u)) BY UpdatedGraph
<1> QED BY <1>1, <1>2, SameGraph

\* What has an entry for a key.
LEMMA Working ==
  ASSUME HashInv, Works
  PROVE  /\ Robin(buckets, Size(buckets)) /\ Table(buckets, Size(buckets)) /\ Once(buckets, Size(buckets))
         /\ Size(buckets) \in Nat /\ Size(buckets) >= 2 /\ count = Cardinality(Used(buckets)) /\ count \in Nat
         /\ count < Size(buckets) /\ Room(buckets, Size(buckets)) /\ cap \in Nat /\ cap >= 2
         /\ Graph(Contents, Pairs(buckets)) /\ IsFiniteSet(Used(buckets))
<1>1. broken = "no" /\ ~Absent BY DEF Works
<1>2. /\ Robin(buckets, Size(buckets)) /\ Table(buckets, Size(buckets))
      /\ Size(buckets) \in Nat /\ Size(buckets) >= 2 /\ count = Cardinality(Used(buckets)) /\ count \in Nat
      /\ count < Size(buckets) /\ Room(buckets, Size(buckets)) /\ cap \in Nat /\ cap >= 2
  BY <1>1, Present
<1>3. Graph(Contents, Pairs(buckets)) /\ IsFiniteSet(Used(buckets)) /\ Once(buckets, Size(buckets))
  BY <1>2, ContentsGraph, TableIs DEF Robin
<1> QED BY <1>2, <1>3

\* A lookup finds the keys of the map.
LEMMA Lookup ==
  ASSUME HashInv, Works, NEW k \in Keys
  PROVE  LET p == Position(buckets, k) IN
         /\ k \in DOMAIN Contents <=> p # -1
         /\ p # -1 => /\ p \in 0 .. Size(buckets) - 1 /\ p \in Used(buckets) /\ buckets[p].dib # 0
                      /\ buckets[p].key = k /\ Contents[k] = buckets[p].val /\ count # 0
         /\ p = -1 => NotIn(k, buckets, Size(buckets))
<1> DEFINE p == Position(buckets, k)
           z == Size(buckets)
           P == Pairs(buckets)
           f == Contents
<1>1. /\ Robin(buckets, z) /\ Table(buckets, z) /\ count = Cardinality(Used(buckets)) /\ Graph(f, P)
      /\ IsFiniteSet(Used(buckets))
  BY Working
<1>2. \/ p = -1 /\ NotIn(k, buckets, z)
      \/ p \in 0 .. z - 1 /\ p \in Used(buckets) /\ buckets[p].dib # 0 /\ buckets[p].key = k
  <2> HIDE DEF z
  <2> QED BY <1>1, PositionIs
<1>3. DOMAIN f = {e[1] : e \in P} /\ \A e \in P : f[e[1]] = e[2]
  <2> HIDE DEF f, P
  <2> DEFINE D == {e[1] : e \in P}
  <2>1. f = [j \in D |-> f[j]] /\ \A e \in P : f[e[1]] = e[2] BY <1>1 DEF Graph
  <2> HIDE DEF D
  <2>2. DOMAIN f = D BY <2>1
  <2> QED BY <2>1, <2>2 DEF D
<1>4. CASE p = -1 /\ NotIn(k, buckets, z)
  <2>1. \A e \in P : e[1] # k
    <3> SUFFICES ASSUME NEW i \in Used(buckets) PROVE buckets[i].key # k BY DEF Pairs
    <3>1. i \in 0 .. z - 1 /\ buckets[i].dib # 0
      <4> HIDE DEF z
      <4> QED BY <1>1, TableIs
    <3> QED BY <1>4, <3>1 DEF NotIn
  <2> HIDE DEF f, P
  <2>2. k \notin DOMAIN f BY <1>3, <2>1
  <2> QED BY <1>4, <2>2 DEF f
<1>5. CASE p \in 0 .. z - 1 /\ p \in Used(buckets) /\ buckets[p].dib # 0 /\ buckets[p].key = k
  <2> DEFINE e == <<buckets[p].key, buckets[p].val>>
  <2>1. e \in P /\ e[1] = k /\ e[2] = buckets[p].val BY <1>5 DEF Pairs
  <2>2. count # 0
    <3>1. Used(buckets) # {} BY <1>5
    <3> QED BY <1>1, <3>1, FS_EmptySet
  <2>3. p # -1
    <3>1. z \in Nat BY <1>1, TableIs
    <3> HIDE DEF z, p
    <3> QED BY <1>5, <3>1
  <2> HIDE DEF f, P, e
  <2>4. k \in DOMAIN f /\ f[k] = buckets[p].val BY <1>3, <2>1
  <2> QED BY <1>5, <2>2, <2>3, <2>4 DEF f
<1> QED BY <1>2, <1>4, <1>5

LEMMA SetsExact ==
  ASSUME HashInv, Works, NEW k \in Keys, NEW v \in Values \cup {None}
  PROVE  /\ ContentsOf(AssignedOrPlaced(k, v)) = Updated(Contents, k, v)
         /\ ContentsOf(InsertedWhileSearching(k, v).table) = Updated(Contents, k, v)
<1> DEFINE n == IF MustGrow THEN NextSize ELSE Size(buckets)
           z == Size(buckets)
           P == Pairs(buckets)
           f == Contents
           p == Position(buckets, k)
<1>1. Robin(buckets, z) /\ Graph(f, P) BY Working
<1>2. /\ Robin(Grown, n) /\ n \in Nat /\ count + 1 < n /\ Pairs(Grown) = P
      /\ Cardinality(Used(Grown)) = count /\ count \in Nat
  BY GrownIs, Working
<1>3. ContentsOf(AssignedOrPlaced(k, v)) = Updated(f, k, v)
  <2>1. CASE p = -1
    <3>1. AssignedOrPlaced(k, v) = Placed(Grown, Entry(k, v)) BY <2>1 DEF AssignedOrPlaced
    <3>2. Robin(Placed(Grown, Entry(k, v)), n) /\ Pairs(Placed(Grown, Entry(k, v))) = Less(P, k) \cup {<<k, v>>}
      BY <2>1, PutNew
    <3> HIDE DEF n, P, f
    <3> QED BY <1>1, <3>1, <3>2, ContentsUpdated
  <2>2. CASE p # -1
    <3>1. AssignedOrPlaced(k, v) = Put(buckets, p, Valued(buckets[p], v))
      BY <2>2 DEF AssignedOrPlaced, Put, Valued
    <3>2. p \in 0 .. z - 1 /\ buckets[p].dib # 0 /\ buckets[p].key = k BY <2>2, Lookup
    <3> HIDE DEF z, p, P, f
    <3>3. /\ Robin(Put(buckets, p, Valued(buckets[p], v)), z)
          /\ Pairs(Put(buckets, p, Valued(buckets[p], v))) = Less(Pairs(buckets), k) \cup {<<k, v>>}
      BY <1>1, <3>2, AssignedIs
    <3>4. Graph(f, Pairs(buckets)) BY <1>1 DEF P
    <3> QED BY <3>1, <3>3, <3>4, ContentsUpdated
  <2> QED BY <2>1, <2>2
<1>4. ContentsOf(InsertedWhileSearching(k, v).table) = Updated(f, k, v)
  <2> HIDE DEF n
  <2>1. Cardinality(Used(Grown)) < n BY <1>2
  <2> DEFINE t == InsertedWhileSearching(k, v).table
  <2>2. Robin(t, n) /\ Pairs(t) = Less(P, k) \cup {<<k, v>>} BY <1>2, <2>1, InsertedIs DEF InsertedWhileSearching
  <2> HIDE DEF t, P, f
  <2>3. ContentsOf(t) = Updated(f, k, v) BY <1>1, <2>2, ContentsUpdated
  <2> QED BY <2>3 DEF t
<1> QED BY <1>3, <1>4

LEMMA LookupsExact ==
  ASSUME HashInv, Works, NEW k \in Keys
  PROVE  /\ k \in DOMAIN Contents =>
              /\ GetC(k) = <<Contents[k]>> /\ Get(k) = GetC(k) /\ Find(k) = Position(buckets, k)
              /\ Probe(Find(k)).key = k
         /\ k \notin DOMAIN Contents => GetC(k) = <<>> /\ Get(k) = <<>> /\ Find(k) = Size(buckets)
<1> DEFINE p == Position(buckets, k)
           z == Size(buckets)
<1>1. z \in Nat /\ z >= 2 BY Working
<1>2. /\ k \in DOMAIN Contents <=> p # -1
      /\ p # -1 => p \in 0 .. z - 1 /\ buckets[p].key = k /\ Contents[k] = buckets[p].val /\ count # 0
  BY Lookup
<1>3. ASSUME k \in DOMAIN Contents
      PROVE  /\ GetC(k) = <<Contents[k]>> /\ Get(k) = GetC(k) /\ Find(k) = p
             /\ Probe(Find(k)).key = k
  <2>1. p # -1 /\ p \in 0 .. z - 1 /\ buckets[p].key = k /\ Contents[k] = buckets[p].val /\ count # 0
    BY <1>2, <1>3
  <2>2. GetC(k) = <<Contents[k]>> /\ Get(k) = GetC(k) BY <2>1 DEF GetC, Get
  <2>3. Find(k) = p BY <2>1 DEF Find
  <2>4. p % z = p
    <3>1. p \in 0 .. 2 * z - 1 /\ z \in Nat \ {0} /\ p < z
      <4> HIDE DEF z, p
      <4> QED BY <1>1, <2>1
    <3> HIDE DEF z, p
    <3> QED BY <3>1, Wraps
  <2>5. Probe(Find(k)) = buckets[p] BY <2>1, <2>3, <2>4 DEF Probe
  <2> QED BY <2>1, <2>2, <2>3, <2>5
<1>4. ASSUME k \notin DOMAIN Contents
      PROVE  GetC(k) = <<>> /\ Get(k) = <<>> /\ Find(k) = z
  <2>1. p = -1 BY <1>2, <1>4
  <2> QED BY <2>1 DEF GetC, Get, Find
<1> QED BY <1>3, <1>4

\* Without the entry in bucket q.
LEMMA TakenIs ==
  ASSUME HashInv, Works, NEW k \in DOMAIN Contents
  PROVE  LET p == Position(buckets, k)
             w == ShiftedBack(buckets, p)
         IN  /\ k \in Keys /\ Robin(w, Size(buckets)) /\ Pairs(w) = Less(Pairs(buckets), k)
             /\ Cardinality(Used(w)) = count - 1 /\ NotIn(k, w, Size(buckets))
<1> DEFINE p == Position(buckets, k)
           z == Size(buckets)
           w == ShiftedBack(buckets, p)
           P == Pairs(buckets)
<1>1. /\ Robin(buckets, z) /\ Table(buckets, z) /\ Once(buckets, z) /\ Room(buckets, z)
      /\ count = Cardinality(Used(buckets))
  BY Working
<1>2. k \in Keys
  <2>1. Graph(Contents, P) BY Working
  <2>2. PICK e \in P : k = e[1]
    <3> DEFINE f == Contents
    <3> HIDE DEF f, P
    <3>1. k \in DOMAIN f /\ f = [j \in {e[1] : e \in P} |-> f[j]] BY <2>1 DEF Graph, f
    <3> QED BY <3>1
  <2>3. PICK i \in Used(buckets) : e = <<buckets[i].key, buckets[i].val>> BY DEF Pairs
  <2>4. buckets[i] \in Bucket /\ buckets[i].dib # 0
    <3> HIDE DEF z
    <3> QED BY <1>1, TableIs
  <2> QED BY <2>2, <2>3, <2>4, BucketIs
<1>3. p \in 0 .. z - 1 /\ buckets[p].dib # 0 /\ buckets[p].key = k BY <1>2, Lookup
<1> HIDE DEF p, z
<1>4. /\ Robin(w, z) /\ Cardinality(Used(w)) = Cardinality(Used(buckets)) - 1
      /\ Pairs(w) = Pairs(buckets) \ {Pair(buckets[p])}
  BY <1>1, <1>3, ShiftedIs
<1>5. Less(Pairs(buckets), k) = Pairs(buckets) \ {Pair(buckets[p])} BY <1>1, <1>3, OtherPairs
<1> HIDE DEF w
<1>6. NotIn(k, w, z)
  <2>1. \A x : <<k, x>> \notin Pairs(w)
    <3>1. \A x : <<k, x>>[1] = k OBVIOUS
    <3>2. \A e \in Pairs(w) : e[1] # k BY <1>4, <1>5 DEF Less
    <3> QED BY <3>1, <3>2
  <2>2. Table(w, z) BY <1>4 DEF Robin
  <2> QED BY <2>1, <2>2, NotInPairs
<1> QED BY <1>1, <1>2, <1>4, <1>5, <1>6 DEF p, z, w

LEMMA DeletesExact ==
  ASSUME HashInv, Works, NEW k \in DOMAIN Contents
  PROVE  ContentsOf(ShiftedBack(buckets, Position(buckets, k))) = Restrict(Contents, DOMAIN Contents \ {k})
<1> DEFINE w == ShiftedBack(buckets, Position(buckets, k))
           z == Size(buckets)
           P == Pairs(buckets)
           f == Contents
<1>1. Robin(w, z) /\ Pairs(w) = Less(P, k) /\ Graph(f, P) BY TakenIs, Working
<1> HIDE DEF w, z, P, f
<1>2. Graph(ContentsOf(w), Pairs(w)) BY <1>1, ContentsAre DEF Robin
<1>3. Graph(Restrict(f, DOMAIN f \ {k}), {e \in P : e[1] \notin {k}}) BY <1>1, RestrictedGraph
<1>4. {e \in P : e[1] \notin {k}} = Less(P, k) BY DEF Less
<1>5. ContentsOf(w) = Restrict(f, DOMAIN f \ {k}) BY <1>1, <1>2, <1>3, <1>4, SameGraph
<1> QED BY <1>5 DEF w, f

LEMMA MovesExact ==
  ASSUME HashInv, Works
  PROVE  /\ ContentsOf(Rehashed(buckets, 2 * Size(buckets))) = Contents
         /\ ContentsOf(Copied(buckets, cap, {})) = Contents
         /\ Robin(Rehashed(buckets, 2 * Size(buckets)), 2 * Size(buckets))
         /\ Pairs(Rehashed(buckets, 2 * Size(buckets))) = Pairs(buckets)
         /\ Cardinality(Used(Rehashed(buckets, 2 * Size(buckets)))) = count
<1> DEFINE z == Size(buckets)
           m == 2 * z
           u == Rehashed(buckets, m)
           c == Copied(buckets, cap, {})
           P == Pairs(buckets)
           f == Contents
<1>1. /\ Table(buckets, z) /\ Once(buckets, z) /\ Graph(f, P) /\ count = Cardinality(Used(buckets))
      /\ z \in Nat /\ z >= 2 /\ count \in Nat /\ count < z /\ cap \in Nat /\ cap >= 2
  BY Working
<1>2. m \in Nat /\ m >= 2 /\ Cardinality(Used(buckets)) < m
  <2> HIDE DEF z
  <2> QED BY <1>1
<1> HIDE DEF z, m
<1>3. Robin(u, m) /\ Cardinality(Used(u)) = count /\ Pairs(u) = Pairs(buckets) BY <1>1, <1>2, RehashedIs
<1>4. Roomy(c) /\ Pairs(c) = Pairs(buckets) BY <1>1, CopiedIs
<1> HIDE DEF u, c, f
<1>5. Graph(ContentsOf(u), P) /\ Graph(ContentsOf(c), P)
  <2>1. Graph(ContentsOf(u), Pairs(u)) BY <1>3, ContentsAre DEF Robin
  <2>2. Graph(ContentsOf(c), Pairs(c)) BY <1>4, ContentsAre DEF Robin, Roomy
  <2> QED BY <1>3, <1>4, <2>1, <2>2
<1> HIDE DEF P
<1>6. ContentsOf(u) = f /\ ContentsOf(c) = f BY <1>1, <1>5, SameGraph
<1> QED BY <1>3, <1>6 DEF u, c, m, z, f

LEMMA CallsAreExact ==
  ASSUME HashInv
  PROVE  CallsExact
<1> SUFFICES ASSUME Works PROVE CallsExact BY DEF CallsExact
<1>1. ASSUME NEW k \in Keys, NEW v \in IF kind \in {"c map", "map"} THEN Values ELSE {None}
      PROVE  ContentsOf(IF cpp THEN AssignedOrPlaced(k, v) ELSE InsertedWhileSearching(k, v).table)
               = Updated(Contents, k, v)
  <2>1. v \in Values \cup {None} OBVIOUS
  <2>2. CASE cpp BY <2>1, <2>2, SetsExact
  <2>3. CASE ~cpp BY <2>1, <2>3, SetsExact
  <2> QED BY <2>2, <2>3
<1>2. ASSUME NEW k \in Keys
      PROVE  IF k \in DOMAIN Contents
               THEN /\ GetC(k) = <<Contents[k]>> /\ Get(k) = GetC(k)
                    /\ Probe(Find(k)).key = k
               ELSE GetC(k) = <<>> /\ Get(k) = <<>> /\ Find(k) = Size(buckets)
  BY LookupsExact
<1>3. ASSUME NEW k \in DOMAIN Contents
      PROVE  ContentsOf(ShiftedBack(buckets, Position(buckets, k))) = Restrict(Contents, DOMAIN Contents \ {k})
  BY DeletesExact
<1>4. /\ ContentsOf(Rehashed(buckets, 2 * Size(buckets))) = Contents
      /\ ContentsOf(Copied(buckets, cap, {})) = Contents
  BY MovesExact
<1>5. Range(Scanned(buckets, {})) = Used(buckets) /\ Ascending(Scanned(buckets, {}))
  <2>1. Table(buckets, Size(buckets)) BY Working
  <2>2. Scanned(buckets, {}) = Walk(buckets) /\ Range(Walk(buckets)) = Used(buckets) /\ Ascending(Walk(buckets))
    BY <2>1, ScannedIs, WalkIs
  <2> QED BY <2>2
<1> QED BY <1>1, <1>2, <1>3, <1>4, <1>5 DEF CallsExact

-----------------------------------------------------------------------------
(* The calls of a set *)

\* A sequence keeps its length when every member is replaced.
LEMMA SameLength ==
  ASSUME NEW S, NEW s \in Seq(S), NEW T, NEW g, DOMAIN g = DOMAIN s, g = [i \in DOMAIN s |-> g[i]], \A i \in DOMAIN s : g[i] \in T
  PROVE  Len(g) = Len(s)
<1> DEFINE m == Len(s)
<1>1. DOMAIN s = 1 .. m /\ m \in Nat OBVIOUS
<1> HIDE DEF m
<1>2. g \in [1 .. m -> T] BY <1>1
<1>3. g \in Seq(T) BY <1>1, <1>2
<1>4. DOMAIN g = 1 .. Len(g) /\ Len(g) \in Nat BY <1>3
<1>5. Len(g) = m BY <1>1, <1>4
<1> QED BY <1>5 DEF m

LEMMA KeysAre ==
  ASSUME HashInv, Works
  PROVE  DOMAIN Contents = {buckets[i].key : i \in Used(buckets)} /\ DOMAIN Contents \subseteq Keys
<1> DEFINE f == Contents
           P == Pairs(buckets)
           K == {buckets[i].key : i \in Used(buckets)}
<1>1. DOMAIN f = {e[1] : e \in P}
  <2>1. Graph(f, P) BY Working
  <2> HIDE DEF f, P
  <2> DEFINE D == {e[1] : e \in P}
  <2>2. f = [j \in D |-> f[j]] BY <2>1 DEF Graph
  <2> HIDE DEF D
  <2>3. DOMAIN f = D BY <2>2
  <2> QED BY <2>3 DEF D
<1>2. ASSUME NEW x \in {e[1] : e \in P} PROVE x \in K
  <2>1. PICK i \in Used(buckets) : x = <<buckets[i].key, buckets[i].val>>[1] BY <1>2 DEF Pairs
  <2> QED BY <2>1
<1>3. ASSUME NEW x \in K PROVE x \in {e[1] : e \in P}
  <2>1. PICK i \in Used(buckets) : x = buckets[i].key BY <1>3
  <2> DEFINE e == <<buckets[i].key, buckets[i].val>>
  <2>2. e \in P /\ e[1] = x BY <2>1 DEF Pairs
  <2> HIDE DEF e, P
  <2> QED BY <2>2
<1>4. K \subseteq Keys
  <2> SUFFICES ASSUME NEW i \in Used(buckets) PROVE buckets[i].key \in Keys OBVIOUS
  <2> DEFINE z == Size(buckets)
  <2>1. Table(buckets, z) BY Working
  <2> HIDE DEF z
  <2>2. buckets[i] \in Bucket /\ buckets[i].dib # 0 BY <2>1, TableIs
  <2> QED BY <2>2, BucketIs
<1> HIDE DEF f, P
<1>5. DOMAIN f = K BY <1>1, <1>2, <1>3
<1> QED BY <1>4, <1>5 DEF f

LEMMA ItemsFound ==
  ASSUME HashInv, Works
  PROVE  /\ {k \in Keys : ContainsItemC(k)} = DOMAIN Contents
         /\ {k \in Keys : ContainsItem(k)} = DOMAIN Contents
         /\ \A k \in DOMAIN Contents : FindItem(k) = Position(buckets, k) /\ buckets[FindItem(k)].key = k
<1> DEFINE D == DOMAIN Contents
<1>1. D \subseteq Keys BY KeysAre
<1>2. ASSUME NEW k \in Keys
      PROVE  (ContainsItemC(k) <=> k \in D) /\ (ContainsItem(k) <=> k \in D)
  <2>1. CASE k \in D
    <3>1. GetC(k) = <<Contents[k]>> /\ Position(buckets, k) # -1 /\ count # 0 BY <2>1, LookupsExact, Lookup
    <3>2. ContainsItemC(k) BY <3>1 DEF ContainsItemC
    <3>3. ContainsItem(k) BY <3>1 DEF ContainsItem
    <3> QED BY <2>1, <3>2, <3>3
  <2>2. CASE k \notin D
    <3>1. GetC(k) = <<>> /\ Position(buckets, k) = -1 BY <2>2, LookupsExact, Lookup
    <3>2. ~ContainsItemC(k) BY <3>1 DEF ContainsItemC
    <3>3. ~ContainsItem(k) BY <3>1 DEF ContainsItem
    <3> QED BY <2>2, <3>2, <3>3
  <2> QED BY <2>1, <2>2
<1>3. ASSUME NEW k \in D
      PROVE  FindItem(k) = Position(buckets, k) /\ buckets[FindItem(k)].key = k
  <2>1. k \in Keys /\ ContainsItem(k) BY <1>1, <1>2
  <2>2. FindItem(k) = Position(buckets, k) BY <2>1 DEF FindItem
  <2>3. buckets[Position(buckets, k)].key = k BY <2>1, Lookup
  <2> QED BY <2>2, <2>3
<1> HIDE DEF D
<1>4. {k \in Keys : ContainsItemC(k)} = D /\ {k \in Keys : ContainsItem(k)} = D BY <1>1, <1>2
<1> QED BY <1>3, <1>4 DEF D

LEMMA ItemsScanned ==
  ASSUME HashInv, Works
  PROVE  /\ Range(ScannedItems({})) = DOMAIN Contents /\ Len(ScannedItems({})) = count
         /\ \A k \in DOMAIN Contents : LET visited == ScannedItems({k}) IN visited[Len(visited)] = k
<1> DEFINE n == Size(buckets)
           w == Walk(buckets)
           D == DOMAIN Contents
<1>1. /\ Table(buckets, n) /\ count = Cardinality(Used(buckets))
      /\ D = {buckets[i].key : i \in Used(buckets)}
  BY Working, KeysAre
<1> HIDE DEF n
<1>2. /\ w \in Seq(0 .. n - 1) /\ Range(w) = Used(buckets) /\ Len(w) = Cardinality(Used(buckets))
      /\ Scanned(buckets, {}) = w
  BY <1>1, WalkIs, WalkLength, ScannedIs
<1> HIDE DEF w, D
<1>3. Range(ScannedItems({})) = D /\ Len(ScannedItems({})) = count
  <2> DEFINE g == [i \in DOMAIN w |-> buckets[w[i]].key]
             T == {buckets[i].key : i \in Used(buckets)}
  <2>1. ScannedItems({}) = g BY <1>2 DEF ScannedItems
  <2>2. \A i \in DOMAIN w : g[i] = buckets[w[i]].key /\ w[i] \in Used(buckets) BY <1>2 DEF Range
  <2>3. DOMAIN g = DOMAIN w /\ g = [i \in DOMAIN w |-> g[i]] OBVIOUS
  <2> HIDE DEF g
  <2>4. \A i \in DOMAIN w : g[i] \in T BY <2>2
  <2>5. Len(g) = Len(w)
    <3> HIDE DEF T
    <3> QED BY <1>2, <2>3, <2>4, SameLength
  <2>6. Range(g) = T
    <3>1. ASSUME NEW i \in Used(buckets) PROVE buckets[i].key \in Range(g)
      <4>1. PICK j \in DOMAIN w : w[j] = i BY <1>2 DEF Range
      <4>2. g[j] = buckets[i].key /\ j \in DOMAIN g BY <2>2, <2>3, <4>1
      <4> QED BY <4>2 DEF Range
    <3>2. ASSUME NEW x \in Range(g) PROVE x \in T BY <2>3, <2>4 DEF Range
    <3> QED BY <3>1, <3>2
  <2> QED BY <1>1, <1>2, <2>1, <2>5, <2>6
<1>4. ASSUME NEW k \in D
      PROVE  LET visited == ScannedItems({k}) IN visited[Len(visited)] = k
  <2>1. PICK q \in Used(buckets) : buckets[q].key = k BY <1>1
  <2> DEFINE s == Scanned(buckets, {k})
             g == [i \in DOMAIN s |-> buckets[s[i]].key]
             T == {buckets[s[i]].key : i \in DOMAIN s}
  <2>2. s \in Seq(0 .. n - 1) /\ Len(s) \in Nat \ {0} /\ DOMAIN s = 1 .. Len(s) /\ buckets[s[Len(s)]].key = k
    <3> DEFINE r == Scanned(buckets, {buckets[q].key})
    <3>1. r \in Seq(0 .. n - 1) /\ Len(r) \in Nat \ {0} /\ DOMAIN r = 1 .. Len(r) /\ buckets[r[Len(r)]].key = buckets[q].key
      BY <1>1, ScannedIs
    <3>2. r = s BY <2>1
    <3> HIDE DEF r, s
    <3> QED BY <2>1, <3>1, <3>2
  <2>3. ScannedItems({k}) = g BY DEF ScannedItems
  <2> HIDE DEF s
  <2>4. DOMAIN g = DOMAIN s /\ g = [i \in DOMAIN s |-> g[i]] /\ \A i \in DOMAIN s : g[i] \in T OBVIOUS
  <2>5. Len(s) \in DOMAIN s BY <2>2
  <2>6. g[Len(s)] = k BY <2>2, <2>5
  <2> HIDE DEF g, T
  <2>7. Len(g) = Len(s) BY <2>2, <2>4, SameLength
  <2> QED BY <2>3, <2>6, <2>7
<1> QED BY <1>3, <1>4 DEF D

\* Whether a set equals this one, in terms of the pairs.
LEMMA SameItemsIs ==
  ASSUME HashInv, Works, NEW m, NEW u, Robin(u, m), Cardinality(Used(u)) = count
  PROVE  SameItems(u) <=> \A k \in DOMAIN Contents : \E x : <<k, x>> \in Pairs(u)
<1> DEFINE D == DOMAIN Contents
<1>1. D = {buckets[i].key : i \in Used(buckets)} /\ D \subseteq Keys BY KeysAre
<1>2. ASSUME NEW k \in D PROVE Position(u, k) # -1 <=> \E x : <<k, x>> \in Pairs(u)
  <2>1. k \in Keys /\ m \in Nat /\ Table(u, m) BY <1>1, TableIs DEF Robin
  <2>2. \/ Position(u, k) = -1 /\ NotIn(k, u, m)
        \/ Position(u, k) \in 0 .. m - 1 /\ u[Position(u, k)].dib # 0 /\ u[Position(u, k)].key = k
    BY <2>1, PositionIs
  <2>3. NotIn(k, u, m) <=> \A x : <<k, x>> \notin Pairs(u) BY <2>1, NotInPairs
  <2>4. NotIn(k, u, m) <=> Position(u, k) = -1
    <3>1. ASSUME NotIn(k, u, m), Position(u, k) # -1 PROVE FALSE BY <2>2, <3>1 DEF NotIn
    <3>2. ASSUME Position(u, k) = -1 PROVE NotIn(k, u, m)
      <4>1. Position(u, k) \notin 0 .. m - 1 BY <2>1, <3>2
      <4> QED BY <2>2, <4>1
    <3> QED BY <3>1, <3>2
  <2> QED BY <2>3, <2>4
<1> HIDE DEF D
<1>3. SameItems(u) <=> \A k \in D : Position(u, k) # -1 BY <1>1 DEF SameItems
<1> QED BY <1>2, <1>3 DEF D

LEMMA ItemsCompared ==
  ASSUME HashInv, Works
  PROVE  /\ SameItems(Rehashed(buckets, 2 * Size(buckets)))
         /\ \A k \in DOMAIN Contents : \A j \in (Keys \ DOMAIN Contents) \cup {k} :
              SameItems(Placed(ShiftedBack(buckets, FindItem(k)), Entry(j, None))) <=> j = k
<1> DEFINE z == Size(buckets)
           P == Pairs(buckets)
           D == DOMAIN Contents
<1>0. D \subseteq Keys BY KeysAre
<1>1. \A k \in D : \E x : <<k, x>> \in P
  <2> SUFFICES ASSUME NEW k \in D PROVE \E x : <<k, x>> \in P OBVIOUS
  <2>1. PICK i \in Used(buckets) : k = buckets[i].key BY KeysAre
  <2>2. <<buckets[i].key, buckets[i].val>> \in P BY DEF Pairs
  <2> QED BY <2>1, <2>2
<1>2. SameItems(Rehashed(buckets, 2 * Size(buckets)))
  <2> DEFINE m == 2 * Size(buckets)
             u == Rehashed(buckets, m)
  <2>1. Robin(u, m) /\ Pairs(u) = P /\ Cardinality(Used(u)) = count BY MovesExact
  <2> HIDE DEF u, m, P
  <2>2. SameItems(u) <=> \A k \in DOMAIN Contents : \E x : <<k, x>> \in Pairs(u) BY <2>1, SameItemsIs
  <2>3. SameItems(u) BY <1>1, <2>1, <2>2
  <2> QED BY <2>3 DEF u, m
<1>3. ASSUME NEW k \in D, NEW j \in (Keys \ D) \cup {k}
      PROVE  SameItems(Placed(ShiftedBack(buckets, FindItem(k)), Entry(j, None))) <=> j = k
  <2> DEFINE w == ShiftedBack(buckets, Position(buckets, k))
             u == Placed(w, Entry(j, None))
  <2>1. FindItem(k) = Position(buckets, k) BY ItemsFound
  <2>2. Robin(w, z) /\ Pairs(w) = Less(P, k) /\ Cardinality(Used(w)) = count - 1 /\ NotIn(k, w, z) BY TakenIs
  <2>3. count \in Nat /\ count < z /\ Table(buckets, z) /\ j \in Keys /\ z \in Nat /\ None \in Values \cup {None}
    BY <1>0, Working
  <2> HIDE DEF w
  <2>4. NotIn(j, w, z)
    <3>1. CASE j = k BY <2>2, <3>1
    <3>2. CASE j \notin D
      <4>1. Position(buckets, j) = -1 BY <2>3, <3>2, Lookup
      <4>2. NotIn(j, buckets, z) BY <2>3, <4>1, Lookup
      <4> HIDE DEF z, P
      <4>3. \A x : <<j, x>> \notin Pairs(buckets) BY <2>3, <4>2, NotInPairs
      <4>4. Pairs(w) \subseteq Pairs(buckets) BY <2>2 DEF Less, P
      <4> QED BY <2>2, <4>3, <4>4, NotInPairs DEF Robin
    <3> QED BY <3>1, <3>2
  <2> HIDE DEF z
  <2>5. Cardinality(Used(w)) < z BY <2>2, <2>3
  <2>6. Robin(u, z) /\ Cardinality(Used(u)) = Cardinality(Used(w)) + 1 /\ Pairs(u) = Less(Pairs(w), j) \cup {<<j, None>>}
    BY <2>2, <2>3, <2>4, <2>5, PlacedNew
  <2>7. Cardinality(Used(u)) = count BY <2>2, <2>3, <2>6
  <2> HIDE DEF u, P, D
  <2>8. SameItems(u) <=> \A l \in D : \E x : <<l, x>> \in Pairs(u) BY <2>6, <2>7, SameItemsIs DEF D
  <2>9. \A l, x : <<l, x>>[1] = l OBVIOUS
  <2>10. \A l, x : l # j /\ l # k => (<<l, x>> \in Pairs(u) <=> <<l, x>> \in P) BY <2>2, <2>6, <2>9 DEF Less
  <2>11. ASSUME j = k PROVE SameItems(u)
    <3>1. <<k, None>> \in Pairs(u) BY <2>6, <2>11
    <3> QED BY <1>1, <2>8, <2>10, <2>11, <3>1
  <2>12. ASSUME j # k PROVE ~SameItems(u)
    <3>1. \A x : <<k, x>> \notin Pairs(u) BY <2>2, <2>6, <2>9, <2>12 DEF Less
    <3> QED BY <2>8, <2>12, <3>1
  <2>13. SameItems(u) <=> j = k BY <2>11, <2>12
  <2> QED BY <2>1, <2>13 DEF u, w
<1> QED BY <1>2, <1>3

LEMMA ItemCallsAreExact ==
  ASSUME HashInv
  PROVE  ItemCallsExact
BY ItemsFound, ItemsScanned, ItemsCompared DEF ItemCallsExact

\* Whatever table has come about, setting, deleting, looking up, copying and walking do what they say.
THEOREM HashCallsExact == HashSpec /\ [][RoomAsked]_vars => [](CallsExact /\ ItemCallsExact)
  BY HashInvariance, CallsAreExact, ItemCallsAreExact, PTL

-----------------------------------------------------------------------------
(* ValueVec: containers of values stay inside their memory and lose no value *)

\* A buffer with room for r values that holds s.
InHeap(r, s) ==
  [heap |-> r > 0, room |-> r, cap |-> r, size |-> Len(s), cells |-> s \o Rows!Copies(r - Len(s), -1)]

\* The container v, of kind k, holds s: in place, or in a buffer whose capacity is known.
Form(k, v, s) ==
  /\ s \in Seq(Rows!Given) /\ (k = "vec" => Len(s) <= MaxLen)
  /\ \/ k = "vec" /\ Len(s) <= Inline /\ v = Rows!Stack(s)
     \/ \E r \in Nat : /\ Len(s) <= r /\ v = InHeap(r, s)
                       /\ k = "vec" => Inline < r /\ r < CapLimit

LEMMA SameSeq ==
  ASSUME NEW S, NEW s \in Seq(S), NEW T, NEW t \in Seq(T), Len(s) = Len(t),
         \A i \in 1 .. Len(s) : s[i] = t[i]
  PROVE  s = t
OBVIOUS

LEMMA FunctionSeq ==
  ASSUME NEW n \in Nat, NEW S, NEW f \in [1 .. n -> S]
  PROVE  f \in Seq(S) /\ Len(f) = n /\ DOMAIN f = 1 .. n
OBVIOUS

LEMMA ConcatIs ==
  ASSUME NEW S, NEW a \in Seq(S), NEW b \in Seq(S)
  PROVE  /\ a \o b \in Seq(S) /\ Len(a \o b) = Len(a) + Len(b)
         /\ \A j \in 1 .. Len(a) : (a \o b)[j] = a[j]
         /\ \A j \in 1 .. Len(b) : (a \o b)[Len(a) + j] = b[j]
<1>1. a \o b \in Seq(S) OBVIOUS
<1>2. Len(a \o b) = Len(a) + Len(b) OBVIOUS
<1>3. \A j \in 1 .. Len(a) : (a \o b)[j] = a[j] OBVIOUS
<1>4. \A j \in 1 .. Len(b) : (a \o b)[Len(a) + j] = b[j] OBVIOUS
<1> QED BY <1>1, <1>2, <1>3, <1>4

LEMMA RowsTypes ==
  ASSUME RowsAssumption
  PROVE  /\ Rows!Given = Cells \cup {0} /\ Rows!Given \subseteq Nat /\ 0 \notin Cells /\ -1 \notin Rows!Given
         /\ Inline \in Nat /\ MaxLen \in Nat /\ CapLimit \in Nat /\ FirstRoom \in Nat \ {0}
         /\ Inline + 1 < CapLimit /\ 2 * MaxLen < CapLimit
         /\ \A n \in Rooms : n \in Nat /\ n < CapLimit
         /\ IsFiniteSet(Vecs)
<1>1. Rows!Given = Cells \cup {0} /\ Cells \subseteq Nat \ {0} BY DEF RowsAssumption, Rows!Given, Rows!Null
<1>2. Rows!Given \subseteq Nat /\ 0 \notin Cells BY <1>1
<1>3. -1 \notin Rows!Given BY <1>2
<1>4. Inline \in Nat /\ MaxLen \in Nat /\ CapLimit \in Nat /\ FirstRoom \in Nat \ {0} BY DEF RowsAssumption
<1>5. Inline + 1 < CapLimit /\ 2 * MaxLen < CapLimit /\ IsFiniteSet(Vecs) BY DEF RowsAssumption
<1>6. \A n \in Rooms : n \in Nat /\ n < CapLimit BY <1>4 DEF RowsAssumption
<1> QED BY <1>1, <1>2, <1>3, <1>4, <1>5, <1>6

LEMMA CopiesAre ==
  ASSUME NEW n \in Int, NEW x \in Int
  PROVE  /\ Rows!Copies(n, x) \in Seq({x})
         /\ Len(Rows!Copies(n, x)) = IF n < 0 THEN 0 ELSE n
         /\ \A i \in 1 .. n : Rows!Copies(n, x)[i] = x
<1> DEFINE m == IF n < 0 THEN 0 ELSE n
<1>1. m \in Nat /\ 1 .. n = 1 .. m OBVIOUS
<1>2. Rows!Copies(n, x) \in [1 .. m -> {x}] BY <1>1 DEF Rows!Copies
<1> HIDE DEF m
<1>3. Rows!Copies(n, x) \in Seq({x}) /\ Len(Rows!Copies(n, x)) = m BY <1>1, <1>2, FunctionSeq
<1> QED BY <1>3 DEF m, Rows!Copies

LEMMA CellsAre ==
  ASSUME RowsAssumption, NEW s \in Seq(Rows!Given), NEW r \in Nat, Len(s) <= r
  PROVE  LET c == s \o Rows!Copies(r - Len(s), -1) IN
         /\ c \in Seq(Int) /\ Len(c) = r
         /\ \A i \in 1 .. Len(s) : c[i] = s[i]
         /\ \A i \in Len(s) + 1 .. r : c[i] = -1
         /\ SubSeq(c, 1, Len(s)) = s
<1> DEFINE d == Rows!Copies(r - Len(s), -1)
           c == s \o d
<1>0. r - Len(s) \in Nat OBVIOUS
<1>1. d \in Seq({-1}) /\ Len(d) = r - Len(s) /\ \A i \in 1 .. r - Len(s) : d[i] = -1
  <2> DEFINE n == r - Len(s)
  <2>1. n \in Int /\ -1 \in Int /\ ~(n < 0) BY <1>0
  <2> HIDE DEF n
  <2> QED BY <2>1, CopiesAre DEF n
<1>2. s \in Seq(Int) /\ d \in Seq(Int) BY <1>1, RowsTypes
<1> HIDE DEF d
<1>3. c \in Seq(Int) /\ Len(c) = r BY <1>1, <1>2
<1>4. \A i \in 1 .. Len(s) : c[i] = s[i] BY <1>1, <1>2
<1>5. \A i \in Len(s) + 1 .. r : c[i] = -1
  <2> SUFFICES ASSUME NEW i \in Len(s) + 1 .. r PROVE c[i] = -1 OBVIOUS
  <2>1. c[i] = d[i - Len(s)] /\ i - Len(s) \in 1 .. r - Len(s) BY <1>1, <1>2
  <2> QED BY <1>1, <2>1
<1>6. SubSeq(c, 1, Len(s)) = s
  <2> HIDE DEF c
  <2>1. SubSeq(c, 1, Len(s)) \in Seq(Int) /\ Len(SubSeq(c, 1, Len(s))) = Len(s) BY <1>3
  <2>2. \A i \in 1 .. Len(s) : SubSeq(c, 1, Len(s))[i] = s[i] BY <1>3, <1>4
  <2> QED BY <1>2, <2>1, <2>2, SameSeq
<1> QED BY <1>3, <1>4, <1>5, <1>6 DEF c, d

LEMMA HeapIs ==
  ASSUME RowsAssumption, NEW s \in Seq(Rows!Given), NEW r \in Nat, vkind = "vec" => r < CapLimit
  PROVE  Rows!Heap(r, s) = InHeap(r, s)
<1>1. ASSUME r < CapLimit PROVE r % CapLimit = r
  <2>1. CapLimit \in Nat \ {0} /\ 0 \in Nat /\ r \in 0 .. CapLimit - 1 BY <1>1, RowsTypes
  <2>2. (CapLimit * 0 + r) % CapLimit = r BY <2>1, ModIs
  <2>3. CapLimit * 0 + r = r BY <2>1
  <2> QED BY <2>2, <2>3
<1> QED BY <1>1 DEF Rows!Heap, InHeap, Rows!Hole

LEMMA StackIs ==
  ASSUME RowsAssumption, NEW s \in Seq(Rows!Given)
  PROVE  Rows!Stack(s) = [heap |-> FALSE, room |-> Inline, cap |-> Inline, size |-> 0,
                          cells |-> s \o Rows!Copies(Inline - Len(s), -1)]
BY DEF Rows!Stack, Rows!Hole

LEMMA RowsCount ==
  ASSUME NEW S
  PROVE  Rows!Cardinality(S) = Cardinality(S)
BY DEF Rows!Cardinality, Cardinality

\* In place the values are counted by their tags.
LEMMA TagsCounted ==
  ASSUME RowsAssumption, NEW s \in Seq(Rows!Given), Len(s) <= Inline
  PROVE  Cardinality({i \in 1 .. Inline : Rows!Stack(s).cells[i] # -1}) = Len(s)
<1> DEFINE c == s \o Rows!Copies(Inline - Len(s), -1)
<1>1. /\ \A i \in 1 .. Len(s) : c[i] = s[i] /\ s[i] # -1
      /\ \A i \in Len(s) + 1 .. Inline : c[i] = -1
  <2>1. /\ \A i \in 1 .. Len(s) : c[i] = s[i]
        /\ \A i \in Len(s) + 1 .. Inline : c[i] = -1
    BY RowsTypes, CellsAre
  <2>2. \A i \in 1 .. Len(s) : s[i] # -1 BY RowsTypes
  <2> QED BY <2>1, <2>2
<1>2. Rows!Stack(s).cells = c BY StackIs
<1> HIDE DEF c
<1>3. {i \in 1 .. Inline : c[i] # -1} = 1 .. Len(s) BY <1>1, RowsTypes
<1>4. Cardinality(1 .. Len(s)) = Len(s)
  <2>1. Len(s) \in Nat OBVIOUS
  <2>2. 1 \in Int /\ Len(s) \in Int BY <2>1
  <2>3. Cardinality(1 .. Len(s)) = IF 1 > Len(s) THEN 0 ELSE Len(s) - 1 + 1 BY <2>2, FS_Interval
  <2> QED BY <2>1, <2>3
<1> QED BY <1>2, <1>3, <1>4

\* What a container of a known form is like.
LEMMA FormIs ==
  ASSUME RowsAssumption, NEW v, NEW s, Form(vkind, v, s)
  PROVE  /\ s \in Seq(Rows!Given) /\ (vkind = "vec" => Len(s) <= MaxLen)
         /\ v.heap \in BOOLEAN /\ v.room \in Nat /\ v.cap = v.room /\ Len(s) <= v.room
         /\ v.cells \in Seq(Int) /\ Len(v.cells) = v.room
         /\ \A i \in 1 .. Len(s) : v.cells[i] = s[i]
         /\ \A i \in Len(s) + 1 .. v.room : v.cells[i] = -1
         /\ Rows!SizeOf(v) = Len(s) /\ Rows!Content(v) = s
         /\ v.heap \/ vkind # "vec" => v.size = Len(s) /\ v = InHeap(v.room, s)
         /\ vkind = "vec" => Inline <= v.room /\ v.room < CapLimit
         /\ vkind = "vec" /\ v.heap => Inline < v.room
         /\ vkind = "vec" /\ ~v.heap => v.room = Inline /\ v = Rows!Stack(s)
<1>0. s \in Seq(Rows!Given) /\ (vkind = "vec" => Len(s) <= MaxLen) /\ Len(s) \in Nat BY DEF Form
<1>1. CASE vkind = "vec" /\ Len(s) <= Inline /\ v = Rows!Stack(s)
  <2> DEFINE c == s \o Rows!Copies(Inline - Len(s), -1)
  <2>1. v = [heap |-> FALSE, room |-> Inline, cap |-> Inline, size |-> 0, cells |-> c] BY <1>0, <1>1, StackIs
  <2>2. /\ c \in Seq(Int) /\ Len(c) = Inline
        /\ \A i \in 1 .. Len(s) : c[i] = s[i]
        /\ \A i \in Len(s) + 1 .. Inline : c[i] = -1
        /\ SubSeq(c, 1, Len(s)) = s
    BY <1>0, <1>1, RowsTypes, CellsAre
  <2> HIDE DEF c
  <2>3. Cardinality({i \in 1 .. Inline : v.cells[i] # -1}) = Len(s) BY <1>0, <1>1, TagsCounted
  <2>4. Rows!SizeOf(v) = Len(s)
    <3>1. ~v.heap BY <2>1
    <3> QED BY <1>1, <2>3, <3>1, RowsCount DEF Rows!SizeOf, Rows!Hole
  <2>5. Rows!Content(v) = s BY <2>1, <2>2, <2>4 DEF Rows!Content
  <2>6. ~v.heap /\ v.room = Inline /\ v.cap = Inline /\ v.cells = c BY <2>1
  <2>7. v.heap \in BOOLEAN BY <2>1
  <2>8. v.cells \in Seq(Int) /\ Len(v.cells) = Inline /\ (\A i \in 1 .. Len(s) : v.cells[i] = s[i])
        /\ (\A i \in Len(s) + 1 .. Inline : v.cells[i] = -1)
    BY <2>2, <2>6
  <2>9. Inline \in Nat /\ Inline < CapLimit BY RowsTypes
  <2> HIDE DEF Form
  <2> QED BY <1>0, <1>1, <2>4, <2>5, <2>6, <2>7, <2>8, <2>9
<1>2. CASE \E r \in Nat : /\ Len(s) <= r /\ v = InHeap(r, s)
                          /\ vkind = "vec" => Inline < r /\ r < CapLimit
  <2>0. PICK r \in Nat : /\ Len(s) <= r /\ v = InHeap(r, s)
                         /\ vkind = "vec" => Inline < r /\ r < CapLimit
    BY <1>2
  <2> DEFINE c == s \o Rows!Copies(r - Len(s), -1)
  <2>1. v = [heap |-> r > 0, room |-> r, cap |-> r, size |-> Len(s), cells |-> c] BY <2>0 DEF InHeap
  <2>2. /\ c \in Seq(Int) /\ Len(c) = r
        /\ \A i \in 1 .. Len(s) : c[i] = s[i]
        /\ \A i \in Len(s) + 1 .. r : c[i] = -1
        /\ SubSeq(c, 1, Len(s)) = s
    BY <1>0, <2>0, CellsAre
  <2> HIDE DEF c
  <2>3. vkind = "vec" => r > 0 BY <2>0, RowsTypes
  <2>31. v.heap = (r > 0) BY <2>1
  <2>32. (r > 0) \in BOOLEAN OBVIOUS
  <2>4. v.heap \in BOOLEAN /\ (v.heap <=> r > 0) /\ v.room = r /\ v.cap = r /\ v.cells = c /\ v.size = Len(s)
    BY <2>1, <2>31, <2>32
  <2>5. Rows!SizeOf(v) = Len(s) BY <2>3, <2>4 DEF Rows!SizeOf
  <2>6. Rows!Content(v) = s BY <2>2, <2>4, <2>5 DEF Rows!Content
  <2> QED BY <1>0, <2>0, <2>2, <2>3, <2>4, <2>5, <2>6, RowsTypes
<1> QED BY <1>1, <1>2 DEF Form

LEMMA StackForm ==
  ASSUME RowsAssumption, vkind = "vec", NEW s \in Seq(Rows!Given), Len(s) <= Inline, Len(s) <= MaxLen
  PROVE  Form(vkind, Rows!Stack(s), s)
BY DEF Form

LEMMA HeapForm ==
  ASSUME RowsAssumption, NEW s \in Seq(Rows!Given), NEW r \in Nat, Len(s) <= r,
         vkind = "vec" => Len(s) <= MaxLen /\ Inline < r /\ r < CapLimit
  PROVE  Form(vkind, Rows!Heap(r, s), s)
BY HeapIs DEF Form

LEMMA RowsMin ==
  ASSUME NEW a \in Nat, NEW b \in Nat
  PROVE  Rows!Min({a, b}) = IF a <= b THEN a ELSE b
<1>1. \E x \in {a, b} : \A y \in {a, b} : x <= y OBVIOUS
<1> QED BY <1>1 DEF Rows!Min

LEMMA RowsMax ==
  ASSUME NEW a \in Nat, NEW b \in Nat
  PROVE  Rows!Max({a, b}) = IF a >= b THEN a ELSE b
<1>1. \E x \in {a, b} : \A y \in {a, b} : x >= y OBVIOUS
<1> QED BY <1>1 DEF Rows!Max

\* s cut off behind n values, or filled up with copies of x.
Padded(s, n, x) == SubSeq(s, 1, IF n <= Len(s) THEN n ELSE Len(s)) \o Rows!Copies(n - Len(s), x)

LEMMA PaddedIs ==
  ASSUME RowsAssumption, NEW s \in Seq(Rows!Given), NEW n \in Nat, NEW x \in Rows!Given
  PROVE  /\ Padded(s, n, x) \in Seq(Rows!Given) /\ Len(Padded(s, n, x)) = n
         /\ \A j \in 1 .. n : Padded(s, n, x)[j] = IF j <= Len(s) THEN s[j] ELSE x
<1> DEFINE p == IF n <= Len(s) THEN n ELSE Len(s)
           q == n - Len(s)
           a == SubSeq(s, 1, p)
           b == Rows!Copies(q, x)
<1>1. p \in Nat /\ p <= Len(s) /\ Len(s) \in Nat /\ q \in Int /\ x \in Int
  <2>1. x \in Int BY RowsTypes
  <2> QED BY <2>1
<1>2. a \in Seq(Rows!Given) /\ Len(a) = p /\ \A j \in 1 .. p : a[j] = s[j]
  <2> HIDE DEF p
  <2> QED BY <1>1
<1>3. b \in Seq(Rows!Given) /\ (Len(b) = IF q < 0 THEN 0 ELSE q) /\ \A j \in 1 .. q : b[j] = x
  <2> HIDE DEF q
  <2>1. b \in Seq({x}) /\ (Len(b) = IF q < 0 THEN 0 ELSE q) /\ \A j \in 1 .. q : b[j] = x BY <1>1, CopiesAre
  <2> HIDE DEF b
  <2> QED BY <2>1
<1>4. Padded(s, n, x) = a \o b BY DEF Padded
<1> HIDE DEF a, b
<1>5. a \o b \in Seq(Rows!Given) /\ Len(a \o b) = Len(a) + Len(b)
  <2>1. a \in Seq(Rows!Given) /\ b \in Seq(Rows!Given) BY <1>2, <1>3
  <2> QED BY ONLY <2>1
<1>6. Len(a) + Len(b) = n
  <2> DEFINE z == Len(s)
  <2>1. z \in Nat /\ Len(a) = (IF n <= z THEN n ELSE z) /\ Len(b) = IF n - z < 0 THEN 0 ELSE n - z
    BY <1>1, <1>2, <1>3
  <2> HIDE DEF z, p, q
  <2> QED BY <2>1
<1>7. ASSUME NEW j \in 1 .. n PROVE (a \o b)[j] = IF j <= Len(s) THEN s[j] ELSE x
  <2>1. CASE j <= Len(s)
    <3>1. j \in 1 .. p BY <1>1, <2>1
    <3> HIDE DEF p, q
    <3>2. (a \o b)[j] = a[j] BY <1>2, <1>3, <3>1
    <3> QED BY <1>2, <2>1, <3>1, <3>2
  <2>2. CASE ~(j <= Len(s))
    <3>1. p = Len(s) /\ j - p \in 1 .. q /\ ~(q < 0) /\ Len(a) = p /\ Len(b) = q /\ j \in p + 1 .. p + q
      BY <1>1, <1>2, <1>3, <2>2
    <3> HIDE DEF p, q
    <3>2. (a \o b)[j] = b[j - p] BY <1>2, <1>3, <3>1
    <3> QED BY <1>3, <2>2, <3>1, <3>2
  <2> QED BY <2>1, <2>2
<1> QED BY <1>4, <1>5, <1>6, <1>7

LEMMA FittedPadded ==
  ASSUME RowsAssumption, NEW s \in Seq(Rows!Given), NEW n \in Nat
  PROVE  Rows!Fitted(s, n) = Padded(s, n, 0)
<1>1. Rows!Min({n, Len(s)}) = IF n <= Len(s) THEN n ELSE Len(s) BY RowsMin
<1> QED BY <1>1 DEF Rows!Fitted, Rows!Null, Padded

LEMMA FittedIs ==
  ASSUME RowsAssumption, NEW s \in Seq(Rows!Given), NEW n \in Nat
  PROVE  /\ Rows!Fitted(s, n) \in Seq(Rows!Given) /\ Len(Rows!Fitted(s, n)) = n
         /\ \A i \in 1 .. n : Rows!Fitted(s, n)[i] = IF i <= Len(s) THEN s[i] ELSE 0
<1> DEFINE x == 0
<1>1. x \in Rows!Given /\ Rows!Fitted(s, n) = Padded(s, n, x) BY RowsTypes, FittedPadded
<1>2. /\ Rows!Fitted(s, n) \in Seq(Rows!Given) /\ Len(Rows!Fitted(s, n)) = n
      /\ \A i \in 1 .. n : Rows!Fitted(s, n)[i] = IF i <= Len(s) THEN s[i] ELSE x
  <2> HIDE DEF x
  <2> QED BY <1>1, PaddedIs
<1> QED BY <1>2

LEMMA FittedSame ==
  ASSUME RowsAssumption, NEW s \in Seq(Rows!Given)
  PROVE  Rows!Fitted(s, Len(s)) = s /\ Rows!Fitted(s, 0) = <<>>
<1>1. Len(s) \in Nat /\ 0 \in Nat OBVIOUS
<1>2. /\ Rows!Fitted(s, Len(s)) \in Seq(Rows!Given) /\ Len(Rows!Fitted(s, Len(s))) = Len(s)
      /\ \A i \in 1 .. Len(s) : Rows!Fitted(s, Len(s))[i] = s[i]
  BY <1>1, FittedIs
<1>3. Rows!Fitted(s, 0) \in Seq(Rows!Given) /\ Len(Rows!Fitted(s, 0)) = 0 BY <1>1, FittedIs
<1>4. Rows!Fitted(s, Len(s)) = s BY <1>2, SameSeq
<1> QED BY <1>3, <1>4

\* A container as a record, and with another size and other cells.
Box(h, r, c, n, d) == [heap |-> h, room |-> r, cap |-> c, size |-> n, cells |-> d]
Changed(v, n, d) == [v EXCEPT !.size = n, !.cells = d]

LEMMA BoxChanged ==
  ASSUME NEW v, NEW h, NEW r, NEW c, NEW m, NEW e, NEW n, NEW d, v = Box(h, r, c, m, e)
  PROVE  Changed(v, n, d) = Box(h, r, c, n, d)
<1> DEFINE u == [v EXCEPT !.size = n]
           w == [u EXCEPT !.cells = d]
<1>0. v = [heap |-> h, room |-> r, cap |-> c, size |-> m, cells |-> e] BY DEF Box
<1>1. u = [heap |-> h, room |-> r, cap |-> c, size |-> n, cells |-> e] BY <1>0
<1>2. Changed(v, n, d) = w BY <1>0 DEF Changed
<1> HIDE DEF u
<1>3. w = [heap |-> h, room |-> r, cap |-> c, size |-> n, cells |-> d] BY <1>1
<1> QED BY <1>2, <1>3 DEF Box

LEMMA BoxCells ==
  ASSUME NEW v, NEW h, NEW r, NEW c, NEW m, NEW e, NEW d, v = Box(h, r, c, m, e)
  PROVE  [v EXCEPT !.cells = d] = Box(h, r, c, m, d)
BY DEF Box

LEMMA RefittedIs ==
  ASSUME RowsAssumption, NEW v, NEW s, NEW r \in Nat, NEW n \in Nat, Form(vkind, v, s), v = InHeap(r, s), n <= r
  PROVE  Rows!Refitted(v, n) = InHeap(r, Rows!Fitted(s, n))
<1> DEFINE c == Rows!Fitted(s, n) \o Rows!Copies(r - n, -1)
           e == s \o Rows!Copies(r - Len(s), -1)
           h == r > 0
<1>1. Rows!Content(v) = s /\ Len(v.cells) = v.room /\ s \in Seq(Rows!Given) BY FormIs
<1>2. v.room = r BY DEF InHeap
<1>3. Len(Rows!Fitted(s, n)) = n BY <1>1, FittedIs
<1>4. Rows!Refitted(v, n) = Changed(v, n, c) BY <1>1, <1>2 DEF Rows!Refitted, Rows!Hole, Changed
<1>5. InHeap(r, Rows!Fitted(s, n)) = Box(h, r, r, n, c) BY <1>3 DEF InHeap, Box
<1>6. v = Box(h, r, r, Len(s), e) BY DEF InHeap, Box
<1> HIDE DEF c, e, h
<1>7. Changed(v, n, c) = Box(h, r, r, n, c) BY <1>6, BoxChanged
<1> QED BY <1>4, <1>5, <1>7

LEMMA SizedForm ==
  ASSUME RowsAssumption, NEW v, NEW s, Form(vkind, v, s), NEW n \in Nat, vkind = "vec" => n <= MaxLen
  PROVE  Form(vkind, Rows!Sized(v, n), Rows!Fitted(s, n))
<1> DEFINE f == Rows!Fitted(s, n)
           grown == IF n > v.cap THEN Rows!Heap(n, Rows!Content(v)) ELSE v
<1>0. /\ s \in Seq(Rows!Given) /\ Rows!Content(v) = s /\ v.cap = v.room /\ v.room \in Nat /\ Len(s) <= v.room
      /\ v.heap \in BOOLEAN
  BY FormIs
<1>1. f \in Seq(Rows!Given) /\ Len(f) = n BY <1>0, FittedIs
<1>2. Inline \in Nat /\ MaxLen \in Nat /\ CapLimit \in Nat /\ Inline + 1 < CapLimit /\ 2 * MaxLen < CapLimit
  BY RowsTypes
<1>3. vkind = "vec" => n < CapLimit BY <1>2
<1>4. ASSUME v.heap \/ vkind # "vec", vkind = "vec" => Inline < n
      PROVE  Form(vkind, Rows!Refitted(grown, n), f)
  <2>1. CASE n > v.cap
    <3>1. Len(s) <= n BY <1>0, <2>1
    <3>2. vkind = "vec" => Len(s) <= MaxLen BY FormIs
    <3>3. Form(vkind, Rows!Heap(n, s), s) /\ Rows!Heap(n, s) = InHeap(n, s)
      BY <1>0, <1>3, <1>4, <3>1, <3>2, HeapForm, HeapIs
    <3>4. Rows!Refitted(Rows!Heap(n, s), n) = InHeap(n, f) BY <3>3, RefittedIs
    <3>5. Rows!Heap(n, f) = InHeap(n, f) BY <1>1, <1>3, HeapIs
    <3>6. Form(vkind, Rows!Heap(n, f), f) BY <1>1, <1>3, <1>4, HeapForm
    <3>7. grown = Rows!Heap(n, s) BY <1>0, <2>1
    <3> HIDE DEF grown, f
    <3> QED BY <3>4, <3>5, <3>6, <3>7
  <2>2. CASE ~(n > v.cap)
    <3>1. v = InHeap(v.room, s) /\ n <= v.room BY <1>0, <1>4, <2>2, FormIs
    <3>2. Rows!Refitted(v, n) = InHeap(v.room, f) BY <1>0, <3>1, RefittedIs
    <3>3. vkind = "vec" => Inline < v.room /\ v.room < CapLimit BY <1>4, FormIs
    <3>4. Rows!Heap(v.room, f) = InHeap(v.room, f) BY <1>0, <1>1, <3>3, HeapIs
    <3>5. Form(vkind, Rows!Heap(v.room, f), f) BY <1>0, <1>1, <3>1, <3>3, HeapForm
    <3>6. grown = v BY <2>2
    <3> HIDE DEF grown, f
    <3> QED BY <3>2, <3>4, <3>5, <3>6
  <2> QED BY <2>1, <2>2
<1>5. CASE vkind = "vec"
  <2>0. Rows!Sized(v, n) = Rows!Resized(v, n) BY <1>5 DEF Rows!Sized
  <2>1. CASE n <= Inline
    <3>1. Rows!Resized(v, n) = Rows!Stack(f)
      <4>1. ~(n > Inline) BY <1>2, <2>1
      <4> QED BY <1>0, <2>1, <4>1 DEF Rows!Resized
    <3>2. Form(vkind, Rows!Stack(f), f)
      <4> HIDE DEF f
      <4> QED BY <1>1, <1>5, <2>1, StackForm
    <3> QED BY <2>0, <3>1, <3>2
  <2>2. CASE n > Inline /\ ~v.heap
    <3>1. Rows!Resized(v, n) = Rows!Heap(n, f)
      <4>1. ~(n <= Inline) BY <1>2, <2>2
      <4> QED BY <1>0, <2>2, <4>1 DEF Rows!Resized
    <3>2. Form(vkind, Rows!Heap(n, f), f)
      <4> HIDE DEF f
      <4> QED BY <1>1, <1>3, <1>5, <2>2, HeapForm
    <3> QED BY <2>0, <3>1, <3>2
  <2>3. CASE n > Inline /\ v.heap
    <3>1. Rows!Resized(v, n) = Rows!Refitted(grown, n)
      <4>1. ~(n <= Inline) BY <1>2, <2>3
      <4> QED BY <2>3, <4>1 DEF Rows!Resized
    <3> QED BY <1>4, <2>0, <2>3, <3>1
  <2> QED BY <1>0, <1>2, <2>1, <2>2, <2>3
<1>6. CASE vkind # "vec"
  <2>0. Rows!Sized(v, n) = Rows!ResizedHeap(v, n) /\ v.size = Len(s) BY <1>6, FormIs DEF Rows!Sized
  <2>1. CASE n = v.size
    <3>1. Rows!ResizedHeap(v, n) = v
      <4>1. ~(n = 0 /\ v.size > 0) BY <1>0, <2>0, <2>1
      <4> QED BY <2>1, <4>1 DEF Rows!ResizedHeap
    <3>2. Rows!Fitted(s, n) = s BY <1>0, <2>0, <2>1, FittedSame
    <3> QED BY <2>0, <3>1, <3>2
  <2>2. CASE n # v.size /\ n = 0
    <3>1. Rows!ResizedHeap(v, n) = Rows!Heap(0, <<>>)
      <4>1. v.size > 0 BY <1>0, <2>0, <2>2
      <4> QED BY <1>6, <2>2, <4>1 DEF Rows!ResizedHeap, Rows!Empty
    <3>2. f = <<>> BY <1>0, <2>2, FittedSame
    <3>3. <<>> \in Seq(Rows!Given) /\ Len(<<>>) = 0 /\ 0 \in Nat /\ 0 <= 0 OBVIOUS
    <3>4. Form(vkind, Rows!Heap(0, <<>>), <<>>)
      <4> DEFINE e == <<>>
      <4>1. e \in Seq(Rows!Given) /\ Len(e) = 0 /\ 0 \in Nat /\ 0 <= 0 BY <3>3
      <4> HIDE DEF e
      <4>2. Form(vkind, Rows!Heap(0, e), e) BY <1>6, <4>1, HeapForm
      <4> QED BY <4>2 DEF e
    <3> QED BY <2>0, <3>1, <3>2, <3>4
  <2>3. CASE n # v.size /\ n # 0
    <3>1. Rows!ResizedHeap(v, n) = Rows!Refitted(grown, n) BY <2>3 DEF Rows!ResizedHeap
    <3> QED BY <1>4, <1>6, <2>0, <3>1
  <2> QED BY <2>1, <2>2, <2>3
<1> QED BY <1>5, <1>6

LEMMA ReservedForm ==
  ASSUME RowsAssumption, NEW v, NEW s, Form(vkind, v, s), NEW n \in Nat, vkind = "vec" => n < CapLimit
  PROVE  Form(vkind, Rows!Reserved(v, n), s) /\ Rows!Reserved(v, n).cap >= n
<1>0. /\ s \in Seq(Rows!Given) /\ Rows!Content(v) = s /\ v.cap = v.room /\ v.room \in Nat /\ Len(s) <= v.room
      /\ vkind = "vec" => Len(s) <= MaxLen /\ Inline <= v.room
  BY FormIs
<1>1. CASE n <= v.cap BY <1>0, <1>1 DEF Rows!Reserved
<1>2. CASE ~(n <= v.cap)
  <2>1. Rows!Reserved(v, n) = Rows!Heap(n, s) BY <1>0, <1>2 DEF Rows!Reserved
  <2>2. Inline \in Nat /\ Len(s) <= n /\ (vkind = "vec" => Inline < n) BY <1>0, <1>2, RowsTypes
  <2>3. Form(vkind, Rows!Heap(n, s), s) BY <1>0, <2>2, HeapForm
  <2>4. Rows!Heap(n, s) = InHeap(n, s) BY <1>0, HeapIs
  <2>5. InHeap(n, s).cap = n BY DEF InHeap
  <2> QED BY <2>1, <2>3, <2>4, <2>5
<1> QED BY <1>1, <1>2

LEMMA FilledForm ==
  ASSUME RowsAssumption, NEW s \in Seq(Rows!Given), vkind = "vec" => Len(s) <= MaxLen
  PROVE  Form(vkind, Rows!Filled(s), s)
<1>0. Inline \in Nat /\ MaxLen \in Nat /\ CapLimit \in Nat /\ 2 * MaxLen < CapLimit /\ Len(s) \in Nat BY RowsTypes
<1>1. CASE vkind = "vec" /\ Len(s) <= Inline BY <1>1, StackForm DEF Rows!Filled
<1>2. CASE vkind = "vec" /\ ~(Len(s) <= Inline)
  <2>1. Form(vkind, Rows!Heap(Len(s), s), s) BY <1>0, <1>2, HeapForm
  <2> QED BY <1>2, <2>1 DEF Rows!Filled
<1>3. CASE vkind # "vec"
  <2>1. Form(vkind, Rows!Heap(Len(s), s), s) BY <1>0, <1>3, HeapForm
  <2> QED BY <1>3, <2>1 DEF Rows!Filled
<1> QED BY <1>1, <1>2, <1>3

LEMMA EmptyForm ==
  ASSUME RowsAssumption
  PROVE  Form(vkind, Rows!Empty, <<>>)
<1> DEFINE e == <<>>
<1>1. e \in Seq(Rows!Given) /\ Len(e) = 0 /\ 0 \in Nat /\ 0 <= 0 /\ Len(e) <= Inline /\ Len(e) <= MaxLen
  BY RowsTypes
<1>2. Rows!Empty = IF vkind = "vec" THEN Rows!Stack(e) ELSE Rows!Heap(0, e) BY DEF Rows!Empty
<1> HIDE DEF e
<1>3. CASE vkind = "vec" BY <1>1, <1>2, <1>3, StackForm DEF e
<1>4. CASE vkind # "vec"
  <2>1. Form(vkind, Rows!Heap(0, e), e) BY <1>1, <1>4, HeapForm
  <2> QED BY <1>2, <1>4, <2>1 DEF e
<1> QED BY <1>3, <1>4

\* The same container with other values in its cells.
LEMMA Rewritten ==
  ASSUME RowsAssumption, NEW v, NEW s, Form(vkind, v, s), NEW t \in Seq(Rows!Given), Len(t) = Len(s),
         NEW c \in Seq(Int), Len(c) = v.room,
         \A i \in 1 .. Len(s) : c[i] = t[i],
         \A i \in Len(s) + 1 .. v.room : c[i] = -1
  PROVE  Form(vkind, [v EXCEPT !.cells = c], t)
<1>0. v.room \in Nat /\ Len(s) <= v.room /\ Len(s) \in Nat /\ (vkind = "vec" => Len(s) <= MaxLen) BY FormIs
<1>1. c = t \o Rows!Copies(v.room - Len(t), -1)
  <2> DEFINE d == t \o Rows!Copies(v.room - Len(t), -1)
  <2>1. /\ d \in Seq(Int) /\ Len(d) = v.room
        /\ \A i \in 1 .. Len(t) : d[i] = t[i]
        /\ \A i \in Len(t) + 1 .. v.room : d[i] = -1
    BY <1>0, CellsAre
  <2> HIDE DEF d
  <2>2. \A i \in 1 .. Len(c) : c[i] = d[i]
    <3> SUFFICES ASSUME NEW i \in 1 .. v.room PROVE c[i] = d[i] OBVIOUS
    <3>1. CASE i <= Len(s)
      <4>1. i \in 1 .. Len(s) /\ i \in 1 .. Len(t) BY <1>0, <3>1
      <4> QED BY <2>1, <4>1
    <3>2. CASE i > Len(s)
      <4>1. i \in Len(s) + 1 .. v.room /\ i \in Len(t) + 1 .. v.room BY <1>0, <3>2
      <4> QED BY <2>1, <4>1
    <3> QED BY <1>0, <3>1, <3>2
  <2>3. c = d BY <2>1, <2>2, SameSeq
  <2> QED BY <2>3 DEF d
<1>2. CASE vkind = "vec" /\ ~v.heap
  <2>1. v.room = Inline /\ v = Rows!Stack(s) /\ Rows!Stack(s).heap = FALSE BY <1>2, FormIs, StackIs
  <2> DEFINE e == s \o Rows!Copies(Inline - Len(s), -1)
             h == FALSE
  <2>2. v = Box(h, Inline, Inline, 0, e) BY <2>1, FormIs, StackIs DEF Box
  <2>3. [v EXCEPT !.cells = c] = Box(h, Inline, Inline, 0, c)
    <3> HIDE DEF e, h
    <3> QED BY <2>2, BoxCells
  <2>4. Rows!Stack(t) = Box(h, Inline, Inline, 0, c) BY <1>1, <2>1, StackIs DEF Box
  <2>5. Form(vkind, Rows!Stack(t), t) BY <1>0, <1>2, <2>1, StackForm
  <2> HIDE DEF e, h
  <2> QED BY <2>3, <2>4, <2>5
<1>3. CASE v.heap \/ vkind # "vec"
  <2> DEFINE r == v.room
             h == r > 0
             e == s \o Rows!Copies(r - Len(s), -1)
  <2>1. v = InHeap(r, s) /\ (vkind = "vec" => Inline < r /\ r < CapLimit) BY <1>3, FormIs
  <2>2. v = Box(h, r, r, Len(s), e)
    <3> HIDE DEF r
    <3> QED BY <2>1 DEF InHeap, Box
  <2>3. [v EXCEPT !.cells = c] = Box(h, r, r, Len(s), c)
    <3> HIDE DEF r, h, e
    <3> QED BY <2>2, BoxCells
  <2>4. InHeap(r, t) = Box(h, r, r, Len(s), c) BY <1>1 DEF InHeap, Box
  <2>5. Form(vkind, Rows!Heap(r, t), t) /\ Rows!Heap(r, t) = InHeap(r, t) BY <1>0, <2>1, HeapForm, HeapIs
  <2> HIDE DEF r, h, e
  <2> QED BY <2>3, <2>4, <2>5
<1> QED BY <1>2, <1>3, FormIs

LEMMA RoomyForm ==
  ASSUME RowsAssumption, NEW v, NEW s, Form(vkind, v, s)
  PROVE  Form(vkind, Rows!Roomy(v), s) /\ Len(s) < Rows!Roomy(v).room
<1>0. /\ s \in Seq(Rows!Given) /\ Rows!SizeOf(v) = Len(s) /\ v.cap = v.room /\ v.room \in Nat /\ Len(s) <= v.room
      /\ vkind = "vec" => Len(s) <= MaxLen /\ Inline <= v.room
  BY FormIs
<1>1. Inline \in Nat /\ MaxLen \in Nat /\ CapLimit \in Nat /\ Inline + 1 < CapLimit /\ 2 * MaxLen < CapLimit
      /\ FirstRoom \in Nat \ {0}
  BY RowsTypes
<1>2. CASE Len(s) >= v.cap
  <2> DEFINE d == Rows!Doubled(v)
  <2>1. d \in Nat /\ d > v.cap /\ (vkind = "vec" => d < CapLimit)
    <3>1. CASE vkind = "vec"
      <4>1. d = Rows!Max({Inline + 1, 2 * Len(s)}) BY <1>0, <3>1 DEF Rows!Doubled
      <4>2. Inline + 1 \in Nat /\ 2 * Len(s) \in Nat BY <1>0, <1>1
      <4>3. d = IF Inline + 1 >= 2 * Len(s) THEN Inline + 1 ELSE 2 * Len(s) BY <4>1, <4>2, RowsMax
      <4> HIDE DEF d
      <4> QED BY <1>0, <1>1, <1>2, <3>1, <4>3
    <3>2. CASE vkind # "vec"
      <4>1. d = IF v.cap = 0 THEN FirstRoom ELSE 2 * v.cap BY <3>2 DEF Rows!Doubled
      <4> HIDE DEF d
      <4> QED BY <1>0, <1>1, <3>2, <4>1
    <3> QED BY <3>1, <3>2
  <2>2. Rows!Roomy(v) = Rows!Reserved(v, d) BY <1>0, <1>2 DEF Rows!Roomy
  <2> HIDE DEF d
  <2>3. Form(vkind, Rows!Reserved(v, d), s) /\ Rows!Reserved(v, d).cap >= d BY <2>1, ReservedForm
  <2> DEFINE w == Rows!Reserved(v, d)
  <2>4. w.cap = w.room /\ w.room \in Nat
    <3>1. Form(vkind, w, s) BY <2>3
    <3> HIDE DEF w
    <3> QED BY <3>1, FormIs
  <2> QED BY <1>0, <2>1, <2>2, <2>3, <2>4
<1>3. CASE ~(Len(s) >= v.cap)
  <2>1. Rows!Roomy(v) = v BY <1>0, <1>3 DEF Rows!Roomy
  <2> QED BY <1>0, <1>3, <2>1
<1> QED BY <1>2, <1>3

LEMMA AppendedCells ==
  ASSUME RowsAssumption, NEW s \in Seq(Rows!Given), NEW x \in Rows!Given, NEW r \in Nat, Len(s) < r
  PROVE  [s \o Rows!Copies(r - Len(s), -1) EXCEPT ![Len(s) + 1] = x]
           = Append(s, x) \o Rows!Copies(r - (Len(s) + 1), -1)
<1> DEFINE c == s \o Rows!Copies(r - Len(s), -1)
           t == Append(s, x)
           d == t \o Rows!Copies(r - Len(t), -1)
<1>1. t \in Seq(Rows!Given) /\ Len(t) = Len(s) + 1 /\ (\A i \in 1 .. Len(s) : t[i] = s[i]) /\ t[Len(s) + 1] = x
  OBVIOUS
<1>2. /\ c \in Seq(Int) /\ Len(c) = r
      /\ \A i \in 1 .. Len(s) : c[i] = s[i]
      /\ \A i \in Len(s) + 1 .. r : c[i] = -1
  BY CellsAre
<1> HIDE DEF t
<1>3. /\ d \in Seq(Int) /\ Len(d) = r
      /\ \A i \in 1 .. Len(t) : d[i] = t[i]
      /\ \A i \in Len(t) + 1 .. r : d[i] = -1
  <2>1. Len(t) <= r BY <1>1
  <2> QED BY <1>1, <2>1, CellsAre
<1> HIDE DEF c, d
<1>4. x \in Int BY RowsTypes
<1> DEFINE e == [c EXCEPT ![Len(s) + 1] = x]
<1>5. e \in Seq(Int) /\ Len(e) = r /\ e[Len(s) + 1] = x /\ \A i \in 1 .. r : i # Len(s) + 1 => e[i] = c[i]
  BY <1>2, <1>4
<1> HIDE DEF e
<1>6. \A i \in 1 .. r : e[i] = d[i]
  <2> SUFFICES ASSUME NEW i \in 1 .. r PROVE e[i] = d[i] OBVIOUS
  <2>1. CASE i <= Len(s)
    <3>1. i \in 1 .. Len(s) /\ i \in 1 .. Len(t) /\ i # Len(s) + 1 BY <1>1, <2>1
    <3>2. d[i] = t[i] /\ c[i] = s[i] /\ t[i] = s[i] BY <1>1, <1>2, <1>3, <3>1
    <3> QED BY <1>5, <3>1, <3>2
  <2>2. CASE i = Len(s) + 1
    <3>1. i \in 1 .. Len(t) BY <1>1, <2>2
    <3>2. d[i] = t[i] BY <1>3, <3>1
    <3> QED BY <1>1, <1>5, <2>2, <3>2
  <2>3. CASE i > Len(s) + 1
    <3>1. i \in Len(s) + 1 .. r /\ i \in Len(t) + 1 .. r /\ i # Len(s) + 1 BY <1>1, <2>3
    <3> QED BY <1>2, <1>3, <1>5, <3>1
  <2> QED BY <2>1, <2>2, <2>3
<1>7. e = d BY <1>3, <1>5, <1>6, SameSeq
<1> QED BY <1>1, <1>7 DEF c, d, e, t

\* A value is constructed in cell k.
RowWritten(e, k, x) == [e EXCEPT ![k] = x]
OneMore(v, k, x) == [v EXCEPT !.cells[k] = x, !.size = IF v.heap THEN @ + 1 ELSE @]

LEMMA BoxPushed ==
  ASSUME NEW v, NEW h, NEW r, NEW c, NEW m, NEW e, NEW k, NEW x, v = Box(h, r, c, m, e),
         NEW n, n = IF h THEN m + 1 ELSE m
  PROVE  OneMore(v, k, x) = Box(h, r, c, n, RowWritten(e, k, x))
<1> DEFINE d == [e EXCEPT ![k] = x]
           u == [v EXCEPT !.cells[k] = x]
<1>0. v = [heap |-> h, room |-> r, cap |-> c, size |-> m, cells |-> e] BY DEF Box
<1>1. u = [v EXCEPT !.cells = d] BY <1>0
<1>2. OneMore(v, k, x) = [u EXCEPT !.size = n] BY <1>0 DEF OneMore
<1> HIDE DEF d, u
<1>3. [v EXCEPT !.cells = d] = Box(h, r, c, m, d) BY <1>0 DEF Box
<1>4. u = [heap |-> h, room |-> r, cap |-> c, size |-> m, cells |-> d] BY <1>1, <1>3 DEF Box
<1>5. [u EXCEPT !.size = n] = Box(h, r, c, n, d) BY <1>4 DEF Box
<1> QED BY <1>2, <1>5 DEF d, RowWritten

LEMMA PushedForm ==
  ASSUME RowsAssumption, NEW v, NEW s, Form(vkind, v, s), NEW x \in Rows!Given, vkind = "vec" => Len(s) < MaxLen
  PROVE  Form(vkind, Rows!Pushed(v, x), Append(s, x))
<1> DEFINE w == Rows!Roomy(v)
           t == Append(s, x)
           c == [w.cells EXCEPT ![Len(s) + 1] = x]
<1>0. s \in Seq(Rows!Given) /\ Rows!SizeOf(v) = Len(s) BY FormIs
<1>1. Form(vkind, w, s) /\ Len(s) < w.room BY RoomyForm
<1>2. Rows!Pushed(v, x) = OneMore(w, Len(s) + 1, x) BY <1>0 DEF Rows!Pushed, OneMore
<1>3. t \in Seq(Rows!Given) /\ Len(t) = Len(s) + 1 BY <1>0
<1>4. MaxLen \in Nat /\ Inline \in Nat BY RowsTypes
<1> HIDE DEF w
<1>5. CASE vkind = "vec" /\ ~w.heap
  <2> DEFINE e == s \o Rows!Copies(Inline - Len(s), -1)
             d == t \o Rows!Copies(Inline - (Len(s) + 1), -1)
             h == FALSE
  <2>1. w.room = Inline /\ w = Rows!Stack(s) BY <1>1, <1>5, FormIs
  <2>2. w = Box(h, Inline, Inline, 0, e) BY <1>0, <2>1, StackIs DEF Box
  <2>3. RowWritten(e, Len(s) + 1, x) = d BY <1>0, <1>1, <1>4, <2>1, AppendedCells DEF RowWritten
  <2>4. Rows!Stack(t) = Box(h, Inline, Inline, 0, d) BY <1>3, StackIs DEF Box
  <2>5. Form(vkind, Rows!Stack(t), t)
    <3>1. Len(t) <= Inline /\ Len(t) <= MaxLen BY <1>0, <1>1, <1>3, <1>4, <1>5, <2>1
    <3> HIDE DEF t
    <3> QED BY <1>3, <1>5, <3>1, StackForm
  <2> HIDE DEF e, d, t
  <2>6. OneMore(w, Len(s) + 1, x) = Box(h, Inline, Inline, 0, d)
    <3>1. 0 = IF h THEN 0 + 1 ELSE 0 OBVIOUS
    <3> HIDE DEF h
    <3> QED BY <2>2, <2>3, <3>1, BoxPushed
  <2> QED BY <1>2, <2>4, <2>5, <2>6 DEF t, h
<1>6. CASE w.heap \/ vkind # "vec"
  <2> DEFINE r == w.room
             h == r > 0
             e == s \o Rows!Copies(r - Len(s), -1)
             d == t \o Rows!Copies(r - (Len(s) + 1), -1)
  <2>1. w = InHeap(r, s) /\ r \in Nat /\ (vkind = "vec" => Inline < r /\ r < CapLimit) BY <1>1, <1>6, FormIs
  <2> HIDE DEF r
  <2>2. w = Box(h, r, r, Len(s), e) BY <2>1 DEF InHeap, Box
  <2>3. RowWritten(e, Len(s) + 1, x) = d BY <1>0, <1>1, <2>1, AppendedCells DEF r, RowWritten
  <2>4. InHeap(r, t) = Box(h, r, r, Len(s) + 1, d) BY <1>3 DEF InHeap, Box
  <2>5. Form(vkind, Rows!Heap(r, t), t) /\ Rows!Heap(r, t) = InHeap(r, t)
    <3>1. Len(t) <= r /\ (vkind = "vec" => Len(t) <= MaxLen) BY <1>0, <1>1, <1>3, <1>4, <2>1 DEF r
    <3> HIDE DEF t
    <3> QED BY <1>3, <2>1, <3>1, HeapForm, HeapIs
  <2>6. h BY <1>0, <1>1, <2>1 DEF r
  <2> HIDE DEF e, d, t, h
  <2>8. OneMore(w, Len(s) + 1, x) = Box(h, r, r, Len(s) + 1, d)
    <3>1. Len(s) + 1 = IF h THEN Len(s) + 1 ELSE Len(s) BY <2>6
    <3> QED BY <2>2, <2>3, <3>1, BoxPushed
  <2> QED BY <1>2, <2>4, <2>5, <2>6, <2>8 DEF t
<1> QED BY <1>1, <1>5, <1>6, FormIs

-----------------------------------------------------------------------------
(* How many values a container owns *)

LEMMA OwnedType ==
  ASSUME NEW S, NEW s \in Seq(S)
  PROVE  /\ Rows!OwnedAt(s) \subseteq 1 .. Len(s) /\ IsFiniteSet(Rows!OwnedAt(s))
         /\ Rows!OwnedIn(s) = Cardinality(Rows!OwnedAt(s)) /\ Rows!OwnedIn(s) \in Nat
<1>1. Rows!OwnedAt(s) \subseteq 1 .. Len(s) BY DEF Rows!OwnedAt
<1>2. 1 \in Int /\ Len(s) \in Int OBVIOUS
<1>3. IsFiniteSet(1 .. Len(s)) BY <1>2, FS_Interval
<1>4. IsFiniteSet(Rows!OwnedAt(s)) BY <1>1, <1>3, FS_Subset
<1> QED BY <1>1, <1>4, RowsCount, FS_CardinalityType DEF Rows!OwnedIn

LEMMA OwnedOne ==
  ASSUME NEW x
  PROVE  Rows!OwnedIn(<<x>>) = IF x \in Cells THEN 1 ELSE 0
<1> DEFINE s == <<x>>
<1>1. s \in Seq({x}) /\ Len(s) = 1 /\ s[1] = x /\ DOMAIN s = {1} OBVIOUS
<1> HIDE DEF s
<1>2. Rows!OwnedIn(s) = Cardinality(Rows!OwnedAt(s)) BY <1>1, OwnedType
<1>3. CASE x \in Cells
  <2>1. Rows!OwnedAt(s) = {1} BY <1>1, <1>3 DEF Rows!OwnedAt
  <2> QED BY <1>2, <1>3, <2>1, FS_Singleton DEF s
<1>4. CASE x \notin Cells
  <2>1. Rows!OwnedAt(s) = {} BY <1>1, <1>4 DEF Rows!OwnedAt
  <2> QED BY <1>2, <1>4, <2>1, FS_EmptySet DEF s
<1> QED BY <1>3, <1>4

LEMMA OwnedNone ==
  ASSUME NEW S, NEW s \in Seq(S), \A i \in 1 .. Len(s) : s[i] \notin Cells
  PROVE  Rows!OwnedIn(s) = 0
<1>1. Rows!OwnedAt(s) = {} BY DEF Rows!OwnedAt
<1> QED BY <1>1, OwnedType, FS_EmptySet

LEMMA OwnedAll ==
  ASSUME NEW S, NEW s \in Seq(S), \A i \in 1 .. Len(s) : s[i] \in Cells
  PROVE  Rows!OwnedIn(s) = Len(s)
<1>1. Rows!OwnedAt(s) = 1 .. Len(s) BY DEF Rows!OwnedAt
<1>2. 1 \in Int /\ Len(s) \in Int /\ Len(s) \in Nat OBVIOUS
<1>3. Cardinality(1 .. Len(s)) = IF 1 > Len(s) THEN 0 ELSE Len(s) - 1 + 1 BY <1>2, FS_Interval
<1>4. Cardinality(1 .. Len(s)) = Len(s) BY <1>2, <1>3
<1> QED BY <1>1, <1>4, OwnedType

LEMMA OwnedConcat ==
  ASSUME NEW S, NEW s \in Seq(S), NEW t \in Seq(S)
  PROVE  Rows!OwnedIn(s \o t) = Rows!OwnedIn(s) + Rows!OwnedIn(t)
<1> DEFINE A == Rows!OwnedAt(s)
           B == Rows!OwnedAt(t)
           C == {Len(s) + i : i \in B}
           f == [i \in B |-> Len(s) + i]
<1>1. /\ A \subseteq 1 .. Len(s) /\ IsFiniteSet(A) /\ Rows!OwnedIn(s) = Cardinality(A)
      /\ B \subseteq 1 .. Len(t) /\ IsFiniteSet(B) /\ Rows!OwnedIn(t) = Cardinality(B)
  BY OwnedType
<1>2. s \o t \in Seq(S) /\ Len(s \o t) = Len(s) + Len(t) /\ Len(s) \in Nat /\ Len(t) \in Nat OBVIOUS
<1>3. Rows!OwnedIn(s \o t) = Cardinality(Rows!OwnedAt(s \o t)) BY <1>2, OwnedType
<1>4. Rows!OwnedAt(s \o t) = A \cup C
  <2>1. ASSUME NEW i \in A PROVE i \in Rows!OwnedAt(s \o t)
    <3>1. i \in 1 .. Len(s) /\ s[i] \in Cells BY <1>1 DEF Rows!OwnedAt
    <3>2. (s \o t)[i] = s[i] /\ i \in DOMAIN (s \o t) BY <1>2, <3>1
    <3> QED BY <3>1, <3>2 DEF Rows!OwnedAt
  <2>2. ASSUME NEW i \in C PROVE i \in Rows!OwnedAt(s \o t)
    <3>1. PICK j \in B : i = Len(s) + j OBVIOUS
    <3>2. j \in 1 .. Len(t) /\ t[j] \in Cells BY <1>1 DEF Rows!OwnedAt
    <3>3. (s \o t)[i] = t[j] /\ i \in DOMAIN (s \o t) BY <1>2, <3>1, <3>2
    <3> QED BY <3>2, <3>3 DEF Rows!OwnedAt
  <2>3. ASSUME NEW i \in Rows!OwnedAt(s \o t) PROVE i \in A \cup C
    <3>1. i \in 1 .. Len(s) + Len(t) /\ (s \o t)[i] \in Cells BY <1>2 DEF Rows!OwnedAt
    <3>2. CASE i <= Len(s)
      <4>1. i \in 1 .. Len(s) /\ (s \o t)[i] = s[i] BY <1>2, <3>1, <3>2
      <4> QED BY <3>1, <4>1 DEF Rows!OwnedAt
    <3>3. CASE i > Len(s)
      <4> DEFINE j == i - Len(s)
      <4>1. j \in 1 .. Len(t) /\ (s \o t)[i] = t[j] /\ i = Len(s) + j BY <1>2, <3>1, <3>3
      <4>2. j \in B BY <3>1, <4>1 DEF Rows!OwnedAt
      <4> QED BY <4>1, <4>2
    <3> QED BY <1>2, <3>1, <3>2, <3>3
  <2> HIDE DEF A, C
  <2> QED BY <2>1, <2>2, <2>3
<1>5. f \in Bijection(B, C)
  <2>1. f \in [B -> C] /\ \A y \in C : \E i \in B : f[i] = y OBVIOUS
  <2>2. \A i, j \in B : f[i] = f[j] => i = j BY <1>1, <1>2
  <2> HIDE DEF f, B, C
  <2> QED BY <2>1, <2>2 DEF Bijection, Injection, Surjection, IsInjective
<1>6. IsFiniteSet(C) /\ Cardinality(C) = Cardinality(B) BY <1>1, <1>5, FS_Bijection DEF ExistsBijection
<1>7. A \cap C = {} BY <1>1, <1>2
<1> HIDE DEF A, B, C, f
<1>8. Cardinality(A \cup C) = Cardinality(A) + Cardinality(C) - Cardinality(A \cap C) BY <1>1, <1>6, FS_Union
<1>9. Cardinality(A \cup C) = Cardinality(A) + Cardinality(B)
  <2>1. Cardinality(A \cap C) = 0 /\ Cardinality(A) \in Nat /\ Cardinality(B) \in Nat
    BY <1>1, <1>7, FS_EmptySet, FS_CardinalityType
  <2> QED BY <1>6, <1>8, <2>1
<1> QED BY <1>1, <1>3, <1>4, <1>9

LEMMA OwnedExcept ==
  ASSUME NEW s \in Seq(Int), NEW i \in 1 .. Len(s), NEW x \in Int
  PROVE  /\ RowWritten(s, i, x) \in Seq(Int) /\ Len(RowWritten(s, i, x)) = Len(s)
         /\ Rows!OwnedIn(RowWritten(s, i, x)) = Rows!OwnedIn(s) - Rows!OwnedIn(<<s[i]>>) + Rows!OwnedIn(<<x>>)
<1> DEFINE t == [s EXCEPT ![i] = x]
           A == Rows!OwnedAt(s)
           B == Rows!OwnedAt(t)
<1>1. t \in Seq(Int) /\ Len(t) = Len(s) /\ t[i] = x /\ \A j \in 1 .. Len(s) : j # i => t[j] = s[j] OBVIOUS
<1> HIDE DEF t
<1>2. /\ A \subseteq 1 .. Len(s) /\ IsFiniteSet(A) /\ Rows!OwnedIn(s) = Cardinality(A) /\ Cardinality(A) \in Nat
      /\ Rows!OwnedIn(t) = Cardinality(B)
  BY <1>1, OwnedType
<1>3. /\ Rows!OwnedIn(<<s[i]>>) = IF s[i] \in Cells THEN 1 ELSE 0
      /\ Rows!OwnedIn(<<x>>) = IF x \in Cells THEN 1 ELSE 0
  BY OwnedOne
<1>4. i \in A <=> s[i] \in Cells BY DEF Rows!OwnedAt
<1>5. B = IF x \in Cells THEN (A \ {i}) \cup {i} ELSE A \ {i}
  <2>1. DOMAIN t = 1 .. Len(s) /\ DOMAIN s = 1 .. Len(s) BY <1>1
  <2> QED BY <1>1, <2>1 DEF Rows!OwnedAt
<1> HIDE DEF A, B
<1> DEFINE C == A \ {i}
<1>6. IsFiniteSet(C) /\ Cardinality(C) = IF i \in A THEN Cardinality(A) - 1 ELSE Cardinality(A)
  BY <1>2, FS_RemoveElement
<1>7. i \notin C OBVIOUS
<1>8. B = IF x \in Cells THEN C \cup {i} ELSE C BY <1>5
<1> HIDE DEF C
<1>9. Cardinality(C \cup {i}) = Cardinality(C) + 1 BY <1>6, <1>7, FS_AddElement
<1>10. Rows!OwnedIn(t) = Rows!OwnedIn(s) - Rows!OwnedIn(<<s[i]>>) + Rows!OwnedIn(<<x>>)
  <2>1. CASE x \in Cells BY <1>2, <1>3, <1>4, <1>6, <1>8, <1>9, <2>1
  <2>2. CASE x \notin Cells BY <1>2, <1>3, <1>4, <1>6, <1>8, <2>2
  <2> QED BY <2>1, <2>2
<1> QED BY <1>1, <1>10 DEF t, RowWritten

LEMMA OwnedSplit ==
  ASSUME NEW S, NEW s \in Seq(S), NEW n \in 0 .. Len(s)
  PROVE  /\ s = SubSeq(s, 1, n) \o SubSeq(s, n + 1, Len(s))
         /\ Rows!OwnedIn(s) = Rows!OwnedIn(SubSeq(s, 1, n)) + Rows!OwnedIn(SubSeq(s, n + 1, Len(s)))
<1> DEFINE a == SubSeq(s, 1, n)
           b == SubSeq(s, n + 1, Len(s))
<1>1. /\ a \in Seq(S) /\ Len(a) = n /\ \A i \in 1 .. n : a[i] = s[i]
      /\ b \in Seq(S) /\ Len(b) = Len(s) - n /\ \A i \in 1 .. Len(s) - n : b[i] = s[n + i]
  OBVIOUS
<1> HIDE DEF a, b
<1>2. a \o b \in Seq(S) /\ Len(a \o b) = Len(s)
  <2>0. a \in Seq(S) /\ b \in Seq(S) BY <1>1
  <2>1. Len(a \o b) = Len(a) + Len(b) /\ a \o b \in Seq(S) BY <2>0
  <2>2. n + (Len(s) - n) = Len(s) OBVIOUS
  <2> QED BY <1>1, <2>1, <2>2
<1>3. \A i \in 1 .. Len(s) : (a \o b)[i] = s[i]
  <2> SUFFICES ASSUME NEW i \in 1 .. Len(s) PROVE (a \o b)[i] = s[i] OBVIOUS
  <2>1. (a \o b)[i] = IF i <= n THEN a[i] ELSE b[i - n]
    <3>1. i \in 1 .. Len(a) + Len(b) BY <1>1
    <3> QED BY <1>1, <3>1
  <2>2. CASE i <= n
    <3>1. i \in 1 .. n BY <2>2
    <3> QED BY <1>1, <2>1, <2>2, <3>1
  <2>3. CASE ~(i <= n)
    <3>1. i - n \in 1 .. Len(s) - n /\ n + (i - n) = i /\ ~(i <= n) BY <2>3
    <3>2. b[i - n] = s[n + (i - n)] BY <1>1, <3>1
    <3> QED BY <2>1, <3>1, <3>2
  <2> QED BY <2>2, <2>3
<1>4. s = a \o b BY <1>2, <1>3, SameSeq
<1>5. Rows!OwnedIn(a \o b) = Rows!OwnedIn(a) + Rows!OwnedIn(b) BY <1>1, OwnedConcat
<1> QED BY <1>4, <1>5 DEF a, b

LEMMA OwnedCopies ==
  ASSUME RowsAssumption, NEW n \in Nat, NEW x \in Rows!Given
  PROVE  Rows!OwnedIn(Rows!Copies(n, x)) = n * Rows!OwnedIn(<<x>>)
<1>1. x \in Int /\ n \in Int BY RowsTypes
<1>2. Rows!Copies(n, x) \in Seq({x}) /\ Len(Rows!Copies(n, x)) = n /\ \A i \in 1 .. n : Rows!Copies(n, x)[i] = x
  <2>1. ~(n < 0) OBVIOUS
  <2> QED BY <1>1, <2>1, CopiesAre
<1>3. CASE x \in Cells
  <2>1. Rows!OwnedIn(Rows!Copies(n, x)) = n BY <1>2, <1>3, OwnedAll
  <2>2. Rows!OwnedIn(<<x>>) = 1 BY <1>3, OwnedOne
  <2> QED BY <2>1, <2>2
<1>4. CASE x \notin Cells
  <2>1. Rows!OwnedIn(Rows!Copies(n, x)) = 0 BY <1>2, <1>4, OwnedNone
  <2>2. Rows!OwnedIn(<<x>>) = 0 BY <1>4, OwnedOne
  <2> QED BY <2>1, <2>2
<1> QED BY <1>3, <1>4

LEMMA PaddedOwned ==
  ASSUME RowsAssumption, NEW s \in Seq(Rows!Given), NEW n \in Nat, NEW x \in Rows!Given
  PROVE  Rows!OwnedIn(Padded(s, n, x))
           = Rows!OwnedIn(s) + (IF n - Len(s) > 0 THEN n - Len(s) ELSE 0) * Rows!OwnedIn(<<x>>)
             - Rows!OwnedIn(SubSeq(s, n + 1, Len(s)))
<1> DEFINE p == IF n <= Len(s) THEN n ELSE Len(s)
           q == n - Len(s)
           w == IF q > 0 THEN q ELSE 0
           a == SubSeq(s, 1, p)
           b == Rows!Copies(q, x)
           d == SubSeq(s, n + 1, Len(s))
<1>1. p \in Nat /\ p <= Len(s) /\ Len(s) \in Nat /\ q \in Int /\ x \in Int /\ w \in Nat
  <2>1. x \in Int BY RowsTypes
  <2> QED BY <2>1
<1>2. Rows!OwnedIn(b) = w * Rows!OwnedIn(<<x>>)
  <2>1. CASE q > 0
    <3>1. q \in Nat /\ w = q BY <2>1, <1>1
    <3> HIDE DEF q, w
    <3> QED BY <3>1, OwnedCopies
  <2>2. CASE ~(q > 0)
    <3>0. w = 0 BY <2>2
    <3>1. b \in Seq({x}) /\ Len(b) = 0
      <4>1. b \in Seq({x}) /\ (Len(b) = IF q < 0 THEN 0 ELSE q)
        <5> HIDE DEF q
        <5> QED BY <1>1, CopiesAre
      <4> HIDE DEF b
      <4> QED BY <1>1, <2>2, <4>1
    <3>2. Rows!OwnedIn(b) = 0
      <4> HIDE DEF b
      <4>1. \A j \in 1 .. Len(b) : b[j] \notin Cells BY <3>1
      <4> QED BY <3>1, <4>1, OwnedNone
    <3>3. Rows!OwnedIn(<<x>>) \in Nat BY OwnedOne
    <3> HIDE DEF b, w
    <3> QED BY <3>0, <3>2, <3>3
  <2> QED BY <2>1, <2>2
<1>3. Rows!OwnedIn(a) = Rows!OwnedIn(s) - Rows!OwnedIn(d)
  <2>1. CASE n <= Len(s)
    <3>1. n \in 0 .. Len(s) /\ p = n BY <2>1, <1>1
    <3>2. Rows!OwnedIn(s) = Rows!OwnedIn(SubSeq(s, 1, n)) + Rows!OwnedIn(SubSeq(s, n + 1, Len(s)))
      BY <3>1, OwnedSplit
    <3>3. Rows!OwnedIn(SubSeq(s, 1, n)) \in Nat /\ Rows!OwnedIn(SubSeq(s, n + 1, Len(s))) \in Nat
      <4>1. SubSeq(s, 1, n) \in Seq(Rows!Given) /\ SubSeq(s, n + 1, Len(s)) \in Seq(Rows!Given) BY <3>1
      <4> QED BY <4>1, OwnedType
    <3> HIDE DEF p
    <3> QED BY <3>1, <3>2, <3>3
  <2>2. CASE ~(n <= Len(s))
    <3>1. p = Len(s) /\ a = s BY <2>2, <1>1
    <3>2. d \in Seq(Rows!Given) /\ Len(d) = 0 BY <2>2, <1>1
    <3>3. Rows!OwnedIn(d) = 0
      <4> HIDE DEF d
      <4>1. \A j \in 1 .. Len(d) : d[j] \notin Cells BY <3>2
      <4> QED BY <3>2, <4>1, OwnedNone
    <3>4. Rows!OwnedIn(s) \in Nat BY OwnedType
    <3> HIDE DEF a, d
    <3> QED BY <3>1, <3>3, <3>4
  <2> QED BY <2>1, <2>2
<1>4. a \in Seq(Rows!Given) /\ b \in Seq(Rows!Given)
  <2>1. a \in Seq(Rows!Given)
    <3> HIDE DEF p
    <3> QED BY <1>1
  <2>2. b \in Seq({x})
    <3> HIDE DEF q
    <3> QED BY <1>1, CopiesAre
  <2> HIDE DEF b, a
  <2> QED BY <2>1, <2>2
<1>5. Padded(s, n, x) = a \o b BY DEF Padded
<1>6. d \in Seq(Rows!Given) OBVIOUS
<1>7. Rows!OwnedIn(a) \in Nat /\ Rows!OwnedIn(b) \in Nat /\ Rows!OwnedIn(d) \in Nat /\ Rows!OwnedIn(s) \in Nat
  <2> HIDE DEF a, b, d
  <2> QED BY <1>4, <1>6, OwnedType
<1>8. Rows!OwnedIn(a \o b) = Rows!OwnedIn(a) + Rows!OwnedIn(b)
  <2> HIDE DEF a, b
  <2> QED BY <1>4, OwnedConcat
<1>9. Rows!OwnedIn(Padded(s, n, x)) = Rows!OwnedIn(s) + w * Rows!OwnedIn(<<x>>) - Rows!OwnedIn(d)
  <2> DEFINE y == w * Rows!OwnedIn(<<x>>)
  <2>1. Rows!OwnedIn(b) = y /\ Rows!OwnedIn(Padded(s, n, x)) = Rows!OwnedIn(a) + Rows!OwnedIn(b)
    BY <1>2, <1>5, <1>8
  <2> HIDE DEF y, a, b, d, w
  <2>2. Rows!OwnedIn(Padded(s, n, x)) = Rows!OwnedIn(s) + y - Rows!OwnedIn(d) BY <1>3, <1>7, <2>1
  <2> QED BY <2>2 DEF y
<1> QED BY <1>9

LEMMA OwnedFitted ==
  ASSUME RowsAssumption, NEW s \in Seq(Rows!Given), NEW n \in Nat
  PROVE  Rows!OwnedIn(Rows!Fitted(s, n)) = Rows!OwnedIn(s) - Rows!OwnedIn(SubSeq(s, n + 1, Len(s)))
<1> DEFINE x == 0
           k == IF n - Len(s) > 0 THEN n - Len(s) ELSE 0
           a == Rows!OwnedIn(s)
           b == Rows!OwnedIn(SubSeq(s, n + 1, Len(s)))
<1>1. x \in Rows!Given /\ Rows!OwnedIn(<<x>>) = 0 /\ k \in Nat BY RowsTypes, OwnedOne
<1>2. a \in Nat /\ b \in Nat
  <2>1. SubSeq(s, n + 1, Len(s)) \in Seq(Rows!Given) OBVIOUS
  <2> QED BY <2>1, OwnedType
<1>3. Rows!OwnedIn(Rows!Fitted(s, n)) = Rows!OwnedIn(Padded(s, n, x)) BY FittedPadded
<1>4. Rows!OwnedIn(Padded(s, n, x)) = a + k * Rows!OwnedIn(<<x>>) - b
  <2> HIDE DEF x
  <2> QED BY <1>1, PaddedOwned
<1>5. Rows!OwnedIn(Padded(s, n, x)) = a - b
  <2> HIDE DEF x, k, a, b
  <2> QED BY <1>1, <1>2, <1>4
<1> QED BY <1>3, <1>5

LEMMA DroppedIs ==
  ASSUME RowsAssumption, NEW v, NEW s, Form(vkind, v, s), NEW n \in Nat
  PROVE  /\ Rows!Dropped(v, n) = Rows!OwnedIn(SubSeq(s, n + 1, Len(s)))
         /\ Rows!Dropped(v, n) \in Nat
         /\ n = 0 => Rows!Dropped(v, n) = Rows!OwnedIn(s)
<1>0. /\ s \in Seq(Rows!Given) /\ Rows!SizeOf(v) = Len(s) /\ v.cells \in Seq(Int) /\ Len(v.cells) = v.room
      /\ v.room \in Nat /\ Len(s) <= v.room /\ \A i \in 1 .. Len(s) : v.cells[i] = s[i]
  BY FormIs
<1>1. s \in Seq(Int) /\ Len(s) \in Nat BY <1>0, RowsTypes
<1> DEFINE c == v.cells
           a == SubSeq(c, n + 1, Len(s))
           b == SubSeq(s, n + 1, Len(s))
           m == IF n <= Len(s) THEN Len(s) - n ELSE 0
<1>2. /\ a \in Seq(Int) /\ Len(a) = m /\ (\A i \in 1 .. m : a[i] = c[n + i])
      /\ b \in Seq(Int) /\ Len(b) = m /\ (\A i \in 1 .. m : b[i] = s[n + i])
  <2>1. c \in Seq(Int) /\ Len(s) <= Len(c) BY <1>0
  <2> HIDE DEF c
  <2>2. a \in Seq(Int) /\ Len(a) = m /\ (\A i \in 1 .. m : a[i] = c[n + i]) BY <1>1, <2>1
  <2>3. b \in Seq(Int) /\ Len(b) = m /\ (\A i \in 1 .. m : b[i] = s[n + i]) BY <1>1
  <2> QED BY <2>2, <2>3
<1>3. \A i \in 1 .. m : a[i] = b[i]
  <2> SUFFICES ASSUME NEW i \in 1 .. m PROVE a[i] = b[i] OBVIOUS
  <2>1. n + i \in 1 .. Len(s) BY <1>1
  <2>2. c[n + i] = s[n + i] BY <1>0, <2>1
  <2> HIDE DEF a, b, c, m
  <2> QED BY <1>2, <2>2
<1>4. a = b
  <2> HIDE DEF a, b, m
  <2> QED BY <1>2, <1>3, SameSeq
<1>5. Rows!Dropped(v, n) = Rows!OwnedIn(b) BY <1>0, <1>4 DEF Rows!Dropped
<1>6. Rows!OwnedIn(b) \in Nat BY <1>2, OwnedType
<1>7. n = 0 => b = s
  <2> SUFFICES ASSUME n = 0 PROVE b = s OBVIOUS
  <2>1. Len(b) = Len(s) /\ \A i \in 1 .. Len(s) : b[i] = s[i] BY <1>1, <1>2
  <2> HIDE DEF b
  <2> QED BY <1>1, <1>2, <2>1, SameSeq
<1> QED BY <1>5, <1>6, <1>7

-----------------------------------------------------------------------------
(* Values that are moved inside a container *)

Runs(f, m, v, to, from) ==
  [k \in 0 .. m |-> IF k = 0 THEN Rows!Untouched(v) ELSE Rows!Taken(f[k - 1], to[k], from[k])]

LEMMA Runs1 ==
  ASSUME NEW v, NEW to, NEW from, NEW m \in Nat
  PROVE  \E f : f = Runs(f, m, v, to, from)
<1> DEFINE Some == {w \in Nat : \E f : f = Runs(f, w, v, to, from)}
           start == Rows!Untouched(v)
<1>1. 0 \in Some
  <2> DEFINE g == [k \in 0 .. 0 |-> start]
  <2>1. g = Runs(g, 0, v, to, from) BY DEF Runs
  <2> HIDE DEF g
  <2> QED BY <2>1
<1>2. ASSUME NEW w \in Nat, w \in Some
      PROVE  w + 1 \in Some
  <2>1. PICK f : f = Runs(f, w, v, to, from) BY <1>2
  <2> HIDE DEF start
  <2> DEFINE last == Rows!Taken(f[w], to[w + 1], from[w + 1])
             g == [k \in 0 .. w + 1 |-> IF k = w + 1 THEN last ELSE f[k]]
  <2>2. \A k \in 0 .. w : f[k] = IF k = 0 THEN start ELSE Rows!Taken(f[k - 1], to[k], from[k])
    BY <2>1 DEF Runs, start
  <2>3. \A k \in 0 .. w + 1 : g[k] = IF k = 0 THEN start ELSE Rows!Taken(g[k - 1], to[k], from[k]) BY <2>2
  <2>4. g = Runs(g, w + 1, v, to, from)
    <3>1. g = [k \in 0 .. w + 1 |-> g[k]] OBVIOUS
    <3> HIDE DEF g
    <3> QED BY <2>3, <3>1 DEF Runs, start
  <2> HIDE DEF g
  <2> QED BY <2>4
<1> HIDE DEF Some
<1>3. m \in Some BY <1>1, <1>2, Induct
<1> QED BY <1>3 DEF Some

MovedSo(R, m, v, to, from) ==
  /\ R[0] = Rows!Untouched(v)
  /\ \A k \in 0 .. m - 1 : R[k + 1] = Rows!Taken(R[k], to[k + 1], from[k + 1])
  /\ Rows!Moving(v, m, to, from) = R[m]

LEMMA MovingIs ==
  ASSUME NEW v, NEW to, NEW from, NEW m \in Nat
  PROVE  \E R : MovedSo(R, m, v, to, from)
<1> DEFINE R == CHOOSE f : f = Runs(f, m, v, to, from)
<1>1. R = Runs(R, m, v, to, from) BY Runs1
<1>2. Rows!Moving(v, m, to, from) = R[m] BY DEF Rows!Moving, Runs
<1> HIDE DEF R
<1>3. \A k \in 0 .. m : R[k] = IF k = 0 THEN Rows!Untouched(v) ELSE Rows!Taken(R[k - 1], to[k], from[k])
  BY <1>1 DEF Runs
<1>4. R[0] = Rows!Untouched(v) BY <1>3
<1>5. ASSUME NEW k \in 0 .. m - 1 PROVE R[k + 1] = Rows!Taken(R[k], to[k + 1], from[k + 1])
  <2>1. k + 1 \in 0 .. m /\ k + 1 # 0 /\ k + 1 - 1 = k OBVIOUS
  <2> QED BY <1>3, <2>1
<1> QED BY <1>2, <1>4, <1>5 DEF MovedSo

OneMove(acc, t, r, to, from) ==
  /\ t.cells \in Seq(Int) /\ Len(t.cells) = r /\ t.died \in Nat
  /\ t.cells[to] = acc.cells[from] /\ t.cells[from] = 0
  /\ \A j \in 1 .. r : j # to /\ j # from => t.cells[j] = acc.cells[j]
  /\ acc.cells[to] = 0 => t.died = acc.died
  /\ Rows!OwnedIn(t.cells) + t.died = Rows!OwnedIn(acc.cells) + acc.died

LEMMA ValueTaken ==
  ASSUME NEW acc, NEW r \in Nat, acc.cells \in Seq(Int), Len(acc.cells) = r, acc.died \in Nat,
         NEW to \in 1 .. r, NEW from \in 1 .. r, to # from, 0 \notin Cells
  PROVE  OneMove(acc, Rows!Taken(acc, to, from), r, to, from)
<1> DEFINE c == acc.cells
           d == RowWritten(c, to, c[from])
           e == RowWritten(d, from, 0)
           t == Rows!Taken(acc, to, from)
<1>1. c \in Seq(Int) /\ Len(c) = r /\ c[from] \in Int /\ c[to] \in Int /\ to \in 1 .. Len(c) OBVIOUS
<1>2. /\ d \in Seq(Int) /\ Len(d) = r
      /\ Rows!OwnedIn(d) = Rows!OwnedIn(c) - Rows!OwnedIn(<<c[to]>>) + Rows!OwnedIn(<<c[from]>>)
  <2> HIDE DEF c
  <2> QED BY <1>1, OwnedExcept
<1>3. d[to] = c[from] /\ d[from] = c[from] /\ \A j \in 1 .. r : j # to => d[j] = c[j] BY <1>1 DEF RowWritten
<1>4. t.cells = [acc.cells EXCEPT ![to] = acc.cells[from], ![from] = 0]
      /\ t.died = acc.died + Rows!OwnedIn(<<acc.cells[to]>>)
  BY DEF Rows!Taken, Rows!Null
<1>5. t.cells = e BY <1>1, <1>4 DEF RowWritten
<1>6. e[from] = 0 /\ \A j \in 1 .. r : j # from => e[j] = d[j]
  <2> HIDE DEF d
  <2> QED BY <1>2 DEF RowWritten
<1>7. /\ e \in Seq(Int) /\ Len(e) = r
      /\ Rows!OwnedIn(e) = Rows!OwnedIn(d) - Rows!OwnedIn(<<d[from]>>) + Rows!OwnedIn(<<0>>)
  <2> HIDE DEF d
  <2>1. from \in 1 .. Len(d) /\ 0 \in Int BY <1>2
  <2> QED BY <1>2, <2>1, OwnedExcept
<1>8. /\ Rows!OwnedIn(<<0>>) = 0
      /\ Rows!OwnedIn(<<c[to]>>) = IF c[to] \in Cells THEN 1 ELSE 0
      /\ Rows!OwnedIn(<<c[from]>>) = IF c[from] \in Cells THEN 1 ELSE 0
  BY OwnedOne
<1>9. Rows!OwnedIn(c) \in Nat
  <2> HIDE DEF c
  <2> QED BY <1>1, OwnedType
<1> HIDE DEF d, e, t
<1>10. Rows!OwnedIn(e) + t.died = Rows!OwnedIn(c) + acc.died
  <2> DEFINE x == Rows!OwnedIn(<<c[to]>>)
             y == Rows!OwnedIn(<<c[from]>>)
  <2>1. x \in Nat /\ y \in Nat BY <1>8
  <2>2. Rows!OwnedIn(d) = Rows!OwnedIn(c) - x + y /\ Rows!OwnedIn(e) = Rows!OwnedIn(d) - y + 0 /\ t.died = acc.died + x
    BY <1>2, <1>3, <1>4, <1>7, <1>8
  <2> HIDE DEF x, y, c
  <2> QED BY <1>9, <2>1, <2>2
<1>11. t.died \in Nat /\ (c[to] = 0 => t.died = acc.died) BY <1>4, <1>8
<1>12. /\ t.cells \in Seq(Int) /\ Len(t.cells) = r /\ t.cells[to] = acc.cells[from] /\ t.cells[from] = 0
       /\ \A j \in 1 .. r : j # to /\ j # from => t.cells[j] = acc.cells[j]
       /\ Rows!OwnedIn(t.cells) + t.died = Rows!OwnedIn(acc.cells) + acc.died
  BY <1>3, <1>5, <1>6, <1>7, <1>10
<1> QED BY <1>11, <1>12 DEF OneMove, t

\* Where values stand when k of them have been moved up by n.
Lifted(acc, u, r, z, n, k) ==
  /\ acc.cells \in Seq(Int) /\ Len(acc.cells) = r /\ acc.died = 0
  /\ \A j \in 1 .. z - k : acc.cells[j] = u[j]
  /\ \A j \in z - k + 1 .. z - k + n : acc.cells[j] = 0
  /\ \A j \in z - k + n + 1 .. z + n : acc.cells[j] = u[j - n]
  /\ \A j \in z + n + 1 .. r : acc.cells[j] = -1

LEMMA LiftedOnce ==
  ASSUME RowsAssumption, NEW acc, NEW u, NEW r \in Nat, NEW z \in Nat, NEW n \in Nat \ {0}, z + n <= r,
         NEW k \in 0 .. z - 1, Lifted(acc, u, r, z, n, k)
  PROVE  Lifted(Rows!Taken(acc, z + n - k, z - k), u, r, z, n, k + 1)
<1> DEFINE to == z + n - k
           from == z - k
           t == Rows!Taken(acc, to, from)
<1>1. /\ to \in 1 .. r /\ from \in 1 .. r /\ to # from
      /\ to \in z - k + 1 .. z - k + n /\ from \in 1 .. z - k
  OBVIOUS
<1>2. acc.cells \in Seq(Int) /\ Len(acc.cells) = r /\ acc.died \in Nat /\ acc.cells[to] = 0 /\ acc.cells[from] = u[from]
      /\ acc.died = 0
  BY <1>1 DEF Lifted
<1>3. 0 \notin Cells BY RowsTypes
<1>4. OneMove(acc, t, r, to, from)
  <2>1. acc.died \in Nat BY <1>2
  <2> HIDE DEF to, from
  <2> QED BY <1>1, <1>2, <1>3, <2>1, ValueTaken
<1> HIDE DEF t
<1>40. /\ t.cells \in Seq(Int) /\ Len(t.cells) = r
      /\ t.cells[to] = acc.cells[from] /\ t.cells[from] = 0
      /\ \A j \in 1 .. r : j # to /\ j # from => t.cells[j] = acc.cells[j]
  <2> HIDE DEF to, from
  <2> QED BY <1>2, <1>4 DEF OneMove
<1>41. t.died = 0
  <2> HIDE DEF to, from
  <2>1. acc.cells[to] = 0 => t.died = acc.died BY <1>4 DEF OneMove
  <2> QED BY <1>2, <2>1
<1>5. \A j \in 1 .. z - (k + 1) : t.cells[j] = u[j]
  <2> SUFFICES ASSUME NEW j \in 1 .. z - (k + 1) PROVE t.cells[j] = u[j] OBVIOUS
  <2>1. j \in 1 .. r /\ j # to /\ j # from /\ j \in 1 .. z - k OBVIOUS
  <2> QED BY <1>40, <2>1 DEF Lifted
<1>6. \A j \in z - (k + 1) + 1 .. z - (k + 1) + n : t.cells[j] = 0
  <2> SUFFICES ASSUME NEW j \in z - (k + 1) + 1 .. z - (k + 1) + n PROVE t.cells[j] = 0 OBVIOUS
  <2>1. j = from \/ (j \in 1 .. r /\ j # to /\ j # from /\ j \in z - k + 1 .. z - k + n) OBVIOUS
  <2> QED BY <1>40, <2>1 DEF Lifted
<1>7. \A j \in z - (k + 1) + n + 1 .. z + n : t.cells[j] = u[j - n]
  <2> SUFFICES ASSUME NEW j \in z - (k + 1) + n + 1 .. z + n PROVE t.cells[j] = u[j - n] OBVIOUS
  <2>1. (j = to /\ j - n = from) \/ (j \in 1 .. r /\ j # to /\ j # from /\ j \in z - k + n + 1 .. z + n) OBVIOUS
  <2> QED BY <1>2, <1>40, <2>1 DEF Lifted
<1>8. \A j \in z + n + 1 .. r : t.cells[j] = -1
  <2> SUFFICES ASSUME NEW j \in z + n + 1 .. r PROVE t.cells[j] = -1 OBVIOUS
  <2>1. j \in 1 .. r /\ j # to /\ j # from OBVIOUS
  <2> QED BY <1>40, <2>1 DEF Lifted
<1>9. Lifted(t, u, r, z, n, k + 1)
  <2>11. t.cells \in Seq(Int) BY <1>40
  <2>12. Len(t.cells) = r BY <1>40
  <2>13. t.died = 0 BY <1>41
  <2>1. t.cells \in Seq(Int) /\ Len(t.cells) = r /\ t.died = 0 BY <2>11, <2>12, <2>13
  <2> QED BY ONLY <2>1, <1>5, <1>6, <1>7, <1>8, Zenon DEF Lifted
<1> QED BY <1>9 DEF t

\* A gap is made by moving values into empty cells.
LEMMA GapIs ==
  ASSUME RowsAssumption, NEW v, NEW u, Form(vkind, v, u), NEW z \in Nat, NEW n \in Nat \ {0}, Len(u) = z + n,
         \A j \in z + 1 .. z + n : u[j] = 0, NEW i \in 0 .. z
  PROVE  Lifted(Rows!Gap(v, i, n), u, v.room, z, n, z - i)
<1> DEFINE m == z - i
           r == v.room
           to == [k \in 1 .. m |-> z + n + 1 - k]
           from == [k \in 1 .. m |-> z + 1 - k]
<1>0. /\ Rows!SizeOf(v) = Len(u) /\ r \in Nat /\ Len(u) <= r
      /\ v.cells \in Seq(Int) /\ Len(v.cells) = r
      /\ \A j \in 1 .. Len(u) : v.cells[j] = u[j]
      /\ \A j \in Len(u) + 1 .. r : v.cells[j] = -1
  BY FormIs
<1>1. /\ Rows!SizeOf(v) = z + n /\ r \in Nat /\ z + n <= r
      /\ v.cells \in Seq(Int) /\ Len(v.cells) = r
      /\ \A j \in 1 .. z + n : v.cells[j] = u[j]
      /\ \A j \in z + n + 1 .. r : v.cells[j] = -1
  <2> HIDE DEF r
  <2> QED BY <1>0
<1>2. m \in Nat /\ m <= z OBVIOUS
<1>3. Rows!Gap(v, i, n) = Rows!Moving(v, m, to, from)
  <2>1. z + n - n = z OBVIOUS
  <2> QED BY <1>1, <2>1 DEF Rows!Gap
<1>40. PICK R : MovedSo(R, m, v, to, from)
  <2> HIDE DEF m, to, from
  <2> QED BY <1>2, MovingIs
<1>4. /\ R[0] = Rows!Untouched(v)
      /\ \A k \in 0 .. m - 1 : R[k + 1] = Rows!Taken(R[k], to[k + 1], from[k + 1])
      /\ Rows!Moving(v, m, to, from) = R[m]
  <2> HIDE DEF m, to, from
  <2> QED BY <1>40 DEF MovedSo
<1>5. \A k \in 0 .. m - 1 : R[k + 1] = Rows!Taken(R[k], z + n - k, z - k)
  <2> SUFFICES ASSUME NEW k \in 0 .. m - 1 PROVE R[k + 1] = Rows!Taken(R[k], z + n - k, z - k) OBVIOUS
  <2>1. to[k + 1] = z + n - k /\ from[k + 1] = z - k OBVIOUS
  <2> HIDE DEF to, from
  <2> QED BY <1>4, <2>1
<1> DEFINE Good == {k \in Nat : k <= m => Lifted(R[k], u, r, z, n, k)}
<1>6. 0 \in Good
  <2>1. R[0].cells = v.cells /\ R[0].died = 0 BY <1>4 DEF Rows!Untouched
  <2>2. Lifted(R[0], u, r, z, n, 0)
    <3>1. /\ \A j \in 1 .. z - 0 : v.cells[j] = u[j]
          /\ \A j \in z - 0 + 1 .. z - 0 + n : v.cells[j] = 0
          /\ z - 0 + n + 1 > z + n
      BY <1>1
    <3> HIDE DEF r
    <3> QED BY <1>1, <2>1, <3>1 DEF Lifted
  <2> QED BY <2>2
<1>7. ASSUME NEW k \in Nat, k \in Good
      PROVE  k + 1 \in Good
  <2> SUFFICES ASSUME k + 1 <= m PROVE Lifted(R[k + 1], u, r, z, n, k + 1) OBVIOUS
  <2>1. k \in 0 .. m - 1 /\ k \in 0 .. z - 1 /\ Lifted(R[k], u, r, z, n, k) BY <1>2, <1>7
  <2>2. R[k + 1] = Rows!Taken(R[k], z + n - k, z - k) BY <1>5, <2>1
  <2>3. r \in Nat /\ z + n <= r BY <1>1
  <2> HIDE DEF m, r, Good
  <2>4. Lifted(Rows!Taken(R[k], z + n - k, z - k), u, r, z, n, k + 1) BY <2>1, <2>3, LiftedOnce
  <2> QED BY <2>2, <2>4
<1> HIDE DEF Good
<1>8. m \in Good BY <1>2, <1>6, <1>7, Induct
<1> QED BY <1>2, <1>3, <1>4, <1>8 DEF Good

Rewrite(v, c) == [v EXCEPT !.cells = c]

LEMMA RewriteForm ==
  ASSUME RowsAssumption, NEW v, NEW s, Form(vkind, v, s), NEW t \in Seq(Rows!Given), Len(t) = Len(s),
         NEW c \in Seq(Int), Len(c) = v.room,
         \A i \in 1 .. Len(s) : c[i] = t[i],
         \A i \in Len(s) + 1 .. v.room : c[i] = -1
  PROVE  Form(vkind, Rewrite(v, c), t)
BY Rewritten DEF Rewrite

\* s with n copies of x behind its first i values.
WithCopies(s, i, n, x) == SubSeq(s, 1, i) \o Rows!Copies(n, x) \o SubSeq(s, i + 1, Len(s))

HasCopies(t, s, i, n, x) ==
  /\ t \in Seq(Rows!Given) /\ Len(t) = Len(s) + n
  /\ \A j \in 1 .. i : t[j] = s[j]
  /\ \A j \in i + 1 .. i + n : t[j] = x
  /\ \A j \in i + n + 1 .. Len(s) + n : t[j] = s[j - n]
  /\ Rows!OwnedIn(t) = Rows!OwnedIn(s) + n * Rows!OwnedIn(<<x>>)

LEMMA WithCopiesIs ==
  ASSUME RowsAssumption, NEW s \in Seq(Rows!Given), NEW i \in 0 .. Len(s), NEW n \in Nat, NEW x \in Rows!Given
  PROVE  HasCopies(WithCopies(s, i, n, x), s, i, n, x)
<1> DEFINE G == Rows!Given
           a == SubSeq(s, 1, i)
           b == Rows!Copies(n, x)
           c == SubSeq(s, i + 1, Len(s))
<1>1. a \in Seq(G) /\ Len(a) = i /\ \A j \in 1 .. i : a[j] = s[j] OBVIOUS
<1>2. c \in Seq(G) /\ Len(c) = Len(s) - i /\ \A j \in 1 .. Len(s) - i : c[j] = s[i + j] OBVIOUS
<1>3. b \in Seq(G) /\ Len(b) = n /\ \A j \in 1 .. n : b[j] = x
  <2>1. x \in Int /\ n \in Int /\ ~(n < 0) BY RowsTypes
  <2>2. b \in Seq({x}) /\ Len(b) = n /\ \A j \in 1 .. n : b[j] = x
    <3>1. b \in Seq({x}) /\ (Len(b) = IF n < 0 THEN 0 ELSE n) /\ \A j \in 1 .. n : b[j] = x BY <2>1, CopiesAre
    <3> HIDE DEF b
    <3> QED BY <2>1, <3>1
  <2> HIDE DEF b
  <2> QED BY <2>2
<1>4. Rows!OwnedIn(s) = Rows!OwnedIn(a) + Rows!OwnedIn(c) BY OwnedSplit
<1>5. Rows!OwnedIn(b) = n * Rows!OwnedIn(<<x>>) BY OwnedCopies
<1>6. WithCopies(s, i, n, x) = a \o b \o c BY DEF WithCopies
<1> HIDE DEF a, b, c, G
<1>7. a \o b \in Seq(G) /\ Len(a \o b) = i + n
      /\ (\A j \in 1 .. i : (a \o b)[j] = s[j]) /\ \A j \in i + 1 .. i + n : (a \o b)[j] = x
  <2>1. /\ a \o b \in Seq(G) /\ Len(a \o b) = Len(a) + Len(b)
        /\ \A j \in 1 .. Len(a) : (a \o b)[j] = a[j]
        /\ \A j \in 1 .. Len(b) : (a \o b)[Len(a) + j] = b[j]
    <3>1. a \in Seq(G) /\ b \in Seq(G) BY <1>1, <1>3
    <3> QED BY ONLY <3>1, ConcatIs
  <2> DEFINE d == a \o b
  <2>2. d \in Seq(G) /\ Len(d) = i + n
    <3> HIDE DEF d
    <3> QED BY <1>1, <1>3, <2>1 DEF d
  <2>3. ASSUME NEW j \in 1 .. i PROVE d[j] = s[j]
    <3> HIDE DEF d
    <3> QED BY <1>1, <2>1, <2>3 DEF d
  <2>4. ASSUME NEW j \in i + 1 .. i + n PROVE d[j] = x
    <3>1. j - i \in 1 .. n /\ Len(a) + (j - i) = j BY <1>1, <2>4
    <3>2. d[Len(a) + (j - i)] = b[j - i] BY <1>3, <2>1, <3>1
    <3> HIDE DEF d
    <3> QED BY <1>3, <3>1, <3>2
  <2> QED BY <2>2, <2>3, <2>4
<1>8. Rows!OwnedIn(a \o b) = Rows!OwnedIn(a) + Rows!OwnedIn(b) BY <1>1, <1>3, OwnedConcat
<1> DEFINE d == a \o b
<1>9. Rows!OwnedIn(d \o c) = Rows!OwnedIn(d) + Rows!OwnedIn(c)
  <2>1. d \in Seq(G) BY <1>7
  <2> HIDE DEF d
  <2> QED BY <1>2, <2>1, OwnedConcat
<1>10. /\ d \o c \in Seq(G) /\ Len(d \o c) = Len(s) + n
       /\ \A j \in 1 .. i : (d \o c)[j] = s[j]
       /\ \A j \in i + 1 .. i + n : (d \o c)[j] = x
       /\ \A j \in i + n + 1 .. Len(s) + n : (d \o c)[j] = s[j - n]
  <2>1. d \in Seq(G) /\ Len(d) = i + n /\ (\A j \in 1 .. i : d[j] = s[j]) /\ \A j \in i + 1 .. i + n : d[j] = x
    BY <1>7
  <2> HIDE DEF d
  <2>2. d \o c \in Seq(G) /\ Len(d \o c) = Len(s) + n
    <3>1. d \o c \in Seq(G) BY <1>2, <2>1
    <3>2. Len(d \o c) = Len(d) + Len(c)
      <4>1. d \in Seq(G) /\ c \in Seq(G) BY <1>2, <2>1
      <4> QED BY ONLY <4>1
    <3>3. Len(s) \in Nat /\ Len(d) = i + n /\ Len(c) = Len(s) - i BY <1>2, <2>1
    <3> QED BY <3>1, <3>2, <3>3
  <2>3. \A j \in 1 .. i + n : (d \o c)[j] = d[j] BY <1>2, <2>1
  <2>4. ASSUME NEW j \in i + n + 1 .. Len(s) + n PROVE (d \o c)[j] = s[j - n]
    <3>1. (d \o c)[j] = c[j - (i + n)] BY <1>2, <2>1
    <3>2. j - (i + n) \in 1 .. Len(s) - i /\ i + (j - (i + n)) = j - n OBVIOUS
    <3> QED BY <1>2, <3>1, <3>2
  <2> QED BY <2>1, <2>2, <2>3, <2>4
<1>11. Rows!OwnedIn(a) \in Nat /\ Rows!OwnedIn(b) \in Nat /\ Rows!OwnedIn(c) \in Nat
  BY <1>1, <1>2, <1>3, OwnedType
<1>12. Rows!OwnedIn(d \o c) = Rows!OwnedIn(s) + n * Rows!OwnedIn(<<x>>) BY <1>4, <1>5, <1>8, <1>9, <1>11
<1> DEFINE e == d \o c
<1>13. e = WithCopies(s, i, n, x) BY <1>6
<1>14. HasCopies(e, s, i, n, x)
  <2> HIDE DEF d
  <2> QED BY <1>10, <1>12 DEF HasCopies, G
<1> HIDE DEF e
<1> QED BY <1>13, <1>14

FilledSo(f, c, r, i, n, x) ==
  /\ f.cells \in Seq(Int) /\ Len(f.cells) = r /\ f.died = 0
  /\ \A j \in 1 .. r : f.cells[j] = IF j \in i + 1 .. i + n THEN x ELSE c[j]

LEMMA FillingIs ==
  ASSUME NEW acc, NEW r \in Nat, acc.cells \in Seq(Int), Len(acc.cells) = r, acc.died = 0, NEW x \in Int,
         NEW i \in Nat, NEW n \in Nat, i + n <= r, 0 \notin Cells,
         \A j \in i + 1 .. i + n : acc.cells[j] = 0
  PROVE  FilledSo(Rows!Filling(acc, i, n, x), acc.cells, r, i, n, x)
<1> DEFINE c == acc.cells
           d == [j \in 1 .. r |-> IF j \in i + 1 .. i + n THEN x ELSE c[j]]
           b == SubSeq(c, i + 1, i + n)
           f == Rows!Filling(acc, i, n, x)
<1>1. DOMAIN acc.cells = 1 .. r /\ \A j \in 1 .. r : acc.cells[j] \in Int OBVIOUS
<1>2. f.cells = d /\ f.died = acc.died + Rows!OwnedIn(b) BY <1>1 DEF Rows!Filling
<1>3. d \in Seq(Int) /\ Len(d) = r
  <2>1. d \in [1 .. r -> Int] BY <1>1
  <2> HIDE DEF d
  <2> QED BY <2>1, FunctionSeq
<1>4. Rows!OwnedIn(b) = 0
  <2>1. c \in Seq(Int) /\ Len(c) = r /\ \A j \in i + 1 .. i + n : c[j] = 0 OBVIOUS
  <2> HIDE DEF c
  <2>2. b \in Seq(Int) /\ Len(b) = n BY <2>1
  <2>3. ASSUME NEW j \in 1 .. Len(b) PROVE b[j] \notin Cells
    <3>1. b[j] = c[i + j] /\ i + j \in i + 1 .. i + n BY <2>1, <2>2
    <3> QED BY <2>1, <3>1
  <2> HIDE DEF b
  <2> QED BY <2>2, <2>3, OwnedNone
<1>5. \A j \in 1 .. r : d[j] = IF j \in i + 1 .. i + n THEN x ELSE acc.cells[j] OBVIOUS
<1> HIDE DEF d, f, b
<1>6. f.died = 0 BY <1>2, <1>4
<1>7. FilledSo(f, acc.cells, r, i, n, x) BY <1>2, <1>3, <1>5, <1>6 DEF FilledSo
<1> QED BY <1>7 DEF f

LEMMA InsertedForm ==
  ASSUME RowsAssumption, NEW v, NEW s, Form(vkind, v, s), NEW n \in Nat \ {0}, NEW i \in 0 .. Len(s),
         NEW x \in Rows!Given, vkind = "vec" => Len(s) + n <= MaxLen,
         NEW w, w = Rows!Sized(v, Len(s) + n), NEW acc, acc = Rows!Filling(Rows!Gap(w, i, n), i, n, x)
  PROVE  Form(vkind, Rewrite(w, acc.cells), WithCopies(s, i, n, x)) /\ acc.died = 0
<1> DEFINE z == Len(s)
           u == Rows!Fitted(s, z + n)
           g == Rows!Gap(w, i, n)
           r == w.room
           t == WithCopies(s, i, n, x)
<1>1. s \in Seq(Rows!Given) /\ z \in Nat
  <2>1. s \in Seq(Rows!Given) BY FormIs
  <2> QED BY <2>1
<1>2. u \in Seq(Rows!Given) /\ Len(u) = z + n /\ \A j \in 1 .. z + n : u[j] = IF j <= z THEN s[j] ELSE 0
  <2> DEFINE q == z + n
  <2>1. q \in Nat BY <1>1
  <2> HIDE DEF q
  <2>2. /\ Rows!Fitted(s, q) \in Seq(Rows!Given) /\ Len(Rows!Fitted(s, q)) = q
        /\ \A j \in 1 .. q : Rows!Fitted(s, q)[j] = IF j <= Len(s) THEN s[j] ELSE 0
    BY <1>1, <2>1, FittedIs
  <2> QED BY <2>2 DEF q
<1>3. Form(vkind, w, u) BY <1>1, SizedForm
<1>4. r \in Nat /\ z + n <= r
  <2>1. w.room \in Nat /\ Len(u) <= w.room BY <1>3, FormIs
  <2> QED BY <1>2, <2>1
<1>5. Lifted(g, u, r, z, n, z - i)
  <2>1. \A j \in z + 1 .. z + n : u[j] = 0 BY <1>1, <1>2
  <2> HIDE DEF u, z
  <2>2. i \in 0 .. z BY DEF z
  <2> QED BY <1>1, <1>2, <1>3, <2>1, <2>2, GapIs
<1> HIDE DEF g, t
<1>6. /\ g.cells \in Seq(Int) /\ Len(g.cells) = r
      /\ \A j \in 1 .. i : g.cells[j] = u[j]
      /\ \A j \in i + 1 .. i + n : g.cells[j] = 0
      /\ \A j \in i + n + 1 .. z + n : g.cells[j] = u[j - n]
      /\ \A j \in z + n + 1 .. r : g.cells[j] = -1
  <2>1. z - (z - i) = i BY <1>1
  <2> HIDE DEF u, z, r
  <2> QED BY <1>5, <2>1 DEF Lifted
<1>61. /\ \A j \in 1 .. i : g.cells[j] = s[j]
       /\ \A j \in i + n + 1 .. z + n : g.cells[j] = s[j - n]
  <2>1. ASSUME NEW j \in 1 .. i PROVE g.cells[j] = s[j]
    <3>1. j \in 1 .. z + n /\ j <= z BY <1>1
    <3> HIDE DEF r, z, u
    <3> QED BY <1>2, <1>6, <3>1
  <2>2. ASSUME NEW j \in i + n + 1 .. z + n PROVE g.cells[j] = s[j - n]
    <3>1. j - n \in 1 .. z + n /\ j - n <= z BY <1>1
    <3> HIDE DEF r, z, u
    <3> QED BY <1>2, <1>6, <3>1
  <2> QED BY <2>1, <2>2
<1>7. g.died = 0
  <2> HIDE DEF u, z, r
  <2> QED BY <1>5 DEF Lifted
<1>8. x \in Int /\ 0 \notin Cells BY RowsTypes
<1>9. /\ acc.cells \in Seq(Int) /\ Len(acc.cells) = r /\ acc.died = 0
      /\ \A j \in 1 .. r : acc.cells[j] = IF j \in i + 1 .. i + n THEN x ELSE g.cells[j]
  <2>1. i \in Nat /\ n \in Nat /\ i + n <= r BY <1>1, <1>4
  <2>2. acc = Rows!Filling(g, i, n, x) BY DEF g
  <2> DEFINE c == g.cells
  <2>3. FilledSo(acc, g.cells, r, i, n, x)
    <3> HIDE DEF r
    <3> QED BY <1>4, <1>6, <1>7, <1>8, <2>1, <2>2, FillingIs
  <2> HIDE DEF r
  <2> QED BY <2>3 DEF FilledSo
<1>10. /\ t \in Seq(Rows!Given) /\ Len(t) = z + n
       /\ \A j \in 1 .. i : t[j] = s[j]
       /\ \A j \in i + 1 .. i + n : t[j] = x
       /\ \A j \in i + n + 1 .. z + n : t[j] = s[j - n]
  <2>1. HasCopies(t, s, i, n, x) BY <1>1, WithCopiesIs DEF t
  <2> QED BY <2>1 DEF HasCopies
<1>11. ASSUME NEW j \in 1 .. z + n PROVE acc.cells[j] = t[j]
  <2>0. j \in 1 .. r BY <1>1, <1>4
  <2>1. CASE j <= i
    <3>1. j \in 1 .. i /\ j \notin i + 1 .. i + n BY <1>1, <2>1
    <3> HIDE DEF r, z, u
    <3> QED BY <1>61, <1>9, <1>10, <2>0, <3>1
  <2>2. CASE j \in i + 1 .. i + n
    <3> HIDE DEF r, z, u
    <3> QED BY <1>9, <1>10, <2>0, <2>2
  <2>3. CASE ~(j <= i) /\ j \notin i + 1 .. i + n
    <3>1. j \in i + n + 1 .. z + n BY <1>1, <2>3
    <3> HIDE DEF r, z, u
    <3> QED BY <1>61, <1>9, <1>10, <2>0, <2>3, <3>1
  <2> QED BY <2>1, <2>2, <2>3
<1>12. ASSUME NEW j \in z + n + 1 .. r PROVE acc.cells[j] = -1
  <2>1. j \in 1 .. r /\ j \notin i + 1 .. i + n BY <1>1, <1>4
  <2> HIDE DEF r, z, u
  <2> QED BY <1>6, <1>9, <2>1
<1>13. Form(vkind, Rewrite(w, acc.cells), t)
  <2> DEFINE c == acc.cells
  <2>1. /\ c \in Seq(Int) /\ Len(c) = w.room
        /\ \A j \in 1 .. Len(u) : c[j] = t[j]
        /\ \A j \in Len(u) + 1 .. w.room : c[j] = -1
        /\ Len(t) = Len(u) /\ t \in Seq(Rows!Given)
    <3> HIDE DEF u, z
    <3> QED BY <1>2, <1>9, <1>10, <1>11, <1>12 DEF r
  <2> HIDE DEF c, u
  <2>2. Form(vkind, Rewrite(w, c), t) BY <1>3, <2>1, RewriteForm
  <2> QED BY <2>2 DEF c
<1> QED BY <1>9, <1>13 DEF t

LEMMA OwnedCells ==
  ASSUME RowsAssumption, NEW v, NEW s, Form(vkind, v, s)
  PROVE  Rows!OwnedIn(v.cells) = Rows!OwnedIn(s)
<1> DEFINE c == v.cells
           z == Len(s)
           d == SubSeq(c, z + 1, Len(c))
<1>1. /\ s \in Seq(Rows!Given) /\ z \in Nat /\ c \in Seq(Int) /\ z <= Len(c) /\ Len(c) \in Nat
      /\ \A j \in 1 .. z : c[j] = s[j]
      /\ \A j \in z + 1 .. Len(c) : c[j] = -1
  <2>1. /\ s \in Seq(Rows!Given) /\ v.room \in Nat /\ v.cells \in Seq(Int) /\ Len(s) <= v.room /\ Len(v.cells) = v.room
        /\ \A j \in 1 .. Len(s) : v.cells[j] = s[j]
        /\ \A j \in Len(s) + 1 .. v.room : v.cells[j] = -1
    BY FormIs
  <2> QED BY <2>1
<1>2. Rows!OwnedIn(c) = Rows!OwnedIn(SubSeq(c, 1, z)) + Rows!OwnedIn(d)
  <2> HIDE DEF c, z
  <2>1. z \in 0 .. Len(c) BY <1>1
  <2> QED BY <1>1, <2>1, OwnedSplit DEF d
<1>3. SubSeq(c, 1, z) = s
  <2> HIDE DEF c
  <2>1. SubSeq(c, 1, z) \in Seq(Int) /\ Len(SubSeq(c, 1, z)) = z /\ \A j \in 1 .. z : SubSeq(c, 1, z)[j] = s[j]
    BY <1>1
  <2> QED BY <1>1, <2>1, SameSeq
<1>4. Rows!OwnedIn(d) = 0
  <2> HIDE DEF c, z
  <2>1. d \in Seq(Int) /\ Len(d) = Len(c) - z BY <1>1
  <2>2. ASSUME NEW j \in 1 .. Len(d) PROVE d[j] \notin Cells
    <3>1. d[j] = c[z + j] /\ z + j \in z + 1 .. Len(c) BY <1>1, <2>1
    <3>2. -1 \notin Cells BY RowsTypes
    <3> QED BY <1>1, <3>1, <3>2
  <2> HIDE DEF d
  <2> QED BY <2>1, <2>2, OwnedNone
<1>5. Rows!OwnedIn(s) \in Nat BY <1>1, OwnedType
<1> HIDE DEF d, z, c
<1>6. Rows!OwnedIn(SubSeq(c, 1, z)) = Rows!OwnedIn(s) BY <1>3
<1>7. Rows!OwnedIn(c) = Rows!OwnedIn(s) BY <1>2, <1>4, <1>5, <1>6
<1> QED BY <1>7 DEF c

\* Where the values of s stand when k of them have been moved down by n; those that are counted.
RowShifted(acc, s, r, i, n, k) ==
  /\ acc.cells \in Seq(Int) /\ Len(acc.cells) = r /\ acc.died \in Nat
  /\ \A j \in 1 .. Len(s) : acc.cells[j] \in Rows!Given
  /\ \A j \in Len(s) + 1 .. r : acc.cells[j] = -1
  /\ \A j \in 1 .. i : acc.cells[j] = s[j]
  /\ \A j \in i + 1 .. i + k : acc.cells[j] = s[j + n]
  /\ \A j \in i + n + k + 1 .. Len(s) : acc.cells[j] = s[j]
  /\ Rows!OwnedIn(acc.cells) + acc.died = Rows!OwnedIn(s)

LEMMA ShiftedOnce ==
  ASSUME RowsAssumption, NEW acc, NEW s \in Seq(Rows!Given), NEW r \in Nat, Len(s) <= r, NEW i \in Nat, NEW n \in Nat \ {0},
         NEW k \in Nat, i + n + k + 1 <= Len(s), RowShifted(acc, s, r, i, n, k)
  PROVE  RowShifted(Rows!Taken(acc, i + (k + 1), i + (k + 1) + n), s, r, i, n, k + 1)
<1> DEFINE to == i + (k + 1)
           from == i + (k + 1) + n
           t == Rows!Taken(acc, to, from)
           z == Len(s)
<1>0. z \in Nat OBVIOUS
<1>1. to \in 1 .. r /\ from \in 1 .. r /\ to # from /\ to \in 1 .. z /\ from \in 1 .. z BY <1>0
<1>2. acc.cells \in Seq(Int) /\ Len(acc.cells) = r /\ acc.died \in Nat BY DEF RowShifted
<1>20. acc.cells[from] = s[from] /\ acc.cells[from] \in Rows!Given
  <2>1. from \in i + n + k + 1 .. z BY <1>0, <1>1
  <2> QED BY <1>1, <2>1 DEF RowShifted
<1>3. 0 \notin Cells /\ 0 \in Rows!Given BY RowsTypes
<1>4. OneMove(acc, t, r, to, from)
  <2> HIDE DEF to, from
  <2> QED BY <1>1, <1>2, <1>3, ValueTaken
<1> HIDE DEF t
<1>5. t.cells \in Seq(Int) /\ Len(t.cells) = r /\ t.died \in Nat
  <2> HIDE DEF to, from
  <2> QED BY <1>4 DEF OneMove
<1>6. /\ t.cells[to] = acc.cells[from] /\ t.cells[from] = 0
      /\ \A j \in 1 .. r : j # to /\ j # from => t.cells[j] = acc.cells[j]
  <2> HIDE DEF to, from
  <2> QED BY <1>4 DEF OneMove
<1>7. Rows!OwnedIn(t.cells) + t.died = Rows!OwnedIn(s)
  <2> HIDE DEF to, from
  <2> QED BY <1>4 DEF OneMove, RowShifted
<1>8. ASSUME NEW j \in 1 .. z PROVE t.cells[j] \in Rows!Given
  <2>1. acc.cells[j] \in Rows!Given /\ j \in 1 .. r BY <1>0 DEF RowShifted
  <2> HIDE DEF to, from
  <2> QED BY <1>3, <1>6, <1>20, <2>1
<1>9. ASSUME NEW j \in z + 1 .. r PROVE t.cells[j] = -1
  <2>1. j \in 1 .. r /\ j # to /\ j # from BY <1>0, <1>1
  <2>2. acc.cells[j] = -1 BY DEF RowShifted
  <2> HIDE DEF to, from
  <2> QED BY <1>6, <2>1, <2>2
<1>10. ASSUME NEW j \in 1 .. i PROVE t.cells[j] = s[j]
  <2>1. j \in 1 .. r /\ j # to /\ j # from BY <1>0, <1>1
  <2>2. acc.cells[j] = s[j] BY DEF RowShifted
  <2> HIDE DEF to, from
  <2> QED BY <1>6, <2>1, <2>2
<1>11. ASSUME NEW j \in i + 1 .. i + (k + 1) PROVE t.cells[j] = s[j + n]
  <2>1. CASE j = to
    <3>1. j + n = from BY <2>1
    <3> HIDE DEF to, from
    <3> QED BY <1>6, <1>20, <2>1, <3>1
  <2>2. CASE j # to
    <3>1. j \in 1 .. r /\ j # from /\ j \in i + 1 .. i + k BY <1>0, <1>1, <2>2
    <3>2. acc.cells[j] = s[j + n] BY <3>1 DEF RowShifted
    <3> HIDE DEF to, from
    <3> QED BY <1>6, <2>2, <3>1, <3>2
  <2> QED BY <2>1, <2>2
<1>12. ASSUME NEW j \in i + n + (k + 1) + 1 .. z PROVE t.cells[j] = s[j]
  <2>1. j \in 1 .. r /\ j # to /\ j # from /\ j \in i + n + k + 1 .. z BY <1>0, <1>1
  <2>2. acc.cells[j] = s[j] BY <2>1 DEF RowShifted
  <2> HIDE DEF to, from
  <2> QED BY <1>6, <2>1, <2>2
<1>13. RowShifted(t, s, r, i, n, k + 1) BY ONLY <1>5, <1>7, <1>8, <1>9, <1>10, <1>11, <1>12, Zenon DEF RowShifted
<1> QED BY <1>13 DEF t

LEMMA ClosedIs ==
  ASSUME RowsAssumption, NEW v, NEW s, Form(vkind, v, s), NEW n \in Nat \ {0}, NEW i \in Nat, i + n <= Len(s)
  PROVE  RowShifted(Rows!Closed(v, i, n), s, v.room, i, n, Len(s) - n - i)
<1> DEFINE m == Len(s) - n - i
           r == v.room
           to == [k \in 1 .. m |-> i + k]
           from == [k \in 1 .. m |-> i + k + n]
<1>1. /\ Rows!SizeOf(v) = Len(s) /\ r \in Nat /\ Len(s) <= r /\ s \in Seq(Rows!Given)
      /\ v.cells \in Seq(Int) /\ Len(v.cells) = r
      /\ \A j \in 1 .. Len(s) : v.cells[j] = s[j]
      /\ \A j \in Len(s) + 1 .. r : v.cells[j] = -1
  BY FormIs
<1>2. m \in Nat /\ Len(s) \in Nat
  <2>1. Len(s) \in Nat BY <1>1
  <2> QED BY <2>1
<1>3. Rows!Closed(v, i, n) = Rows!Moving(v, m, to, from) BY <1>1 DEF Rows!Closed
<1>40. PICK R : MovedSo(R, m, v, to, from)
  <2> HIDE DEF m, to, from
  <2> QED BY <1>2, MovingIs
<1>4. /\ R[0] = Rows!Untouched(v)
      /\ \A k \in 0 .. m - 1 : R[k + 1] = Rows!Taken(R[k], to[k + 1], from[k + 1])
      /\ Rows!Moving(v, m, to, from) = R[m]
  <2> HIDE DEF m, to, from
  <2> QED BY <1>40 DEF MovedSo
<1>5. \A k \in 0 .. m - 1 : R[k + 1] = Rows!Taken(R[k], i + (k + 1), i + (k + 1) + n)
  <2> SUFFICES ASSUME NEW k \in 0 .. m - 1 PROVE R[k + 1] = Rows!Taken(R[k], i + (k + 1), i + (k + 1) + n) OBVIOUS
  <2>0. k + 1 \in 1 .. m BY <1>2
  <2>1. to[k + 1] = i + (k + 1) /\ from[k + 1] = i + (k + 1) + n BY <2>0
  <2> HIDE DEF to, from
  <2> QED BY <1>4, <2>1
<1> HIDE DEF to, from
<1> DEFINE Good == {k \in Nat : k <= m => RowShifted(R[k], s, r, i, n, k)}
<1>6. 0 \in Good
  <2>1. R[0].cells = v.cells /\ R[0].died = 0 BY <1>4 DEF Rows!Untouched
  <2>2. Rows!OwnedIn(v.cells) = Rows!OwnedIn(s) /\ Rows!OwnedIn(s) \in Nat BY <1>1, OwnedCells, OwnedType
  <2>3. /\ \A j \in 1 .. i : v.cells[j] = s[j]
        /\ \A j \in i + n + 0 + 1 .. Len(s) : v.cells[j] = s[j]
        /\ ~(i + 1 <= i + 0)
    BY <1>1, <1>2
  <2>4. \A j \in 1 .. Len(s) : v.cells[j] \in Rows!Given BY <1>1
  <2>5. \A j \in i + 1 .. i + 0 : R[0].cells[j] = s[j + n] OBVIOUS
  <2> HIDE DEF m, r
  <2>6. Rows!OwnedIn(R[0].cells) + R[0].died = Rows!OwnedIn(s) BY <2>1, <2>2
  <2>7. RowShifted(R[0], s, r, i, n, 0) BY <1>1, <2>1, <2>3, <2>4, <2>5, <2>6 DEF RowShifted
  <2> QED BY <2>7
<1>7. ASSUME NEW k \in Nat, k \in Good
      PROVE  k + 1 \in Good
  <2> SUFFICES ASSUME k + 1 <= m PROVE RowShifted(R[k + 1], s, r, i, n, k + 1) OBVIOUS
  <2>1. k \in 0 .. m - 1 /\ RowShifted(R[k], s, r, i, n, k) /\ i + n + k + 1 <= Len(s) BY <1>2, <1>7
  <2>2. R[k + 1] = Rows!Taken(R[k], i + (k + 1), i + (k + 1) + n) BY <1>5, <2>1
  <2> HIDE DEF m, r, Good
  <2>4. RowShifted(Rows!Taken(R[k], i + (k + 1), i + (k + 1) + n), s, r, i, n, k + 1) BY <1>1, <2>1, ShiftedOnce
  <2> QED BY <2>2, <2>4
<1> HIDE DEF Good
<1>8. m \in Good BY <1>2, <1>6, <1>7, Induct
<1>9. RowShifted(R[m], s, r, i, n, m)
  <2> HIDE DEF m
  <2> QED BY <1>2, <1>8 DEF Good
<1> QED BY <1>3, <1>4, <1>9

\* s without the n values behind its first i.
RowWithout(s, i, n) == SubSeq(s, 1, i) \o SubSeq(s, i + n + 1, Len(s))

LEMMA WithoutIs ==
  ASSUME NEW S, NEW s \in Seq(S), NEW n \in Nat, NEW i \in Nat, i + n <= Len(s)
  PROVE  /\ RowWithout(s, i, n) \in Seq(S) /\ Len(RowWithout(s, i, n)) = Len(s) - n
         /\ \A j \in 1 .. Len(s) - n : RowWithout(s, i, n)[j] = IF j <= i THEN s[j] ELSE s[j + n]
<1> DEFINE a == SubSeq(s, 1, i)
           b == SubSeq(s, i + n + 1, Len(s))
<1>1. a \in Seq(S) /\ Len(a) = i /\ \A j \in 1 .. i : a[j] = s[j] OBVIOUS
<1>2. b \in Seq(S) /\ Len(b) = Len(s) - n - i /\ \A j \in 1 .. Len(s) - n - i : b[j] = s[i + n + j] OBVIOUS
<1> HIDE DEF a, b
<1>3. a \o b \in Seq(S) /\ Len(a \o b) = Len(a) + Len(b)
  <2>1. a \in Seq(S) /\ b \in Seq(S) BY <1>1, <1>2
  <2> QED BY ONLY <2>1
<1>4. Len(a \o b) = Len(s) - n BY <1>1, <1>2, <1>3
<1>5. ASSUME NEW j \in 1 .. Len(s) - n PROVE (a \o b)[j] = IF j <= i THEN s[j] ELSE s[j + n]
  <2>1. CASE j <= i BY <1>1, <1>2, <2>1
  <2>2. CASE ~(j <= i)
    <3>1. j - i \in 1 .. Len(s) - n - i /\ i + n + (j - i) = j + n BY <2>2
    <3>2. (a \o b)[Len(a) + (j - i)] = b[j - i] BY <1>1, <1>2, <3>1, ConcatIs
    <3>3. Len(a) + (j - i) = j BY <1>1, <2>2
    <3> QED BY <1>2, <2>2, <3>1, <3>2, <3>3
  <2> QED BY <2>1, <2>2
<1> QED BY <1>3, <1>4, <1>5 DEF RowWithout, a, b

LEMMA ErasedForm ==
  ASSUME RowsAssumption, NEW v, NEW s, Form(vkind, v, s), NEW n \in Nat \ {0}, NEW i \in Nat, i + n <= Len(s),
         NEW acc, acc = Rows!Closed(v, i, n), NEW w, w = Rewrite(v, acc.cells)
  PROVE  /\ Form(vkind, Rows!Sized(w, Len(s) - n), RowWithout(s, i, n))
         /\ acc.died + Rows!Dropped(w, Len(s) - n) \in Nat
         /\ Rows!OwnedIn(RowWithout(s, i, n)) = Rows!OwnedIn(s) - (acc.died + Rows!Dropped(w, Len(s) - n))
<1> DEFINE z == Len(s)
           r == v.room
           c == acc.cells
           t == SubSeq(c, 1, z)
           q == z - n
<1>1. s \in Seq(Rows!Given) /\ r \in Nat /\ z <= r /\ (vkind = "vec" => z <= MaxLen) BY FormIs
<1>2. z \in Nat /\ q \in Nat /\ q <= z /\ (vkind = "vec" => q <= MaxLen)
  <2>1. z \in Nat BY <1>1
  <2>2. MaxLen \in Nat BY RowsTypes
  <2> HIDE DEF z
  <2> QED BY <1>1, <2>1, <2>2 DEF z
<1>3. RowShifted(acc, s, r, i, n, z - n - i) BY ClosedIs
<1>4. /\ c \in Seq(Int) /\ Len(c) = r /\ acc.died \in Nat
      /\ \A j \in 1 .. z : c[j] \in Rows!Given
      /\ \A j \in z + 1 .. r : c[j] = -1
  BY <1>3 DEF RowShifted
<1>5. /\ \A j \in 1 .. i : c[j] = s[j]
      /\ \A j \in i + 1 .. q : c[j] = s[j + n]
  <2>1. i + (z - n - i) = q BY <1>2
  <2>2. /\ \A j \in 1 .. i : acc.cells[j] = s[j]
        /\ \A j \in i + 1 .. i + (z - n - i) : acc.cells[j] = s[j + n]
    BY <1>3 DEF RowShifted
  <2> HIDE DEF q, z
  <2> QED BY <2>1, <2>2
<1>6. Rows!OwnedIn(c) + acc.died = Rows!OwnedIn(s) BY <1>3 DEF RowShifted
<1>7. t \in Seq(Rows!Given) /\ Len(t) = z /\ \A j \in 1 .. z : t[j] = c[j]
  <2> HIDE DEF c, z
  <2>1. t \in Seq(Int) /\ Len(t) = z /\ \A j \in 1 .. z : t[j] = c[j] BY <1>1, <1>2, <1>4
  <2>2. t = [j \in 1 .. z |-> t[j]] BY <2>1
  <2>3. t \in [1 .. z -> Rows!Given] BY <1>4, <2>1, <2>2
  <2> HIDE DEF t
  <2>4. t \in Seq(Rows!Given) BY <1>2, <2>3, FunctionSeq
  <2> QED BY <2>1, <2>4
<1> HIDE DEF t
<1>8. Form(vkind, w, t)
  <2>1. Len(t) = Len(s) /\ Len(c) = v.room /\ c \in Seq(Int) BY <1>4, <1>7
  <2>2. \A j \in 1 .. Len(s) : c[j] = t[j] BY <1>7
  <2>3. \A j \in Len(s) + 1 .. v.room : c[j] = -1 BY <1>4
  <2> HIDE DEF c
  <2>4. Form(vkind, Rewrite(v, c), t) BY <1>7, <2>1, <2>2, <2>3, RewriteForm
  <2> QED BY <2>4 DEF c
<1>9. Form(vkind, Rows!Sized(w, q), Rows!Fitted(t, q))
  <2> HIDE DEF q
  <2> QED BY <1>2, <1>8, SizedForm
<1>10. Rows!Fitted(t, q) = RowWithout(s, i, n)
  <2>1. /\ RowWithout(s, i, n) \in Seq(Rows!Given) /\ Len(RowWithout(s, i, n)) = q
        /\ \A j \in 1 .. q : RowWithout(s, i, n)[j] = IF j <= i THEN s[j] ELSE s[j + n]
    BY <1>1, WithoutIs
  <2> HIDE DEF q, c
  <2>2. /\ Rows!Fitted(t, q) \in Seq(Rows!Given) /\ Len(Rows!Fitted(t, q)) = q
        /\ \A j \in 1 .. q : Rows!Fitted(t, q)[j] = IF j <= Len(t) THEN t[j] ELSE 0
    BY <1>2, <1>7, FittedIs
  <2>3. \A j \in 1 .. q : Rows!Fitted(t, q)[j] = RowWithout(s, i, n)[j]
    <3> SUFFICES ASSUME NEW j \in 1 .. q PROVE Rows!Fitted(t, q)[j] = RowWithout(s, i, n)[j] OBVIOUS
    <3>1. j <= Len(t) /\ j \in 1 .. z /\ (j \in 1 .. i \/ j \in i + 1 .. q) BY <1>2, <1>7
    <3>2. Rows!Fitted(t, q)[j] = c[j] BY <1>7, <2>2, <3>1
    <3>3. RowWithout(s, i, n)[j] = IF j <= i THEN s[j] ELSE s[j + n] BY <2>1
    <3>4. CASE j \in 1 .. i BY <1>5, <3>2, <3>3, <3>4
    <3>5. CASE j \in i + 1 .. q BY <1>5, <3>2, <3>3, <3>5
    <3> QED BY <3>1, <3>4, <3>5
  <2> DEFINE a == Rows!Fitted(t, q)
             b == RowWithout(s, i, n)
  <2>4. a \in Seq(Rows!Given) /\ b \in Seq(Rows!Given) /\ Len(a) = Len(b) /\ \A j \in 1 .. Len(a) : a[j] = b[j]
    BY <2>1, <2>2, <2>3
  <2> HIDE DEF a, b
  <2>5. a = b BY <2>4, SameSeq
  <2> QED BY <2>5 DEF a, b
<1>11. Rows!OwnedIn(t) + acc.died = Rows!OwnedIn(s)
  <2> DEFINE w1 == w.cells
  <2>1. Rows!OwnedIn(w.cells) = Rows!OwnedIn(t) BY <1>8, OwnedCells
  <2>2. w.cells = c
    <3>1. \E h, rr, cc, m, e : v = Box(h, rr, cc, m, e) BY FormIs, StackIs DEF Box, InHeap
    <3>2. PICK h, rr, cc, m, e : v = Box(h, rr, cc, m, e) BY <3>1
    <3>3. w = Box(h, rr, cc, m, c)
      <4> HIDE DEF c
      <4>1. [v EXCEPT !.cells = c] = Box(h, rr, cc, m, c) BY <3>2, BoxCells
      <4> QED BY <4>1 DEF Rewrite, c
    <3> QED BY <3>3 DEF Box
  <2> QED BY <1>6, <2>1, <2>2
<1>12. /\ Rows!Dropped(w, q) = Rows!OwnedIn(SubSeq(t, q + 1, Len(t))) /\ Rows!Dropped(w, q) \in Nat
  <2> HIDE DEF q
  <2> QED BY <1>2, <1>8, DroppedIs
<1>13. Rows!OwnedIn(Rows!Fitted(t, q)) = Rows!OwnedIn(t) - Rows!OwnedIn(SubSeq(t, q + 1, Len(t)))
  <2> HIDE DEF q, c
  <2> QED BY <1>2, <1>7, OwnedFitted
<1>14. Rows!OwnedIn(t) \in Nat /\ acc.died \in Nat /\ Rows!OwnedIn(s) \in Nat BY <1>1, <1>4, <1>7, OwnedType
<1> HIDE DEF c, z
<1>15. Rows!OwnedIn(Rows!Fitted(t, q)) = Rows!OwnedIn(s) - (acc.died + Rows!Dropped(w, q))
  <2> HIDE DEF q
  <2> QED BY <1>11, <1>12, <1>13, <1>14
<1> QED BY <1>9, <1>10, <1>12, <1>14, <1>15 DEF q, z

LEMMA OverwrittenForm ==
  ASSUME RowsAssumption, NEW v, NEW s, Form(vkind, v, s), NEW x \in Rows!Given
  PROVE  Form(vkind, Rows!Overwritten(v, x), Rows!Copies(Len(s), x))
<1> DEFINE z == Len(s)
           r == v.room
           c == [j \in 1 .. r |-> IF j <= z THEN x ELSE v.cells[j]]
           t == Rows!Copies(z, x)
<1>1. /\ Rows!SizeOf(v) = z /\ r \in Nat /\ z <= r /\ s \in Seq(Rows!Given)
      /\ v.cells \in Seq(Int) /\ Len(v.cells) = r
      /\ \A j \in z + 1 .. r : v.cells[j] = -1
  BY FormIs
<1>2. z \in Nat /\ x \in Int
  <2>1. x \in Int BY RowsTypes
  <2> QED BY <1>1, <2>1
<1>3. c \in Seq(Int) /\ Len(c) = r
  <2>1. DOMAIN v.cells = 1 .. r /\ \A j \in 1 .. r : v.cells[j] \in Int BY <1>1
  <2> HIDE DEF r, z
  <2>2. c \in [1 .. r -> Int] BY <1>2, <2>1
  <2> HIDE DEF c
  <2> QED BY <1>1, <2>2, FunctionSeq
<1>4. t \in Seq(Rows!Given) /\ Len(t) = z /\ \A j \in 1 .. z : t[j] = x
  <2>1. z \in Int /\ ~(z < 0) BY <1>2
  <2> HIDE DEF z
  <2>2. t \in Seq({x}) /\ (Len(t) = IF z < 0 THEN 0 ELSE z) /\ \A j \in 1 .. z : t[j] = x BY <1>2, <2>1, CopiesAre
  <2> HIDE DEF t
  <2> QED BY <2>1, <2>2
<1>5. Rows!Overwritten(v, x) = Rewrite(v, c)
  <2>1. DOMAIN v.cells = 1 .. r BY <1>1
  <2>2. Rows!Overwritten(v, x) = [v EXCEPT !.cells = [j \in DOMAIN v.cells |-> IF j <= Rows!SizeOf(v) THEN x ELSE v.cells[j]]]
    BY DEF Rows!Overwritten
  <2>3. [j \in DOMAIN v.cells |-> IF j <= Rows!SizeOf(v) THEN x ELSE v.cells[j]] = c BY <1>1, <2>1
  <2> HIDE DEF c
  <2> QED BY <2>2, <2>3 DEF Rewrite
<1>6. \A j \in 1 .. z : c[j] = t[j]
  <2> SUFFICES ASSUME NEW j \in 1 .. z PROVE c[j] = t[j] OBVIOUS
  <2>1. j \in 1 .. r /\ j <= z BY <1>1, <1>2
  <2> HIDE DEF t, r, z
  <2> QED BY <1>4, <2>1
<1>7. \A j \in z + 1 .. r : c[j] = -1
  <2> SUFFICES ASSUME NEW j \in z + 1 .. r PROVE c[j] = -1 OBVIOUS
  <2>1. j \in 1 .. r /\ ~(j <= z) BY <1>1, <1>2
  <2> HIDE DEF r, z
  <2> QED BY <1>1, <2>1
<1>8. Form(vkind, Rewrite(v, c), t)
  <2>1. Len(t) = Len(s) /\ Len(c) = v.room /\ t \in Seq(Rows!Given) /\ c \in Seq(Int) BY <1>3, <1>4
  <2>2. (\A j \in 1 .. Len(s) : c[j] = t[j]) /\ \A j \in Len(s) + 1 .. v.room : c[j] = -1 BY <1>6, <1>7
  <2> HIDE DEF c, t, r, z
  <2> QED BY <2>1, <2>2, RewriteForm
<1> HIDE DEF c
<1> QED BY <1>5, <1>8

LEMMA ResizedWithForm ==
  ASSUME RowsAssumption, NEW v, NEW s, Form(vkind, v, s), NEW x \in Rows!Given, NEW n \in Nat, vkind = "vec" => n <= MaxLen,
         NEW r, r = Rows!Sized(v, n),
         NEW c, c = [j \in DOMAIN r.cells |-> IF Rows!SizeOf(v) < j /\ j <= n THEN x ELSE r.cells[j]]
  PROVE  Form(vkind, Rewrite(r, c), Padded(s, n, x))
<1> DEFINE z == Len(s)
           u == Rows!Fitted(s, n)
           t == Padded(s, n, x)
<1>1. Rows!SizeOf(v) = z /\ s \in Seq(Rows!Given) /\ z \in Nat
  <2>1. Rows!SizeOf(v) = z /\ s \in Seq(Rows!Given) BY FormIs
  <2> QED BY <2>1
<1>2. /\ u \in Seq(Rows!Given) /\ Len(u) = n
      /\ \A j \in 1 .. n : u[j] = IF j <= z THEN s[j] ELSE 0
  BY <1>1, FittedIs
<1>3. Form(vkind, r, u) BY SizedForm
<1> HIDE DEF u
<1>4. /\ r.room \in Nat /\ Len(u) <= r.room /\ r.cells \in Seq(Int) /\ Len(r.cells) = r.room
      /\ \A j \in 1 .. Len(u) : r.cells[j] = u[j]
      /\ \A j \in Len(u) + 1 .. r.room : r.cells[j] = -1
  BY <1>3, FormIs
<1>5. /\ t \in Seq(Rows!Given) /\ Len(t) = n
      /\ \A j \in 1 .. n : t[j] = IF j <= z THEN s[j] ELSE x
  BY <1>1, PaddedIs
<1> HIDE DEF t
<1>6. DOMAIN r.cells = 1 .. r.room /\ \A j \in 1 .. r.room : r.cells[j] \in Int BY <1>4
<1>7. x \in Int BY RowsTypes
<1>8. c = [j \in 1 .. r.room |-> IF z < j /\ j <= n THEN x ELSE r.cells[j]]
  <2> HIDE DEF z
  <2> QED BY <1>1, <1>6
<1>9. c \in Seq(Int) /\ Len(c) = r.room /\ \A j \in 1 .. r.room : c[j] = IF z < j /\ j <= n THEN x ELSE r.cells[j]
  <2> HIDE DEF z
  <2>1. c \in [1 .. r.room -> Int] BY <1>6, <1>7, <1>8
  <2>2. c \in Seq(Int) /\ Len(c) = r.room BY <1>4, <2>1, FunctionSeq
  <2> QED BY <1>8, <2>2
<1>10. \A j \in 1 .. n : c[j] = t[j]
  <2> SUFFICES ASSUME NEW j \in 1 .. n PROVE c[j] = t[j] OBVIOUS
  <2>1. j \in 1 .. r.room /\ j \in 1 .. Len(u) /\ j <= n BY <1>2, <1>4
  <2>2. CASE j <= z
    <3>1. ~(z < j) BY <1>1, <2>2
    <3>2. c[j] = r.cells[j] BY <1>9, <2>1, <3>1
    <3>3. r.cells[j] = u[j] BY <1>4, <2>1
    <3>4. u[j] = s[j] /\ t[j] = s[j] BY <1>2, <1>5, <2>2
    <3> QED BY <3>2, <3>3, <3>4
  <2>3. CASE ~(j <= z)
    <3>1. z < j BY <1>1, <2>3
    <3>2. c[j] = x /\ t[j] = x BY <1>5, <1>9, <2>1, <2>3, <3>1
    <3> QED BY <3>2
  <2> QED BY <2>2, <2>3
<1>11. \A j \in Len(u) + 1 .. r.room : c[j] = -1
  <2> SUFFICES ASSUME NEW j \in Len(u) + 1 .. r.room PROVE c[j] = -1 OBVIOUS
  <2>1. j \in 1 .. r.room /\ ~(j <= n) /\ r.cells[j] = -1 BY <1>2, <1>4
  <2> HIDE DEF z
  <2> QED BY <1>9, <2>1
<1>12. Form(vkind, Rewrite(r, c), t)
  <2>1. Len(t) = Len(u) /\ \A j \in 1 .. Len(u) : c[j] = t[j] BY <1>2, <1>5, <1>10
  <2> QED BY <1>3, <1>5, <1>9, <1>11, <2>1, RewriteForm
<1> QED BY <1>12 DEF t

RowClones(f, s) == [k \in 0 .. Len(s) |-> IF k = 0 THEN Rows!Empty ELSE Rows!Pushed(f[k - 1], s[k])]

LEMMA Clones1 ==
  ASSUME NEW s \in Seq(Rows!Given)
  PROVE  \E f : f = RowClones(f, s)
<1> DEFINE Run(f, w) == [k \in 0 .. w |-> IF k = 0 THEN Rows!Empty ELSE Rows!Pushed(f[k - 1], s[k])]
           Some == {w \in Nat : \E f : f = Run(f, w)}
<1>1. 0 \in Some
  <2> DEFINE g == [k \in 0 .. 0 |-> Rows!Empty]
  <2>1. g = Run(g, 0) OBVIOUS
  <2> HIDE DEF g
  <2> QED BY <2>1
<1>2. ASSUME NEW w \in Nat, w \in Some
      PROVE  w + 1 \in Some
  <2>1. PICK f : f = Run(f, w) BY <1>2
  <2> DEFINE last == Rows!Pushed(f[w], s[w + 1])
             g == [k \in 0 .. w + 1 |-> IF k = w + 1 THEN last ELSE f[k]]
  <2>2. \A k \in 0 .. w : f[k] = IF k = 0 THEN Rows!Empty ELSE Rows!Pushed(f[k - 1], s[k]) BY <2>1
  <2>3. \A k \in 0 .. w + 1 : g[k] = IF k = 0 THEN Rows!Empty ELSE Rows!Pushed(g[k - 1], s[k]) BY <2>2
  <2>4. g = Run(g, w + 1)
    <3>1. g = [k \in 0 .. w + 1 |-> g[k]] OBVIOUS
    <3> HIDE DEF g
    <3> QED BY <2>3, <3>1
  <2>5. \E h : h = Run(h, w + 1)
    <3> HIDE DEF g
    <3> QED BY <2>4
  <2> HIDE DEF Run
  <2> QED BY <2>5
<1> HIDE DEF Some
<1>3. Len(s) \in Some
  <2>1. Len(s) \in Nat OBVIOUS
  <2> QED BY <1>1, <1>2, <2>1, Induct
<1> QED BY <1>3 DEF Some, RowClones

LEMMA ClonedForm ==
  ASSUME RowsAssumption, NEW s \in Seq(Rows!Given), vkind = "vec" => Len(s) <= MaxLen
  PROVE  Form(vkind, Rows!Cloned(s), s)
<1> DEFINE R == CHOOSE f : f = RowClones(f, s)
           z == Len(s)
<1>1. R = RowClones(R, s) BY Clones1
<1>2. Rows!Cloned(s) = R[Len(s)] BY DEF Rows!Cloned, RowClones
<1> HIDE DEF R
<1>3. \A k \in 0 .. Len(s) : R[k] = IF k = 0 THEN Rows!Empty ELSE Rows!Pushed(R[k - 1], s[k])
  BY <1>1 DEF RowClones
<1> DEFINE Good == {k \in Nat : k <= z => Form(vkind, R[k], SubSeq(s, 1, k))}
<1>4. z \in Nat /\ MaxLen \in Nat BY RowsTypes
<1>5. 0 \in Good
  <2>1. SubSeq(s, 1, 0) = <<>> /\ 0 \in 0 .. Len(s) BY <1>4
  <2>2. R[0] = Rows!Empty BY <1>3, <2>1
  <2> QED BY <2>1, <2>2, EmptyForm
<1>6. ASSUME NEW k \in Nat, k \in Good
      PROVE  k + 1 \in Good
  <2> SUFFICES ASSUME k + 1 <= z PROVE Form(vkind, R[k + 1], SubSeq(s, 1, k + 1)) OBVIOUS
  <2> DEFINE a == SubSeq(s, 1, k)
  <2>1. Form(vkind, R[k], a) BY <1>4, <1>6
  <2>2. a \in Seq(Rows!Given) /\ Len(a) = k /\ \A j \in 1 .. k : a[j] = s[j] BY <1>4
  <2>3. R[k + 1] = Rows!Pushed(R[k], s[k + 1])
    <3>1. k + 1 \in 0 .. Len(s) /\ k + 1 # 0 /\ k + 1 - 1 = k BY <1>4
    <3> QED BY <1>3, <3>1
  <2>4. s[k + 1] \in Rows!Given /\ (vkind = "vec" => Len(a) < MaxLen) BY <1>4, <2>2
  <2>5. Append(a, s[k + 1]) = SubSeq(s, 1, k + 1)
    <3> DEFINE p == Append(a, s[k + 1])
               q == SubSeq(s, 1, k + 1)
    <3> HIDE DEF a
    <3>1. p \in Seq(Rows!Given) /\ Len(p) = k + 1 /\ \A j \in 1 .. k + 1 : p[j] = s[j] BY <2>2, <2>4
    <3>2. q \in Seq(Rows!Given) /\ Len(q) = k + 1 /\ \A j \in 1 .. k + 1 : q[j] = s[j] BY <1>4
    <3> HIDE DEF p, q
    <3>3. p = q BY <3>1, <3>2, SameSeq
    <3> QED BY <3>3 DEF p, q
  <2> HIDE DEF a
  <2>6. Form(vkind, Rows!Pushed(R[k], s[k + 1]), Append(a, s[k + 1])) BY <2>1, <2>4, PushedForm
  <2> QED BY <2>3, <2>5, <2>6
<1> HIDE DEF Good
<1>7. z \in Good BY <1>4, <1>5, <1>6, Induct
<1>8. Form(vkind, R[z], SubSeq(s, 1, z))
  <2> HIDE DEF z
  <2> QED BY <1>4, <1>7 DEF Good
<1>9. SubSeq(s, 1, z) = s OBVIOUS
<1> QED BY <1>2, <1>8, <1>9

\* shrink_to_fit
RowShrunk(v) ==
  LET n == Rows!SizeOf(v) IN
  CASE v.heap /\ n <= Inline /\ vkind = "vec" -> Rows!Resized(v, n)
    [] v.heap /\ n < v.cap /\ (vkind = "vec" => n > Inline) -> Rows!Heap(n, Rows!Content(v))
    [] OTHER -> v

LEMMA ShrunkForm ==
  ASSUME RowsAssumption, NEW v, NEW s, Form(vkind, v, s)
  PROVE  Form(vkind, RowShrunk(v), s)
<1>1. /\ Rows!SizeOf(v) = Len(s) /\ Rows!Content(v) = s /\ s \in Seq(Rows!Given)
      /\ (vkind = "vec" => Len(s) <= MaxLen) /\ v.cap = v.room /\ v.room \in Nat
      /\ (vkind = "vec" => v.room < CapLimit)
  BY FormIs
<1>2. Len(s) \in Nat /\ Inline \in Nat /\ CapLimit \in Nat BY <1>1, RowsTypes
<1>3. CASE v.heap /\ Len(s) <= Inline /\ vkind = "vec"
  <2>1. RowShrunk(v) = Rows!Sized(v, Len(s))
    <3>1. ~(Len(s) > Inline) BY <1>2, <1>3
    <3>2. RowShrunk(v) = Rows!Resized(v, Len(s)) BY <1>1, <1>3, <3>1 DEF RowShrunk
    <3> QED BY <1>3, <3>2 DEF Rows!Sized
  <2>2. Form(vkind, Rows!Sized(v, Len(s)), Rows!Fitted(s, Len(s))) BY <1>1, <1>2, SizedForm
  <2>3. Rows!Fitted(s, Len(s)) = s BY <1>1, FittedSame
  <2> QED BY <2>1, <2>2, <2>3
<1>4. CASE ~(v.heap /\ Len(s) <= Inline /\ vkind = "vec") /\ v.heap /\ Len(s) < v.cap /\ (vkind = "vec" => Len(s) > Inline)
  <2>1. RowShrunk(v) = Rows!Heap(Len(s), s) BY <1>1, <1>4 DEF RowShrunk
  <2>2. vkind = "vec" => Inline < Len(s) /\ Len(s) < CapLimit BY <1>1, <1>2, <1>4
  <2>3. Form(vkind, Rows!Heap(Len(s), s), s) BY <1>1, <1>2, <2>2, HeapForm
  <2> QED BY <2>1, <2>3
<1>5. CASE ~(v.heap /\ Len(s) <= Inline /\ vkind = "vec") /\ ~(v.heap /\ Len(s) < v.cap /\ (vkind = "vec" => Len(s) > Inline))
  <2>1. RowShrunk(v) = v BY <1>1, <1>5 DEF RowShrunk
  <2> QED BY <2>1
<1> QED BY <1>3, <1>4, <1>5

-----------------------------------------------------------------------------
(* All the containers *)

\* Where values that own memory are, when the containers hold the rows c.
Alive(c) == UNION {{p} \X Rows!OwnedAt(c[p]) : p \in Vecs}

LEMMA AliveAt ==
  ASSUME NEW c, NEW x
  PROVE  x \in Alive(c) <=> \E p \in Vecs : \E i \in Rows!OwnedAt(c[p]) : x = <<p, i>>
<1>1. ASSUME x \in Alive(c) PROVE \E p \in Vecs : \E i \in Rows!OwnedAt(c[p]) : x = <<p, i>> BY <1>1 DEF Alive
<1>2. ASSUME NEW p \in Vecs, NEW i \in Rows!OwnedAt(c[p]), x = <<p, i>> PROVE x \in Alive(c)
  <2>1. x \in {p} \X Rows!OwnedAt(c[p]) BY <1>2
  <2> QED BY <2>1 DEF Alive
<1> QED BY <1>1, <1>2

LEMMA Column ==
  ASSUME NEW p, NEW B, IsFiniteSet(B)
  PROVE  IsFiniteSet({p} \X B) /\ Cardinality({p} \X B) = Cardinality(B)
<1> DEFINE f == [i \in B |-> <<p, i>>]
<1>1. f \in Bijection(B, {p} \X B)
  <2>1. f \in [B -> {p} \X B] OBVIOUS
  <2>2. \A a, b \in B : f[a] = f[b] => a = b OBVIOUS
  <2>3. \A y \in {p} \X B : \E a \in B : f[a] = y OBVIOUS
  <2> HIDE DEF f
  <2> QED BY <2>1, <2>2, <2>3 DEF Bijection, Injection, Surjection, IsInjective
<1> HIDE DEF f
<1> QED BY <1>1, FS_Bijection DEF ExistsBijection

\* The container o gets the row t.
LEMMA AliveChanges ==
  ASSUME NEW c, c = [p \in Vecs |-> c[p]], IsFiniteSet(Alive(c)), NEW o \in Vecs,
         NEW S, c[o] \in Seq(S), NEW T, NEW t \in Seq(T)
  PROVE  /\ IsFiniteSet(Alive(RowWritten(c, o, t)))
         /\ Cardinality(Alive(RowWritten(c, o, t))) = Cardinality(Alive(c)) - Rows!OwnedIn(c[o]) + Rows!OwnedIn(t)
<1> DEFINE d == RowWritten(c, o, t)
           others == {x \in Alive(c) : x[1] # o}
           before == {o} \X Rows!OwnedAt(c[o])
           after == {o} \X Rows!OwnedAt(t)
<1>0. d[o] = t /\ (\A p \in Vecs : p # o => d[p] = c[p]) BY DEF RowWritten
<1> HIDE DEF d
<1>1. Alive(c) = others \cup before
  <2>1. ASSUME NEW x \in Alive(c) PROVE x \in others \cup before
    <3>1. PICK p \in Vecs : \E i \in Rows!OwnedAt(c[p]) : x = <<p, i>> BY AliveAt
    <3> QED BY <3>1
  <2>2. ASSUME NEW x \in before PROVE x \in Alive(c)
    <3>1. PICK i \in Rows!OwnedAt(c[o]) : x = <<o, i>> BY <2>2
    <3> QED BY <3>1, AliveAt
  <2> HIDE DEF before
  <2> QED BY <2>1, <2>2
<1>2. Alive(d) = others \cup after
  <2>1. ASSUME NEW x \in Alive(d) PROVE x \in others \cup after
    <3>1. PICK p \in Vecs : \E i \in Rows!OwnedAt(d[p]) : x = <<p, i>> BY AliveAt
    <3>2. CASE p = o BY <1>0, <3>1, <3>2
    <3>3. CASE p # o
      <4>1. x \in Alive(c) /\ x[1] = p BY <1>0, <3>1, <3>3, AliveAt
      <4> QED BY <3>3, <4>1
    <3> QED BY <3>2, <3>3
  <2>2. ASSUME NEW x \in after PROVE x \in Alive(d)
    <3>1. PICK i \in Rows!OwnedAt(t) : x = <<o, i>> BY <2>2
    <3> QED BY <1>0, <3>1, AliveAt
  <2>3. ASSUME NEW x \in others PROVE x \in Alive(d)
    <3>1. PICK p \in Vecs : \E i \in Rows!OwnedAt(c[p]) : x = <<p, i>> BY AliveAt
    <3>2. p # o BY <3>1
    <3> QED BY <1>0, <3>1, <3>2, AliveAt
  <2> HIDE DEF after, others
  <2> QED BY <2>1, <2>2, <2>3
<1>3. others \cap before = {} /\ others \cap after = {} OBVIOUS
<1>4. /\ IsFiniteSet(before) /\ Cardinality(before) = Rows!OwnedIn(c[o])
      /\ IsFiniteSet(after) /\ Cardinality(after) = Rows!OwnedIn(t)
  <2>1. /\ IsFiniteSet(Rows!OwnedAt(c[o])) /\ Rows!OwnedIn(c[o]) = Cardinality(Rows!OwnedAt(c[o]))
        /\ IsFiniteSet(Rows!OwnedAt(t)) /\ Rows!OwnedIn(t) = Cardinality(Rows!OwnedAt(t))
    BY OwnedType
  <2> QED BY <2>1, Column
<1>5. IsFiniteSet(others)
  <2>1. others \in SUBSET Alive(c) OBVIOUS
  <2> QED BY <2>1, FS_Subset
<1> HIDE DEF others, before, after
<1>6. Cardinality(others) \in Nat /\ Cardinality(before) \in Nat /\ Cardinality(after) \in Nat
  BY <1>4, <1>5, FS_CardinalityType
<1>7. Cardinality(Alive(c)) = Cardinality(others) + Cardinality(before)
  <2>1. Cardinality(others \cup before) = Cardinality(others) + Cardinality(before) - Cardinality(others \cap before)
    BY <1>4, <1>5, FS_Union
  <2>2. Cardinality(others \cap before) = 0 BY <1>3, FS_EmptySet
  <2>3. Cardinality(Alive(c)) = Cardinality(others \cup before) BY <1>1
  <2> QED BY ONLY <1>6, <2>1, <2>2, <2>3
<1>8. IsFiniteSet(Alive(d)) /\ Cardinality(Alive(d)) = Cardinality(others) + Cardinality(after)
  <2>1. /\ IsFiniteSet(others \cup after)
        /\ Cardinality(others \cup after) = Cardinality(others) + Cardinality(after) - Cardinality(others \cap after)
    BY <1>4, <1>5, FS_Union
  <2>2. Cardinality(others \cap after) = 0 BY <1>3, FS_EmptySet
  <2> QED BY <1>2, <1>6, <2>1, <2>2
<1> QED BY <1>4, <1>6, <1>7, <1>8 DEF d

\* The containers f hold the rows c, with w values that own memory.
Holding(k, f, w, c) ==
  /\ f = [o \in Vecs |-> f[o]] /\ c = [o \in Vecs |-> c[o]]
  /\ \A o \in Vecs : Form(k, f[o], c[o])
  /\ IsFiniteSet(Alive(c)) /\ w = Cardinality(Alive(c))

LEMMA HoldingChanges ==
  ASSUME RowsAssumption, NEW f, NEW w, NEW c, Holding(vkind, f, w, c), NEW o \in Vecs, NEW v, NEW t, Form(vkind, v, t)
  PROVE  Holding(vkind, RowWritten(f, o, v), w - Rows!OwnedIn(c[o]) + Rows!OwnedIn(t), RowWritten(c, o, t))
<1>1. /\ f = [p \in Vecs |-> f[p]] /\ c = [p \in Vecs |-> c[p]]
      /\ \A p \in Vecs : Form(vkind, f[p], c[p])
      /\ IsFiniteSet(Alive(c)) /\ w = Cardinality(Alive(c))
  BY DEF Holding
<1>2. c[o] \in Seq(Rows!Given) /\ t \in Seq(Rows!Given) BY <1>1, FormIs
<1>3. /\ IsFiniteSet(Alive(RowWritten(c, o, t)))
      /\ Cardinality(Alive(RowWritten(c, o, t))) = w - Rows!OwnedIn(c[o]) + Rows!OwnedIn(t)
  BY <1>1, <1>2, AliveChanges
<1> DEFINE g == RowWritten(f, o, v)
           d == RowWritten(c, o, t)
<1>4. g = [p \in Vecs |-> g[p]] /\ d = [p \in Vecs |-> d[p]] BY <1>1 DEF RowWritten
<1>5. g[o] = v /\ d[o] = t /\ \A p \in Vecs : p # o => g[p] = f[p] /\ d[p] = c[p] BY <1>1 DEF RowWritten
<1> HIDE DEF g, d
<1>6. \A p \in Vecs : Form(vkind, g[p], d[p]) BY <1>1, <1>5
<1> QED BY <1>3, <1>4, <1>6 DEF Holding, g, d

\* The containers are what their contents and buffers say, and the count of the values is right.
RowsInv == vkind \in VecKinds /\ good \in BOOLEAN /\ \E c : Holding(vkind, vecs, owned, c)

LEMMA RowOf ==
  ASSUME RowsAssumption, RowsInv, NEW o \in Vecs
  PROVE  /\ Form(vkind, vecs[o], Rows!Content(vecs[o])) /\ Rows!SizeOf(vecs[o]) = Len(Rows!Content(vecs[o]))
         /\ Rows!Content(vecs[o]) \in Seq(Rows!Given) /\ (vkind = "vec" => Len(Rows!Content(vecs[o])) <= MaxLen)
         /\ Rows!OwnedIn(Rows!Content(vecs[o])) \in Nat
<1>1. PICK c : Holding(vkind, vecs, owned, c) BY DEF RowsInv
<1>2. Form(vkind, vecs[o], c[o]) BY <1>1 DEF Holding
<1>3. /\ c[o] \in Seq(Rows!Given) /\ (vkind = "vec" => Len(c[o]) <= MaxLen)
      /\ Rows!SizeOf(vecs[o]) = Len(c[o]) /\ Rows!Content(vecs[o]) = c[o]
  BY <1>2, FormIs
<1>4. Rows!OwnedIn(c[o]) \in Nat BY <1>3, OwnedType
<1> QED BY <1>2, <1>3, <1>4

LEMMA OwnedIsNat ==
  ASSUME RowsInv
  PROVE  owned \in Nat
<1>1. PICK c : Holding(vkind, vecs, owned, c) BY DEF RowsInv
<1> QED BY <1>1, FS_CardinalityType DEF Holding

\* One container changes, or two.
LEMMA ContentLater ==
  ASSUME vkind' = vkind, NEW o \in Vecs, NEW v, vecs'[o] = v
  PROVE  Rows!Content(vecs[o])' = Rows!Content(v)
BY DEF Rows!Content, Rows!SizeOf

\* A call that succeeded made t of the content of o, and left the others.
Turned(o, t) ==
  /\ good' = TRUE /\ Rows!Content(vecs[o])' = t
  /\ \A p \in Vecs \ {o} : Rows!Content(vecs[p])' = Rows!Content(vecs[p])

\* The same for two containers.
TurnedBoth(o, p, s, t) ==
  /\ good' = TRUE /\ Rows!Content(vecs[o])' = s /\ Rows!Content(vecs[p])' = t
  /\ \A q \in Vecs \ {o, p} : Rows!Content(vecs[q])' = Rows!Content(vecs[q])

LEMMA BecomesHolds ==
  ASSUME RowsAssumption, RowsInv, NEW o \in Vecs, NEW v, NEW born \in Nat, NEW died \in Nat, Rows!Becomes(o, v, born, died),
         NEW t, Form(vkind, v, t), Rows!OwnedIn(t) = Rows!OwnedIn(Rows!Content(vecs[o])) + born - died
  PROVE  RowsInv' /\ Turned(o, t)
<1>1. PICK c : Holding(vkind, vecs, owned, c) BY DEF RowsInv
<1>2. Form(vkind, vecs[o], c[o]) BY <1>1 DEF Holding
<1>3. Rows!Content(vecs[o]) = c[o] BY <1>2, FormIs
<1>4. vecs' = RowWritten(vecs, o, v) /\ owned' = owned + born - died /\ good' = TRUE /\ vkind' = vkind
  BY DEF Rows!Becomes, RowWritten
<1>5. Holding(vkind, RowWritten(vecs, o, v), owned - Rows!OwnedIn(c[o]) + Rows!OwnedIn(t), RowWritten(c, o, t))
  BY <1>1, HoldingChanges
<1>6. owned - Rows!OwnedIn(c[o]) + Rows!OwnedIn(t) = owned + born - died
  <2>1. Rows!OwnedIn(c[o]) \in Nat /\ owned \in Nat BY <1>3, RowOf, OwnedIsNat
  <2>2. Rows!OwnedIn(t) = Rows!OwnedIn(c[o]) + born - died BY <1>3
  <2> QED BY <2>1, <2>2
<1>7. Holding(vkind', vecs', owned', RowWritten(c, o, t)) BY <1>4, <1>5, <1>6
<1>8. vkind' \in VecKinds /\ good' \in BOOLEAN BY <1>4 DEF RowsInv
<1>9. Rows!Content(vecs[o])' = t
  <2>1. vecs'[o] = v BY <1>1, <1>4 DEF Holding, RowWritten
  <2>2. Rows!Content(v) = t BY FormIs
  <2> QED BY <1>4, <2>1, <2>2, ContentLater
<1>10. ASSUME NEW p \in Vecs \ {o} PROVE Rows!Content(vecs[p])' = Rows!Content(vecs[p])
  <2>1. vecs'[p] = vecs[p] BY <1>1, <1>4 DEF Holding, RowWritten
  <2> QED BY <1>4, <2>1, ContentLater
<1> QED BY <1>4, <1>7, <1>8, <1>9, <1>10 DEF RowsInv, Turned

LEMMA BothHold ==
  ASSUME RowsAssumption, RowsInv, NEW o \in Vecs, NEW p \in Vecs, o # p, NEW v, NEW w, NEW s, NEW t,
         Form(vkind, v, s), Form(vkind, w, t), vecs' = [vecs EXCEPT ![o] = v, ![p] = w],
         owned' = owned - Rows!OwnedIn(Rows!Content(vecs[o])) + Rows!OwnedIn(s)
                        - Rows!OwnedIn(Rows!Content(vecs[p])) + Rows!OwnedIn(t),
         good' = TRUE, vkind' = vkind
  PROVE  RowsInv' /\ TurnedBoth(o, p, s, t)
<1>1. PICK c : Holding(vkind, vecs, owned, c) BY DEF RowsInv
<1>2. Form(vkind, vecs[o], c[o]) /\ Form(vkind, vecs[p], c[p]) BY <1>1 DEF Holding
<1>3. Rows!Content(vecs[o]) = c[o] /\ Rows!Content(vecs[p]) = c[p] BY <1>2, FormIs
<1> DEFINE f == RowWritten(vecs, o, v)
           d == RowWritten(c, o, s)
           m == owned - Rows!OwnedIn(c[o]) + Rows!OwnedIn(s)
<1>4. Holding(vkind, f, m, d) BY <1>1, HoldingChanges
<1>5. d[p] = c[p] BY <1>1 DEF Holding, RowWritten
<1>6. vecs' = RowWritten(f, p, w) BY <1>1 DEF Holding, RowWritten
<1> HIDE DEF f, d
<1>8. owned' = m - Rows!OwnedIn(d[p]) + Rows!OwnedIn(t)
  <2>1. m - Rows!OwnedIn(d[p]) + Rows!OwnedIn(t) = m - Rows!OwnedIn(Rows!Content(vecs[p])) + Rows!OwnedIn(t)
    BY <1>3, <1>5
  <2>2. m = owned - Rows!OwnedIn(Rows!Content(vecs[o])) + Rows!OwnedIn(s) BY <1>3
  <2>3. owned \in Nat /\ Rows!OwnedIn(Rows!Content(vecs[o])) \in Nat /\ Rows!OwnedIn(Rows!Content(vecs[p])) \in Nat
    BY RowOf, OwnedIsNat
  <2>4. Rows!OwnedIn(s) \in Nat /\ Rows!OwnedIn(t) \in Nat BY FormIs, OwnedType
  <2> HIDE DEF m
  <2>5. owned' = m - Rows!OwnedIn(Rows!Content(vecs[p])) + Rows!OwnedIn(t) BY <2>2, <2>3, <2>4
  <2> QED BY <2>1, <2>5
<1> HIDE DEF m
<1>7. Holding(vkind, RowWritten(f, p, w), m - Rows!OwnedIn(d[p]) + Rows!OwnedIn(t), RowWritten(d, p, t))
  BY <1>4, HoldingChanges
<1>9. Holding(vkind', vecs', owned', RowWritten(d, p, t)) BY <1>6, <1>7, <1>8
<1>10. vkind' \in VecKinds /\ good' \in BOOLEAN BY DEF RowsInv
<1>11. Rows!Content(vecs[o])' = s /\ Rows!Content(vecs[p])' = t
  <2>1. vecs'[o] = v /\ vecs'[p] = w BY <1>1 DEF Holding
  <2>2. Rows!Content(v) = s /\ Rows!Content(w) = t BY FormIs
  <2> QED BY <2>1, <2>2, ContentLater
<1>12. ASSUME NEW q \in Vecs \ {o, p} PROVE Rows!Content(vecs[q])' = Rows!Content(vecs[q])
  <2>1. vecs'[q] = vecs[q] BY <1>1 DEF Holding
  <2> QED BY <2>1, ContentLater
<1> QED BY <1>9, <1>10, <1>11, <1>12 DEF RowsInv, TurnedBoth

LEMMA FailsHolds ==
  ASSUME RowsInv, Rows!Fails
  PROVE  RowsInv'
BY DEF RowsInv, Rows!Fails

LEMMA OwnedAppended ==
  ASSUME RowsAssumption, NEW s \in Seq(Rows!Given), NEW x \in Rows!Given
  PROVE  Rows!OwnedIn(Append(s, x)) = Rows!OwnedIn(s) + Rows!OwnedIn(<<x>>)
<1>1. <<x>> \in Seq(Rows!Given) /\ Append(s, x) = s \o <<x>>
  <2> DEFINE a == Append(s, x)
             b == s \o <<x>>
  <2>1. a \in Seq(Rows!Given) /\ Len(a) = Len(s) + 1 /\ \A j \in 1 .. Len(s) + 1 : a[j] = IF j <= Len(s) THEN s[j] ELSE x
    OBVIOUS
  <2>2. b \in Seq(Rows!Given) /\ Len(b) = Len(s) + 1 /\ \A j \in 1 .. Len(s) + 1 : b[j] = IF j <= Len(s) THEN s[j] ELSE x
    OBVIOUS
  <2> HIDE DEF a, b
  <2>3. a = b BY <2>1, <2>2, SameSeq
  <2> QED BY <2>3 DEF a, b
<1>2. Rows!OwnedIn(s \o <<x>>) = Rows!OwnedIn(s) + Rows!OwnedIn(<<x>>) BY <1>1, OwnedConcat
<1> QED BY <1>1, <1>2

LEMMA OwnedEmpty == Rows!OwnedIn(<<>>) = 0
<1> DEFINE e == <<>>
<1>1. e \in Seq(Int) /\ \A i \in 1 .. Len(e) : e[i] \notin Cells OBVIOUS
<1> HIDE DEF e
<1>2. Rows!OwnedIn(e) = 0 BY <1>1, OwnedNone
<1> QED BY <1>2 DEF e

\* r, which holds the same as a container, takes its place with n values.
LEMMA SizedHolds ==
  ASSUME RowsAssumption, RowsInv, NEW o \in Vecs, NEW n \in Nat, vkind = "vec" => n <= MaxLen,
         NEW r, Form(vkind, r, Rows!Content(vecs[o])), Rows!Becomes(o, Rows!Sized(r, n), 0, Rows!Dropped(vecs[o], n))
  PROVE  RowsInv' /\ Turned(o, Rows!Fitted(Rows!Content(vecs[o]), n))
<1> DEFINE v == vecs[o]
           s == Rows!Content(v)
           w == Rows!Sized(r, n)
           t == Rows!Fitted(s, n)
           died == Rows!Dropped(v, n)
           born == 0
<1>1. Form(vkind, v, s) /\ Form(vkind, r, s) /\ s \in Seq(Rows!Given) /\ Rows!OwnedIn(s) \in Nat BY RowOf
<1>2. Rows!Becomes(o, w, born, died) OBVIOUS
<1>3. died = Rows!OwnedIn(SubSeq(s, n + 1, Len(s))) /\ died \in Nat
  <2> HIDE DEF v, s
  <2> QED BY <1>1, DroppedIs
<1>4. Rows!OwnedIn(t) = Rows!OwnedIn(s) - Rows!OwnedIn(SubSeq(s, n + 1, Len(s)))
  <2> HIDE DEF s
  <2> QED BY <1>1, OwnedFitted
<1>5. Form(vkind, w, t)
  <2> HIDE DEF v, s
  <2> QED BY <1>1, SizedForm
<1>6. born \in Nat /\ Rows!OwnedIn(t) = Rows!OwnedIn(Rows!Content(vecs[o])) + born - died
  <2>1. Rows!OwnedIn(t) = Rows!OwnedIn(s) + 0 - died
    <3> HIDE DEF t, s, died
    <3> QED BY <1>1, <1>3, <1>4
  <2> QED BY <2>1
<1>7. RowsInv' /\ Turned(o, t)
  <2> HIDE DEF w, t, died, born, v, s
  <2> QED BY <1>2, <1>3, <1>5, <1>6, BecomesHolds
<1> QED BY <1>7

LEMMA ResizeHolds ==
  ASSUME RowsAssumption, RowsInv, NEW o \in Vecs, NEW n \in Nat, vkind = "vec" => n <= MaxLen, Rows!Resize(o, n)
  PROVE  RowsInv' /\ Turned(o, Rows!Fitted(Rows!Content(vecs[o]), n))
<1>1. Form(vkind, vecs[o], Rows!Content(vecs[o])) BY RowOf
<1> QED BY <1>1, SizedHolds DEF Rows!Resize

LEMMA SameHolds ==
  ASSUME RowsAssumption, RowsInv, NEW o \in Vecs, NEW v, Form(vkind, v, Rows!Content(vecs[o])), Rows!Becomes(o, v, 0, 0)
  PROVE  RowsInv' /\ Turned(o, Rows!Content(vecs[o]))
<1> DEFINE t == Rows!Content(vecs[o])
           born == 0
<1>1. Rows!OwnedIn(t) \in Nat BY RowOf
<1>2. born \in Nat /\ Rows!OwnedIn(t) = Rows!OwnedIn(Rows!Content(vecs[o])) + born - born
      /\ Form(vkind, v, t) /\ Rows!Becomes(o, v, born, born)
  BY <1>1
<1>3. RowsInv' /\ Turned(o, t)
  <2> HIDE DEF t, born
  <2> QED BY <1>2, BecomesHolds
<1> QED BY <1>3

LEMMA ReserveHolds ==
  ASSUME RowsAssumption, RowsInv, NEW o \in Vecs, NEW n \in Rooms, Rows!Reserve(o, n)
  PROVE  RowsInv' /\ Turned(o, Rows!Content(vecs[o]))
<1> DEFINE v == Rows!Reserved(vecs[o], n)
<1>1. Form(vkind, vecs[o], Rows!Content(vecs[o])) BY RowOf
<1>2. n \in Nat /\ n < CapLimit BY RowsTypes
<1>3. Form(vkind, v, Rows!Content(vecs[o])) BY <1>1, <1>2, ReservedForm
<1>4. Rows!Becomes(o, v, 0, 0) BY DEF Rows!Reserve
<1> HIDE DEF v
<1> QED BY <1>3, <1>4, SameHolds

LEMMA PushHolds ==
  ASSUME RowsAssumption, RowsInv, NEW o \in Vecs, NEW x \in Rows!Given, Rows!PushBack(o, x)
  PROVE  RowsInv' /\ Len(Rows!Content(vecs[o])) < MaxLen /\ Turned(o, Append(Rows!Content(vecs[o]), x))
<1> DEFINE s == Rows!Content(vecs[o])
           v == Rows!Pushed(vecs[o], x)
           t == Append(s, x)
           born == Rows!OwnedIn(<<x>>)
           died == 0
<1>1. Form(vkind, vecs[o], s) /\ s \in Seq(Rows!Given) /\ Rows!OwnedIn(s) \in Nat /\ Rows!SizeOf(vecs[o]) = Len(s)
  BY RowOf
<1>2. Len(s) < MaxLen /\ Rows!Becomes(o, v, born, died) BY <1>1 DEF Rows!PushBack
<1>3. Form(vkind, v, t)
  <2> HIDE DEF s
  <2> QED BY <1>1, <1>2, PushedForm
<1>4. Rows!OwnedIn(t) = Rows!OwnedIn(s) + born
  <2> HIDE DEF s
  <2> QED BY <1>1, OwnedAppended
<1>5. born \in Nat /\ died \in Nat BY OwnedOne
<1>6. Rows!OwnedIn(t) = Rows!OwnedIn(Rows!Content(vecs[o])) + born - died
  <2> HIDE DEF t, born
  <2> QED BY <1>1, <1>4, <1>5
<1>20. RowsInv' /\ Turned(o, t)
  <2> HIDE DEF s, v, t, born, died
  <2> QED BY <1>2, <1>3, <1>5, <1>6, BecomesHolds
<1> QED BY <1>2, <1>20

LEMMA PopHolds ==
  ASSUME RowsAssumption, RowsInv, NEW o \in Vecs, Rows!PopBack(o)
  PROVE  RowsInv' /\ Turned(o, Rows!Fitted(Rows!Content(vecs[o]), Rows!SizeOf(vecs[o]) - 1)) /\ Rows!SizeOf(vecs[o]) > 0
<1> DEFINE n == Rows!SizeOf(vecs[o])
<1>1. n \in Nat /\ (vkind = "vec" => n <= MaxLen) /\ MaxLen \in Nat BY RowOf, RowsTypes
<1>2. n > 0 /\ Rows!Resize(o, n - 1) BY DEF Rows!PopBack, Rows!Resize
<1> DEFINE m == n - 1
<1>3. m \in Nat /\ (vkind = "vec" => m <= MaxLen)
  <2> HIDE DEF n
  <2> QED BY <1>1, <1>2
<1>4. Rows!Resize(o, m) BY <1>2
<1>5. RowsInv' /\ Turned(o, Rows!Fitted(Rows!Content(vecs[o]), m))
  <2> HIDE DEF m
  <2> QED BY <1>3, <1>4, ResizeHolds
<1> QED BY <1>2, <1>5

LEMMA TryResizeHolds ==
  ASSUME RowsAssumption, RowsInv, NEW o \in Vecs, NEW n \in 0 .. MaxLen, Rows!TryResize(o, n)
  PROVE  RowsInv' /\ (Rows!Fails \/ Turned(o, Rows!Fitted(Rows!Content(vecs[o]), n)))
<1>1. CASE Rows!Fails BY <1>1, FailsHolds
<1>2. CASE Rows!Becomes(o, Rows!Sized(Rows!Reserved(vecs[o], n), n), 0, Rows!Dropped(vecs[o], n))
  <2>1. n \in Nat /\ n <= MaxLen /\ n < CapLimit BY RowsTypes
  <2>2. Form(vkind, vecs[o], Rows!Content(vecs[o])) BY RowOf
  <2>3. Form(vkind, Rows!Reserved(vecs[o], n), Rows!Content(vecs[o])) BY <2>1, <2>2, ReservedForm
  <2> QED BY <1>2, <2>1, <2>3, SizedHolds
<1> QED BY <1>1, <1>2 DEF Rows!TryResize

LEMMA ShrinkHolds ==
  ASSUME RowsAssumption, RowsInv, NEW o \in Vecs, Rows!ShrinkToFit(o)
  PROVE  RowsInv' /\ Turned(o, Rows!Content(vecs[o]))
<1>1. Form(vkind, vecs[o], Rows!Content(vecs[o])) BY RowOf
<1>2. Form(vkind, RowShrunk(vecs[o]), Rows!Content(vecs[o])) BY <1>1, ShrunkForm
<1>3. Rows!Becomes(o, RowShrunk(vecs[o]), 0, 0) BY DEF Rows!ShrinkToFit, RowShrunk
<1> QED BY <1>2, <1>3, SameHolds

LEMMA InsertHolds ==
  ASSUME RowsAssumption, RowsInv, NEW o \in Vecs, NEW pos \in Nat, NEW n \in Nat \ {0}, NEW x \in Rows!Given,
         Rows!Insert(o, pos, n, x)
  PROVE  RowsInv' /\ Len(Rows!Content(vecs[o])) + n <= MaxLen /\ \E i \in 0 .. Len(Rows!Content(vecs[o])) : Turned(o, WithCopies(Rows!Content(vecs[o]), i, n, x))
<1> DEFINE s == Rows!Content(vecs[o])
           z == Len(s)
           i == Rows!Min({pos, Rows!SizeOf(vecs[o])})
           w == Rows!Sized(vecs[o], Rows!SizeOf(vecs[o]) + n)
           acc == Rows!Filling(Rows!Gap(w, i, n), i, n, x)
           v == Rewrite(w, acc.cells)
           t == WithCopies(s, i, n, x)
           born == n * Rows!OwnedIn(<<x>>)
           died == 0
<1>1. Form(vkind, vecs[o], s) /\ s \in Seq(Rows!Given) /\ Rows!OwnedIn(s) \in Nat /\ Rows!SizeOf(vecs[o]) = Len(s)
  BY RowOf
<1>2. Rows!SizeOf(vecs[o]) + n <= MaxLen /\ Rows!Becomes(o, v, born, acc.died) BY DEF Rows!Insert, Rewrite
<1>3. i \in 0 .. Len(s)
  <2>1. Len(s) \in Nat BY <1>1
  <2>2. i = IF pos <= Len(s) THEN pos ELSE Len(s)
    <3> HIDE DEF s
    <3> QED BY <1>1, <2>1, RowsMin
  <2> HIDE DEF i, s
  <2> QED BY <2>1, <2>2
<1>4. Form(vkind, v, t) /\ acc.died = 0
  <2>1. w = Rows!Sized(vecs[o], Len(s) + n) /\ Len(s) + n <= MaxLen BY <1>1, <1>2
  <2>2. acc = Rows!Filling(Rows!Gap(w, i, n), i, n, x) OBVIOUS
  <2> HIDE DEF s, i, w, acc
  <2> QED BY <1>1, <1>3, <2>1, <2>2, InsertedForm
<1>5. Rows!OwnedIn(t) = Rows!OwnedIn(s) + born
  <2>1. HasCopies(t, s, i, n, x)
    <3> HIDE DEF s, i
    <3> QED BY <1>1, <1>3, WithCopiesIs
  <2> HIDE DEF t, i, s
  <2> QED BY <2>1 DEF HasCopies
<1>6. born \in Nat /\ died \in Nat
  <2>1. Rows!OwnedIn(<<x>>) \in Nat BY OwnedOne
  <2> QED BY <2>1
<1>7. Rows!Becomes(o, v, born, died)
  <2> HIDE DEF v, born, acc
  <2> QED BY <1>2, <1>4
<1>8. Rows!OwnedIn(t) = Rows!OwnedIn(Rows!Content(vecs[o])) + born - died
  <2>1. Rows!OwnedIn(t) = Rows!OwnedIn(s) + born - 0
    <3> HIDE DEF t, born, s
    <3> QED BY <1>1, <1>5, <1>6
  <2> QED BY <2>1
<1>9. RowsInv' /\ Turned(o, t)
  <2> HIDE DEF s, z, i, w, acc, v, t, born, died
  <2> QED BY <1>4, <1>6, <1>7, <1>8, BecomesHolds
<1>10. Len(s) + n <= MaxLen BY <1>1, <1>2
<1> HIDE DEF i, s
<1> QED BY <1>3, <1>9, <1>10 DEF s

LEMMA EraseHolds ==
  ASSUME RowsAssumption, RowsInv, NEW o \in Vecs, NEW i \in Nat, NEW n \in Nat, Rows!Erase(o, i, n)
  PROVE  RowsInv' /\ n > 0 /\ i + n <= Len(Rows!Content(vecs[o])) /\ Turned(o, RowWithout(Rows!Content(vecs[o]), i, n))
<1> DEFINE s == Rows!Content(vecs[o])
           acc == Rows!Closed(vecs[o], i, n)
           w == Rewrite(vecs[o], acc.cells)
           v == Rows!Sized(w, Rows!SizeOf(vecs[o]) - n)
           t == RowWithout(s, i, n)
           born == 0
           died == acc.died + Rows!Dropped(w, Rows!SizeOf(vecs[o]) - n)
<1>1. Form(vkind, vecs[o], s) /\ s \in Seq(Rows!Given) /\ Rows!OwnedIn(s) \in Nat /\ Rows!SizeOf(vecs[o]) = Len(s)
  BY RowOf
<1>2. n > 0 /\ i + n <= Rows!SizeOf(vecs[o]) /\ Rows!Becomes(o, v, born, died) BY DEF Rows!Erase, Rewrite
<1>3. /\ Form(vkind, Rows!Sized(w, Len(s) - n), t)
      /\ acc.died + Rows!Dropped(w, Len(s) - n) \in Nat
      /\ Rows!OwnedIn(t) = Rows!OwnedIn(s) - (acc.died + Rows!Dropped(w, Len(s) - n))
  <2>1. n \in Nat \ {0} /\ i + n <= Len(s) BY <1>1, <1>2
  <2>2. acc = Rows!Closed(vecs[o], i, n) /\ w = Rewrite(vecs[o], acc.cells) OBVIOUS
  <2> HIDE DEF s, acc, w
  <2> QED BY <1>1, <2>1, <2>2, ErasedForm
<1>4. Form(vkind, v, t) /\ died \in Nat /\ Rows!OwnedIn(t) = Rows!OwnedIn(s) - died
  <2> HIDE DEF s, t, w, acc
  <2> QED BY <1>1, <1>3
<1>5. born \in Nat OBVIOUS
<1>6. Rows!OwnedIn(t) = Rows!OwnedIn(Rows!Content(vecs[o])) + born - died
  <2>1. Rows!OwnedIn(t) = Rows!OwnedIn(s) + 0 - died
    <3> HIDE DEF t, died, s
    <3> QED BY <1>1, <1>4
  <2> QED BY <2>1
<1>7. RowsInv' /\ Turned(o, t)
  <2> HIDE DEF s, acc, w, v, t, born, died
  <2> QED BY <1>2, <1>4, <1>5, <1>6, BecomesHolds
<1> QED BY <1>1, <1>2, <1>7

LEMMA ResizeWithHolds ==
  ASSUME RowsAssumption, RowsInv, NEW o \in Vecs, NEW n \in 0 .. MaxLen, NEW x \in Rows!Given, Rows!ResizeWith(o, n, x)
  PROVE  RowsInv' /\ Turned(o, Padded(Rows!Content(vecs[o]), n, x))
<1> DEFINE s == Rows!Content(vecs[o])
           r == Rows!Sized(vecs[o], n)
           c == [j \in DOMAIN r.cells |-> IF Rows!SizeOf(vecs[o]) < j /\ j <= n THEN x ELSE r.cells[j]]
           v == Rewrite(r, c)
           t == Padded(s, n, x)
           born == (IF n - Rows!SizeOf(vecs[o]) > 0 THEN n - Rows!SizeOf(vecs[o]) ELSE 0) * Rows!OwnedIn(<<x>>)
           died == Rows!Dropped(vecs[o], n)
<1>0. n \in Nat /\ n <= MaxLen BY RowsTypes
<1>1. Form(vkind, vecs[o], s) /\ s \in Seq(Rows!Given) /\ Rows!OwnedIn(s) \in Nat /\ Rows!SizeOf(vecs[o]) = Len(s)
  BY RowOf
<1>2. Rows!Becomes(o, v, born, died) BY DEF Rows!ResizeWith, Rewrite
<1>3. Form(vkind, v, t)
  <2>1. r = Rows!Sized(vecs[o], n) /\ c = [j \in DOMAIN r.cells |-> IF Rows!SizeOf(vecs[o]) < j /\ j <= n THEN x ELSE r.cells[j]]
    OBVIOUS
  <2> HIDE DEF s, r, c
  <2> QED BY <1>0, <1>1, <2>1, ResizedWithForm
<1>4. /\ Rows!Dropped(vecs[o], n) = Rows!OwnedIn(SubSeq(s, n + 1, Len(s)))
      /\ Rows!Dropped(vecs[o], n) \in Nat
  <2> HIDE DEF s
  <2> QED BY <1>0, <1>1, DroppedIs
<1>5. Rows!OwnedIn(t)
           = Rows!OwnedIn(s) + (IF n - Len(s) > 0 THEN n - Len(s) ELSE 0) * Rows!OwnedIn(<<x>>)
             - Rows!OwnedIn(SubSeq(s, n + 1, Len(s)))
  <2> HIDE DEF s
  <2> QED BY <1>0, <1>1, PaddedOwned
<1>6. Rows!OwnedIn(t) = Rows!OwnedIn(s) + born - died
  <2> HIDE DEF t, s
  <2> QED BY <1>1, <1>4, <1>5
<1>7. born \in Nat /\ died \in Nat
  <2>1. Rows!OwnedIn(<<x>>) \in Nat /\ Len(s) \in Nat BY <1>1, OwnedOne
  <2> DEFINE q == IF n - Len(s) > 0 THEN n - Len(s) ELSE 0
  <2>2. q \in Nat
    <3> HIDE DEF s
    <3> QED BY <1>0, <2>1
  <2>3. born = q * Rows!OwnedIn(<<x>>)
    <3> HIDE DEF s
    <3> QED BY <1>1
  <2> HIDE DEF q, born
  <2> QED BY <1>4, <2>1, <2>2, <2>3
<1>8. RowsInv' /\ Turned(o, t)
  <2> HIDE DEF r, c, v, t, born, died
  <2> QED BY <1>2, <1>3, <1>6, <1>7, BecomesHolds
<1> QED BY <1>8

LEMMA DroppedAll ==
  ASSUME RowsAssumption, RowsInv, NEW o \in Vecs
  PROVE  Rows!Dropped(vecs[o], 0) = Rows!OwnedIn(Rows!Content(vecs[o]))
<1> DEFINE e == 0
           s == Rows!Content(vecs[o])
<1>1. e \in Nat /\ e = 0 OBVIOUS
<1> HIDE DEF e, s
<1>2. Form(vkind, vecs[o], s) BY RowOf DEF s
<1>3. Rows!Dropped(vecs[o], e) = Rows!OwnedIn(s) BY <1>1, <1>2, DroppedIs
<1> QED BY <1>3 DEF e, s

\* v, which holds t, takes the place of a container, of which all values die.
LEMMA ReplacedHolds ==
  ASSUME RowsAssumption, RowsInv, NEW o \in Vecs, NEW v, NEW t, Form(vkind, v, t),
         Rows!Becomes(o, v, Rows!OwnedIn(t), Rows!Dropped(vecs[o], 0))
  PROVE  RowsInv' /\ Turned(o, t)
<1> DEFINE old == Rows!OwnedIn(Rows!Content(vecs[o]))
           born == Rows!OwnedIn(t)
           died == Rows!Dropped(vecs[o], 0)
<1>1. old \in Nat /\ born \in Nat /\ died = old BY RowOf, FormIs, OwnedType, DroppedAll
<1>2. Rows!Becomes(o, v, born, died) OBVIOUS
<1>3. Rows!OwnedIn(t) = Rows!OwnedIn(Rows!Content(vecs[o])) + born - died
  <2>1. born = old + born - died
    <3> HIDE DEF old, born, died
    <3> QED BY <1>1
  <2> QED BY <2>1
<1>4. died \in Nat BY <1>1
<1> HIDE DEF born, died
<1> QED BY <1>1, <1>2, <1>3, <1>4, BecomesHolds

\* b, in which every value is set to x, takes the place of a container.
LEMMA OverwrittenHolds ==
  ASSUME RowsAssumption, RowsInv, NEW o \in Vecs, NEW b, NEW g, Form(vkind, b, g), NEW x \in Rows!Given,
         Rows!Becomes(o, Rows!Overwritten(b, x), Len(g) * Rows!OwnedIn(<<x>>), Rows!Dropped(vecs[o], 0))
  PROVE  RowsInv' /\ Turned(o, Rows!Copies(Len(g), x))
<1> DEFINE n == Len(g)
           v == Rows!Overwritten(b, x)
           t == Rows!Copies(n, x)
<1>1. Form(vkind, v, t) BY OverwrittenForm
<1>2. Rows!OwnedIn(t) = n * Rows!OwnedIn(<<x>>)
  <2>1. n \in Nat
    <3>1. g \in Seq(Rows!Given) BY FormIs
    <3> QED BY <3>1
  <2> HIDE DEF n
  <2> QED BY <2>1, OwnedCopies
<1>3. Rows!Becomes(o, v, Rows!OwnedIn(t), Rows!Dropped(vecs[o], 0)) BY <1>2
<1>4. RowsInv' /\ Turned(o, t)
  <2> HIDE DEF v, t
  <2> QED BY <1>1, <1>3, ReplacedHolds
<1> QED BY <1>4

LEMMA FillHolds ==
  ASSUME RowsAssumption, RowsInv, NEW o \in Vecs, NEW x \in Rows!Given, Rows!Fill(o, x)
  PROVE  RowsInv' /\ Turned(o, Rows!Copies(Len(Rows!Content(vecs[o])), x))
<1>1. Form(vkind, vecs[o], Rows!Content(vecs[o])) /\ Rows!SizeOf(vecs[o]) = Len(Rows!Content(vecs[o])) BY RowOf
<1>2. Rows!Becomes(o, Rows!Overwritten(vecs[o], x), Rows!SizeOf(vecs[o]) * Rows!OwnedIn(<<x>>), Rows!Dropped(vecs[o], 0))
  BY DEF Rows!Fill
<1> QED BY <1>1, <1>2, OverwrittenHolds

LEMMA AssignHolds ==
  ASSUME RowsAssumption, RowsInv, NEW o \in Vecs, NEW n \in 0 .. MaxLen, NEW x \in Rows!Given, Rows!AssignCopies(o, n, x)
  PROVE  RowsInv' /\ Turned(o, Rows!Copies(n, x))
<1> DEFINE s == Rows!Content(vecs[o])
           e == 0
           a == Rows!Sized(vecs[o], e)
           b == Rows!Sized(a, n)
           f == Rows!Fitted(s, e)
           g == Rows!Fitted(f, n)
<1>1. n \in Nat /\ n <= MaxLen /\ e \in Nat /\ e <= MaxLen BY RowsTypes
<1>2. Form(vkind, vecs[o], s) /\ s \in Seq(Rows!Given) BY RowOf
<1>3. Rows!Becomes(o, Rows!Overwritten(b, x), n * Rows!OwnedIn(<<x>>), Rows!Dropped(vecs[o], 0))
  BY DEF Rows!AssignCopies
<1> HIDE DEF e
<1>4. Form(vkind, a, f) /\ f \in Seq(Rows!Given)
  <2> HIDE DEF s
  <2> QED BY <1>1, <1>2, SizedForm, FittedIs
<1>5. Form(vkind, b, g) /\ Len(g) = n
  <2> HIDE DEF a, f
  <2> QED BY <1>1, <1>4, SizedForm, FittedIs
<1> HIDE DEF b, g
<1> QED BY <1>3, <1>5, OverwrittenHolds

LEMMA MakeHolds ==
  ASSUME RowsAssumption, RowsInv, NEW o \in Vecs, NEW s \in Seq(Rows!Given), vkind = "vec" => Len(s) <= MaxLen, Rows!Make(o, s)
  PROVE  RowsInv' /\ Turned(o, IF vkind = "tuple" THEN Rows!Fitted(s, Rows!SizeOf(vecs[o])) ELSE s)
<1> DEFINE t == IF vkind = "tuple" THEN Rows!Fitted(s, Rows!SizeOf(vecs[o])) ELSE s
<1>1. Rows!Becomes(o, Rows!Filled(t), Rows!OwnedIn(t), Rows!Dropped(vecs[o], 0)) BY DEF Rows!Make
<1>2. t \in Seq(Rows!Given) /\ (vkind = "vec" => Len(t) <= MaxLen)
  <2>1. CASE vkind = "tuple"
    <3>1. t = Rows!Fitted(s, Rows!SizeOf(vecs[o])) /\ vkind # "vec" /\ Rows!SizeOf(vecs[o]) \in Nat BY <2>1, RowOf
    <3> HIDE DEF t
    <3> QED BY <3>1, FittedIs
  <2>2. CASE vkind # "tuple"
    <3>1. t = s BY <2>2
    <3> HIDE DEF t
    <3> QED BY <3>1
  <2> QED BY <2>1, <2>2
<1> HIDE DEF t
<1>3. Form(vkind, Rows!Filled(t), t) BY <1>2, FilledForm
<1>4. RowsInv' /\ Turned(o, t) BY <1>1, <1>3, ReplacedHolds
<1> QED BY <1>4 DEF t

LEMMA RangesAre ==
  ASSUME RowsAssumption, NEW s \in Rows!Ranges
  PROVE  s \in Seq(Rows!Given) /\ Len(s) <= MaxLen
<1>1. PICK n \in 0 .. MaxLen : \E x \in Rows!Given : s = Rows!Copies(n, x) BY DEF Rows!Ranges, Rows!Lengths
<1>2. PICK x \in Rows!Given : s = Rows!Copies(n, x) BY <1>1
<1>3. n \in Int /\ x \in Int /\ MaxLen \in Nat /\ ~(n < 0) BY RowsTypes
<1>4. s \in Seq({x}) /\ Len(s) = IF n < 0 THEN 0 ELSE n BY <1>2, <1>3, CopiesAre
<1> QED BY <1>3, <1>4

\* The columns of a row at the indices cols, null where there is none.
Projected(row, cols) == [i \in DOMAIN cols |-> IF cols[i] \in DOMAIN row THEN row[cols[i]] ELSE 0]

LEMMA ProjectHolds ==
  ASSUME RowsAssumption, RowsInv, vkind # "vec", NEW o \in Vecs, NEW row \in Rows!Ranges,
         NEW a \in Nat, NEW b \in Nat, NEW c \in Nat, Rows!Project(o, row, <<a, b, c>>)
  PROVE  /\ RowsInv' /\ Projected(row, <<a, b, c>>) \in Seq(Rows!Given) /\ Len(Projected(row, <<a, b, c>>)) = 3
         /\ LET s == Projected(row, <<a, b, c>>)
            IN  Turned(o, IF vkind = "tuple" THEN Rows!Fitted(s, Rows!SizeOf(vecs[o])) ELSE s)
<1> DEFINE cols == <<a, b, c>>
           s == Projected(row, cols)
<1>1. row \in Seq(Rows!Given) /\ 0 \in Rows!Given BY RangesAre, RowsTypes
<1>2. DOMAIN cols = 1 .. 3 OBVIOUS
<1>3. s \in Seq(Rows!Given) /\ Len(s) = 3
  <2>1. s \in [1 .. 3 -> Rows!Given]
    <3> HIDE DEF cols
    <3> QED BY <1>1, <1>2 DEF Projected
  <2> HIDE DEF s
  <2>2. 3 \in Nat OBVIOUS
  <2> QED BY <2>1, <2>2, FunctionSeq
<1>4. Rows!Make(o, s) BY DEF Rows!Project, Rows!Null, Projected
<1> HIDE DEF s, cols
<1>5. RowsInv' /\ Turned(o, IF vkind = "tuple" THEN Rows!Fitted(s, Rows!SizeOf(vecs[o])) ELSE s)
  BY <1>3, <1>4, MakeHolds
<1> QED BY <1>3, <1>5 DEF s, cols

LEMMA CopyHolds ==
  ASSUME RowsAssumption, RowsInv, NEW o \in Vecs, NEW p \in Vecs, Rows!Copy(o, p)
  PROVE  RowsInv' /\ Turned(o, Rows!Content(vecs[p]))
<1>1. Form(vkind, Rows!Filled(Rows!Content(vecs[p])), Rows!Content(vecs[p])) BY RowOf, FilledForm
<1> QED BY <1>1, ReplacedHolds DEF Rows!Copy

LEMMA TryCloneHolds ==
  ASSUME RowsAssumption, RowsInv, NEW o \in Vecs, NEW p \in Vecs, Rows!TryClone(o, p)
  PROVE  RowsInv' /\ (Rows!Fails \/ Turned(o, Rows!Content(vecs[p])))
<1> DEFINE t == Rows!Content(vecs[p])
<1>1. CASE Rows!Fails BY <1>1, FailsHolds
<1>2. CASE Rows!Becomes(o, Rows!Cloned(t), Rows!OwnedIn(t), Rows!Dropped(vecs[o], 0))
  <2>1. Form(vkind, Rows!Cloned(t), t) BY RowOf, ClonedForm
  <2> QED BY <1>2, <2>1, ReplacedHolds
<1> QED BY <1>1, <1>2 DEF Rows!TryClone

\* o gets what p has, p is left with w, which owns nothing, and what o had dies.
LEMMA MovedHolds ==
  ASSUME RowsAssumption, RowsInv, NEW o \in Vecs, NEW p \in Vecs, o # p, NEW w, NEW t, Form(vkind, w, t), Rows!OwnedIn(t) = 0,
         vecs' = [vecs EXCEPT ![o] = vecs[p], ![p] = w], owned' = owned - Rows!Dropped(vecs[o], 0),
         good' = TRUE, vkind' = vkind
  PROVE  RowsInv' /\ TurnedBoth(o, p, Rows!Content(vecs[p]), t)
<1> DEFINE a == Rows!OwnedIn(Rows!Content(vecs[o]))
           s == Rows!Content(vecs[p])
           v == vecs[p]
<1>1. Form(vkind, v, s) /\ a \in Nat /\ Rows!OwnedIn(s) \in Nat /\ owned \in Nat BY RowOf, OwnedIsNat
<1>2. owned' = owned - a BY DroppedAll
<1>3. owned' = owned - a + Rows!OwnedIn(s) - Rows!OwnedIn(s) + Rows!OwnedIn(t)
  <2> HIDE DEF a, s
  <2> QED BY <1>1, <1>2
<1>4. owned' = owned - Rows!OwnedIn(Rows!Content(vecs[o])) + Rows!OwnedIn(s)
                        - Rows!OwnedIn(Rows!Content(vecs[p])) + Rows!OwnedIn(t)
  BY <1>3
<1>5. vecs' = [vecs EXCEPT ![o] = v, ![p] = w] OBVIOUS
<1> HIDE DEF a, v, s
<1>6. RowsInv' /\ TurnedBoth(o, p, s, t) BY <1>1, <1>4, <1>5, BothHold
<1> QED BY <1>6 DEF s

LEMMA MoveHolds ==
  ASSUME RowsAssumption, RowsInv, NEW o \in Vecs, NEW p \in Vecs, Rows!Move(o, p)
  PROVE  RowsInv' /\ o # p /\ TurnedBoth(o, p, Rows!Content(vecs[p]), <<>>)
<1> DEFINE t == <<>>
<1>1. Form(vkind, Rows!Empty, t) /\ Rows!OwnedIn(t) = 0 BY EmptyForm, OwnedEmpty
<1>2. RowsInv' /\ o # p /\ TurnedBoth(o, p, Rows!Content(vecs[p]), t)
  <2> HIDE DEF t
  <2> QED BY <1>1, MovedHolds DEF Rows!Move
<1> QED BY <1>2

LEMMA MoveValuesHolds ==
  ASSUME RowsAssumption, RowsInv, NEW o \in Vecs, NEW p \in Vecs, Rows!MoveValues(o, p)
  PROVE  RowsInv' /\ o # p /\ TurnedBoth(o, p, Rows!Content(vecs[p]), Rows!Copies(Len(Rows!Content(vecs[p])), 0))
<1> DEFINE x == 0
           s == Rows!Content(vecs[p])
           w == Rows!Overwritten(vecs[p], x)
           t == Rows!Copies(Len(s), x)
<1>1. /\ o # p /\ vecs' = [vecs EXCEPT ![o] = vecs[p], ![p] = w]
      /\ owned' = owned - Rows!Dropped(vecs[o], 0)
      /\ good' = TRUE /\ vkind' = vkind
  BY DEF Rows!MoveValues, Rows!Null
<1>2. Form(vkind, w, t) /\ Rows!OwnedIn(t) = 0
  <2>1. x \in Rows!Given /\ x \notin Cells /\ Form(vkind, vecs[p], s) /\ s \in Seq(Rows!Given) BY RowsTypes, RowOf
  <2> HIDE DEF x, s
  <2>2. Form(vkind, w, t) /\ Len(s) \in Nat BY <2>1, OverwrittenForm
  <2>3. Rows!OwnedIn(t) = Len(s) * Rows!OwnedIn(<<x>>) /\ Rows!OwnedIn(<<x>>) = 0
    BY <2>1, <2>2, OwnedCopies, OwnedOne
  <2> QED BY <2>2, <2>3
<1>3. RowsInv' /\ TurnedBoth(o, p, s, t)
  <2> HIDE DEF w, t
  <2> QED BY <1>1, <1>2, MovedHolds
<1> QED BY <1>1, <1>3

LEMMA SwapHolds ==
  ASSUME RowsAssumption, RowsInv, NEW o \in Vecs, NEW p \in Vecs, Rows!Swap(o, p)
  PROVE  RowsInv' /\ o # p /\ TurnedBoth(o, p, Rows!Content(vecs[p]), Rows!Content(vecs[o]))
<1> DEFINE a == Rows!OwnedIn(Rows!Content(vecs[o]))
           b == Rows!OwnedIn(Rows!Content(vecs[p]))
           v == vecs[p]
           w == vecs[o]
           s == Rows!Content(vecs[p])
           t == Rows!Content(vecs[o])
<1>1. /\ o # p /\ vecs' = [vecs EXCEPT ![o] = v, ![p] = w]
      /\ owned' = owned /\ good' = TRUE /\ vkind' = vkind
  BY DEF Rows!Swap
<1>2. Form(vkind, v, s) /\ Form(vkind, w, t) /\ a \in Nat /\ b \in Nat /\ owned \in Nat BY RowOf, OwnedIsNat
<1>5. owned' = owned - a + Rows!OwnedIn(s) - b + Rows!OwnedIn(t)
  <2>1. Rows!OwnedIn(s) = b /\ Rows!OwnedIn(t) = a OBVIOUS
  <2> HIDE DEF a, b, s, t
  <2> QED BY <1>1, <1>2, <2>1
<1>6. owned' = owned - Rows!OwnedIn(Rows!Content(vecs[o])) + Rows!OwnedIn(s)
                        - Rows!OwnedIn(Rows!Content(vecs[p])) + Rows!OwnedIn(t)
  BY <1>5
<1>20. RowsInv' /\ TurnedBoth(o, p, s, t)
  <2> HIDE DEF a, b, v, w, s, t
  <2> QED BY <1>1, <1>2, <1>6, BothHold
<1> QED BY <1>1, <1>20

LEMMA TypesOfInputs ==
  ASSUME RowsAssumption
  PROVE  /\ Rows!Lengths = 0 .. MaxLen /\ 0 .. MaxLen \subseteq Nat /\ Rows!Null \in Rows!Given
         /\ 1 \in Nat /\ 2 \in Nat /\ MaxLen + 1 \in Nat /\ (1 .. 2) \subseteq Nat \ {0} /\ (1 .. 2) \subseteq Nat
BY RowsTypes DEF Rows!Lengths, Rows!Null

LEMMA RowsInitially ==
  ASSUME RowsAssumption, Rows!Init
  PROVE  RowsInv /\ \E n \in 0 .. MaxLen : \A o \in Vecs : Rows!Content(vecs[o]) = Rows!Copies(n, 0)
<1>1. PICK n \in IF Rows!Tuple THEN {n \in 0 .. MaxLen : Rows!RowStorage(n) = vkind} ELSE {0} :
        vecs = [o \in Vecs |-> IF Rows!Tuple THEN Rows!Heap(n, Rows!Copies(n, Rows!Null)) ELSE Rows!Empty]
  BY DEF Rows!Init
<1>2. vkind \in VecKinds /\ owned = 0 /\ good = TRUE BY DEF Rows!Init
<1> DEFINE x == 0
           s == IF Rows!Tuple THEN Rows!Copies(n, x) ELSE <<>>
           c == [o \in Vecs |-> s]
<1>3. n \in Nat /\ x \in Rows!Given /\ x \notin Cells /\ x \in Int BY <1>1, RowsTypes
<1>4. /\ s \in Seq(Rows!Given) /\ \A i \in 1 .. Len(s) : s[i] \notin Cells
      /\ \A o \in Vecs : Form(vkind, vecs[o], s)
  <2>1. CASE Rows!Tuple
    <3> DEFINE t == Rows!Copies(n, x)
    <3>0. vkind # "vec" /\ n \in Int /\ ~(n < 0)
      <4>1. vkind # "vec" BY <2>1 DEF Rows!Tuple
      <4>2. n \in Int /\ ~(n < 0) BY <1>3
      <4> QED BY <4>1, <4>2
    <3>1. t \in Seq({x}) /\ (Len(t) = IF n < 0 THEN 0 ELSE n) /\ \A i \in 1 .. n : t[i] = x
      <4> HIDE DEF x
      <4> QED BY <1>3, <3>0, CopiesAre
    <3>2. t \in Seq(Rows!Given) /\ Len(t) = n /\ \A i \in 1 .. Len(t) : t[i] \notin Cells
      <4> HIDE DEF t, x
      <4> QED BY <1>3, <3>0, <3>1
    <3>3. \A o \in Vecs : vecs[o] = Rows!Heap(n, t) BY <1>1, <2>1 DEF Rows!Null
    <3>4. s = t BY <2>1
    <3> HIDE DEF t, s, x
    <3>5. Form(vkind, Rows!Heap(n, t), t) BY <1>3, <3>0, <3>2, HeapForm
    <3> QED BY <3>2, <3>3, <3>4, <3>5
  <2>2. CASE ~Rows!Tuple
    <3> DEFINE e == <<>>
    <3>1. s = e /\ e \in Seq(Rows!Given) /\ Len(e) = 0 BY <2>2
    <3>2. \A o \in Vecs : vecs[o] = Rows!Empty BY <1>1, <2>2
    <3>3. Form(vkind, Rows!Empty, e) BY EmptyForm
    <3> HIDE DEF e, s
    <3> QED BY <3>1, <3>2, <3>3
  <2> QED BY <2>1, <2>2
<1>5. Alive(c) = {}
  <2> HIDE DEF s
  <2> SUFFICES ASSUME NEW y \in Alive(c) PROVE FALSE OBVIOUS
  <2>1. PICK p \in Vecs : \E i \in Rows!OwnedAt(c[p]) : y = <<p, i>> BY AliveAt
  <2>2. PICK i \in Rows!OwnedAt(s) : TRUE BY <2>1
  <2>3. i \in 1 .. Len(s) /\ s[i] \in Cells BY <1>4 DEF Rows!OwnedAt
  <2> QED BY <1>4, <2>3
<1>6. IsFiniteSet(Alive(c)) /\ owned = Cardinality(Alive(c)) BY <1>2, <1>5, FS_EmptySet
<1>7. vecs = [o \in Vecs |-> vecs[o]] BY <1>1
<1>8. c = [o \in Vecs |-> c[o]] /\ \A o \in Vecs : Form(vkind, vecs[o], c[o])
  <2> HIDE DEF s
  <2> QED BY <1>4
<1> HIDE DEF c
<1>9. Holding(vkind, vecs, owned, c) BY <1>6, <1>7, <1>8 DEF Holding
<1>10. n \in 0 .. MaxLen /\ s = Rows!Copies(n, x)
  <2>1. ASSUME ~Rows!Tuple PROVE n = 0 /\ Rows!Copies(n, x) = <<>>
    <3>1. n = 0 /\ n \in Int BY <1>1, <2>1
    <3>2. Rows!Copies(n, x) \in Seq({x}) /\ Len(Rows!Copies(n, x)) = 0
      <4> HIDE DEF x
      <4> QED BY <1>3, <3>1, CopiesAre
    <3> QED BY <3>1, <3>2
  <2>2. n \in 0 .. MaxLen BY <1>1, RowsTypes
  <2> QED BY <2>1, <2>2
<1>11. \A o \in Vecs : Rows!Content(vecs[o]) = s
  <2> HIDE DEF s
  <2> QED BY <1>4, FormIs
<1>12. \A o \in Vecs : Rows!Content(vecs[o]) = Rows!Copies(n, 0)
  <2> HIDE DEF s
  <2> QED BY <1>10, <1>11
<1> QED BY <1>2, <1>9, <1>10, <1>12 DEF RowsInv

-----------------------------------------------------------------------------
(* ValueVec implements Lists: the calls do to the rows what they say *)

RowLists == [o \in Vecs |-> Rows!Content(vecs[o])]

RowsShort == \A o \in Vecs : Len(Rows!Content(vecs[o])) <= MaxLen

\* The step is one that the promise allows, and the contents stay short.
RowsFollow == RowsShort' /\ Rows!Promise!Next

\* What is shown of every call: the first part is for the safety of the containers, the second for their promise.
RowsStep == RowsInv' /\ (RowsShort /\ 3 <= MaxLen => RowsFollow)

LEMMA TurnedIs ==
  ASSUME NEW o \in Vecs, NEW t, Turned(o, t)
  PROVE  RowLists' = RowWritten(RowLists, o, t)
BY DEF RowLists, RowWritten, Turned

LEMMA TurnedShort ==
  ASSUME RowsShort, NEW o \in Vecs, NEW t, Len(t) <= MaxLen, Turned(o, t)
  PROVE  RowsShort'
<1>1. ASSUME NEW p \in Vecs PROVE Len(Rows!Content(vecs[p])') <= MaxLen
  <2>1. CASE p = o BY <2>1 DEF Turned
  <2>2. CASE p # o BY <2>2 DEF Turned, RowsShort
  <2> QED BY <2>1, <2>2
<1> QED BY <1>1 DEF RowsShort

LEMMA TurnedSucceeds ==
  ASSUME RowsInv', NEW o \in Vecs, NEW t, Turned(o, t),
         RowsShort => Len(t) <= MaxLen /\ Rows!Promise!Changed(Rows!Content(vecs[o]), t)
  PROVE  RowsStep
<1> SUFFICES ASSUME RowsShort, 3 <= MaxLen PROVE RowsFollow BY DEF RowsStep
<1>1. RowsShort' BY TurnedShort
<1>2. Rows!Promise!Succeeds(o) BY DEF Rows!Promise!Succeeds, Turned
<1> QED BY <1>1, <1>2 DEF RowsFollow, Rows!Promise!Next

LEMMA TurnedMakes ==
  ASSUME RowsInv', NEW o \in Vecs, NEW t, Turned(o, t),
         RowsShort /\ 3 <= MaxLen => Len(t) <= MaxLen /\ Rows!Promise!Uniform(t)
  PROVE  RowsStep
<1> SUFFICES ASSUME RowsShort, 3 <= MaxLen PROVE RowsFollow BY DEF RowsStep
<1>1. RowsShort' BY TurnedShort
<1>2. Rows!Promise!Makes(o) BY DEF Rows!Promise!Makes, Turned
<1> QED BY <1>1, <1>2 DEF RowsFollow, Rows!Promise!Next

LEMMA TurnedCopies ==
  ASSUME RowsInv', NEW o \in Vecs, NEW p \in Vecs, Turned(o, Rows!Content(vecs[p]))
  PROVE  RowsStep
<1> SUFFICES ASSUME RowsShort, 3 <= MaxLen PROVE RowsFollow BY DEF RowsStep
<1>1. RowsShort' BY TurnedShort DEF RowsShort
<1>2. Rows!Promise!Copies(o, p)
  <2>1. RowLists' = [RowLists EXCEPT ![o] = RowLists[p]] /\ RowLists'[o] = RowLists[p]
    <3>1. RowLists' = RowWritten(RowLists, o, Rows!Content(vecs[p])) /\ RowLists[p] = Rows!Content(vecs[p])
      BY TurnedIs DEF RowLists
    <3>2. o \in DOMAIN RowLists BY DEF RowLists
    <3> QED BY <3>1, <3>2 DEF RowWritten
  <2>2. good' = TRUE BY DEF Turned
  <2> QED BY <2>1, <2>2 DEF Rows!Promise!Copies, RowLists
<1> QED BY <1>1, <1>2 DEF RowsFollow, Rows!Promise!Next

LEMMA BothIs ==
  ASSUME RowsShort, NEW o \in Vecs, NEW p \in Vecs, o # p, NEW s, NEW t, Len(s) <= MaxLen, Len(t) <= MaxLen,
         TurnedBoth(o, p, s, t)
  PROVE  RowsShort' /\ RowLists' = [RowLists EXCEPT ![o] = s, ![p] = t]
<1>1. ASSUME NEW q \in Vecs PROVE Len(Rows!Content(vecs[q])') <= MaxLen
  <2>1. CASE q = o BY <2>1 DEF TurnedBoth
  <2>2. CASE q = p BY <2>2 DEF TurnedBoth
  <2>3. CASE q # o /\ q # p BY <2>3 DEF TurnedBoth, RowsShort
  <2> QED BY <2>1, <2>2, <2>3
<1>2. RowsShort' BY <1>1 DEF RowsShort
<1>3. RowLists' = [RowLists EXCEPT ![o] = s, ![p] = t] BY DEF RowLists, TurnedBoth
<1> QED BY <1>2, <1>3

LEMMA RowsMoved ==
  ASSUME RowsInv', NEW o \in Vecs, NEW p \in Vecs, o # p, NEW t, TurnedBoth(o, p, Rows!Content(vecs[p]), t),
         RowsShort => Len(t) <= MaxLen,
         t \in {<<>>, [i \in DOMAIN Rows!Content(vecs[p]) |-> 0], Rows!Content(vecs[o])}
  PROVE  RowsStep
<1> SUFFICES ASSUME RowsShort, 3 <= MaxLen PROVE RowsFollow BY DEF RowsStep
<1> DEFINE s == Rows!Content(vecs[p])
<1>1. RowsShort' /\ RowLists' = [RowLists EXCEPT ![o] = s, ![p] = t]
  <2>1. Len(s) <= MaxLen BY DEF RowsShort
  <2> HIDE DEF s
  <2> QED BY <2>1, BothIs DEF s
<1>2. RowLists[p] = s /\ RowLists[o] = Rows!Content(vecs[o]) /\ good' = TRUE BY DEF RowLists, TurnedBoth
<1>3. CASE t = Rows!Content(vecs[o])
  <2>1. Rows!Promise!Swaps(o, p) BY <1>1, <1>2, <1>3 DEF Rows!Promise!Swaps, RowLists
  <2> QED BY <1>1, <2>1 DEF RowsFollow, Rows!Promise!Next
<1>4. CASE t \in {<<>>, [i \in DOMAIN Rows!Content(vecs[p]) |-> 0]}
  <2>1. Rows!Promise!Moves(o, p) BY <1>1, <1>2, <1>4 DEF Rows!Promise!Moves, RowLists, Rows!Null
  <2> QED BY <1>1, <2>1 DEF RowsFollow, Rows!Promise!Next
<1> QED BY <1>3, <1>4

LEMMA RowsResting ==
  ASSUME UNCHANGED <<vkind, vecs>>
  PROVE  RowLists' = RowLists /\ (RowsShort => RowsShort')
BY DEF RowLists, RowsShort, Rows!Content, Rows!SizeOf

LEMMA RowsFail ==
  ASSUME RowsInv, Rows!Fails
  PROVE  RowsStep
<1>0. RowsInv' BY FailsHolds
<1> SUFFICES ASSUME RowsShort PROVE RowsFollow BY <1>0 DEF RowsStep
<1>1. RowLists' = RowLists /\ RowsShort' /\ ~good' BY RowsResting DEF Rows!Fails
<1>2. Rows!Promise!Fails BY <1>1 DEF Rows!Promise!Fails, RowLists
<1> QED BY <1>1, <1>2 DEF RowsFollow, Rows!Promise!Next

\* What a successful call may do: cut the end off, let equal values follow, insert, erase.
LEMMA RowsPadded ==
  ASSUME RowsAssumption, NEW s \in Seq(Rows!Given), NEW t \in Seq(Rows!Given), NEW x \in Rows!Given,
         Len(s) <= Len(t), Len(t) <= MaxLen,
         \A i \in 1 .. Len(s) : t[i] = s[i], \A i \in Len(s) + 1 .. Len(t) : t[i] = x
  PROVE  Rows!Promise!Changed(s, t)
<1> DEFINE G == Rows!Given
           m == Len(t) - Len(s)
           d == [i \in 1 .. m |-> x]
           u == s \o d
<1>1. m \in Nat /\ m \in 0 .. MaxLen /\ Len(t) = Len(s) + m BY RowsTypes
<1>2. d \in Seq(G) /\ Len(d) = m
  <2>1. d \in [1 .. m -> G] OBVIOUS
  <2> HIDE DEF d, G, m
  <2> QED BY <1>1, <2>1, FunctionSeq
<1>3. t = u
  <2>1. /\ u \in Seq(G) /\ Len(u) = Len(s) + Len(d)
        /\ \A j \in 1 .. Len(s) : u[j] = s[j]
        /\ \A j \in 1 .. Len(d) : u[Len(s) + j] = d[j]
    <3> HIDE DEF d, G
    <3> QED BY <1>2, ConcatIs DEF G
  <2>2. \A j \in 1 .. m : d[j] = x OBVIOUS
  <2>3. ASSUME NEW i \in 1 .. Len(t) PROVE t[i] = u[i]
    <3> HIDE DEF d, u, m
    <3>1. CASE i <= Len(s) BY <2>1, <3>1
    <3>2. CASE ~(i <= Len(s))
      <4>1. i - Len(s) \in 1 .. m /\ Len(s) + (i - Len(s)) = i BY <1>1, <3>2
      <4> QED BY <1>2, <2>1, <2>2, <3>2, <4>1
    <3> QED BY <3>1, <3>2
  <2> HIDE DEF d, u, m
  <2> QED BY <1>1, <1>2, <2>1, <2>3, SameSeq DEF G
<1>4. t = Rows!Promise!Padded(s, Len(t), x) BY <1>3 DEF Rows!Promise!Padded
<1> QED BY <1>1, <1>4 DEF Rows!Promise!Changed

LEMMA RowsErased ==
  ASSUME RowsAssumption, NEW s \in Seq(Rows!Given), NEW i \in Nat, NEW n \in Nat, i + n <= Len(s)
  PROVE  Rows!Promise!Changed(s, RowWithout(s, i, n))
<1> DEFINE t == RowWithout(s, i, n)
<1>1. Len(t) = Len(s) - n BY WithoutIs
<1>2. t = Rows!Promise!Erased(s, i, n) BY DEF RowWithout, Rows!Promise!Erased
<1> HIDE DEF t
<1>3. Len(t) - Len(s) \in -Len(s) .. 0 /\ -(Len(t) - Len(s)) = n /\ i \in 0 .. Len(t) BY <1>1
<1>4. Len(t) - Len(s) \in -Len(s) .. 0 /\ \E k \in 0 .. Len(t) : t = Rows!Promise!Erased(s, k, -(Len(t) - Len(s)))
  <2>1. t = Rows!Promise!Erased(s, i, -(Len(t) - Len(s))) BY <1>2, <1>3
  <2> QED BY <1>3, <2>1
<1>5. Rows!Promise!Changed(s, t) BY <1>4, Zenon DEF Rows!Promise!Changed
<1> QED BY <1>5 DEF t

LEMMA RowsCut ==
  ASSUME RowsAssumption, NEW s \in Seq(Rows!Given), NEW t \in Seq(Rows!Given),
         Len(t) <= Len(s), \A i \in 1 .. Len(t) : t[i] = s[i]
  PROVE  Rows!Promise!Changed(s, t)
<1> DEFINE n == Len(s) - Len(t)
           k == Len(t)
           u == RowWithout(s, k, n)
<1>1. n \in Nat /\ k \in Nat /\ k + n <= Len(s) /\ Len(s) - n = k /\ Len(t) = k OBVIOUS
<1> HIDE DEF n, k
<1>2. u \in Seq(Rows!Given) /\ Len(u) = Len(t) /\ \A j \in 1 .. k : u[j] = IF j <= k THEN s[j] ELSE s[j + n]
  <2>1. /\ u \in Seq(Rows!Given) /\ Len(u) = Len(s) - n
        /\ \A j \in 1 .. Len(s) - n : u[j] = IF j <= k THEN s[j] ELSE s[j + n]
    BY <1>1, WithoutIs
  <2> HIDE DEF u
  <2> QED BY <1>1, <2>1
<1>3. Rows!Promise!Changed(s, u) BY <1>1, RowsErased
<1> HIDE DEF u
<1>4. \A j \in 1 .. Len(t) : u[j] = t[j] BY <1>1, <1>2
<1>5. u = t BY <1>2, <1>4, SameSeq
<1> QED BY <1>3, <1>5

LEMMA RowsInserted ==
  ASSUME RowsAssumption, NEW s \in Seq(Rows!Given), NEW i \in 0 .. Len(s), NEW n \in Nat, NEW x \in Rows!Given,
         Len(s) + n <= MaxLen
  PROVE  Rows!Promise!Changed(s, WithCopies(s, i, n, x))
<1> DEFINE t == WithCopies(s, i, n, x)
           d == SubSeq(t, i + 1, i + n)
           c == Rows!Copies(n, x)
<1>1. t \in Seq(Rows!Given) /\ Len(t) = Len(s) + n /\ \A j \in i + 1 .. i + n : t[j] = x
  <2>1. HasCopies(t, s, i, n, x) BY WithCopiesIs
  <2> HIDE DEF t
  <2> QED BY <2>1 DEF HasCopies
<1>2. c \in Seq(Rows!Given) /\ Len(c) = n /\ \A j \in 1 .. n : c[j] = x
  <2>1. x \in Int /\ n \in Int /\ ~(n < 0) BY RowsTypes
  <2>2. c \in Seq({x}) /\ (Len(c) = IF n < 0 THEN 0 ELSE n) /\ \A j \in 1 .. n : c[j] = x
    <3> HIDE DEF c
    <3> QED BY <2>1, CopiesAre DEF c
  <2> HIDE DEF c
  <2> QED BY <2>1, <2>2
<1>3. t = SubSeq(s, 1, i) \o c \o SubSeq(s, i + 1, Len(s)) BY DEF WithCopies
<1> HIDE DEF t, c
<1>4. d \in Seq(Rows!Given) /\ Len(d) = n /\ \A j \in 1 .. n : d[j] = x
  <2>1. i \in Nat /\ i + n <= Len(t) BY <1>1
  <2>2. d \in Seq(Rows!Given) BY <1>1
  <2>3. Len(d) = n BY <1>1, <2>1
  <2>4. ASSUME NEW j \in 1 .. n PROVE d[j] = x
    <3>1. d[j] = t[i + j] /\ i + j \in i + 1 .. i + n BY <1>1, <2>1
    <3> QED BY <1>1, <3>1
  <2> QED BY <2>2, <2>3, <2>4
<1> HIDE DEF d
<1>5. d = c BY <1>2, <1>4, SameSeq
<1>6. Len(t) - Len(s) = n /\ n \in 0 .. MaxLen BY <1>1, RowsTypes
<1>7. SubSeq(t, i + 1, i + n) \in Seq(Rows!Given) /\ t = Rows!Promise!Inserted(s, i, SubSeq(t, i + 1, i + n))
  BY <1>3, <1>4, <1>5 DEF d, Rows!Promise!Inserted
<1>8. Rows!Promise!Changed(s, t) BY <1>6, <1>7 DEF Rows!Promise!Changed
<1> QED BY <1>8 DEF t

LEMMA RowsRefitted ==
  ASSUME RowsAssumption, NEW s \in Seq(Rows!Given), NEW n \in 0 .. MaxLen, NEW x \in Rows!Given
  PROVE  Rows!Promise!Changed(s, Padded(s, n, x)) /\ Len(Padded(s, n, x)) <= MaxLen
<1> DEFINE t == Padded(s, n, x)
<1>1. n \in Nat /\ n <= MaxLen BY RowsTypes
<1>2. t \in Seq(Rows!Given) /\ Len(t) = n /\ \A j \in 1 .. n : t[j] = IF j <= Len(s) THEN s[j] ELSE x
  BY <1>1, PaddedIs
<1> HIDE DEF t
<1>3. ASSUME Len(s) <= n PROVE Rows!Promise!Changed(s, t)
  <2>1. /\ Len(s) <= Len(t) /\ Len(t) <= MaxLen
        /\ \A i \in 1 .. Len(s) : t[i] = s[i]
        /\ \A i \in Len(s) + 1 .. Len(t) : t[i] = x
    BY <1>1, <1>2, <1>3
  <2> QED BY <1>1, <1>2, <2>1, RowsPadded
<1>4. ASSUME ~(Len(s) <= n) PROVE Rows!Promise!Changed(s, t)
  <2>1. Len(t) <= Len(s) /\ \A i \in 1 .. Len(t) : t[i] = s[i] BY <1>1, <1>2, <1>4
  <2> QED BY <1>2, <2>1, RowsCut
<1>5. Rows!Promise!Changed(s, t) /\ Len(t) <= MaxLen BY <1>1, <1>2, <1>3, <1>4
<1> QED BY <1>5 DEF t

LEMMA RowsFitted ==
  ASSUME RowsAssumption, NEW s \in Seq(Rows!Given), NEW n \in 0 .. MaxLen
  PROVE  Rows!Promise!Changed(s, Rows!Fitted(s, n)) /\ Len(Rows!Fitted(s, n)) <= MaxLen
<1> DEFINE x == 0
<1>1. n \in Nat /\ x \in Rows!Given BY RowsTypes
<1>2. Rows!Fitted(s, n) = Padded(s, n, x) BY <1>1, FittedPadded
<1> HIDE DEF x
<1> QED BY <1>1, <1>2, RowsRefitted

LEMMA RowsAppended ==
  ASSUME RowsAssumption, NEW s \in Seq(Rows!Given), NEW x \in Rows!Given, Len(s) < MaxLen
  PROVE  Rows!Promise!Changed(s, Append(s, x)) /\ Len(Append(s, x)) <= MaxLen
<1> DEFINE t == Append(s, x)
<1>1. t \in Seq(Rows!Given) /\ Len(t) = Len(s) + 1 /\ (\A i \in 1 .. Len(s) : t[i] = s[i]) /\ t[Len(s) + 1] = x
  OBVIOUS
<1> HIDE DEF t
<1>2. Len(s) <= Len(t) /\ Len(t) <= MaxLen BY <1>1, RowsTypes
<1>3. \A i \in Len(s) + 1 .. Len(t) : t[i] = x BY <1>1
<1> QED BY <1>1, <1>2, <1>3, RowsPadded DEF t

LEMMA RowsKept ==
  ASSUME RowsAssumption, NEW s \in Seq(Rows!Given)
  PROVE  Rows!Promise!Changed(s, s)
BY RowsCut

\* What containers are made of is all alike, up to nulls.
LEMMA CopiesUniform ==
  ASSUME RowsAssumption, NEW n \in Nat, NEW x \in Rows!Given
  PROVE  /\ Rows!Copies(n, x) \in Seq(Rows!Given) /\ Len(Rows!Copies(n, x)) = n
         /\ Rows!Promise!Uniform(Rows!Copies(n, x))
<1> DEFINE c == Rows!Copies(n, x)
<1>1. c \in [1 .. n -> Rows!Given] /\ \A i \in 1 .. n : c[i] = x BY DEF Rows!Copies
<1> HIDE DEF c
<1>2. c \in Seq(Rows!Given) /\ Len(c) = n /\ DOMAIN c = 1 .. n BY <1>1, FunctionSeq
<1>3. n \in 0 .. Len(c) /\ \A i \in DOMAIN c : c[i] = IF i <= n THEN x ELSE Rows!Null BY <1>1, <1>2
<1> QED BY <1>2, <1>3 DEF Rows!Promise!Uniform, c

LEMMA FittedUniform ==
  ASSUME RowsAssumption, NEW s \in Seq(Rows!Given), NEW n \in Nat, Rows!Promise!Uniform(s)
  PROVE  Rows!Promise!Uniform(Rows!Fitted(s, n))
<1> DEFINE t == Rows!Fitted(s, n)
<1>1. t \in Seq(Rows!Given) /\ Len(t) = n /\ \A i \in 1 .. n : t[i] = IF i <= Len(s) THEN s[i] ELSE 0 BY FittedIs
<1>2. PICK e \in Rows!Given, m \in 0 .. Len(s) : \A i \in DOMAIN s : s[i] = IF i <= m THEN e ELSE Rows!Null
  BY DEF Rows!Promise!Uniform
<1> HIDE DEF t
<1> DEFINE k == IF m <= n THEN m ELSE n
<1>3. k \in 0 .. Len(t) /\ k \in Nat BY <1>1
<1>4. ASSUME NEW i \in DOMAIN t PROVE t[i] = IF i <= k THEN e ELSE Rows!Null
  <2>1. i \in 1 .. n /\ (i <= k <=> i <= m) BY <1>1
  <2>2. CASE i <= Len(s)
    <3>1. t[i] = s[i] /\ i \in DOMAIN s BY <1>1, <2>1, <2>2
    <3> QED BY <1>2, <2>1, <3>1
  <2>3. CASE ~(i <= Len(s))
    <3>1. t[i] = 0 /\ ~(i <= m) BY <1>1, <2>1, <2>3
    <3> QED BY <2>1, <3>1 DEF Rows!Null
  <2> QED BY <2>2, <2>3
<1> HIDE DEF k
<1> QED BY <1>3, <1>4 DEF Rows!Promise!Uniform, t

LEMMA ProjectedUniform ==
  ASSUME RowsAssumption, NEW row \in Rows!Ranges
  PROVE  Rows!Promise!Uniform(Projected(row, <<1, 2, MaxLen + 1>>))
<1> DEFINE t == Projected(row, <<1, 2, MaxLen + 1>>)
<1>1. PICK m \in 0 .. MaxLen, x \in Rows!Given : row = Rows!Copies(m, x) BY DEF Rows!Ranges, Rows!Lengths
<1>2. MaxLen \in Nat /\ m \in Nat BY RowsTypes
<1>3. DOMAIN row = 1 .. m /\ \A i \in 1 .. m : row[i] = x BY <1>1 DEF Rows!Copies
<1>4. /\ DOMAIN t = 1 .. 3
      /\ t[1] = (IF 1 \in DOMAIN row THEN row[1] ELSE 0) /\ t[2] = (IF 2 \in DOMAIN row THEN row[2] ELSE 0)
      /\ t[3] = (IF MaxLen + 1 \in DOMAIN row THEN row[MaxLen + 1] ELSE 0)
  BY DEF Projected
<1>5. Len(t) = 3
  <2>1. t \in [1 .. 3 -> {t[1], t[2], t[3]}] BY DEF Projected
  <2>2. 3 \in Nat OBVIOUS
  <2> HIDE DEF t
  <2> QED BY <2>1, <2>2, FunctionSeq
<1> HIDE DEF t
<1> DEFINE k == IF m <= 2 THEN m ELSE 2
<1>6. k \in 0 .. Len(t) BY <1>2, <1>5
<1>7. ASSUME NEW i \in DOMAIN t PROVE t[i] = IF i <= k THEN x ELSE Rows!Null
  <2>1. CASE i = 1 BY <1>2, <1>3, <1>4, <2>1 DEF Rows!Null
  <2>2. CASE i = 2 BY <1>2, <1>3, <1>4, <2>2 DEF Rows!Null
  <2>3. CASE i = 3 BY <1>2, <1>3, <1>4, <2>3 DEF Rows!Null
  <2> QED BY <1>4, <2>1, <2>2, <2>3
<1> HIDE DEF k
<1> QED BY <1>6, <1>7 DEF Rows!Promise!Uniform, t

LEMMA RangesUniform ==
  ASSUME RowsAssumption, NEW s \in Rows!Ranges
  PROVE  Rows!Promise!Uniform(s)
<1>1. PICK n \in 0 .. MaxLen, x \in Rows!Given : s = Rows!Copies(n, x) BY DEF Rows!Ranges, Rows!Lengths
<1>2. n \in Nat BY RowsTypes
<1> QED BY <1>1, <1>2, CopiesUniform

\* Each call is one of the steps of the promise.
LEMMA MakeSteps ==
  ASSUME RowsAssumption, RowsInv, RowsInv', NEW o \in Vecs, NEW s \in Seq(Rows!Given), 3 <= MaxLen => Len(s) <= MaxLen,
         Rows!Promise!Uniform(s), Turned(o, IF vkind = "tuple" THEN Rows!Fitted(s, Rows!SizeOf(vecs[o])) ELSE s)
  PROVE  RowsStep
<1> DEFINE n == Rows!SizeOf(vecs[o])
           t == Rows!Fitted(s, n)
<1>1. n \in Nat /\ (RowsShort => n <= MaxLen)
  <2>1. n = Len(Rows!Content(vecs[o])) /\ Rows!Content(vecs[o]) \in Seq(Rows!Given) BY RowOf
  <2> QED BY <2>1 DEF RowsShort
<1> HIDE DEF n
<1>2. Len(t) = n /\ Rows!Promise!Uniform(t) BY <1>1, FittedIs, FittedUniform
<1>3. CASE vkind = "tuple"
  <2>1. Turned(o, t) /\ (RowsShort => Len(t) <= MaxLen) BY <1>1, <1>2, <1>3 DEF n
  <2> QED BY <1>2, <2>1, TurnedMakes
<1>4. CASE vkind # "tuple" BY <1>4, TurnedMakes
<1> QED BY <1>3, <1>4

LEMMA SizesStep ==
  ASSUME RowsAssumption, RowsInv, NEW o \in Vecs,
         \/ \E n \in 0 .. MaxLen : Rows!Resize(o, n) \/ Rows!TryResize(o, n)
         \/ \E n \in Rooms : Rows!Reserve(o, n)
         \/ Rows!PopBack(o) \/ Rows!ShrinkToFit(o) \/ \E x \in Rows!Given : Rows!PushBack(o, x)
  PROVE  RowsStep
<1> DEFINE s == Rows!Content(vecs[o])
<1>1. s \in Seq(Rows!Given) /\ (RowsShort => Len(s) <= MaxLen) /\ Rows!SizeOf(vecs[o]) = Len(s)
  BY RowOf DEF RowsShort
<1>2. RowsInv' /\ Turned(o, s) => RowsStep
  <2>1. Rows!Promise!Changed(s, s)
    <3> HIDE DEF s
    <3> QED BY <1>1, RowsKept
  <2> QED BY <1>1, <2>1, TurnedSucceeds
<1>3. ASSUME RowsInv', NEW n \in 0 .. MaxLen, Turned(o, Rows!Fitted(s, n)) PROVE RowsStep
  <2>1. Rows!Promise!Changed(s, Rows!Fitted(s, n)) /\ Len(Rows!Fitted(s, n)) <= MaxLen
    <3> HIDE DEF s
    <3> QED BY <1>1, RowsFitted
  <2> QED BY <1>3, <2>1, TurnedSucceeds
<1>4. ASSUME NEW n \in 0 .. MaxLen, Rows!Resize(o, n) PROVE RowsStep
  <2>1. n \in Nat /\ n <= MaxLen BY RowsTypes
  <2>2. RowsInv' /\ Turned(o, Rows!Fitted(s, n)) BY <1>4, <2>1, ResizeHolds
  <2> QED BY <1>3, <2>2
<1>5. ASSUME NEW n \in 0 .. MaxLen, Rows!TryResize(o, n) PROVE RowsStep
  <2>1. RowsInv' /\ (Rows!Fails \/ Turned(o, Rows!Fitted(s, n))) BY <1>5, TryResizeHolds
  <2> QED BY <1>3, <2>1, RowsFail
<1>6. ASSUME NEW n \in Rooms, Rows!Reserve(o, n) PROVE RowsStep BY <1>2, <1>6, ReserveHolds
<1>7. ASSUME Rows!ShrinkToFit(o) PROVE RowsStep BY <1>2, <1>7, ShrinkHolds
<1>8. ASSUME Rows!PopBack(o) PROVE RowsStep
  <2>1. RowsInv' /\ Turned(o, Rows!Fitted(s, Rows!SizeOf(vecs[o]) - 1)) /\ Rows!SizeOf(vecs[o]) > 0
    BY <1>8, PopHolds
  <2>2. ASSUME RowsShort PROVE RowsStep
    <3> HIDE DEF s
    <3>1. Len(s) - 1 \in 0 .. MaxLen /\ Turned(o, Rows!Fitted(s, Len(s) - 1)) BY <1>1, <2>1, <2>2, RowsTypes
    <3> QED BY <1>3, <2>1, <3>1
  <2> QED BY <2>1, <2>2 DEF RowsStep
<1>9. ASSUME NEW x \in Rows!Given, Rows!PushBack(o, x) PROVE RowsStep
  <2>1. RowsInv' /\ Len(s) < MaxLen /\ Turned(o, Append(s, x)) BY <1>9, PushHolds
  <2>2. Rows!Promise!Changed(s, Append(s, x)) /\ Len(Append(s, x)) <= MaxLen
    <3> HIDE DEF s
    <3> QED BY <1>1, <2>1, RowsAppended
  <2> QED BY <2>1, <2>2, TurnedSucceeds
<1> QED BY <1>4, <1>5, <1>6, <1>7, <1>8, <1>9

LEMMA VectorsHold ==
  ASSUME RowsAssumption, RowsInv, NEW o \in Vecs,
         \/ Rows!VecSizes(o) \/ Rows!VecPushes(o) \/ Rows!VecTries(o) \/ Rows!VecMakes(o)
         \/ Rows!HeapVecSizes(o) \/ Rows!HeapVecPushes(o) \/ Rows!HeapVecTries(o) \/ Rows!HeapVecMakes(o)
  PROVE  RowsStep
<1>0. Rows!Lengths = 0 .. MaxLen BY DEF Rows!Lengths
<1>1. ASSUME NEW s \in Rows!Ranges, Rows!Make(o, s) PROVE RowsStep
  <2>1. s \in Seq(Rows!Given) /\ Len(s) <= MaxLen /\ Rows!Promise!Uniform(s) BY RangesAre, RangesUniform
  <2> QED BY <1>1, <2>1, MakeHolds, MakeSteps
<1>2. CASE Rows!VecSizes(o) \/ Rows!HeapVecSizes(o) BY <1>0, <1>2, SizesStep DEF Rows!VecSizes, Rows!HeapVecSizes
<1>3. CASE Rows!VecPushes(o) \/ Rows!HeapVecPushes(o) BY <1>3, SizesStep DEF Rows!VecPushes, Rows!HeapVecPushes
<1>4. CASE Rows!VecTries(o) \/ Rows!HeapVecTries(o)
  <2>1. CASE Rows!Fails BY <2>1, RowsFail
  <2>2. CASE ~Rows!Fails
    BY <1>0, <1>4, <2>2, SizesStep DEF Rows!VecTries, Rows!HeapVecTries, Rows!TryReserve, Rows!TryPushBack
  <2> QED BY <2>1, <2>2
<1>5. CASE Rows!VecMakes(o) \/ Rows!HeapVecMakes(o) BY <1>1, <1>5 DEF Rows!VecMakes, Rows!HeapVecMakes
<1> QED BY <1>2, <1>3, <1>4, <1>5

LEMMA EditsHold ==
  ASSUME RowsAssumption, RowsInv, NEW o \in Vecs, Rows!VecEdits(o) \/ Rows!TupleFills(o)
  PROVE  RowsStep
<1> DEFINE s == Rows!Content(vecs[o])
<1>0. /\ Rows!Lengths = 0 .. MaxLen /\ 0 .. MaxLen \subseteq Nat /\ Rows!Null \in Rows!Given
      /\ (1 .. 2) \subseteq Nat \ {0} /\ (1 .. 2) \subseteq Nat
  BY TypesOfInputs
<1>1. s \in Seq(Rows!Given) /\ Len(s) \in Nat /\ (RowsShort => Len(s) <= MaxLen) BY RowOf DEF RowsShort
<1>2. ASSUME NEW x \in Rows!Given, NEW pos \in Rows!Lengths, NEW n \in 1 .. 2, Rows!Insert(o, pos, n, x) PROVE RowsStep
  <2>1. pos \in Nat /\ n \in Nat \ {0} /\ n \in Nat BY <1>0
  <2>2. RowsInv' /\ Len(s) + n <= MaxLen /\ \E i \in 0 .. Len(s) : Turned(o, WithCopies(s, i, n, x))
    BY <1>2, <2>1, InsertHolds
  <2>3. PICK i \in 0 .. Len(s) : Turned(o, WithCopies(s, i, n, x)) BY <2>2
  <2>4. Rows!Promise!Changed(s, WithCopies(s, i, n, x)) /\ Len(WithCopies(s, i, n, x)) = Len(s) + n
    <3> HIDE DEF s
    <3>1. Rows!Promise!Changed(s, WithCopies(s, i, n, x)) BY <1>1, <2>1, <2>2, RowsInserted
    <3>2. HasCopies(WithCopies(s, i, n, x), s, i, n, x) BY <1>1, <2>1, WithCopiesIs
    <3> QED BY <3>1, <3>2 DEF HasCopies
  <2> QED BY <2>2, <2>3, <2>4, TurnedSucceeds
<1>3. ASSUME NEW i \in Rows!Lengths, NEW n \in 1 .. 2, Rows!Erase(o, i, n) PROVE RowsStep
  <2>1. i \in Nat /\ n \in Nat BY <1>0
  <2>2. RowsInv' /\ i + n <= Len(s) /\ Turned(o, RowWithout(s, i, n)) BY <1>3, <2>1, EraseHolds
  <2>3. Rows!Promise!Changed(s, RowWithout(s, i, n)) /\ Len(RowWithout(s, i, n)) = Len(s) - n
    <3> HIDE DEF s
    <3>1. Rows!Promise!Changed(s, RowWithout(s, i, n)) BY <1>1, <2>1, <2>2, RowsErased
    <3>2. Len(RowWithout(s, i, n)) = Len(s) - n BY <1>1, <2>1, <2>2, WithoutIs
    <3> QED BY <3>1, <3>2
  <2>4. RowsShort => Len(RowWithout(s, i, n)) <= MaxLen
    <3> HIDE DEF s
    <3> QED BY <1>1, <2>1, <2>3, RowsTypes
  <2> QED BY <2>2, <2>3, <2>4, TurnedSucceeds
<1>4. ASSUME NEW x \in Rows!Given, NEW n \in Rows!Lengths, Rows!ResizeWith(o, n, x) PROVE RowsStep
  <2>1. RowsInv' /\ Turned(o, Padded(s, n, x)) BY <1>0, <1>4, ResizeWithHolds
  <2>2. Rows!Promise!Changed(s, Padded(s, n, x)) /\ Len(Padded(s, n, x)) <= MaxLen
    <3> HIDE DEF s
    <3> QED BY <1>0, <1>1, RowsRefitted
  <2> QED BY <2>1, <2>2, TurnedSucceeds
<1>5. ASSUME RowsInv', NEW x \in Rows!Given, NEW n \in Nat, RowsShort => n <= MaxLen, Turned(o, Rows!Copies(n, x)) PROVE RowsStep
  <2>1. Len(Rows!Copies(n, x)) = n /\ Rows!Promise!Uniform(Rows!Copies(n, x)) BY CopiesUniform
  <2> QED BY <1>5, <2>1, TurnedMakes
<1>6. ASSUME NEW x \in Rows!Given, NEW n \in Rows!Lengths, Rows!AssignCopies(o, n, x) PROVE RowsStep
  <2>1. n \in Nat /\ n <= MaxLen BY <1>0, RowsTypes
  <2> QED BY <1>0, <1>5, <1>6, <2>1, AssignHolds
<1>7. ASSUME NEW x \in Rows!Given, Rows!Fill(o, x) PROVE RowsStep
  <2>1. RowsInv' /\ Turned(o, Rows!Copies(Len(s), x)) BY <1>7, FillHolds
  <2> HIDE DEF s
  <2> QED BY <1>1, <1>5, <2>1
<1>8. CASE Rows!VecEdits(o) BY <1>0, <1>2, <1>3, <1>4, <1>6, <1>7, <1>8 DEF Rows!VecEdits
<1>9. CASE Rows!TupleFills(o) BY <1>7, <1>9 DEF Rows!TupleFills
<1> QED BY <1>8, <1>9

LEMMA TuplesHold ==
  ASSUME RowsAssumption, RowsInv, NEW o \in Vecs, Rows!TupleMakes(o) \/ Rows!HeapTupleMakes(o)
  PROVE  RowsStep
<1>1. ASSUME NEW s \in Rows!Ranges, Rows!Make(o, s) PROVE RowsStep
  <2>1. s \in Seq(Rows!Given) /\ Len(s) <= MaxLen /\ Rows!Promise!Uniform(s) BY RangesAre, RangesUniform
  <2> QED BY <1>1, <2>1, MakeHolds, MakeSteps
<1>2. ASSUME vkind # "vec", NEW row \in Rows!Ranges, Rows!Project(o, row, <<1, 2, MaxLen + 1>>) PROVE RowsStep
  <2> DEFINE a == 1
             b == 2
             c == MaxLen + 1
             s == Projected(row, <<a, b, c>>)
  <2>1. a \in Nat /\ b \in Nat /\ c \in Nat /\ Rows!Project(o, row, <<a, b, c>>) /\ Rows!Promise!Uniform(s)
    BY <1>2, TypesOfInputs, ProjectedUniform
  <2> HIDE DEF a, b, c
  <2>2. /\ RowsInv' /\ s \in Seq(Rows!Given) /\ Len(s) = 3
        /\ Turned(o, IF vkind = "tuple" THEN Rows!Fitted(s, Rows!SizeOf(vecs[o])) ELSE s)
    BY <1>2, <2>1, ProjectHolds
  <2> HIDE DEF s
  <2>3. 3 <= MaxLen => Len(s) <= MaxLen BY <2>2
  <2> QED BY <2>1, <2>2, <2>3, MakeSteps
<1>3. CASE Rows!TupleMakes(o) BY <1>1, <1>2, <1>3 DEF Rows!TupleMakes
<1>4. CASE Rows!HeapTupleMakes(o) BY <1>1, <1>2, <1>4 DEF Rows!HeapTupleMakes
<1> QED BY <1>3, <1>4

LEMMA PairsHold ==
  ASSUME RowsAssumption, RowsInv, NEW o \in Vecs, NEW p \in Vecs,
         \/ Rows!VecCopies(o, p) \/ Rows!VecMoves(o, p) \/ Rows!HeapVecCopies(o, p)
         \/ Rows!TupleCopies(o, p) \/ Rows!HeapTupleCopies(o, p)
  PROVE  RowsStep
<1> DEFINE s == Rows!Content(vecs[p])
<1>0. /\ s \in Seq(Rows!Given) /\ Len(s) \in Nat /\ 0 <= MaxLen
      /\ RowsShort => Len(s) <= MaxLen /\ Len(Rows!Content(vecs[o])) <= MaxLen
  BY RowOf, RowsTypes DEF RowsShort
<1>1. CASE Rows!Copy(o, p) BY <1>1, CopyHolds, TurnedCopies
<1>2. CASE Rows!TryClone(o, p) BY <1>2, TryCloneHolds, TurnedCopies, RowsFail
<1>3. CASE Rows!Move(o, p)
  <2> DEFINE t == <<>>
  <2>1. RowsInv' /\ o # p /\ TurnedBoth(o, p, s, t) BY <1>3, MoveHolds
  <2>2. Len(t) <= MaxLen /\ t \in {<<>>, [i \in DOMAIN s |-> 0], Rows!Content(vecs[o])} BY <1>0
  <2> HIDE DEF t
  <2> QED BY <2>1, <2>2, RowsMoved
<1>4. CASE Rows!MoveValues(o, p)
  <2> DEFINE n == Len(s)
             x == 0
             t == Rows!Copies(n, x)
  <2>1. RowsInv' /\ o # p /\ TurnedBoth(o, p, s, t) BY <1>4, MoveValuesHolds
  <2>2. Len(t) = n
    <3>1. n \in Nat /\ x \in Rows!Given BY <1>0, RowsTypes
    <3> HIDE DEF n, x
    <3> QED BY <3>1, CopiesUniform
  <2>3. t = [i \in DOMAIN s |-> 0]
    <3> HIDE DEF s
    <3> QED BY <1>0 DEF Rows!Copies
  <2>4. RowsShort => Len(t) <= MaxLen BY <1>0, <2>2
  <2> HIDE DEF t
  <2> QED BY <2>1, <2>3, <2>4, RowsMoved
<1>5. CASE Rows!Swap(o, p)
  <2> DEFINE t == Rows!Content(vecs[o])
  <2>1. RowsInv' /\ o # p /\ TurnedBoth(o, p, s, t) /\ (RowsShort => Len(t) <= MaxLen) BY <1>0, <1>5, SwapHolds
  <2> QED BY <2>1, RowsMoved
<1> QED BY <1>1, <1>2, <1>3, <1>4, <1>5
     DEF Rows!VecCopies, Rows!VecMoves, Rows!HeapVecCopies, Rows!TupleCopies, Rows!HeapTupleCopies

LEMMA RowsNextHolds ==
  ASSUME RowsAssumption, RowsInv, Rows!Next
  PROVE  RowsStep
<1>1. PICK o \in Vecs :
        \/ Rows!VecSizes(o) \/ Rows!VecPushes(o) \/ Rows!VecTries(o) \/ Rows!VecMakes(o) \/ Rows!VecEdits(o)
        \/ Rows!HeapVecSizes(o) \/ Rows!HeapVecPushes(o) \/ Rows!HeapVecTries(o) \/ Rows!HeapVecMakes(o)
        \/ Rows!TupleMakes(o) \/ Rows!HeapTupleMakes(o) \/ Rows!TupleFills(o)
        \/ \E p \in Vecs : \/ Rows!VecCopies(o, p) \/ Rows!VecMoves(o, p) \/ Rows!HeapVecCopies(o, p)
                           \/ Rows!TupleCopies(o, p) \/ Rows!HeapTupleCopies(o, p)
  BY DEF Rows!Next
<1> QED BY <1>1, VectorsHold, EditsHold, TuplesHold, PairsHold

LEMMA RowsFirst ==
  ASSUME RowsAssumption, Rows!Init
  PROVE  RowsShort /\ Rows!Promise!Init
<1>1. PICK n \in 0 .. MaxLen : \A o \in Vecs : Rows!Content(vecs[o]) = Rows!Copies(n, 0) BY RowsInitially
<1> DEFINE x == 0
           s == Rows!Copies(n, x)
<1>2. n \in Nat /\ n <= MaxLen /\ x \in Rows!Given BY RowsTypes
<1>3. Len(s) = n
  <2> HIDE DEF x
  <2> QED BY <1>2, CopiesUniform
<1>4. s = [i \in 1 .. n |-> Rows!Null] BY DEF Rows!Copies, Rows!Null
<1> HIDE DEF s
<1>5. \A o \in Vecs : Rows!Content(vecs[o]) = s BY <1>1 DEF s
<1>6. [o \in Vecs |-> Rows!Content(vecs[o])] = [o \in Vecs |-> [i \in 1 .. n |-> Rows!Null]] BY <1>4, <1>5
<1>7. good \in BOOLEAN BY DEF Rows!Init
<1> QED BY <1>2, <1>3, <1>5, <1>6, <1>7 DEF RowsShort, Rows!Promise!Init

-----------------------------------------------------------------------------
(* Rows are ordered *)

\* The first place at which two rows differ.
LEMMA FirstOf ==
  ASSUME NEW D, D \subseteq Nat, D # {}
  PROVE  Rows!Min(D) \in D /\ \A y \in D : Rows!Min(D) <= y
<1>1. \E x \in D : \A y \in D : x <= y BY Least
<1> QED BY <1>1 DEF Rows!Min

Differ(s, t) == {i \in 1 .. (IF Len(s) <= Len(t) THEN Len(s) ELSE Len(t)) : s[i] # t[i]}

LEMMA LessIs ==
  ASSUME NEW s \in Seq(Int), NEW t \in Seq(Int)
  PROVE  Rows!RowLess(s, t) <=> IF Differ(s, t) = {} THEN Len(s) < Len(t)
                                ELSE s[Rows!Min(Differ(s, t))] < t[Rows!Min(Differ(s, t))]
<1>1. Len(s) \in Nat /\ Len(t) \in Nat OBVIOUS
<1>2. Rows!Min({Len(s), Len(t)}) = IF Len(s) <= Len(t) THEN Len(s) ELSE Len(t) BY <1>1, RowsMin
<1> DEFINE D == {i \in 1 .. Rows!Min({Len(s), Len(t)}) : s[i] # t[i]}
<1>3. Rows!RowLess(s, t) <=> IF D = {} THEN Len(s) < Len(t) ELSE s[Rows!Min(D)] < t[Rows!Min(D)]
  BY DEF Rows!RowLess
<1>4. D = Differ(s, t) BY <1>2 DEF Differ
<1> HIDE DEF D
<1> QED BY <1>3, <1>4

LEMMA DifferIs ==
  ASSUME NEW s \in Seq(Int), NEW t \in Seq(Int)
  PROVE  /\ Differ(s, t) = Differ(t, s)
         /\ Differ(s, t) # {} => /\ Rows!Min(Differ(s, t)) \in 1 .. Len(s) /\ Rows!Min(Differ(s, t)) \in 1 .. Len(t)
                                 /\ s[Rows!Min(Differ(s, t))] # t[Rows!Min(Differ(s, t))]
         /\ Rows!RowEqual(s, t) <=> Differ(s, t) = {} /\ Len(s) = Len(t)
<1>1. Len(s) \in Nat /\ Len(t) \in Nat /\ DOMAIN s = 1 .. Len(s) OBVIOUS
<1>2. Differ(s, t) = Differ(t, s)
  <2>1. \A i : i \in Differ(s, t) <=> i \in Differ(t, s) BY <1>1 DEF Differ
  <2> QED BY <2>1
<1>3. ASSUME Differ(s, t) # {}
      PROVE  /\ Rows!Min(Differ(s, t)) \in 1 .. Len(s) /\ Rows!Min(Differ(s, t)) \in 1 .. Len(t)
             /\ s[Rows!Min(Differ(s, t))] # t[Rows!Min(Differ(s, t))]
  <2> DEFINE D == Differ(s, t)
             m == Rows!Min(D)
  <2>1. D \subseteq Nat BY <1>1 DEF Differ
  <2>2. m \in D
    <3> HIDE DEF D
    <3> QED BY <1>3, <2>1, FirstOf DEF D
  <2> HIDE DEF m
  <2>3. m \in 1 .. Len(s) /\ m \in 1 .. Len(t) /\ s[m] # t[m] BY <1>1, <2>2 DEF Differ
  <2> QED BY <2>3 DEF m
<1>4. Rows!RowEqual(s, t) <=> Differ(s, t) = {} /\ Len(s) = Len(t)
  <2>1. ASSUME Rows!RowEqual(s, t) PROVE Differ(s, t) = {} /\ Len(s) = Len(t)
    BY <1>1, <2>1 DEF Rows!RowEqual, Differ
  <2>2. ASSUME Differ(s, t) = {}, Len(s) = Len(t) PROVE Rows!RowEqual(s, t)
    <3>1. ASSUME NEW i \in 1 .. Len(s) PROVE s[i] = t[i]
      <4>1. i \notin Differ(s, t) BY <2>2
      <4> QED BY <1>1, <2>2, <4>1 DEF Differ
    <3> QED BY <1>1, <2>2, <3>1 DEF Rows!RowEqual
  <2> QED BY <2>1, <2>2
<1> QED BY <1>2, <1>3, <1>4

LEMMA Trichotomy ==
  ASSUME NEW s \in Seq(Int), NEW t \in Seq(Int)
  PROVE  Rows!RowEqual(s, t) <=> ~Rows!RowLess(s, t) /\ ~Rows!RowLess(t, s)
<1> DEFINE D == Differ(s, t)
           m == Rows!Min(D)
<1>1. /\ Differ(t, s) = D
      /\ D # {} => m \in 1 .. Len(s) /\ m \in 1 .. Len(t) /\ s[m] # t[m]
      /\ Rows!RowEqual(s, t) <=> D = {} /\ Len(s) = Len(t)
  BY DifferIs
<1>2. Rows!RowLess(s, t) <=> IF D = {} THEN Len(s) < Len(t) ELSE s[m] < t[m] BY LessIs
<1>3. Rows!RowLess(t, s) <=> IF D = {} THEN Len(t) < Len(s) ELSE t[m] < s[m]
  <2>1. Rows!RowLess(t, s) <=> IF Differ(t, s) = {} THEN Len(t) < Len(s)
                               ELSE t[Rows!Min(Differ(t, s))] < s[Rows!Min(Differ(t, s))]
    BY LessIs
  <2> QED BY <1>1, <2>1
<1>4. Len(s) \in Nat /\ Len(t) \in Nat /\ (D # {} => s[m] \in Int /\ t[m] \in Int) BY <1>1
<1> HIDE DEF D, m
<1>5. CASE D = {} BY <1>1, <1>2, <1>3, <1>4, <1>5
<1>6. CASE D # {} BY <1>1, <1>2, <1>3, <1>4, <1>6
<1> QED BY <1>5, <1>6

LEMMA AgainstOne ==
  ASSUME NEW s \in Seq(Int), NEW t \in Seq(Int), Len(t) = 1
  PROVE  /\ Rows!RowLessValue(s, t[1]) <=> Rows!RowLess(s, t)
         /\ Rows!RowGreaterValue(s, t[1]) <=> Rows!RowLess(t, s)
<1> DEFINE D == Differ(s, t)
           m == Rows!Min(D)
<1>1. /\ Differ(t, s) = D
      /\ D # {} => m \in 1 .. Len(s) /\ m \in 1 .. Len(t) /\ s[m] # t[m]
  BY DifferIs
<1>2. Rows!RowLess(s, t) <=> IF D = {} THEN Len(s) < Len(t) ELSE s[m] < t[m] BY LessIs
<1>3. Rows!RowLess(t, s) <=> IF D = {} THEN Len(t) < Len(s) ELSE t[m] < s[m]
  <2>1. Rows!RowLess(t, s) <=> IF Differ(t, s) = {} THEN Len(t) < Len(s)
                               ELSE t[Rows!Min(Differ(t, s))] < s[Rows!Min(Differ(t, s))]
    BY LessIs
  <2> QED BY <1>1, <2>1
<1>4. Len(s) \in Nat /\ t[1] \in Int /\ (Len(s) # 0 => s[1] \in Int) OBVIOUS
<1>5. CASE D # {}
  <2> HIDE DEF D, m
  <2>1. m = 1 /\ Len(s) # 0 BY <1>1, <1>4, <1>5
  <2>2. s[1] # t[1] /\ (Rows!RowLess(s, t) <=> s[1] < t[1]) /\ (Rows!RowLess(t, s) <=> t[1] < s[1])
    BY <1>1, <1>2, <1>3, <1>5, <2>1
  <2>3. Rows!RowLessValue(s, t[1]) <=> s[1] < t[1] BY <2>1 DEF Rows!RowLessValue
  <2>4. Rows!RowGreaterValue(s, t[1]) <=> t[1] < s[1] BY <1>4, <2>1, <2>2 DEF Rows!RowGreaterValue
  <2> QED BY <2>2, <2>3, <2>4
<1>6. CASE D = {}
  <2>1. (Rows!RowLess(s, t) <=> Len(s) < 1) /\ (Rows!RowLess(t, s) <=> 1 < Len(s))
    <3> HIDE DEF D
    <3> QED BY <1>2, <1>3, <1>6
  <2>2. CASE Len(s) = 0 BY <2>1, <2>2 DEF Rows!RowLessValue, Rows!RowGreaterValue
  <2>3. CASE Len(s) # 0
    <3>1. s[1] = t[1]
      <4>1. 1 \notin D BY <1>6
      <4> QED BY <1>4, <2>3, <4>1 DEF Differ
    <3>2. ~(s[1] < t[1]) /\ ~(t[1] < s[1]) /\ Len(s) > 0 BY <1>4, <2>3, <3>1
    <3>3. ~Rows!RowLessValue(s, t[1]) /\ (Rows!RowGreaterValue(s, t[1]) <=> Len(s) > 1)
      BY <2>3, <3>1, <3>2 DEF Rows!RowLessValue, Rows!RowGreaterValue
    <3>4. ~(Len(s) < 1) /\ (Len(s) > 1 <=> 1 < Len(s)) BY <1>4, <2>3
    <3> QED BY <2>1, <3>3, <3>4
  <2> QED BY <2>2, <2>3
<1> QED BY <1>5, <1>6

LEMMA Widened ==
  ASSUME NEW S, S \subseteq Int, NEW u \in Seq(S)
  PROVE  u \in Seq(Int)
<1>1. Len(u) \in Nat /\ u = [i \in 1 .. Len(u) |-> u[i]] OBVIOUS
<1>2. ASSUME NEW i \in 1 .. Len(u) PROVE u[i] \in Int
  <2>1. u[i] \in S OBVIOUS
  <2> QED BY <2>1
<1>3. u \in [1 .. Len(u) -> Int] BY <1>1, <1>2
<1> QED BY <1>1, <1>3, FunctionSeq

LEMMA RowsInvImplies ==
  ASSUME RowsAssumption, RowsInv
  PROVE  Rows!VecsConsistent
<1>1. PICK c : Holding(vkind, vecs, owned, c) BY DEF RowsInv
<1>2. ASSUME NEW o \in Vecs
      PROVE  /\ c[o] \in Seq(Rows!Given) /\ Rows!Content(vecs[o]) = c[o] /\ Rows!SizeOf(vecs[o]) = Len(c[o])
             /\ vecs[o].room \in Nat /\ Len(c[o]) <= vecs[o].room
             /\ vecs[o].cells \in Seq(Int) /\ Len(vecs[o].cells) = vecs[o].room
             /\ \A i \in 1 .. Len(c[o]) : vecs[o].cells[i] = c[o][i]
             /\ \A i \in Len(c[o]) + 1 .. vecs[o].room : vecs[o].cells[i] = -1
             /\ vkind = "vec" /\ ~vecs[o].heap => vecs[o].room = Inline
  <2>1. Form(vkind, vecs[o], c[o]) BY <1>1 DEF Holding
  <2> QED BY <2>1, FormIs
<1>3. Rows!Given = Cells \cup {0} /\ Rows!Given \subseteq Nat /\ -1 \notin Rows!Given BY RowsTypes
<1>4. Rows!TypeOK
  <2>1. ASSUME NEW o \in Vecs PROVE Rows!Range(vecs[o].cells) \subseteq Cells \cup {Rows!Null, Rows!Hole}
    <3> DEFINE e == vecs[o].cells
               s == c[o]
               r == vecs[o].room
    <3>1. /\ s \in Seq(Rows!Given) /\ e \in Seq(Int) /\ Len(e) = r /\ r \in Nat
          /\ \A i \in 1 .. Len(s) : e[i] = s[i]
          /\ \A i \in Len(s) + 1 .. r : e[i] = -1
      BY <1>2
    <3> HIDE DEF e, s, r
    <3>2. ASSUME NEW y \in Rows!Range(e) PROVE y \in Cells \cup {0, -1}
      <4>1. PICK i \in 1 .. r : y = e[i] BY <3>1 DEF Rows!Range
      <4>2. CASE i \in 1 .. Len(s) BY <1>3, <3>1, <4>1, <4>2
      <4>3. CASE i \notin 1 .. Len(s)
        <5>1. i \in Len(s) + 1 .. r BY <3>1, <4>3
        <5> QED BY <3>1, <4>1, <5>1
      <4> QED BY <4>2, <4>3
    <3> QED BY <3>2 DEF Rows!Null, Rows!Hole, e
  <2>2. owned \in Nat BY OwnedIsNat
  <2> QED BY <2>1, <2>2 DEF Rows!TypeOK, RowsInv
<1>5. Rows!InBounds
  <2> SUFFICES ASSUME NEW o \in Vecs
               PROVE  /\ Len(vecs[o].cells) = vecs[o].room /\ Rows!SizeOf(vecs[o]) <= vecs[o].room
                      /\ Rows!Hole \notin Rows!Range(Rows!Content(vecs[o]))
                      /\ vkind # "vec" \/ vecs[o].heap
                           \/ \A i \in Rows!SizeOf(vecs[o]) + 1 .. Inline : vecs[o].cells[i] = Rows!Hole
    BY DEF Rows!InBounds
  <2>1. Len(vecs[o].cells) = vecs[o].room /\ Rows!SizeOf(vecs[o]) <= vecs[o].room BY <1>2
  <2>2. Rows!Hole \notin Rows!Range(Rows!Content(vecs[o]))
    <3>1. c[o] \in Seq(Rows!Given) /\ Rows!Content(vecs[o]) = c[o] BY <1>2
    <3>2. \A i \in DOMAIN c[o] : c[o][i] # -1 BY <1>3, <3>1
    <3> QED BY <3>1, <3>2 DEF Rows!Range, Rows!Hole
  <2>3. ASSUME vkind = "vec", ~vecs[o].heap, NEW i \in Rows!SizeOf(vecs[o]) + 1 .. Inline
        PROVE  vecs[o].cells[i] = Rows!Hole
    <3>1. i \in Len(c[o]) + 1 .. vecs[o].room BY <1>2, <2>3
    <3> QED BY <1>2, <3>1 DEF Rows!Hole
  <2> QED BY <2>1, <2>2, <2>3
<1>6. Rows!AllOwned
  <2>1. UNION {{o} \X Rows!OwnedAt(Rows!Content(vecs[o])) : o \in Vecs} = Alive(c) BY <1>2 DEF Alive
  <2>2. owned = Cardinality(Alive(c)) BY <1>1 DEF Holding
  <2> QED BY <2>1, <2>2, RowsCount DEF Rows!AllOwned
<1>7. Rows!RowsOrdered
  <2> SUFFICES ASSUME NEW o \in Vecs, NEW p \in Vecs
               PROVE  LET s == Rows!Content(vecs[o])
                          t == Rows!Content(vecs[p])
                      IN  /\ Rows!RowEqual(s, t) <=> ~Rows!RowLess(s, t) /\ ~Rows!RowLess(t, s)
                          /\ Len(t) = 1 => /\ Rows!RowLessValue(s, t[1]) <=> Rows!RowLess(s, t)
                                           /\ Rows!RowGreaterValue(s, t[1]) <=> Rows!RowLess(t, s)
    BY DEF Rows!RowsOrdered
  <2> DEFINE s == Rows!Content(vecs[o])
             t == Rows!Content(vecs[p])
  <2>1. s \in Seq(Int) /\ t \in Seq(Int)
    <3>1. s \in Seq(Rows!Given) /\ t \in Seq(Rows!Given) BY <1>2
    <3>2. Rows!Given \subseteq Int BY <1>3
    <3> HIDE DEF s, t
    <3> QED BY <3>1, <3>2, Widened
  <2> HIDE DEF s, t
  <2>2. Rows!RowEqual(s, t) <=> ~Rows!RowLess(s, t) /\ ~Rows!RowLess(t, s) BY <2>1, Trichotomy
  <2>3. ASSUME Len(t) = 1 PROVE /\ Rows!RowLessValue(s, t[1]) <=> Rows!RowLess(s, t)
                                /\ Rows!RowGreaterValue(s, t[1]) <=> Rows!RowLess(t, s)
    BY <2>1, <2>3, AgainstOne
  <2> QED BY <2>2, <2>3 DEF s, t
<1> QED BY <1>4, <1>5, <1>6, <1>7 DEF Rows!VecsConsistent

\* Containers of values stay inside their memory, lose no value and repeat none, and rows are ordered.
THEOREM RowsAlwaysConsistent == RowsAssumption => (Rows!Spec => []Rows!VecsConsistent)
<1> SUFFICES ASSUME RowsAssumption PROVE Rows!Spec => []Rows!VecsConsistent OBVIOUS
<1>1. Rows!Init => RowsInv BY RowsInitially
<1>2. RowsInv /\ [Rows!Next]_(Rows!vars) => RowsInv'
  <2>1. CASE Rows!Next BY <2>1, RowsNextHolds DEF RowsStep
  <2>2. ASSUME RowsInv, UNCHANGED Rows!vars PROVE RowsInv' BY <2>2 DEF RowsInv, Rows!vars
  <2> QED BY <2>1, <2>2
<1>3. RowsInv => Rows!VecsConsistent BY RowsInvImplies
<1> QED BY <1>1, <1>2, <1>3, PTL DEF Rows!Spec

\* The containers of values implement lists: every call does to the row what it says, those
\* that fail do nothing to it, and no row but the ones named in the call is touched.
THEOREM RowsImplementLists == RowsAssumption /\ 3 <= MaxLen => (Rows!Spec => Rows!ImplementsVecLists)
<1> SUFFICES ASSUME RowsAssumption, 3 <= MaxLen PROVE Rows!Spec => Rows!ImplementsVecLists OBVIOUS
<1>1. Rows!Init => RowsInv /\ RowsShort /\ Rows!Promise!Init BY RowsInitially, RowsFirst
<1>2. RowsInv /\ RowsShort /\ [Rows!Next]_(Rows!vars) => RowsInv' /\ RowsShort' /\ [Rows!Promise!Next]_(Rows!Promise!vars)
  <2>1. ASSUME RowsInv, RowsShort, Rows!Next PROVE RowsInv' /\ RowsShort' /\ Rows!Promise!Next
    BY <2>1, RowsNextHolds DEF RowsStep, RowsFollow
  <2>2. ASSUME RowsInv, RowsShort, UNCHANGED Rows!vars PROVE RowsInv' /\ RowsShort' /\ UNCHANGED Rows!Promise!vars
    <3>1. RowsInv' BY <2>2 DEF RowsInv, Rows!vars
    <3>2. RowsShort' /\ RowLists' = RowLists BY <2>2, RowsResting DEF Rows!vars
    <3> QED BY <2>2, <3>1, <3>2 DEF Rows!vars, Rows!Promise!vars, RowLists
  <2> QED BY <2>1, <2>2
<1> QED BY <1>1, <1>2, PTL DEF Rows!Spec, Rows!ImplementsVecLists, Rows!Promise!Spec

-----------------------------------------------------------------------------
(* Data: what holds of Values, of HashMap and of ValueVec holds of a behaviour of the whole *)

LEMMA DataParts == DataSpec => Owners!Spec /\ HashSpec /\ Rows!Spec
<1>1. DataInit => Owners!Init /\ Init /\ Rows!Init BY DEF DataInit
<1>2. [DataNext]_dataVars => [Owners!Next]_(Owners!vars) BY DEF DataNext, dataVars, ownersVars, Owners!vars
<1>3. [DataNext]_dataVars => [HashNext]_vars BY DEF DataNext, dataVars
<1>4. [DataNext]_dataVars => [Rows!Next]_(Rows!vars) BY DEF DataNext, dataVars, rowsVars, Rows!vars
<1> QED BY <1>1, <1>2, <1>3, <1>4, PTL DEF DataSpec, Owners!Spec, HashSpec, Rows!Spec

\* Every heap block has one owner, a value or the application, and nobody has a pointer to
\* a block that was given back.
THEOREM DataValuesConsistent == DataSpec => []ValuesConsistent
<1>0. ValuesAssumption BY DataAssumption
<1>1. Owners!ValuesConsistent => ValuesConsistent BY DEF ValuesConsistent
<1> QED BY <1>0, <1>1, DataParts, ValuesAlwaysConsistent, PTL

\* The entries of the table are where a probe looks for them, in order, the limits fit, and every
\* loop over the table ends, unless the application asks for a size below the number of entries.
THEOREM DataTablesConsistent == DataSpec /\ [][RoomAsked]_vars => []TableConsistent
<1>1. Consistent /\ ProbesEnd => TableConsistent BY DEF TableConsistent
<1> QED BY <1>1, DataParts, HashAlwaysConsistent, PTL

\* Whatever table has come about, setting a value changes that key only, deleting removes it only, moving
\* and copying lose nothing, a lookup returns what is there, and an iterator visits all of it once.
THEOREM DataCallsExact == DataSpec /\ [][RoomAsked]_vars => []TableCallsExact
<1>1. CallsExact /\ ItemCallsExact => TableCallsExact BY DEF TableCallsExact
<1> QED BY <1>1, DataParts, HashCallsExact, PTL

\* No container of values reaches past its memory or reads what is not a value, every value that
\* owns memory is in one container and in one place, and rows are ordered.
THEOREM DataRowsConsistent == DataSpec => []RowsConsistent
<1>0. RowsAssumption BY DataAssumption
<1>1. Rows!VecsConsistent => RowsConsistent BY DEF RowsConsistent
<1> QED BY <1>0, <1>1, DataParts, RowsAlwaysConsistent, PTL
=============================================================================
