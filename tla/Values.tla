------------------------------- MODULE Values --------------------------------
(***************************************************************************)
(* SqliteValueOwned of sqlite3_value.hpp: 24 bytes that hold a number, a   *)
(* short text or blob in place, or a pointer to a longer one, which is     *)
(* owned or borrowed.  A value is used by one thread, so a call is one     *)
(* step, in which each allocation succeeds or not.                         *)
(***************************************************************************)
EXTENDS Integers, FiniteSets

CONSTANTS
  Slots,       \* the program's variables of this type
  Blocks,      \* pieces of heap memory, used again after free
  Numbers,     \* integers, floats and pointers
  Short, Long, \* texts and blobs that fit in place (21 and 22 bytes), or do not
  Nothing,     \* SQL NULL
  Lost,        \* for the properties: the value behind a null buffer
  Gone,        \* no value
  None         \* a null pointer

VARIABLES
  slot,     \* the fields of each variable
  mem,      \* the content of each block, or Gone when it is not allocated
  mine,     \* the blocks that the application has allocated and not given away
  answer    \* what the last call returned, if it is one that returns a status

vars == <<slot, mem, mine, answer>>

Contents == Short \cup Long

InPlace(d, imm) == [rep |-> "inplace", data |-> d, ptr |-> None, borrowed |-> FALSE, immutable |-> imm]
Heap(b, borrowed, imm) == [rep |-> "heap", data |-> Nothing, ptr |-> b, borrowed |-> borrowed, immutable |-> imm]
OutOfScope == [rep |-> "gone", data |-> Nothing, ptr |-> None, borrowed |-> FALSE, immutable |-> FALSE]

Init ==
  /\ slot = [s \in Slots |-> OutOfScope]
  /\ mem = [b \in Blocks |-> Gone]
  /\ mine = {}
  /\ answer = "none"

Exists(s) == slot[s].rep # "gone"
Immutable(s) == slot[s].immutable
Borrowed(v) == v.rep = "heap" /\ v.borrowed

\* Mutant of Freed: what is borrowed is freed as well.
FreedBorrowed(v) == IF v.rep = "heap" THEN {v.ptr} \ {None} ELSE {}

\* The block that free_heap frees, if any.
Freed(v) == IF v.rep = "heap" /\ ~v.borrowed THEN {v.ptr} \ {None} ELSE {}

Free == {b \in Blocks : mem[b] = Gone}

\* What malloc may return when "available" is free.
Malloc(available) == available \cup {None}

\* The blocks of "freed" are given back, b (if there was memory) gets a content.
Memory(freed, b, c) ==
  mem' = [x \in Blocks |-> IF x = b THEN c ELSE IF x \in freed THEN Gone ELSE mem[x]]

Sets(s, v) == slot' = [slot EXCEPT ![s] = v]

Says(a) == answer' = a

Refused(a) == Says(a) /\ UNCHANGED <<slot, mem, mine>>

-----------------------------------------------------------------------------
(* Construction *)

\* init_buffer, after "freed" has been freed: without memory the buffer is null.
InitBuffer(s, c, imm, freed) ==
  \/ /\ c \in Short
     /\ Sets(s, InPlace(c, imm))
     /\ Memory(freed, None, c)
  \/ /\ c \in Long
     /\ \E b \in Malloc(Free \cup freed) : Sets(s, Heap(b, FALSE, imm)) /\ Memory(freed, b, c)

Construct(s, c, imm) ==
  /\ ~Exists(s)
  /\ InitBuffer(s, c, imm, {})
  /\ Says("none") /\ UNCHANGED mine

\* copy_from: the bytes and, unless it is null, a buffer of its own.
CopyFrom(s, v, imm, freed) ==
  IF v.rep = "heap" /\ v.ptr # None
    THEN \E b \in Malloc(Free \cup freed) :
           Sets(s, Heap(b, FALSE, imm)) /\ Memory(freed, b, mem[v.ptr])
    ELSE Sets(s, [v EXCEPT !.borrowed = FALSE, !.immutable = imm]) /\ Memory(freed, None, Nothing)

\* The copy constructors: with the immutability of t, or with one that is given.
CopyConstruct(s, t) ==
  /\ ~Exists(s) /\ Exists(t)
  /\ \E imm \in BOOLEAN : CopyFrom(s, slot[t], imm, {})
  /\ Says("none") /\ UNCHANGED mine

\* move_from: t is left null.
MoveFrom(s, t, freed) ==
  IF Immutable(t) THEN CopyFrom(s, slot[t], TRUE, freed)
  ELSE /\ slot' = [slot EXCEPT ![s] = slot[t], ![t] = InPlace(Nothing, FALSE)]
       /\ Memory(freed, None, Nothing)

MoveConstruct(s, t) ==
  /\ ~Exists(s) /\ Exists(t)
  /\ MoveFrom(s, t, {})
  /\ Says("none") /\ UNCHANGED mine

\* from_borrowed_text, from_borrowed_blob
Borrow(s, b, imm) ==
  /\ ~Exists(s) /\ b \in mine
  /\ Sets(s, IF mem[b] \in Short THEN InPlace(mem[b], imm) ELSE Heap(b, TRUE, imm))
  /\ Says("none") /\ UNCHANGED <<mem, mine>>

\* transfer_text, transfer_blob: the caller's pointer is null afterwards.
Transfer(s, b, imm) ==
  /\ ~Exists(s) /\ b \in mine /\ \A t \in Slots : slot[t].ptr # b
  /\ mine' = mine \ {b}
  /\ IF mem[b] \in Short
       THEN Sets(s, InPlace(mem[b], imm)) /\ Memory({b}, None, Nothing)
       ELSE Sets(s, Heap(b, FALSE, imm)) /\ UNCHANGED mem
  /\ Says("none")

Destroy(s) ==
  /\ Exists(s)
  /\ Memory(Freed(slot[s]), None, Nothing)
  /\ Sets(s, OutOfScope)
  /\ Says("none") /\ UNCHANGED mine

\* try_clone: no value is made when there is no memory.
TryClone(s, t) ==
  /\ ~Exists(s) /\ Exists(t) /\ UNCHANGED mine
  /\ LET v == slot[t] IN
     IF v.rep = "heap" /\ v.ptr # None
       THEN \/ \E b \in Free : /\ Sets(s, Heap(b, FALSE, v.immutable))
                               /\ Memory({}, b, mem[v.ptr])
                               /\ Says("ok")
            \/ Says("nomem") /\ UNCHANGED <<slot, mem>>
       ELSE CopyFrom(s, v, v.immutable, {}) /\ Says("ok")

-----------------------------------------------------------------------------
(* Assignment *)

SetNull(s) ==
  /\ Exists(s) /\ ~Immutable(s)
  /\ Memory(Freed(slot[s]), None, Nothing)
  /\ Sets(s, InPlace(Nothing, FALSE))
  /\ Says("none") /\ UNCHANGED mine

\* set_integer, set_float
SetNumber(s, n) ==
  /\ Exists(s) /\ ~Immutable(s)
  /\ Memory(Freed(slot[s]), None, Nothing)
  /\ Sets(s, InPlace(n, FALSE))
  /\ Says("none") /\ UNCHANGED mine

\* set_text, set_blob: the old buffer is freed first.  (c is not part of it.)
Set(s, c) ==
  /\ Exists(s) /\ ~Immutable(s)
  /\ InitBuffer(s, c, FALSE, Freed(slot[s]))
  /\ Says("none") /\ UNCHANGED mine

\* The new buffer is allocated first.
TrySetLong(s, c) ==
  \/ /\ \E b \in Free : Sets(s, Heap(b, FALSE, FALSE)) /\ Memory(Freed(slot[s]), b, c)
     /\ Says("ok")
  \/ Says("nomem") /\ UNCHANGED <<slot, mem>>

\* try_set_text, try_set_blob
TrySet(s, c) ==
  /\ Exists(s) /\ UNCHANGED mine
  /\ IF Immutable(s) THEN Refused("readonly")
     ELSE \/ c \in Short /\ InitBuffer(s, c, FALSE, Freed(slot[s])) /\ Says("ok")
          \/ c \in Long /\ TrySetLong(s, c)

\* operator=(const SqliteValueOwned&)
Assign(s, t) ==
  /\ Exists(s) /\ Exists(t)
  /\ IF Immutable(s) \/ s = t THEN Refused("none")
     ELSE /\ CopyFrom(s, slot[t], Immutable(t), Freed(slot[s]))
          /\ Says("none") /\ UNCHANGED mine

\* operator=(SqliteValueOwned&&)
MoveAssign(s, t) ==
  /\ Exists(s) /\ Exists(t)
  /\ IF Immutable(s) \/ s = t THEN Refused("none")
     ELSE MoveFrom(s, t, Freed(slot[s])) /\ Says("none") /\ UNCHANGED mine

SetImmutable(s, imm) ==
  /\ Exists(s)
  /\ Sets(s, [slot[s] EXCEPT !.immutable = imm])
  /\ Says("none") /\ UNCHANGED <<mem, mine>>

-----------------------------------------------------------------------------
(* Copy on write *)

\* clone_in_place and try_clone_in_place, which differ in what they say.
CloneInPlace(s, tells) ==
  /\ Exists(s) /\ UNCHANGED mine
  /\ IF Borrowed(slot[s])
       THEN \/ \E b \in Free : /\ Sets(s, Heap(b, FALSE, Immutable(s)))
                               /\ Memory({}, b, mem[slot[s].ptr])
                               /\ Says(IF tells THEN "ok" ELSE "none")
            \/ Says(IF tells THEN "nomem" ELSE "none") /\ UNCHANGED <<slot, mem>>
       ELSE Says(IF tells THEN "ok" ELSE "none") /\ UNCHANGED <<slot, mem>>

\* Mutant of Written: the borrowed buffer is written to.
WrittenInPlace(s, c) ==
  /\ mem' = [mem EXCEPT ![slot[s].ptr] = c]
  /\ UNCHANGED slot

\* A borrowed buffer is cloned before it may be written to.
Written(s, c) ==
  IF Borrowed(slot[s])
    THEN \E b \in Free : Sets(s, Heap(b, FALSE, FALSE)) /\ Memory({}, b, c)
    ELSE mem' = [mem EXCEPT ![slot[s].ptr] = c] /\ UNCHANGED slot

\* The caller writes a content of the same length through mutable_data.  It gets
\* null, and writes nothing, when the value is immutable or no memory is left to
\* clone it.
MutableData(s, c) ==
  /\ Exists(s) /\ ~Immutable(s)
  /\ \/ /\ slot[s].rep = "inplace" /\ slot[s].data \in Short /\ c \in Short
        /\ Sets(s, InPlace(c, FALSE)) /\ UNCHANGED mem
     \/ /\ slot[s].rep = "heap" /\ slot[s].ptr # None /\ c \in Long
        /\ Written(s, c)
  /\ Says("none") /\ UNCHANGED mine

-----------------------------------------------------------------------------
(* The application, which keeps a buffer alive and unchanged while a value   *)
(* borrows it.                                                               *)

ApplicationAllocates(b, c) ==
  /\ mem[b] = Gone
  /\ mine' = mine \cup {b} /\ Memory({}, b, c)
  /\ Says("none") /\ UNCHANGED slot

ApplicationFrees(b) ==
  /\ b \in mine /\ \A s \in Slots : slot[s].ptr # b
  /\ mine' = mine \ {b} /\ Memory({b}, None, Nothing)
  /\ Says("none") /\ UNCHANGED slot

-----------------------------------------------------------------------------
Next ==
  \/ \E s \in Slots, c \in Contents : \/ Set(s, c) \/ TrySet(s, c) \/ MutableData(s, c)
                                      \/ \E imm \in BOOLEAN : Construct(s, c, imm)
  \/ \E s \in Slots : \/ Destroy(s) \/ SetNull(s)
                      \/ \E n \in Numbers : SetNumber(s, n)
                      \/ \E x \in BOOLEAN : SetImmutable(s, x) \/ CloneInPlace(s, x)
  \/ \E s, t \in Slots : \/ CopyConstruct(s, t) \/ MoveConstruct(s, t) \/ TryClone(s, t)
                         \/ Assign(s, t) \/ MoveAssign(s, t)
  \/ \E b \in Blocks : \/ \E s \in Slots, imm \in BOOLEAN : Borrow(s, b, imm) \/ Transfer(s, b, imm)
                       \/ \E c \in Contents : ApplicationAllocates(b, c)
                       \/ ApplicationFrees(b)

Spec == Init /\ [][Next]_vars

-----------------------------------------------------------------------------
(* Properties *)

OwnersOf(b) == {s \in Slots : b \in Freed(slot[s])}

TypeOK ==
  /\ slot \in [Slots -> [rep : {"gone", "inplace", "heap"}, data : Numbers \cup Short \cup {Nothing},
                         ptr : Blocks \cup {None}, borrowed : BOOLEAN, immutable : BOOLEAN]]
  /\ mem \in [Blocks -> Contents \cup {Gone}]
  /\ mine \in SUBSET Blocks
  /\ answer \in {"none", "ok", "nomem", "readonly"}

\* Every allocated block has one owner: the application, or one variable.  Nothing
\* leaks, nothing is freed twice, and what is borrowed is the application's.
OneOwner ==
  \A b \in Blocks :
    /\ mem[b] = Gone => b \notin mine /\ \A s \in Slots : slot[s].ptr # b
    /\ mem[b] # Gone => IF b \in mine THEN OwnersOf(b) = {} ELSE Cardinality(OwnersOf(b)) = 1
    /\ \A s \in Slots : slot[s].ptr = b /\ s \notin OwnersOf(b) => Borrowed(slot[s]) /\ b \in mine

\* Only what does not fit in place is on the heap.
ValuesConsistent ==
  /\ TypeOK /\ OneOwner
  /\ \A s \in Slots : slot[s].ptr # None => slot[s].rep = "heap" /\ mem[slot[s].ptr] \in Long

ValueOf(v) == CASE v.rep = "gone" -> Gone
                [] v.rep = "inplace" -> v.data
                [] v.rep = "heap" -> IF v.ptr = None THEN Lost ELSE mem[v.ptr]

Abstract == INSTANCE ValueStore WITH
  Buffers <- Blocks, Contents <- Numbers \cup Contents,
  value <- [s \in Slots |-> ValueOf(slot[s])],
  immutable <- [s \in Slots |-> slot[s].immutable],
  buffer <- [b \in Blocks |-> IF b \in mine THEN mem[b] ELSE Gone]

\* A call changes the variable it is made on and no other; immutable variables and
\* the application's buffers stay as they are; an error leaves everything as it was.
ImplementsValueStore == Abstract!Spec

=============================================================================
