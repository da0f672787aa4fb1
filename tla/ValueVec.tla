------------------------------ MODULE ValueVec ------------------------------
(***************************************************************************)
(* The containers of owned SQLite values: SqliteValueVec<N>, which keeps   *)
(* up to N values in place of its heap pointer, SqliteValueVec<0>, which   *)
(* is always in the heap, and the two tuples.  Values are moved between    *)
(* buffers as memory, so "owned" counts those that were constructed and    *)
(* not destroyed.  One thread uses a container; a call is one step.  The   *)
(* calls that do not begin with try_ are taken to find memory: without it  *)
(* they write through a null pointer.                                      *)
(***************************************************************************)
EXTENDS Integers, Sequences, FiniteSetsExt

CONSTANTS
  VecKinds,   \* which of the containers
  Vecs,       \* the containers, which are all of one kind
  Values,     \* values that own memory (numbers above Null)
  Inline,     \* N
  FirstRoom,  \* the first capacity of SqliteValueVec<0>: 8 in the code
  CapLimit,   \* a vector in the heap keeps its capacity modulo this: 2^16 in the code
  MaxWidth,   \* columns up to which a row has storage on the stack: 8 in the code
  Rooms,      \* capacities that are asked for
  MaxLen,     \* bound on the contents
  NoMemory    \* whether the allocation of a try_ call may fail

VARIABLES
  vkind,  \* one of VecKinds, chosen once
  vecs,   \* the containers
  owned,  \* values that own memory and are alive
  good    \* whether the last call succeeded

vars == <<vkind, vecs, owned, good>>

Null == 0    \* SQL's NULL, an active value that owns nothing
Hole == -1   \* zero bytes: not a value

Tuple == vkind \in {"tuple", "tuple 0"}

\* Where in s there are values that own memory, and how many.
OwnedAt(s) == {i \in DOMAIN s : s[i] \in Values}
OwnedIn(s) == Cardinality(OwnedAt(s))

Copies(n, x) == [i \in 1 .. n |-> x]

\* In place: the cells that are values come first.
Stack(s) ==
  [heap |-> FALSE, room |-> Inline, cap |-> Inline, size |-> 0, cells |-> s \o Copies(Inline - Len(s), Hole)]

\* A new buffer for n values, into which s is copied, even past its end.  The vector
\* does not keep the whole capacity.
Heap(n, s) ==
  [heap |-> n > 0, room |-> n, cap |-> IF vkind = "vec" THEN n % CapLimit ELSE n, size |-> Len(s),
   cells |-> s \o Copies(n - Len(s), Hole)]

Empty == IF vkind = "vec" THEN Stack(<<>>) ELSE Heap(0, <<>>)

\* In place the active cells are counted.
SizeOf(v) == IF v.heap \/ vkind # "vec" THEN v.size ELSE Cardinality({i \in 1 .. Inline : v.cells[i] # Hole})

Content(v) == SubSeq(v.cells, 1, SizeOf(v))

\* The tuple that holds a row of n columns.
RowStorage(n) == IF n \in 1 .. MaxWidth THEN "tuple" ELSE "tuple 0"

Init ==
  /\ vkind \in VecKinds
  /\ \E n \in IF Tuple THEN {n \in 0 .. MaxLen : RowStorage(n) = vkind} ELSE {0} :
       vecs = [o \in Vecs |-> IF Tuple THEN Heap(n, Copies(n, Null)) ELSE Empty]
  /\ owned = 0 /\ good = TRUE

Fails == good' = FALSE /\ UNCHANGED <<vkind, vecs, owned>>

\* The container becomes v; values were born and others died.
Becomes(o, v, born, died) ==
  /\ vecs' = [vecs EXCEPT ![o] = v]
  /\ owned' = owned + born - died
  /\ good' = TRUE /\ UNCHANGED vkind

-----------------------------------------------------------------------------
(* Sizes *)

\* The first n, or all of them and then nulls.
Fitted(s, n) == SubSeq(s, 1, Min({n, Len(s)})) \o Copies(n - Len(s), Null)

Dropped(v, n) == OwnedIn(SubSeq(v.cells, n + 1, SizeOf(v)))

Refitted(v, n) ==
  [v EXCEPT !.size = n, !.cells = LET s == Fitted(Content(v), n) IN s \o Copies(Len(v.cells) - n, Hole)]

\* resize of SqliteValueVec<N>: a short content goes back in place.
Resized(v, n) ==
  CASE n <= Inline -> Stack(Fitted(Content(v), n))
    [] n > Inline /\ ~v.heap -> Heap(n, Fitted(Content(v), n))
    [] n > Inline /\ v.heap -> Refitted(IF n > v.cap THEN Heap(n, Content(v)) ELSE v, n)

\* resize of SqliteValueVec<0>.
ResizedHeap(v, n) ==
  CASE n = v.size -> v
    [] n = 0 /\ v.size > 0 -> Empty
    [] OTHER -> Refitted(IF n > v.cap THEN Heap(n, Content(v)) ELSE v, n)

Sized(v, n) == IF vkind = "vec" THEN Resized(v, n) ELSE ResizedHeap(v, n)

Reserved(v, n) == IF n <= v.cap THEN v ELSE Heap(n, Content(v))

\* What push_back asks for when it is full.
Doubled(v) ==
  IF vkind = "vec" THEN Max({Inline + 1, 2 * SizeOf(v)}) ELSE IF v.cap = 0 THEN FirstRoom ELSE 2 * v.cap

Roomy(v) == IF SizeOf(v) >= v.cap THEN Reserved(v, Doubled(v)) ELSE v

\* push_back: the value is constructed behind the last one.
Pushed(v, x) ==
  LET r == Roomy(v) IN
  [r EXCEPT !.cells[SizeOf(v) + 1] = x, !.size = IF r.heap THEN @ + 1 ELSE @]

Resize(o, n) == Becomes(o, Sized(vecs[o], n), 0, Dropped(vecs[o], n))

Reserve(o, n) == Becomes(o, Reserved(vecs[o], n), 0, 0)

PushBack(o, x) ==
  /\ SizeOf(vecs[o]) < MaxLen
  /\ Becomes(o, Pushed(vecs[o], x), OwnedIn(<<x>>), 0)

PopBack(o) ==
  LET n == SizeOf(vecs[o]) IN n > 0 /\ Becomes(o, Sized(vecs[o], n - 1), 0, Dropped(vecs[o], n - 1))

\* The calls that report lack of memory.
TryReserve(o, n) == Reserve(o, n) \/ (NoMemory /\ n > vecs[o].cap /\ Fails)
TryResize(o, n) ==
  LET v == vecs[o] IN
  \/ Becomes(o, Sized(Reserved(v, n), n), 0, Dropped(v, n))
  \/ NoMemory /\ n > v.cap /\ Fails
TryPushBack(o, x) == PushBack(o, x) \/ (NoMemory /\ SizeOf(vecs[o]) >= vecs[o].cap /\ Fails)

ShrinkToFit(o) ==
  LET v == vecs[o]
      n == SizeOf(v)
  IN  Becomes(o, CASE v.heap /\ n <= Inline /\ vkind = "vec" -> Resized(v, n)
                   [] v.heap /\ n < v.cap /\ (vkind = "vec" => n > Inline) -> Heap(n, Content(v))
                   [] OTHER -> v, 0, 0)

-----------------------------------------------------------------------------
(* Values inside *)

\* The value at "from" is moved to "to"; what was there dies.
Taken(acc, to, from) ==
  [cells |-> [acc.cells EXCEPT ![to] = acc.cells[from], ![from] = Null],
   died |-> acc.died + OwnedIn(<<acc.cells[to]>>)]

Untouched(v) == [cells |-> v.cells, died |-> 0]

\* m values are moved, one after the other.
Moving(v, m, to, from) ==
  LET Moved[k \in 0 .. m] == IF k = 0 THEN Untouched(v) ELSE Taken(Moved[k - 1], to[k], from[k]) IN Moved[m]

\* Mutant of Gap: moved in the other order.
GapUpwards(v, i, n) ==
  LET m == SizeOf(v) - n - i IN Moving(v, m, [k \in 1 .. m |-> i + k + n], [k \in 1 .. m |-> i + k])

\* Values from i on are moved up by n, the last one first.
Gap(v, i, n) ==
  LET z == SizeOf(v) - n
      m == z - i
  IN  Moving(v, m, [k \in 1 .. m |-> z + n + 1 - k], [k \in 1 .. m |-> z + 1 - k])

\* n copies of x in place of what stands behind i.
Filling(acc, i, n, x) ==
  [cells |-> [j \in DOMAIN acc.cells |-> IF j \in i + 1 .. i + n THEN x ELSE acc.cells[j]],
   died |-> acc.died + OwnedIn(SubSeq(acc.cells, i + 1, i + n))]

Insert(o, pos, n, x) ==
  LET i == Min({pos, SizeOf(vecs[o])})
      v == Sized(vecs[o], SizeOf(vecs[o]) + n)
      acc == Filling(Gap(v, i, n), i, n, x)
  IN  /\ SizeOf(vecs[o]) + n <= MaxLen
      /\ Becomes(o, [v EXCEPT !.cells = acc.cells], n * OwnedIn(<<x>>), acc.died)

\* Values behind the n from i on are moved down.
Closed(v, i, n) ==
  LET m == SizeOf(v) - n - i IN Moving(v, m, [k \in 1 .. m |-> i + k], [k \in 1 .. m |-> i + k + n])

\* The gap is closed, and the end cut off.
Erase(o, i, n) ==
  LET v == vecs[o]
      acc == Closed(v, i, n)
      shifted == [v EXCEPT !.cells = acc.cells]
  IN  /\ n > 0 /\ i + n <= SizeOf(v)
      /\ Becomes(o, Sized(shifted, SizeOf(v) - n), 0, acc.died + Dropped(shifted, SizeOf(v) - n))

\* resize(count, val)
ResizeWith(o, n, x) ==
  LET v == vecs[o]
      new == n - SizeOf(v)
      r == Sized(v, n)
  IN  Becomes(o, [r EXCEPT !.cells = [i \in DOMAIN @ |-> IF SizeOf(v) < i /\ i <= n THEN x ELSE @[i]]],
              (IF new > 0 THEN new ELSE 0) * OwnedIn(<<x>>), Dropped(v, n))

Overwritten(v, x) == [v EXCEPT !.cells = [i \in DOMAIN @ |-> IF i <= SizeOf(v) THEN x ELSE @[i]]]

\* fill, set_null_all
Fill(o, x) ==
  LET n == SizeOf(vecs[o]) IN Becomes(o, Overwritten(vecs[o], x), n * OwnedIn(<<x>>), Dropped(vecs[o], 0))

\* assign(count, val)
AssignCopies(o, n, x) ==
  Becomes(o, Overwritten(Sized(Sized(vecs[o], 0), n), x), n * OwnedIn(<<x>>), Dropped(vecs[o], 0))

-----------------------------------------------------------------------------
(* Whole containers *)

\* Room for the values s, and the values in it.
Filled(s) ==
  CASE vkind = "vec" -> IF Len(s) <= Inline THEN Stack(s) ELSE Heap(Len(s), s)
    [] OTHER -> Heap(Len(s), s)

\* A constructor from a range; a tuple of a fixed size takes what fits.
Make(o, s) ==
  LET t == IF vkind = "tuple" THEN Fitted(s, SizeOf(vecs[o])) ELSE s IN
  Becomes(o, Filled(t), OwnedIn(t), Dropped(vecs[o], 0))

\* Columns of a row, picked by their indices; one that is out of range gives null.
Project(o, row, cols) ==
  Make(o, [i \in DOMAIN cols |-> IF cols[i] \in DOMAIN row THEN row[cols[i]] ELSE Null])

\* Mutant of Copy: the buffer is shared.
CopyShared(o, p) == o # p /\ Becomes(o, vecs[p], 0, Dropped(vecs[o], 0))

\* Copy construction and assignment.
Copy(o, p) ==
  o # p /\ Becomes(o, Filled(Content(vecs[p])), OwnedIn(Content(vecs[p])), Dropped(vecs[o], 0))

\* A container into which the values s are pushed one by one.
Cloned(s) ==
  LET Clone[k \in 0 .. Len(s)] == IF k = 0 THEN Empty ELSE Pushed(Clone[k - 1], s[k]) IN Clone[Len(s)]

\* try_clone, and its result moved into another container.
TryClone(o, p) ==
  LET c == Cloned(Content(vecs[p])) IN
  /\ o # p
  /\ Becomes(o, c, OwnedIn(Content(vecs[p])), Dropped(vecs[o], 0)) \/ (NoMemory /\ c.heap /\ Fails)

Move(o, p) ==
  /\ o # p
  /\ vecs' = [vecs EXCEPT ![o] = vecs[p], ![p] = Empty]
  /\ owned' = owned - Dropped(vecs[o], 0)
  /\ good' = TRUE /\ UNCHANGED vkind

\* A tuple of a fixed size is moved value by value, and nulls are left.
MoveValues(o, p) ==
  /\ o # p
  /\ vecs' = [vecs EXCEPT ![o] = vecs[p], ![p] = Overwritten(vecs[p], Null)]
  /\ owned' = owned - Dropped(vecs[o], 0)
  /\ good' = TRUE /\ UNCHANGED vkind

Swap(o, p) ==
  /\ o # p /\ vecs' = [vecs EXCEPT ![o] = vecs[p], ![p] = vecs[o]]
  /\ good' = TRUE /\ UNCHANGED <<vkind, owned>>

-----------------------------------------------------------------------------
(* The calls that each type has *)

Given == Values \cup {Null}
Lengths == 0 .. MaxLen
Ranges == {Copies(n, x) : n \in Lengths, x \in Given}

VecSizes(o) ==
  /\ vkind = "vec"
  /\ \/ \E n \in Lengths : Resize(o, n)
     \/ \E n \in Rooms : Reserve(o, n)
     \/ PopBack(o) \/ ShrinkToFit(o)
VecPushes(o) == vkind = "vec" /\ \E x \in Given : PushBack(o, x)
VecTries(o) ==
  /\ vkind = "vec"
  /\ \/ \E n \in Lengths : TryResize(o, n)
     \/ \E n \in Rooms : TryReserve(o, n)
     \/ \E x \in Given : TryPushBack(o, x)
VecMakes(o) == vkind = "vec" /\ \E s \in Ranges : Make(o, s)
VecCopies(o, p) == vkind = "vec" /\ (Copy(o, p) \/ TryClone(o, p))
VecMoves(o, p) == vkind = "vec" /\ (Move(o, p) \/ Swap(o, p))

HeapVecSizes(o) ==
  /\ vkind = "vec 0"
  /\ \/ \E n \in Lengths : Resize(o, n)
     \/ \E n \in Rooms : Reserve(o, n)
     \/ PopBack(o) \/ ShrinkToFit(o)
HeapVecPushes(o) == vkind = "vec 0" /\ \E x \in Given : PushBack(o, x)
HeapVecTries(o) ==
  /\ vkind = "vec 0"
  /\ \/ \E n \in Lengths : TryResize(o, n)
     \/ \E n \in Rooms : TryReserve(o, n)
     \/ \E x \in Given : TryPushBack(o, x)
HeapVecMakes(o) == vkind = "vec 0" /\ \E s \in Ranges : Make(o, s)
HeapVecCopies(o, p) == vkind = "vec 0" /\ (Copy(o, p) \/ Move(o, p) \/ Swap(o, p) \/ TryClone(o, p))

\* insert, erase, assign and resize with a value, which both vectors have.
VecEdits(o) ==
  /\ ~Tuple
  /\ \/ \E x \in Given, pos \in Lengths, n \in 1 .. 2 : Insert(o, pos, n, x)
     \/ \E i \in Lengths, n \in 1 .. 2 : Erase(o, i, n)
     \/ \E x \in Given, n \in Lengths : ResizeWith(o, n, x) \/ AssignCopies(o, n, x)
     \/ Fill(o, Null)

TupleMakes(o) ==
  /\ vkind = "tuple"
  /\ (\E s \in Ranges : Make(o, s)) \/ \E row \in Ranges : Project(o, row, <<1, 2, MaxLen + 1>>)
TupleCopies(o, p) == vkind = "tuple" /\ (Copy(o, p) \/ MoveValues(o, p) \/ Swap(o, p))
HeapTupleMakes(o) ==
  /\ vkind = "tuple 0"
  /\ (\E s \in Ranges : Make(o, s)) \/ \E row \in Ranges : Project(o, row, <<1, 2, MaxLen + 1>>)
HeapTupleCopies(o, p) == vkind = "tuple 0" /\ (Copy(o, p) \/ Move(o, p) \/ Swap(o, p))
TupleFills(o) == Tuple /\ \E x \in Given : Fill(o, x)

Next ==
  \E o \in Vecs :
    \/ VecSizes(o) \/ VecPushes(o) \/ VecTries(o) \/ VecMakes(o) \/ VecEdits(o)
    \/ HeapVecSizes(o) \/ HeapVecPushes(o) \/ HeapVecTries(o) \/ HeapVecMakes(o)
    \/ TupleMakes(o) \/ HeapTupleMakes(o) \/ TupleFills(o)
    \/ \E p \in Vecs :
         \/ VecCopies(o, p) \/ VecMoves(o, p) \/ HeapVecCopies(o, p)
         \/ TupleCopies(o, p) \/ HeapTupleCopies(o, p)

Spec == Init /\ [][Next]_vars

-----------------------------------------------------------------------------
(* Reading.  (Values are ordered as ValueOrder says; here by their numbers.) *)

RowEqual(s, t) == Len(s) = Len(t) /\ \A i \in DOMAIN s : s[i] = t[i]

RowLess(s, t) ==
  LET n == Min({Len(s), Len(t)})
      differ == {i \in 1 .. n : s[i] # t[i]}
  IN  IF differ = {} THEN Len(s) < Len(t) ELSE s[Min(differ)] < t[Min(differ)]

\* A row against a single value.
RowLessValue(s, x) == Len(s) = 0 \/ s[1] < x
RowGreaterValue(s, x) == Len(s) > 0 /\ (x < s[1] \/ (s[1] = x /\ Len(s) > 1))

-----------------------------------------------------------------------------
(* Properties *)

TypeOK ==
  /\ vkind \in VecKinds /\ owned \in Nat /\ good \in BOOLEAN
  /\ \A o \in Vecs : Range(vecs[o].cells) \subseteq Values \cup {Null, Hole}

\* Nothing is written past the end of a buffer, or read that is not a value; in place,
\* where the values are counted by their tags, they are the first cells.
InBounds ==
  \A o \in Vecs :
    LET v == vecs[o] IN
    /\ Len(v.cells) = v.room /\ SizeOf(v) <= v.room
    /\ Hole \notin Range(Content(v))
    /\ vkind # "vec" \/ v.heap \/ \A i \in SizeOf(v) + 1 .. Inline : v.cells[i] = Hole

\* No value is lost or destroyed twice.
AllOwned == owned = Cardinality(UNION {{o} \X OwnedAt(Content(vecs[o])) : o \in Vecs})

\* Rows and rows, and rows and values, are ordered.
RowsOrdered ==
  \A o, p \in Vecs :
    LET s == Content(vecs[o])
        t == Content(vecs[p])
    IN  /\ RowEqual(s, t) <=> ~RowLess(s, t) /\ ~RowLess(t, s)
        /\ Len(t) = 1 => /\ RowLessValue(s, t[1]) <=> RowLess(s, t)
                         /\ RowGreaterValue(s, t[1]) <=> RowLess(t, s)

VecsConsistent == TypeOK /\ InBounds /\ AllOwned /\ RowsOrdered

Promise == INSTANCE Lists WITH
  list <- [o \in Vecs |-> Content(vecs[o])], ok <- good, Objects <- Vecs, Elements <- Given,
  Unset <- Null, Longest <- MaxLen, MaxLength <- MaxLen

\* The calls do to the rows what they say, and a try_ call that fails does nothing.
ImplementsVecLists == Promise!Spec
=============================================================================
