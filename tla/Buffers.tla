------------------------------- MODULE Buffers -------------------------------
(***************************************************************************)
(* The linear containers of stl/duo_linear.h and stl/duo_linear.hpp: Bytes *)
(* and String, which keep a short content in place, Vector, and the three  *)
(* that are given a buffer which does not grow.  A container is used by    *)
(* one thread; a call is one step.  Memory is a sequence of cells: one     *)
(* that is written past its end gets longer, and what lies behind the      *)
(* content is forgotten (becomes Junk), because nobody may read it.        *)
(***************************************************************************)
EXTENDS Integers, Sequences, FiniteSets, SequencesExt

CONSTANTS
  Kinds,      \* which of the containers
  Objects,    \* the containers, which are all of one kind
  Elements,   \* bytes, characters, values (numbers)
  Uppers,     \* the capital letters; the number after each is its small letter
  Junk,       \* what uninitialised memory holds
  InlineSize, \* DUO_SBO_BYTES_INLINE_CAP, 23 in the code
  FirstCap, Slow, Slower, \* of duo_geometric_grow_cap: 4, 256, 4096 in the code
  Wanted,     \* capacities that are asked for
  Provided,   \* capacities of the buffers that are given
  MaxTier, MinBase, \* the tiers of buffers on the stack: 1024 and 32 bytes in the code
  MaxLength,  \* bound on the contents
  MallocFails

VARIABLES
  kind,  \* one of Kinds, chosen once
  buf,   \* the containers
  ok     \* whether the last call succeeded

vars == <<kind, buf, ok>>

Zero == 0   \* the zero byte

Terminated == kind \in {"string", "fixed string"}
Fixed == kind \in {"fixed bytes", "fixed string", "fixed vector", "c fixed vector"}
Constructs == kind \in {"vector", "fixed vector"}

\* Cells behind the content that belong to it.
End == IF Terminated THEN 1 ELSE 0

InlineCap == CASE kind = "bytes" -> InlineSize [] kind = "string" -> InlineSize - 1 [] OTHER -> 0

-----------------------------------------------------------------------------
(* Memory *)

Raw(n) == [i \in 1 .. n |-> Junk]

Write(cells, at, data) ==
  [i \in 1 .. Max({Len(cells)} \cup {at + j : j \in DOMAIN data}) |->
     CASE i - at \in DOMAIN data -> data[i - at]
       [] i - at \notin DOMAIN data /\ i <= Len(cells) -> cells[i]
       [] OTHER -> Junk]

Memmove(cells, to, from, n) == Write(cells, to, SubSeq(cells, from + 1, from + n))

\* Mutant of Relocated: always upwards.
RelocatedUpwards(cells, to, from, n) ==
  FoldLeft(LAMBDA c, j : [Write(c, to + j - 1, <<c[from + j]>>) EXCEPT ![from + j] = Junk],
           cells, [j \in 1 .. n |-> j])

\* relocate_n: each element is constructed anew and the old one destroyed, in
\* the direction in which no element is lost.
Relocated(cells, to, from, n) ==
  FoldLeft(LAMBDA c, j : [Write(c, to + j - 1, <<c[from + j]>>) EXCEPT ![from + j] = Junk],
           cells, IF to < from THEN [j \in 1 .. n |-> j] ELSE [j \in 1 .. n |-> n + 1 - j])

Shifted(cells, to, from, n) ==
  IF Constructs THEN Relocated(cells, to, from, n) ELSE Memmove(cells, to, from, n)

-----------------------------------------------------------------------------
(* Buffers *)

\* "place" tells where the cells are; "blocks" counts the heap blocks that were
\* allocated for the container and not freed.
Buffer(place, cap, size, cells, blocks) ==
  [place |-> place, cap |-> cap, size |-> size, cells |-> cells, blocks |-> blocks]

Content(b) == SubSeq(b.cells, 1, b.size)

\* A text is followed by a zero.
Ended(b) == IF Terminated /\ b.place # "none" THEN [b EXCEPT !.cells = Write(@, b.size, <<Zero>>)] ELSE b

Forget(b) ==
  LET used == Min({b.size + End, Len(b.cells)}) IN
  [b EXCEPT !.cells = SubSeq(@, 1, used) \o Raw(Len(@) - used)]

HeapBlock(b) == IF b.place = "heap" THEN 1 ELSE 0

\* As duo_bytes_init leaves it, blocks being what has been freed wrongly or not at all.
Fresh(blocks) ==
  IF InlineCap > 0 THEN Forget(Ended(Buffer("inline", InlineCap, 0, Raw(InlineSize), blocks)))
  ELSE Buffer("none", 0, 0, <<>>, blocks)

Destroyed(b) == Fresh(b.blocks - HeapBlock(b))

\* duo_geometric_grow_cap
GrowCap(cap) ==
  CASE cap < FirstCap /\ cap < Slow -> FirstCap
    [] cap >= FirstCap /\ cap < Slow -> 2 * cap
    [] cap >= Slow /\ cap < Slower -> cap + cap \div 2
    [] OTHER -> cap + cap \div 4

\* The content in a heap block of another size.
Reallocated(b, cap) ==
  Ended(Buffer("heap", cap, b.size, Content(b) \o Raw(cap + End - b.size), b.blocks + 1 - HeapBlock(b)))

\* The container with room for n elements, if there is memory.
WithRoom(b, n) ==
  CASE n <= b.cap -> {b}
    [] n > b.cap /\ ~Fixed -> {Reallocated(b, Max({GrowCap(b.cap), n}))}
    [] n > b.cap /\ Fixed -> {}

MayLackRoom(b, n) == n > b.cap /\ (Fixed \/ MallocFails)

-----------------------------------------------------------------------------
(* Buffers on the stack: duo_with_stack_bytes and its kin hand a function a  *)
(* container whose buffer is rounded up to one of a few sizes, or allocated. *)

StackTier(n) ==
  IF n <= MinBase \div 4 THEN MinBase \div 4
  ELSE LET base == Max({MinBase} \cup {2 ^ k : k \in {k \in 0 .. 16 : 2 ^ k <= n - 1}})
           step == base \div 4
       IN  ((n + step - 1) \div step) * step

\* How many cells the buffer has for a container of capacity cap.
StackVec(cap) == IF cap <= MaxTier THEN StackTier(cap) ELSE cap
StackBytes(cap) == IF cap <= MaxTier THEN StackTier(cap) ELSE Max({cap, 1})
StackString(cap) == IF cap <= MaxTier THEN StackTier(cap) + 1 ELSE Max({cap, 1}) + 1

Given(cap) ==
  LET cells == CASE kind = "fixed string" -> StackString(cap)
                 [] kind = "fixed bytes" -> StackBytes(cap)
                 [] OTHER -> StackVec(cap)
  IN  Forget(Ended(Buffer("outside", cap, 0, Raw(cells), 0)))

Init ==
  /\ kind \in Kinds
  /\ \E cap \in IF Fixed THEN Provided ELSE {0} :
       buf = [o \in Objects |-> IF Fixed THEN Given(cap) ELSE Fresh(0)]
  /\ ok = TRUE

-----------------------------------------------------------------------------
(* Calls on one container *)

Fails == ok' = FALSE /\ UNCHANGED <<kind, buf>>

Becomes(o, b) ==
  /\ buf' = [buf EXCEPT ![o] = Forget(Ended(b))]
  /\ ok' = TRUE /\ UNCHANGED kind

\* push_back and append
AppendAll(o, d) ==
  LET n == buf[o].size + Len(d) IN
  /\ n <= MaxLength
  /\ \/ \E b \in WithRoom(buf[o], n) : Becomes(o, [b EXCEPT !.cells = Write(@, b.size, d), !.size = n])
     \/ MayLackRoom(buf[o], n) /\ Fails

\* Mutant of Opened: the elements behind the place are not moved far enough.
OpenedByOne(b, i, d) ==
  [b EXCEPT !.cells = Write(Shifted(@, i + 1, i, b.size - i), i, d), !.size = @ + Len(d)]

\* A gap is made at i and filled.
Opened(b, i, d) ==
  [b EXCEPT !.cells = Write(Shifted(@, i + Len(d), i, b.size - i), i, d), !.size = @ + Len(d)]

Insert(o, i, d) ==
  LET n == buf[o].size + Len(d) IN
  /\ n <= MaxLength /\ Len(d) > 0
  /\ \/ i <= buf[o].size /\ \E b \in WithRoom(buf[o], n) : Becomes(o, Opened(b, i, d))
     \/ (i > buf[o].size \/ MayLackRoom(buf[o], n)) /\ Fails

\* n elements from i on; the vectors destroy them first.
Erase(o, i, n) ==
  LET b == buf[o] IN
  IF i + n > b.size THEN Fails
  ELSE Becomes(o, [b EXCEPT !.cells = Shifted(IF Constructs THEN Write(@, i, Raw(n)) ELSE @,
                                              i, i + n, b.size - (i + n)),
                            !.size = @ - n])

PopBack(o) ==
  IF buf[o].size = 0 THEN Fails ELSE Becomes(o, [buf[o] EXCEPT !.size = @ - 1])

Padding(b, n, e) == [j \in 1 .. n - b.size |-> e]

Resize(o, n, e) ==
  /\ n <= MaxLength
  /\ \/ \E b \in WithRoom(buf[o], n) :
          Becomes(o, [b EXCEPT !.cells = Write(@, b.size, Padding(b, n, e)), !.size = n])
     \/ MayLackRoom(buf[o], n) /\ Fails

\* Vector::reserve does not ask for more than n.
Reserve(o, n) ==
  /\ ~Fixed
  /\ \/ \E b \in WithRoom(buf[o], n) : Becomes(o, b)
     \/ kind = "vector" /\ n > buf[o].cap /\ Becomes(o, Reallocated(buf[o], n))
     \/ MayLackRoom(buf[o], n) /\ Fails

\* Back to where a short content belongs, or to a block that fits.  (A String
\* does not say that there was no memory.)
ShrinkToFit(o) ==
  LET b == buf[o] IN
  /\ b.place = "heap"
  /\ \/ /\ b.size <= InlineCap
        /\ LET f == Destroyed(b) IN Becomes(o, [f EXCEPT !.cells = Write(@, 0, Content(b)), !.size = b.size])
     \/ b.size > InlineCap /\ Becomes(o, Reallocated(b, b.size))
     \/ b.size > InlineCap /\ b.size < b.cap /\ MallocFails
        /\ UNCHANGED <<kind, buf>> /\ ok' = (kind = "string")

Clear(o) == Becomes(o, [buf[o] EXCEPT !.size = 0])

\* reset, destroy
Reset(o) == ~Fixed /\ Becomes(o, Destroyed(buf[o]))

-----------------------------------------------------------------------------
(* Calls on two containers *)

\* What an assignment puts its value into.
Emptied(b) == IF kind = "vector" THEN [b EXCEPT !.size = 0] ELSE Destroyed(b)

\* operator=(const&).  Without memory the container is left empty.
CopyAssign(o, p) ==
  LET e == Emptied(buf[o])
      n == buf[p].size
  IN  /\ ~Fixed /\ o # p
      /\ \/ \E b \in IF kind = "vector" /\ n > e.cap THEN {Reallocated(e, n)} ELSE WithRoom(e, n) :
              Becomes(o, [b EXCEPT !.cells = Write(@, 0, Content(buf[p])), !.size = n])
         \/ /\ MayLackRoom(e, n)
            /\ buf' = [buf EXCEPT ![o] = Forget(Ended(e))] /\ ok' = FALSE /\ UNCHANGED kind

\* operator=(&&).  A fixed container is left without its buffer.
MoveAssign(o, p) ==
  /\ o # p
  /\ buf' = [buf EXCEPT ![o] = [buf[p] EXCEPT !.blocks = @ + Destroyed(buf[o]).blocks], ![p] = Fresh(0)]
  /\ ok' = TRUE /\ UNCHANGED kind

Swap(o, p) ==
  /\ o # p
  /\ buf' = [buf EXCEPT ![o] = buf[p], ![p] = buf[o]]
  /\ ok' = TRUE /\ UNCHANGED kind

\* A constructor or an assignment from a view: without memory, empty.
Make(o, d, from) ==
  /\ Len(d) <= MaxLength
  /\ \/ \E b \in WithRoom(from, Len(d)) : Becomes(o, [b EXCEPT !.cells = Write(@, 0, d), !.size = Len(d)])
     \/ /\ MayLackRoom(from, Len(d))
        /\ buf' = [buf EXCEPT ![o] = Forget(Ended(from))] /\ ok' = FALSE /\ UNCHANGED kind

\* String::append(count, ch) pushes them one by one and stops when there is no memory.
AppendEach(o, e, n) ==
  /\ buf[o].size + n <= MaxLength
  /\ \/ AppendAll(o, [i \in 1 .. n |-> e])
     \/ \E k \in 1 .. n - 1 :
          /\ \E b \in WithRoom(buf[o], buf[o].size + k) :
               /\ b.cap = b.size + k /\ MallocFails
               /\ buf' = [buf EXCEPT ![o] = Forget(Ended([b EXCEPT !.cells = Write(@, b.size, [i \in 1 .. k |-> e]),
                                                                   !.size = @ + k]))]
          /\ ok' = FALSE /\ UNCHANGED kind

-----------------------------------------------------------------------------
(* The calls that each type has *)

Pieces == BoundedSeq(Elements, 2) \ {<<>>}
Singles == {<<e>> : e \in Elements}
Alike == {[i \in 1 .. n |-> e] : e \in Elements, n \in 1 .. 2}

Pushes(o, D) == \E d \in D : AppendAll(o, d)
Inserts(o, D) == \E d \in D, i \in 0 .. MaxLength + 1 : Insert(o, i, d)
Erases(o, N) == \E i \in 0 .. MaxLength, n \in N : Erase(o, i, n)
Resizes(o, E) == \E n \in 0 .. MaxLength, e \in E : Resize(o, n, e)
MakesRoom(o) == (\E n \in Wanted : Reserve(o, n)) \/ ShrinkToFit(o)

BytesRoom(o) == kind = "bytes" /\ MakesRoom(o)
BytesEdits(o) == kind = "bytes" /\ (Pushes(o, Pieces) \/ PopBack(o) \/ Inserts(o, Pieces))
BytesErases(o) == kind = "bytes" /\ (Erases(o, {1, 2}) \/ Resizes(o, {Zero}) \/ Clear(o) \/ Reset(o))
BytesAssigns(o, p) ==
  /\ kind = "bytes"
  /\ \/ CopyAssign(o, p) \/ MoveAssign(o, p) \/ Swap(o, p)
     \/ \E d \in Alike : Make(o, d, Destroyed(buf[o]))

FixedBytesEdits(o) ==
  /\ kind = "fixed bytes"
  /\ \/ Pushes(o, Pieces) \/ PopBack(o) \/ Inserts(o, Pieces) \/ Erases(o, {1, 2})
     \/ Resizes(o, Elements \cup {Zero}) \/ Clear(o)
FixedBytesAssigns(o, p) == kind = "fixed bytes" /\ (MoveAssign(o, p) \/ Swap(o, p))

StringRoom(o) == kind = "string" /\ MakesRoom(o)
StringEdits(o) == kind = "string" /\ (Pushes(o, Pieces) \/ PopBack(o) \/ Inserts(o, Pieces))
StringErases(o) == kind = "string" /\ (Erases(o, {1, 2}) \/ Clear(o) \/ Reset(o))
StringAssigns(o, p) ==
  /\ kind = "string"
  /\ \/ CopyAssign(o, p) \/ MoveAssign(o, p)
     \/ \E d \in Alike : Make(o, d, [buf[o] EXCEPT !.size = 0]) \/ Make(o, d, Destroyed(buf[o]))
StringClass(o, p) == kind = "string" /\ (Swap(o, p) \/ \E e \in Elements : AppendEach(o, e, 2))

FixedStringMakes(o) == kind = "fixed string" /\ \E d \in Alike : Make(o, d, [buf[o] EXCEPT !.size = 0])
FixedStringEdits(o) ==
  /\ kind = "fixed string"
  /\ \/ Pushes(o, Pieces) \/ PopBack(o) \/ Inserts(o, Pieces) \/ Erases(o, {1, 2})
     \/ Resizes(o, Elements) \/ Clear(o)
FixedStringAssigns(o, p) == kind = "fixed string" /\ (MoveAssign(o, p) \/ Swap(o, p))

VectorRoom(o) == kind = "vector" /\ (MakesRoom(o) \/ Clear(o) \/ Reset(o))
VectorEdits(o) ==
  /\ kind = "vector"
  /\ Pushes(o, Singles) \/ PopBack(o) \/ Inserts(o, Singles) \/ Erases(o, {1, 2})
VectorResizes(o) == kind = "vector" /\ Resizes(o, Elements)
VectorMakes(o) == kind = "vector" /\ \E d \in Alike : Make(o, d, Destroyed(buf[o]))
VectorAssigns(o, p) == kind = "vector" /\ (CopyAssign(o, p) \/ MoveAssign(o, p) \/ Swap(o, p))

FixedVectorEdits(o) ==
  /\ kind = "fixed vector"
  /\ Pushes(o, Singles) \/ PopBack(o) \/ Inserts(o, Singles) \/ Erases(o, {1, 2}) \/ Clear(o)
FixedVectorResizes(o) == kind = "fixed vector" /\ Resizes(o, Elements)
FixedVectorAssigns(o, p) == kind = "fixed vector" /\ (MoveAssign(o, p) \/ Swap(o, p))

\* The vectors of C, whose elements are moved as memory.
PlainVector(o) ==
  /\ kind = "c vector"
  /\ \/ Pushes(o, Singles) \/ PopBack(o) \/ Inserts(o, Singles) \/ Erases(o, {1})
     \/ Resizes(o, Elements) \/ Clear(o) \/ Reset(o) \/ MakesRoom(o)
PlainFixedVector(o) ==
  /\ kind = "c fixed vector"
  /\ \/ Pushes(o, Singles) \/ PopBack(o) \/ Inserts(o, Singles) \/ Erases(o, {1})
     \/ Resizes(o, Elements) \/ Clear(o)

Next ==
  \E o \in Objects :
    \/ BytesRoom(o) \/ BytesEdits(o) \/ BytesErases(o) \/ FixedBytesEdits(o)
    \/ StringRoom(o) \/ StringEdits(o) \/ StringErases(o) \/ FixedStringMakes(o) \/ FixedStringEdits(o)
    \/ VectorRoom(o) \/ VectorEdits(o) \/ VectorResizes(o) \/ VectorMakes(o)
    \/ FixedVectorEdits(o) \/ FixedVectorResizes(o) \/ PlainVector(o) \/ PlainFixedVector(o)
    \/ \E p \in Objects :
         \/ BytesAssigns(o, p) \/ FixedBytesAssigns(o, p) \/ StringAssigns(o, p) \/ StringClass(o, p)
         \/ FixedStringAssigns(o, p) \/ VectorAssigns(o, p) \/ FixedVectorAssigns(o, p)

Spec == Init /\ [][Next]_vars

-----------------------------------------------------------------------------
(* Reading: duo_str_view_t and StringView *)

\* -1, 0 or 1: memcmp of the common length, then the lengths.
Compare(s, t) ==
  LET n == Min({Len(s), Len(t)})
      d == SelectInSeq([i \in 1 .. n |-> i], LAMBDA i : s[i] # t[i])
      Sign(x, y) == IF x < y THEN -1 ELSE IF x > y THEN 1 ELSE 0
  IN  IF d # 0 THEN Sign(s[d], t[d]) ELSE Sign(Len(s), Len(t))

Lower(s) == [i \in DOMAIN s |-> IF s[i] \in Uppers THEN s[i] + 1 ELSE s[i]]
CaseCompare(s, t) == Compare(Lower(s), Lower(t))

StartsWith(s, t) == Len(t) <= Len(s) /\ SubSeq(s, 1, Len(t)) = t
EndsWith(s, t) == Len(t) <= Len(s) /\ SubSeq(s, Len(s) - Len(t) + 1, Len(s)) = t

\* Mutant of Find: the last place is not tried.
FindTooFew(s, t) ==
  IF Len(t) = 0 THEN 0
  ELSE SelectInSeq([i \in 1 .. Len(s) - Len(t) |-> i], LAMBDA i : SubSeq(s, i, i + Len(t) - 1) = t) - 1

\* The first place where t begins in s, from 0, or -1.
Find(s, t) ==
  IF Len(t) = 0 THEN 0
  ELSE SelectInSeq([i \in 1 .. Len(s) + 1 - Len(t) |-> i], LAMBDA i : SubSeq(s, i, i + Len(t) - 1) = t) - 1

Substr(s, pos, count) ==
  LET from == Min({pos, Len(s)}) IN SubSeq(s, from + 1, from + Min({count, Len(s) - from}))

\* The C function, as long as pos + count does not overflow.
Subview(s, pos, count) ==
  IF pos >= Len(s) THEN <<>> ELSE SubSeq(s, pos + 1, IF pos + count > Len(s) THEN Len(s) ELSE pos + count)

-----------------------------------------------------------------------------
(* Properties *)

TypeOK ==
  /\ kind \in Kinds /\ ok \in BOOLEAN
  /\ \A o \in Objects : /\ {buf[o].cap, buf[o].size} \subseteq Nat
                        /\ Range(buf[o].cells) \subseteq Elements \cup {Zero, Junk}

\* Nothing is written past the end of the memory there is, and nothing read that
\* was not written.
InBounds ==
  \A o \in Objects :
    LET b == buf[o] IN
    /\ b.size <= b.cap
    /\ Len(b.cells) \in
         CASE b.place = "inline" -> {InlineSize}
           [] b.place = "heap" -> {b.cap + End}
           [] b.place = "none" -> {b.cap}
           [] b.place = "outside" -> {n \in Nat : n >= b.cap + End}
    /\ Junk \notin Range(Content(b))

\* A text can be read as a C string.
Terminates == Terminated => \A o \in Objects : buf[o].place # "none" => buf[o].cells[buf[o].size + 1] = Zero

\* Every container owns the block it is in, and no other.
NoLeak == \A o \in Objects : buf[o].blocks = HeapBlock(buf[o])

BuffersConsistent == TypeOK /\ InBounds /\ Terminates /\ NoLeak

\* Comparing is an order in which equal texts are equal; searching finds the first
\* occurrence and agrees with the tests of both ends; slices agree.
TextsAgree ==
  \A o, p \in Objects :
    LET s == Content(buf[o])
        t == Content(buf[p])
    IN  /\ Compare(s, t) = -Compare(t, s) /\ (Compare(s, t) = 0 <=> s = t)
        /\ Len(s) = Len(t) => (CaseCompare(s, t) = 0 <=> \A i \in DOMAIN s : Lower(s)[i] = Lower(t)[i])
        /\ Find(s, t) = -1 <=> \A i \in 0 .. Len(s) : Substr(s, i, Len(t)) # t
        /\ Find(s, t) # -1 => Substr(s, Find(s, t), Len(t)) = t
        /\ StartsWith(s, t) <=> Find(s, t) = 0
        /\ EndsWith(s, t) => Compare(s, Substr(s, 0, Len(s) - Len(t)) \o t) = 0
        /\ \A i, n \in 0 .. MaxLength : Subview(s, i, n) = Substr(s, i, n)

Promise == INSTANCE Lists WITH
  list <- [o \in Objects |-> Content(buf[o])], Unset <- Zero, Longest <- 2

\* A call that succeeds changes the elements as it says; one that fails changes
\* nothing, however the memory was arranged.
ImplementsLists == Promise!Spec
=============================================================================
