-------------------------------- MODULE Bits --------------------------------
(***************************************************************************)
(* The bit containers of stl/duo_bit.h: arrays of a fixed size, vectors    *)
(* that keep a short content in place, and vectors in a buffer they are    *)
(* given.  Bits are kept in words, and most calls work on whole words, so  *)
(* the bits behind the content matter.  Memory is the sequence of the bits *)
(* of its words.  One thread uses a container; a call is one step.         *)
(***************************************************************************)
EXTENDS Integers, Sequences, FiniteSets, SequencesExt

CONSTANTS
  BitKinds,    \* which of the containers
  BitObjects,  \* the containers, which are all of one kind
  Word,        \* bits of a word: 64 in the code
  InlineBits,  \* DUO_BITVEC_INLINE_CAP: 128 in the code
  FirstHeap,   \* the first capacity in the heap: 256 in the code
  Asked,       \* capacities that are asked for
  MaxBits,     \* bound on the contents
  LacksMemory  \* whether malloc may fail

VARIABLES
  bkind,  \* one of BitKinds, chosen once
  bits,   \* the containers
  done    \* whether the last call succeeded

vars == <<bkind, bits, done>>

Bit == {0, 1}

\* A container: where the words are, how many bits there is room for, how many
\* there are, and the words.
Container(place, cap, count, cells) ==
  [place |-> place, cap |-> cap, count |-> count, cells |-> cells]

Content(b) == SubSeq(b.cells, 1, b.count)

Words(n) == (n + Word - 1) \div Word

Zeros(n) == [i \in 1 .. n |-> 0]

-----------------------------------------------------------------------------
(* Words *)

\* The bits of the last word behind the n-th are cleared, unless n is 0.
SanitizeTail(cells, n) ==
  IF n > 0 THEN [i \in DOMAIN cells |-> IF n < i /\ i <= Words(n) * Word THEN 0 ELSE cells[i]] ELSE cells

\* Word i of the first n bits, as the scans see it: masked when it is the last one.
Scanned(cells, n, i) ==
  {j \in (i - 1) * Word + 1 .. i * Word : (i = Words(n) => j <= n) /\ cells[j] = 1}

\* Mutant of CountOnes: the last word is not masked.
CountOnesUnmasked(b) ==
  Cardinality({j \in 1 .. Words(b.count) * Word : b.cells[j] = 1})

CountOnes(b) ==
  IF b.count = 0 THEN 0
  ELSE FoldLeft(LAMBDA n, i : n + Cardinality(Scanned(b.cells, b.count, i)), 0,
                [i \in 1 .. Words(b.count) |-> i])

\* The first bit that is set in the words from i on, counted from 0, or -1.
FindFrom(b, i) ==
  LET found == {k \in i .. Words(b.count) : Scanned(b.cells, b.count, k) # {}} IN
  IF found = {} THEN -1 ELSE Min(Scanned(b.cells, b.count, Min(found))) - 1

FindFirst(b) == IF b.count = 0 THEN -1 ELSE FindFrom(b, 1)

FindNext(b, prev) ==
  LET start == prev + 1
      w == start \div Word + 1
      here == {j \in Scanned(b.cells, b.count, w) : j > start}
  IN  IF b.count = 0 \/ prev >= b.count - 1 THEN -1
      ELSE IF here # {} THEN Min(here) - 1 ELSE FindFrom(b, w + 1)

\* -1, 0 or 1, by the first bit in which they differ.
Compare(a, b) ==
  LET n == Min({a.count, b.count})
      full == n \div Word
      differ(from, to) == {j \in from .. to : a.cells[j] # b.cells[j]}
      d == IF differ(1, full * Word) # {} THEN differ(1, full * Word) ELSE differ(full * Word + 1, n)
  IN  CASE d # {} -> IF a.cells[Min(d)] = 1 THEN 1 ELSE -1
        [] d = {} /\ a.count < b.count -> -1
        [] d = {} /\ a.count > b.count -> 1
        [] OTHER -> 0

CountZeros(b) == b.count - CountOnes(b)
AllSet(b) == b.count = 0 \/ CountOnes(b) = b.count
AnySet(b) == b.count # 0 /\ CountOnes(b) > 0
NoneSet(b) == b.count = 0 \/ CountOnes(b) = 0

\* What a BitView says of its bits, and of those of another one.
BitViewSays(a, b) ==
  [zeros |-> CountZeros(a), all |-> AllSet(a), any |-> AnySet(a), none |-> NoneSet(a),
   equal |-> Compare(a, b) = 0, less |-> Compare(a, b) < 0, atMost |-> Compare(a, b) <= 0]

-----------------------------------------------------------------------------
(* Making containers *)

Fresh(n) ==
  CASE bkind = "vector" -> Container("inline", InlineBits, 0, Zeros(InlineBits))
    [] bkind = "fixed vector" -> Container("outside", n, 0, Zeros(Words(n) * Word))
    [] bkind = "array" -> Container("heap", n, n, Zeros(Words(n) * Word))

Init ==
  /\ bkind \in BitKinds
  /\ \E n \in Asked : bits = [o \in BitObjects |-> Fresh(n)]
  /\ done = TRUE

Fails == done' = FALSE /\ UNCHANGED <<bkind, bits>>

Becomes(o, b) == bits' = [bits EXCEPT ![o] = b] /\ done' = TRUE /\ UNCHANGED bkind

\* duo_bitarray_init
MakeArray(o, n, x) ==
  /\ bkind = "array"
  /\ \/ Becomes(o, Container("heap", n, n, SanitizeTail([i \in 1 .. Words(n) * Word |-> x], n)))
     \/ LacksMemory /\ n > 0 /\ bits' = [bits EXCEPT ![o] = Fresh(0)] /\ done' = FALSE /\ UNCHANGED bkind

Grown(cap) == IF cap >= FirstHeap THEN 2 * cap ELSE FirstHeap

\* duo_bitvec_reserve: the words are copied, the rest is cleared.
Reserved(b, n) ==
  IF n <= Max({b.cap, InlineBits}) THEN b
  ELSE LET cap == Words(Max({Grown(b.cap), n})) * Word
           used == Words(b.count) * Word
       IN  Container("heap", cap, b.count, SubSeq(b.cells, 1, used) \o Zeros(cap - used))

MayLack(b, n) == n > b.cap /\ (bkind = "fixed vector" \/ LacksMemory)
MayHave(b, n) == n <= b.cap \/ bkind = "vector"

Reserve(o, n) ==
  /\ bkind = "vector"
  /\ Becomes(o, Reserved(bits[o], n)) \/ (n > InlineBits /\ MayLack(bits[o], n) /\ Fails)

\* Back in place, or into a block that fits.
ShrinkToFit(o) ==
  LET b == bits[o]
      used == Words(b.count) * Word
  IN  /\ bkind = "vector" /\ b.place = "heap"
      /\ \/ /\ b.count <= InlineBits
            /\ Becomes(o, Container("inline", InlineBits, b.count, SubSeq(b.cells, 1, used) \o Zeros(InlineBits - used)))
         \/ /\ b.count > InlineBits /\ used < b.cap
            /\ Becomes(o, Container("heap", used, b.count, SubSeq(b.cells, 1, used))) \/ (LacksMemory /\ Fails)

-----------------------------------------------------------------------------
(* Changing them *)

SetBit(cells, i, x) == [cells EXCEPT ![i] = x]

\* The bits from i on to n, one after the other.
SetBits(cells, i, n, x) == [j \in DOMAIN cells |-> IF i <= j /\ j <= n THEN x ELSE cells[j]]

\* The vector that is given its buffer clears the tail after each change.
Tidied(b) == IF bkind = "fixed vector" THEN [b EXCEPT !.cells = SanitizeTail(@, b.count)] ELSE b

PushBack(o, x) ==
  LET n == bits[o].count + 1
      b == IF bkind = "vector" THEN Reserved(bits[o], n) ELSE bits[o]
  IN  /\ bkind # "array" /\ n <= MaxBits
      /\ \/ MayHave(bits[o], n) /\ Becomes(o, Tidied([b EXCEPT !.cells = SetBit(@, n, x), !.count = n]))
         \/ MayLack(bits[o], n) /\ Fails

PopBack(o) ==
  LET b == bits[o] IN
  /\ bkind # "array"
  /\ IF b.count = 0 THEN Fails
     ELSE Becomes(o, Tidied([b EXCEPT !.cells = IF bkind = "vector" THEN SetBit(@, b.count, 0) ELSE @,
                                      !.count = @ - 1]))

Resize(o, n, x) ==
  LET b == IF bkind = "vector" THEN Reserved(bits[o], n) ELSE bits[o]
      cells == IF n > b.count THEN SetBits(b.cells, b.count + 1, n, x)
               ELSE IF bkind = "vector" THEN SetBits(b.cells, n + 1, b.count, 0) ELSE b.cells
  IN  /\ bkind # "array" /\ n <= MaxBits
      /\ \/ MayHave(bits[o], n) /\ Becomes(o, Tidied([b EXCEPT !.cells = cells, !.count = n]))
         \/ MayLack(bits[o], n) /\ Fails

\* In the heap only the first word is cleared.
Clear(o) ==
  LET b == bits[o] IN
  /\ bkind = "vector"
  /\ Becomes(o, [b EXCEPT !.count = 0,
                          !.cells = SetBits(@, 1, IF b.place = "heap" THEN Word ELSE InlineBits, 0)])

\* The tail of no bits is nothing, so the words stay as they are.
ClearFixed(o) == bkind = "fixed vector" /\ Becomes(o, Tidied([bits[o] EXCEPT !.count = 0]))

Assign(o, i, x) == i <= bits[o].count /\ Becomes(o, [bits[o] EXCEPT !.cells = SetBit(@, i, x)])

Flip(o, i) == i <= bits[o].count /\ Becomes(o, [bits[o] EXCEPT !.cells = SetBit(@, i, 1 - bits[o].cells[i])])

SetAll(o) ==
  LET n == bits[o].count IN
  n > 0 /\ Becomes(o, [bits[o] EXCEPT !.cells = SanitizeTail(SetBits(@, 1, Words(n) * Word, 1), n)])

ClearAll(o) == bits[o].count > 0 /\ Becomes(o, [bits[o] EXCEPT !.cells = SetBits(@, 1, Words(bits[o].count) * Word, 0)])

FlipAll(o) ==
  LET b == bits[o]
      last == Words(b.count) * Word
  IN  /\ b.count > 0
      /\ Becomes(o, [b EXCEPT !.cells = SanitizeTail([j \in DOMAIN @ |-> IF j <= last THEN 1 - @[j] ELSE @[j]], b.count)])

-----------------------------------------------------------------------------
(* Two containers *)

Promise == INSTANCE Lists WITH
  list <- [o \in BitObjects |-> Content(bits[o])], ok <- done, Objects <- BitObjects,
  Elements <- Bit, Unset <- 0, Longest <- 1, MaxLength <- MaxBits

\* Mutant of CombinedCells: only the first word.
CombinedOneWord(op, a, b) ==
  LET n == Min({a.count, b.count, Word}) IN
  SanitizeTail([j \in DOMAIN a.cells |->
                  IF j <= Words(n) * Word THEN Promise!Combined(op, a.cells[j], b.cells[j]) ELSE a.cells[j]], n)

\* Whole words as far as both have them, and the tail of what both have is cleared.
CombinedCells(op, a, b) ==
  LET n == Min({a.count, b.count}) IN
  SanitizeTail([j \in DOMAIN a.cells |->
                  IF j <= Words(n) * Word THEN Promise!Combined(op, a.cells[j], b.cells[j]) ELSE a.cells[j]], n)

Combine(op, o, p) ==
  /\ bits[o].count > 0 /\ bits[p].count > 0
  /\ Becomes(o, [bits[o] EXCEPT !.cells = CombinedCells(op, bits[o], bits[p])])

\* duo_bitvec_clone, duo_bitarray_clone: without memory the copy is empty.
Clone(o, p) ==
  LET b == bits[p]
      used == Words(b.count) * Word
      words == SubSeq(b.cells, 1, used)
  IN  /\ o # p /\ bkind # "fixed vector"
      /\ \/ Becomes(o, CASE bkind = "array" -> Container("heap", b.count, b.count, words)
                         [] bkind = "vector" /\ b.count <= InlineBits ->
                              Container("inline", InlineBits, b.count, words \o Zeros(InlineBits - used))
                         [] OTHER -> LET r == Reserved(Fresh(0), b.count)
                                     IN  [r EXCEPT !.count = b.count,
                                                   !.cells = words \o SubSeq(@, used + 1, Len(@))])
         \/ /\ LacksMemory /\ b.count > 0 /\ (bkind = "vector" => b.count > InlineBits)
            /\ bits' = [bits EXCEPT ![o] = Fresh(0)] /\ done' = FALSE /\ UNCHANGED bkind

Move(o, p) ==
  /\ o # p
  /\ bits' = [bits EXCEPT ![o] = bits[p], ![p] = Fresh(0)] /\ done' = TRUE /\ UNCHANGED bkind

Swap(o, p) ==
  /\ o # p
  /\ bits' = [bits EXCEPT ![o] = bits[p], ![p] = bits[o]] /\ done' = TRUE /\ UNCHANGED bkind

-----------------------------------------------------------------------------
(* The calls that each type has *)

Combinations(o, p) == \E op \in Promise!Operation : Combine(op, o, p)

Changes(o) ==
  \/ SetAll(o) \/ ClearAll(o) \/ FlipAll(o)
  \/ \E i \in 1 .. MaxBits : Flip(o, i) \/ \E x \in Bit : Assign(o, i, x)

Pushes(o) == \E x \in Bit : PushBack(o, x)
Resizes(o) == \E x \in Bit, n \in 0 .. MaxBits : Resize(o, n, x)

\* A span is a pointer to the words of somebody else, here of an array.
SpanChanges(o) == bkind = "array" /\ Changes(o)
SpanCombines(o, p) == bkind = "array" /\ Combinations(o, p)
ArrayMakes(o) == \E x \in Bit, n \in Asked : MakeArray(o, n, x)
ArrayChanges(o) == bkind = "array" /\ Changes(o)
ArrayCombines(o, p) == bkind = "array" /\ Combinations(o, p)
ArrayCopies(o, p) == bkind = "array" /\ (Clone(o, p) \/ Move(o, p) \/ Swap(o, p))

VectorRoom(o) == bkind = "vector" /\ (ShrinkToFit(o) \/ \E n \in Asked : Reserve(o, n))
VectorPushes(o) == bkind = "vector" /\ (Clear(o) \/ Pushes(o) \/ PopBack(o))
VectorResizes(o) == bkind = "vector" /\ Resizes(o)
VectorChanges(o) == bkind = "vector" /\ Changes(o)
VectorCombines(o, p) == bkind = "vector" /\ Combinations(o, p)
VectorCopies(o, p) == bkind = "vector" /\ (Clone(o, p) \/ Move(o, p) \/ Swap(o, p))

FixedPushes(o) == bkind = "fixed vector" /\ (Pushes(o) \/ PopBack(o))
FixedChanges(o) == bkind = "fixed vector" /\ (Changes(o) \/ ClearFixed(o))
FixedResizes(o) == bkind = "fixed vector" /\ Resizes(o)
FixedCombines(o, p) == bkind = "fixed vector" /\ Combinations(o, p)
FixedMoves(o, p) == bkind = "fixed vector" /\ (Move(o, p) \/ Swap(o, p))

\* The classes forward to the functions above.
BitSpanCalls(o, p) == SpanChanges(o) \/ SpanCombines(o, p)

BitArrayMakes(o, p) == ArrayMakes(o) \/ ArrayCopies(o, p)
BitArrayCalls(o, p) == ArrayChanges(o) \/ ArrayCombines(o, p)

BitVecMakes(o, p) == VectorRoom(o) \/ VectorCopies(o, p)
BitVecCalls(o, p) == VectorPushes(o) \/ VectorResizes(o) \/ VectorChanges(o) \/ VectorCombines(o, p)

FixedBitVecChanges(o) == FixedPushes(o) \/ FixedChanges(o) \/ FixedResizes(o)
FixedBitVecCombines(o, p) == FixedCombines(o, p) \/ FixedMoves(o, p)

Next ==
  \E o, p \in BitObjects :
    \/ BitSpanCalls(o, p) \/ BitArrayMakes(o, p) \/ BitArrayCalls(o, p)
    \/ BitVecMakes(o, p) \/ BitVecCalls(o, p)
    \/ FixedBitVecChanges(o) \/ FixedBitVecCombines(o, p)

Spec == Init /\ [][Next]_vars

-----------------------------------------------------------------------------
(* Properties *)

TypeOK ==
  /\ bkind \in BitKinds /\ done \in BOOLEAN
  /\ \A o \in BitObjects : /\ bits[o].count \in 0 .. bits[o].cap
                           /\ Range(bits[o].cells) \subseteq Bit

\* What there is to say of the lists x and y of bits, in the order of words in a
\* dictionary.
Truth(x, y) ==
  LET Has(v) == \E i \in DOMAIN x : x[i] = v
      Before == \/ \E i \in DOMAIN x \cap DOMAIN y :
                       x[i] < y[i] /\ \A j \in 1 .. i - 1 : x[j] = y[j]
                \/ Len(x) < Len(y) /\ \A j \in DOMAIN x : x[j] = y[j]
  IN  [zeros |-> Cardinality({i \in DOMAIN x : x[i] = 0}), all |-> ~Has(0), any |-> Has(1), none |-> ~Has(1),
       equal |-> x = y, less |-> Before, atMost |-> Before \/ x = y]

\* The words are there, and what is counted, found and compared word by word is what
\* is there, whatever lies behind it.
ReadsTrue ==
  \A o \in BitObjects :
    LET b == bits[o]
        set == {i \in 0 .. b.count - 1 : b.cells[i + 1] = 1}
        After(i) == {j \in set : j > i}
        LowestOf(S) == IF S = {} THEN -1 ELSE Min(S)
    IN  /\ Len(b.cells) = Words(b.cap) * Word
        /\ CountOnes(b) = Cardinality(set)
        /\ FindFirst(b) = LowestOf(set)
        /\ \A i \in 0 .. MaxBits : FindNext(b, i) = LowestOf(After(i))
        /\ \A p \in BitObjects : BitViewSays(b, bits[p]) = Truth(Content(b), Content(bits[p]))

BitsConsistent == TypeOK /\ ReadsTrue

\* A call that succeeds changes the bits as it says, and one that fails changes nothing.
ImplementsBitLists == Promise!BitSpec
=============================================================================
