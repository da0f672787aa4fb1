------------------------------- MODULE MCData -------------------------------
(***************************************************************************)
(* All data structures: a behaviour is one of HashMap, of Values, of       *)
(* ValueOrder, of Buffers, of Bits or of ValueVec.  On small instances.    *)
(* For ValueOrder: integers around the limit of exact doubles, zeros,      *)
(* NaNs, null and other pointers, texts and blobs of which one is a prefix *)
(* of the other, one UUID in every representation, plain values with its   *)
(* bytes, and a blob that is a UUID of the wrong length.                   *)
(***************************************************************************)
EXTENDS Data, TLC

CONSTANTS
  SampleKeys, Views, Exact, MaxKeys,                     \* ValueOrder
  BufferKinds, Objects, Elements, Uppers, Junk, InlineSize, FirstCap, Slow, Slower,
  Wanted, Provided, MaxTier, MinBase, MaxLength,         \* Buffers
  BitKinds, BitObjects, Word, InlineBits, FirstHeap, Asked, MaxBits   \* Bits

VARIABLES tree, table, bufkind, buf, ok, bkind, bits, done

Order == INSTANCE ValueOrder WITH Keys <- SampleKeys

Linear == INSTANCE Buffers WITH kind <- bufkind, Kinds <- BufferKinds

BitSets == INSTANCE Bits WITH LacksMemory <- MallocFails

orderVars == <<tree, table>>
linearVars == <<bufkind, buf, ok>>
bitsVars == <<bkind, bits, done>>
allVars == <<dataVars, orderVars, linearVars, bitsVars>>

AllInit ==
  /\ DataInit /\ Order!Init
  /\ Linear!Init /\ (Resting("buffers") => bufkind = "bytes")
  /\ BitSets!Init /\ (Resting("bits") => bkind = "vector")

AllNext ==
  \/ DataNext /\ UNCHANGED <<orderVars, linearVars, bitsVars>>
  \/ part = "order" /\ Order!Next /\ UNCHANGED <<dataVars, linearVars, bitsVars>>
  \/ part = "buffers" /\ Linear!Next /\ UNCHANGED <<dataVars, orderVars, bitsVars>>
  \/ part = "bits" /\ BitSets!Next /\ UNCHANGED <<dataVars, orderVars, linearVars>>

AllSpec == AllInit /\ [][AllNext]_allVars

\* The order and the equality of values do what a search tree and a hash table need.
SetsWork == Resting("order") \/ Order!SetsWork

\* An unordered container never holds two keys that are equal.
EqualKeysOnce == Resting("order") \/ Order!EqualKeysOnce

\* A key of an unordered container is found by any value that it equals.
ViewsFound == Resting("order") \/ Order!ViewsFound

\* The linear containers stay inside their memory, own it, and end their texts; searching,
\* slicing and comparing texts agree with each other.
BuffersConsistent == Resting("buffers") \/ (Linear!BuffersConsistent /\ Linear!TextsAgree)

\* What is counted, found and compared by whole words is what the bits are.
BitsConsistent == Resting("bits") \/ BitSets!BitsConsistent

\* Every call does to a finite map, to a store of values or to lists what it says there.
PartImplements ==
  CASE part = "hash" -> [Promise!Next]_(Contents)
    [] part = "values" -> [Owners!Abstract!Next]_(Owners!Abstract!vars)
    [] part = "order" -> TRUE
    [] part = "buffers" -> [Linear!Promise!Next]_(Linear!Promise!vars)
    [] part = "bits" -> [BitSets!Promise!BitNext]_(BitSets!Promise!vars)
    [] part = "rows" -> [Rows!Promise!Next]_(Rows!Promise!vars)

AllImplement == [][PartImplements]_allVars

-----------------------------------------------------------------------------
CONSTANTS k1, k2, k3, k4, c1, c2

FourKeys == {k1, k2, k3, k4}
Two == {c1, c2}
Crowded == k1 :> 3 @@ k2 :> 3 @@ k3 :> 7 @@ k4 :> 4

Forms == INSTANCE ValueOrder WITH Keys <- {}, Views <- {}

Plain(type, data) == [type |-> type, sub |-> "none", data |-> data, format |-> Forms!Blob]
Pointer(a) == [type |-> "NULL", sub |-> "pointer", data |-> <<a>>, format |-> Forms!Blob]
UuidText(u, f) == [type |-> "TEXT", sub |-> "uuid", data |-> Forms!FormatUuid(u, f), format |-> Forms!Blob]
UuidInSitu(u, f) ==
  [type |-> IF f.text THEN "TEXT" ELSE "BLOB", sub |-> "uuid", data |-> <<u>>, format |-> f]

Upper == [Forms!Standard EXCEPT !.upper = TRUE]
Braced == [Forms!Standard EXCEPT !.braced = TRUE]

LikeUuids == {Plain("BLOB", <<5>>), Plain("TEXT", Forms!FormatUuid(5, Upper))}
NoUuid == [type |-> "BLOB", sub |-> "uuid", data |-> <<3, 4>>, format |-> Forms!Blob]

Numerals == {Plain("INTEGER", <<i>>) : i \in 2 .. 5}
           \cup {Plain("FLOAT", <<x>>) : x \in {0, 4, Forms!NegZero} \cup Forms!NaNs}
Nulls == {Plain("NULL", <<>>), Pointer(0), Pointer(1), Pointer(2)}
Bytes == {Plain("TEXT", <<>>), Plain("TEXT", <<3>>), Plain("TEXT", <<3, 4>>), Plain("BLOB", <<3>>)}
InPlace == {UuidInSitu(5, Forms!Blob), UuidInSitu(5, Braced), UuidInSitu(6, Upper)}
Spelled == {UuidText(5, Forms!Standard), UuidText(5, Upper)}

AllKeys == Numerals \cup Nulls \cup Bytes \cup InPlace \cup Spelled \cup LikeUuids \cup {NoUuid}
AllViews == Numerals \cup Nulls \cup Bytes \cup Spelled \cup LikeUuids \cup {UuidInSitu(6, Forms!Blob), NoUuid}

NanKeys == {Plain("FLOAT", <<x>>) : x \in Forms!NaNs}

UuidKeys == InPlace \cup Spelled
UuidViews == Spelled \cup {UuidInSitu(5, Forms!Blob)}

Symmetry == Permutations(Two)
=============================================================================
