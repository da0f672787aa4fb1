----------------------------- MODULE ValueOrder ------------------------------
(***************************************************************************)
(* Comparison and hashing of the values of sqlite3_value.hpp, owned ones   *)
(* and views of an sqlite3_value, as std::set and std::unordered_set use   *)
(* them: a tree that only asks <, a table that only asks the hash and ==,  *)
(* and lookups in both by a view.                                          *)
(*                                                                         *)
(* A value is a record: its type; its subtype as far as it matters here;   *)
(* its content, a sequence of bytes, or one number for a number or an      *)
(* address; and, for the 16 bytes of a UUID kept in place, the format      *)
(* flags.  A hash is the pair of what is hashed and how, so that different *)
(* contents never collide.                                                 *)
(***************************************************************************)
EXTENDS Integers, FiniteSets, Bags, Sequences, SequencesExt

CONSTANTS
  Keys,        \* owned values that are put into the containers
  Views,       \* sqlite3_values that are looked up in them
  Exact,       \* bound on the integers that a double represents exactly; 2^53 in the code
  MaxKeys      \* bound on the size of a container

VARIABLES
  tree,     \* the keys of an std::set<SqliteValueOwned, SqliteValueLess>, in order
  table     \* the keys of an std::unordered_set with SqliteValueHash and SqliteValueEqual,
            \* a bag: one that does not equal itself is inserted again and again

vars == <<tree, table>>

-----------------------------------------------------------------------------
(* Numbers and bytes *)

NegZero == 100      \* the bits of -0.0
NaNs == {101, 102}  \* two different NaNs; any other number is its own double

NumberOf(bits) == IF bits = NegZero THEN 0 ELSE bits

\* (double)i: beyond Exact only even numbers are left, and a tie is rounded to
\* the next multiple of four.
ToDouble(i) == IF i <= Exact \/ i % 2 = 0 THEN i ELSE 4 * ((i + 1) \div 4)

\* memcmp_less
MemcmpLess(a, b) ==
  \/ IsStrictPrefix(a, b)
  \/ \E n \in 1 .. Len(a) :
       n <= Len(b) /\ SubSeq(a, 1, n - 1) = SubSeq(b, 1, n - 1) /\ a[n] < b[n]

\* A UUID is one byte here, and a letter stands for its hexadecimal digits.
Formats == [upper : BOOLEAN, hyphens : BOOLEAN, braced : BOOLEAN, text : BOOLEAN]
Blob == [upper |-> FALSE, hyphens |-> FALSE, braced |-> FALSE, text |-> FALSE]
Standard == [upper |-> FALSE, hyphens |-> TRUE, braced |-> FALSE, text |-> TRUE]

FormatUuid(u, f) ==
  LET digits == <<u + IF f.upper THEN 10 ELSE 20>> \o IF f.hyphens THEN <<1>> ELSE <<>>
  IN  IF f.braced THEN <<30>> \o digits \o <<31>> ELSE digits

Uuids == 5 .. 7

\* parse_uuid: the UUIDs (one or none) that a text denotes.
ParseUuid(text) == {u \in Uuids : \E f \in Formats : FormatUuid(u, f) = text}

UuidEqual(s1, s2) ==
  /\ s1 # <<>> /\ s2 # <<>>
  /\ s1 = s2 \/ ParseUuid(s1) \cap ParseUuid(s2) # {}

-----------------------------------------------------------------------------
(* What both kinds of values have in common *)

IsUuid(v) == v.sub = "uuid"
IsPointer(v) == v.sub = "pointer"

Rank(v) == CASE v.type = "NULL" -> 0
             [] v.type \in {"INTEGER", "FLOAT"} -> 1
             [] v.type = "TEXT" -> 2
             [] v.type = "BLOB" -> 3

Bits(v) == v.data[1]
IsNaN(v) == v.type = "FLOAT" /\ Bits(v) \in NaNs
Double(v) == IF v.type = "INTEGER" THEN ToDouble(Bits(v)) ELSE NumberOf(Bits(v))

FloatEqual(a, b) == \/ IsNaN(a) /\ IsNaN(b)
                    \/ ~IsNaN(a) /\ ~IsNaN(b) /\ Double(a) = Double(b)

\* Mutant of NumberLess: an integer and an equal float are not told apart.
NumberLessUntied(a, b) ==
  IF a.type = "INTEGER" /\ b.type = "INTEGER" THEN Bits(a) < Bits(b)
  ELSE ~IsNaN(b) /\ (IsNaN(a) \/ Double(a) < Double(b))

\* The branch for two numbers, the same in all four operators.
NumberLess(a, b) ==
  CASE a.type = "INTEGER" /\ b.type = "INTEGER" -> Bits(a) < Bits(b)
    [] OTHER ->
         IF IsNaN(a) # IsNaN(b) THEN IsNaN(a)
         ELSE IF ~IsNaN(a) /\ Double(a) # Double(b) THEN Double(a) < Double(b)
         ELSE a.type = "INTEGER" /\ b.type = "FLOAT"

-----------------------------------------------------------------------------
(* SqliteValueOwned *)

InSitu(v) == v.format # Blob \/ (IsUuid(v) /\ v.type = "BLOB" /\ Len(v.data) = 1)

HasPointer(v) == IsPointer(v) /\ Bits(v) # 0
Address(v) == IF IsPointer(v) THEN Bits(v) ELSE 0

\* canonical_uuid_ptr, with the format of the value; nothing for a blob that is
\* no UUID.
Canonical(v) == IF InSitu(v) THEN FormatUuid(Bits(v), v.format)
                ELSE IF v.type = "TEXT" THEN v.data ELSE <<>>

\* The UUID (at most one) that a value with the subtype of UUIDs stands for.
UuidOf(v) == IF ~IsUuid(v) THEN {}
             ELSE IF InSitu(v) THEN {Bits(v)}
             ELSE IF v.type = "TEXT" THEN ParseUuid(v.data) ELSE {}

\* Mutant of Unsigned: a zero is hashed by its sign.
SignedZero(v) == v.data

\* d == 0.0 ? 0.0 : d
Unsigned(v) == IF Bits(v) = NegZero THEN <<0>> ELSE v.data

OwnedHash(v) ==
  IF UuidOf(v) # {} THEN <<"bytes", FormatUuid(CHOOSE u \in UuidOf(v) : TRUE, Standard)>>
  ELSE CASE v.type \in {"TEXT", "BLOB"} -> <<"bytes", v.data>>
         [] v.type = "INTEGER" -> <<"INTEGER", v.data>>
         [] v.type = "FLOAT" -> <<"FLOAT", Unsigned(v)>>
         [] v.type = "NULL" -> IF HasPointer(v) THEN <<"pointer", v.data>> ELSE <<"seed", <<>>>>

OwnedEqual(a, b) ==
  IF IsUuid(a) /\ IsUuid(b) THEN UuidEqual(Canonical(a), Canonical(b))
  ELSE /\ a.type = b.type
       /\ CASE a.type = "FLOAT" -> FloatEqual(a, b)
            [] a.type = "NULL" -> Address(a) = Address(b)
            [] OTHER -> a.data = b.data

OwnedLess(a, b) ==
  IF Rank(a) # Rank(b) THEN Rank(a) < Rank(b)
  ELSE CASE Rank(a) = 0 -> Address(a) < Address(b)
         [] Rank(a) = 1 -> NumberLess(a, b)
         [] OTHER -> MemcmpLess(a.data, b.data)

-----------------------------------------------------------------------------
(* SqliteValueView, and the two together.  A view cannot see the address of  *)
(* a pointer, and never has a UUID in place.                                 *)

ViewHash(v) ==
  CASE v.type \in {"TEXT", "BLOB"} -> IF v.data = <<>> THEN <<"seed", <<>>>> ELSE <<"bytes", v.data>>
    [] v.type = "INTEGER" -> <<"INTEGER", v.data>>
    [] v.type = "FLOAT" -> <<"FLOAT", Unsigned(v)>>
    [] OTHER -> <<"seed", <<>>>>

\* SqliteValueUtil::canonical_string_ptr
ViewCanonical(v) == IF v.type = "BLOB" /\ Len(v.data) = 1 THEN FormatUuid(Bits(v), Standard)
                    ELSE IF v.type = "TEXT" THEN v.data ELSE <<>>

OwnedEqualsView(a, v) ==
  IF IsUuid(a) /\ IsUuid(v) THEN UuidEqual(Canonical(a), ViewCanonical(v))
  ELSE /\ a.type = v.type
       /\ CASE a.type = "FLOAT" -> FloatEqual(a, v)
            [] a.type = "NULL" -> HasPointer(a) = IsPointer(v)
            [] OTHER -> a.data = v.data

OwnedLessView(a, v) ==
  IF Rank(a) # Rank(v) THEN Rank(a) < Rank(v)
  ELSE CASE Rank(a) = 0 -> IsPointer(v) /\ ~HasPointer(a)
         [] Rank(a) = 1 -> NumberLess(a, v)
         [] OTHER -> MemcmpLess(a.data, v.data)

\* SqliteValueUtil::equal and less, of two views.
ViewEqual(v, w) ==
  /\ v.type = w.type
  /\ CASE v.type = "FLOAT" -> FloatEqual(v, w)
       [] v.type = "NULL" -> IsPointer(v) = IsPointer(w)
       [] OTHER -> v.data = w.data

ViewLess(v, w) ==
  IF Rank(v) # Rank(w) THEN Rank(v) < Rank(w)
  ELSE CASE Rank(v) = 0 -> IsPointer(w) /\ ~IsPointer(v)
         [] Rank(v) = 1 -> NumberLess(v, w)
         [] OTHER -> MemcmpLess(v.data, w.data)

\* The constructor from an sqlite3_value, which loses a pointer's address; a blob
\* of 16 bytes with the subtype of UUIDs goes in place.
ToOwned(v) == IF IsPointer(v) THEN [v EXCEPT !.data = <<0>>] ELSE v

ViewLessOwned(v, b) ==
  IF Rank(v) # Rank(b) THEN Rank(v) < Rank(b)
  ELSE CASE Rank(v) = 0 -> ~IsPointer(v) /\ Address(b) # 0
         [] Rank(v) = 1 -> NumberLess(v, b)
         [] OTHER -> MemcmpLess(v.data, b.data)

-----------------------------------------------------------------------------
(* The containers *)

Init == tree = <<>> /\ table = EmptyBag

\* Where a descent of the tree for k may end: every key it met on the left is
\* less than k and every one on the right is not.
Places(k) == {i \in 0 .. Len(tree) : /\ i > 0 => OwnedLess(tree[i], k)
                                     /\ i < Len(tree) => ~OwnedLess(tree[i + 1], k)}

InsertIntoTree(k) ==
  \E i \in Places(k) :
    IF i < Len(tree) /\ ~OwnedLess(k, tree[i + 1])
      THEN UNCHANGED tree
      ELSE tree' = InsertAt(tree, i + 1, k)

Hits(k) == {e \in BagToSet(table) : OwnedHash(e) = OwnedHash(k) /\ OwnedEqual(e, k)}

InsertIntoTable(k) == table' = IF Hits(k) # {} THEN table ELSE table (+) SetToBag({k})

Insert(k) ==
  /\ Len(tree) < MaxKeys /\ BagCardinality(table) < MaxKeys
  /\ InsertIntoTree(k)
  /\ InsertIntoTable(k)

Erase(k) ==
  /\ tree' = SelectSeq(tree, LAMBDA e : OwnedLess(e, k) \/ OwnedLess(k, e))
  /\ table' = [e \in BagToSet(table) \ Hits(k) |-> table[e]]

Next == \E k \in Keys : Insert(k) \/ Erase(k)

Spec == Init /\ [][Next]_vars

-----------------------------------------------------------------------------
(* Properties *)

TypeOK == tree \in Seq(Keys) /\ IsABag(table) /\ BagToSet(table) \subseteq Keys

\* operator< keeps the tree in order, not only between neighbours, whatever is
\* mixed in it: integers that a double cannot tell apart, floats, NaNs, zeros of
\* either sign, null pointers, UUIDs in any format.
TreeInOrder ==
  \A i, j \in DOMAIN tree : i < j <=> OwnedLess(tree[i], tree[j])

\* What == takes for equal and the hash tells apart: NaNs of other bits, and a UUID and a plain
\* value of the same bytes.
Clash(a, b) ==
  \/ IsNaN(a) /\ IsNaN(b)
  \/ IsUuid(a) # IsUuid(b) /\ a.type = b.type /\ a.data = b.data

\* But for those, equal keys are never held twice: == and the hash agree; and a key that
\* equals itself, as all do but a blob that is a UUID of another length, is held once.
NoTwins ==
  \A a, b \in BagToSet(table) :
    OwnedEqual(a, b) => IF a = b THEN table[a] = 1 ELSE Clash(a, b)

Settled == {k \in Keys : ~IsUuid(k) /\ ~\E j \in Keys \ {k} : Clash(j, k)}

\* The tree and the table agree on which keys are new: neither less nor greater is equal
\* (but for UUIDs, which == compares by number and < by spelling, and for what clashes).
SameKeys == ToSet(tree) \cap Settled = BagToSet(table) \cap Settled

\* The tree can be searched by a view: the keys less than it come first, then
\* those that are neither, then those it is less than; and a key that is equal to
\* it (but for UUIDs) is among the second.
ViewsPartition ==
  \A v \in Views : \A i \in DOMAIN tree :
    /\ ~(OwnedLessView(tree[i], v) /\ ViewLessOwned(v, tree[i]))
    /\ \A j \in DOMAIN tree : i < j =>
         /\ OwnedLessView(tree[j], v) => OwnedLessView(tree[i], v)
         /\ ViewLessOwned(v, tree[i]) => ViewLessOwned(v, tree[j])
    /\ OwnedEqualsView(tree[i], v) /\ ~IsUuid(v)
         => ~OwnedLessView(tree[i], v) /\ ~ViewLessOwned(v, tree[i])

\* Owned or viewed, two values compare alike (but for pointers, whose address a
\* view hides, and the equality of UUIDs).
ViewsCompareAlike ==
  \A v, w \in Views :
    LET a == ToOwned(v)  b == ToOwned(w) IN
    ~IsPointer(v) /\ ~IsPointer(w) =>
      /\ {ViewLess(v, w), OwnedLessView(a, w), ViewLessOwned(v, b)} = {OwnedLess(a, b)}
      /\ OwnedEqualsView(a, w) = OwnedEqual(a, b)
      /\ (IsUuid(v) /\ IsUuid(w)) \/ ViewEqual(v, w) = OwnedEqual(a, b)

\* The containers hold what < and == promise, and views find it.
SetsWork == TypeOK /\ TreeInOrder /\ NoTwins /\ SameKeys /\ ViewsPartition /\ ViewsCompareAlike

\* The hash keeps equal NaNs together, too: equal keys are never held twice.
EqualKeysOnce == \A a, b \in BagToSet(table) : OwnedEqual(a, b) => a = b /\ table[a] = 1

\* A view that is equal to a key of the table is found there: the two hashes
\* agree.
ViewsFound ==
  \A v \in Views : \A k \in BagToSet(table) : OwnedEqualsView(k, v) => OwnedHash(k) = ViewHash(v)

=============================================================================
