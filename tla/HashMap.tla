------------------------------- MODULE HashMap -------------------------------
(***************************************************************************)
(* The Robin Hood hash map of stl/duo_hash.h and its C++ twin HashMap of   *)
(* stl/duo_hash.hpp: a table of buckets whose size is a power of two, in   *)
(* which an entry that is further from its home than the one it meets      *)
(* takes the latter's place.  The map is used by one thread (or under its  *)
(* owner's lock), so a call is one step.  A bucket remembers the distance  *)
(* of its entry from home, counted from 1; 0 marks an empty bucket.  The   *)
(* sets, which keep keys without values, use the same tables.              *)
(***************************************************************************)
EXTENDS Integers, Sequences, FiniteSetsExt

CONSTANTS
  Tables,       \* which there are of "c map", "map", "c set" and "set"
  Keys, Values,
  Hash,         \* the hash of each key
  None,         \* the content of an empty bucket, and the value of a set's entries
  MinCap,       \* the smallest table; 16 in the code
  GrowAt,       \* DUO_HASHMAP_LOAD_FACTOR in percent; 60 in the code
  ShrinkAt,     \* DUO_HASHMAP_SHRINK_AT in percent; 10 in the code
  MaxSize,      \* bound on the table
  Caps,         \* capacities a map may be made with
  Factors,      \* load factors, in percent, that the application asks for
  Powers,       \* growth exponents that the application asks for
  Sizes,        \* table sizes that the application asks for
  MallocFails   \* whether there may be no memory for a new table

ASSUME HashAssumption == Hash \in [Keys -> Nat] /\ None \notin Keys
ASSUME SizesAssumption ==
  /\ {MinCap, GrowAt, ShrinkAt, MaxSize} \cup Caps \cup Factors \cup Powers \cup Sizes \subseteq Nat
  /\ MinCap >= 2 /\ GrowAt \in 1 .. 99 /\ ShrinkAt <= 25
ASSUME MallocAssumption == MallocFails \in BOOLEAN

VARIABLES
  buckets,     \* map->buckets, numbered from 0
  count, cap, growat, shrinkat, loadfactor, growpower, oom,   \* map's fields of these names
  kind,        \* one of Tables; chosen once
  broken       \* "holes": filter could not rebuild the table; "stuck": a loop over it does not end

vars == <<buckets, count, cap, growat, shrinkat, loadfactor, growpower, oom, kind, broken>>

\* The C functions and the C++ classes, which repeat the algorithms, differ here
\* and there.  An object of a class may have no table: raw is then null.
cpp == kind \in {"map", "set"}
Absent == DOMAIN buckets = {}

\* The model follows a table with holes no further than to its next clear.
Works == broken = "no" /\ ~Absent

-----------------------------------------------------------------------------
(* Tables *)

Empty == [key |-> None, val |-> None, dib |-> 0]
Entry(k, v) == [key |-> k, val |-> v, dib |-> 1]

EmptyTable(n) == [i \in 0 .. n - 1 |-> Empty]
Size(t) == Cardinality(DOMAIN t)
Used(t) == {i \in DOMAIN t : t[i].dib # 0}

\* The d-th bucket of a probe for k, from its home on and round the end of the table.
At(t, k, d) == (Hash[k] + d) % Size(t)

\* How far a probe for k comes: to the first empty bucket, or once round.
Reached(t, k) == {d \in 0 .. Size(t) - 1 : \A e \in 0 .. d - 1 : t[At(t, k, e)].dib # 0}

\* The bucket in which a probe finds k, or -1.
Position(t, k) ==
  LET hits == {d \in Reached(t, k) : t[At(t, k, d)].key = k}
  IN  IF hits = {} THEN -1 ELSE At(t, k, Min(hits))

\* Mutant of Visit: the entry that was displaced is forgotten.
VisitForgets(s, i, new) ==
  LET b == s.table[i] IN
  CASE s.hand = Empty -> s
    [] s.hand # Empty /\ b = Empty -> [s EXCEPT !.table[i] = s.hand, !.hand = Empty]
    [] s.hand # Empty /\ b # Empty /\ b.key = new.key ->
         [s EXCEPT !.table[i].val = new.val, !.hand = Empty, !.found = TRUE]
    [] OTHER -> IF b.dib < s.hand.dib THEN [s EXCEPT !.table[i] = s.hand, !.hand = Empty]
                ELSE [s EXCEPT !.hand.dib = @ + 1]

\* One round of the insertion loop, with an entry in hand, at bucket i: place
\* it and end; overwrite the value of the same key and end; change places with
\* an entry nearer to its home; or go on.
Visit(s, i, new) ==
  LET b == s.table[i] IN
  CASE s.hand = Empty -> s
    [] s.hand # Empty /\ b = Empty -> [s EXCEPT !.table[i] = s.hand, !.hand = Empty]
    [] s.hand # Empty /\ b # Empty /\ b.key = new.key /\ Hash[b.key] = Hash[s.hand.key] ->
         [s EXCEPT !.table[i].val = new.val, !.hand = Empty, !.found = TRUE]
    [] OTHER -> IF b.dib < s.hand.dib
                  THEN [s EXCEPT !.table[i] = s.hand, !.hand = [b EXCEPT !.dib = @ + 1]]
                  ELSE [s EXCEPT !.hand.dib = @ + 1]

\* The loop from e's home on.  With "new" empty it places without comparing.
Insertion(t, e, new) ==
  LET Round[d \in 0 .. Size(t)] ==
        IF d = 0 THEN [table |-> t, hand |-> [e EXCEPT !.dib = 1], found |-> FALSE]
        ELSE Visit(Round[d - 1], At(t, e.key, d - 1), new)
  IN  Round[Size(t)]

Placed(t, e) == Insertion(t, e, Empty).table

\* A table of n buckets with the entries of t, moved in the order of t.
Rehashed(t, n) ==
  LET Moved[i \in 0 .. Size(t)] ==
        IF i = 0 THEN EmptyTable(n)
        ELSE IF t[i - 1].dib = 0 THEN Moved[i - 1] ELSE Placed(Moved[i - 1], t[i - 1])
  IN  Moved[Size(t)]

\* Mutant of ShiftedBack: entries at home are moved too.
ShiftedFromHome(t, p) ==
  LET u == [t EXCEPT ![p] = Empty]
      n == Size(t)
      run == Min({r \in 1 .. n : u[(p + r) % n].dib = 0})
      Behind(i) == (i - p + n) % n
  IN  [i \in DOMAIN t |->
         CASE Behind(i) < run - 1 -> [u[(i + 1) % n] EXCEPT !.dib = @ - 1]
           [] Behind(i) = run - 1 -> Empty
           [] Behind(i) > run - 1 -> u[i]]

\* Bucket p is emptied and the entries behind it, up to the first one that is
\* at home or empty, move back by one.
ShiftedBack(t, p) ==
  LET u == [t EXCEPT ![p] = Empty]
      n == Size(t)
      run == Min({r \in 1 .. n : u[(p + r) % n].dib <= 1})
      Behind(i) == (i - p + n) % n
  IN  [i \in DOMAIN t |->
         CASE Behind(i) < run - 1 -> [u[(i + 1) % n] EXCEPT !.dib = @ - 1]
           [] Behind(i) = run - 1 -> Empty
           [] Behind(i) > run - 1 -> u[i]]

-----------------------------------------------------------------------------
(* Sizes and limits *)

\* The next power of two, at least MinCap.
RoundUp(n) == Min({MinCap * 2 ^ j : j \in {j \in 0 .. n : MinCap * 2 ^ j >= n}})

Percent(n, p) == (n * p) \div 100

\* The C function takes the new limits from a map it has just made, with the
\* default load factor.
Resized(t, n) ==
  /\ buckets' = Rehashed(t, n)
  /\ growat' = Percent(n, IF cpp THEN loadfactor ELSE GrowAt)
  /\ shrinkat' = Percent(n, ShrinkAt)

SameSize(t) == buckets' = t /\ UNCHANGED <<growat, shrinkat>>

Init ==
  /\ kind \in Tables
  /\ \/ cap \in {RoundUp(c) : c \in Caps}
     \/ cpp /\ cap = 0
  /\ buckets = EmptyTable(cap)
  /\ count = 0 /\ growpower = 1 /\ loadfactor = GrowAt
  /\ growat = Percent(cap, GrowAt) /\ shrinkat = Percent(cap, ShrinkAt)
  /\ oom = FALSE /\ broken = "no"

Settings == <<cap, loadfactor, growpower, kind, broken>>

-----------------------------------------------------------------------------
(* Setting a value *)

\* Mutant of MustGrow: the limit may be passed by one, and the table be full.
GrowsLate == count > growat + 1

MustGrow == count >= growat
NextSize == Size(buckets) * 2 ^ growpower

Grown == IF MustGrow THEN Rehashed(buckets, NextSize) ELSE buckets
GrownLimits ==
  /\ growat' = IF MustGrow THEN Percent(NextSize, IF cpp THEN loadfactor ELSE GrowAt) ELSE growat
  /\ shrinkat' = IF MustGrow THEN Percent(NextSize, ShrinkAt) ELSE shrinkat

\* duo_hashmap_set grows first, and searches while it inserts.
InsertedWhileSearching(k, v) == Insertion(Grown, Entry(k, v), Entry(k, v))

PutC(k, v) ==
  /\ Works /\ (MustGrow => NextSize <= MaxSize)
  /\ buckets' = InsertedWhileSearching(k, v).table
  /\ count' = IF InsertedWhileSearching(k, v).found THEN count ELSE count + 1
  /\ GrownLimits
  /\ oom' = FALSE
  /\ UNCHANGED Settings

SetC(k, v) == kind = "c map" /\ PutC(k, v)

\* The C++ class searches first.
AssignedOrPlaced(k, v) ==
  IF Position(buckets, k) # -1
    THEN [buckets EXCEPT ![Position(buckets, k)].val = v]
    ELSE Placed(Grown, Entry(k, v))

AssignCpp(k, v) ==
  /\ kind = "map" /\ Works
  /\ Position(buckets, k) # -1
  /\ SameSize(AssignedOrPlaced(k, v))
  /\ UNCHANGED <<count, oom, Settings>>

PlaceNew(k, v) ==
  /\ Works /\ (MustGrow => NextSize <= MaxSize)
  /\ Position(buckets, k) = -1
  /\ buckets' = Placed(Grown, Entry(k, v))
  /\ count' = count + 1
  /\ GrownLimits
  /\ UNCHANGED <<oom, Settings>>

InsertCpp(k, v) == kind = "map" /\ PlaceNew(k, v)

\* There is no memory to grow into.
PutFails(k) ==
  /\ MallocFails /\ Works
  /\ MustGrow /\ (cpp => Position(buckets, k) = -1)
  /\ oom' = TRUE
  /\ UNCHANGED <<buckets, count, growat, shrinkat, Settings>>

SetFails(k) == kind \in {"c map", "map"} /\ PutFails(k)

-----------------------------------------------------------------------------
(* Whole maps *)

\* The map is one that was just made with capacity c, whose table has become t.
Made(t, c) ==
  /\ buckets' = t /\ count' = Cardinality(Used(t)) /\ cap' = c
  /\ loadfactor' = GrowAt /\ growpower' = 1
  /\ growat' = Percent(Size(t), GrowAt) /\ shrinkat' = Percent(Size(t), ShrinkAt)
  /\ broken' = "no" /\ UNCHANGED kind

\* An object without a table makes one for its first entry.
InsertFirst(k, v) ==
  /\ kind = "map" /\ Absent
  /\ Made(Placed(EmptyTable(MinCap), Entry(k, v)), MinCap) /\ oom' = FALSE

\* Mutant of AdvancedToValid: the bucket reached is skipped.
AdvancedPast(t, i) == Min({j \in Used(t) : j > i} \cup {Size(t)})

\* An iterator moves from bucket i to the next one that is in use.
AdvancedToValid(t, i) == Min({j \in Used(t) : j >= i} \cup {Size(t)})

\* The buckets that an iterator visits, one after the other.
Walk(t) ==
  LET Visited[n \in 0 .. Size(t)] ==
        IF n = 0 THEN [seen |-> <<>>, next |-> 0]
        ELSE LET s == Visited[n - 1]
                 j == AdvancedToValid(t, s.next)
             IN  IF j = Size(t) THEN s ELSE [seen |-> Append(s.seen, j), next |-> j + 1]
  IN  Visited[Size(t)].seen

\* A new map of capacity c, in which the entries of t are inserted in the order
\* of an iterator; it cannot grow for those in the buckets Missed.
Copied(t, c, Missed) ==
  LET Inserted[i \in 0 .. Size(t)] ==
        IF i = 0 THEN EmptyTable(c)
        ELSE LET u == Inserted[i - 1]
                 full == Cardinality(Used(u)) >= Percent(Size(u), GrowAt)
             IN  IF t[i - 1].dib = 0 \/ (full /\ i - 1 \in Missed) THEN u
                 ELSE Placed(IF full THEN Rehashed(u, 2 * Size(u)) ELSE u, t[i - 1])
  IN  Inserted[Size(t)]

\* The application goes on with a copy and destroys the original.  The copy has
\* the default limits, and silently lacks what there was no memory for.
CopyTable ==
  /\ cpp /\ Works
  /\ \E Missed \in IF MallocFails /\ count > Percent(cap, GrowAt) THEN SUBSET Used(buckets) ELSE {{}} :
       LET t == Copied(buckets, cap, Missed) IN
       Made(t, cap) /\ oom' = (Cardinality(Used(t)) < count)

CopyMap == kind = "map" /\ CopyTable

\* The table is moved into another object, which leaves none behind.
MoveAway ==
  /\ cpp /\ ~Absent
  /\ Made(EmptyTable(0), 0) /\ oom' = FALSE

MoveMap == kind = "map" /\ MoveAway

\* What a lookup returns: one value or none.
GetC(k) == IF Position(buckets, k) = -1 THEN <<>> ELSE <<buckets[Position(buckets, k)].val>>

\* The class does not search an empty table.
Get(k) == IF count = 0 THEN <<>> ELSE GetC(k)

\* find returns an iterator, which is end() when there is no such key.
Find(k) == IF count = 0 \/ Position(buckets, k) = -1 THEN Size(buckets) ELSE Position(buckets, k)

\* The entry in a bucket, counted round the table.
Probe(i) == IF count = 0 THEN Empty ELSE buckets[i % Size(buckets)]

\* for_each calls back for each entry until the callback refuses one of Stop.
Scanned(t, Stop) ==
  LET walk == Walk(t)
      refused == {n \in DOMAIN walk : t[walk[n]].key \in Stop}
  IN  SubSeq(walk, 1, IF refused = {} THEN Len(walk) ELSE Min(refused))

\* operator[] inserts a value when there is none.
Subscript(k, v) ==
  /\ kind = "map" /\ Get(k) = <<>>
  /\ InsertCpp(k, v) \/ InsertFirst(k, v)

-----------------------------------------------------------------------------
(* Removing entries *)

\* After the count has become n; lack of memory goes unnoticed.
ShrinkIfNeeded(t, n) ==
  \/ /\ Size(t) > cap /\ n <= shrinkat
     /\ Resized(t, RoundUp(Size(t) \div 2))
  \/ /\ Size(t) > cap /\ n <= shrinkat => MallocFails
     /\ SameSize(t)

TakeOut(k) ==
  /\ Works
  /\ Position(buckets, k) # -1
  /\ count' = count - 1
  /\ ShrinkIfNeeded(ShiftedBack(buckets, Position(buckets, k)), count - 1)
  /\ UNCHANGED Settings

DeleteC(k) == kind = "c map" /\ TakeOut(k) /\ oom' = FALSE

ExtractC(k) == kind = "c map" /\ TakeOut(k) /\ UNCHANGED oom

EraseCpp(k) == kind = "map" /\ TakeOut(k) /\ UNCHANGED oom

\* Every entry has been disposed of; unless its capacity is to be kept, the
\* table goes back to the first one's size.
Cleared(update) ==
  /\ count' = 0
  /\ cap' = IF update THEN Size(buckets) ELSE cap
  /\ \E n \in IF update THEN {Size(buckets)}
              ELSE {cap} \cup (IF MallocFails THEN {Size(buckets)} ELSE {}) :
       /\ buckets' = EmptyTable(n)
       /\ growat' = Percent(n, loadfactor)
       /\ shrinkat' = Percent(n, ShrinkAt)

ClearTable(update) ==
  /\ broken # "stuck" /\ ~Absent
  /\ Cleared(update)
  /\ broken' = "no"
  /\ UNCHANGED <<loadfactor, growpower, oom, kind>>

ClearC(update) == kind = "c map" /\ ClearTable(update)

ClearCpp(update) == kind = "map" /\ ClearTable(update)

\* Halved while too few entries are left, but not below the capacity.
FilterTarget(n) ==
  LET Halved[s \in 0 .. Size(buckets)] ==
        IF s > cap /\ n <= Percent(s, ShrinkAt) THEN Halved[s \div 2] ELSE s
  IN  Max({Halved[Size(buckets)], cap})

Without(S) == [i \in DOMAIN buckets |-> IF buckets[i].key \in S THEN Empty ELSE buckets[i]]

\* The entries of S are emptied where they are, then the table is rebuilt.
FilterTable(S) ==
  /\ Works
  /\ S # {} /\ S \subseteq {buckets[i].key : i \in Used(buckets)}
  /\ LET n == count - Cardinality({i \in Used(buckets) : buckets[i].key \in S}) IN
       \/ n = 0 /\ Cleared(FALSE) /\ UNCHANGED broken
       \/ /\ n # 0 /\ count' = n /\ UNCHANGED cap
          /\ \/ Resized(Without(S), FilterTarget(n)) /\ UNCHANGED broken
             \/ MallocFails /\ SameSize(Without(S)) /\ broken' = "holes"
  /\ UNCHANGED <<loadfactor, growpower, oom, kind>>

FilterC(S) == kind = "c map" /\ FilterTable(S)

FilterCpp(S) == kind = "map" /\ FilterTable(S)

-----------------------------------------------------------------------------
(* Settings *)

Clamped(p, low, high) == Min({Max({p, low}), high})

LoadFactorBecomes(f) ==
  /\ Works
  /\ loadfactor' = Clamped(f, 50, 95)
  /\ growat' = Percent(Size(buckets), loadfactor')
  /\ UNCHANGED <<buckets, count, cap, shrinkat, growpower, oom, kind, broken>>

GrowPowerBecomes(p) ==
  /\ Works
  /\ growpower' = Clamped(p, 1, 16)
  /\ UNCHANGED <<buckets, count, cap, growat, shrinkat, loadfactor, oom, kind, broken>>

\* Entries that have no room are pushed round the new table for ever.
Rehash(n) ==
  /\ Works
  /\ IF count > RoundUp(n)
       THEN broken' = "stuck" /\ SameSize(buckets)
       ELSE broken' = "no" /\ Resized(buckets, RoundUp(n))
  /\ UNCHANGED <<count, cap, loadfactor, growpower, oom, kind>>

SetLoadFactor(f) == kind \in {"c map", "map"} /\ LoadFactorBecomes(f)

SetGrowPower(p) == kind \in {"c map", "map"} /\ GrowPowerBecomes(p)

ResizeC(n) == kind = "c map" /\ Rehash(n)

\* rehash and reserve.
ResizeCpp(n) == kind = "map" /\ Rehash(n)

\* The same of an object without a table, which makes one.
ResizeFirst(n) ==
  /\ kind = "map" /\ Absent
  /\ Made(EmptyTable(RoundUp(n)), RoundUp(n)) /\ oom' = FALSE

Next ==
  \/ \E k \in Keys, v \in Values : SetC(k, v) \/ AssignCpp(k, v) \/ InsertCpp(k, v) \/ InsertFirst(k, v)
  \/ \E k \in Keys : SetFails(k) \/ DeleteC(k) \/ ExtractC(k) \/ EraseCpp(k)
  \/ \E k \in Keys, v \in Values : Subscript(k, v)
  \/ \E update \in BOOLEAN : ClearC(update) \/ ClearCpp(update)
  \/ \E S \in SUBSET Keys : FilterC(S) \/ FilterCpp(S)
  \/ CopyMap \/ MoveMap
  \/ \E f \in Factors : SetLoadFactor(f)
  \/ \E p \in Powers : SetGrowPower(p)
  \/ \E n \in Sizes : ResizeC(n) \/ ResizeCpp(n) \/ ResizeFirst(n)

Spec == Init /\ [][Next]_vars

-----------------------------------------------------------------------------
(* The sets: the functions duo_hashset_, which call those of the map with no value, and
   the class HashSet, which repeats the algorithms of HashMap for keys alone *)

\* duo_hashset_insert says TRUE whether or not the key was there.
InsertItemC(k) == kind = "c set" /\ PutC(k, None)

\* HashSet::insert refuses a key that is there, and makes a table for the first.
InsertItem(k) == kind = "set" /\ PlaceNew(k, None)

InsertFirstItem(k) ==
  /\ kind = "set" /\ Absent
  /\ Made(Placed(EmptyTable(MinCap), Entry(k, None)), MinCap) /\ oom' = FALSE

InsertItemFails(k) == kind \in {"c set", "set"} /\ PutFails(k)

RemoveItemC(k) == kind = "c set" /\ TakeOut(k) /\ oom' = FALSE

ExtractItemC(k) == kind = "c set" /\ TakeOut(k) /\ UNCHANGED oom

EraseItem(k) == kind = "set" /\ TakeOut(k) /\ UNCHANGED oom

ClearItemsC(update) == kind = "c set" /\ ClearTable(update)

ClearItems(update) == kind = "set" /\ ClearTable(update)

FilterItemsC(S) == kind = "c set" /\ FilterTable(S)

FilterItems(S) == kind = "set" /\ FilterTable(S)

CopySet == kind = "set" /\ CopyTable

MoveSet == kind = "set" /\ MoveAway

LoadFactorOfItems(f) == kind \in {"c set", "set"} /\ LoadFactorBecomes(f)

GrowPowerOfItems(p) == kind \in {"c set", "set"} /\ GrowPowerBecomes(p)

ResizeItems(n) == kind = "set" /\ Rehash(n)

ResizeFirstItems(n) ==
  /\ kind = "set" /\ Absent
  /\ Made(EmptyTable(RoundUp(n)), RoundUp(n)) /\ oom' = FALSE

ContainsItemC(k) == GetC(k) # <<>>

ContainsItem(k) == count # 0 /\ Position(buckets, k) # -1

FindItem(k) == IF ContainsItem(k) THEN Position(buckets, k) ELSE Size(buckets)

\* A walk over the items, as far as the callback lets it go.
ScannedItems(Stop) == [n \in DOMAIN Scanned(buckets, Stop) |-> buckets[Scanned(buckets, Stop)[n]].key]

\* The class's operator==, with the set whose table is t: as many items, and the
\* other set has each of them.
SameItems(t) ==
  /\ count = Cardinality(Used(t))
  /\ \A i \in Used(buckets) : Position(t, buckets[i].key) # -1

SetNext ==
  \/ \E k \in Keys : InsertItemC(k) \/ InsertItem(k) \/ InsertFirstItem(k) \/ InsertItemFails(k)
  \/ \E k \in Keys : RemoveItemC(k) \/ ExtractItemC(k) \/ EraseItem(k)
  \/ \E update \in BOOLEAN : ClearItemsC(update) \/ ClearItems(update)
  \/ \E S \in SUBSET Keys : FilterItemsC(S) \/ FilterItems(S)
  \/ CopySet \/ MoveSet
  \/ \E f \in Factors : LoadFactorOfItems(f)
  \/ \E p \in Powers : GrowPowerOfItems(p)
  \/ \E n \in Sizes : ResizeItems(n) \/ ResizeFirstItems(n)

HashNext == Next \/ SetNext

HashSpec == Init /\ [][HashNext]_vars

-----------------------------------------------------------------------------
(* Properties *)

\* What the application must see to: a size that it asks for has room for all entries.
RoomAsked == \A n \in Sizes : ResizeC(n) \/ ResizeCpp(n) \/ ResizeItems(n) => count < RoundUp(n)

TypeOK ==
  /\ DOMAIN buckets = 0 .. Size(buckets) - 1
  /\ \A i \in DOMAIN buckets :
       buckets[i] = Empty \/ buckets[i] \in [key : Keys, val : Values \cup {None}, dib : 1 .. Size(buckets)]
  /\ {count, cap, growat, shrinkat, loadfactor, growpower} \subseteq Nat
  /\ oom \in BOOLEAN /\ kind \in Tables /\ broken \in {"no", "holes", "stuck"}

\* What is in a table, however it may be found.
ContentsOf(t) ==
  LET entries == {t[i] : i \in Used(t)} IN
  [k \in {e.key : e \in entries} |-> (CHOOSE e \in entries : e.key = k).val]

Contents == ContentsOf(buckets)

\* A lookup finds every key that is in the table, in the only bucket that has
\* it, and count is the number of entries.  (Not when filter could not rebuild
\* the table: then entries behind a hole are lost.)
Findable ==
  broken # "holes" =>
  /\ \A i \in Used(buckets) : Position(buckets, buckets[i].key) = i
  /\ count = Cardinality(Used(buckets))

\* Every loop over the table ends: nothing is pushed round for ever, and a
\* probe for a key that is not there meets an empty bucket.
ProbesEnd == broken # "stuck" /\ (Absent \/ Used(buckets) # DOMAIN buckets)

\* The order that Robin Hood insertion and backward shifting keep up between
\* them: every entry knows its distance from home, and is at most one step
\* further from it than the entry in front of it.
RobinHood ==
  broken # "holes" =>
  LET n == Size(buckets) IN
  \A i \in Used(buckets) :
    /\ (Hash[buckets[i].key] + buckets[i].dib - 1) % n = i
    /\ buckets[i].dib <= buckets[(i - 1 + n) % n].dib + 1

\* The load factor that was configured decides when the table grows, also
\* after it has been resized.  (Of the C++ class: the C functions forget it.)
LoadFactorHolds == cpp => growat = Percent(Size(buckets), loadfactor)

\* The entries are where a probe looks for them, in order, and the limits fit.
Consistent == TypeOK /\ Findable /\ RobinHood /\ LoadFactorHolds

\* The table implements a function from keys to values.
Promise == INSTANCE FiniteMap WITH map <- Contents, Values <- Values \cup {None}

ImplementsFiniteMap == Promise!Spec

Updated(map, k, v) == [j \in DOMAIN map \cup {k} |-> IF j = k THEN v ELSE map[j]]
Ascending(s) == \A i, j \in DOMAIN s : i < j => s[i] < s[j]

\* Whatever table has come about: setting a value changes that key only, deleting
\* one removes it only, moving or copying the entries to another table changes
\* nothing, a lookup returns what is there, and an iterator visits all of it once.
CallsExact ==
  Works =>
  /\ \A k \in Keys, v \in IF kind \in {"c map", "map"} THEN Values ELSE {None} :
       ContentsOf(IF cpp THEN AssignedOrPlaced(k, v) ELSE InsertedWhileSearching(k, v).table)
         = Updated(Contents, k, v)
  /\ \A k \in Keys :
       IF k \in DOMAIN Contents
         THEN /\ GetC(k) = <<Contents[k]>> /\ Get(k) = GetC(k)
              /\ Probe(Find(k)).key = k
         ELSE GetC(k) = <<>> /\ Get(k) = <<>> /\ Find(k) = Size(buckets)
  /\ \A k \in DOMAIN Contents :
       ContentsOf(ShiftedBack(buckets, Position(buckets, k))) = Restrict(Contents, DOMAIN Contents \ {k})
  /\ ContentsOf(Rehashed(buckets, 2 * Size(buckets))) = Contents
  /\ ContentsOf(Copied(buckets, cap, {})) = Contents
  /\ Range(Scanned(buckets, {})) = Used(buckets) /\ Ascending(Scanned(buckets, {}))

\* A set has what its table holds, says so, walks over it once, stops where it
\* is told to, and equals a set with another table exactly when that holds the same.
ItemCallsExact ==
  (kind \in {"c set", "set"} /\ Works) =>
  /\ {k \in Keys : ContainsItemC(k)} = DOMAIN Contents
  /\ {k \in Keys : ContainsItem(k)} = DOMAIN Contents
  /\ \A k \in DOMAIN Contents : buckets[FindItem(k)].key = k
  /\ Range(ScannedItems({})) = DOMAIN Contents /\ Len(ScannedItems({})) = count
  /\ \A k \in DOMAIN Contents : LET visited == ScannedItems({k}) IN visited[Len(visited)] = k
  /\ SameItems(Rehashed(buckets, 2 * Size(buckets)))
  /\ \A k \in DOMAIN Contents : \A j \in (Keys \ DOMAIN Contents) \cup {k} :
       SameItems(Placed(ShiftedBack(buckets, FindItem(k)), Entry(j, None))) <=> j = k
=============================================================================
