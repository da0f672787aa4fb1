-------------------------------- MODULE Lists --------------------------------
(***************************************************************************)
(* What a linear container promises: a sequence of elements, which a call  *)
(* changes as it says or, when it reports failure, not at all.             *)
(***************************************************************************)
EXTENDS Sequences, Integers

CONSTANTS
  Objects, Elements,
  Unset,     \* what an element is set to when the caller does not say
  Longest,   \* bound on what is given to one call
  MaxLength  \* bound on the sequences

VARIABLES list, ok

vars == <<list, ok>>

Init ==
  /\ \E n \in 0 .. MaxLength : list = [o \in Objects |-> [i \in 1 .. n |-> Unset]]
  /\ ok \in BOOLEAN

Inserted(s, i, d) == SubSeq(s, 1, i) \o d \o SubSeq(s, i + 1, Len(s))
Erased(s, i, n) == SubSeq(s, 1, i) \o SubSeq(s, i + n + 1, Len(s))
Padded(s, n, e) == s \o [i \in 1 .. n - Len(s) |-> e]

\* A call on one object that succeeds: up to Longest elements are inserted somewhere,
\* or some are erased, or equal ones follow.
Changed(s, t) ==
  LET n == Len(t) - Len(s) IN
  \/ /\ n \in 0 .. Longest
     /\ \E i \in 0 .. Len(s) : LET d == SubSeq(t, i + 1, i + n) IN d \in Seq(Elements) /\ t = Inserted(s, i, d)
  \/ n \in -Len(s) .. 0 /\ \E i \in 0 .. Len(t) : t = Erased(s, i, -n)
  \/ n \in 0 .. MaxLength /\ \E e \in Elements \cup {Unset} : t = Padded(s, Len(t), e)

Succeeds(o) ==
  /\ Changed(list[o], list'[o])
  /\ \A p \in Objects \ {o} : list'[p] = list[p]
  /\ ok'

\* The object is made anew: from nothing, as a copy, or (without memory) empty.
Copies(o, p) ==
  /\ list' \in {[list EXCEPT ![o] = list[p]], [list EXCEPT ![o] = <<>>]}
  /\ ok' = (list'[o] = list[p])

\* What objects are made from is all alike, and unset elements may follow.
Uniform(s) ==
  \E e \in Elements, n \in 0 .. Len(s) : \A i \in DOMAIN s : s[i] = IF i <= n THEN e ELSE Unset

Makes(o) ==
  /\ \A p \in Objects \ {o} : list'[p] = list[p]
  /\ \/ list'[o] = <<>>
     \/ ok' /\ Len(list'[o]) <= MaxLength /\ Uniform(list'[o])

\* Written to in place: one element, or all of them.
Assigns(o) ==
  /\ \E i \in DOMAIN list[o], e \in Elements \cup {Unset} : list' = [list EXCEPT ![o][i] = e]
  /\ ok'

Fills(o) ==
  /\ \E e \in Elements \cup {Unset} : list' = [list EXCEPT ![o] = [i \in DOMAIN @ |-> e]]
  /\ ok'

\* A string appended n times, for which the memory did not last.
FillsPartly(o, e, n) == list' = [list EXCEPT ![o] = @ \o [i \in 1 .. n |-> e]] /\ ~ok'

\* What was moved from is left empty, or with unset elements.
Moves(o, p) ==
  /\ o # p
  /\ \E s \in {<<>>, [i \in DOMAIN list[p] |-> Unset]} : list' = [list EXCEPT ![o] = list[p], ![p] = s]
  /\ ok'

Swaps(o, p) == list' = [list EXCEPT ![o] = list[p], ![p] = list[o]] /\ ok'

Fails == ~ok' /\ UNCHANGED list

Next ==
  \/ Fails
  \/ \E o \in Objects :
       \/ Succeeds(o) \/ Makes(o) \/ Assigns(o) \/ Fills(o)
       \/ \E e \in Elements : FillsPartly(o, e, 1)
       \/ \E p \in Objects : Copies(o, p) \/ Moves(o, p) \/ Swaps(o, p)

Spec == Init /\ [][Next]_vars
-----------------------------------------------------------------------------
(* Bit containers: lists of zeros and ones, changed in place and combined *)

Operation == {"and", "or", "xor", "not"}

Combined(op, x, y) ==
  CASE op = "and" -> IF x = 1 /\ y = 1 THEN 1 ELSE 0
    [] op = "or" -> IF x = 1 \/ y = 1 THEN 1 ELSE 0
    [] op = "xor" -> IF x # y THEN 1 ELSE 0
    [] op = "not" -> 1 - y

Only(o, s) == list' = [list EXCEPT ![o] = s] /\ ok'

Flips(o) == Only(o, [i \in DOMAIN list[o] |-> 1 - list[o][i]])

\* The bits that the other one does not have are kept, or else lost to zero: all of
\* them up to some place.
Combines(o, p) ==
  \E op \in Operation, lost \in 0 .. MaxLength :
    Only(o, [i \in DOMAIN list[o] |->
              CASE i <= Len(list[p]) -> Combined(op, list[o][i], list[p][i])
                [] i > Len(list[p]) /\ i <= lost -> 0
                [] OTHER -> list[o][i]])

BitNext ==
  \/ Next
  \/ \E o \in Objects : Flips(o) \/ \E p \in Objects : Combines(o, p)

BitSpec == Init /\ [][BitNext]_vars
=============================================================================
