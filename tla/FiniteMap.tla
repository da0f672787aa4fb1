------------------------------ MODULE FiniteMap ------------------------------
(***************************************************************************)
(* What a hash map promises: a function from keys to values, without       *)
(* buckets, and what each call does to it.                                 *)
(***************************************************************************)

CONSTANTS Keys, Values

VARIABLE map

Init == map \in [{} -> Values]

Put(k, v) == map' = [j \in DOMAIN map \cup {k} |-> IF j = k THEN v ELSE map[j]]

Drop(S) == map' = [j \in DOMAIN map \ S |-> map[j]]

Next ==
  \/ \E k \in Keys, v \in Values : Put(k, v)
  \/ \E S \in SUBSET DOMAIN map : Drop(S)

Spec == Init /\ [][Next]_map
=============================================================================
