------------------------------ MODULE MCShared ------------------------------
(* Shared on small instances: two threads with pointers, three connections to   *)
(* two files, three connections of two extensions.                              *)
EXTENDS Shared

CONSTANTS
  th1, th2, s1, s2, s3, v1, v2, v3, b1, b2,
  c1, c2, c3, f1, f2, u1, u2, u3, u4, a1, a2, e1, e2, e3,
  x1, x2, n1, n2, n3

ASSUME PartsAssumed == PartsAssumption

\* Two threads, the first with two shared pointer variables and one weak one, the second the
\* other way round.
TwoThreads == {th1, th2}
ThreeStrong == {s1, s2, s3}
FirstOwns == {s1, s2, v1}
OwnerOf == [h \in Strong \cup Weak |-> IF h \in FirstOwns THEN th1 ELSE th2]
TwoBlocks == {b1, b2}
ThreeWeak == {v1, v2, v3}

\* Three connections with a function each to two files, one with a statement.
TwoFiles == {f1, f2}
ThreeConns == {c1, c2, c3}
FilesOfThree == c1 :> f1 @@ c2 :> f1 @@ c3 :> f2
FunctionsOfThree == {u1, u2, u3}
OneCache == {a1}
OwnersOfThree == u1 :> c1 @@ u2 :> c2 @@ u3 :> c3 @@ a1 :> c2

\* Two connections to one file, two functions and a statement each.
OneFile == {f1}
TwoConns == {c1, c2}
FilesOfTwo == c1 :> f1 @@ c2 :> f1
FunctionsOfTwo == {u1, u2, u3, u4}
TwoCaches == {a1, a2}
OwnersOfTwo == u1 :> c1 @@ u2 :> c2 @@ u3 :> c1 @@ u4 :> c2 @@ a1 :> c1 @@ a2 :> c2

TwoEntries == {e1, e2}
ThreeEntries == {e1, e2, e3}

\* Two connections of one extension, one of another, and three pools.
TwoTags == {x1, x2}
TagsOfAll == [c \in Conns |-> IF c = c3 THEN x2 ELSE x1]
ThreeNodes == {n1, n2, n3}
=============================================================================
