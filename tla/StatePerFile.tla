---------------------------- MODULE StatePerFile ----------------------------
(***************************************************************************)
(* What the shared state registry promises: per database file at most one  *)
(* state object, which everybody who opens the file gets, and which is     *)
(* disposed of only when nobody uses it.                                   *)
(***************************************************************************)
CONSTANTS Files, Objects, Users, FileOf, NoObject

VARIABLES
  current,   \* the state object of each file
  given,     \* the object each user was given
  past,      \* objects that have been disposed of
  void       \* the registry has lacked memory, and promises nothing any more

vars == <<current, given, past, void>>

UsersOf(f) == {u \in Users : FileOf[u] = f /\ given[u] # NoObject}

Init == /\ current = [f \in Files |-> NoObject]
        /\ given = [u \in Users |-> NoObject]
        /\ past = {}
        /\ void = FALSE

\* The first user brings a new object, the next ones get the same.
Open(u, o) ==
  LET f == FileOf[u] IN
  /\ given[u] = NoObject
  /\ \/ current[f] = o
     \/ /\ current[f] = NoObject /\ o \notin past
        /\ \A g \in Files : current[g] # o
  /\ current' = [current EXCEPT ![f] = o]
  /\ given' = [given EXCEPT ![u] = o]
  /\ UNCHANGED past

Close(u) ==
  /\ given[u] # NoObject
  /\ given' = [given EXCEPT ![u] = NoObject]
  /\ UNCHANGED <<current, past>>

\* The object is unlinked first, its memory returned later.
Retire(f) ==
  /\ current[f] # NoObject /\ UsersOf(f) = {}
  /\ current' = [current EXCEPT ![f] = NoObject]
  /\ past' = past \cup {current[f]}
  /\ UNCHANGED given

Next ==
  \/ \E u \in Users : Close(u) \/ \E o \in Objects : Open(u, o)
  \/ \E f \in Files : Retire(f)

Spec == Init /\ [][void' \/ (Next /\ UNCHANGED void)]_vars
=============================================================================
