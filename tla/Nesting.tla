------------------------------ MODULE Nesting -------------------------------
(***************************************************************************)
(* What coroutines promise: on every thread a context runs, a context that *)
(* resumes a coroutine waits for it, and a coroutine that yields or ends   *)
(* gives control back to the context that resumed it last.                 *)
(***************************************************************************)
CONSTANTS
  Threads,
  Coros,
  MainOf,   \* the context in which each thread starts
  None

VARIABLES
  top,       \* the context that runs on each thread
  resumer,   \* the context that waits for each coroutine
  ended      \* coroutines whose function has returned

vars == <<top, resumer, ended>>

Init ==
  /\ top = [t \in Threads |-> MainOf[t]]
  /\ resumer = [c \in Coros |-> None]
  /\ ended = {}

Resume(t, c) ==
  /\ c \notin ended /\ resumer[c] = None
  /\ top' = [top EXCEPT ![t] = c]
  /\ resumer' = [resumer EXCEPT ![c] = top[t]]
  /\ UNCHANGED ended

Leave(t, c) ==
  /\ top[t] = c
  /\ top' = [top EXCEPT ![t] = resumer[c]]
  /\ resumer' = [resumer EXCEPT ![c] = None]

Yield(t, c) == Leave(t, c) /\ UNCHANGED ended

End(t, c) == Leave(t, c) /\ ended' = ended \cup {c}

Next == \E t \in Threads, c \in Coros : Resume(t, c) \/ Yield(t, c) \/ End(t, c)

Spec == Init /\ [][Next]_vars
=============================================================================
