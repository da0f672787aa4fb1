------------------------------ MODULE TaskPool ------------------------------
(***************************************************************************)
(* What the coroutine pool promises about tasks, without threads, locks,   *)
(* condition variables or counters: tasks are stepped in FIFO order, a     *)
(* task is in one place at a time, one that yielded goes to the back, and  *)
(* none is thrown away before the pool is closed.                          *)
(***************************************************************************)
EXTENDS Naturals, Sequences

CONSTANT Tasks

VARIABLES
  open,      \* the pool accepts tasks
  ready,     \* tasks waiting for their next step, oldest first
  active,    \* tasks being stepped
  done,      \* tasks whose body returned
  dropped    \* tasks thrown away at shutdown

vars == <<open, ready, active, done, dropped>>

Queued == {ready[i] : i \in 1 .. Len(ready)}

Init == /\ open = TRUE
        /\ ready = <<>>
        /\ active = {} /\ done = {} /\ dropped = {}

Submit(t) == /\ open
             /\ t \notin Queued \cup active \cup done \cup dropped
             /\ ready' = Append(ready, t)
             /\ UNCHANGED <<open, active, done, dropped>>

Step == /\ ready # <<>>
        /\ active' = active \cup {Head(ready)}
        /\ ready' = Tail(ready)
        /\ UNCHANGED <<open, done, dropped>>

Yield(t) == /\ open
            /\ t \in active
            /\ active' = active \ {t}
            /\ ready' = Append(ready, t)
            /\ UNCHANGED <<open, done, dropped>>

Finish(t) == /\ t \in active
             /\ active' = active \ {t}
             /\ done' = done \cup {t}
             /\ UNCHANGED <<open, ready, dropped>>

Close == /\ open' = FALSE
         /\ UNCHANGED <<ready, active, done, dropped>>

DropActive(t) == /\ ~open
                 /\ t \in active
                 /\ active' = active \ {t}
                 /\ dropped' = dropped \cup {t}
                 /\ UNCHANGED <<open, ready, done>>

DropQueued == /\ ~open
              /\ active = {}
              /\ dropped' = dropped \cup Queued
              /\ ready' = <<>>
              /\ UNCHANGED <<open, active, done>>

Next == \/ \E t \in Tasks : Submit(t) \/ Yield(t) \/ Finish(t) \/ DropActive(t)
        \/ Step \/ Close \/ DropQueued

Spec == Init /\ [][Next]_vars

=============================================================================
