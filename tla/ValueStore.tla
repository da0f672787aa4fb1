----------------------------- MODULE ValueStore ------------------------------
(***************************************************************************)
(* What SqliteValueOwned promises: variables that hold values.  An         *)
(* operation changes the variable it is called on, and no other (a move    *)
(* may leave its source null); an immutable variable keeps its value until *)
(* it is destroyed or unmarked; the application's buffers are not written; *)
(* an operation that reports an error has changed nothing.                 *)
(***************************************************************************)
CONSTANTS
  Slots,      \* variables of the program
  Buffers,    \* buffers of the application
  Contents,   \* numbers, texts and blobs
  Nothing,    \* SQL NULL
  Lost,       \* the value of an operation that lacked memory and cannot say so
  Gone        \* no value: a variable out of scope, a buffer not allocated

VARIABLES value, immutable, buffer, answer

vars == <<value, immutable, buffer, answer>>

Init ==
  /\ value = [s \in Slots |-> Gone]
  /\ immutable = [s \in Slots |-> FALSE]
  /\ buffer = [b \in Buffers |-> Gone]
  /\ answer = "none"

\* A value is put into s: it is constructed, destroyed, assigned or written to.
Put(s) ==
  /\ \E v \in Contents \cup {Nothing, Lost, Gone}, imm \in BOOLEAN :
       /\ immutable[s] => v = Gone
       /\ value' = [value EXCEPT ![s] = v]
       /\ immutable' = [immutable EXCEPT ![s] = imm /\ v # Gone]
  /\ answer' \in {"none", "ok"}
  /\ UNCHANGED buffer

\* s gets the value of t, which keeps it or becomes null.
Take(s, t) ==
  /\ ~immutable[s]
  /\ \E moved \in BOOLEAN, v \in {value[t], Lost} :
       /\ moved => ~immutable[t] /\ v = value[t]
       /\ value' = [x \in Slots |-> IF x = s THEN v ELSE IF x = t /\ moved THEN Nothing ELSE value[x]]
  /\ \E imm \in BOOLEAN : immutable' = [immutable EXCEPT ![s] = imm]
  /\ answer' \in {"none", "ok"}
  /\ UNCHANGED buffer

Mark(s) ==
  /\ immutable' = [immutable EXCEPT ![s] = ~@]
  /\ answer' = "none"
  /\ UNCHANGED <<value, buffer>>

\* The application's buffers come, change and go, or become the value of s.
Application ==
  /\ \E b \in Buffers, v \in Contents \cup {Gone} : buffer' = [buffer EXCEPT ![b] = v]
  /\ answer' = "none"
  /\ UNCHANGED <<value, immutable>>

Adopt(s, b) ==
  /\ value[s] = Gone /\ buffer[b] # Gone
  /\ value' = [value EXCEPT ![s] = buffer[b]]
  /\ \E imm \in BOOLEAN : immutable' = [immutable EXCEPT ![s] = imm]
  /\ buffer' = [buffer EXCEPT ![b] = Gone]
  /\ answer' = "none"

Refuse ==
  /\ answer' \in {"none", "ok", "nomem", "readonly"}
  /\ UNCHANGED <<value, immutable, buffer>>

Next ==
  \/ \E s \in Slots : Put(s) \/ Mark(s)
  \/ \E s, t \in Slots : Take(s, t)
  \/ \E s \in Slots, b \in Buffers : Adopt(s, b)
  \/ Application \/ Refuse

Spec == Init /\ [][Next]_vars

=============================================================================
