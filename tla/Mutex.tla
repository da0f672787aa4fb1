-------------------------------- MODULE Mutex --------------------------------
(***************************************************************************)
(* What a lock promises: at any time at most one thread has it.            *)
(***************************************************************************)
CONSTANT Threads

VARIABLE holders     \* the threads that have the lock

Init == holders = {}

Acquire(t) == holders = {} /\ holders' = {t}

Release(t) == holders = {t} /\ holders' = {}

Next == \E t \in Threads : Acquire(t) \/ Release(t)

Spec == Init /\ [][Next]_holders
=============================================================================
