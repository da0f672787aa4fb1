------------------------------ MODULE TinyLock ------------------------------
(***************************************************************************)
(* sqlite3_tiny_lock.h: one word, taken by compare-and-swap.  On a native  *)
(* processor a contender reads the word until it is free; on WebAssembly   *)
(* it sleeps on the word and unlock notifies one sleeper, in a step after  *)
(* the one that frees the word.                                            *)
(***************************************************************************)
EXTENDS Naturals

CONSTANTS
  Contenders,
  Wasm           \* the WebAssembly build

VARIABLES
  state,         \* lock->state: 0 free, 1 taken
  pc             \* what each thread is doing with the lock

vars == <<state, pc>>

Places == {"outside", "swap", "wait", "asleep", "holds", "notify"}

Go(t, place) == pc' = [pc EXCEPT ![t] = place]

Init == state = 0 /\ pc = [t \in Contenders |-> "outside"]

Lock(t) ==
  /\ pc[t] = "outside"
  /\ Go(t, "swap")
  /\ UNCHANGED state

\* Mutant of SwapSucceeds: the word is read and written in two steps.
SwapUnchecked(t) ==
  /\ pc[t] = "swap"
  /\ state' = 1
  /\ Go(t, "holds")

SwapSucceeds(t) ==
  /\ pc[t] = "swap" /\ state = 0
  /\ state' = 1
  /\ Go(t, "holds")

\* The weak compare-and-swap may also fail with the word free.
SwapFails(t) ==
  /\ pc[t] = "swap"
  /\ Go(t, "wait")
  /\ UNCHANGED state

\* The read loop ends, or memory.atomic.wait32 finds another value than 1.
WaitPasses(t) ==
  /\ pc[t] = "wait" /\ state = 0
  /\ Go(t, "swap")
  /\ UNCHANGED state

\* Mutant of Sleeps: the word is not looked at when the thread goes to sleep.
SleepsAnyway(t) ==
  /\ Wasm
  /\ pc[t] = "wait"
  /\ Go(t, "asleep")
  /\ UNCHANGED state

\* wait32 compares and goes to sleep in one step; it has no timeout here.
Sleeps(t) ==
  /\ Wasm
  /\ pc[t] = "wait" /\ state = 1
  /\ Go(t, "asleep")
  /\ UNCHANGED state

TryLock(t) ==
  /\ pc[t] = "outside" /\ state = 0
  /\ state' = 1
  /\ Go(t, "holds")

\* Mutant of Unlock: whoever unlocks does not see to the sleepers.
UnlockQuietly(t) ==
  /\ pc[t] = "holds"
  /\ state' = 0
  /\ Go(t, "outside")

Unlock(t) ==
  /\ pc[t] = "holds"
  /\ state' = 0
  /\ Go(t, IF Wasm THEN "notify" ELSE "outside")

\* Mutant of Notify: the lock is handed over without the word.
NotifyHandsOver(t) ==
  /\ pc[t] = "notify"
  /\ \/ \E s \in Contenders :
          /\ pc[s] = "asleep"
          /\ pc' = [pc EXCEPT ![t] = "outside", ![s] = "holds"]
     \/ /\ \A s \in Contenders : pc[s] # "asleep"
        /\ Go(t, "outside")
  /\ UNCHANGED state

\* memory.atomic.notify with a count of 1 wakes one sleeper, if there is any.
Notify(t) ==
  /\ pc[t] = "notify"
  /\ \/ \E s \in Contenders :
          /\ pc[s] = "asleep"
          /\ pc' = [pc EXCEPT ![t] = "outside", ![s] = "swap"]
     \/ /\ \A s \in Contenders : pc[s] # "asleep"
        /\ Go(t, "outside")
  /\ UNCHANGED state

Step(t) ==
  \/ Lock(t) \/ SwapSucceeds(t) \/ SwapFails(t) \/ WaitPasses(t) \/ Sleeps(t)
  \/ TryLock(t) \/ Unlock(t) \/ Notify(t)

Next == \E t \in Contenders : Step(t)

Spec == Init /\ [][Next]_vars

-----------------------------------------------------------------------------
(* A thread in lock or unlock goes on, and a holder unlocks.  Which of the   *)
(* contenders takes the word is left to chance, but they do not all fail for *)
(* ever while it is free.                                                    *)

Fairness ==
  /\ \A t \in Contenders :
       /\ WF_vars(SwapSucceeds(t) \/ SwapFails(t))
       /\ WF_vars(WaitPasses(t) \/ Sleeps(t))
       /\ WF_vars(Unlock(t))
       /\ WF_vars(Notify(t))
  /\ SF_vars(\E t \in Contenders : SwapSucceeds(t))

-----------------------------------------------------------------------------
(* Properties *)

Holders == {t \in Contenders : pc[t] = "holds"}

\* The word and the threads' places have their types.
TypeOK ==
  /\ state \in {0, 1}
  /\ pc \in [Contenders -> Places]

\* The lock excludes: from compare-and-swap to the store of unlock at most one
\* thread is inside, whatever contenders and notifications do meanwhile.
Excluding == INSTANCE Mutex WITH Threads <- Contenders, holders <- Holders

ImplementsMutex == Excluding!Spec

\* The word tells whether somebody holds the lock.
WordTells == state = 1 <=> Holders # {}

\* Word and threads agree.
Consistent == TypeOK /\ WordTells

\* unlock frees the word before it notifies: a thread that goes to sleep in
\* between, or is overtaken by a newcomer, is never left asleep on a free lock
\* with nobody about to take it or to wake it.
NoLostWakeup ==
  state = 0 /\ (\E t \in Contenders : pc[t] = "asleep")
    => \E t \in Contenders : pc[t] \in {"swap", "wait", "notify"}

\* As long as threads wait for the lock, one of them gets it again and again.
SomeoneGetsIn ==
  (\E t \in Contenders : pc[t] \in {"swap", "wait", "asleep"}) ~> Holders # {}
=============================================================================
