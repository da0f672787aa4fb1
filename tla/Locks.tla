------------------------------- MODULE Locks --------------------------------
(***************************************************************************)
(* Who waits for whom: a behaviour is one of TinyLock, of the condition    *)
(* variable of Threads, or of DispatchHub, as "part" says.                 *)
(***************************************************************************)
EXTENDS TinyLock

CONSTANTS
  None,
  Waiters,                              \* Threads
  Callers, FnNames, Handlers, MaxDepth  \* DispatchHub

VARIABLES part, os, context, event, system, detached, retval, callable, holds, joined,
  flag, mutex, place, answers,
  s_lock, entries, stack, contexts, honest

Waiting == INSTANCE Threads WITH
  Workers <- {}, Objects <- {}, Null <- None, Windows <- Wasm, CreateFails <- FALSE

Hub == INSTANCE DispatchHub WITH Null <- None

\* What the theorem about the condition variable assumes.
WaitAssumption == None \notin Waiters

handleVars == <<os, context, event, system, detached, retval, callable, holds, joined>>
waitVars == <<flag, mutex, place, answers>>
hubVars == <<s_lock, entries, stack, contexts, honest>>
allVars == <<part, vars, handleVars, waitVars, hubVars>>

LocksInit == part \in {"lock", "waiting", "hub"} /\ Init /\ Waiting!ThreadsInit /\ Hub!HubInit

LocksNext ==
  \/ part = "lock" /\ Next /\ UNCHANGED <<part, handleVars, waitVars, hubVars>>
  \/ part = "waiting" /\ Waiting!WaitingNext /\ UNCHANGED <<part, vars, hubVars>>
  \/ part = "hub" /\ Hub!HubNext /\ UNCHANGED <<part, vars, handleVars, waitVars>>

LocksSpec == LocksInit /\ [][LocksNext]_allVars

\* A wait answers what its predicate is, under the mutex, also when its time is up; a call
\* of the hub answers true exactly when a handler ran and ended without an error.
AnswersTrue == Waiting!AnswersTrue /\ Hub!HubSafe
=============================================================================
