----------------------------- MODULE MCProgress -----------------------------
(***************************************************************************)
(* Who waits for whom: a behaviour is one of the three parts of Locks or   *)
(* one of CoroPool, without clients that poll, as "part" says.  The parts  *)
(* share no variable.                                                      *)
(***************************************************************************)
EXTENDS Locks

CONSTANTS Workers, Clients, Pollers, Tasks, CreateMayFail    \* CoroPool

VARIABLES phase, isRunning, queue, pending, stage, cur, spawnee, status

Scheduler == INSTANCE CoroPool WITH NoTask <- None, pc <- stage

ASSUME WaitersAssumption == WaitAssumption

taskVars == <<phase, isRunning, queue, pending, stage, cur, spawnee, status>>

ProgressInit ==
  /\ part \in {"scheduler", "lock", "waiting", "hub"}
  /\ Init /\ Waiting!ThreadsInit /\ Hub!HubInit /\ Scheduler!Init

ProgressNext ==
  \/ part = "scheduler" /\ Scheduler!Next
     /\ UNCHANGED <<part, vars, handleVars, waitVars, hubVars>>
  \/ LocksNext /\ UNCHANGED taskVars

\* Each liveness property below names the fairness of its own part.
ProgressSpec == ProgressInit /\ [][ProgressNext]_<<allVars, taskVars>>

-----------------------------------------------------------------------------
\* No worker of a pool sleeps, or is about to, while the queue holds work or the pool shuts
\* down.
WorkersWoken == Scheduler!NoLostWakeup

\* The lock is taken as long as anybody waits, waits with a limit return, calls come back.
EverybodyGoesOn ==
  /\ Fairness => SomeoneGetsIn
  /\ Waiting!WaitingFair => Waiting!WaitsReturn
  /\ Hub!HubFair => Hub!DispatchReturns

\* pool_wait returns, provided that every body eventually returns.
WaitsComeBack == part = "scheduler" /\ Scheduler!Fairness => Scheduler!WaitReturns

\* pool_destroy returns, even if some bodies only ever yield.
DestroyComesBack == part = "scheduler" /\ Scheduler!Fairness => Scheduler!DestroyReturns

\* A queued task gets its turn, even if others yield for ever.
EverybodyHasTurns == part = "scheduler" /\ Scheduler!Fairness => Scheduler!NoStarvation
=============================================================================
