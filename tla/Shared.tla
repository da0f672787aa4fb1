------------------------------- MODULE Shared --------------------------------
(***************************************************************************)
(* What threads and connections share: a behaviour is one of SharedPtr,    *)
(* ExtState, ExtPool or CoroPool, as "part" says.  The parts share no      *)
(* variable.  The first three come with the theorems about them.           *)
(***************************************************************************)
EXTENDS CoroPool

CONSTANTS
  Mutators, Strong, Weak, Owner, Blocks,                                         \* SharedPtr
  Conns, Files, FileOf, Functions, Caches, ConnOf, Entries, Apart, MapMayFail,   \* ExtState
  Tags, TagOf, Nodes                                                             \* ExtPool

VARIABLES
  part,
  block, object, strongCount, weakCount, sp, wp, at, cb, seen,   \* SharedPtr
  state, refcount, path, map, ptr, step, entry, oom,             \* ExtState
  lock, list, tag, ref_count, node, body, has, spot, curr        \* ExtPool

Pointers == INSTANCE SharedPtrProofs WITH
  Threads <- Mutators, Null <- NoTask, mem <- block, pc <- at

States == INSTANCE ExtStateProofs WITH None <- NoTask, mem <- state, pc <- step

Pools == INSTANCE ExtPoolProofs WITH None <- NoTask, mem <- node, pc <- spot

\* What the theorems about the parts assume.
PartsAssumption ==
  Pointers!PointersAssumption /\ States!StatesAssumption /\ Pools!RegistryAssumption

pointerVars == <<block, object, strongCount, weakCount, sp, wp, at, cb, seen>>
stateVars == <<state, refcount, path, map, ptr, step, entry, oom>>
poolVars == <<lock, list, tag, ref_count, node, body, has, spot, curr>>
allVars == <<part, vars, pointerVars, stateVars, poolVars>>

SharedInit ==
  /\ part \in {"pointers", "states", "pools", "tasks"}
  /\ Init /\ Pointers!Init /\ States!Init /\ Pools!Init

SharedNext ==
  \/ part = "tasks" /\ Next /\ UNCHANGED <<part, pointerVars, stateVars, poolVars>>
  \/ part = "pointers" /\ Pointers!Next /\ UNCHANGED <<part, vars, stateVars, poolVars>>
  \/ part = "states" /\ States!Next /\ UNCHANGED <<part, vars, pointerVars, poolVars>>
  \/ part = "pools" /\ Pools!Next /\ UNCHANGED <<part, vars, pointerVars, stateVars>>

\* Each liveness property below names the fairness of its own part.
SharedSpec == SharedInit /\ [][SharedNext]_allVars

-----------------------------------------------------------------------------
\* Both counters of a block agree with the pointers to it.
PointersConsistent == Pointers!Consistent

\* No pointer and no running call leads to what is destroyed or freed.
NoDangling == Pointers!NoDangling

\* The counter of a state is the number of its holders.
StatesConsistent == States!Consistent

\* No holder and no running call uses a freed state.
NoUseAfterFree == States!NoUseAfterFree

\* Counts of pools are exact, nothing destroyed is used, and nothing is left behind.
PoolsSafe == Pools!PoolsSafe

\* A shared object lives while somebody points to it, and is destroyed once.
ImplementsRefObject == Pointers!ImplementsRefObject

\* While the map has memory there is one state per file.
ImplementsStatePerFile == States!ImplementsStatePerFile

\* A block is freed once nobody points to it any more.
BlocksReclaimed == Pointers!Fairness => Pointers!Reclaimed

\* A state is freed once nobody holds it any more.
StatesReclaimed == States!Fairness => States!Reclaimed

\* A connection that has begun to destroy pools comes back, if no body calls for ever.
RegistryReturns == Pools!Fairness => Pools!DestroyReturns
=============================================================================
