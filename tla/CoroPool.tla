------------------------------ MODULE CoroPool ------------------------------
(***************************************************************************)
(* The M:N coroutine scheduler of async/sqlite3_coro_sched.h: a FIFO queue *)
(* of stackful tasks, worker threads that resume them, clients that spawn, *)
(* step (poll_one) and wait, and the pool's start-up and tear-down.        *)
(*                                                                         *)
(* A critical section of pool->lock is one step, with one exception: a     *)
(* worker that finds nothing to do keeps the lock from its test of the     *)
(* predicate until cond_wait has put it to sleep (pc = "gowait"), because  *)
(* pool_init's failure path changes the predicate without the lock.        *)
(***************************************************************************)
EXTENDS Integers, Sequences, FiniteSets, TLC

CONSTANTS
  Workers,        \* worker threads the pool starts; {} is the event-loop mode
  Clients,        \* application threads that call the pool's functions
  Pollers,        \* the clients that step tasks themselves with poll_one
  Tasks,          \* tasks that may be spawned, each at most once
  NoTask,         \* a NULL task pointer
  CreateMayFail   \* whether the operating system may refuse a thread

Threads == Workers \cup Clients

ASSUME ThreadsAssumption == /\ Workers \cap Clients = {}
                            /\ Pollers \subseteq Clients
ASSUME TasksAssumption == IsFiniteSet(Tasks) /\ NoTask \notin Tasks
ASSUME CreateAssumption == CreateMayFail \in BOOLEAN

VARIABLES
  phase,      \* where pool_init, then pool_destroy, stands
  isRunning,  \* pool->is_running
  queue,      \* the list from pool->queue_head to pool->queue_tail
  pending,    \* pool->pending_tasks
  pc,         \* what each thread does next
  cur,        \* the local variable task of worker_loop and of poll_one
  spawnee,    \* the task a thread inside pool_spawn has created
  status      \* what has become of each task

vars == <<phase, isRunning, queue, pending, pc, cur, spawnee, status>>

-----------------------------------------------------------------------------
(* Helpers *)

Held(s)  == {t \in Tasks : s[t] = "held"}
InQueue  == {queue[i] : i \in 1 .. Len(queue)}

\* Tasks pending_tasks has to count: queued ones, and those some thread took
\* and has not yet put back or subtracted.
Outstanding ==
  {t \in Tasks : status[t] = "ready" \/ \E th \in Threads : cur[th] = t}

LockFree == \A w \in Workers : pc[w] # "gowait"

Woken(f, from, to) == [th \in Threads |-> IF f[th] = from THEN to ELSE f[th]]

\* Mutants of WakeWorkers: no broadcast; cond_signal for cond_broadcast.
WakesNobody(f) == f
WakesOne(f) ==
  IF \E w \in Workers : f[w] = "waiting"
    THEN [f EXCEPT ![CHOOSE w \in Workers : f[w] = "waiting"] = "top"]
    ELSE f

\* sqlite3_cond_broadcast(&pool->cond_work) and (&pool->cond_done)
WakeWorkers(f) == Woken(f, "waiting", "top")
WakeWaiters(f) == Woken(f, "timedwait", "waitcheck")

\* Where a thread stands when it is through with a task.
Between(th) == IF th \in Workers THEN "top" ELSE "idle"

\* Mutant: the counter is not decremented.
StaysCounted(f) == pending' = pending /\ pc' = f

\* pending_tasks--, and the broadcast that tells waiters it reached zero.
CountDown(f) ==
  /\ pending' = pending - 1
  /\ pc' = IF pending = 1 THEN WakeWaiters(f) ELSE f

\* Thread th moves from one point of its code to another.
Goes(th, from, to) == pc[th] = from /\ pc' = [pc EXCEPT ![th] = to]

OnlyPC == UNCHANGED <<phase, isRunning, queue, pending, cur, spawnee, status>>

LetGo(th) == cur' = [cur EXCEPT ![th] = NoTask]

Init ==
  /\ phase = "starting"
  /\ isRunning = TRUE
  /\ queue = <<>>
  /\ pending = 0
  /\ pc = [th \in Threads |-> IF th \in Workers THEN "unborn" ELSE "idle"]
  /\ cur = [th \in Threads |-> NoTask]
  /\ spawnee = [th \in Threads |-> NoTask]
  /\ status = [t \in Tasks |-> "unborn"]

-----------------------------------------------------------------------------
(* sqlite3_coro_pool_init: starting the workers *)

StartWorker(w) ==
  /\ phase = "starting"
  /\ Goes(w, "unborn", "top")
  /\ OnlyPC

InitDone ==
  /\ phase = "starting"
  /\ \A w \in Workers : pc[w] # "unborn"
  /\ phase' = "running"
  /\ UNCHANGED <<isRunning, queue, pending, pc, cur, spawnee, status>>

\* No memory for the array of thread handles.
WorkersAllocFails ==
  /\ CreateMayFail
  /\ phase = "starting"
  /\ Workers # {}
  /\ \A w \in Workers : pc[w] = "unborn"
  /\ phase' = "failed"
  /\ UNCHANGED <<isRunning, queue, pending, pc, cur, spawnee, status>>

\* A thread cannot be created: is_running is cleared, without the lock.
StartFails ==
  /\ CreateMayFail
  /\ phase = "starting"
  /\ \E w \in Workers : pc[w] = "unborn"
  /\ phase' = "failing"
  /\ isRunning' = FALSE
  /\ UNCHANGED <<queue, pending, pc, cur, spawnee, status>>

\* The broadcast that follows, also without the lock.
FailBroadcast ==
  /\ phase = "failing"
  /\ phase' = "failjoin"
  /\ pc' = WakeWorkers(pc)
  /\ UNCHANGED <<isRunning, queue, pending, cur, spawnee, status>>

\* The workers that did start have been joined; init returns the error.
FailJoined ==
  /\ phase = "failjoin"
  /\ \A w \in Workers : pc[w] \in {"unborn", "exited"}
  /\ phase' = "failed"
  /\ UNCHANGED <<isRunning, queue, pending, pc, cur, spawnee, status>>

-----------------------------------------------------------------------------
(* sqlite3_coro_pool_worker_loop: waiting, leaving, taking a task *)

WorkerFindsNothing(w) ==
  /\ Goes(w, "top", "gowait")
  /\ LockFree
  /\ isRunning /\ queue = <<>>
  /\ OnlyPC

WorkerSleeps(w) ==
  /\ Goes(w, "gowait", "waiting")
  /\ OnlyPC

\* sqlite3_cond_wait may return without a broadcast.
SpuriousWake(w) ==
  /\ Goes(w, "waiting", "top")
  /\ OnlyPC

WorkerExits(w) ==
  /\ Goes(w, "top", "exited")
  /\ LockFree
  /\ ~isRunning /\ queue = <<>>
  /\ OnlyPC

\* queue_head = queue_head->next
Unlink(q) == Tail(q)

\* May thread th dequeue?  A worker at the top of its loop, whether or not the
\* pool still runs; a client inside poll_one.
MayTake(th) ==
  \/ th \in Workers /\ pc[th] = "top"
  \/ th \in Pollers /\ pc[th] = "idle" /\ spawnee[th] = NoTask /\ phase = "running"

Take(th) ==
  /\ MayTake(th)
  /\ LockFree
  /\ queue # <<>>
  /\ cur' = [cur EXCEPT ![th] = Head(queue)]
  /\ status' = [status EXCEPT ![Head(queue)] = "held"]
  /\ queue' = Unlink(queue)
  /\ pc' = [pc EXCEPT ![th] = "run"]
  /\ UNCHANGED <<phase, isRunning, pending, spawnee>>

-----------------------------------------------------------------------------
(* The task's body, resumed on thread th, until it yields or returns *)

Yield(th) ==
  /\ pc[th] = "run" /\ spawnee[th] = NoTask
  /\ pc' = [pc EXCEPT ![th] = "yielded"]
  /\ OnlyPC

Return(th) ==
  /\ pc[th] = "run" /\ spawnee[th] = NoTask
  /\ pc' = [pc EXCEPT ![th] = "finished"]
  /\ OnlyPC

-----------------------------------------------------------------------------
(* What worker_loop and poll_one do with a task after resuming it *)

\* The fiber and the task of a body that returned are freed, outside the lock.
FreeFinished(th) ==
  /\ Goes(th, "finished", "uncount")
  /\ status' = [status EXCEPT ![cur[th]] = "completed"]
  /\ UNCHANGED <<phase, isRunning, queue, pending, cur, spawnee>>

UncountFinished(th) ==
  /\ pc[th] = "uncount"
  /\ LockFree
  /\ CountDown([pc EXCEPT ![th] = Between(th)])
  /\ LetGo(th)
  /\ UNCHANGED <<phase, isRunning, queue, spawnee, status>>

\* Mutant of PutBack: to the head of the queue.
PutBackFirst(th) ==
  /\ queue' = <<cur[th]>> \o queue
  /\ status' = [status EXCEPT ![cur[th]] = "ready"]
  /\ LetGo(th)

\* Back to the tail of the ready queue.
PutBack(th) ==
  /\ queue' = Append(queue, cur[th])
  /\ status' = [status EXCEPT ![cur[th]] = "ready"]
  /\ LetGo(th)

\* Mutant of WorkerRequeues: is_running is not looked at.
WorkerAlwaysRequeues(w) ==
  /\ pc[w] = "yielded"
  /\ LockFree
  /\ PutBack(w)
  /\ pc' = WakeWorkers([pc EXCEPT ![w] = "top"])
  /\ UNCHANGED <<phase, isRunning, pending, spawnee>>

WorkerRequeues(w) ==
  /\ pc[w] = "yielded"
  /\ LockFree
  /\ isRunning
  /\ PutBack(w)
  /\ pc' = WakeWorkers([pc EXCEPT ![w] = "top"])
  /\ UNCHANGED <<phase, isRunning, pending, spawnee>>

\* poll_one neither looks at is_running nor wakes a worker.
PollerRequeues(c) ==
  /\ Goes(c, "yielded", "idle")
  /\ LockFree
  /\ PutBack(c)
  /\ UNCHANGED <<phase, isRunning, pending, spawnee>>

\* The pool is shutting down: a worker gives up the task that yielded to it...
WorkerDiscards(w) ==
  /\ Goes(w, "yielded", "discard")
  /\ LockFree
  /\ ~isRunning
  /\ OnlyPC

\* Mutant of FreeDiscarded: fiber and task are not freed.
LeaveDiscarded(w) == Goes(w, "discard", "uncountlast") /\ OnlyPC

\* ... frees it outside the lock ...
FreeDiscarded(w) ==
  /\ Goes(w, "discard", "uncountlast")
  /\ status' = [status EXCEPT ![cur[w]] = "discarded"]
  /\ UNCHANGED <<phase, isRunning, queue, pending, cur, spawnee>>

\* ... counts it out, and leaves the loop.
UncountDiscarded(w) ==
  /\ pc[w] = "uncountlast"
  /\ LockFree
  /\ CountDown(WakeWorkers([pc EXCEPT ![w] = "exited"]))
  /\ LetGo(w)
  /\ UNCHANGED <<phase, isRunning, queue, spawnee, status>>

-----------------------------------------------------------------------------
(* sqlite3_coro_pool_spawn, by an idle client or by a running body *)

MaySpawn(th) ==
  /\ spawnee[th] = NoTask
  /\ \/ pc[th] = "run"
     \/ pc[th] = "idle" /\ phase = "running"

\* The task and its fiber are allocated before the lock is taken.
SpawnCreates(th, t) ==
  /\ MaySpawn(th)
  /\ status[t] = "unborn"
  /\ status' = [status EXCEPT ![t] = "created"]
  /\ spawnee' = [spawnee EXCEPT ![th] = t]
  /\ UNCHANGED <<phase, isRunning, queue, pending, pc, cur>>

\* pending_tasks++
Counted(n) == n + 1

SpawnEnqueues(th) ==
  /\ spawnee[th] # NoTask
  /\ LockFree
  /\ isRunning
  /\ queue' = Append(queue, spawnee[th])
  /\ status' = [status EXCEPT ![spawnee[th]] = "ready"]
  /\ pending' = Counted(pending)
  /\ pc' = WakeWorkers(pc)
  /\ spawnee' = [spawnee EXCEPT ![th] = NoTask]
  /\ UNCHANGED <<phase, isRunning, cur>>

\* SQLITE_MISUSE: the pool has begun to shut down.
SpawnRefused(th) ==
  /\ spawnee[th] # NoTask
  /\ LockFree
  /\ ~isRunning
  /\ status' = [status EXCEPT ![spawnee[th]] = "refused"]
  /\ spawnee' = [spawnee EXCEPT ![th] = NoTask]
  /\ UNCHANGED <<phase, isRunning, queue, pending, pc, cur>>

-----------------------------------------------------------------------------
(* sqlite3_coro_pool_wait *)

\* Mutant of SomePending: tasks that are being stepped are forgotten.
SomeQueued == queue # <<>>

\* The predicate of the wait loop.
SomePending == pending > 0

WaitBegins(c) ==
  /\ phase = "running"
  /\ pc[c] = "idle" /\ spawnee[c] = NoTask
  /\ pc' = [pc EXCEPT ![c] = "waitcheck"]
  /\ OnlyPC

WaitSleeps(c) ==
  /\ Goes(c, "waitcheck", "timedwait")
  /\ LockFree
  /\ SomePending
  /\ OnlyPC

\* The 25 ms are over (or the wake-up is spurious).
WaitTimesOut(c) ==
  /\ Goes(c, "timedwait", "waitcheck")
  /\ OnlyPC

WaitEnds(c) ==
  /\ Goes(c, "waitcheck", "idle")
  /\ LockFree
  /\ ~SomePending
  /\ OnlyPC

-----------------------------------------------------------------------------
(* sqlite3_coro_pool_destroy; no client may be inside the pool or enter it *)

DestroyBegins ==
  /\ phase = "running"
  /\ \A c \in Clients : pc[c] = "idle" /\ spawnee[c] = NoTask
  /\ LockFree
  /\ phase' = "stopping"
  /\ isRunning' = FALSE
  /\ pc' = WakeWorkers(pc)
  /\ UNCHANGED <<queue, pending, cur, spawnee, status>>

\* The tasks still in the queue when the workers are gone.
Leftover == InQueue

\* All workers joined: what is left in the queue is freed unexecuted.
DestroyEnds ==
  /\ phase = "stopping"
  /\ \A w \in Workers : pc[w] = "exited"
  /\ phase' = "destroyed"
  /\ status' = [t \in Tasks |-> IF t \in Leftover THEN "discarded" ELSE status[t]]
  /\ queue' = <<>>
  /\ pending' = 0
  /\ UNCHANGED <<isRunning, pc, cur, spawnee>>

\* The pool is gone (or never came up): nothing more happens to it.
Over ==
  /\ phase \in {"destroyed", "failed"}
  /\ UNCHANGED vars

-----------------------------------------------------------------------------
(* The specification *)

WorkerStep(w) ==
  \/ StartWorker(w)
  \/ WorkerFindsNothing(w) \/ WorkerSleeps(w) \/ SpuriousWake(w) \/ WorkerExits(w)
  \/ WorkerRequeues(w)
  \/ WorkerDiscards(w) \/ FreeDiscarded(w) \/ UncountDiscarded(w)

ClientStep(c) ==
  \/ PollerRequeues(c)
  \/ WaitBegins(c) \/ WaitSleeps(c) \/ WaitTimesOut(c) \/ WaitEnds(c)

ThreadStep(th) ==
  \/ Take(th) \/ Yield(th) \/ Return(th)
  \/ FreeFinished(th) \/ UncountFinished(th)
  \/ \E t \in Tasks : SpawnCreates(th, t)
  \/ SpawnEnqueues(th) \/ SpawnRefused(th)

PoolStep ==
  \/ InitDone \/ WorkersAllocFails \/ StartFails \/ FailBroadcast \/ FailJoined
  \/ DestroyBegins \/ DestroyEnds
  \/ Over

Next ==
  \/ \E w \in Workers : WorkerStep(w)
  \/ \E c \in Clients : ClientStep(c)
  \/ \E th \in Threads : ThreadStep(th)
  \/ PoolStep

Spec == Init /\ [][Next]_vars

-----------------------------------------------------------------------------
(* Fairness                                                                *)
(* A mutex is not granted to others for ever while a thread asks for it:   *)
(* strong fairness of the steps that take the lock.  Every other step of a *)
(* thread is taken once it can be.  No client has to call anything, nothing*)
(* wakes a sleeper spuriously on demand, and a body may yield for ever.    *)

LocksForTask(th) == UncountFinished(th) \/ SpawnEnqueues(th) \/ SpawnRefused(th)

\* A worker always comes back for the next task; a client need not.
LocksFairly(th) ==
  \/ LocksForTask(th)
  \/ /\ th \in Workers
     /\ \/ Take(th) \/ WorkerFindsNothing(th) \/ WorkerExits(th)
        \/ WorkerRequeues(th) \/ WorkerDiscards(th) \/ UncountDiscarded(th)
  \/ th \in Clients /\ (PollerRequeues(th) \/ WaitSleeps(th) \/ WaitEnds(th))

Proceeds(th) ==
  \/ Yield(th) \/ Return(th) \/ FreeFinished(th)
  \/ th \in Workers /\ (StartWorker(th) \/ WorkerSleeps(th) \/ FreeDiscarded(th))
  \/ th \in Clients /\ WaitTimesOut(th)

Fairness ==
  /\ \A th \in Threads : SF_vars(LocksFairly(th)) /\ WF_vars(Proceeds(th))
  /\ WF_vars(InitDone \/ FailBroadcast \/ FailJoined \/ DestroyEnds)

\* For pool_wait only: every body that is resumed again and again returns one day.
BodiesReturn == \A t \in Tasks :
  SF_vars(\E th \in Threads : cur[th] = t /\ Return(th))

-----------------------------------------------------------------------------
(* Properties *)

Statuses == {"unborn", "created", "ready", "held", "completed", "discarded", "refused"}
WorkerPCs == {"unborn", "top", "gowait", "waiting", "run", "finished", "uncount",
              "yielded", "discard", "uncountlast", "exited"}
ClientPCs == {"idle", "run", "finished", "uncount", "yielded", "waitcheck", "timedwait"}

TypeOK ==
  /\ phase \in {"starting", "failing", "failjoin", "failed",
                "running", "stopping", "destroyed"}
  /\ isRunning \in BOOLEAN
  /\ queue \in Seq(Tasks)
  /\ pending \in Nat
  /\ pc \in [Threads -> WorkerPCs \cup ClientPCs]
  /\ \A w \in Workers : pc[w] \in WorkerPCs
  /\ \A c \in Clients : pc[c] \in ClientPCs
  /\ cur \in [Threads -> Tasks \cup {NoTask}]
  /\ spawnee \in [Threads -> Tasks \cup {NoTask}]
  /\ status \in [Tasks -> Statuses]

\* A task's stack is never run by two threads and never freed under one: a task
\* is in the queue at most once, or with exactly one thread, and a thread that
\* resumes or inspects a task has one that is still allocated.
Using == {"run", "yielded", "finished", "discard"}

OneOwner ==
  /\ \A i, j \in 1 .. Len(queue) : queue[i] = queue[j] => i = j
  /\ \A t \in InQueue : status[t] = "ready"
  /\ \A t1, t2 \in Threads : cur[t1] = cur[t2] /\ cur[t1] # NoTask => t1 = t2
  /\ \A th \in Threads : pc[th] \in Using => cur[th] # NoTask /\ status[cur[th]] = "held"

\* pending_tasks is exactly the number of tasks that are queued, held by a
\* thread, or freed by a thread that has not yet counted them out; so it never
\* goes negative and reaches zero only when nothing is left to do.
PendingExact == phase # "destroyed" => pending = Cardinality(Outstanding)

\* The queue, the threads and the counter always tell the same story.
Consistent == TypeOK /\ OneOwner /\ PendingExact

\* No lost wake-up: no worker sleeps, or is about to, while the queue holds
\* work or the pool is shutting down.  (With clients that poll, or with thread
\* creation that fails, the code does not keep this: see the README.)
NoLostWakeup ==
  \A w \in Workers : pc[w] \in {"gowait", "waiting"} => isRunning /\ queue = <<>>

\* pool_destroy leaves no task behind, whatever bodies were spawning, yielding
\* or returning on the workers while it ran.
DestroyFreesAll ==
  phase = "destroyed" =>
    \A t \in Tasks : status[t] \notin {"created", "ready", "held"}

\* pool_wait returns only at a moment when no task is queued or being stepped.
WaitReturnsDrained ==
  [][\A c \in Clients : pc[c] = "waitcheck" /\ pc'[c] = "idle" =>
       \A t \in Tasks : status[t] \notin {"ready", "held"}]_vars

\* The pool implements the promise of TaskPool.
Abstract == INSTANCE TaskPool WITH
  open <- isRunning,
  ready <- queue,
  active <- Held(status),
  done <- {t \in Tasks : status[t] = "completed"},
  dropped <- {t \in Tasks : status[t] = "discarded"}

ImplementsTaskPool == Abstract!Spec

\* pool_wait returns, provided that every body eventually returns.
WaitReturns == BodiesReturn => \A c \in Clients : pc[c] = "waitcheck" ~> pc[c] = "idle"

\* pool_destroy returns, even if some bodies only ever yield.
DestroyReturns == phase = "stopping" ~> phase = "destroyed"

\* Round robin: a queued task gets its turn, even if others yield for ever.
NoStarvation == \A t \in Tasks : status[t] = "ready" ~> status[t] # "ready"

\* Workers are interchangeable, and so are tasks; only for safety runs.
Symmetry == Permutations(Workers) \cup Permutations(Tasks)
=============================================================================
