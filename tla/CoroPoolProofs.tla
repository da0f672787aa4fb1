--------------------------- MODULE CoroPoolProofs ---------------------------
(***************************************************************************)
(* Proofs about CoroPool for every set of workers, clients, pollers and    *)
(* tasks: the type invariant, that a task has one owner, and that          *)
(* pending_tasks counts exactly the tasks that are not yet dealt with.     *)
(* At the end, what is proved of the other parts of Shared is carried over *)
(* to the composition.                                                     *)
(***************************************************************************)
EXTENDS Shared, FiniteSetTheorems, TLAPS

(* The elements of a sequence, and what Append and Tail do to them. *)

Elems(q) == {q[i] : i \in 1 .. Len(q)}
Distinct(q) == \A i, j \in 1 .. Len(q) : q[i] = q[j] => i = j

\* Putting a task at the tail that was not in the list.
LEMMA AppendFacts ==
  ASSUME NEW S, NEW q \in Seq(S), NEW e \in S, Distinct(q), e \notin Elems(q)
  PROVE  /\ Append(q, e) \in Seq(S)
         /\ Distinct(Append(q, e))
         /\ Elems(Append(q, e)) = Elems(q) \cup {e}
<1> DEFINE r == Append(q, e)
<1>1. /\ r \in Seq(S)
      /\ Len(r) = Len(q) + 1
      /\ \A i \in 1 .. Len(q) : r[i] = q[i]
      /\ r[Len(q) + 1] = e
      /\ Len(q) \in Nat
  OBVIOUS
<1> HIDE DEF r
<1>2. Distinct(r)
  BY <1>1 DEF Distinct, Elems
<1>3. Elems(r) = Elems(q) \cup {e}
  BY <1>1 DEF Elems
<1> QED
  BY <1>1, <1>2, <1>3 DEF r

\* Unlinking the head.
LEMMA TailFacts ==
  ASSUME NEW S, NEW q \in Seq(S), q # <<>>, Distinct(q)
  PROVE  /\ Tail(q) \in Seq(S)
         /\ Head(q) \in Elems(q)
         /\ Head(q) \in S
         /\ Distinct(Tail(q))
         /\ Elems(Tail(q)) = Elems(q) \ {Head(q)}
<1> DEFINE r == Tail(q)
<1>1. /\ r \in Seq(S)
      /\ Len(q) \in Nat /\ Len(q) >= 1
      /\ Len(r) = Len(q) - 1
      /\ \A i \in 1 .. Len(r) : r[i] = q[i + 1]
      /\ Head(q) = q[1]
      /\ Head(q) \in S
  OBVIOUS
<1> HIDE DEF r
<1>2. Distinct(r)
  BY <1>1 DEF Distinct
<1>3. Head(q) \in Elems(q)
  BY <1>1 DEF Elems
<1>4. Elems(r) \subseteq Elems(q) \ {Head(q)}
  <2> SUFFICES ASSUME NEW i \in 1 .. Len(r)
               PROVE  r[i] \in Elems(q) /\ r[i] # q[1]
    BY <1>1 DEF Elems
  <2>1. i + 1 \in 1 .. Len(q) /\ i + 1 # 1 /\ 1 \in 1 .. Len(q)
    BY <1>1
  <2> QED
    BY <1>1, <2>1 DEF Elems, Distinct
<1>5. Elems(q) \ {Head(q)} \subseteq Elems(r)
  <2> SUFFICES ASSUME NEW i \in 1 .. Len(q), q[i] # q[1]
               PROVE  q[i] \in Elems(r)
    BY <1>1 DEF Elems
  <2>1. i - 1 \in 1 .. Len(r) /\ r[i - 1] = q[(i - 1) + 1] /\ (i - 1) + 1 = i
    BY <1>1
  <2> QED
    BY <2>1 DEF Elems
<1> QED
  BY <1>1, <1>2, <1>3, <1>4, <1>5 DEF r

-----------------------------------------------------------------------------
(* The inductive invariant *)

Counting == {"uncount", "uncountlast"}

\* The queue lists the ready tasks, each once.
QueueInv ==
  /\ Distinct(queue)
  /\ \A t \in Tasks : status[t] = "ready" <=> t \in Elems(queue)

\* A thread has a task exactly while it steps, frees or counts one out.
CurInv ==
  /\ \A th \in Threads : pc[th] \in Using => cur[th] \in Tasks /\ status[cur[th]] = "held"
  /\ \A th \in Threads :
       pc[th] \in Counting => cur[th] \in Tasks /\ status[cur[th]] \in {"completed", "discarded"}
  /\ \A th \in Threads : pc[th] \notin Using \cup Counting => cur[th] = NoTask
  /\ \A a, b \in Threads : cur[a] = cur[b] /\ cur[a] # NoTask => a = b

\* Nobody loses a task he took.
HeldInv == \A t \in Tasks : status[t] = "held" => \E th \in Threads : cur[th] = t

\* A created task is in the hands of the one thread that is spawning it.
SpawnInv ==
  /\ \A th \in Threads :
       spawnee[th] # NoTask => status[spawnee[th]] = "created" /\ pc[th] \in {"run", "idle"}
  /\ \A a, b \in Threads : spawnee[a] = spawnee[b] /\ spawnee[a] # NoTask => a = b
  /\ \A t \in Tasks : status[t] = "created" => \E th \in Threads : spawnee[th] = t

\* While the pool is being destroyed no client is inside it.
PhaseInv ==
  /\ phase \in {"stopping", "destroyed"} =>
       \A c \in Clients : pc[c] = "idle" /\ spawnee[c] = NoTask
  /\ phase = "destroyed" => queue = <<>> /\ \A w \in Workers : pc[w] = "exited"

IInv == TypeOK /\ QueueInv /\ CurInv /\ HeldInv /\ SpawnInv /\ PhaseInv /\ PendingExact
-----------------------------------------------------------------------------
(* Helper lemmas *)

PCs == WorkerPCs \cup ClientPCs
TypedPC(f) ==
  /\ f \in [Threads -> PCs]
  /\ \A w \in Workers : f[w] \in WorkerPCs
  /\ \A c \in Clients : f[c] \in ClientPCs

\* g is f, but for sleepers that may have been woken.
Wakes(f, g) == \A o \in Threads :
  \/ g[o] = f[o]
  \/ f[o] = "waiting" /\ g[o] = "top"
  \/ f[o] = "timedwait" /\ g[o] = "waitcheck"

LEMMA WakeWorkersFacts ==
  ASSUME NEW f, TypedPC(f)
  PROVE  TypedPC(WakeWorkers(f)) /\ Wakes(f, WakeWorkers(f))
BY ThreadsAssumption DEF TypedPC, Wakes, WakeWorkers, Woken, PCs, WorkerPCs, ClientPCs, Threads

LEMMA WakeWaitersFacts ==
  ASSUME NEW f, TypedPC(f)
  PROVE  TypedPC(WakeWaiters(f)) /\ Wakes(f, WakeWaiters(f))
BY ThreadsAssumption DEF TypedPC, Wakes, WakeWaiters, Woken, PCs, WorkerPCs, ClientPCs, Threads

\* One thread moves on, and sleepers may wake.
LEMMA MoveFacts ==
  ASSUME TypedPC(pc), NEW th \in Threads, NEW to,
         th \in Workers => to \in WorkerPCs,
         th \in Clients => to \in ClientPCs
  PROVE  TypedPC([pc EXCEPT ![th] = to])
BY ThreadsAssumption DEF TypedPC, PCs, WorkerPCs, ClientPCs, Threads

LEMMA OutstandingFinite == IsFiniteSet(Outstanding) /\ Outstanding \subseteq Tasks
BY TasksAssumption, FS_Subset DEF Outstanding

\* The parts of the invariant that a change of pc and phase alone keeps.
LEMMA PcStep ==
  ASSUME IInv, TypedPC(pc'), NEW f, NEW th \in Threads, NEW to, Wakes(f, pc'),
         f = pc \/ f = [pc EXCEPT ![th] = to],
         pc[th] \in Using <=> to \in Using,
         pc[th] \in Counting <=> to \in Counting,
         pc[th] \in {"run", "idle"} => to \in {"run", "idle"} \/ spawnee[th] = NoTask,
         UNCHANGED <<queue, pending, cur, spawnee, status>>
  PROVE  QueueInv' /\ CurInv' /\ HeldInv' /\ SpawnInv' /\ Outstanding' = Outstanding
<1> USE DEF IInv
<1>1. \A o \in Threads : /\ pc[o] \in Using <=> pc'[o] \in Using
                         /\ pc[o] \in Counting <=> pc'[o] \in Counting
                         /\ spawnee[o] # NoTask /\ pc[o] \in {"run", "idle"} => pc'[o] \in {"run", "idle"}
  BY DEF Wakes, Using, Counting, TypeOK
<1>2. QueueInv'
  BY DEF QueueInv
<1>3. CurInv'
  BY <1>1 DEF CurInv
<1>4. HeldInv' /\ Outstanding' = Outstanding
  BY DEF HeldInv, Outstanding
<1>5. SpawnInv'
  BY <1>1 DEF SpawnInv
<1> QED
  BY <1>2, <1>3, <1>4, <1>5

-----------------------------------------------------------------------------
(* The inductive invariant is inductive *)

LEMMA InitIInv == Init => IInv
<1> SUFFICES ASSUME Init PROVE IInv
  OBVIOUS
<1>1. TypeOK
  BY ThreadsAssumption
  DEF Init, TypeOK, Threads, WorkerPCs, ClientPCs, Statuses
<1>2. QueueInv
  BY DEF Init, QueueInv, Distinct, Elems
<1>3. CurInv /\ HeldInv /\ SpawnInv /\ PhaseInv
  BY DEF Init, CurInv, HeldInv, SpawnInv, PhaseInv, Using, Counting
<1>4. Outstanding = {}
  BY TasksAssumption DEF Init, Outstanding
<1>5. PendingExact
  BY <1>4, FS_EmptySet DEF Init, PendingExact
<1> QED
  BY <1>1, <1>2, <1>3, <1>5 DEF IInv

\* Steps that only move one thread: nothing else of the state changes.
LEMMA MoveKeepsIInv ==
  ASSUME IInv, OnlyPC, NEW th \in Threads, NEW to,
         pc' = [pc EXCEPT ![th] = to],
         th \in Workers => to \in WorkerPCs,
         th \in Clients => to \in ClientPCs /\ phase \notin {"stopping", "destroyed"},
         pc[th] \in Using <=> to \in Using,
         pc[th] \in Counting <=> to \in Counting,
         pc[th] \in {"run", "idle"} => to \in {"run", "idle"} \/ spawnee[th] = NoTask,
         pc[th] # "exited"
  PROVE  IInv'
<1>1. TypedPC(pc)
  BY DEF IInv, TypeOK, TypedPC, PCs
<1>2. TypedPC(pc') /\ Wakes(pc', pc')
  BY <1>1, MoveFacts DEF Wakes
<1>3. TypeOK'
  BY <1>2 DEF IInv, TypeOK, TypedPC, PCs, OnlyPC
<1>4. QueueInv' /\ CurInv' /\ HeldInv' /\ SpawnInv' /\ Outstanding' = Outstanding
  BY <1>2, PcStep DEF OnlyPC
<1>5. PhaseInv'
  BY ThreadsAssumption DEF IInv, PhaseInv, OnlyPC, Threads, TypeOK
<1>6. PendingExact'
  BY <1>4 DEF IInv, PendingExact, OnlyPC
<1> QED
  BY <1>3, <1>4, <1>5, <1>6 DEF IInv

\* Steps of pool_init and pool_destroy that change the phase and wake sleepers.
LEMMA PhaseKeepsIInv ==
  ASSUME IInv, pc' = pc \/ pc' = WakeWorkers(pc),
         UNCHANGED <<queue, pending, cur, spawnee, status>>,
         phase \notin {"stopping", "destroyed"},
         phase' \in {"running", "failing", "failjoin", "failed", "stopping"},
         phase' = "stopping" => \A c \in Clients : pc[c] = "idle" /\ spawnee[c] = NoTask,
         isRunning' \in BOOLEAN
  PROVE  IInv'
<1>1. TypedPC(pc)
  BY DEF IInv, TypeOK, TypedPC, PCs
<1>2. TypedPC(pc') /\ Wakes(pc, pc')
  BY <1>1, WakeWorkersFacts DEF Wakes
<1>3. TypeOK'
  BY <1>2 DEF IInv, TypeOK, TypedPC, PCs
<1>4. QueueInv' /\ CurInv' /\ HeldInv' /\ SpawnInv' /\ Outstanding' = Outstanding
  <2>1. \A o \in Threads : /\ pc[o] \in Using <=> pc'[o] \in Using
                           /\ pc[o] \in Counting <=> pc'[o] \in Counting
                           /\ pc[o] \in {"run", "idle"} => pc'[o] \in {"run", "idle"}
    BY <1>2 DEF Wakes, Using, Counting
  <2>2. QueueInv' /\ HeldInv' /\ Outstanding' = Outstanding
    BY DEF IInv, QueueInv, HeldInv, Outstanding
  <2>3. CurInv'
    BY <2>1 DEF IInv, CurInv
  <2>4. SpawnInv'
    BY <2>1 DEF IInv, SpawnInv
  <2> QED
    BY <2>2, <2>3, <2>4
<1>5. PhaseInv'
  BY <1>2, ThreadsAssumption DEF IInv, PhaseInv, Wakes, Threads
<1>6. PendingExact'
  BY <1>4 DEF IInv, PendingExact
<1> QED
  BY <1>3, <1>4, <1>5, <1>6 DEF IInv

\* A thread takes the head of the queue.
LEMMA TakeKeepsIInv ==
  ASSUME IInv, NEW th \in Threads, Take(th)
  PROVE  IInv'
<1> DEFINE h == Head(queue)
<1>1. /\ queue \in Seq(Tasks) /\ queue # <<>> /\ Distinct(queue)
      /\ pc[th] \in {"top", "idle"} /\ cur[th] = NoTask /\ spawnee[th] = NoTask
      /\ phase \notin {"stopping", "destroyed"} \/ (th \in Workers /\ pc[th] = "top")
  BY ThreadsAssumption
  DEF IInv, TypeOK, QueueInv, CurInv, SpawnInv, Using, Counting, Take, MayTake, WorkerPCs, Threads
<1>2. /\ queue' \in Seq(Tasks) /\ h \in Elems(queue) /\ h \in Tasks /\ Distinct(queue')
      /\ Elems(queue') = Elems(queue) \ {h}
  BY <1>1, TailFacts DEF Take, Unlink
<1>3. status[h] = "ready" /\ \A o \in Threads : cur[o] # h
  <2>1. status[h] = "ready"
    BY <1>2 DEF IInv, QueueInv
  <2> QED
    BY <2>1, <1>2, TasksAssumption DEF IInv, CurInv
<1>4. TypeOK'
  BY <1>2, <1>1, ThreadsAssumption
  DEF IInv, TypeOK, Take, Threads, WorkerPCs, ClientPCs, Statuses
<1> HIDE DEF h
<1>5. /\ cur' = [cur EXCEPT ![th] = h] /\ status' = [status EXCEPT ![h] = "held"]
      /\ pc' = [pc EXCEPT ![th] = "run"] /\ UNCHANGED <<phase, pending, spawnee>>
  BY DEF Take, h
<1>6. /\ cur \in [Threads -> Tasks \cup {NoTask}] /\ status \in [Tasks -> Statuses]
      /\ pc \in [Threads -> PCs] /\ spawnee \in [Threads -> Tasks \cup {NoTask}]
  BY DEF IInv, TypeOK, PCs
<1>7. QueueInv'
  BY <1>2, <1>3, <1>5, <1>6 DEF IInv, QueueInv, Statuses
<1>8. CurInv'
  BY <1>2, <1>3, <1>5, <1>6, <1>1, TasksAssumption DEF IInv, CurInv, Using, Counting
<1>9. HeldInv'
  BY <1>2, <1>3, <1>5, <1>6, <1>1, TasksAssumption DEF IInv, HeldInv
<1>10. SpawnInv'
  BY <1>2, <1>3, <1>5, <1>6, <1>1 DEF IInv, SpawnInv
<1>11. PhaseInv'
  BY <1>1, <1>5, <1>6, ThreadsAssumption DEF IInv, PhaseInv, Threads
<1>12. Outstanding' = Outstanding
  BY <1>1, <1>2, <1>3, <1>5, <1>6, TasksAssumption DEF Outstanding
<1>13. PendingExact'
  BY <1>12, <1>5 DEF IInv, PendingExact
<1> QED
  BY <1>4, <1>7, <1>8, <1>9, <1>10, <1>11, <1>13 DEF IInv

\* A thread frees the task it has; it still has to count it out.
LEMMA FreeKeepsIInv ==
  ASSUME IInv, NEW th \in Threads, NEW to \in Counting, NEW s \in {"completed", "discarded"},
         pc[th] \in Using \ {"run"},
         pc' = [pc EXCEPT ![th] = to], status' = [status EXCEPT ![cur[th]] = s],
         to = "uncount" \/ th \in Workers,
         UNCHANGED <<phase, isRunning, queue, pending, cur, spawnee>>
  PROVE  IInv'
<1> DEFINE t == cur[th]
<1>1. /\ t \in Tasks /\ status[t] = "held" /\ spawnee[th] = NoTask
      /\ \A o \in Threads : o # th => cur[o] # t
  BY TasksAssumption DEF IInv, CurInv, SpawnInv, Using
<1>2. TypeOK'
  BY <1>1, ThreadsAssumption DEF IInv, TypeOK, Threads, WorkerPCs, ClientPCs, Statuses, Counting
<1>3. /\ cur \in [Threads -> Tasks \cup {NoTask}] /\ status \in [Tasks -> Statuses]
      /\ pc \in [Threads -> PCs] /\ spawnee \in [Threads -> Tasks \cup {NoTask}]
  BY DEF IInv, TypeOK, PCs
<1>4. QueueInv'
  BY <1>1, <1>3 DEF IInv, QueueInv
<1>5. CurInv'
  BY <1>1, <1>3 DEF IInv, CurInv, Using, Counting
<1>6. HeldInv' /\ SpawnInv'
  BY <1>1, <1>3 DEF IInv, HeldInv, SpawnInv
<1>7. PhaseInv'
  BY <1>3, ThreadsAssumption DEF IInv, PhaseInv, Threads, Using
<1>8. Outstanding' = Outstanding
  BY <1>1, <1>3 DEF Outstanding
<1>9. PendingExact'
  BY <1>8 DEF IInv, PendingExact
<1> QED
  BY <1>2, <1>4, <1>5, <1>6, <1>7, <1>9 DEF IInv

\* The count is exact before a task is counted out, so it is positive, and
\* exact afterwards.
LEMMA CountOut ==
  ASSUME IInv, NEW th \in Threads, pc[th] \in Counting, phase # "destroyed",
         cur' = [cur EXCEPT ![th] = NoTask], UNCHANGED status, pending' = pending - 1
  PROVE  pending' \in Nat /\ pending' = Cardinality(Outstanding')
<1> DEFINE t == cur[th]
<1>1. /\ t \in Tasks /\ status[t] # "ready"
      /\ \A o \in Threads : o # th => cur[o] # t
      /\ cur \in [Threads -> Tasks \cup {NoTask}]
  BY TasksAssumption DEF IInv, TypeOK, CurInv
<1>2. t \in Outstanding /\ Outstanding' = Outstanding \ {t}
  BY <1>1, TasksAssumption DEF Outstanding
<1>3. Cardinality(Outstanding') = Cardinality(Outstanding) - 1
  BY <1>2, OutstandingFinite, FS_RemoveElement
<1>4. Cardinality(Outstanding') \in Nat
  BY <1>2, OutstandingFinite, FS_RemoveElement, FS_CardinalityType
<1> QED
  BY <1>3, <1>4 DEF IInv, PendingExact

\* A thread counts out the task it freed.
LEMMA UncountKeepsIInv ==
  ASSUME IInv, NEW th \in Threads, NEW to, NEW f, pc[th] \in Counting,
         (th \in Workers /\ to \in {"top", "exited"}) \/ (th \in Clients /\ to = "idle"),
         f = [pc EXCEPT ![th] = to] \/ f = WakeWorkers([pc EXCEPT ![th] = to]),
         CountDown(f), LetGo(th),
         UNCHANGED <<phase, isRunning, queue, spawnee, status>>
  PROVE  IInv'
<1> DEFINE g == [pc EXCEPT ![th] = to]
<1>1. TypedPC(g)
  <2>1. TypedPC(pc)
    BY DEF IInv, TypeOK, TypedPC, PCs
  <2> QED
    BY <2>1, MoveFacts, ThreadsAssumption DEF WorkerPCs, ClientPCs
<1>2. TypedPC(f) /\ Wakes(g, f)
  <2>1. Wakes(g, g) /\ TypedPC(WakeWorkers(g)) /\ Wakes(g, WakeWorkers(g))
    BY <1>1, WakeWorkersFacts DEF Wakes
  <2> QED
    BY <1>1, <2>1
<1>3. TypedPC(pc') /\ Wakes(f, pc')
  <2>1. Wakes(f, f) /\ TypedPC(WakeWaiters(f)) /\ Wakes(f, WakeWaiters(f))
    BY <1>2, WakeWaitersFacts DEF Wakes
  <2> QED
    BY <1>2, <2>1 DEF CountDown
<1>4. pc \in [Threads -> PCs] /\ phase # "destroyed"
  BY ThreadsAssumption DEF IInv, TypeOK, PhaseInv, PCs, Counting, Threads
<1>5. /\ pc'[th] = to
      /\ \A o \in Threads : o # th =>
           /\ pc[o] \in Using <=> pc'[o] \in Using
           /\ pc[o] \in Counting <=> pc'[o] \in Counting
           /\ pc[o] \in {"run", "idle", "exited"} => pc'[o] = pc[o]
  BY <1>2, <1>3, <1>4 DEF Wakes, Using, Counting
<1>6. pending' \in Nat /\ pending' = Cardinality(Outstanding')
  BY <1>4, CountOut DEF CountDown, LetGo
<1>7. TypeOK'
  BY <1>3, <1>6 DEF IInv, TypeOK, TypedPC, PCs, LetGo
<1>8. /\ cur \in [Threads -> Tasks \cup {NoTask}] /\ cur' = [cur EXCEPT ![th] = NoTask]
      /\ status[cur[th]] # "held" /\ spawnee[th] = NoTask
  BY DEF IInv, TypeOK, CurInv, SpawnInv, LetGo, Counting
<1>9. QueueInv'
  BY DEF IInv, QueueInv
<1>10. CurInv'
  BY <1>5, <1>8 DEF IInv, CurInv, Using, Counting
<1>11. HeldInv' /\ SpawnInv'
  BY <1>5, <1>8, TasksAssumption DEF IInv, HeldInv, SpawnInv
<1>12. PhaseInv'
  BY <1>4, <1>5, ThreadsAssumption DEF IInv, PhaseInv, Threads, Counting
<1> QED
  BY <1>6, <1>7, <1>9, <1>10, <1>11, <1>12 DEF IInv, PendingExact

\* A task that yielded goes back to the queue.
LEMMA PutBackKeepsIInv ==
  ASSUME IInv, NEW th \in Threads, NEW to, NEW f, pc[th] = "yielded",
         (th \in Workers /\ to = "top") \/ (th \in Clients /\ to = "idle"),
         f = [pc EXCEPT ![th] = to],
         pc' = f \/ pc' = WakeWorkers(f),
         PutBack(th),
         UNCHANGED <<phase, isRunning, pending, spawnee>>
  PROVE  IInv'
<1> DEFINE t == cur[th]
<1>1. /\ t \in Tasks /\ status[t] = "held" /\ spawnee[th] = NoTask
      /\ \A o \in Threads : o # th => cur[o] # t
      /\ t \notin Elems(queue)
  BY TasksAssumption DEF IInv, CurInv, SpawnInv, QueueInv, Using
<1>2. TypedPC(f)
  <2>1. TypedPC(pc)
    BY DEF IInv, TypeOK, TypedPC, PCs
  <2> QED
    BY <2>1, MoveFacts, ThreadsAssumption DEF WorkerPCs, ClientPCs
<1>3. TypedPC(pc') /\ Wakes(f, pc')
  <2>1. Wakes(f, f) /\ TypedPC(WakeWorkers(f)) /\ Wakes(f, WakeWorkers(f))
    BY <1>2, WakeWorkersFacts DEF Wakes
  <2> QED
    BY <1>2, <2>1
<1>4. pc \in [Threads -> PCs] /\ phase # "destroyed"
  BY ThreadsAssumption DEF IInv, TypeOK, PhaseInv, PCs, Counting, Threads
<1>5. /\ pc'[th] = to
      /\ \A o \in Threads : o # th =>
           /\ pc[o] \in Using <=> pc'[o] \in Using
           /\ pc[o] \in Counting <=> pc'[o] \in Counting
           /\ pc[o] \in {"run", "idle", "exited"} => pc'[o] = pc[o]
  BY <1>3, <1>4 DEF Wakes, Using, Counting
<1>6. /\ queue' \in Seq(Tasks) /\ Distinct(queue') /\ Elems(queue') = Elems(queue) \cup {t}
  BY <1>1, AppendFacts DEF PutBack, IInv, TypeOK, QueueInv
<1>7. TypeOK'
  BY <1>1, <1>3, <1>6 DEF IInv, TypeOK, TypedPC, PCs, PutBack, LetGo, Statuses
<1>8. /\ cur \in [Threads -> Tasks \cup {NoTask}] /\ cur' = [cur EXCEPT ![th] = NoTask]
      /\ status \in [Tasks -> Statuses] /\ status' = [status EXCEPT ![t] = "ready"]
  BY DEF IInv, TypeOK, PutBack, LetGo
<1>9. QueueInv'
  BY <1>1, <1>6, <1>8 DEF IInv, QueueInv
<1>10. CurInv'
  BY <1>1, <1>5, <1>8 DEF IInv, CurInv, Using, Counting
<1>11. HeldInv' /\ SpawnInv'
  BY <1>1, <1>5, <1>8, TasksAssumption DEF IInv, HeldInv, SpawnInv
<1>12. PhaseInv'
  BY <1>4, <1>5, ThreadsAssumption DEF IInv, PhaseInv, Threads, Counting
<1>13. Outstanding' = Outstanding
  BY <1>1, <1>8, TasksAssumption DEF Outstanding
<1> QED
  BY <1>7, <1>9, <1>10, <1>11, <1>12, <1>13 DEF IInv, PendingExact

\* pool_spawn allocates a task, for an idle client or a running body.
LEMMA CreateKeepsIInv ==
  ASSUME IInv, NEW th \in Threads, NEW t \in Tasks, SpawnCreates(th, t)
  PROVE  IInv'
<1>1. /\ status[t] = "unborn" /\ pc[th] \in {"run", "idle"} /\ spawnee[th] = NoTask
      /\ status' = [status EXCEPT ![t] = "created"] /\ spawnee' = [spawnee EXCEPT ![th] = t]
      /\ UNCHANGED <<phase, isRunning, queue, pending, pc, cur>>
  BY DEF SpawnCreates, MaySpawn
<1>2. /\ cur \in [Threads -> Tasks \cup {NoTask}] /\ status \in [Tasks -> Statuses]
      /\ spawnee \in [Threads -> Tasks \cup {NoTask}]
  BY DEF IInv, TypeOK
<1>3. TypeOK'
  BY <1>1 DEF IInv, TypeOK, Statuses
<1>4. QueueInv'
  BY <1>1, <1>2 DEF IInv, QueueInv
<1>5. CurInv' /\ HeldInv'
  BY <1>1, <1>2 DEF IInv, CurInv, HeldInv
<1>6. SpawnInv'
  BY <1>1, <1>2, TasksAssumption DEF IInv, SpawnInv
<1>7. PhaseInv'
  <2>1. phase \notin {"stopping", "destroyed"} \/ (th \in Workers /\ pc[th] = "run")
    BY <1>1, ThreadsAssumption DEF IInv, TypeOK, PhaseInv, SpawnCreates, MaySpawn, Threads, WorkerPCs
  <2> QED
    BY <1>1, <1>2, <2>1, ThreadsAssumption DEF IInv, PhaseInv, Threads
<1>8. Outstanding' = Outstanding
  BY <1>1, <1>2 DEF Outstanding
<1> QED
  BY <1>1, <1>3, <1>4, <1>5, <1>6, <1>7, <1>8 DEF IInv, PendingExact

\* A task that is being spawned is neither queued nor with a thread.
LEMMA SpawneeFacts ==
  ASSUME IInv, NEW th \in Threads, spawnee[th] # NoTask
  PROVE  /\ spawnee[th] \in Tasks /\ status[spawnee[th]] = "created"
         /\ spawnee[th] \notin Elems(queue)
         /\ \A o \in Threads : cur[o] # spawnee[th]
         /\ \A o \in Threads : o # th => spawnee[o] # spawnee[th]
         /\ pc[th] \in {"run", "idle"} /\ phase # "destroyed"
<1>1. spawnee[th] \in Tasks /\ status[spawnee[th]] = "created" /\ pc[th] \in {"run", "idle"}
  BY DEF IInv, TypeOK, SpawnInv
<1>2. spawnee[th] \notin Elems(queue)
  BY <1>1 DEF IInv, QueueInv
<1>3. \A o \in Threads : cur[o] # spawnee[th]
  BY <1>1, TasksAssumption DEF IInv, CurInv, TypeOK
<1>4. \A o \in Threads : o # th => spawnee[o] # spawnee[th]
  BY DEF IInv, SpawnInv
<1>5. phase # "destroyed"
  BY <1>1, ThreadsAssumption DEF IInv, PhaseInv, Threads
<1> QED
  BY <1>1, <1>2, <1>3, <1>4, <1>5

\* The new task enters the queue and the count.
LEMMA EnqueueKeepsIInv ==
  ASSUME IInv, NEW th \in Threads, SpawnEnqueues(th)
  PROVE  IInv'
<1> DEFINE t == spawnee[th]
<1>1. /\ t \in Tasks /\ status[t] = "created" /\ t \notin Elems(queue)
      /\ \A o \in Threads : cur[o] # t
      /\ \A o \in Threads : o # th => spawnee[o] # t
      /\ pc[th] \in {"run", "idle"} /\ phase # "destroyed"
  BY SpawneeFacts DEF SpawnEnqueues
<1>2. /\ status' = [status EXCEPT ![t] = "ready"] /\ spawnee' = [spawnee EXCEPT ![th] = NoTask]
      /\ pending' = pending + 1 /\ UNCHANGED <<phase, isRunning, cur>>
  BY DEF SpawnEnqueues, Counted
<1>3. /\ cur \in [Threads -> Tasks \cup {NoTask}] /\ status \in [Tasks -> Statuses]
      /\ spawnee \in [Threads -> Tasks \cup {NoTask}] /\ pc \in [Threads -> PCs]
  BY DEF IInv, TypeOK, PCs
<1>4. TypedPC(pc') /\ Wakes(pc, pc')
  BY WakeWorkersFacts DEF SpawnEnqueues, IInv, TypeOK, TypedPC, PCs
<1>5. \A o \in Threads : /\ pc[o] \in Using <=> pc'[o] \in Using
                         /\ pc[o] \in Counting <=> pc'[o] \in Counting
                         /\ pc[o] \in {"run", "idle", "exited"} => pc'[o] = pc[o]
  BY <1>4 DEF Wakes, Using, Counting
<1>6. queue' \in Seq(Tasks) /\ Distinct(queue') /\ Elems(queue') = Elems(queue) \cup {t}
  BY <1>1, AppendFacts DEF SpawnEnqueues, IInv, TypeOK, QueueInv
<1>7. TypeOK'
  <2>1. status' \in [Tasks -> Statuses] /\ spawnee' \in [Threads -> Tasks \cup {NoTask}]
    BY <1>1, <1>2, <1>3 DEF Statuses
  <2>2. pending' \in Nat
    BY <1>2 DEF IInv, TypeOK
  <2> QED
    BY <1>2, <1>4, <1>6, <2>1, <2>2 DEF IInv, TypeOK, TypedPC, PCs
<1>8. QueueInv'
  BY <1>1, <1>2, <1>3, <1>6 DEF IInv, QueueInv
<1>9. CurInv' /\ HeldInv'
  BY <1>1, <1>2, <1>3, <1>5 DEF IInv, CurInv, HeldInv
<1>10. SpawnInv'
  BY <1>1, <1>2, <1>3, <1>5, TasksAssumption DEF IInv, SpawnInv
<1>11. PhaseInv'
  BY <1>1, <1>2, <1>3, <1>5, ThreadsAssumption DEF IInv, PhaseInv, Threads
<1>12. t \notin Outstanding /\ Outstanding' = Outstanding \cup {t}
  BY <1>1, <1>2, <1>3 DEF Outstanding
<1>13. PendingExact'
  BY <1>1, <1>2, <1>12, OutstandingFinite, FS_AddElement DEF IInv, PendingExact
<1> QED
  BY <1>7, <1>8, <1>9, <1>10, <1>11, <1>13 DEF IInv

\* The new task is freed again, because the pool is shutting down.
LEMMA RefuseKeepsIInv ==
  ASSUME IInv, NEW th \in Threads, SpawnRefused(th)
  PROVE  IInv'
<1> DEFINE t == spawnee[th]
<1>1. /\ t \in Tasks /\ status[t] = "created"
      /\ \A o \in Threads : cur[o] # t
      /\ \A o \in Threads : o # th => spawnee[o] # t
  BY SpawneeFacts DEF SpawnRefused
<1>2. /\ status' = [status EXCEPT ![t] = "refused"] /\ spawnee' = [spawnee EXCEPT ![th] = NoTask]
      /\ UNCHANGED <<phase, isRunning, queue, pending, pc, cur>>
  BY DEF SpawnRefused
<1>3. /\ cur \in [Threads -> Tasks \cup {NoTask}] /\ status \in [Tasks -> Statuses]
      /\ spawnee \in [Threads -> Tasks \cup {NoTask}]
  BY DEF IInv, TypeOK
<1>4. TypeOK' /\ PhaseInv'
  BY <1>1, <1>2, <1>3, ThreadsAssumption DEF IInv, TypeOK, PhaseInv, Statuses, Threads
<1>5. QueueInv' /\ CurInv' /\ HeldInv'
  BY <1>1, <1>2, <1>3 DEF IInv, QueueInv, CurInv, HeldInv
<1>6. SpawnInv'
  BY <1>1, <1>2, <1>3, TasksAssumption DEF IInv, SpawnInv
<1>7. Outstanding' = Outstanding
  BY <1>1, <1>2, <1>3 DEF Outstanding
<1> QED
  BY <1>2, <1>4, <1>5, <1>6, <1>7 DEF IInv, PendingExact

\* With the workers gone, the rest of the queue is freed.
LEMMA DestroyKeepsIInv ==
  ASSUME IInv, DestroyEnds
  PROVE  IInv'
<1>1. /\ phase = "stopping" /\ phase' = "destroyed" /\ queue' = <<>> /\ pending' = 0
      /\ status' = [t \in Tasks |-> IF t \in Elems(queue) THEN "discarded" ELSE status[t]]
      /\ UNCHANGED <<isRunning, pc, cur, spawnee>>
  BY DEF DestroyEnds, Leftover, InQueue, Elems
<1>2. /\ \A w \in Workers : pc[w] = "exited"
      /\ \A c \in Clients : pc[c] = "idle" /\ spawnee[c] = NoTask
      /\ \A th \in Threads : pc[th] \notin Using \cup Counting
      /\ \A th \in Threads : cur[th] = NoTask /\ spawnee[th] = NoTask
  BY <1>1 DEF DestroyEnds, IInv, PhaseInv, CurInv, SpawnInv, Threads, Using, Counting
<1>3. TypeOK'
  <2>1. status' \in [Tasks -> Statuses]
    BY <1>1 DEF IInv, TypeOK, Statuses
  <2>2. queue' \in Seq(Tasks) /\ pending' \in Nat
    BY <1>1
  <2> QED
    BY <1>1, <2>1, <2>2 DEF IInv, TypeOK
<1>4. QueueInv'
  <2>1. Distinct(queue') /\ Elems(queue') = {}
    BY <1>1 DEF Distinct, Elems
  <2>2. \A t \in Tasks : status'[t] # "ready"
    BY <1>1 DEF IInv, QueueInv
  <2> QED
    BY <2>1, <2>2 DEF QueueInv
<1>5. CurInv'
  BY <1>1, <1>2 DEF CurInv
<1>6. HeldInv' /\ SpawnInv'
  BY <1>1, <1>2, TasksAssumption DEF IInv, HeldInv, SpawnInv
<1>7. PhaseInv' /\ PendingExact'
  BY <1>1, <1>2 DEF PhaseInv, PendingExact
<1> QED
  BY <1>3, <1>4, <1>5, <1>6, <1>7 DEF IInv

\* Every step of the pool keeps the invariant.
LEMMA NextIInv == IInv /\ [Next]_vars => IInv'
<1> SUFFICES ASSUME IInv, [Next]_vars PROVE IInv'
  OBVIOUS
<1> USE DEF Threads, Using, Counting, WorkerPCs, ClientPCs
<1>1. ASSUME NEW w \in Workers, StartWorker(w) \/ WorkerFindsNothing(w) \/ WorkerSleeps(w)
                                \/ SpuriousWake(w) \/ WorkerExits(w)
      PROVE  IInv'
  <2>1. PICK to \in {"top", "gowait", "waiting", "exited"} :
          /\ pc[w] \in {"unborn", "top", "gowait", "waiting"}
          /\ pc' = [pc EXCEPT ![w] = to] /\ OnlyPC
    BY <1>1 DEF StartWorker, WorkerFindsNothing, WorkerSleeps, SpuriousWake, WorkerExits, Goes
  <2> QED
    BY <2>1, MoveKeepsIInv, ThreadsAssumption
<1>2. ASSUME NEW w \in Workers, WorkerDiscards(w) PROVE IInv'
  BY <1>2, MoveKeepsIInv, ThreadsAssumption DEF WorkerDiscards, Goes
<1>3. ASSUME NEW w \in Workers, WorkerRequeues(w) PROVE IInv'
  BY <1>3, PutBackKeepsIInv DEF WorkerRequeues
<1>4. ASSUME NEW w \in Workers, FreeDiscarded(w) PROVE IInv'
  BY <1>4, FreeKeepsIInv DEF FreeDiscarded, Goes
<1>5. ASSUME NEW w \in Workers, UncountDiscarded(w) PROVE IInv'
  BY <1>5, UncountKeepsIInv DEF UncountDiscarded
<1>6. ASSUME NEW c \in Clients, PollerRequeues(c) PROVE IInv'
  BY <1>6, PutBackKeepsIInv DEF PollerRequeues, Goes
<1>7. ASSUME NEW c \in Clients,
             WaitBegins(c) \/ WaitSleeps(c) \/ WaitTimesOut(c) \/ WaitEnds(c)
      PROVE  IInv'
  <2>1. PICK to \in {"waitcheck", "timedwait", "idle"} :
          /\ pc[c] \in {"idle", "waitcheck", "timedwait"}
          /\ pc[c] = "idle" => spawnee[c] = NoTask
          /\ pc' = [pc EXCEPT ![c] = to] /\ OnlyPC
          /\ pc[c] = "idle" => phase = "running"
    BY <1>7 DEF WaitBegins, WaitSleeps, WaitTimesOut, WaitEnds, Goes
  <2>2. phase \notin {"stopping", "destroyed"}
    BY <2>1 DEF IInv, PhaseInv
  <2> QED
    BY <2>1, <2>2, MoveKeepsIInv, ThreadsAssumption
<1>8. ASSUME NEW th \in Threads, Take(th) PROVE IInv'
  BY <1>8, TakeKeepsIInv
<1>9. ASSUME NEW th \in Threads, Yield(th) \/ Return(th) PROVE IInv'
  <2>1. PICK to \in {"yielded", "finished"} :
          pc[th] = "run" /\ spawnee[th] = NoTask /\ pc' = [pc EXCEPT ![th] = to] /\ OnlyPC
    BY <1>9 DEF Yield, Return
  <2>2. th \in Clients => phase \notin {"stopping", "destroyed"}
    BY <2>1 DEF IInv, PhaseInv
  <2> QED
    BY <2>1, <2>2, MoveKeepsIInv, ThreadsAssumption
<1>10. ASSUME NEW th \in Threads, FreeFinished(th) PROVE IInv'
  BY <1>10, FreeKeepsIInv DEF FreeFinished, Goes
<1>11. ASSUME NEW th \in Threads, UncountFinished(th) PROVE IInv'
  BY <1>11, UncountKeepsIInv, ThreadsAssumption DEF UncountFinished, Between
<1>12. ASSUME NEW th \in Threads, NEW t \in Tasks, SpawnCreates(th, t) PROVE IInv'
  BY <1>12, CreateKeepsIInv
<1>13. ASSUME NEW th \in Threads, SpawnEnqueues(th) \/ SpawnRefused(th) PROVE IInv'
  BY <1>13, EnqueueKeepsIInv, RefuseKeepsIInv
<1>14. CASE InitDone \/ WorkersAllocFails \/ StartFails \/ FailBroadcast \/ FailJoined
  BY <1>14, PhaseKeepsIInv
  DEF InitDone, WorkersAllocFails, StartFails, FailBroadcast, FailJoined, IInv, TypeOK
<1>15. CASE DestroyBegins
  BY <1>15, PhaseKeepsIInv DEF DestroyBegins
<1>16. CASE DestroyEnds
  BY <1>16, DestroyKeepsIInv
<1>17. CASE UNCHANGED vars
  BY <1>17 DEF vars, IInv, TypeOK, QueueInv, CurInv, HeldInv, SpawnInv, PhaseInv,
              PendingExact, Outstanding
<1> QED
  BY <1>1, <1>2, <1>3, <1>4, <1>5, <1>6, <1>7, <1>8, <1>9, <1>10, <1>11, <1>12, <1>13,
     <1>14, <1>15, <1>16, <1>17
  DEF Next, WorkerStep, ClientStep, ThreadStep, PoolStep, Over

LEMMA SpecIInv == Spec => []IInv
BY InitIInv, NextIInv, PTL DEF Spec

-----------------------------------------------------------------------------
(* The theorems *)

\* The type invariant: in particular pending_tasks never goes below zero.
THEOREM TypeCorrect == Spec => []TypeOK
<1>1. IInv => TypeOK
  BY DEF IInv
<1> QED
  BY <1>1, SpecIInv, PTL

\* Whatever the threads do, no task is stepped by two of them or freed while
\* one of them uses it.
THEOREM OneOwnerAlways == Spec => []OneOwner
<1>1. ASSUME IInv PROVE OneOwner
  <2>1. \A t \in InQueue : t \in Tasks /\ t \in Elems(queue)
    BY <1>1 DEF IInv, TypeOK, InQueue, Elems
  <2>2. \A t \in InQueue : status[t] = "ready"
    BY <1>1, <2>1 DEF IInv, QueueInv
  <2>3. \A th \in Threads : pc[th] \in Using => cur[th] # NoTask /\ status[cur[th]] = "held"
    BY <1>1, TasksAssumption DEF IInv, CurInv
  <2> QED
    BY <1>1, <2>2, <2>3 DEF IInv, OneOwner, QueueInv, CurInv, Distinct
<1> QED
  BY <1>1, SpecIInv, PTL

\* pending_tasks is the number of tasks not yet dealt with.
THEOREM PendingAlwaysExact == Spec => []PendingExact
<1>1. IInv => PendingExact
  BY DEF IInv
<1> QED
  BY <1>1, SpecIInv, PTL

\* The three together, as the model checker sees them.
THEOREM AlwaysConsistent == Spec => []Consistent
BY TypeCorrect, OneOwnerAlways, PendingAlwaysExact, PTL DEF Consistent

\* When pool_destroy is through no task is left allocated.
THEOREM DestroyAlwaysFreesAll == Spec => []DestroyFreesAll
<1>1. ASSUME IInv, phase = "destroyed", NEW t \in Tasks
      PROVE  status[t] \notin {"created", "ready", "held"}
  <2>1. status[t] # "ready"
    BY <1>1 DEF IInv, PhaseInv, QueueInv, Elems
  <2>2. \A th \in Threads : cur[th] = NoTask /\ spawnee[th] = NoTask
    BY <1>1 DEF IInv, PhaseInv, CurInv, SpawnInv, Using, Counting, Threads
  <2> QED
    BY <1>1, <2>1, <2>2, TasksAssumption DEF IInv, HeldInv, SpawnInv
<1>2. IInv => DestroyFreesAll
  BY <1>1 DEF DestroyFreesAll
<1> QED
  BY <1>2, SpecIInv, PTL

\* Nothing but the end of pool_wait takes a waiting client back to its caller.
LEMMA OnlyWaitEnds ==
  ASSUME IInv, Next, NEW c \in Clients, pc[c] = "waitcheck", pc'[c] = "idle"
  PROVE  WaitEnds(c)
<1>1. pc \in [Threads -> PCs] /\ c \in Threads /\ c \notin Workers
  BY ThreadsAssumption DEF IInv, TypeOK, PCs, Threads
<1>2. ASSUME NEW w \in Workers, WorkerStep(w) PROVE FALSE
  BY <1>1, <1>2, ThreadsAssumption
  DEF WorkerStep, StartWorker, WorkerFindsNothing, WorkerSleeps, SpuriousWake, WorkerExits,
      WorkerRequeues, WorkerDiscards, FreeDiscarded, UncountDiscarded, CountDown,
      WakeWorkers, WakeWaiters, Woken, Goes, Threads
<1>3. ASSUME NEW d \in Clients, ClientStep(d) PROVE WaitEnds(c)
  BY <1>1, <1>3 DEF ClientStep, PollerRequeues, WaitBegins, WaitSleeps, WaitTimesOut,
                    WaitEnds, Goes, Threads
<1>4. ASSUME NEW th \in Threads, ThreadStep(th) PROVE FALSE
  BY <1>1, <1>4, ThreadsAssumption
  DEF ThreadStep, Take, MayTake, Yield, Return, FreeFinished, UncountFinished, SpawnCreates,
      SpawnEnqueues, SpawnRefused, CountDown, WakeWorkers, WakeWaiters, Woken, Goes
<1>5. ASSUME PoolStep PROVE FALSE
  BY <1>1, <1>5
  DEF PoolStep, InitDone, WorkersAllocFails, StartFails, FailBroadcast, FailJoined,
      DestroyBegins, DestroyEnds, Over, WakeWorkers, Woken, vars
<1> QED
  BY <1>2, <1>3, <1>4, <1>5 DEF Next

\* pool_wait returns only at a moment when no task is queued or being stepped.
THEOREM WaitAlwaysReturnsDrained == Spec => WaitReturnsDrained
<1>1. ASSUME IInv, Next, NEW c \in Clients, pc[c] = "waitcheck", pc'[c] = "idle",
             NEW t \in Tasks
      PROVE  status[t] \notin {"ready", "held"}
  <2>1. ~(pending > 0)
    BY <1>1, OnlyWaitEnds DEF WaitEnds, SomePending
  <2>2. phase # "destroyed"
    BY <1>1 DEF IInv, PhaseInv
  <2>3. Cardinality(Outstanding) = 0
    BY <1>1, <2>1, <2>2 DEF IInv, PendingExact, TypeOK
  <2>4. Outstanding = {}
    BY <2>3, OutstandingFinite, FS_EmptySet
  <2> QED
    BY <1>1, <2>4 DEF Outstanding, IInv, HeldInv
<1>2. IInv /\ [Next]_vars =>
        [\A c \in Clients : pc[c] = "waitcheck" /\ pc'[c] = "idle" =>
           \A t \in Tasks : status[t] \notin {"ready", "held"}]_vars
  BY <1>1
<1> QED
  BY <1>2, SpecIInv, PTL DEF Spec, WaitReturnsDrained

-----------------------------------------------------------------------------
(* No wake-up is lost, if nobody polls and every thread can be created *)

WakeInv ==
  /\ NoLostWakeup
  /\ phase \in {"starting", "running", "stopping", "destroyed"}
  /\ \A c \in Clients : pc[c] \in {"idle", "waitcheck", "timedwait"}

\* Without poll_one and without thread creation failures no worker sleeps, or
\* is about to, while there is work or the pool is shutting down.
THEOREM NoWakeupIsLost ==
  ASSUME Pollers = {}, ~CreateMayFail
  PROVE  Spec => []NoLostWakeup
<1>1. Init => WakeInv
  BY ThreadsAssumption DEF Init, WakeInv, NoLostWakeup, Threads
<1>2. ASSUME IInv, WakeInv, [Next]_vars PROVE WakeInv'
  <2>1. pc \in [Threads -> PCs] /\ \A c \in Clients : c \notin Workers
    BY <1>2, ThreadsAssumption DEF IInv, TypeOK, PCs
  <2>2. ASSUME NEW w \in Workers,
               \/ StartWorker(w) \/ WorkerFindsNothing(w) \/ WorkerSleeps(w) \/ SpuriousWake(w)
               \/ WorkerExits(w) \/ WorkerDiscards(w) \/ FreeDiscarded(w)
        PROVE  WakeInv'
    BY <1>2, <2>1, <2>2, ThreadsAssumption
    DEF StartWorker, WorkerFindsNothing, WorkerSleeps, SpuriousWake, WorkerExits,
        WorkerDiscards, FreeDiscarded, OnlyPC, Goes, Threads, WakeInv, NoLostWakeup
  <2>3. ASSUME NEW w \in Workers, WorkerRequeues(w) \/ UncountDiscarded(w) PROVE WakeInv'
    <3>1. PICK to \in {"top", "exited"} :
            LET f == WakeWorkers([pc EXCEPT ![w] = to])
            IN  /\ pc' = f \/ pc' = WakeWaiters(f)
                /\ UNCHANGED phase
      BY <2>3 DEF WorkerRequeues, UncountDiscarded, CountDown
    <3>2. \A o \in Workers : pc'[o] \notin {"gowait", "waiting"}
      BY <2>1, <2>3, <3>1, ThreadsAssumption
      DEF WorkerRequeues, UncountDiscarded, WakeWorkers, WakeWaiters, Woken, LockFree, Threads
    <3>3. \A c \in Clients : pc'[c] \in {"idle", "waitcheck", "timedwait"}
      BY <1>2, <2>1, <3>1 DEF WakeInv, WakeWorkers, WakeWaiters, Woken, Threads
    <3> QED
      BY <1>2, <3>1, <3>2, <3>3 DEF WakeInv, NoLostWakeup
  <2>4. ASSUME NEW c \in Clients, ClientStep(c) PROVE WakeInv'
    BY <1>2, <2>1, <2>4, ThreadsAssumption
    DEF ClientStep, PollerRequeues, WaitBegins, WaitSleeps, WaitTimesOut, WaitEnds, OnlyPC,
        Goes, Threads, WakeInv, NoLostWakeup
  <2>5. ASSUME NEW th \in Threads, Take(th) PROVE WakeInv'
    BY <1>2, <2>1, <2>5, ThreadsAssumption
    DEF Take, MayTake, Threads, WakeInv, NoLostWakeup
  <2>6. ASSUME NEW th \in Threads,
               Yield(th) \/ Return(th) \/ FreeFinished(th) \/ UncountFinished(th)
        PROVE  WakeInv'
    BY <1>2, <2>1, <2>6, ThreadsAssumption
    DEF Yield, Return, FreeFinished, UncountFinished, CountDown, Between, OnlyPC, WakeWaiters,
        Woken, Goes, Threads, WakeInv, NoLostWakeup
  <2>7. ASSUME NEW th \in Threads,
               (\E t \in Tasks : SpawnCreates(th, t)) \/ SpawnEnqueues(th) \/ SpawnRefused(th)
        PROVE  WakeInv'
    BY <1>2, <2>1, <2>7, ThreadsAssumption
    DEF SpawnCreates, SpawnEnqueues, SpawnRefused, WakeWorkers, Woken, Threads, WakeInv,
        NoLostWakeup, LockFree
  <2>8. ASSUME PoolStep PROVE WakeInv'
    <3>1. CASE InitDone \/ DestroyEnds \/ Over
      BY <1>2, <3>1 DEF InitDone, DestroyEnds, Over, vars, WakeInv, NoLostWakeup
    <3>2. CASE DestroyBegins
      BY <1>2, <2>1, <3>2, ThreadsAssumption
      DEF DestroyBegins, WakeWorkers, Woken, Threads, WakeInv, NoLostWakeup, LockFree
    <3> QED
      BY <1>2, <2>8, <3>1, <3>2
      DEF PoolStep, WorkersAllocFails, StartFails, FailBroadcast, FailJoined, WakeInv
  <2>9. CASE UNCHANGED vars
    BY <1>2, <2>9 DEF vars, WakeInv, NoLostWakeup
  <2> QED
    BY <1>2, <2>2, <2>3, <2>4, <2>5, <2>6, <2>7, <2>8, <2>9
    DEF Next, WorkerStep, ThreadStep
<1>3. WakeInv => NoLostWakeup
  BY DEF WakeInv
<1> QED
  BY <1>1, <1>2, <1>3, SpecIInv, PTL DEF Spec

-----------------------------------------------------------------------------
(* The pool implements TaskPool *)

\* How is_running follows the phases, and who depends on it.
RunInv ==
  /\ phase \in {"starting", "running"} => isRunning
  /\ phase \in {"stopping", "destroyed"} => ~isRunning
  /\ \A c \in Clients : pc[c] # "idle" => phase = "running"
  /\ \A w \in Workers : pc[w] = "discard" => ~isRunning

LEMMA SpecRunInv == Spec => []RunInv
<1>1. Init => RunInv
  BY ThreadsAssumption DEF Init, RunInv, Threads
<1>2. ASSUME IInv, RunInv, [Next]_vars PROVE RunInv'
  <2>1. pc \in [Threads -> PCs] /\ isRunning \in BOOLEAN /\ \A c \in Clients : c \notin Workers
    BY <1>2, ThreadsAssumption DEF IInv, TypeOK, PCs
  <2>2. ASSUME NEW w \in Workers, WorkerStep(w) PROVE RunInv'
    <3>1. CASE \/ StartWorker(w) \/ WorkerFindsNothing(w) \/ WorkerSleeps(w) \/ SpuriousWake(w)
               \/ WorkerExits(w) \/ WorkerDiscards(w) \/ FreeDiscarded(w)
      BY <1>2, <2>1, <3>1, ThreadsAssumption
      DEF StartWorker, WorkerFindsNothing, WorkerSleeps, SpuriousWake, WorkerExits,
          WorkerDiscards, FreeDiscarded, OnlyPC, Goes, Threads, RunInv
    <3>2. CASE WorkerRequeues(w)
      BY <1>2, <2>1, <3>2, ThreadsAssumption
      DEF WorkerRequeues, WakeWorkers, Woken, Threads, RunInv
    <3>3. CASE UncountDiscarded(w)
      BY <1>2, <2>1, <3>3, ThreadsAssumption
      DEF UncountDiscarded, CountDown, WakeWorkers, WakeWaiters, Woken, Threads, RunInv
    <3> QED
      BY <2>2, <3>1, <3>2, <3>3 DEF WorkerStep
  <2>3. ASSUME NEW c \in Clients, ClientStep(c) PROVE RunInv'
    BY <1>2, <2>1, <2>3, ThreadsAssumption
    DEF ClientStep, PollerRequeues, WaitBegins, WaitSleeps, WaitTimesOut, WaitEnds, OnlyPC,
        Goes, Threads, RunInv
  <2>4. ASSUME NEW th \in Threads, ThreadStep(th) PROVE RunInv'
    <3>1. CASE Take(th)
      BY <1>2, <2>1, <3>1, ThreadsAssumption DEF Take, MayTake, Threads, RunInv
    <3>2. CASE Yield(th) \/ Return(th) \/ FreeFinished(th)
      BY <1>2, <2>1, <3>2, ThreadsAssumption
      DEF Yield, Return, FreeFinished, OnlyPC, Goes, Threads, RunInv
    <3>3. CASE UncountFinished(th)
      BY <1>2, <2>1, <3>3, ThreadsAssumption
      DEF UncountFinished, CountDown, Between, WakeWaiters, Woken, Threads, RunInv
    <3>4. CASE (\E t \in Tasks : SpawnCreates(th, t)) \/ SpawnEnqueues(th) \/ SpawnRefused(th)
      BY <1>2, <2>1, <3>4
      DEF SpawnCreates, SpawnEnqueues, SpawnRefused, WakeWorkers, Woken, Threads, RunInv
    <3> QED
      BY <2>4, <3>1, <3>2, <3>3, <3>4 DEF ThreadStep
  <2>5. ASSUME PoolStep PROVE RunInv'
    BY <1>2, <2>1, <2>5
    DEF PoolStep, InitDone, WorkersAllocFails, StartFails, FailBroadcast, FailJoined,
        DestroyBegins, DestroyEnds, Over, vars, WakeWorkers, Woken, Threads, RunInv
  <2>6. CASE UNCHANGED vars
    BY <1>2, <2>6 DEF vars, RunInv
  <2> QED
    BY <1>2, <2>2, <2>3, <2>4, <2>5, <2>6 DEF Next
<1> QED
  BY <1>1, <1>2, SpecIInv, PTL DEF Spec

HasStatus(s) == {t \in Tasks : status[t] = s}

\* Every step of the pool is a step of TaskPool, or changes nothing in it.
THEOREM PoolImplementsTaskPool == Spec => ImplementsTaskPool
<1> USE DEF Held, HasStatus
<1>1. Init => Abstract!Init
  BY DEF Init, Abstract!Init
<1>2. ASSUME IInv, RunInv, [Next]_vars PROVE [Abstract!Next]_Abstract!vars
  <2> DEFINE Same == UNCHANGED <<isRunning, queue, status>>
  <2>1. ASSUME Same PROVE UNCHANGED Abstract!vars
    BY <2>1 DEF Abstract!vars
  <2>2. /\ cur \in [Threads -> Tasks \cup {NoTask}] /\ status \in [Tasks -> Statuses]
        /\ pc \in [Threads -> PCs] /\ queue \in Seq(Tasks)
    BY <1>2 DEF IInv, TypeOK, PCs
  <2>3. ASSUME NEW th \in Threads, pc[th] \in Using
        PROVE  cur[th] \in Tasks /\ status[cur[th]] = "held" /\ cur[th] \in Held(status)
    BY <1>2, <2>3 DEF IInv, CurInv
  <2>4. Abstract!Queued = HasStatus("ready")
    BY <1>2, <2>2 DEF Abstract!Queued, IInv, QueueInv, Elems
  <2>5. ASSUME NEW th \in Threads, Take(th) PROVE Abstract!Step
    <3>1. /\ Head(queue) \in Tasks /\ queue # <<>> /\ status[Head(queue)] = "ready"
          /\ status' = [status EXCEPT ![Head(queue)] = "held"]
          /\ queue' = Tail(queue) /\ isRunning' = isRunning
      BY <1>2, <2>2, <2>5, TailFacts DEF Take, Unlink, IInv, QueueInv
    <3> QED
      BY <2>2, <3>1 DEF Abstract!Step
  <2>6. ASSUME NEW th \in Threads, pc[th] = "yielded", isRunning, PutBack(th), UNCHANGED isRunning
        PROVE  Abstract!Yield(cur[th])
    BY <2>2, <2>3, <2>6 DEF PutBack, Abstract!Yield, Using
  <2>7. ASSUME NEW th \in Threads, FreeFinished(th) PROVE Abstract!Finish(cur[th])
    BY <2>2, <2>3, <2>7 DEF FreeFinished, Goes, Abstract!Finish, Using
  <2>8. ASSUME NEW w \in Workers, FreeDiscarded(w) PROVE Abstract!DropActive(cur[w])
    BY <1>2, <2>2, <2>3, <2>8 DEF FreeDiscarded, Goes, Abstract!DropActive, Using, RunInv, Threads
  <2>9. ASSUME NEW th \in Threads, SpawnEnqueues(th) PROVE Abstract!Submit(spawnee[th])
    <3>1. spawnee[th] \in Tasks /\ status[spawnee[th]] = "created"
      BY <1>2, <2>9, SpawneeFacts DEF SpawnEnqueues
    <3> QED
      BY <2>2, <2>4, <2>9, <3>1 DEF SpawnEnqueues, Abstract!Submit
  <2>10. ASSUME NEW th \in Threads, SpawnRefused(th) PROVE UNCHANGED Abstract!vars
    <3>1. spawnee[th] \in Tasks /\ status[spawnee[th]] = "created"
      BY <1>2, <2>10, SpawneeFacts DEF SpawnRefused
    <3> QED
      BY <2>2, <2>10, <3>1 DEF SpawnRefused, Abstract!vars
  <2>11. ASSUME NEW th \in Threads, NEW t \in Tasks, SpawnCreates(th, t)
         PROVE  UNCHANGED Abstract!vars
    BY <2>2, <2>11 DEF SpawnCreates, Abstract!vars
  <2>12. ASSUME DestroyEnds PROVE Abstract!DropQueued
    <3>1. \A th \in Threads : cur[th] = NoTask
      BY <1>2, <2>12
      DEF DestroyEnds, IInv, PhaseInv, CurInv, Threads, Using, Counting
    <3>2. Held(status) = {}
      BY <1>2, <3>1, TasksAssumption DEF IInv, HeldInv
    <3>3. Leftover = HasStatus("ready")
      BY <2>4 DEF Leftover, InQueue, Abstract!Queued
    <3>4. /\ HasStatus("completed")' = HasStatus("completed")
          /\ HasStatus("discarded")' = HasStatus("discarded") \cup HasStatus("ready")
          /\ Held(status)' = {}
      BY <2>2, <2>12, <3>2, <3>3 DEF DestroyEnds
    <3>5. ~isRunning /\ isRunning' = isRunning /\ queue' = <<>>
      BY <1>2, <2>12 DEF DestroyEnds, RunInv
    <3> QED
      BY <2>4, <3>2, <3>4, <3>5 DEF Abstract!DropQueued
  <2> HIDE DEF Held, HasStatus
  <2>13. ASSUME NEW t \in Tasks, \/ Abstract!Submit(t) \/ Abstract!Yield(t)
                                 \/ Abstract!Finish(t) \/ Abstract!DropActive(t)
         PROVE  Abstract!Next
    BY <2>13 DEF Abstract!Next
  <2>14. ASSUME NEW w \in Workers, WorkerStep(w) PROVE [Abstract!Next]_Abstract!vars
    <3>1. CASE WorkerRequeues(w)
      BY <2>3, <2>6, <2>13, <3>1 DEF WorkerRequeues, Using, Threads
    <3>2. CASE FreeDiscarded(w)
      <4>1. w \in Threads /\ pc[w] \in Using
        BY <3>2 DEF FreeDiscarded, Goes, Using, Threads
      <4>2. cur[w] \in Tasks /\ Abstract!DropActive(cur[w])
        BY <2>3, <2>8, <3>2, <4>1
      <4> QED
        BY <4>2 DEF Abstract!Next, Abstract!DropActive
    <3>3. CASE Same
      BY <2>1, <3>3
    <3> QED
      BY <2>14, <3>1, <3>2, <3>3
      DEF WorkerStep, StartWorker, WorkerFindsNothing, WorkerSleeps, SpuriousWake, WorkerExits,
          WorkerDiscards, UncountDiscarded, OnlyPC
  <2>15. ASSUME NEW c \in Clients, ClientStep(c) PROVE [Abstract!Next]_Abstract!vars
    <3>1. CASE PollerRequeues(c)
      <4>1. pc[c] = "yielded" /\ isRunning /\ PutBack(c) /\ UNCHANGED isRunning
        BY <1>2, <3>1 DEF PollerRequeues, Goes, RunInv
      <4> QED
        BY <2>3, <2>6, <2>13, <4>1 DEF Using, Threads
    <3>2. CASE Same
      BY <2>1, <3>2
    <3> QED
      BY <2>15, <3>1, <3>2 DEF ClientStep, WaitBegins, WaitSleeps, WaitTimesOut, WaitEnds, OnlyPC
  <2>16. ASSUME NEW th \in Threads, ThreadStep(th) PROVE [Abstract!Next]_Abstract!vars
    <3>1. CASE Take(th)
      BY <2>5, <3>1 DEF Abstract!Next
    <3>2. CASE FreeFinished(th)
      <4>1. cur[th] \in Tasks /\ Abstract!Finish(cur[th])
        BY <2>3, <2>7, <3>2 DEF FreeFinished, Goes, Using
      <4> QED
        BY <4>1 DEF Abstract!Next, Abstract!Finish
    <3>3. CASE SpawnEnqueues(th)
      BY <1>2, <2>9, <2>13, <3>3, SpawneeFacts DEF SpawnEnqueues
    <3>4. CASE SpawnRefused(th) \/ \E t \in Tasks : SpawnCreates(th, t)
      BY <2>10, <2>11, <3>4
    <3>5. CASE Same
      BY <2>1, <3>5
    <3> QED
      BY <2>16, <3>1, <3>2, <3>3, <3>4, <3>5 DEF ThreadStep, Yield, Return, UncountFinished, OnlyPC
  <2>17. ASSUME PoolStep PROVE [Abstract!Next]_Abstract!vars
    <3>1. CASE StartFails \/ DestroyBegins
      <4>1. isRunning' = FALSE /\ UNCHANGED <<queue, status>>
        BY <3>1 DEF StartFails, DestroyBegins
      <4>2. Abstract!Close
        BY <4>1 DEF Abstract!Close, Held
      <4> QED
        BY <4>2 DEF Abstract!Next
    <3>2. CASE DestroyEnds
      BY <2>12, <3>2 DEF Abstract!Next
    <3>3. CASE Same
      BY <2>1, <3>3
    <3> QED
      BY <2>17, <3>1, <3>2, <3>3
      DEF PoolStep, InitDone, WorkersAllocFails, FailBroadcast, FailJoined, Over, vars
  <2>18. CASE UNCHANGED vars
    BY <2>1, <2>18 DEF vars
  <2> QED
    BY <1>2, <2>14, <2>15, <2>16, <2>17, <2>18 DEF Next
<1> QED
  BY <1>1, <1>2, SpecIInv, SpecRunInv, PTL DEF Spec, ImplementsTaskPool, Abstract!Spec

-----------------------------------------------------------------------------
(* The parts of Shared *)

\* A behaviour of the whole is one of each part.
LEMMA SharedParts ==
  SharedSpec => Spec /\ Pointers!Spec /\ States!Spec /\ Pools!Spec
<1>1. SharedInit => Init /\ Pointers!Init /\ States!Init /\ Pools!Init
  BY DEF SharedInit
<1>2. [SharedNext]_allVars => [Next]_vars
  BY DEF SharedNext, allVars
<1>3. [SharedNext]_allVars => [Pointers!Next]_(Pointers!vars)
  BY DEF SharedNext, allVars, pointerVars, Pointers!vars
<1>4. [SharedNext]_allVars => [States!Next]_(States!vars)
  BY DEF SharedNext, allVars, stateVars, States!vars
<1>5. [SharedNext]_allVars => [Pools!Next]_(Pools!vars)
  BY DEF SharedNext, allVars, poolVars, Pools!vars
<1> QED
  BY <1>1, <1>2, <1>3, <1>4, <1>5, PTL DEF SharedSpec, Spec, Pointers!Spec, States!Spec, Pools!Spec

\* However threads clone, move, release and lock: both counters of a block agree with the
\* pointers to it.
THEOREM PointersAlwaysExact ==
  ASSUME PartsAssumption
  PROVE  SharedSpec => []PointersConsistent
<1>1. Pointers!Spec => []Pointers!Consistent
  BY Pointers!AlwaysConsistent DEF PartsAssumption
<1> QED
  BY <1>1, SharedParts, PTL DEF PointersConsistent

\* No pointer and no running call leads to what is destroyed or freed.
THEOREM PointersNeverDangle ==
  ASSUME PartsAssumption
  PROVE  SharedSpec => []NoDangling
<1>1. Pointers!Spec => []Pointers!NoDangling
  BY Pointers!NothingDangles DEF PartsAssumption
<1> QED
  BY <1>1, SharedParts, PTL DEF NoDangling

\* Each step of the pointers is one of RefObject, or none.
THEOREM PointersImplement ==
  ASSUME PartsAssumption
  PROVE  SharedSpec => ImplementsRefObject
<1>1. Pointers!Spec => Pointers!ImplementsRefObject
  BY Pointers!Refinement DEF PartsAssumption
<1> QED
  BY <1>1, SharedParts, PTL DEF ImplementsRefObject

\* Under Apart: the counter of a state is the number of its holders.
THEOREM StatesAlwaysExact ==
  ASSUME PartsAssumption, Apart
  PROVE  SharedSpec => []StatesConsistent
<1>1. States!Spec => []States!Consistent
  BY States!CountsExactAlways DEF PartsAssumption
<1> QED
  BY <1>1, SharedParts, PTL DEF StatesConsistent

\* Under Apart: no holder and no running call uses a freed state.
THEOREM StatesNeverStale ==
  ASSUME PartsAssumption, Apart
  PROVE  SharedSpec => []NoUseAfterFree
<1>1. States!Spec => []States!NoUseAfterFree
  BY States!NeverUsedAfterFree DEF PartsAssumption
<1> QED
  BY <1>1, SharedParts, PTL DEF NoUseAfterFree

\* Under Apart: while the map has memory there is one state per file.
THEOREM StatesImplement ==
  ASSUME PartsAssumption, Apart
  PROVE  SharedSpec => ImplementsStatePerFile
<1>1. States!Spec => States!ImplementsStatePerFile
  BY States!RegistryImplements DEF PartsAssumption
<1> QED
  BY <1>1, SharedParts, PTL DEF ImplementsStatePerFile

\* Counts of extension pools are exact, nothing destroyed is used, and nothing is left.
THEOREM ExtensionPoolsSafe ==
  ASSUME PartsAssumption
  PROVE  SharedSpec => []PoolsSafe
<1>1. Pools!Spec => []Pools!PoolsSafe
  BY Pools!PoolsAlwaysSafe DEF PartsAssumption
<1> QED
  BY <1>1, SharedParts, PTL DEF PoolsSafe
=============================================================================
