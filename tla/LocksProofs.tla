----------------------------- MODULE LocksProofs -----------------------------
(***************************************************************************)
(* The tiny lock excludes and loses no wake-up, for any number of threads  *)
(* and in both builds; and a wait for a condition and a call of the hub    *)
(* answer what is true.                                                    *)
(***************************************************************************)
EXTENDS Locks, Integers, Sequences, TLAPS

-----------------------------------------------------------------------------
(* The tiny lock *)

\* At most one thread holds the lock.
OneHolder == \A t, u \in Contenders : pc[t] = "holds" /\ pc[u] = "holds" => t = u

\* On a native processor nobody sleeps, so unlock has nobody to notify.
NativeAwake == Wasm \/ \A t \in Contenders : pc[t] # "asleep"

IInv == TypeOK /\ OneHolder /\ WordTells /\ NoLostWakeup /\ NativeAwake

\* Nobody sleeps on, or holds, a lock that has just been made.
LEMMA InitIInv == Init => IInv
BY DEF Init, IInv, TypeOK, Places, OneHolder, WordTells, NoLostWakeup, NativeAwake, Holders

\* No step of a thread breaks the invariant.
LEMMA StepIInv ==
  ASSUME IInv, NEW t \in Contenders, Step(t)
  PROVE  IInv'
<1> USE DEF IInv, TypeOK, Places, OneHolder, WordTells, NoLostWakeup, NativeAwake, Holders, Go
<1>1. CASE Lock(t)
  BY <1>1 DEF Lock
<1>2. CASE SwapSucceeds(t)
  BY <1>2 DEF SwapSucceeds
<1>3. CASE SwapFails(t)
  BY <1>3 DEF SwapFails
<1>4. CASE WaitPasses(t)
  BY <1>4 DEF WaitPasses
<1>5. CASE Sleeps(t)
  BY <1>5 DEF Sleeps
<1>6. CASE TryLock(t)
  BY <1>6 DEF TryLock
<1>7. CASE Unlock(t)
  <2>1. CASE Wasm
    BY <1>7, <2>1 DEF Unlock
  <2>2. CASE ~Wasm
    BY <1>7, <2>2 DEF Unlock
  <2> QED
    BY <2>1, <2>2
<1>8. CASE Notify(t)
  BY <1>8 DEF Notify
<1> QED
  BY <1>1, <1>2, <1>3, <1>4, <1>5, <1>6, <1>7, <1>8 DEF Step

\* The invariant holds in every reachable state.
THEOREM Invariance == Spec => []IInv
<1>1. ASSUME IInv, [Next]_vars PROVE IInv'
  <2>1. CASE UNCHANGED vars
    BY <1>1, <2>1 DEF vars, IInv, TypeOK, OneHolder, WordTells, NoLostWakeup, NativeAwake, Holders
  <2>2. CASE Next
    BY <1>1, <2>2, StepIInv DEF Next
  <2> QED
    BY <1>1, <2>1, <2>2
<1> QED
  BY <1>1, InitIInv, PTL DEF Spec

\* The word of the lock is 1 exactly while a thread holds it.
THEOREM AlwaysConsistent == Spec => []Consistent
<1>1. IInv => Consistent
  BY DEF IInv, Consistent
<1> QED
  BY <1>1, Invariance, PTL

\* Whenever a thread sleeps on a free word, another one is about to take the
\* word, to look at it again, or to notify a sleeper.
THEOREM NoWakeupIsLost == Spec => []NoLostWakeup
<1>1. IInv => NoLostWakeup
  BY DEF IInv
<1> QED
  BY <1>1, Invariance, PTL

-----------------------------------------------------------------------------
(* Exclusion, as an implementation of Mutex *)

\* Every step of the lock acquires, releases, or leaves the holders alone.
LEMMA StepRefines ==
  ASSUME IInv, NEW t \in Contenders, Step(t)
  PROVE  [Excluding!Next]_Holders
<1> USE DEF IInv, TypeOK, Places, Go, Holders
<1>1. CASE SwapSucceeds(t) \/ TryLock(t)
  <2>1. Holders = {} /\ Holders' = {t}
    BY <1>1 DEF SwapSucceeds, TryLock, WordTells
  <2> QED
    BY <2>1 DEF Excluding!Next, Excluding!Acquire
<1>2. CASE Unlock(t)
  <2>1. Holders = {t}
    BY <1>2 DEF Unlock, OneHolder
  <2>2. Holders' = {}
    BY <1>2, <2>1 DEF Unlock
  <2> QED
    BY <2>1, <2>2 DEF Excluding!Next, Excluding!Release
<1>3. CASE Lock(t) \/ SwapFails(t) \/ WaitPasses(t) \/ Sleeps(t) \/ Notify(t)
  <2>1. Holders' = Holders
    BY <1>3 DEF Lock, SwapFails, WaitPasses, Sleeps, Notify
  <2> QED
    BY <2>1
<1> QED
  BY <1>1, <1>2, <1>3 DEF Step

\* At most one thread is between a successful compare-and-swap and the store
\* of unlock: every behaviour of the lock is one of Mutex.
THEOREM Refinement == Spec => ImplementsMutex
<1>1. Init => Excluding!Init
  BY DEF Init, Holders, Excluding!Init
<1>2. ASSUME IInv, [Next]_vars PROVE [Excluding!Next]_Holders
  <2>1. CASE UNCHANGED vars
    BY <2>1 DEF vars, Holders
  <2>2. CASE Next
    BY <1>2, <2>2, StepRefines DEF Next
  <2> QED
    BY <1>2, <2>1, <2>2
<1> QED
  BY <1>1, <1>2, Invariance, PTL DEF Spec, ImplementsMutex, Excluding!Spec

-----------------------------------------------------------------------------
(* The condition variable *)

\* The condition variable: the mutex is with the one that tests, and answers are true.
WaitInv ==
  /\ flag \in BOOLEAN /\ mutex \in Waiters \cup {None}
  /\ place \in [Waiters -> {"outside", "testing", "testing in time", "asleep", "asleep in time", "notified",
                             "notified in time"}]
  /\ answers \in [Waiters -> BOOLEAN \X BOOLEAN]
  /\ Waiting!AnswersTrue

\* A step of the condition variable.
LEMMA WaitingInvariance ==
  ASSUME WaitAssumption, WaitInv, Waiting!WaitingNext
  PROVE  WaitInv'
<1>1. ASSUME NEW t \in Waiters,
             \/ Waiting!Waits(t) \/ Waiting!Finds(t) \/ Waiting!Sleeps(t) \/ Waiting!Spurious(t) \/ Waiting!Wakes(t)
             \/ Waiting!TooLate(t) \/ Waiting!TimesOut(t)
      PROVE  WaitInv'
  <2> DEFINE Testing == {"testing", "testing in time"}
             Sleeping == {"asleep", "asleep in time", "notified", "notified in time"}
  <2>1. \/ /\ UNCHANGED answers /\ flag' = flag
           /\ \E to \in Testing \cup Sleeping : place' = [place EXCEPT ![t] = to] /\ mutex' = (IF to \in Testing THEN t ELSE None)
           /\ mutex = None \/ place[t] \in Testing
        \/ /\ UNCHANGED <<answers, mutex>> /\ flag' = flag /\ place[t] \in {"asleep", "asleep in time"}
           /\ \E to \in {"notified", "notified in time"} : place' = [place EXCEPT ![t] = to]
        \/ /\ place' = [place EXCEPT ![t] = "outside"] /\ answers' = [answers EXCEPT ![t] = <<flag, flag>>]
           /\ mutex' = None /\ flag' = flag
           /\ mutex = None \/ place[t] \in Testing
    <3>1. CASE Waiting!Waits(t) \/ Waiting!Wakes(t) \/ Waiting!Sleeps(t)
      BY <3>1 DEF Waiting!Waits, Waiting!Wakes, Waiting!Sleeps, Waiting!Stands
    <3>2. CASE Waiting!Spurious(t)
      BY <3>2 DEF Waiting!Spurious, Waiting!Stands
    <3>3. CASE Waiting!Finds(t) \/ Waiting!TooLate(t) \/ Waiting!TimesOut(t)
      BY <3>3 DEF Waiting!Finds, Waiting!TooLate, Waiting!TimesOut, Waiting!Answers, Waiting!AfterTimeout, WaitInv
    <3> QED
      BY <1>1, <3>1, <3>2, <3>3
  <2>2. mutex = None \/ place[t] \in Testing => \A u \in Waiters : u # t => place[u] \notin Testing
    BY DEF WaitInv, Waiting!AnswersTrue, WaitAssumption
  <2>3. ASSUME flag' = flag, UNCHANGED answers, NEW to \in Testing \cup Sleeping, place' = [place EXCEPT ![t] = to],
               mutex' = (IF to \in Testing THEN t ELSE None), mutex = None \/ place[t] \in Testing
        PROVE  WaitInv'
    <3>1. \A u \in Waiters : place'[u] = IF u = t THEN to ELSE place[u]
      BY <2>3 DEF WaitInv
    <3>2. \A u \in Waiters : place'[u] \in Testing <=> mutex' = u
      BY <2>2, <2>3, <3>1 DEF WaitAssumption
    <3>3. place' \in [Waiters -> {"outside"} \cup Testing \cup Sleeping] /\ mutex' \in Waiters \cup {None}
      BY <2>3 DEF WaitInv
    <3> QED
      BY <2>3, <3>2, <3>3 DEF WaitInv, Waiting!AnswersTrue
  <2>4. ASSUME flag' = flag, UNCHANGED <<answers, mutex>>, place[t] \in {"asleep", "asleep in time"},
               NEW to \in {"notified", "notified in time"}, place' = [place EXCEPT ![t] = to]
        PROVE  WaitInv'
    BY <2>4 DEF WaitInv, Waiting!AnswersTrue
  <2>5. ASSUME flag' = flag, mutex' = None, mutex = None \/ place[t] \in Testing, place' = [place EXCEPT ![t] = "outside"],
               answers' = [answers EXCEPT ![t] = <<flag, flag>>]
        PROVE  WaitInv'
    <3>1. \A u \in Waiters : place'[u] = IF u = t THEN "outside" ELSE place[u]
      BY <2>5 DEF WaitInv
    <3>2. \A u \in Waiters : place'[u] \in Testing <=> mutex' = u
      <4>1. \A u \in Waiters : u # t => place[u] \notin Testing
        BY <2>2, <2>5
      <4>2. \A u \in Waiters : place'[u] \notin Testing
        BY <3>1, <4>1
      <4> QED
        BY <2>5, <4>2 DEF WaitAssumption
    <3>3. place' \in [Waiters -> {"outside"} \cup Testing \cup Sleeping]
      BY <2>5 DEF WaitInv
    <3>4. answers' \in [Waiters -> BOOLEAN \X BOOLEAN]
      BY <2>5 DEF WaitInv
    <3>5. \A u \in Waiters : answers'[u][1] = answers'[u][2]
      BY <2>5 DEF WaitInv, Waiting!AnswersTrue
    <3> QED
      BY <2>5, <3>2, <3>3, <3>4, <3>5 DEF WaitInv, Waiting!AnswersTrue
  <2> QED
    BY <2>1, <2>3, <2>4, <2>5
<1>2. ASSUME NEW value \in BOOLEAN, Waiting!Changes(value)
      PROVE  WaitInv'
  <2>1. /\ mutex = None /\ flag' = value /\ UNCHANGED <<mutex, answers>>
        /\ \/ UNCHANGED place
           \/ \E woken \in SUBSET Waiting!Sleepers : Waiting!Notifies(woken)
    BY <1>2 DEF Waiting!Changes, Waiting!handleVars
  <2>2. CASE UNCHANGED place
    BY <2>1, <2>2 DEF WaitInv, Waiting!AnswersTrue
  <2>3. ASSUME NEW woken \in SUBSET Waiting!Sleepers, Waiting!Notifies(woken)
        PROVE  WaitInv'
    <3>1. \A t \in woken : t \in Waiters /\ place[t] \in {"asleep", "asleep in time"}
      BY DEF Waiting!Sleepers
    <3>2. place' \in [Waiters -> {"outside", "testing", "testing in time", "asleep", "asleep in time", "notified",
                                  "notified in time"}]
      BY <2>3 DEF Waiting!Notifies, WaitInv
    <3>3. \A t \in Waiters : place'[t] \in {"testing", "testing in time"} <=> place[t] \in {"testing", "testing in time"}
      BY <2>3, <3>1 DEF Waiting!Notifies
    <3> QED
      BY <2>1, <3>2, <3>3 DEF WaitInv, Waiting!AnswersTrue
  <2> QED
    BY <2>1, <2>2, <2>3
<1> QED
  BY <1>1, <1>2 DEF Waiting!WaitingNext

-----------------------------------------------------------------------------
(* The hub of handlers *)

FrameRecord ==
  [name : FnNames, phase : {"finding", "found", "running"}, handler : Handlers \cup {None},
   at : Nat, own : BOOLEAN, before : BOOLEAN, said : {"nothing", "result", "error"}]

\* Whether the context of a call should have an error, as far as the call has come.
ErrorOf(f) == f.said = "error" \/ (f.said = "nothing" /\ f.before)

\* A call has a context, and a handler that is called exists.
WellFormed(f) == f.at >= 1 /\ (f.phase = "running" => f.handler # None)

\* The contexts of a stack of calls are made in its order.
Ordered(st) ==
  \A i, j \in 1..Len(st) : i < j => st[i].at <= st[j].at /\ (st[j].own => st[i].at < st[j].at)

\* Each call but the innermost is in its handler, each reports in the context made last,
\* and what stands there now is what the innermost call of this context has said, who
\* found there what the one outside it had said.
Linked(st, cx, i) ==
  /\ WellFormed(st[i])
  /\ st[i].at = (IF i = 1 THEN 1 ELSE st[i - 1].at) + (IF st[i].own THEN 1 ELSE 0)
  /\ i < Len(st) => st[i].phase = "running"
  /\ i = Len(st) \/ st[i + 1].own => (cx[st[i].at] = TRUE <=> ErrorOf(st[i]))
  /\ i < Len(st) => (st[i + 1].before = TRUE <=> ~st[i + 1].own /\ ErrorOf(st[i]))
  /\ i = 1 /\ st[i].own => st[i].before = FALSE

Chained(st, cx) ==
  /\ Len(cx) = IF st = <<>> THEN 1 ELSE st[Len(st)].at
  /\ Ordered(st)
  /\ \A i \in 1..Len(st) : Linked(st, cx, i)

HubInv ==
  /\ s_lock = None /\ honest = TRUE
  /\ entries \in [FnNames -> Handlers \cup {None}]
  /\ stack \in [Callers -> Seq(FrameRecord)] /\ contexts \in [Callers -> Seq(BOOLEAN)]
  /\ \A c \in Callers : Chained(stack[c], contexts[c])

LEMMA HubInitially ==
  ASSUME Hub!HubInit
  PROVE  HubInv
<1>1. \A c \in Callers : stack[c] = <<>> /\ contexts[c] = <<FALSE>>
  BY DEF Hub!HubInit
<1>2. Chained(<<>>, <<FALSE>>)
  BY DEF Chained, Ordered
<1>3. <<>> \in Seq(FrameRecord) /\ <<FALSE>> \in Seq(BOOLEAN)
  OBVIOUS
<1>4. stack \in [Callers -> Seq(FrameRecord)] /\ contexts \in [Callers -> Seq(BOOLEAN)]
  BY <1>3 DEF Hub!HubInit
<1> QED
  BY <1>1, <1>2, <1>4 DEF Hub!HubInit, HubInv

\* Where the calls of a stack report.
LEMMA ContextsThere ==
  \A st \in Seq(FrameRecord), cx \in Seq(BOOLEAN) :
    Chained(st, cx) => /\ Len(st) \in Nat /\ Len(cx) \in Nat /\ Len(cx) >= 1
                       /\ \A i \in 1..Len(st) : st[i] \in FrameRecord /\ st[i].at \in 1..Len(cx)
                       /\ st = <<>> => Len(st) = 0 /\ Len(cx) = 1
                       /\ st # <<>> => Len(st) >= 1 /\ Len(cx) = st[Len(st)].at /\ Len(st) \in 1..Len(st)
<1> SUFFICES ASSUME NEW st \in Seq(FrameRecord), NEW cx \in Seq(BOOLEAN), Chained(st, cx)
             PROVE  /\ Len(st) \in Nat /\ Len(cx) \in Nat /\ Len(cx) >= 1
                    /\ \A i \in 1..Len(st) : st[i] \in FrameRecord /\ st[i].at \in 1..Len(cx)
                    /\ st = <<>> => Len(st) = 0 /\ Len(cx) = 1
                    /\ st # <<>> => Len(st) >= 1 /\ Len(cx) = st[Len(st)].at /\ Len(st) \in 1..Len(st)
  OBVIOUS
<1>1. Len(st) \in Nat /\ Len(cx) \in Nat /\ \A i \in 1..Len(st) : st[i] \in FrameRecord
  OBVIOUS
<1>2. st = <<>> => Len(st) = 0 /\ Len(cx) = 1
  BY DEF Chained
<1>3. st # <<>> => Len(st) >= 1 /\ Len(cx) = st[Len(st)].at /\ Len(st) \in 1..Len(st)
  BY DEF Chained
<1>4. ASSUME NEW i \in 1..Len(st) PROVE st[i].at \in 1..Len(cx)
  <2>1. st[i].at \in Nat /\ st[Len(st)].at \in Nat /\ st # <<>>
    BY <1>1 DEF FrameRecord
  <2>2. Linked(st, cx, i) /\ Ordered(st)
    BY DEF Chained
  <2>3. st[i].at >= 1
    BY <2>2 DEF Linked, WellFormed
  <2>4. i = Len(st) \/ st[i].at <= st[Len(st)].at
    BY <1>1, <2>2 DEF Ordered
  <2> QED
    BY <1>3, <2>1, <2>3, <2>4
<1>5. Len(cx) >= 1
  <2>1. CASE st = <<>>
    BY <1>2, <2>1
  <2>2. CASE st # <<>>
    <3>1. Len(st) \in 1..Len(st)
      BY <1>3, <2>2
    <3>2. st[Len(st)].at \in 1..Len(cx)
      BY <1>4, <3>1
    <3> QED
      BY <1>1, <3>2
  <2> QED
    BY <2>1, <2>2
<1> QED
  BY <1>1, <1>2, <1>3, <1>4, <1>5

\* A call begins in a context of its own, without an error, or in the one that is there.
LEMMA CallBegins ==
  \A st \in Seq(FrameRecord), cx \in Seq(BOOLEAN), f \in FrameRecord, x \in Seq(BOOLEAN) :
    /\ Chained(st, cx) /\ (st # <<>> => st[Len(st)].phase = "running")
    /\ f.said = "nothing" /\ f.phase = "finding"
    /\ \/ f.at = Len(cx) + 1 /\ f.own = TRUE /\ f.before = FALSE /\ x = Append(cx, FALSE)
       \/ f.at = Len(cx) /\ f.own = FALSE /\ f.before = cx[Len(cx)] /\ x = cx
    => Chained(Append(st, f), x)
<1> SUFFICES ASSUME NEW st \in Seq(FrameRecord), NEW cx \in Seq(BOOLEAN), NEW f \in FrameRecord, NEW x \in Seq(BOOLEAN),
                    Chained(st, cx), st # <<>> => st[Len(st)].phase = "running", f.said = "nothing", f.phase = "finding",
                    \/ f.at = Len(cx) + 1 /\ f.own = TRUE /\ f.before = FALSE /\ x = Append(cx, FALSE)
                    \/ f.at = Len(cx) /\ f.own = FALSE /\ f.before = cx[Len(cx)] /\ x = cx
             PROVE  Chained(Append(st, f), x)
  OBVIOUS
<1> DEFINE s == Append(st, f)
<1>1. Len(s) = Len(st) + 1 /\ s # <<>> /\ \A i \in 1..Len(s) : s[i] = IF i = Len(s) THEN f ELSE st[i]
  <2>1. Len(s) = Len(st) + 1 /\ s # <<>>
    OBVIOUS
  <2>2. \A i \in 1..Len(s) : s[i] = IF i = Len(s) THEN f ELSE st[i]
    OBVIOUS
  <2> QED
    BY <2>1, <2>2
<1>2. /\ Len(st) \in Nat /\ Len(cx) \in Nat /\ Len(cx) >= 1
      /\ \A i \in 1..Len(st) : st[i] \in FrameRecord /\ st[i].at \in 1..Len(cx)
      /\ st = <<>> => Len(st) = 0 /\ Len(cx) = 1
      /\ st # <<>> => Len(st) >= 1 /\ Len(cx) = st[Len(st)].at /\ Len(st) \in 1..Len(st)
  BY ContextsThere
<1>3. /\ Len(x) = f.at /\ \A i \in 1..Len(cx) : x[i] = cx[i]
      /\ x[f.at] = f.before /\ f.before \in BOOLEAN /\ f.own \in BOOLEAN
      /\ f.at \in Nat /\ Len(cx) <= f.at /\ (f.own = TRUE <=> Len(cx) < f.at)
      /\ f.own = TRUE => f.before = FALSE
      /\ f.own = FALSE => f.before = cx[Len(cx)]
  <2>1. f.before \in BOOLEAN /\ f.own \in BOOLEAN
    BY DEF FrameRecord
  <2>2. CASE x = Append(cx, FALSE) /\ f.at = Len(cx) + 1 /\ f.before = FALSE /\ f.own = TRUE
    <3>1. Len(x) = f.at /\ \A i \in 1..Len(cx) : x[i] = cx[i]
      BY <1>2, <2>2
    <3>2. x[f.at] = FALSE
      BY <1>2, <2>2
    <3>3. x[f.at] = f.before
      BY <2>2, <3>2
    <3>4. f.at \in Nat /\ Len(cx) <= f.at /\ Len(cx) < f.at
      BY <1>2, <2>2
    <3> QED
      BY <2>1, <2>2, <3>1, <3>3, <3>4
  <2>3. CASE x = cx /\ f.at = Len(cx) /\ f.before = cx[Len(cx)] /\ f.own = FALSE
    BY <1>2, <2>1, <2>3
  <2> QED
    BY <2>2, <2>3
<1> HIDE DEF s
<1>4. Ordered(s)
  <2> SUFFICES ASSUME NEW i \in 1..Len(s), NEW j \in 1..Len(s), i < j
               PROVE  s[i].at <= s[j].at /\ (s[j].own => s[i].at < s[j].at)
    BY DEF Ordered
  <2>1. i \in 1..Len(st) /\ s[i] = st[i]
    BY <1>1, <1>2
  <2>2. CASE j = Len(s)
    BY <1>1, <1>2, <1>3, <2>1, <2>2
  <2>3. CASE j < Len(s)
    <3>1. j \in 1..Len(st) /\ s[j] = st[j]
      BY <1>1, <1>2, <2>3
    <3> QED
      BY <2>1, <3>1 DEF Chained, Ordered
  <2>4. j = Len(s) \/ j < Len(s)
    <3>1. Len(s) \in Nat
      BY <1>1, <1>2
    <3> QED
      BY <3>1
  <2> QED
    BY <2>2, <2>3, <2>4
<1>5. ASSUME NEW i \in 1..Len(s) PROVE Linked(s, x, i)
  <2>1. CASE i = Len(s)
    <3>1. s[i] = f /\ (i = 1 <=> st = <<>>) /\ (i # 1 => s[i - 1] = st[Len(st)])
      BY <1>1, <1>2, <2>1
    <3>2. (ErrorOf(f) <=> f.before = TRUE) /\ f.at \in Nat /\ f.at >= 1
      BY <1>2, <1>3 DEF ErrorOf
    <3>3. WellFormed(s[i])
      BY <3>1, <3>2 DEF WellFormed
    <3>4. x[s[i].at] = TRUE <=> ErrorOf(s[i])
      BY <1>3, <3>1, <3>2
    <3>5. s[i].at = (IF i = 1 THEN 1 ELSE s[i - 1].at) + (IF s[i].own THEN 1 ELSE 0)
      <4>1. (IF i = 1 THEN 1 ELSE s[i - 1].at) = Len(cx)
        BY <1>2, <3>1
      <4>2. f.at = Len(cx) + (IF f.own THEN 1 ELSE 0)
        <5>1. CASE f.own = TRUE /\ f.at = Len(cx) + 1
          BY <5>1
        <5>2. CASE f.own = FALSE /\ f.at = Len(cx)
          BY <1>2, <5>2
        <5> QED
          BY <5>1, <5>2
      <4> QED
        BY <3>1, <4>1, <4>2
    <3> QED
      BY <1>1, <1>2, <1>3, <2>1, <3>1, <3>3, <3>4, <3>5 DEF Linked
  <2>2. CASE i < Len(s)
    <3>1. i \in 1..Len(st) /\ s[i] = st[i] /\ (i > 1 => s[i - 1] = st[i - 1]) /\ x[st[i].at] = cx[st[i].at]
      <4>1. i \in 1..Len(st) /\ i \in 1..Len(s) /\ (i > 1 => i - 1 \in 1..Len(s) /\ i - 1 # Len(s))
        BY <1>1, <1>2, <2>2
      <4>2. s[i] = st[i] /\ (i > 1 => s[i - 1] = st[i - 1])
        BY <1>1, <2>2, <4>1
      <4>3. st[i].at \in 1..Len(cx)
        BY <1>2, <4>1
      <4> QED
        BY <1>3, <4>1, <4>2, <4>3
    <3>2. Linked(st, cx, i)
      BY <3>1 DEF Chained
    <3>3. CASE i = Len(st)
      <4>1. s[i + 1] = f /\ cx[Len(cx)] = cx[st[i].at]
        BY <1>1, <1>2, <3>3
      <4>2. cx[st[i].at] = TRUE <=> ErrorOf(st[i])
        BY <3>2, <3>3 DEF Linked
      <4>3. f.before = TRUE <=> ~f.own /\ ErrorOf(st[i])
        BY <4>1, <4>2
      <4>4. st[i].phase = "running"
        BY <1>2, <3>1, <3>3
      <4>5. i < Len(s) /\ i # Len(s)
        BY <1>1, <1>2, <2>2
      <4>6. s[i].at = (IF i = 1 THEN 1 ELSE s[i - 1].at) + (IF s[i].own THEN 1 ELSE 0)
        BY <3>1, <3>2 DEF Linked
      <4>7. WellFormed(s[i]) /\ (i = 1 /\ s[i].own => s[i].before = FALSE)
        BY <3>1, <3>2 DEF Linked
      <4> QED
        BY <3>1, <4>1, <4>2, <4>3, <4>4, <4>5, <4>6, <4>7 DEF Linked
    <3>4. CASE i < Len(st)
      <4>1. s[i + 1] = st[i + 1]
        BY <1>1, <1>2, <3>4
      <4> QED
        BY <1>1, <1>2, <2>2, <3>1, <3>2, <3>4, <4>1 DEF Linked
    <3> QED
      BY <1>2, <3>1, <3>3, <3>4
  <2> QED
    BY <1>1, <1>2, <2>1, <2>2
<1> QED
  BY <1>1, <1>3, <1>4, <1>5 DEF Chained, s

\* The innermost call has become f, in the stack and in its context.
Changed(st, cx, f, s, x) ==
  /\ st # <<>> /\ WellFormed(f)
  /\ f.at = st[Len(st)].at /\ f.own = st[Len(st)].own /\ f.before = st[Len(st)].before
  /\ Len(s) = Len(st) /\ \A i \in 1..Len(st) : s[i] = IF i = Len(st) THEN f ELSE st[i]
  /\ Len(x) = Len(cx) /\ \A i \in 1..Len(cx) : i # f.at => x[i] = cx[i]
  /\ x[f.at] = TRUE <=> ErrorOf(f)

\* The innermost call is over, and with it its context, if it had one of its own; if not
\* the one outside it has said what it said.
Over(st, cx, s, x) ==
  /\ st # <<>> /\ Len(s) = Len(st) - 1
  /\ \A i \in 1..Len(s) : i # Len(s) \/ st[Len(st)].own => s[i] = st[i]
  /\ st[Len(st)].own => Len(x) = Len(cx) - 1 /\ \A i \in 1..Len(x) : x[i] = cx[i]
  /\ ~st[Len(st)].own =>
       /\ x = cx
       /\ s # <<>> =>
            /\ s[Len(s)].at = st[Len(s)].at /\ s[Len(s)].own = st[Len(s)].own /\ s[Len(s)].before = st[Len(s)].before
            /\ s[Len(s)].phase = st[Len(s)].phase /\ s[Len(s)].handler = st[Len(s)].handler
            /\ s[Len(s)].said = IF st[Len(st)].said = "nothing" THEN st[Len(s)].said ELSE st[Len(st)].said

LEMMA CallChanges ==
  \A st \in Seq(FrameRecord), cx \in Seq(BOOLEAN), f \in FrameRecord, s \in Seq(FrameRecord), x \in Seq(BOOLEAN) :
    Chained(st, cx) /\ Changed(st, cx, f, s, x) => Chained(s, x)
<1> SUFFICES ASSUME NEW st \in Seq(FrameRecord), NEW cx \in Seq(BOOLEAN), NEW f \in FrameRecord,
                    NEW s \in Seq(FrameRecord), NEW x \in Seq(BOOLEAN), Chained(st, cx), Changed(st, cx, f, s, x)
             PROVE  Chained(s, x)
  OBVIOUS
<1> SUFFICES ASSUME st # <<>>, WellFormed(f),
                    f.at = st[Len(st)].at, f.own = st[Len(st)].own, f.before = st[Len(st)].before, Len(s) = Len(st),
                    \A i \in 1..Len(st) : s[i] = IF i = Len(st) THEN f ELSE st[i], Len(x) = Len(cx),
                    \A i \in 1..Len(cx) : i # f.at => x[i] = cx[i], x[f.at] = TRUE <=> ErrorOf(f)
             PROVE  Chained(s, x)
  BY DEF Changed
<1>1. /\ Len(st) \in Nat /\ Len(cx) \in Nat /\ Len(cx) >= 1
      /\ \A i \in 1..Len(st) : st[i] \in FrameRecord /\ st[i].at \in 1..Len(cx)
      /\ Len(st) >= 1 /\ Len(cx) = st[Len(st)].at /\ Len(st) \in 1..Len(st)
  BY ContextsThere
<1>2. s[Len(s)] = f /\ s # <<>>
  BY <1>1
<1>3. \A i \in 1..Len(st) : s[i].at = st[i].at /\ s[i].own = st[i].own /\ s[i].before = st[i].before
  OBVIOUS
<1>4. Ordered(s)
  <2>1. Ordered(st)
    BY DEF Chained
  <2> QED
    BY <1>3, <2>1 DEF Ordered
<1>5. ASSUME NEW i \in 1..Len(s) PROVE Linked(s, x, i)
  <2>1. Linked(st, cx, i) /\ i \in 1..Len(st)
    BY DEF Chained
  <2>2. s[i].at = (IF i = 1 THEN 1 ELSE s[i - 1].at) + (IF s[i].own THEN 1 ELSE 0)
    <3>1. i # 1 => i - 1 \in 1..Len(st)
      BY <1>1
    <3>2. st[i].at = (IF i = 1 THEN 1 ELSE st[i - 1].at) + (IF st[i].own THEN 1 ELSE 0)
      BY <2>1 DEF Linked
    <3> QED
      BY <1>3, <2>1, <3>1, <3>2
  <2>3. i = 1 /\ s[i].own => s[i].before = FALSE
    BY <1>3, <2>1 DEF Linked
  <2>4. CASE i = Len(st)
    BY <1>1, <1>2, <2>2, <2>3, <2>4 DEF Linked
  <2>5. CASE i < Len(st)
    <3>1. s[i] = st[i] /\ i + 1 \in 1..Len(st) /\ i # Len(s)
      BY <1>1, <2>1, <2>5
    <3>2. s[i + 1].own = st[i + 1].own /\ s[i + 1].before = st[i + 1].before
      BY <1>3, <3>1
    <3>3. st[i + 1].own => x[st[i].at] = cx[st[i].at]
      <4> SUFFICES ASSUME st[i + 1].own PROVE x[st[i].at] = cx[st[i].at]
        OBVIOUS
      <4>1. st[i].at < st[i + 1].at /\ st[i + 1].at <= Len(cx)
        BY <1>1, <2>1, <2>5, <3>1 DEF Chained, Ordered
      <4>2. st[i].at \in 1..Len(cx) /\ st[i].at # f.at
        BY <1>1, <2>1, <3>1, <4>1
      <4> QED
        BY <4>2
    <3>4. WellFormed(s[i]) /\ s[i].phase = "running"
      BY <2>1, <2>5, <3>1 DEF Linked
    <3>5. st[i + 1].own => (x[st[i].at] = TRUE <=> ErrorOf(st[i]))
      BY <2>1, <3>3 DEF Linked
    <3>6. s[i + 1].before = TRUE <=> ~s[i + 1].own /\ ErrorOf(s[i])
      BY <2>1, <2>5, <3>1, <3>2 DEF Linked
    <3> QED
      BY <2>2, <2>3, <2>5, <3>1, <3>2, <3>4, <3>5, <3>6 DEF Linked
  <2> QED
    BY <1>1, <2>1, <2>4, <2>5
<1> QED
  BY <1>1, <1>2, <1>3, <1>4, <1>5 DEF Chained

LEMMA CallEnds ==
  \A st \in Seq(FrameRecord), cx \in Seq(BOOLEAN), s \in Seq(FrameRecord), x \in Seq(BOOLEAN) :
    Chained(st, cx) /\ Over(st, cx, s, x) => Chained(s, x)
<1> SUFFICES ASSUME NEW st \in Seq(FrameRecord), NEW cx \in Seq(BOOLEAN), NEW s \in Seq(FrameRecord),
                    NEW x \in Seq(BOOLEAN), Chained(st, cx), Over(st, cx, s, x)
             PROVE  Chained(s, x)
  OBVIOUS
<1> SUFFICES ASSUME st # <<>>, Len(s) = Len(st) - 1,
      \A i \in 1..Len(s) : i # Len(s) \/ st[Len(st)].own => s[i] = st[i],
      st[Len(st)].own => Len(x) = Len(cx) - 1 /\ \A i \in 1..Len(x) : x[i] = cx[i],
      ~st[Len(st)].own =>
         /\ x = cx
         /\ s # <<>> =>
              /\ s[Len(s)].at = st[Len(s)].at /\ s[Len(s)].own = st[Len(s)].own /\ s[Len(s)].before = st[Len(s)].before
              /\ s[Len(s)].phase = st[Len(s)].phase /\ s[Len(s)].handler = st[Len(s)].handler
              /\ s[Len(s)].said = IF st[Len(st)].said = "nothing" THEN st[Len(s)].said ELSE st[Len(st)].said
    PROVE  Chained(s, x)
  BY DEF Over
<1> DEFINE f == st[Len(st)]
<1>1. /\ Len(st) \in Nat /\ Len(cx) \in Nat /\ Len(cx) >= 1
      /\ \A i \in 1..Len(st) : st[i] \in FrameRecord /\ st[i].at \in 1..Len(cx)
      /\ Len(st) >= 1 /\ Len(cx) = f.at /\ Len(st) \in 1..Len(st)
  BY ContextsThere
<1>2. Len(s) \in Nat /\ (s = <<>> <=> Len(s) = 0) /\ (s # <<>> => Len(s) \in 1..Len(st) /\ Len(s) < Len(st))
  BY <1>1
<1>3. \A i \in 1..Len(s) : /\ s[i].at = st[i].at /\ s[i].own = st[i].own /\ s[i].before = st[i].before
                           /\ s[i].phase = st[i].phase /\ s[i].handler = st[i].handler /\ i \in 1..Len(st)
                           /\ i # Len(s) => s[i] = st[i]
  BY <1>1, <1>2
<1>4. Linked(st, cx, Len(st)) /\ Ordered(st)
  BY <1>1 DEF Chained
<1>5. Ordered(s)
  BY <1>1, <1>3, <1>4 DEF Ordered
<1>6. Len(x) = IF s = <<>> THEN 1 ELSE s[Len(s)].at
  <2>1. f.at = (IF Len(st) = 1 THEN 1 ELSE st[Len(st) - 1].at) + (IF f.own THEN 1 ELSE 0)
    BY <1>4 DEF Linked
  <2>2. Len(x) = Len(cx) - (IF f.own THEN 1 ELSE 0)
    BY <1>1
  <2>3. s # <<>> => s[Len(s)].at = st[Len(st) - 1].at /\ st[Len(st) - 1].at \in Nat
    BY <1>1, <1>2, <1>3
  <2>4. CASE s = <<>>
    BY <1>1, <1>2, <2>1, <2>2, <2>4
  <2>5. CASE s # <<>>
    <3>1. Len(st) # 1 /\ f.at \in Nat
      BY <1>1, <1>2, <2>5
    <3>2. Len(x) = st[Len(st) - 1].at
      <4>1. CASE f.own
        BY <1>1, <2>1, <2>2, <2>3, <2>5, <3>1, <4>1
      <4>2. CASE ~f.own
        BY <1>1, <2>1, <2>2, <2>3, <2>5, <3>1, <4>2
      <4> QED
        BY <4>1, <4>2
    <3> QED
      BY <2>3, <2>5, <3>2
  <2> QED
    BY <2>4, <2>5
<1>7. ASSUME NEW i \in 1..Len(s) PROVE Linked(s, x, i)
  <2>1. Linked(st, cx, i) /\ i \in 1..Len(st)
    BY <1>3 DEF Chained
  <2>2. s[i].at = (IF i = 1 THEN 1 ELSE s[i - 1].at) + (IF s[i].own THEN 1 ELSE 0)
    <3>1. i # 1 => i - 1 \in 1..Len(s)
      BY <1>1, <1>2
    <3>2. st[i].at = (IF i = 1 THEN 1 ELSE st[i - 1].at) + (IF st[i].own THEN 1 ELSE 0)
      BY <2>1 DEF Linked
    <3> QED
      BY <1>3, <3>1, <3>2
  <2>3. i = 1 /\ s[i].own => s[i].before = FALSE
    BY <1>3, <2>1 DEF Linked
  <2>4. i < Len(st) /\ s[i].phase = "running"
    BY <1>1, <1>2, <1>3, <2>1 DEF Linked
  <2>5. WellFormed(s[i])
    BY <1>3, <2>1, <2>4 DEF Linked, WellFormed
  <2>6. CASE i < Len(s)
    <3>1. s[i] = st[i] /\ i + 1 \in 1..Len(s) /\ i # Len(s) /\ i # Len(st)
      BY <1>1, <1>2, <1>3, <2>6
    <3>2. s[i + 1].own = st[i + 1].own /\ s[i + 1].before = st[i + 1].before
      BY <1>3, <3>1
    <3>3. st[i + 1].own => x[st[i].at] = cx[st[i].at]
      <4> SUFFICES ASSUME st[i + 1].own PROVE x[st[i].at] = cx[st[i].at]
        OBVIOUS
      <4>1. i + 1 \in 1..Len(st) /\ i + 1 < Len(st)
        BY <1>1, <1>2, <2>6
      <4>2. st[i].at < st[i + 1].at /\ st[i + 1].at <= f.at
        BY <1>1, <1>4, <2>1, <4>1 DEF Ordered
      <4>3. st[i].at \in 1..(Len(cx) - 1)
        BY <1>1, <2>1, <4>1, <4>2
      <4> QED
        BY <1>1, <4>3
    <3>4. st[i + 1].own => (cx[st[i].at] = TRUE <=> ErrorOf(st[i]))
      BY <2>1 DEF Linked
    <3>5. s[i + 1].before = TRUE <=> ~s[i + 1].own /\ ErrorOf(s[i])
      BY <2>1, <2>4, <3>1, <3>2 DEF Linked
    <3> QED
      BY <2>2, <2>3, <2>4, <2>5, <3>1, <3>2, <3>3, <3>4, <3>5 DEF Linked
  <2>7. CASE i = Len(s)
    <3>1. i + 1 = Len(st)
      BY <1>1, <2>7
    <3>2. CASE f.own
      <4>1. s[i] = st[i] /\ (cx[st[i].at] = TRUE <=> ErrorOf(st[i]))
        BY <2>1, <2>7, <3>1, <3>2 DEF Linked
      <4>2. st[i].at \in 1..Len(x) /\ x[st[i].at] = cx[st[i].at]
        <5>1. st[i].at < f.at
          BY <1>1, <1>4, <2>1, <2>4, <3>2 DEF Ordered
        <5>2. st[i].at \in 1..Len(x)
          BY <1>1, <2>1, <3>2, <5>1
        <5> QED
          BY <3>2, <5>2
      <4> QED
        <5>1. i = Len(s) /\ ~(i < Len(s))
          BY <1>2, <2>7
        <5>2. x[s[i].at] = TRUE <=> ErrorOf(s[i])
          BY <4>1, <4>2
        <5> QED
          BY <2>2, <2>3, <2>5, <5>1, <5>2 DEF Linked
    <3>3. CASE ~f.own
      <4>1. x = cx /\ s # <<>> /\ s[i].said = IF f.said = "nothing" THEN st[i].said ELSE f.said
        BY <1>2, <2>7, <3>3
      <4>2. f.before = TRUE <=> ErrorOf(st[i])
        BY <2>1, <2>4, <3>1, <3>3 DEF Linked
      <4>3. cx[f.at] = TRUE <=> ErrorOf(f)
        BY <1>4 DEF Linked
      <4>4. f.before \in BOOLEAN /\ st[i].before \in BOOLEAN /\ s[i].before = st[i].before
        BY <1>1, <1>3, <2>1 DEF FrameRecord
      <4>5. ErrorOf(s[i]) <=> ErrorOf(f)
        BY <4>1, <4>2, <4>4 DEF ErrorOf
      <4>6. s[i].at = f.at
        <5>1. f.at = (IF Len(st) = 1 THEN 1 ELSE st[Len(st) - 1].at) + (IF f.own THEN 1 ELSE 0)
          BY <1>4 DEF Linked
        <5>2. Len(st) # 1 /\ Len(st) - 1 = i /\ st[i].at \in Nat
          BY <1>1, <1>2, <2>1, <2>7
        <5> QED
          BY <1>3, <3>3, <5>1, <5>2
      <4> QED
        BY <2>2, <2>3, <2>4, <2>5, <2>7, <4>1, <4>3, <4>5, <4>6 DEF Linked
    <3> QED
      BY <3>2, <3>3
  <2> QED
    BY <1>2, <2>6, <2>7
<1> QED
  BY <1>5, <1>6, <1>7 DEF Chained

LEMMA FirstCalls ==
  \A st \in Seq(FrameRecord), m \in Nat :
    m <= Len(st) => /\ SubSeq(st, 1, m) \in Seq(FrameRecord) /\ Len(SubSeq(st, 1, m)) = m
                    /\ \A i \in 1..m : SubSeq(st, 1, m)[i] = st[i]
OBVIOUS

\* The stack without its innermost call, which ends as f.
Left(st, f) ==
  IF Len(st) > 1 /\ ~f.own
  THEN SubSeq(st, 1, Len(st) - 2)
         \o <<Hub!Spoken(st[Len(st) - 1], f.said)>>
  ELSE SubSeq(st, 1, Len(st) - 1)

LEMMA LeftIs ==
  \A st \in Seq(FrameRecord), f \in FrameRecord :
    st # <<>> => /\ Left(st, f) \in Seq(FrameRecord) /\ Len(Left(st, f)) = Len(st) - 1
                 /\ \A i \in 1..(Len(st) - 1) : i # Len(st) - 1 \/ f.own => Left(st, f)[i] = st[i]
                 /\ Len(st) > 1 /\ ~f.own =>
                      Left(st, f)[Len(st) - 1] =
                        Hub!Spoken(st[Len(st) - 1], f.said)
<1> SUFFICES ASSUME NEW st \in Seq(FrameRecord), NEW f \in FrameRecord, st # <<>>
             PROVE  /\ Left(st, f) \in Seq(FrameRecord) /\ Len(Left(st, f)) = Len(st) - 1
                    /\ \A i \in 1..(Len(st) - 1) : i # Len(st) - 1 \/ f.own => Left(st, f)[i] = st[i]
                    /\ Len(st) > 1 /\ ~f.own =>
                         Left(st, f)[Len(st) - 1] =
                           Hub!Spoken(st[Len(st) - 1], f.said)
  OBVIOUS
<1>1. Len(st) \in Nat /\ Len(st) >= 1
  OBVIOUS
<1>2. CASE Len(st) > 1 /\ ~f.own
  <2> DEFINE r == Hub!Spoken(st[Len(st) - 1], f.said)
             q == SubSeq(st, 1, Len(st) - 2)
  <2>1. r \in FrameRecord
    <3>1. st[Len(st) - 1] \in FrameRecord
      BY <1>1, <1>2
    <3> QED
      BY <3>1 DEF FrameRecord, Hub!Spoken
  <2>2. q \in Seq(FrameRecord) /\ Len(q) = Len(st) - 2 /\ \A i \in 1..(Len(st) - 2) : q[i] = st[i]
    <3>1. Len(st) - 2 \in Nat /\ Len(st) - 2 <= Len(st)
      BY <1>1, <1>2
    <3> QED
      BY <3>1, FirstCalls
  <2>3. Left(st, f) = q \o <<r>>
    BY <1>2 DEF Left
  <2> HIDE DEF r, q
  <2>4. /\ q \o <<r>> \in Seq(FrameRecord) /\ Len(q \o <<r>>) = Len(st) - 1
        /\ \A i \in 1..(Len(st) - 2) : (q \o <<r>>)[i] = st[i]
        /\ (q \o <<r>>)[Len(st) - 1] = r
    BY <1>1, <1>2, <2>1, <2>2
  <2>5. \A i \in 1..(Len(st) - 1) : i # Len(st) - 1 => i \in 1..(Len(st) - 2)
    BY <1>1
  <2>6. r = Hub!Spoken(st[Len(st) - 1], f.said)
    BY DEF r
  <2> QED
    BY <1>2, <2>3, <2>4, <2>5, <2>6
<1>3. CASE ~(Len(st) > 1 /\ ~f.own)
  <2> DEFINE q == SubSeq(st, 1, Len(st) - 1)
  <2>1. Len(st) - 1 \in Nat /\ Len(st) - 1 <= Len(st)
    BY <1>1
  <2>2. q \in Seq(FrameRecord) /\ Len(q) = Len(st) - 1 /\ \A i \in 1..(Len(st) - 1) : q[i] = st[i]
    BY <2>1, FirstCalls
  <2>3. Left(st, f) = q
    BY <1>3 DEF Left
  <2> HIDE DEF q
  <2> QED
    BY <1>3, <2>2, <2>3
<1> QED
  BY <1>2, <1>3

\* One thread goes on.
LEMMA CallerGoesOn ==
  \A c \in Callers, s \in Seq(FrameRecord), x \in Seq(BOOLEAN) :
    /\ HubInv /\ Chained(s, x)
    /\ stack' = [stack EXCEPT ![c] = s] /\ contexts' = [contexts EXCEPT ![c] = x]
    /\ s_lock' = None /\ honest' = TRUE /\ UNCHANGED entries
    => HubInv'
<1> SUFFICES ASSUME NEW c \in Callers, NEW s \in Seq(FrameRecord), NEW x \in Seq(BOOLEAN), HubInv, Chained(s, x),
                    stack' = [stack EXCEPT ![c] = s], contexts' = [contexts EXCEPT ![c] = x],
                    s_lock' = None, honest' = TRUE, UNCHANGED entries
             PROVE  HubInv'
  OBVIOUS
<1>1. stack' \in [Callers -> Seq(FrameRecord)] /\ contexts' \in [Callers -> Seq(BOOLEAN)]
  BY DEF HubInv
<1>2. \A d \in Callers : /\ stack'[d] = IF d = c THEN s ELSE stack[d]
                         /\ contexts'[d] = IF d = c THEN x ELSE contexts[d]
  BY DEF HubInv
<1>3. \A d \in Callers : Chained(stack'[d], contexts'[d])
  BY <1>2 DEF HubInv
<1> QED
  BY <1>1, <1>3 DEF HubInv

\* A handler has been found, is called, or says something.
LEMMA HandlerGoesOn ==
  ASSUME HubInv, NEW c \in Callers, Hub!Find(c) \/ Hub!Call(c) \/ Hub!Result(c) \/ Hub!Error(c)
  PROVE  HubInv'
<1> DEFINE st == stack[c]
           cx == contexts[c]
           o == st[Len(st)]
<1>1. /\ st \in Seq(FrameRecord) /\ cx \in Seq(BOOLEAN) /\ Chained(st, cx) /\ st # <<>>
      /\ s_lock = None /\ honest = TRUE
  BY DEF HubInv, Hub!Find, Hub!Call, Hub!Result, Hub!Error, Hub!Running
<1>2. /\ Len(st) \in Nat /\ Len(st) >= 1 /\ Len(cx) = o.at /\ Len(cx) \in Nat /\ Len(cx) >= 1
      /\ o \in FrameRecord /\ Len(st) \in 1..Len(st) /\ Hub!Last(st) = o
  BY <1>1, ContextsThere DEF Hub!Last
<1>3. Linked(st, cx, Len(st))
  BY <1>1, <1>2 DEF Chained
<1>4. WellFormed(o) /\ (cx[o.at] = TRUE <=> ErrorOf(o))
  BY <1>3 DEF Linked
<1>5. ASSUME NEW f \in FrameRecord, NEW x \in Seq(BOOLEAN), WellFormed(f), f.at = o.at, f.own = o.own, f.before = o.before,
             stack' = [stack EXCEPT ![c] = Hub!Front(@) \o <<f>>], contexts' = [contexts EXCEPT ![c] = x],
             Len(x) = Len(cx), \A i \in 1..Len(cx) : i # f.at => x[i] = cx[i], x[f.at] = TRUE <=> ErrorOf(f),
             UNCHANGED <<s_lock, entries, honest>>
      PROVE  HubInv'
  <2> DEFINE q == SubSeq(st, 1, Len(st) - 1)
             s == q \o <<f>>
  <2>1. q \in Seq(FrameRecord) /\ Len(q) = Len(st) - 1 /\ \A i \in 1..(Len(st) - 1) : q[i] = st[i]
    BY <1>1, <1>2
  <2>2. Hub!Front(st) = q
    BY DEF Hub!Front
  <2> HIDE DEF q
  <2>3. s \in Seq(FrameRecord) /\ Len(s) = Len(st) /\ \A i \in 1..Len(st) : s[i] = IF i = Len(st) THEN f ELSE st[i]
    BY <1>1, <1>2, <1>5, <2>1
  <2>4. stack' = [stack EXCEPT ![c] = s]
    BY <1>5, <2>2
  <2> HIDE DEF s
  <2>5. Changed(st, cx, f, s, x)
    BY <1>1, <1>2, <1>5, <2>3 DEF Changed
  <2>6. Chained(s, x)
    BY <1>1, <1>5, <2>3, <2>5, CallChanges
  <2> QED
    BY <1>1, <1>5, <2>3, <2>4, <2>6, CallerGoesOn
<1>6. \A f : stack' = [stack EXCEPT ![c] = Hub!Front(@) \o <<f>>] <=> Hub!Top(c, f)
  BY DEF Hub!Top
<1>7. CASE Hub!Find(c)
  <2> DEFINE f == [o EXCEPT !.phase = "found", !.handler = entries[o.name]]
  <2>1. o.phase = "finding" /\ Hub!Top(c, f) /\ UNCHANGED <<s_lock, entries, contexts, honest>>
    BY <1>2, <1>7 DEF Hub!Find
  <2>2. f \in FrameRecord
    <3>1. o.name \in FnNames /\ entries[o.name] \in Handlers \cup {None}
      BY <1>2 DEF FrameRecord, HubInv
    <3> QED
      BY <1>2, <3>1 DEF FrameRecord
  <2>3. f.phase = "found" /\ f.at = o.at /\ f.own = o.own /\ f.before = o.before /\ f.said = o.said
    BY <1>2 DEF FrameRecord
  <2> HIDE DEF f
  <2>4. WellFormed(f) /\ (cx[f.at] = TRUE <=> ErrorOf(f))
    BY <1>4, <2>1, <2>3 DEF WellFormed, ErrorOf
  <2>5. contexts' = [contexts EXCEPT ![c] = cx]
    BY <2>1 DEF HubInv
  <2> QED
    BY <1>1, <1>2, <1>5, <1>6, <2>1, <2>2, <2>3, <2>4, <2>5
<1>8. CASE Hub!Call(c)
  <2> DEFINE f == [o EXCEPT !.phase = "running"]
  <2>1. o.phase = "found" /\ o.handler # None /\ Hub!Top(c, f) /\ UNCHANGED <<s_lock, entries, contexts, honest>>
    BY <1>2, <1>8 DEF Hub!Call
  <2>2. f \in FrameRecord
    BY <1>2 DEF FrameRecord
  <2>3. f.phase = "running" /\ f.handler = o.handler /\ f.at = o.at /\ f.own = o.own /\ f.before = o.before /\ f.said = o.said
    BY <1>2 DEF FrameRecord
  <2> HIDE DEF f
  <2>4. WellFormed(f) /\ (cx[f.at] = TRUE <=> ErrorOf(f))
    BY <1>4, <2>1, <2>3 DEF WellFormed, ErrorOf
  <2>5. contexts' = [contexts EXCEPT ![c] = cx]
    BY <2>1 DEF HubInv
  <2> QED
    BY <1>1, <1>2, <1>5, <1>6, <2>1, <2>2, <2>3, <2>4, <2>5
<1>9. ASSUME NEW said \in {"result", "error"}, o.phase = "running", Hub!Top(c, [o EXCEPT !.said = said]),
             contexts' = [contexts EXCEPT ![c][o.at] = (said = "error")], UNCHANGED <<s_lock, entries, honest>>
      PROVE  HubInv'
  <2> DEFINE f == [o EXCEPT !.said = said]
             x == [cx EXCEPT ![o.at] = (said = "error")]
  <2>1. f \in FrameRecord
    BY <1>2 DEF FrameRecord
  <2>2. f.phase = "running" /\ f.handler = o.handler /\ f.at = o.at /\ f.own = o.own /\ f.before = o.before /\ f.said = said
    BY <1>2, <1>9 DEF FrameRecord
  <2>3. x \in Seq(BOOLEAN) /\ Len(x) = Len(cx)
    BY <1>1, <1>2
  <2>4. x[o.at] = (said = "error") /\ \A i \in 1..Len(cx) : i # o.at => x[i] = cx[i]
    BY <1>1, <1>2
  <2>5. contexts' = [contexts EXCEPT ![c] = x]
    BY <1>9 DEF HubInv
  <2>6. Hub!Top(c, f)
    BY <1>9
  <2> HIDE DEF f, x
  <2>7. WellFormed(f) /\ (x[f.at] = TRUE <=> ErrorOf(f))
    BY <1>4, <1>9, <2>2, <2>4 DEF WellFormed, ErrorOf
  <2> QED
    BY <1>5, <1>6, <1>9, <2>1, <2>2, <2>3, <2>4, <2>5, <2>6, <2>7
<1>10. CASE Hub!Result(c)
  <2>1. contexts' = [contexts EXCEPT ![c][o.at] = FALSE]
    BY <1>2, <1>10 DEF Hub!Result, Hub!Reports
  <2>2. contexts' = [contexts EXCEPT ![c][o.at] = ("result" = "error")]
    BY <2>1
  <2> QED
    BY <1>2, <1>9, <1>10, <2>2 DEF Hub!Result, Hub!Running
<1>11. CASE Hub!Error(c)
  <2>1. contexts' = [contexts EXCEPT ![c][o.at] = TRUE]
    BY <1>2, <1>11 DEF Hub!Error, Hub!Reports
  <2>2. contexts' = [contexts EXCEPT ![c][o.at] = ("error" = "error")]
    BY <2>1
  <2> QED
    BY <1>2, <1>9, <1>11, <2>2 DEF Hub!Error, Hub!Running
<1> QED
  BY <1>7, <1>8, <1>10, <1>11

\* A call begins.
LEMMA CallerCalls ==
  ASSUME HubInv, NEW c \in Callers, NEW n \in FnNames, Hub!Dispatch(c, n) \/ Hub!Invoke(c, n)
  PROVE  HubInv'
<1> DEFINE st == stack[c]
           cx == contexts[c]
<1>1. /\ st \in Seq(FrameRecord) /\ cx \in Seq(BOOLEAN) /\ Chained(st, cx)
      /\ s_lock = None /\ honest = TRUE
      /\ st # <<>> => st[Len(st)].phase = "running"
  BY DEF HubInv, Hub!Dispatch, Hub!Invoke, Hub!InUserCode, Hub!Last
<1>2. Len(st) \in Nat /\ Len(cx) \in Nat /\ Len(cx) >= 1
  BY <1>1, ContextsThere
<1>3. \A at \in Nat, own \in BOOLEAN, error \in BOOLEAN :
        LET f == Hub!Frame(n, at, own, error)
        IN  /\ f \in FrameRecord /\ f.at = at /\ f.own = own /\ f.before = error
            /\ f.said = "nothing" /\ f.phase = "finding"
  BY DEF Hub!Frame, FrameRecord
<1>4. CASE Hub!Dispatch(c, n)
  <2> DEFINE f == Hub!Frame(n, Len(cx) + 1, TRUE, FALSE)
  <2>1. /\ f \in FrameRecord /\ f.at = Len(cx) + 1 /\ f.own = TRUE /\ f.before = FALSE
        /\ f.said = "nothing" /\ f.phase = "finding"
    <3>1. Len(cx) + 1 \in Nat
      BY <1>2
    <3> HIDE DEF cx
    <3> QED
      BY <1>3, <3>1
  <2>2. /\ stack' = [stack EXCEPT ![c] = Append(st, f)] /\ contexts' = [contexts EXCEPT ![c] = Append(cx, FALSE)]
        /\ UNCHANGED <<s_lock, entries, honest>>
    BY <1>4 DEF Hub!Dispatch
  <2> HIDE DEF f
  <2>3. Append(st, f) \in Seq(FrameRecord) /\ Append(cx, FALSE) \in Seq(BOOLEAN)
    BY <1>1, <2>1
  <2>4. Chained(Append(st, f), Append(cx, FALSE))
    BY <1>1, <2>1, <2>3, CallBegins
  <2> QED
    BY <1>1, <2>2, <2>3, <2>4, CallerGoesOn
<1>5. CASE Hub!Invoke(c, n)
  <2> DEFINE f == Hub!Frame(n, Len(cx), FALSE, cx[Len(cx)])
  <2>1. cx[Len(cx)] \in BOOLEAN
    BY <1>1, <1>2
  <2>2. /\ f \in FrameRecord /\ f.at = Len(cx) /\ f.own = FALSE /\ f.before = cx[Len(cx)]
        /\ f.said = "nothing" /\ f.phase = "finding"
    BY <1>2, <1>3, <2>1
  <2>3. stack' = [stack EXCEPT ![c] = Append(st, f)] /\ UNCHANGED <<s_lock, entries, contexts, honest>>
    BY <1>5 DEF Hub!Invoke
  <2>4. contexts' = [contexts EXCEPT ![c] = cx]
    BY <2>3 DEF HubInv
  <2> HIDE DEF f
  <2>5. Append(st, f) \in Seq(FrameRecord)
    BY <1>1, <2>2
  <2>6. Chained(Append(st, f), cx)
    BY <1>1, <2>2, <2>5, CallBegins
  <2> QED
    BY <1>1, <2>3, <2>4, <2>5, <2>6, CallerGoesOn
<1> QED
  BY <1>4, <1>5

\* A call ends: what it answers is what it should.
LEMMA CallerAnswers ==
  ASSUME HubInv, NEW c \in Callers, Hub!NotFound(c) \/ Hub!Return(c)
  PROVE  HubInv'
<1> DEFINE st == stack[c]
           cx == contexts[c]
           o == st[Len(st)]
<1>1. /\ st \in Seq(FrameRecord) /\ cx \in Seq(BOOLEAN) /\ Chained(st, cx) /\ st # <<>>
      /\ s_lock = None /\ honest = TRUE
  BY DEF HubInv, Hub!NotFound, Hub!Return, Hub!Running
<1>2. /\ Len(st) \in Nat /\ Len(st) >= 1 /\ Len(cx) = o.at /\ Len(cx) \in Nat /\ Len(cx) >= 1
      /\ o \in FrameRecord /\ Len(st) \in 1..Len(st) /\ Hub!Last(st) = o
  BY <1>1, ContextsThere DEF Hub!Last
<1>3. Linked(st, cx, Len(st))
  BY <1>1, <1>2 DEF Chained
<1>4. WellFormed(o) /\ (cx[o.at] = TRUE <=> ErrorOf(o)) /\ o.own \in BOOLEAN /\ o.at \in Nat
  BY <1>2, <1>3 DEF Linked, FrameRecord
\* The call as it ends: said is its last word, and xs are the contexts.
<1>5. ASSUME NEW said \in {"nothing", "result", "error"}, NEW xs \in Seq(BOOLEAN), Hub!Answers(c, o, said, xs),
             Len(xs) = Len(cx), \A i \in 1..Len(cx) : i # o.at => xs[i] = cx[i],
             xs[o.at] = TRUE <=> said = "error" \/ (said = "nothing" /\ o.before),
             o.handler = None => said = "error"
      PROVE  HubInv'
  <2> DEFINE f == [o EXCEPT !.said = said]
             mid == [st EXCEPT ![Len(st)] = f]
             s == Left(st, f)
             x == IF o.own THEN SubSeq(xs, 1, Len(xs) - 1) ELSE xs
  <2>1. /\ f \in FrameRecord /\ f.at = o.at /\ f.own = o.own /\ f.before = o.before /\ f.said = said
        /\ f.phase = o.phase /\ f.handler = o.handler
    BY <1>2 DEF FrameRecord
  <2>2. stack' = [stack EXCEPT ![c] = s] /\ contexts' = [contexts EXCEPT ![c] = x] /\ UNCHANGED entries
    <3>1. contexts' = [contexts EXCEPT ![c] = x] /\ UNCHANGED entries
      BY <1>5 DEF Hub!Answers, Hub!Front
    <3>2. s = IF Len(st) > 1 /\ ~o.own
              THEN SubSeq(st, 1, Len(st) - 2) \o <<Hub!Spoken(st[Len(st) - 1], said)>>
              ELSE SubSeq(st, 1, Len(st) - 1)
      BY <2>1 DEF Left
    <3>3. stack' = [stack EXCEPT ![c] =
            IF Len(st) > 1 /\ ~o.own
            THEN SubSeq(st, 1, Len(st) - 2) \o <<Hub!Spoken(st[Len(st) - 1], said)>>
            ELSE SubSeq(st, 1, Len(st) - 1)]
      BY <1>5 DEF Hub!Answers, Hub!Front
    <3> HIDE DEF s
    <3> QED
      BY <3>1, <3>2, <3>3
  <2>3. s_lock' = None
    BY <1>1, <1>5 DEF Hub!Answers
  <2>4. honest' = TRUE
    <3>1. o.before \in BOOLEAN /\ xs[o.at] \in BOOLEAN
      BY <1>2, <1>5 DEF FrameRecord
    <3>2. (o.handler # None /\ ~xs[o.at]) <=> Hub!Succeeds(o, said)
      BY <1>5, <3>1 DEF Hub!Succeeds
    <3> QED
      BY <1>1, <1>5, <3>2 DEF Hub!Answers
  <2> HIDE DEF f
  <2>5. mid \in Seq(FrameRecord) /\ Len(mid) = Len(st) /\ \A i \in 1..Len(st) : mid[i] = IF i = Len(st) THEN f ELSE st[i]
    BY <1>1, <1>2, <2>1
  <2>6. /\ s \in Seq(FrameRecord) /\ Len(s) = Len(st) - 1
        /\ \A i \in 1..(Len(st) - 1) : i # Len(st) - 1 \/ f.own => s[i] = st[i]
        /\ Len(st) > 1 /\ ~f.own =>
             s[Len(st) - 1] = Hub!Spoken(st[Len(st) - 1], f.said)
    BY <1>1, <2>1, LeftIs
  <2>7. /\ x \in Seq(BOOLEAN)
        /\ o.own => Len(x) = Len(xs) - 1 /\ \A i \in 1..Len(x) : x[i] = xs[i]
        /\ ~o.own => x = xs
    <3>1. Len(xs) - 1 \in Nat /\ Len(xs) - 1 <= Len(xs)
      BY <1>2, <1>5
    <3>2. \A m \in Nat : m <= Len(xs) => /\ SubSeq(xs, 1, m) \in Seq(BOOLEAN) /\ Len(SubSeq(xs, 1, m)) = m
                                         /\ \A i \in 1..m : SubSeq(xs, 1, m)[i] = xs[i]
      OBVIOUS
    <3>3. CASE o.own
      BY <3>1, <3>2, <3>3
    <3>4. CASE ~o.own
      BY <3>4
    <3> QED
      BY <3>3, <3>4
  <2> HIDE DEF mid, s, x
  <2>8. Changed(st, cx, f, mid, xs)
    BY <1>1, <1>2, <1>4, <1>5, <2>1, <2>5 DEF Changed, WellFormed, ErrorOf
  <2>9. Chained(mid, xs)
    BY <1>1, <1>5, <2>1, <2>5, <2>8, CallChanges
  <2>10. Over(mid, xs, s, x)
    <3>1. mid # <<>> /\ Len(s) = Len(mid) - 1 /\ mid[Len(mid)] = f
      BY <1>2, <2>5, <2>6
    <3>2. \A i \in 1..Len(s) : mid[i] = st[i]
      <4>1. \A i \in 1..Len(s) : i \in 1..Len(st) /\ i # Len(st)
        BY <1>2, <2>6
      <4> QED
        BY <2>5, <4>1
    <3>3. \A i \in 1..Len(s) : i # Len(s) \/ f.own => s[i] = mid[i]
      BY <1>2, <2>1, <2>6, <3>2
    <3>4. ASSUME ~f.own, s # <<>>
          PROVE  /\ s[Len(s)].at = mid[Len(s)].at /\ s[Len(s)].own = mid[Len(s)].own
                 /\ s[Len(s)].before = mid[Len(s)].before
                 /\ s[Len(s)].phase = mid[Len(s)].phase /\ s[Len(s)].handler = mid[Len(s)].handler
                 /\ s[Len(s)].said = IF f.said = "nothing" THEN mid[Len(s)].said ELSE f.said
      <4> DEFINE p == st[Len(st) - 1]
                 word == IF f.said = "nothing" THEN p.said ELSE f.said
      <4>1. Len(s) \in 1..Len(s) /\ Len(s) = Len(st) - 1 /\ Len(st) > 1
        BY <1>2, <2>6, <3>4
      <4>2. p \in FrameRecord /\ mid[Len(s)] = p
        <5>1. Len(st) - 1 \in 1..Len(st)
          BY <1>2, <4>1
        <5>2. mid[Len(s)] = st[Len(s)]
          BY <3>2, <4>1
        <5> QED
          BY <1>1, <4>1, <5>1, <5>2
      <4>3. s[Len(s)] = [p EXCEPT !.said = word]
        BY <2>1, <2>6, <3>4, <4>1 DEF Hub!Spoken
      <4> HIDE DEF p, word
      <4>4. LET r == [p EXCEPT !.said = word]
            IN  /\ r.at = p.at /\ r.own = p.own /\ r.before = p.before /\ r.phase = p.phase /\ r.handler = p.handler
                /\ r.said = word
        BY <4>2 DEF FrameRecord
      <4>5. word = IF f.said = "nothing" THEN mid[Len(s)].said ELSE f.said
        BY <2>1, <4>2 DEF word
      <4> QED
        BY <4>2, <4>3, <4>4, <4>5
    <3> QED
      BY <2>1, <2>7, <3>1, <3>3, <3>4 DEF Over
  <2>11. Chained(s, x)
    BY <1>5, <2>5, <2>6, <2>7, <2>9, <2>10, CallEnds
  <2> QED
    BY <2>2, <2>3, <2>4, <2>6, <2>7, <2>11, CallerGoesOn
<1>6. CASE Hub!Return(c)
  <2>1. Hub!Answers(c, o, o.said, cx) /\ o.phase = "running"
    BY <1>2, <1>6 DEF Hub!Return, Hub!Running
  <2>2. o.said \in {"nothing", "result", "error"}
    BY <1>2 DEF FrameRecord
  <2>3. o.handler # None
    BY <1>4, <2>1 DEF WellFormed
  <2> HIDE DEF o, cx
  <2> QED
    BY <1>1, <1>4, <1>5, <2>1, <2>2, <2>3 DEF ErrorOf
<1>7. CASE Hub!NotFound(c)
  <2> DEFINE x == [cx EXCEPT ![o.at] = TRUE]
  <2>1. Hub!Answers(c, o, "error", [contexts[c] EXCEPT ![o.at] = TRUE]) /\ o.handler = None
    BY <1>2, <1>7 DEF Hub!NotFound
  <2>2. x \in Seq(BOOLEAN) /\ Len(x) = Len(cx)
    BY <1>1, <1>2
  <2>3. x[o.at] = TRUE /\ \A i \in 1..Len(cx) : i # o.at => x[i] = cx[i]
    BY <1>1, <1>2
  <2> QED
    BY <1>5, <2>1, <2>2, <2>3
<1> QED
  BY <1>6, <1>7

LEMMA HubInvariance ==
  ASSUME HubInv, [Hub!HubNext]_(Hub!hubVars)
  PROVE  HubInv'
<1>1. CASE UNCHANGED Hub!hubVars
  BY <1>1 DEF Hub!hubVars, HubInv
<1>2. ASSUME Hub!Clear \/ \E n \in FnNames : Hub!Erase(n) \/ \E h \in Handlers : Hub!Register(n, h)
      PROVE  HubInv'
  <2>1. UNCHANGED <<s_lock, stack, contexts, honest>> /\ entries' \in [FnNames -> Handlers \cup {None}]
    BY <1>2 DEF HubInv, Hub!Clear, Hub!Erase, Hub!Register
  <2> QED
    BY <2>1 DEF HubInv
<1>3. CASE Hub!HubNext
  BY <1>2, <1>3, CallerCalls, HandlerGoesOn, CallerAnswers DEF Hub!HubNext
<1> QED
  BY <1>1, <1>3

LEMMA HubFollows ==
  ASSUME HubInv
  PROVE  Hub!HubSafe
<1>1. ASSUME NEW c \in Callers
      PROVE  /\ \A i \in DOMAIN stack[c] :
                  stack[c][i].at = (IF i = 1 THEN 1 ELSE stack[c][i - 1].at) + (IF stack[c][i].own THEN 1 ELSE 0)
             /\ Len(contexts[c]) = IF stack[c] = <<>> THEN 1 ELSE stack[c][Len(stack[c])].at
  <2>1. stack[c] \in Seq(FrameRecord) /\ Chained(stack[c], contexts[c])
    BY <1>1 DEF HubInv
  <2>2. DOMAIN stack[c] = 1..Len(stack[c])
    BY <2>1
  <2>3. \A i \in 1..Len(stack[c]) : Linked(stack[c], contexts[c], i)
    BY <2>1 DEF Chained
  <2>4. \A i \in 1..Len(stack[c]) :
          stack[c][i].at = (IF i = 1 THEN 1 ELSE stack[c][i - 1].at) + (IF stack[c][i].own THEN 1 ELSE 0)
    BY <2>3 DEF Linked
  <2>5. Len(contexts[c]) = IF stack[c] = <<>> THEN 1 ELSE stack[c][Len(stack[c])].at
    BY <2>1 DEF Chained
  <2> QED
    BY <2>2, <2>4, <2>5
<1> QED
  BY <1>1 DEF HubInv, Hub!HubSafe, Hub!AnswersHonest, Hub!ContextsMatch, Hub!Last

-----------------------------------------------------------------------------
(* Locks *)

\* A wait answers what its predicate is, under the mutex, also when its time is up; a call
\* of the hub answers true exactly when a handler ran and ended without an error.
THEOREM AnswersAlwaysTrue ==
  ASSUME WaitAssumption
  PROVE  LocksSpec => []AnswersTrue
<1>1. LocksInit => WaitInv /\ HubInv
  <2>1. Waiting!ThreadsInit => WaitInv
    <3> SUFFICES ASSUME Waiting!ThreadsInit PROVE WaitInv
      OBVIOUS
    <3>1. /\ flag = FALSE /\ mutex = None /\ place = [t \in Waiters |-> "outside"]
          /\ answers = [t \in Waiters |-> <<FALSE, FALSE>>]
      BY DEF Waiting!ThreadsInit
    <3>2. Waiting!AnswersTrue
      BY <3>1 DEF Waiting!AnswersTrue, WaitAssumption
    <3> QED
      BY <3>1, <3>2 DEF WaitInv
  <2> QED
    BY <2>1, HubInitially DEF LocksInit
<1>2. WaitInv /\ [LocksNext]_allVars => WaitInv'
  <2> SUFFICES ASSUME WaitInv, [LocksNext]_allVars PROVE WaitInv'
    OBVIOUS
  <2>1. CASE Waiting!WaitingNext
    BY <2>1, WaitingInvariance
  <2>2. CASE UNCHANGED waitVars
    BY <2>2 DEF waitVars, WaitInv, Waiting!AnswersTrue
  <2> QED
    BY <2>1, <2>2 DEF LocksNext, allVars
<1>3. HubInv /\ [LocksNext]_allVars => HubInv'
  <2>1. [LocksNext]_allVars => [Hub!HubNext]_(Hub!hubVars)
    BY DEF LocksNext, allVars, hubVars, Hub!hubVars
  <2> QED
    BY <2>1, HubInvariance
<1>4. WaitInv /\ HubInv => AnswersTrue
  BY HubFollows DEF WaitInv, AnswersTrue
<1> QED
  BY <1>1, <1>2, <1>3, <1>4, PTL DEF LocksSpec

=============================================================================
