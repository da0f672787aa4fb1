------------------------------ MODULE Threads -------------------------------
(***************************************************************************)
(* Threads and condition variables: sqlite3_thread.h over Windows, with    *)
(* the context block that a thread shares with whoever started it, or over *)
(* POSIX, and the classes SqliteThread and SqliteConditionVariable.        *)
(* Nobody joins or detaches a thread through two objects: the classes see  *)
(* to that.  Of the function of a thread only its result matters.          *)
(***************************************************************************)
EXTENDS Integers, FiniteSets

CONSTANTS
  Workers,     \* threads that may be created
  Objects,     \* objects of class SqliteThread
  Waiters,     \* threads that use the condition variable
  Null,
  Windows,     \* the Windows build
  CreateFails  \* whether the system may refuse a thread or an event

VARIABLES
  os,        \* where each thread stands
  context,   \* its sqlite3_win32_thctx_t: "none", "live" or "freed"
  event,     \* the event in it: "none", "open" or "closed"
  system,    \* the system's own record of the thread: "none", "open" or "closed"
  detached,  \* contexts with is_detached set
  retval,    \* contexts (or system records) with the function's result in them
  callable,  \* the function object a thread runs: "none", "live" or "deleted"
  holds,     \* the thread each object may join
  joined,    \* for the properties: whether every join gave the result
  flag,      \* what the predicate of the waiters says
  mutex,     \* the waiter that holds the mutex
  place,     \* where each waiter stands
  answers    \* for the properties: each waiter's last answer, and the flag as it was then

handleVars == <<os, context, event, system, detached, retval, callable, holds, joined>>
waitVars == <<flag, mutex, place, answers>>

ThreadsInit ==
  /\ os = [w \in Workers |-> "unborn"]
  /\ context = [w \in Workers |-> "none"]
  /\ event = [w \in Workers |-> "none"]
  /\ system = [w \in Workers |-> "none"]
  /\ detached = {} /\ retval = {}
  /\ callable = [w \in Workers |-> "none"]
  /\ holds = [o \in Objects |-> Null]
  /\ joined = TRUE
  /\ flag = FALSE /\ mutex = Null
  /\ place = [t \in Waiters |-> "outside"]
  /\ answers = [t \in Waiters |-> <<FALSE, FALSE>>]

-----------------------------------------------------------------------------
(* The objects *)

\* The constructors.  When the system refuses, the context, the event and the function
\* object are given back and the object stays empty; a thread may lack its event only.
Construct(o) ==
  /\ holds[o] = Null
  /\ \E w \in Workers, object \in {"none", "live"}, e \in IF CreateFails THEN {"none", "open"} ELSE {"open"} :
       /\ os[w] = "unborn"
       /\ os' = [os EXCEPT ![w] = "running"]
       /\ system' = [system EXCEPT ![w] = "open"]
       /\ callable' = [callable EXCEPT ![w] = object]
       /\ context' = [context EXCEPT ![w] = IF Windows THEN "live" ELSE @]
       /\ event' = [event EXCEPT ![w] = IF Windows THEN e ELSE @]
       /\ holds' = [holds EXCEPT ![o] = w]
  /\ UNCHANGED <<detached, retval, joined, waitVars>>

\* Mutant of Ended: the thread's event is waited for, or nothing where there is none.
Signalled(w) == os[w] = "ended" \/ event[w] = "none"

\* WaitForSingleObject and pthread_join wait for the thread itself.
Ended(w) == os[w] = "ended"

Join(o) ==
  LET w == holds[o] IN
  /\ w # Null /\ Ended(w)
  /\ joined' = (joined /\ w \in retval)
  /\ event' = [event EXCEPT ![w] = IF @ = "open" THEN "closed" ELSE @]
  /\ context' = [context EXCEPT ![w] = IF @ = "live" THEN "freed" ELSE @]
  /\ system' = [system EXCEPT ![w] = "closed"]
  /\ holds' = [holds EXCEPT ![o] = Null]
  /\ UNCHANGED <<os, detached, retval, callable, waitVars>>

\* Mutant of Detaches: the context goes at once.
DetachesAndFrees(w) ==
  /\ detached' = detached \cup {w}
  /\ system' = [system EXCEPT ![w] = "closed"]
  /\ context' = [context EXCEPT ![w] = "freed"]

\* sqlite3_thread_detach.
Detaches(w) ==
  /\ detached' = detached \cup {w}
  /\ system' = [system EXCEPT ![w] = "closed"]
  /\ UNCHANGED context

\* detach, and the destructor.
Detach(o) ==
  /\ holds[o] # Null /\ Detaches(holds[o])
  /\ holds' = [holds EXCEPT ![o] = Null]
  /\ UNCHANGED <<os, event, retval, callable, joined, waitVars>>

\* The move constructor, and the move assignment, which detaches what it replaces.
Move(o, from) ==
  /\ o # from
  /\ IF holds[o] = Null THEN UNCHANGED <<detached, system, context>> ELSE Detaches(holds[o])
  /\ holds' = [holds EXCEPT ![o] = holds[from], ![from] = Null]
  /\ UNCHANGED <<os, event, retval, callable, joined, waitVars>>

-----------------------------------------------------------------------------
(* The thread *)

Goes(w, from, to) == os[w] = from /\ os' = [os EXCEPT ![w] = to]

\* The function returns, its function object is deleted, its result stored.
Returns(w) ==
  /\ Goes(w, "running", IF Windows THEN "returned" ELSE "ended")
  /\ retval' = retval \cup {w}
  /\ callable' = [callable EXCEPT ![w] = IF @ = "live" THEN "deleted" ELSE @]
  /\ UNCHANGED <<context, event, system, detached, holds, joined, waitVars>>

\* The Windows trampoline looks at is_detached ...
TestsDetached(w) ==
  /\ Goes(w, "returned", IF w \in detached THEN "freeing" ELSE "signalling")
  /\ UNCHANGED <<context, event, system, detached, retval, callable, holds, joined, waitVars>>

\* ... and frees the context or signals the event in it.
FreesContext(w) ==
  /\ Goes(w, "freeing", "ended")
  /\ context' = [context EXCEPT ![w] = "freed"]
  /\ UNCHANGED <<event, system, detached, retval, callable, holds, joined, waitVars>>

Signals(w) ==
  /\ Goes(w, "signalling", "ended")
  /\ UNCHANGED <<context, event, system, detached, retval, callable, holds, joined, waitVars>>

-----------------------------------------------------------------------------
(* The condition variable *)

Stands(t, from, to) == place[t] = from /\ place' = [place EXCEPT ![t] = to]

\* wait and wait_for with a predicate begin, with the mutex held.
Waits(t) ==
  /\ mutex = Null /\ mutex' = t
  /\ \E to \in {"testing", "testing in time"} : Stands(t, "outside", to)
  /\ UNCHANGED <<flag, answers, handleVars>>

Answers(t, answer) ==
  /\ place' = [place EXCEPT ![t] = "outside"]
  /\ answers' = [answers EXCEPT ![t] = <<answer, flag>>]
  /\ mutex' = Null
  /\ UNCHANGED <<flag, handleVars>>

\* The predicate is true.
Finds(t) == place[t] \in {"testing", "testing in time"} /\ flag /\ Answers(t, TRUE)

\* It is not: the mutex is given up and the thread goes to sleep in one step.
Sleeps(t) ==
  /\ ~flag /\ mutex' = Null
  /\ Stands(t, "testing", "asleep") \/ Stands(t, "testing in time", "asleep in time")
  /\ UNCHANGED <<flag, answers, handleVars>>

\* A wake-up for no reason.
Spurious(t) ==
  /\ Stands(t, "asleep", "notified") \/ Stands(t, "asleep in time", "notified in time")
  /\ UNCHANGED <<flag, mutex, answers, handleVars>>

\* A thread that was woken gets the mutex back.
Wakes(t) ==
  /\ mutex = Null /\ mutex' = t
  /\ Stands(t, "notified", "testing") \/ Stands(t, "notified in time", "testing in time")
  /\ UNCHANGED <<flag, answers, handleVars>>

\* Mutant of AfterTimeout: what the system said is not put to the predicate again.
TimeoutAlone == FALSE

\* return pred()
AfterTimeout == flag

\* The time is up before the thread sleeps ...
TooLate(t) == place[t] = "testing in time" /\ ~flag /\ Answers(t, AfterTimeout)

\* ... or while it does; it gets the mutex back as soon as it can.
TimesOut(t) ==
  /\ mutex = Null /\ place[t] = "asleep in time"
  /\ Answers(t, AfterTimeout)

Sleepers == {t \in Waiters : place[t] \in {"asleep", "asleep in time"}}

\* sqlite3_cond_signal wakes one sleeper, if there is any, sqlite3_cond_broadcast all.
Notifies(woken) ==
  /\ woken = Sleepers \/ Cardinality(woken) = 1
  /\ place' = [t \in Waiters |->
       IF t \notin woken THEN place[t]
       ELSE IF place[t] = "asleep" THEN "notified" ELSE "notified in time"]

\* The predicate changes under the mutex; when it becomes true, somebody is notified.
Changes(value) ==
  /\ mutex = Null /\ flag # value
  /\ flag' = value
  /\ IF value THEN \E woken \in SUBSET Sleepers : Notifies(woken) ELSE UNCHANGED place
  /\ UNCHANGED <<mutex, answers, handleVars>>

ThreadsNext ==
  \/ \E o \in Objects :
       Construct(o) \/ Join(o) \/ Detach(o) \/ \E from \in Objects : Move(o, from)
  \/ \E w \in Workers : Returns(w) \/ TestsDetached(w) \/ FreesContext(w) \/ Signals(w)

WaitingNext ==
  \/ \E t \in Waiters :
       Waits(t) \/ Finds(t) \/ Sleeps(t) \/ Spurious(t) \/ Wakes(t) \/ TooLate(t) \/ TimesOut(t)
  \/ \E value \in BOOLEAN : Changes(value)

ThreadsSpec == ThreadsInit /\ [][ThreadsNext]_handleVars

\* Threads go on, whoever waits for the mutex gets it, and the clock passes every deadline.
WaitingFair ==
  \A t \in Waiters :
    /\ WF_waitVars(Finds(t) \/ Sleeps(t) \/ TooLate(t))
    /\ SF_waitVars(Wakes(t))
    /\ SF_waitVars(TooLate(t) \/ TimesOut(t))

-----------------------------------------------------------------------------
\* The context of a thread is there as long as the thread or an object may touch it, and
\* is given back once: by join, or by the thread where it was detached in time.  (One
\* that is detached behind the thread's last look stays, and so does the event of
\* every thread that is detached.)
ContextsOwned ==
  /\ \A w \in Workers :
       /\ Windows /\ os[w] \in {"running", "returned", "freeing", "signalling"} => context[w] = "live"
       /\ context[w] = "freed" => system[w] = "closed" /\ os[w] = "ended"
       /\ os[w] = "ended" /\ w \notin detached => (system[w] = "closed" <=> context[w] # "live")
            \/ ~Windows
       /\ os[w] = "ended" => callable[w] # "live"
  /\ \A o \in Objects : holds[o] # Null =>
       /\ system[holds[o]] = "open" /\ holds[o] \notin detached
       /\ Windows => context[holds[o]] = "live"
  /\ \A w \in Workers : system[w] = "open" => \E o \in Objects : holds[o] = w
  /\ \A o, p \in Objects : holds[o] = holds[p] /\ holds[o] # Null => o = p

\* join gives the result of the thread's function.
JoinGivesResult == joined

ThreadsSafe == ContextsOwned /\ JoinGivesResult

\* wait_for answers what the predicate is, also when the time is up, and wait answers
\* only when it is true; the mutex is with one thread at most.
AnswersTrue ==
  /\ \A t \in Waiters : answers[t][1] = answers[t][2]
  /\ \A t \in Waiters : place[t] \in {"testing", "testing in time"} <=> mutex = t

InTime(t) == place[t] \in {"testing in time", "asleep in time", "notified in time"}

\* wait_for comes back whatever happens, and a thread that was notified comes back from
\* wait when the predicate stays true.
WaitsReturn ==
  \A t \in Waiters :
    /\ InTime(t) ~> ~InTime(t)
    /\ (place[t] = "notified" /\ []flag) ~> place[t] = "outside"
=============================================================================
