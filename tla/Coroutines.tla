----------------------------- MODULE Coroutines -----------------------------
(***************************************************************************)
(* Stackful coroutines: the state block and the stack of sqlite3_coro.h    *)
(* and the class SqliteCoroutine that owns them, with the function object  *)
(* a coroutine runs.  A switch of contexts is one step; a context that has *)
(* called resume goes on in the step that switches back to it.             *)
(*                                                                         *)
(* A coroutine that runs, or that waits for another one, is not destroyed: *)
(* the code trusts its callers with that.  Nor is it to be resumed; what   *)
(* the code does if it is, is modelled up to the switch, behind which two  *)
(* threads of control are on one stack and nothing is defined.             *)
(***************************************************************************)
EXTENDS Integers, FiniteSets

CONSTANTS
  Threads,     \* threads that run coroutines
  Coros,       \* coroutines that may be created
  Handles,     \* objects of class SqliteCoroutine
  MainOf,      \* the context in which each thread starts
  None,        \* a null pointer
  LacksStack   \* whether memory may be lacking for a function object, a state block or a stack

Mains == {MainOf[t] : t \in Threads}
Contexts == Coros \cup Mains

VARIABLES
  mem,       \* state block and stack of each coroutine: "unborn", "live" or "freed"
  closure,   \* its function object: "none", "live" or "deleted"
  isDone,    \* coroutines with is_done set
  isRunning, \* coroutines with is_running set
  ctx,       \* the context that goes on when ctx (the fiber) is switched to
  callerCtx, \* and when caller_ctx (the caller's fiber) is
  active,    \* g_active_coro_state of each thread
  prev,      \* the local variable prev of the resume each context waits in
  current,   \* the context that runs on each thread
  handle,    \* the coroutine each object holds
  scope,     \* the context on whose stack the object lives
  misused    \* for the properties: a coroutine that runs, or waits, was resumed

vars == <<mem, closure, isDone, isRunning, ctx, callerCtx, active, prev, current, handle, scope, misused>>

switching == <<isRunning, ctx, callerCtx, active, prev, current, misused>>

Init ==
  /\ mem = [c \in Coros |-> "unborn"]
  /\ closure = [c \in Coros |-> "none"]
  /\ isDone = {} /\ isRunning = {}
  /\ ctx = [c \in Coros |-> c]
  /\ callerCtx = [c \in Coros |-> None]
  /\ active = [t \in Threads |-> None]
  /\ prev = [x \in Contexts |-> None]
  /\ current = [t \in Threads |-> MainOf[t]]
  /\ handle = [h \in Handles |-> None]
  /\ scope = [h \in Handles |-> None]
  /\ misused = FALSE

Mine(t, h) == scope[h] = current[t]
AtRest(h) == handle[h] = None \/ handle[h] \notin isRunning

-----------------------------------------------------------------------------
(* Objects *)

\* The constructors.  A coroutine of a plain function has no function object.
\* When something is lacking, what was taken is given back and the object stays empty.
Construct(t, h) ==
  /\ scope[h] = None
  /\ scope' = [scope EXCEPT ![h] = current[t]]
  /\ \/ \E c \in Coros, object \in {"none", "live"} :
          /\ mem[c] = "unborn"
          /\ mem' = [mem EXCEPT ![c] = "live"]
          /\ closure' = [closure EXCEPT ![c] = object]
          /\ handle' = [handle EXCEPT ![h] = c]
     \/ LacksStack /\ UNCHANGED <<mem, closure, handle>>
  /\ UNCHANGED <<isDone, switching>>

Freed(cs) == [c \in Coros |-> IF c \in cs THEN "freed" ELSE mem[c]]

\* destroy.  Nothing that lives on the coroutine's own stack is destroyed.
Destroy(t, h) ==
  /\ Mine(t, h) /\ AtRest(h) /\ handle[h] # None
  /\ mem' = Freed({handle[h]})
  /\ handle' = [handle EXCEPT ![h] = None]
  /\ UNCHANGED <<closure, isDone, switching, scope>>

\* The destructor.
Destruct(t, h) ==
  /\ Mine(t, h) /\ AtRest(h)
  /\ mem' = Freed({handle[h]})
  /\ handle' = [handle EXCEPT ![h] = None]
  /\ scope' = [scope EXCEPT ![h] = None]
  /\ UNCHANGED <<closure, isDone, switching>>

\* Mutant of MoveAssign: the object keeps what it has given away.
MoveAssignShares(t, g, h) ==
  /\ Mine(t, g) /\ Mine(t, h) /\ g # h /\ AtRest(g) /\ AtRest(h)
  /\ mem' = Freed({handle[g]})
  /\ handle' = [handle EXCEPT ![g] = handle[h]]
  /\ UNCHANGED <<closure, isDone, switching, scope>>

\* The move constructor and the move assignment.
MoveConstruct(t, g, h) ==
  /\ scope[g] = None /\ Mine(t, h) /\ AtRest(h)
  /\ handle' = [handle EXCEPT ![g] = handle[h], ![h] = None]
  /\ scope' = [scope EXCEPT ![g] = current[t]]
  /\ UNCHANGED <<mem, closure, isDone, switching>>

MoveAssign(t, g, h) ==
  /\ Mine(t, g) /\ Mine(t, h) /\ g # h /\ AtRest(g) /\ AtRest(h)
  /\ mem' = Freed({handle[g]})
  /\ handle' = [handle EXCEPT ![g] = handle[h], ![h] = None]
  /\ UNCHANGED <<closure, isDone, switching, scope>>

-----------------------------------------------------------------------------
(* Switching *)

\* Context x goes on behind the switch in its call of resume.
BackIn(t, x) ==
  /\ current' = [current EXCEPT ![t] = x]
  /\ active' = [active EXCEPT ![t] = prev[x]]

\* Mutant of Resume: the coroutine that was active is forgotten.
ResumeForgets(t, h) ==
  LET c == handle[h] IN
  /\ c # None /\ c \notin isDone
  /\ isRunning' = isRunning \cup {c}
  /\ misused' = (c \in isRunning)
  /\ active' = [active EXCEPT ![t] = c]
  /\ callerCtx' = [callerCtx EXCEPT ![c] = current[t]]
  /\ current' = [current EXCEPT ![t] = ctx[c]]
  /\ UNCHANGED <<mem, closure, isDone, ctx, prev, handle, scope>>

\* resume; an object without a coroutine, or with one that is done, is refused, one that
\* runs is not.
Resume(t, h) ==
  LET c == handle[h] IN
  /\ c # None /\ c \notin isDone
  /\ isRunning' = isRunning \cup {c}
  /\ misused' = (c \in isRunning)
  /\ prev' = [prev EXCEPT ![current[t]] = active[t]]
  /\ active' = [active EXCEPT ![t] = c]
  /\ callerCtx' = [callerCtx EXCEPT ![c] = current[t]]
  /\ current' = [current EXCEPT ![t] = ctx[c]]
  /\ UNCHANGED <<mem, closure, isDone, ctx, handle, scope>>

\* Mutant of Yield: control goes back to where the thread started.
YieldToMain(t) ==
  LET c == active[t] IN
  /\ c # None
  /\ isRunning' = isRunning \ {c}
  /\ ctx' = [ctx EXCEPT ![c] = current[t]]
  /\ BackIn(t, MainOf[t])
  /\ UNCHANGED <<mem, closure, isDone, callerCtx, prev, handle, scope, misused>>

\* yield and yield_value, which do nothing where no coroutine is active.
Yield(t) ==
  LET c == active[t] IN
  /\ c # None
  /\ isRunning' = isRunning \ {c}
  /\ ctx' = [ctx EXCEPT ![c] = current[t]]
  /\ BackIn(t, callerCtx[c])
  /\ UNCHANGED <<mem, closure, isDone, callerCtx, prev, handle, scope, misused>>

Locals(c) == {h \in Handles : scope[h] = c}

\* The trampolines: the function returns, which destroys the objects on its stack,
\* its function object is deleted, and control goes back for good.
Finish(t) ==
  LET c == current[t] IN
  /\ c \in Coros
  /\ \A h \in Locals(c) : AtRest(h)
  /\ mem' = Freed({handle[h] : h \in Locals(c)})
  /\ handle' = [h \in Handles |-> IF h \in Locals(c) THEN None ELSE handle[h]]
  /\ scope' = [h \in Handles |-> IF h \in Locals(c) THEN None ELSE scope[h]]
  /\ closure' = [closure EXCEPT ![c] = IF @ = "live" THEN "deleted" ELSE @]
  /\ isDone' = isDone \cup {c}
  /\ isRunning' = isRunning \ {c}
  /\ BackIn(t, callerCtx[c])
  /\ UNCHANGED <<ctx, callerCtx, prev, misused>>

Next ==
  /\ ~misused
  /\ \E t \in Threads :
     \/ Yield(t) \/ Finish(t)
     \/ \E h \in Handles :
          \/ Construct(t, h) \/ Destroy(t, h) \/ Destruct(t, h) \/ Resume(t, h)
          \/ \E g \in Handles : MoveConstruct(t, g, h) \/ MoveAssign(t, g, h)

Spec == Init /\ [][Next]_vars

-----------------------------------------------------------------------------
TypeOK ==
  /\ mem \in [Coros -> {"unborn", "live", "freed"}]
  /\ closure \in [Coros -> {"none", "live", "deleted"}]
  /\ isDone \subseteq Coros /\ isRunning \subseteq Coros
  /\ ctx \in [Coros -> Contexts]
  /\ callerCtx \in [Coros -> Contexts \cup {None}]
  /\ active \in [Threads -> Coros \cup {None}]
  /\ prev \in [Contexts -> Coros \cup {None}]
  /\ current \in [Threads -> Contexts]
  /\ handle \in [Handles -> Coros \cup {None}]
  /\ scope \in [Handles -> Contexts \cup {None}]

\* The coroutine a context is.
Itself(x) == IF x \in Coros THEN x ELSE None

\* The pointer to the active coroutine says what runs, and where control came from it says again.
ActiveIsCurrent ==
  /\ \A t \in Threads : active[t] = Itself(current[t])
  /\ \A c \in isRunning : callerCtx[c] \in Contexts /\ prev[callerCtx[c]] = Itself(callerCtx[c])
  /\ \A c \in Coros : ctx[c] = c

\* What runs, or waits, is not freed; and no two threads run on one stack.
InUse ==
  /\ \A c \in isRunning : mem[c] = "live" /\ c \notin isDone
  /\ \A t \in Threads : current[t] \in Mains \cup isRunning
  /\ \A s, t \in Threads : current[s] = current[t] => s = t
  /\ \A c, d \in isRunning : callerCtx[c] = callerCtx[d] => c = d
  /\ \A c \in isRunning : callerCtx[c] \in isRunning \cup Mains
                          /\ \A t \in Threads : current[t] # callerCtx[c]

\* Each coroutine belongs to one object at most, and what an object holds is live.
OneOwner ==
  /\ \A h \in Handles : handle[h] # None => mem[handle[h]] = "live" /\ scope[h] # None
  /\ \A g, h \in Handles : handle[g] = handle[h] /\ handle[g] # None => g = h

\* Coroutines are entered, left and freed as the types, the pointers and the owners say.
Consistent == TypeOK /\ ActiveIsCurrent /\ InUse /\ OneOwner

\* ... as long as nobody has resumed one that runs or waits.
FibersSafe == ~misused => Consistent

\* A coroutine's function object is deleted at the latest when the coroutine is destroyed.
FunctionsDeleted == \A c \in Coros : closure[c] = "live" => mem[c] = "live"

\* Control goes back to the context that resumed a coroutine last, whichever
\* threads resume it and however deep the coroutines are nested.
Abstract == INSTANCE Nesting WITH
  top <- current, ended <- isDone,
  resumer <- [c \in Coros |-> IF c \in isRunning THEN callerCtx[c] ELSE None]

\* A step that does not resume a coroutine that runs is one of Nesting.
NestsStep == misused' \/ [Abstract!Next]_(Abstract!vars)

ImplementsNesting == Abstract!Init /\ [][NestsStep]_vars
=============================================================================
