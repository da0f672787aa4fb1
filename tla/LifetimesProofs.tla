-------------------------- MODULE LifetimesProofs --------------------------
(***************************************************************************)
(* Proofs about the components that Lifetimes composes, for every value of *)
(* their constants, one section each, and at the end about Lifetimes.      *)
(***************************************************************************)
EXTENDS Lifetimes, Sequences, FiniteSetTheorems, WellFoundedInduction, TLAPS

-----------------------------------------------------------------------------
(* Coroutines: the pointers to the active coroutine, the owners and the stacks agree, and
   control returns where Nesting says *)

\* The part of the invariant that the objects do not touch.
Switched ==
  /\ isDone \subseteq Coros /\ isRunning \subseteq Coros
  /\ ctx \in [Coros -> Fibers!Contexts]
  /\ callerCtx \in [Coros -> Fibers!Contexts \cup {None}]
  /\ active \in [Threads -> Coros \cup {None}]
  /\ prev \in [Fibers!Contexts -> Coros \cup {None}]
  /\ current \in [Threads -> Fibers!Contexts]
  /\ Fibers!ActiveIsCurrent
  /\ \A c \in isRunning : c \notin isDone
  /\ \A t \in Threads : current[t] \in Fibers!Mains \cup isRunning
  /\ \A s, t \in Threads : current[s] = current[t] => s = t
  /\ \A c, d \in isRunning : callerCtx[c] = callerCtx[d] => c = d
  /\ \A c \in isRunning : callerCtx[c] \in isRunning \cup Fibers!Mains
                          /\ \A t \in Threads : current[t] # callerCtx[c]

\* And the part that they do.
Owned ==
  /\ block \in [Coros -> {"unborn", "live", "freed"}]
  /\ closure \in [Coros -> {"none", "live", "deleted"}]
  /\ handle \in [Scopes -> Coros \cup {None}]
  /\ scope \in [Scopes -> Fibers!Contexts \cup {None}]
  /\ \A c \in isRunning : block[c] = "live"
  /\ Fibers!OneOwner

\* The invariant is the two parts together.
LEMMA Parts == Fibers!Consistent <=> Switched /\ Owned
BY DEF Fibers!Consistent, Fibers!TypeOK, Fibers!InUse, Switched, Owned

\* The first state.
LEMMA Initially ==
  ASSUME ContextsApart, Fibers!Init
  PROVE  Switched /\ Owned
<1>1. Switched
  <2>1. \A t \in Threads : MainOf[t] \in Fibers!Mains /\ MainOf[t] \notin Coros
    BY DEF ContextsApart, Fibers!Mains
  <2> QED
    BY <2>1 DEF Fibers!Init, Switched, Fibers!ActiveIsCurrent, Fibers!Itself, Fibers!Contexts, ContextsApart
<1>2. Owned
  BY DEF Fibers!Init, Owned, Fibers!OneOwner
<1> QED
  BY <1>1, <1>2

-----------------------------------------------------------------------------
(* Switching *)

\* resume.
LEMMA ResumeSwitches ==
  ASSUME ContextsApart, Switched, NEW t \in Threads, NEW c \in Coros, c \notin isDone, c \notin isRunning,
         isRunning' = isRunning \cup {c},
         prev' = [prev EXCEPT ![current[t]] = active[t]],
         active' = [active EXCEPT ![t] = c],
         callerCtx' = [callerCtx EXCEPT ![c] = current[t]],
         current' = [current EXCEPT ![t] = ctx[c]],
         UNCHANGED <<isDone, ctx>>
  PROVE  Switched'
<1>1. ctx[c] = c /\ c \in Fibers!Contexts /\ c \notin Fibers!Mains
  BY DEF Switched, Fibers!ActiveIsCurrent, Fibers!Contexts, ContextsApart
<1>2. current[t] \in Fibers!Contexts /\ current[t] # c /\ active[t] = Fibers!Itself(current[t])
  BY <1>1 DEF Switched, Fibers!ActiveIsCurrent
<1>3. \A s \in Threads : current'[s] = IF s = t THEN c ELSE current[s]
  BY <1>1 DEF Switched
<1>4. \A d \in isRunning' : callerCtx'[d] = IF d = c THEN current[t] ELSE callerCtx[d]
  BY DEF Switched
<1>5. /\ isDone' \subseteq Coros /\ isRunning' \subseteq Coros
      /\ ctx' \in [Coros -> Fibers!Contexts]
      /\ callerCtx' \in [Coros -> Fibers!Contexts \cup {None}]
      /\ active' \in [Threads -> Coros \cup {None}]
      /\ prev' \in [Fibers!Contexts -> Coros \cup {None}]
      /\ current' \in [Threads -> Fibers!Contexts]
  BY <1>1 DEF Switched
<1>6. Fibers!ActiveIsCurrent'
  <2>1. \A s \in Threads : active'[s] = Fibers!Itself(current'[s])
    BY <1>1, <1>3 DEF Switched, Fibers!ActiveIsCurrent, Fibers!Itself
  <2>2. ASSUME NEW d \in isRunning'
        PROVE  callerCtx'[d] \in Fibers!Contexts /\ prev'[callerCtx'[d]] = Fibers!Itself(callerCtx'[d])
    <3>1. CASE d = c
      BY <1>2, <1>4, <3>1 DEF Switched
    <3>2. CASE d # c
      <4>1. d \in isRunning /\ callerCtx'[d] = callerCtx[d] /\ callerCtx[d] # current[t]
        BY <1>4, <3>2 DEF Switched
      <4> QED
        BY <4>1 DEF Switched, Fibers!ActiveIsCurrent
    <3> QED
      BY <3>1, <3>2
  <2>3. \A d \in Coros : ctx'[d] = d
    BY DEF Switched, Fibers!ActiveIsCurrent
  <2> QED
    BY <2>1, <2>2, <2>3 DEF Fibers!ActiveIsCurrent, Fibers!Itself
<1>7. /\ \A d \in isRunning' : d \notin isDone'
      /\ \A s \in Threads : current'[s] \in Fibers!Mains \cup isRunning'
      /\ \A s, u \in Threads : current'[s] = current'[u] => s = u
  BY <1>1, <1>3 DEF Switched
<1>8. \A d, e \in isRunning' : callerCtx'[d] = callerCtx'[e] => d = e
  BY <1>4 DEF Switched
<1>9. \A d \in isRunning' : callerCtx'[d] \in isRunning' \cup Fibers!Mains
                            /\ \A s \in Threads : current'[s] # callerCtx'[d]
  BY <1>1, <1>2, <1>3, <1>4 DEF Switched
<1> QED
  BY <1>5, <1>6, <1>7, <1>8, <1>9 DEF Switched

\* Control goes back to the caller of c: yield, or the end of its function.
LEMMA LeaveSwitches ==
  ASSUME ContextsApart, Switched, NEW t \in Threads, NEW c \in Coros, current[t] = c,
         isRunning' = isRunning \ {c},
         \/ isDone' = isDone
         \/ isDone' = isDone \cup {c},
         \/ ctx' = ctx
         \/ ctx' = [ctx EXCEPT ![c] = c],
         Fibers!BackIn(t, callerCtx[c]),
         UNCHANGED <<callerCtx, prev>>
  PROVE  Switched' /\ c \in isRunning
<1>1. c \in isRunning /\ c \notin Fibers!Mains
  BY DEF Switched, ContextsApart
<1> DEFINE x == callerCtx[c]
<1>2. /\ x \in isRunning \cup Fibers!Mains /\ x \in Fibers!Contexts /\ x # c
      /\ prev[x] = Fibers!Itself(x) /\ prev[x] \in Coros \cup {None}
      /\ \A s \in Threads : current[s] # x
      /\ \A d \in isRunning : callerCtx[d] = x => d = c
  BY <1>1 DEF Switched, Fibers!ActiveIsCurrent
<1>3. current' = [current EXCEPT ![t] = x] /\ active' = [active EXCEPT ![t] = prev[x]]
  BY DEF Fibers!BackIn
<1>4. \A d \in isRunning : callerCtx[d] # c
  BY DEF Switched
<1> HIDE DEF x
<1>5. /\ isDone' \subseteq Coros /\ isRunning' \subseteq Coros
      /\ ctx' \in [Coros -> Fibers!Contexts]
      /\ callerCtx' \in [Coros -> Fibers!Contexts \cup {None}]
      /\ active' \in [Threads -> Coros \cup {None}]
      /\ prev' \in [Fibers!Contexts -> Coros \cup {None}]
      /\ current' \in [Threads -> Fibers!Contexts]
  BY <1>2, <1>3 DEF Switched, Fibers!Contexts
<1>6. Fibers!ActiveIsCurrent'
  <2>1. \A s \in Threads : active'[s] = Fibers!Itself(current'[s])
    BY <1>2, <1>3 DEF Switched, Fibers!ActiveIsCurrent
  <2>2. \A d \in isRunning' : callerCtx'[d] \in Fibers!Contexts /\ prev'[callerCtx'[d]] = Fibers!Itself(callerCtx'[d])
    BY DEF Switched, Fibers!ActiveIsCurrent
  <2>3. \A d \in Coros : ctx'[d] = d
    BY DEF Switched, Fibers!ActiveIsCurrent
  <2> QED
    BY <2>1, <2>2, <2>3 DEF Fibers!ActiveIsCurrent, Fibers!Itself
<1>7. /\ \A d \in isRunning' : d \notin isDone'
      /\ \A s \in Threads : current'[s] \in Fibers!Mains \cup isRunning'
      /\ \A s, u \in Threads : current'[s] = current'[u] => s = u
  BY <1>2, <1>3 DEF Switched
<1>8. \A d, e \in isRunning' : callerCtx'[d] = callerCtx'[e] => d = e
  BY DEF Switched
<1>9. \A d \in isRunning' : callerCtx'[d] \in isRunning' \cup Fibers!Mains
                            /\ \A s \in Threads : current'[s] # callerCtx'[d]
  BY <1>2, <1>3, <1>4 DEF Switched
<1> QED
  BY <1>1, <1>5, <1>6, <1>7, <1>8, <1>9 DEF Switched

\* What is running is not among the coroutines that objects at rest hold.
LEMMA OnlyRestingFreed ==
  ASSUME ContextsApart, Switched, Owned, NEW H \in SUBSET Scopes, \A h \in H : Fibers!AtRest(h),
         block' = Fibers!Freed({handle[h] : h \in H})
  PROVE  /\ \A c \in isRunning : block'[c] = "live"
         /\ block' \in [Coros -> {"unborn", "live", "freed"}]
<1>1. ASSUME NEW c \in isRunning PROVE c \notin {handle[h] : h \in H}
  BY <1>1 DEF Fibers!AtRest, Switched, Owned, ContextsApart, Fibers!Contexts
<1> DEFINE S == {handle[h] : h \in H}
<1>2. block' = [c \in Coros |-> IF c \in S THEN "freed" ELSE block[c]] /\ \A c \in isRunning : c \notin S
  BY <1>1 DEF Fibers!Freed
<1> HIDE DEF S
<1> QED
  BY <1>2 DEF Switched, Owned

\* Actions on objects.
LEMMA ObjectStep ==
  ASSUME ContextsApart, Switched, Owned, NEW t \in Threads, NEW h \in Scopes,
         \/ Fibers!Construct(t, h) \/ Fibers!Destroy(t, h) \/ Fibers!Destruct(t, h)
         \/ \E g \in Scopes : Fibers!MoveConstruct(t, g, h) \/ Fibers!MoveAssign(t, g, h)
  PROVE  Owned' /\ UNCHANGED <<isDone, Fibers!switching>>
<1>0. current[t] \in Fibers!Contexts /\ current[t] # None
  BY DEF Switched, ContextsApart
<1>1. CASE Fibers!Construct(t, h)
  <2>1. CASE UNCHANGED <<block, closure, handle>>
    BY <1>0, <1>1, <2>1 DEF Fibers!Construct, Fibers!switching, Owned, Fibers!OneOwner
  <2>2. CASE \E c \in Coros, object \in {"none", "live"} :
               /\ block[c] = "unborn"
               /\ block' = [block EXCEPT ![c] = "live"]
               /\ closure' = [closure EXCEPT ![c] = object]
               /\ handle' = [handle EXCEPT ![h] = c]
    BY <1>0, <1>1, <2>2 DEF Fibers!Construct, Fibers!switching, Owned, Fibers!OneOwner, ContextsApart, Fibers!Contexts
  <2> QED
    BY <1>1, <2>1, <2>2 DEF Fibers!Construct
<1>2. CASE Fibers!Destroy(t, h)
  <2>1. handle[h] \notin isRunning
        /\ block' = [c \in Coros |-> IF c = handle[h] THEN "freed" ELSE block[c]]
        /\ handle' = [handle EXCEPT ![h] = None] /\ UNCHANGED <<closure, isDone, Fibers!switching, scope>>
    BY <1>2 DEF Fibers!Destroy, Fibers!AtRest, Fibers!Freed, Owned
  <2> QED
    BY <2>1 DEF Fibers!switching, Owned, Fibers!OneOwner, Switched
<1>3. CASE Fibers!Destruct(t, h)
  <2>1. /\ handle[h] = None \/ handle[h] \notin isRunning
        /\ block' = [c \in Coros |-> IF c = handle[h] THEN "freed" ELSE block[c]]
        /\ handle' = [handle EXCEPT ![h] = None] /\ scope' = [scope EXCEPT ![h] = None]
        /\ UNCHANGED <<closure, isDone, Fibers!switching>>
    BY <1>3 DEF Fibers!Destruct, Fibers!AtRest, Fibers!Freed
  <2>2. \A c \in isRunning' : block'[c] = "live"
    BY <2>1 DEF Fibers!switching, Owned, Switched, ContextsApart, Fibers!Contexts
  <2> QED
    BY <2>1, <2>2 DEF Owned, Fibers!OneOwner
<1>4. ASSUME NEW g \in Scopes, Fibers!MoveConstruct(t, g, h)
      PROVE  Owned' /\ UNCHANGED <<isDone, Fibers!switching>>
  BY <1>0, <1>4 DEF Fibers!MoveConstruct, Fibers!switching, Owned, Fibers!OneOwner, Fibers!AtRest, Fibers!Mine
<1>5. ASSUME NEW g \in Scopes, Fibers!MoveAssign(t, g, h)
      PROVE  Owned' /\ UNCHANGED <<isDone, Fibers!switching>>
  <2>1. /\ handle[g] = None \/ handle[g] \notin isRunning
        /\ block' = [c \in Coros |-> IF c = handle[g] THEN "freed" ELSE block[c]]
        /\ handle' = [handle EXCEPT ![g] = handle[h], ![h] = None]
        /\ UNCHANGED <<closure, isDone, Fibers!switching, scope>>
        /\ g # h /\ scope[g] = current[t] /\ scope[h] = current[t]
    BY <1>5 DEF Fibers!MoveAssign, Fibers!AtRest, Fibers!Mine, Fibers!Freed
  <2>2. UNCHANGED <<isDone, isRunning>>
    BY <2>1 DEF Fibers!switching
  <2>3. \A c \in isRunning' : block'[c] = "live"
    BY <2>1, <2>2 DEF Owned, Switched, ContextsApart, Fibers!Contexts
  <2>4. Fibers!OneOwner'
    BY <1>0, <2>1 DEF Owned, Fibers!OneOwner, ContextsApart, Fibers!Contexts
  <2> QED
    BY <2>1, <2>3, <2>4 DEF Owned
<1> QED
  BY <1>1, <1>2, <1>3, <1>4, <1>5

\* resume.
LEMMA ResumeStep ==
  ASSUME ContextsApart, Switched, Owned, NEW t \in Threads, NEW h \in Scopes, Fibers!Resume(t, h), ~misused'
  PROVE  Switched' /\ Owned'
<1>1. handle[h] \in Coros /\ block[handle[h]] = "live"
  BY DEF Fibers!Resume, Owned, Fibers!OneOwner
<1>2. Switched'
  BY <1>1, ResumeSwitches DEF Fibers!Resume
<1>3. Owned'
  BY <1>1 DEF Fibers!Resume, Owned, Fibers!OneOwner
<1> QED
  BY <1>2, <1>3

\* yield.
LEMMA YieldStep ==
  ASSUME ContextsApart, Switched, Owned, NEW t \in Threads, Fibers!Yield(t)
  PROVE  Switched' /\ Owned'
<1>1. active[t] \in Coros /\ current[t] = active[t]
  BY DEF Fibers!Yield, Switched, Fibers!ActiveIsCurrent, Fibers!Itself
<1>2. Switched'
  BY <1>1, LeaveSwitches DEF Fibers!Yield
<1>3. Owned'
  BY DEF Fibers!Yield, Owned, Fibers!OneOwner
<1> QED
  BY <1>2, <1>3

\* The end of a coroutine's function.
LEMMA FinishStep ==
  ASSUME ContextsApart, Switched, Owned, NEW t \in Threads, Fibers!Finish(t)
  PROVE  Switched' /\ Owned'
<1> DEFINE c == current[t]
<1>1. c \in Coros
  BY DEF Fibers!Finish
<1>2. Switched'
  BY <1>1, LeaveSwitches DEF Fibers!Finish
<1>3. /\ \A d \in isRunning : block'[d] = "live"
      /\ block' \in [Coros -> {"unborn", "live", "freed"}]
  <2>1. Fibers!Locals(c) \in SUBSET Scopes
    BY DEF Fibers!Locals
  <2> QED
    BY <2>1, OnlyRestingFreed DEF Fibers!Finish
<1>4. /\ closure' \in [Coros -> {"none", "live", "deleted"}]
      /\ handle' \in [Scopes -> Coros \cup {None}]
      /\ scope' \in [Scopes -> Fibers!Contexts \cup {None}]
  BY DEF Fibers!Finish, Owned
<1>5. Fibers!OneOwner'
  <2>1. ASSUME NEW h \in Scopes, handle'[h] # None
        PROVE  /\ handle'[h] = handle[h] /\ block'[handle[h]] = "live"
               /\ scope'[h] # None
    <3>1. h \notin Fibers!Locals(c) /\ handle'[h] = handle[h] /\ scope'[h] = scope[h]
      BY <2>1 DEF Fibers!Finish
    <3>2. handle[h] \notin {handle[g] : g \in Fibers!Locals(c)}
      BY <2>1, <3>1 DEF Owned, Fibers!OneOwner, Fibers!Locals
    <3> QED
      BY <2>1, <3>1, <3>2 DEF Fibers!Finish, Fibers!Freed, Owned, Fibers!OneOwner
  <2> QED
    BY <2>1 DEF Owned, Fibers!OneOwner
<1>6. isRunning' \subseteq isRunning
  BY DEF Fibers!Finish
<1> QED
  BY <1>2, <1>3, <1>4, <1>5, <1>6 DEF Owned

\* Every step preserves the invariant, unless a coroutine that runs is resumed.
LEMMA Step ==
  ASSUME ContextsApart, Switched, Owned, [Fibers!Next]_Fibers!vars, ~misused'
  PROVE  Switched' /\ Owned'
<1>1. CASE UNCHANGED Fibers!vars
  BY <1>1 DEF Fibers!vars, Switched, Owned, Fibers!ActiveIsCurrent, Fibers!Itself, Fibers!OneOwner
<1>2. ASSUME NEW t \in Threads, NEW h \in Scopes,
             \/ Fibers!Construct(t, h) \/ Fibers!Destroy(t, h) \/ Fibers!Destruct(t, h)
             \/ \E g \in Scopes : Fibers!MoveConstruct(t, g, h) \/ Fibers!MoveAssign(t, g, h)
      PROVE  Switched' /\ Owned'
  <2>1. Owned' /\ UNCHANGED <<isDone, Fibers!switching>>
    BY <1>2, ObjectStep
  <2> QED
    BY <2>1 DEF Fibers!switching, Switched, Fibers!ActiveIsCurrent, Fibers!Itself
<1>3. CASE Fibers!Next
  BY <1>2, <1>3, ResumeStep, YieldStep, FinishStep DEF Fibers!Next
<1> QED
  BY <1>1, <1>3

-----------------------------------------------------------------------------
(* The theorems *)

Sound == misused \/ (Switched /\ Owned)

LEMMA SoundStep ==
  ASSUME ContextsApart, Sound, [Fibers!Next]_Fibers!vars
  PROVE  Sound'
<1>1. CASE misused
  BY <1>1 DEF Sound, Fibers!Next, Fibers!vars
<1>2. CASE ~misused
  BY <1>2, Step DEF Sound
<1> QED
  BY <1>1, <1>2

\* Unless a coroutine that runs or waits is resumed: what runs or waits is live and on one
\* thread's stack of resumes, the thread's pointer to the active coroutine says what runs
\* there, and every coroutine has one owner.
THEOREM CoroutinesConsistent ==
  ASSUME ContextsApart
  PROVE  Fibers!Spec => []Fibers!FibersSafe
<1>1. Fibers!Init => Sound
  BY Initially DEF Sound
<1>2. Sound /\ [Fibers!Next]_Fibers!vars => Sound'
  BY SoundStep
<1>3. Sound => Fibers!FibersSafe
  BY Parts DEF Sound, Fibers!FibersSafe
<1> QED
  BY <1>1, <1>2, <1>3, PTL DEF Fibers!Spec

\* Who waits for each coroutine, as Nesting has it.
Resumer == [c \in Coros |-> IF c \in isRunning THEN callerCtx[c] ELSE None]

\* Control goes back to the context that resumed a coroutine last, at a yield and at the end,
\* up to the step in which one that runs is resumed.
THEOREM CoroutinesNest ==
  ASSUME ContextsApart
  PROVE  Fibers!Spec => Fibers!ImplementsNesting
<1>1. Fibers!Init => Fibers!Abstract!Init
  BY DEF Fibers!Init, Fibers!Abstract!Init
<1>2. Sound /\ [Fibers!Next]_Fibers!vars => Fibers!NestsStep
  <2> SUFFICES ASSUME Switched, Owned, [Fibers!Next]_Fibers!vars, ~misused'
               PROVE  Fibers!Abstract!Next \/ UNCHANGED Fibers!Abstract!vars
    BY DEF Sound, Fibers!NestsStep, Fibers!Next, Fibers!vars
  <2>1. CASE UNCHANGED Fibers!vars
    BY <2>1 DEF Fibers!vars, Fibers!Abstract!vars
  <2>2. ASSUME NEW t \in Threads, NEW h \in Scopes,
               \/ Fibers!Construct(t, h) \/ Fibers!Destroy(t, h) \/ Fibers!Destruct(t, h)
               \/ \E g \in Scopes : Fibers!MoveConstruct(t, g, h) \/ Fibers!MoveAssign(t, g, h)
        PROVE  UNCHANGED Fibers!Abstract!vars
    <3>1. UNCHANGED <<isDone, isRunning, callerCtx, current>>
      BY <2>2, ObjectStep DEF Fibers!switching
    <3> QED
      BY <3>1 DEF Fibers!Abstract!vars
  <2>3. ASSUME NEW t \in Threads, NEW h \in Scopes, Fibers!Resume(t, h)
        PROVE  \E c \in Coros : Fibers!Abstract!Resume(t, c)
    <3>1. PICK c \in Coros : c = handle[h]
      BY <2>3 DEF Fibers!Resume, Owned
    <3>2. ctx[c] = c
      BY DEF Switched, Fibers!ActiveIsCurrent
    <3>3. Resumer' = [Resumer EXCEPT ![c] = current[t]]
      BY <2>3, <3>1 DEF Fibers!Resume, Resumer, Switched
    <3>4. Fibers!Abstract!Resume(t, c)
      BY <2>3, <3>1, <3>2, <3>3 DEF Fibers!Resume, Resumer, Fibers!Abstract!Resume
    <3> QED
      BY <3>4
  <2>4. ASSUME NEW t \in Threads, Fibers!Yield(t) \/ Fibers!Finish(t)
        PROVE  \E c \in Coros : Fibers!Abstract!Yield(t, c) \/ Fibers!Abstract!End(t, c)
    <3>1. PICK c \in Coros : c = current[t]
      BY <2>4 DEF Fibers!Yield, Fibers!Finish, Switched, Fibers!ActiveIsCurrent, Fibers!Itself
    <3>2. c \in isRunning /\ (Fibers!Yield(t) => active[t] = c)
      BY <3>1 DEF Switched, Fibers!ActiveIsCurrent, Fibers!Itself, ContextsApart
    <3>3. isRunning' = isRunning \ {c} /\ current' = [current EXCEPT ![t] = callerCtx[c]]
          /\ UNCHANGED callerCtx
      BY <2>4, <3>1, <3>2 DEF Fibers!Yield, Fibers!Finish, Fibers!BackIn
    <3>4. Resumer' = [Resumer EXCEPT ![c] = None] /\ Resumer[c] = callerCtx[c]
      BY <3>2, <3>3 DEF Resumer
    <3>5. Fibers!Abstract!Leave(t, c)
      BY <3>1, <3>3, <3>4 DEF Resumer, Fibers!Abstract!Leave
    <3>6. CASE Fibers!Yield(t)
      BY <3>5, <3>6 DEF Fibers!Yield, Fibers!Abstract!Yield
    <3>7. CASE Fibers!Finish(t)
      BY <3>1, <3>5, <3>7 DEF Fibers!Finish, Fibers!Abstract!End
    <3> QED
      BY <2>4, <3>6, <3>7
  <2>5. CASE Fibers!Next
    BY <2>2, <2>3, <2>4, <2>5 DEF Fibers!Next, Fibers!Abstract!Next
  <2> QED
    BY <2>1, <2>5
<1>3. Sound /\ [Fibers!Next]_Fibers!vars => Sound'
  BY SoundStep
<1>4. Fibers!Init => Sound
  BY Initially DEF Sound
<1>5. Sound /\ [Fibers!Next]_Fibers!vars => [Fibers!NestsStep]_Fibers!vars
  BY <1>2
<1> QED
  BY <1>1, <1>3, <1>4, <1>5, PTL DEF Fibers!Spec, Fibers!ImplementsNesting

-----------------------------------------------------------------------------
(* CoroGlobal: the process-wide pool of coroutines *)

Making == {"clear", "cleared", "init", "flag"}

\* Before the mutex exists, one connection at most is about to make it, and nothing else
\* has happened.
MutexMade ==
  IF lock_initialized THEN initialized /\ \A c \in Conns : stands[c] \notin Making
  ELSE /\ ~locked /\ pool = None /\ ref_count = 0
       /\ \A c \in Conns : stands[c] \in {"idle"} \cup Making /\ (stands[c] \in {"init", "flag"} => initialized)
       /\ \A c, d \in Conns : stands[c] # "idle" /\ stands[d] # "idle" => c = d

\* The mutex excludes: one connection at most is inside.
MutexHeld ==
  /\ locked <=> Shared!Inside # {}
  /\ \A c, d \in Shared!Inside : c = d

\* What is true of the pool wherever the connection inside stands.
PoolKept ==
  /\ pool # None => pools[pool] = "live"
  /\ \A p \in Pools : pools[p] = "live" => pool = p
  /\ pool # None /\ ~locked => \E c \in Conns : has[c] # None
  /\ \A c \in Conns : has[c] # None => has[c] = pool /\ stands[c] = "idle"
  /\ \A c \in Conns : stands[c] \in {"starting", "joining", "closing"} =>
       pool # None /\ \A d \in Conns : has[d] = None

\* The invariant as long as no two connections have made the mutex at once.
SharedInv ==
  SharedAssumption /\ Shared!TypeOK /\ Shared!RefCountExact /\ MutexMade /\ MutexHeld /\ PoolKept

Sharers == {c \in Conns : has[c] # None}

\* The instance counts as this module does.
LEMMA SharedCardinality ==
  ASSUME NEW S
  PROVE  Shared!Cardinality(S) = Cardinality(S)
BY DEF Shared!Cardinality, Cardinality

LEMMA SharedCount ==
  Shared!RefCountExact <=> ((\A c \in Conns : stands[c] # "closing") => ref_count = Cardinality(Sharers))
BY SharedCardinality DEF Shared!RefCountExact, Sharers

LEMMA SharersCounted ==
  ASSUME SharedInv
  PROVE  IsFiniteSet(Sharers) /\ Cardinality(Sharers) \in Nat
<1>1. IsFiniteSet(Sharers)
  BY FS_Subset DEF SharedInv, SharedAssumption, Sharers
<1> QED
  BY <1>1, FS_CardinalityType

LEMMA SharedInitially ==
  ASSUME SharedAssumption, Shared!Init
  PROVE  SharedInv
<1>1. Sharers = {}
  BY DEF Shared!Init, Sharers
<1>2. Cardinality(Sharers) = 0 /\ ref_count = 0
  BY <1>1, FS_EmptySet DEF Shared!Init
<1>3. Shared!RefCountExact
  BY <1>2, SharedCount
<1>4. Shared!TypeOK /\ MutexMade /\ PoolKept
  BY DEF Shared!Init, Shared!TypeOK, MutexMade, PoolKept, SharedAssumption
<1>5. MutexHeld
  BY DEF Shared!Init, MutexHeld, Shared!Inside
<1> QED
  BY <1>3, <1>4, <1>5 DEF SharedInv

\* The count of sharers when one of them comes or goes.
LEMMA SharerCount ==
  ASSUME SharedInv, NEW c \in Conns, NEW x, has' = [has EXCEPT ![c] = x], (has[c] = None) # (x = None)
  PROVE  Cardinality(Sharers') = IF x = None THEN Cardinality(Sharers) - 1 ELSE Cardinality(Sharers) + 1
<1>1. IsFiniteSet(Sharers) /\ Cardinality(Sharers) \in Nat
  BY SharersCounted
<1>2. CASE x = None
  <2>1. Sharers' = Sharers \ {c} /\ c \in Sharers
    BY <1>2 DEF SharedInv, Shared!TypeOK, Sharers
  <2>2. Cardinality(Sharers \ {c}) = Cardinality(Sharers) - 1
    BY <1>1, <2>1, FS_RemoveElement
  <2> QED
    BY <1>2, <2>1, <2>2
<1>3. CASE x # None
  <2>1. Sharers' = Sharers \cup {c} /\ c \notin Sharers
    BY <1>3 DEF SharedInv, Shared!TypeOK, Sharers
  <2>2. Cardinality(Sharers \cup {c}) = Cardinality(Sharers) + 1
    BY <1>1, <2>1, FS_AddElement
  <2> QED
    BY <1>3, <2>1, <2>2
<1> QED
  BY <1>2, <1>3

\* Steps before the critical section.
SharedEntry(c) ==
  \/ Shared!Begin(c) \/ Shared!Clear(c) \/ Shared!Cleared(c)
  \/ Shared!InitLock(c) \/ Shared!SetFlag(c) \/ Shared!Lock(c)

LEMMA SharedEnters ==
  ASSUME SharedInv, NEW c \in Conns, ~raced', SharedEntry(c)
  PROVE  SharedInv'
<1> USE DEF SharedEntry
<1>1. UNCHANGED <<pool, ref_count, pools, has>>
  BY DEF Shared!Begin, Shared!Clear, Shared!Cleared, Shared!InitLock, Shared!SetFlag, Shared!Lock, Shared!Goes,
     SharedInv, MutexMade, Making
<1>2. \E to \in Making \cup {"lock", "inside"} : stands' = [stands EXCEPT ![c] = to]
  BY DEF Shared!Begin, Shared!Clear, Shared!Cleared, Shared!InitLock, Shared!SetFlag, Shared!Lock, Shared!Goes,
     Shared!Looks, Making
<1>3. Shared!TypeOK'
  BY <1>1, <1>2 DEF SharedInv, Shared!TypeOK, Making, Shared!making, Shared!Begin, Shared!Clear, Shared!Cleared,
     Shared!InitLock, Shared!SetFlag, Shared!Lock
<1>4. \A d \in Conns : d # c => stands'[d] = stands[d]
  BY <1>2 DEF SharedInv, Shared!TypeOK
<1>5. /\ has[c] = None /\ stands[c] \in Making \cup {"idle", "lock"}
      /\ stands'[c] \in Making \cup {"lock", "inside"}
  BY <1>2 DEF Shared!Begin, Shared!Clear, Shared!Cleared, Shared!InitLock, Shared!SetFlag, Shared!Lock, Shared!Goes,
     Shared!Looks, SharedInv, Shared!TypeOK, PoolKept, Making
<1>6. Shared!RefCountExact'
  BY <1>1, <1>4, <1>5 DEF SharedInv, Shared!RefCountExact, Making
<1>7. MutexMade'
  <2>1. CASE Shared!Lock(c)
    BY <2>1, <1>1, <1>4, <1>5 DEF SharedInv, Shared!TypeOK, MutexMade, Making, Shared!Lock, Shared!Goes, Shared!making
  <2>2. CASE Shared!SetFlag(c)
    <3>1. ~lock_initialized /\ initialized'
      BY <2>2 DEF SharedInv, MutexMade, Making, Shared!SetFlag, Shared!Goes, Shared!making
    <3>2. \A d \in Conns : stands'[d] \notin Making
      BY <2>2, <3>1, <1>4 DEF SharedInv, Shared!TypeOK, MutexMade, Making, Shared!SetFlag, Shared!Goes
    <3> QED
      BY <2>2, <3>1, <3>2 DEF MutexMade, Shared!SetFlag
  <2>3. CASE Shared!Begin(c)
    BY <2>3, <1>1, <1>4, <1>5 DEF SharedInv, Shared!TypeOK, MutexMade, Making, Shared!Begin, Shared!Goes,
       Shared!Looks, Shared!Alone
  <2>4. CASE Shared!Clear(c) \/ Shared!Cleared(c) \/ Shared!InitLock(c)
    BY <2>4, <1>1, <1>4, <1>5 DEF SharedInv, Shared!TypeOK, MutexMade, Making, Shared!Clear, Shared!Cleared,
       Shared!InitLock, Shared!Goes, Shared!Looks, Shared!making
  <2> QED
    BY <2>1, <2>2, <2>3, <2>4
<1>8. MutexHeld'
  <2>1. CASE Shared!Lock(c)
    <3>1. Shared!Inside = {} /\ locked'
      BY <2>1 DEF SharedInv, MutexHeld, Shared!Lock
    <3>2. Shared!Inside' = {c}
      BY <2>1, <1>4, <3>1 DEF Shared!Inside, Shared!Lock, Shared!Goes, SharedInv, Shared!TypeOK
    <3> QED
      BY <3>1, <3>2 DEF MutexHeld
  <2>2. CASE ~Shared!Lock(c)
    <3>1. locked' = locked /\ stands'[c] \in Making \cup {"lock"}
      BY <2>2 DEF Shared!Begin, Shared!Clear, Shared!Cleared, Shared!InitLock, Shared!SetFlag, Shared!Goes,
         Shared!Looks, SharedInv, Shared!TypeOK, MutexMade, Making
    <3>2. Shared!Inside' = Shared!Inside
      BY <1>4, <1>5, <3>1 DEF Shared!Inside, Making
    <3> QED
      BY <3>1, <3>2 DEF MutexHeld, SharedInv
  <2> QED
    BY <2>1, <2>2
<1>9. PoolKept'
  BY <1>1, <1>4, <1>5 DEF SharedInv, PoolKept, Shared!Begin, Shared!Clear, Shared!Cleared, Shared!InitLock,
     Shared!SetFlag, Shared!Lock, Shared!Goes, MutexMade, Making
<1> QED
  BY <1>3, <1>6, <1>7, <1>8, <1>9 DEF SharedInv, SharedAssumption

\* The connection inside, and what the others may do meanwhile.
LEMMA OneInside ==
  ASSUME SharedInv, NEW c \in Shared!Inside
  PROVE  /\ locked /\ lock_initialized
         /\ \A d \in Conns : d # c => stands[d] \in {"idle", "lock"}
BY DEF SharedInv, MutexMade, Making, MutexHeld, Shared!Inside, Shared!TypeOK

\* A connection that leaves the critical section.
LEMMA SharedLeft ==
  ASSUME SharedInv, NEW c \in Shared!Inside, stands' = [stands EXCEPT ![c] = "idle"], locked' = FALSE,
         UNCHANGED <<initialized, lock_initialized>>
  PROVE  /\ MutexMade' /\ MutexHeld'
         /\ \A d \in Conns : stands'[d] \in {"idle", "lock"}
<1>1. c \in Conns /\ lock_initialized /\ \A d \in Conns : d # c => stands[d] \in {"idle", "lock"}
  BY OneInside DEF Shared!Inside
<1>2. \A d \in Conns : stands'[d] \in {"idle", "lock"}
  BY <1>1 DEF SharedInv, Shared!TypeOK
<1> QED
  BY <1>1, <1>2 DEF SharedInv, MutexMade, Making, MutexHeld, Shared!Inside

LEMMA SharedAllocates ==
  ASSUME SharedInv, NEW c \in Conns, (\E p \in Pools : Shared!Allocate(c, p)) \/ Shared!AllocateFails(c)
  PROVE  SharedInv'
<1>1. /\ stands[c] = "inside" /\ pool = None /\ c \in Shared!Inside
      /\ UNCHANGED <<initialized, raced, lock_initialized, ref_count, has>>
  BY DEF Shared!making, Shared!Allocate, Shared!AllocateFails, Shared!Goes, Shared!Inside
<1>2. \A d \in Conns : has[d] = None
  BY <1>1 DEF SharedInv, PoolKept
<1>3. \A d \in Conns : d # c => stands[d] \in {"idle", "lock"}
  BY <1>1, OneInside
<1>4. CASE Shared!AllocateFails(c)
  <2>1. MutexMade' /\ MutexHeld' /\ \A d \in Conns : stands'[d] \in {"idle", "lock"}
    BY <1>1, <1>4, SharedLeft DEF Shared!AllocateFails, Shared!Goes
  <2>2. Shared!TypeOK' /\ PoolKept'
    BY <1>1, <1>2, <1>4, <2>1 DEF Shared!AllocateFails, Shared!Goes, SharedInv, Shared!TypeOK, PoolKept
  <2>3. Shared!RefCountExact'
    BY <1>1, <1>3, <2>1 DEF SharedInv, Shared!RefCountExact
  <2> QED
    BY <2>1, <2>2, <2>3 DEF SharedInv, SharedAssumption
<1>5. ASSUME NEW p \in Pools, Shared!Allocate(c, p) PROVE SharedInv'
  <2>1. /\ stands' = [stands EXCEPT ![c] = "starting"] /\ pool' = p /\ pools' = [pools EXCEPT ![p] = "live"]
        /\ UNCHANGED locked
    BY <1>5 DEF Shared!Allocate, Shared!Goes
  <2>2. \A d \in Conns : stands'[d] = IF d = c THEN "starting" ELSE stands[d]
    BY <2>1 DEF SharedInv, Shared!TypeOK
  <2>3. Shared!TypeOK'
    BY <1>1, <2>1 DEF SharedInv, Shared!TypeOK
  <2>4. Shared!Inside' = Shared!Inside
    BY <1>1, <2>2 DEF Shared!Inside
  <2>5. MutexHeld'
    BY <2>1, <2>4 DEF SharedInv, MutexHeld
  <2>6. MutexMade'
    BY <1>1, <2>2, OneInside DEF SharedInv, MutexMade, Making
  <2>7. Shared!RefCountExact'
    BY <1>1, <2>2 DEF SharedInv, Shared!RefCountExact
  <2>8. PoolKept'
    <3>1. p # None /\ \A q \in Pools : pools'[q] = IF q = p THEN "live" ELSE pools[q]
      BY <2>1 DEF SharedInv, SharedAssumption, Shared!TypeOK
    <3>2. \A q \in Pools : pools[q] # "live"
      BY <1>1 DEF SharedInv, SharedAssumption, PoolKept
    <3>3. locked'
      BY <1>1, <2>1, OneInside
    <3> QED
      BY <1>1, <1>2, <2>1, <3>1, <3>2, <3>3 DEF PoolKept
  <2> QED
    BY <2>3, <2>5, <2>6, <2>7, <2>8 DEF SharedInv, SharedAssumption
<1> QED
  BY <1>4, <1>5

\* The pool is destroyed: nobody has it.
LEMMA SharedFrees ==
  ASSUME SharedInv, NEW c \in Conns, Shared!StartFails(c) \/ Shared!ReleaseFrees(c) \/ Shared!ShutdownFrees(c)
  PROVE  SharedInv'
<1>1. /\ stands[c] \in {"starting", "joining", "closing"} /\ c \in Shared!Inside
      /\ stands' = [stands EXCEPT ![c] = "idle"]
      /\ pools' = [p \in Pools |-> IF p = pool THEN "freed" ELSE pools[p]]
      /\ pool' = None /\ locked' = FALSE
      /\ IF stands[c] = "closing" THEN ref_count' = 0 ELSE UNCHANGED ref_count
      /\ UNCHANGED <<initialized, raced, lock_initialized, has>>
  BY DEF Shared!making, Shared!StartFails, Shared!ReleaseFrees, Shared!ShutdownFrees, Shared!FreePool, Shared!Goes,
     Shared!Inside
<1>2. pool # None /\ pool \in Pools /\ \A d \in Conns : has[d] = None
  BY <1>1 DEF SharedInv, PoolKept, Shared!TypeOK
<1>3. MutexMade' /\ MutexHeld' /\ \A d \in Conns : stands'[d] \in {"idle", "lock"}
  BY <1>1, SharedLeft
<1>4. Sharers = {} /\ Sharers' = {}
  BY <1>1, <1>2 DEF Sharers
<1>5. Cardinality({}) = 0
  BY FS_EmptySet
<1>6. ref_count' = 0
  <2>1. CASE stands[c] = "closing"
    BY <1>1, <2>1
  <2>2. CASE stands[c] # "closing"
    <3>1. \A d \in Conns : stands[d] # "closing"
      BY <1>1, <2>2, OneInside
    <3> QED
      BY <1>1, <1>4, <1>5, <2>2, <3>1, SharedCount DEF SharedInv
  <2> QED
    BY <2>1, <2>2
<1>7. Shared!RefCountExact'
  BY <1>1, <1>2, <1>6, SharedCardinality, <1>4, <1>5 DEF Shared!RefCountExact, Sharers
<1>8. Shared!TypeOK'
  BY <1>1, <1>2, <1>6 DEF SharedInv, Shared!TypeOK
<1>9. PoolKept'
  <2>1. \A q \in Pools : pools'[q] # "live"
    BY <1>1, <1>2 DEF SharedInv, Shared!TypeOK, PoolKept
  <2> QED
    BY <1>1, <1>2, <1>3, <2>1 DEF PoolKept
<1> QED
  BY <1>3, <1>7, <1>8, <1>9 DEF SharedInv, SharedAssumption

LEMMA SharedTakes ==
  ASSUME SharedInv, NEW c \in Conns, Shared!Take(c)
  PROVE  SharedInv'
<1>1. /\ stands[c] \in {"inside", "starting"} /\ c \in Shared!Inside /\ pool # None
      /\ stands' = [stands EXCEPT ![c] = "idle"] /\ ref_count' = ref_count + 1
      /\ has' = [has EXCEPT ![c] = pool] /\ locked' = FALSE
      /\ UNCHANGED <<initialized, raced, lock_initialized, pool, pools>>
  BY DEF Shared!making, SharedInv, PoolKept, Shared!Take, Shared!Goes, Shared!Count, Shared!Inside
<1>2. has[c] = None /\ pool \in Pools
  BY <1>1 DEF SharedInv, PoolKept, Shared!TypeOK
<1>3. MutexMade' /\ MutexHeld' /\ \A d \in Conns : stands'[d] \in {"idle", "lock"}
  BY <1>1, SharedLeft
<1>4. Cardinality(Sharers') = Cardinality(Sharers) + 1
  BY <1>1, <1>2, SharerCount
<1>5. ref_count = Cardinality(Sharers)
  BY <1>1, OneInside, SharedCount DEF SharedInv
<1>6. Shared!RefCountExact'
  BY <1>1, <1>4, <1>5, SharedCardinality DEF Shared!RefCountExact, Sharers
<1>7. Shared!TypeOK'
  <2>1. ref_count' \in Nat
    BY <1>1 DEF SharedInv, Shared!TypeOK
  <2>2. has' \in [Conns -> Pools \cup {None}] /\ stands' \in [Conns -> {"idle", "clear", "cleared", "init",
          "flag", "lock", "inside", "starting", "joining", "closing"}]
    BY <1>1, <1>2 DEF SharedInv, Shared!TypeOK
  <2> QED
    BY <1>1, <2>1, <2>2 DEF SharedInv, Shared!TypeOK
<1>8. PoolKept'
  <2>1. \A d \in Conns : has'[d] = IF d = c THEN pool ELSE has[d]
    BY <1>1 DEF SharedInv, Shared!TypeOK
  <2>2. \A d \in Conns : stands'[d] = IF d = c THEN "idle" ELSE stands[d]
    BY <1>1 DEF SharedInv, Shared!TypeOK
  <2> QED
    BY <1>1, <1>3, <2>1, <2>2 DEF SharedInv, PoolKept
<1> QED
  BY <1>3, <1>6, <1>7, <1>8 DEF SharedInv, SharedAssumption

LEMMA SharedReleases ==
  ASSUME SharedInv, NEW c \in Conns, Shared!ReleaseKeeps(c) \/ Shared!ReleaseLast(c)
  PROVE  SharedInv'
<1>1. /\ stands[c] = "idle" /\ has[c] # None /\ ~locked /\ has' = [has EXCEPT ![c] = None]
      /\ UNCHANGED <<initialized, raced, lock_initialized, pool, pools>>
  BY DEF Shared!making, Shared!ReleaseKeeps, Shared!ReleaseLast, Shared!Goes
<1>2. pool # None /\ has[c] = pool /\ pools[pool] = "live" /\ lock_initialized
  BY <1>1 DEF SharedInv, PoolKept, MutexMade, Making, Shared!TypeOK, SharedAssumption
<1>3. \A d \in Conns : stands[d] \in {"idle", "lock"}
  BY <1>1, <1>2 DEF SharedInv, MutexHeld, MutexMade, Making, Shared!Inside, Shared!TypeOK
<1>4. \A d \in Conns : has'[d] = IF d = c THEN None ELSE has[d]
  BY <1>1 DEF SharedInv, Shared!TypeOK
<1>5. /\ Cardinality(Sharers') = Cardinality(Sharers) - 1 /\ ref_count = Cardinality(Sharers)
      /\ IsFiniteSet(Sharers) /\ c \in Sharers /\ Cardinality(Sharers) \in Nat /\ Cardinality(Sharers) > 0
  <2>1. c \in Sharers /\ IsFiniteSet(Sharers) /\ Cardinality(Sharers) \in Nat
    BY <1>1, SharersCounted DEF Sharers
  <2>2. Cardinality(Sharers) # 0
    BY <2>1, FS_EmptySet
  <2>3. Cardinality(Sharers') = Cardinality(Sharers) - 1
    BY <1>1, SharerCount
  <2>4. ref_count = Cardinality(Sharers)
    BY <1>3, SharedCount DEF SharedInv
  <2> QED
    BY <2>1, <2>2, <2>3, <2>4
<1>6. CASE Shared!ReleaseKeeps(c)
  <2>1. ref_count # 1 /\ ref_count' = ref_count - 1 /\ UNCHANGED <<locked, stands>>
    BY <1>2, <1>5, <1>6 DEF Shared!ReleaseKeeps, Shared!IsLast
  <2>2. \E d \in Conns : d # c /\ has[d] # None
    <3> SUFFICES ASSUME \A d \in Conns : d # c => has[d] = None PROVE FALSE
      OBVIOUS
    <3>1. Sharers = {c}
      BY <1>1 DEF Sharers
    <3>2. Cardinality({c}) = 1
      BY FS_Singleton
    <3> QED
      BY <1>5, <2>1, <3>1, <3>2
  <2>3. Shared!TypeOK'
    BY <1>1, <1>5, <2>1 DEF SharedInv, Shared!TypeOK
  <2>4. Shared!RefCountExact'
    BY <1>5, <2>1, SharedCardinality DEF Shared!RefCountExact, Sharers
  <2>5. MutexMade' /\ MutexHeld'
    BY <1>1, <1>2, <2>1 DEF SharedInv, MutexMade, Making, MutexHeld, Shared!Inside
  <2>6. PoolKept'
    BY <1>1, <1>2, <1>3, <1>4, <2>1, <2>2 DEF SharedInv, PoolKept
  <2> QED
    BY <2>3, <2>4, <2>5, <2>6 DEF SharedInv, SharedAssumption
<1>7. CASE Shared!ReleaseLast(c)
  <2>1. /\ stands' = [stands EXCEPT ![c] = "joining"] /\ locked' = TRUE
        /\ ref_count = 1 /\ ref_count' = 0
    BY <1>7 DEF Shared!ReleaseLast, Shared!Goes, Shared!IsLast
  <2>2. \A d \in Conns : stands'[d] = IF d = c THEN "joining" ELSE stands[d]
    BY <2>1 DEF SharedInv, Shared!TypeOK
  <2>3. \A d \in Conns : has'[d] = None
    <3>1. PICK x : Sharers = {x}
      BY <1>5, <2>1, FS_Singleton
    <3>2. \A d \in Conns : d # c => has[d] = None
      BY <1>5, <3>1 DEF Sharers
    <3> QED
      BY <1>4, <3>2
  <2>4. Shared!TypeOK'
    BY <1>1, <2>1 DEF SharedInv, Shared!TypeOK
  <2>5. Shared!RefCountExact'
    BY <1>5, <2>1, SharedCardinality DEF Shared!RefCountExact, Sharers
  <2>6. Shared!Inside' = {c}
    BY <1>3, <2>2 DEF Shared!Inside
  <2>7. MutexHeld'
    BY <2>1, <2>6 DEF MutexHeld
  <2>8. MutexMade'
    BY <1>1, <1>2, <1>3, <2>2 DEF SharedInv, MutexMade, Making
  <2>9. PoolKept'
    BY <1>1, <1>2, <2>1, <2>3 DEF SharedInv, PoolKept
  <2> QED
    BY <2>4, <2>5, <2>7, <2>8, <2>9 DEF SharedInv, SharedAssumption
<1> QED
  BY <1>6, <1>7

LEMMA SharedShutsDown ==
  ASSUME SharedInv, NEW c \in Conns, Shared!Shutdown(c)
  PROVE  SharedInv'
<1>1. /\ lock_initialized /\ stands' = [stands EXCEPT ![c] = "closing"] /\ locked' = TRUE /\ pool # None
      /\ \A d \in Conns : stands[d] \in {"idle", "lock"}
      /\ has' = [d \in Conns |-> None]
      /\ UNCHANGED <<initialized, raced, lock_initialized, pool, ref_count, pools>>
  BY DEF Shared!making, Shared!Shutdown, Shared!Goes
<1>2. \A d \in Conns : stands'[d] = IF d = c THEN "closing" ELSE stands[d]
  BY <1>1 DEF SharedInv, Shared!TypeOK
<1>3. Shared!TypeOK'
  BY <1>1 DEF SharedInv, Shared!TypeOK
<1>4. Shared!RefCountExact'
  BY <1>2 DEF Shared!RefCountExact
<1>5. Shared!Inside' = {c}
  BY <1>1, <1>2 DEF Shared!Inside
<1>6. MutexHeld' /\ MutexMade'
  BY <1>1, <1>2, <1>5 DEF SharedInv, MutexHeld, MutexMade, Making
<1>7. PoolKept'
  BY <1>1 DEF SharedInv, PoolKept
<1> QED
  BY <1>3, <1>4, <1>6, <1>7 DEF SharedInv, SharedAssumption

\* A release by a connection that has no pool any more does nothing, and none has before
\* the mutex exists.
LEMMA SharedSkips ==
  ASSUME SharedInv, NEW c \in Conns, Shared!ReleaseSkips(c)
  PROVE  FALSE
BY DEF SharedInv, Shared!TypeOK, MutexMade, PoolKept, Shared!ReleaseSkips

LEMMA SharedInvariance ==
  ASSUME SharedInv, [Shared!Next]_(Shared!vars), ~raced'
  PROVE  SharedInv'
<1>1. CASE UNCHANGED Shared!vars
  BY <1>1 DEF Shared!vars, SharedInv, SharedAssumption, Shared!TypeOK, Shared!RefCountExact, MutexMade, MutexHeld,
              PoolKept, Shared!Inside
<1>2. CASE Shared!Next
  BY <1>2, SharedEnters, SharedAllocates, SharedFrees, SharedTakes, SharedReleases, SharedShutsDown, SharedSkips
     DEF Shared!Next, SharedEntry
<1> QED
  BY <1>1, <1>2

\* The types hold in any case.
LEMMA SharedTyped ==
  ASSUME Shared!TypeOK, [Shared!Next]_(Shared!vars)
  PROVE  Shared!TypeOK'
<1>1. CASE UNCHANGED Shared!vars
  BY <1>1 DEF Shared!vars, Shared!TypeOK
<1>2. ASSUME NEW c \in Conns, NEW p \in Pools, Shared!Allocate(c, p)
      PROVE  Shared!TypeOK'
  BY <1>2 DEF Shared!TypeOK, Shared!making, Shared!Allocate, Shared!Goes
<1>3. ASSUME NEW c \in Conns,
             \/ Shared!Begin(c)
             \/ Shared!Clear(c)
             \/ Shared!Cleared(c)
             \/ Shared!InitLock(c)
             \/ Shared!SetFlag(c)
             \/ Shared!Lock(c)
             \/ Shared!AllocateFails(c)
             \/ Shared!StartFails(c)
             \/ Shared!Take(c)
             \/ Shared!ReleaseSkips(c)
             \/ Shared!ReleaseKeeps(c)
             \/ Shared!ReleaseLast(c)
             \/ Shared!ReleaseFrees(c)
             \/ Shared!Shutdown(c)
             \/ Shared!ShutdownFrees(c)
      PROVE  Shared!TypeOK'
  <2>1. CASE Shared!Begin(c)
    BY <2>1 DEF Shared!TypeOK, Shared!making, Shared!Begin, Shared!Looks, Shared!Goes
  <2>2. CASE Shared!Clear(c)
    BY <2>2 DEF Shared!TypeOK, Shared!making, Shared!Clear, Shared!Goes
  <2>3. CASE Shared!Cleared(c)
    BY <2>3 DEF Shared!TypeOK, Shared!making, Shared!Cleared, Shared!Looks, Shared!Goes
  <2>4. CASE Shared!InitLock(c)
    BY <2>4 DEF Shared!TypeOK, Shared!making, Shared!InitLock, Shared!Goes
  <2>5. CASE Shared!SetFlag(c)
    BY <2>5 DEF Shared!TypeOK, Shared!making, Shared!SetFlag, Shared!Goes
  <2>6. CASE Shared!Lock(c)
    BY <2>6 DEF Shared!TypeOK, Shared!making, Shared!Lock, Shared!Goes
  <2>7. CASE Shared!AllocateFails(c)
    BY <2>7 DEF Shared!TypeOK, Shared!making, Shared!AllocateFails, Shared!Goes
  <2>8. CASE Shared!StartFails(c)
    BY <2>8 DEF Shared!TypeOK, Shared!making, Shared!StartFails, Shared!FreePool, Shared!Goes
  <2>9. CASE Shared!Take(c)
    <3>1. stands' = [stands EXCEPT ![c] = "idle"] /\ ref_count' = ref_count + 1 /\ has' = [has EXCEPT ![c] = pool]
          /\ locked' = FALSE /\ UNCHANGED <<initialized, raced, lock_initialized, pool, pools>>
      BY <2>9 DEF Shared!making, Shared!Take, Shared!Count, Shared!Goes
    <3>2. ref_count' \in Nat /\ has' \in [Conns -> Pools \cup {None}]
      BY <3>1 DEF Shared!TypeOK
    <3> QED
      BY <3>1, <3>2 DEF Shared!TypeOK
  <2>10. CASE Shared!ReleaseSkips(c)
    BY <2>10 DEF Shared!TypeOK, Shared!making, Shared!ReleaseSkips
  <2>11. CASE Shared!ReleaseKeeps(c)
    BY <2>11 DEF Shared!TypeOK, Shared!making, Shared!ReleaseKeeps
  <2>12. CASE Shared!ReleaseLast(c)
    BY <2>12 DEF Shared!TypeOK, Shared!making, Shared!ReleaseLast, Shared!IsLast, Shared!Goes
  <2>13. CASE Shared!ReleaseFrees(c)
    BY <2>13 DEF Shared!TypeOK, Shared!making, Shared!ReleaseFrees, Shared!FreePool, Shared!Goes
  <2>14. CASE Shared!Shutdown(c)
    BY <2>14 DEF Shared!TypeOK, Shared!making, Shared!Shutdown, Shared!Goes
  <2>15. CASE Shared!ShutdownFrees(c)
    BY <2>15 DEF Shared!TypeOK, Shared!making, Shared!ShutdownFrees, Shared!FreePool, Shared!Goes
  <2> QED
    BY <1>3, <2>1, <2>2, <2>3, <2>4, <2>5, <2>6, <2>7, <2>8, <2>9, <2>10, <2>11, <2>12, <2>13, <2>14, <2>15
<1>4. CASE Shared!Next
  BY <1>2, <1>3, <1>4 DEF Shared!Next
<1> QED
  BY <1>1, <1>4

\* What the run checks follows from the invariant.
LEMMA SharedFollows ==
  ASSUME SharedInv
  PROVE  Shared!SharedSafe
<1>1. Shared!SharedPool
  BY DEF SharedInv, PoolKept, Shared!SharedPool
<1>2. Shared!NoPoolLeft
  <2> SUFFICES ASSUME NEW p \in Pools, pools[p] = "live", Shared!Inside = {}
               PROVE  pool = p /\ \E c \in Conns : has[c] = p
    BY DEF Shared!NoPoolLeft, SharedInv, PoolKept
  <2> QED
    BY DEF SharedInv, SharedAssumption, MutexHeld, PoolKept
<1> QED
  BY <1>1, <1>2 DEF SharedInv, Shared!SharedSafe

SharedKept == Shared!TypeOK /\ (raced \/ SharedInv)

\* Unless two connections made the mutex at once: all connections share one pool, counted
\* exactly, which lives as long as one of them has it and no longer, whatever fails and
\* however shutdowns and later acquires follow one another.
THEOREM SharedPoolSafe ==
  ASSUME SharedAssumption
  PROVE  Shared!Spec => []Shared!SharedSafe
<1>1. Shared!Init => SharedKept
  BY SharedInitially DEF SharedKept, SharedInv
<1>2. SharedKept /\ [Shared!Next]_(Shared!vars) => SharedKept'
  <2> SUFFICES ASSUME SharedKept, [Shared!Next]_(Shared!vars) PROVE SharedKept'
    OBVIOUS
  <2>1. raced => raced'
    BY DEF Shared!Next, Shared!vars, Shared!making, Shared!Begin, Shared!Clear, Shared!Cleared, Shared!InitLock,
       Shared!SetFlag, Shared!Lock, Shared!AllocateFails, Shared!StartFails, Shared!Take, Shared!Allocate,
       Shared!ReleaseSkips, Shared!ReleaseKeeps, Shared!ReleaseLast, Shared!ReleaseFrees, Shared!Shutdown,
       Shared!ShutdownFrees
  <2> QED
    BY <2>1, SharedTyped, SharedInvariance DEF SharedKept
<1>3. SharedKept => Shared!SharedSafe
  BY SharedFollows DEF SharedKept, Shared!SharedSafe
<1> QED
  BY <1>1, <1>2, <1>3, PTL DEF Shared!Spec

-----------------------------------------------------------------------------
(* TransactionGuards: the guards over the transaction state of a connection *)

\* Savepoint k is that of guard i, and no active guard inside it bears a name that SQLite
\* would look for at or below k.
Held(i, k) ==
  /\ Guards!IsLatest(k, guards[i].name) /\ savepoints[k].start = guards[i].start
  /\ \A j \in DOMAIN guards : j > i /\ guards[j].active =>
       /\ guards[j].name # guards[i].name
       /\ \A l \in 1..(k - 1) : savepoints[l].name # guards[j].name

\* What an active guard stands for, with nothing but savepoints inside it.
Stands(i) ==
  /\ \A j \in DOMAIN guards : j > i /\ guards[j].active => guards[j].kind = "savepoint"
  /\ IF guards[i].kind = "transaction"
       THEN i = 1 /\ tx = "begin" /\ guards[i].start = committed
       ELSE \E k \in DOMAIN savepoints : Held(i, k)

\* Outside a transaction nothing is pending, and BEGIN has a guard that will end it, or had
\* one that could not.
Begun ==
  /\ tx = "none" => savepoints = <<>> /\ data = committed
  /\ tx = "begin" /\ ~stranded => \E i \in DOMAIN guards : guards[i].kind = "transaction" /\ guards[i].active

AllStand == \A i \in DOMAIN guards : Guards!Nested(i) => Stands(i)

GuardsInv == GuardsAssumption /\ Guards!TypeOK /\ Begun /\ AllStand

\* Within an active guard a transaction is open.
LEMMA NestedIsOpen ==
  ASSUME GuardsInv, NEW i \in DOMAIN guards, Guards!Nested(i)
  PROVE  tx # "none" /\ guards[i].active
<1>1. Stands(i)
  BY DEF GuardsInv, AllStand
<1>2. guards[i].active
  BY DEF Guards!Nested, GuardsInv, Guards!TypeOK
<1> QED
  BY <1>1, <1>2 DEF Stands, GuardsInv, Begun

\* No guard becomes nested again, and the guards of a nested one are its own.
Fewer ==
  \A i \in DOMAIN guards' :
    /\ i \in DOMAIN guards
    /\ guards'[i].kind = guards[i].kind /\ guards'[i].name = guards[i].name
    /\ guards'[i].start = guards[i].start
    /\ (guards'[i].active => guards[i].active) /\ (guards[i].undone => guards'[i].undone)

Savepoint == [name : Names, start : Guards!Contents]

Cut ==
  /\ savepoints' \in Seq(Savepoint)
  /\ \A l \in DOMAIN savepoints' : l \in DOMAIN savepoints /\ savepoints'[l] = savepoints[l]

\* A guard whose savepoint is kept, while others end and leave, still stands for it.
LEMMA StillStands ==
  ASSUME GuardsInv, guards' \in Seq(Guards!Guard), Fewer, Cut, NEW i \in DOMAIN guards', Guards!Nested(i),
         tx' = tx, committed' = committed,
         \A k \in DOMAIN savepoints : Held(i, k) => k \in DOMAIN savepoints'
  PROVE  Stands(i)'
<1>1. i \in DOMAIN guards /\ guards'[i].kind = guards[i].kind /\ guards'[i].name = guards[i].name
      /\ guards'[i].start = guards[i].start
  BY DEF Fewer
<1>2. Stands(i)
  BY <1>1 DEF GuardsInv, AllStand
<1>3. \A j \in DOMAIN guards' : j > i /\ guards'[j].active => guards'[j].kind = "savepoint"
  BY <1>2 DEF Fewer, Stands
<1>4. CASE guards[i].kind = "transaction"
  BY <1>1, <1>2, <1>3, <1>4 DEF Stands
<1>5. CASE guards[i].kind # "transaction"
  <2>1. PICK k \in DOMAIN savepoints : Held(i, k)
    BY <1>2, <1>5 DEF Stands
  <2>2. k \in DOMAIN savepoints' /\ savepoints'[k] = savepoints[k]
    BY <2>1 DEF Cut
  <2>3. Held(i, k)'
    <3>1. Guards!IsLatest(k, guards[i].name)'
      BY <1>1, <2>1, <2>2 DEF Held, Guards!IsLatest, Cut
    <3>2. k \in 1..Len(savepoints)
      BY DEF GuardsInv, Guards!TypeOK
    <3>3. \A l \in 1..(k - 1) : l \in DOMAIN savepoints'
      <4>1. DOMAIN savepoints' = 1..Len(savepoints') /\ Len(savepoints') \in Nat
        BY DEF Cut
      <4> QED
        BY <2>2, <4>1
    <3>4. \A j \in DOMAIN guards' : j > i /\ guards'[j].active =>
            guards'[j].name # guards'[i].name /\ \A l \in 1..(k - 1) : savepoints'[l].name # guards'[j].name
      BY <1>1, <2>1, <3>3 DEF Held, Fewer, Cut
    <3> QED
      BY <1>1, <2>1, <2>2, <3>1, <3>4 DEF Held
  <2> QED
    BY <1>1, <1>3, <1>5, <2>2, <2>3 DEF Stands
<1> QED
  BY <1>4, <1>5

\* SQLite ends or returns to the savepoint of an active guard: of the guards around it the
\* nested ones keep theirs.
LEMMA Unwinds ==
  ASSUME GuardsInv, NEW j \in DOMAIN guards, guards[j].active, guards[j].kind = "savepoint",
         Guards!SqlRelease(guards[j].name) \/ Guards!SqlRollbackTo(guards[j].name)
  PROVE  /\ Cut /\ tx' \in {"none", "begin", "savepoint"} /\ {data', committed'} \subseteq Guards!Contents
         /\ tx' = "none" => savepoints' = <<>> /\ data' = committed'
         /\ tx' = "begin" => tx = "begin"
         /\ \A i \in DOMAIN guards : i < j /\ Guards!Nested(i) =>
              /\ tx' = tx /\ committed' = committed
              /\ \A k \in DOMAIN savepoints : Held(i, k) => k \in DOMAIN savepoints'
<1> DEFINE n == guards[j].name
<1>1. PICK m \in DOMAIN savepoints :
        /\ Guards!IsLatest(m, n)
        /\ \/ m = 1 /\ tx = "savepoint" /\ Guards!SqlCommit
           \/ savepoints' = SubSeq(savepoints, 1, m - 1) /\ UNCHANGED <<tx, data, committed>>
           \/ savepoints' = SubSeq(savepoints, 1, m) /\ data' = savepoints[m].start /\ UNCHANGED <<tx, committed>>
  BY DEF Guards!SqlRelease, Guards!SqlRollbackTo, Guards!IsLatest
<1>2. /\ savepoints \in Seq(Savepoint) /\ savepoints # <<>> /\ tx # "none" /\ m \in 1..Len(savepoints)
      /\ savepoints[m].name = n
  BY <1>1 DEF GuardsInv, Guards!TypeOK, Savepoint, Begun, Guards!IsLatest
<1>3. \A i \in DOMAIN guards, k \in DOMAIN savepoints :
        i < j /\ Guards!Nested(i) /\ Held(i, k) => k < m
  <2> SUFFICES ASSUME NEW i \in DOMAIN guards, NEW k \in DOMAIN savepoints, i < j, Held(i, k)
               PROVE  k < m
    OBVIOUS
  <2>1. guards[i].name # n /\ \A l \in 1..(k - 1) : savepoints[l].name # n
    BY DEF Held, GuardsInv, Guards!TypeOK
  <2>2. savepoints[k].name = guards[i].name /\ k \in 1..Len(savepoints)
    BY <1>2 DEF Held, Guards!IsLatest
  <2> QED
    BY <1>2, <2>1, <2>2
<1> HIDE DEF n
<1>4. CASE m = 1 /\ tx = "savepoint" /\ Guards!SqlCommit
  <2>1. tx' = "none" /\ savepoints' = <<>> /\ data' = data /\ committed' = data
    BY <1>4 DEF Guards!SqlCommit, Guards!SqlEnds
  <2>2. \A i \in DOMAIN guards : ~(i < j /\ Guards!Nested(i))
    <3> SUFFICES ASSUME NEW i \in DOMAIN guards, i < j, Guards!Nested(i) PROVE FALSE
      OBVIOUS
    <3>1. Stands(i) /\ guards[i].kind # "transaction"
      BY <1>4 DEF GuardsInv, AllStand, Stands
    <3>2. PICK k \in DOMAIN savepoints : Held(i, k)
      BY <3>1 DEF Stands
    <3>3. k \in 1..Len(savepoints) /\ k < 1
      BY <1>2, <1>3, <1>4, <3>2
    <3> QED
      BY <3>3
  <2> QED
    BY <2>1, <2>2 DEF Cut, GuardsInv, Guards!TypeOK
<1>5. ASSUME NEW l \in {m - 1, m}, savepoints' = SubSeq(savepoints, 1, l), UNCHANGED <<tx, committed>>,
             data' \in Guards!Contents
      PROVE  /\ Cut /\ {data', committed'} \subseteq Guards!Contents /\ tx' # "none"
             /\ \A i \in DOMAIN guards : i < j /\ Guards!Nested(i) =>
                  \A k \in DOMAIN savepoints : Held(i, k) => k \in DOMAIN savepoints'
  <2>1. l \in 0..Len(savepoints)
    BY <1>2
  <2>2. /\ savepoints' \in Seq(Savepoint) /\ Len(savepoints') = l /\ DOMAIN savepoints' = 1..l
        /\ \A h \in 1..l : savepoints'[h] = savepoints[h]
    BY <1>2, <1>5, <2>1
  <2>3. Cut
    BY <1>2, <2>1, <2>2 DEF Cut
  <2>4. \A i \in DOMAIN guards : i < j /\ Guards!Nested(i) =>
          \A k \in DOMAIN savepoints : Held(i, k) => k \in DOMAIN savepoints'
    BY <1>2, <1>3, <2>2
  <2> QED
    BY <1>2, <1>5, <2>3, <2>4 DEF GuardsInv, Guards!TypeOK
<1>6. savepoints[m].start \in Guards!Contents /\ data \in Guards!Contents
  <2>1. savepoints[m] \in Savepoint
    BY <1>2
  <2>2. savepoints[m].start \in Guards!Contents
    BY <2>1 DEF Savepoint
  <2> QED
    BY <2>2 DEF GuardsInv, Guards!TypeOK
<1> QED
  BY <1>1, <1>2, <1>4, <1>5, <1>6 DEF GuardsInv, Guards!TypeOK

\* A guard ends: the index, and what is left of the guards.
LEMMA Inactivated ==
  ASSUME GuardsInv, NEW j \in DOMAIN guards, Guards!Inactivate(j)
  PROVE  /\ guards' \in Seq(Guards!Guard) /\ Len(guards') = Len(guards) /\ DOMAIN guards' = DOMAIN guards /\ Fewer
         /\ \A i \in DOMAIN guards : guards'[i].active <=> guards[i].active /\ i # j
         /\ \A i \in DOMAIN guards' : Guards!Nested(i)' => Guards!Nested(i) /\ i < j
<1> DEFINE g == [guards[j] EXCEPT !.active = FALSE]
<1>1. guards \in Seq(Guards!Guard) /\ guards' = [guards EXCEPT ![j] = g] /\ guards[j] \in Guards!Guard
  BY DEF GuardsInv, Guards!TypeOK, Guards!Inactivate
<1>2. /\ g \in Guards!Guard /\ g.kind = guards[j].kind /\ g.name = guards[j].name /\ g.start = guards[j].start
      /\ g.undone = guards[j].undone /\ ~g.active
  BY <1>1 DEF Guards!Guard
<1> HIDE DEF g
<1>3. guards' \in Seq(Guards!Guard) /\ Len(guards') = Len(guards) /\ DOMAIN guards' = DOMAIN guards
  BY <1>1, <1>2
<1>4. \A i \in DOMAIN guards : /\ guards'[i].kind = guards[i].kind /\ guards'[i].name = guards[i].name
                             /\ guards'[i].start = guards[i].start /\ guards'[i].undone = guards[i].undone
  BY <1>1, <1>2
<1>6. \A i \in DOMAIN guards : guards'[i].active <=> guards[i].active /\ i # j
  BY <1>1, <1>2
<1>7. Fewer
  BY <1>3, <1>4, <1>6 DEF Fewer
<1>5. \A i \in DOMAIN guards' : Guards!Nested(i)' => Guards!Nested(i) /\ i < j
  <2> SUFFICES ASSUME NEW i \in DOMAIN guards', Guards!Nested(i)'
               PROVE  Guards!Nested(i) /\ i < j
    OBVIOUS
  <2>1. i \in 1..Len(guards) /\ j \in 1..Len(guards) /\ DOMAIN guards = 1..Len(guards)
    BY <1>1, <1>3
  <2>2. \A h \in 1..i : guards'[h].active /\ ~guards'[h].undone
    BY DEF Guards!Nested
  <2>3. \A h \in 1..i : guards[h].active /\ h # j /\ ~guards[h].undone
    BY <1>4, <1>6, <2>1, <2>2
  <2> QED
    BY <2>1, <2>3 DEF Guards!Nested
<1> QED
  BY <1>3, <1>5, <1>6, <1>7

\* The innermost guard leaves.
LEMMA Left ==
  ASSUME GuardsInv, guards # <<>>, guards' = Guards!Front(guards)
  PROVE  /\ guards' \in Seq(Guards!Guard) /\ Len(guards') = Len(guards) - 1 /\ Fewer
         /\ Len(guards) \in DOMAIN guards /\ \A i \in DOMAIN guards : i <= Len(guards)
         /\ DOMAIN guards' = DOMAIN guards \ {Len(guards)} /\ \A i \in DOMAIN guards' : guards'[i] = guards[i]
         /\ \A i \in DOMAIN guards' : Guards!Nested(i)' => Guards!Nested(i) /\ i < Len(guards)
<1>1. guards \in Seq(Guards!Guard) /\ Len(guards) \in Nat \ {0} /\ DOMAIN guards = 1..Len(guards)
  BY DEF GuardsInv, Guards!TypeOK
<1>2. guards' = SubSeq(guards, 1, Len(guards) - 1)
  BY DEF Guards!Front
<1>3. /\ guards' \in Seq(Guards!Guard) /\ Len(guards') = Len(guards) - 1 /\ DOMAIN guards' = 1..(Len(guards) - 1)
      /\ \A i \in 1..(Len(guards) - 1) : guards'[i] = guards[i]
  BY <1>1, <1>2
<1>4. \A i \in DOMAIN guards' : Guards!Nested(i)' => Guards!Nested(i) /\ i < Len(guards)
  BY <1>1, <1>3 DEF Guards!Nested
<1> QED
  BY <1>1, <1>3, <1>4 DEF Fewer

\* What an active guard's kind says of its name is kept where the guards get fewer.
LEMMA NamesKept ==
  ASSUME GuardsInv, Fewer
  PROVE  \A i \in DOMAIN guards' : guards'[i].active => (guards'[i].kind = "savepoint" <=> guards'[i].name # None)
BY DEF GuardsInv, Guards!TypeOK, Fewer

LEMMA GuardsInitially ==
  ASSUME GuardsAssumption, Guards!Init
  PROVE  GuardsInv
<1>1. stranded \in BOOLEAN
  BY DEF Guards!Init
<1> QED
  BY <1>1 DEF Guards!Init, GuardsInv, GuardsAssumption, Guards!TypeOK, Guards!Contents, Begun, AllStand

\* An active transaction that is not the outermost guard is in none that is nested.
LEMMA TransactionOutermost ==
  ASSUME GuardsInv, NEW j \in DOMAIN guards, guards[j].active, guards[j].kind = "transaction"
  PROVE  \A i \in DOMAIN guards : Guards!Nested(i) => j <= i
<1> SUFFICES ASSUME NEW i \in DOMAIN guards, Guards!Nested(i) PROVE j <= i
  OBVIOUS
<1>1. Stands(i) /\ i \in Nat /\ j \in Nat
  BY DEF GuardsInv, AllStand, Guards!TypeOK
<1> QED
  BY <1>1 DEF Stands

LEMMA TransactionsEnd ==
  ASSUME GuardsInv, NEW j \in DOMAIN guards, Guards!Commit(j) \/ Guards!Rollback(j)
  PROVE  GuardsInv'
<1>0. stranded' = stranded /\ stranded' \in BOOLEAN
  BY DEF Guards!Commit, Guards!Rollback, Guards!Inactivate, GuardsInv, Guards!TypeOK
<1>1. /\ guards[j].active /\ guards[j].kind = "transaction" /\ Guards!Inactivate(j)
      /\ tx' = "none" /\ savepoints' = <<>> /\ data' = committed' /\ data' \in Guards!Contents
  BY DEF Guards!Commit, Guards!Rollback, Guards!MayEnd, Guards!SqlCommit, Guards!SqlRollback, Guards!SqlEnds,
     GuardsInv, Guards!TypeOK
<1>2. AllStand'
  BY <1>1, Inactivated, TransactionOutermost DEF AllStand, GuardsInv, Guards!TypeOK
<1>3. Guards!TypeOK'
  BY <1>0, <1>1, Inactivated, NamesKept DEF GuardsInv, Guards!TypeOK
<1> QED
  BY <1>1, <1>2, <1>3 DEF GuardsInv, GuardsAssumption, Begun

LEMMA SavepointsEnd ==
  ASSUME GuardsInv, NEW j \in DOMAIN guards, Guards!Release(j) \/ Guards!RollbackTo(j)
  PROVE  GuardsInv'
<1>0. stranded' = stranded /\ stranded' \in BOOLEAN
  BY DEF Guards!Release, Guards!RollbackTo, Guards!Inactivate, GuardsInv, Guards!TypeOK
<1>1. /\ guards[j].active /\ guards[j].kind = "savepoint" /\ Guards!Inactivate(j)
      /\ Guards!SqlRelease(guards[j].name) \/ Guards!SqlRollbackTo(guards[j].name)
  BY DEF Guards!Release, Guards!RollbackTo, Guards!MayEnd, Guards!Undo
<1>2. Guards!TypeOK'
  BY <1>0, <1>1, Inactivated, NamesKept, Unwinds DEF GuardsInv, Guards!TypeOK, Cut, Savepoint
<1>3. AllStand'
  <2> SUFFICES ASSUME NEW i \in DOMAIN guards', Guards!Nested(i)' PROVE Stands(i)'
    BY DEF AllStand
  <2>1. i \in DOMAIN guards /\ i < j /\ Guards!Nested(i) /\ Fewer /\ guards' \in Seq(Guards!Guard)
    BY <1>1, Inactivated
  <2>2. Cut /\ tx' = tx /\ committed' = committed /\ \A k \in DOMAIN savepoints : Held(i, k) => k \in DOMAIN savepoints'
    BY <1>1, <2>1, Unwinds
  <2> QED
    BY <2>1, <2>2, StillStands
<1>4. Begun'
  <2>1. CASE tx' = "begin" /\ ~stranded'
    <3>1. PICK i \in DOMAIN guards : guards[i].kind = "transaction" /\ guards[i].active
      BY <1>1, <2>1, Unwinds DEF GuardsInv, Begun, Guards!Inactivate
    <3>2. i \in DOMAIN guards' /\ guards'[i].kind = "transaction" /\ guards'[i].active
      BY <1>1, <3>1, Inactivated DEF Fewer
    <3> QED
      BY <2>1, <3>2 DEF Begun
  <2>2. CASE ~(tx' = "begin" /\ ~stranded')
    BY <1>1, <2>2, Unwinds DEF Begun
  <2> QED
    BY <2>1, <2>2
<1> QED
  BY <1>2, <1>3, <1>4 DEF GuardsInv, GuardsAssumption

\* The innermost guard leaves; its transaction or savepoint is undone if it is active and
\* memory is not lacking for it.
LEMMA GuardsLeave ==
  ASSUME GuardsInv,
         Guards!LeaveInactive \/ Guards!LeaveTransaction \/ Guards!LeaveSavepoint \/ Guards!LeaveStranded
  PROVE  GuardsInv'
<1> DEFINE m == Len(guards)
<1>1. guards # <<>> /\ guards' = Guards!Front(guards) /\ guards \in Seq(Guards!Guard)
      /\ Guards!Last(guards) = guards[m]
  BY DEF Guards!LeaveInactive, Guards!LeaveTransaction, Guards!LeaveSavepoint, Guards!LeaveStranded, Guards!Leaves,
     GuardsInv, Guards!TypeOK, Guards!Last
<1>0. stranded' \in BOOLEAN /\ (stranded' \/ UNCHANGED stranded)
  BY DEF Guards!LeaveInactive, Guards!LeaveTransaction, Guards!LeaveSavepoint, Guards!LeaveStranded,
     GuardsInv, Guards!TypeOK
<1>2. /\ guards' \in Seq(Guards!Guard) /\ Len(guards') = Len(guards) - 1 /\ Fewer /\ m \in DOMAIN guards
      /\ DOMAIN guards' = DOMAIN guards \ {m} /\ \A i \in DOMAIN guards' : guards'[i] = guards[i]
      /\ \A i \in DOMAIN guards' : Guards!Nested(i)' => Guards!Nested(i) /\ i < m
  BY <1>1, Left
<1> HIDE DEF m
<1>3. guards' \in Seq(Guards!Guard) /\ Len(guards') <= MaxGuards /\
      \A i \in DOMAIN guards' : guards'[i].active => (guards'[i].kind = "savepoint" <=> guards'[i].name # None)
  <2>1. Len(guards) \in Nat /\ Len(guards) <= MaxGuards /\ MaxGuards \in Nat
    BY <1>1 DEF GuardsInv, GuardsAssumption, Guards!TypeOK
  <2> QED
    BY <1>2, <2>1, NamesKept
<1>4. CASE Guards!UnchangedSql /\ (guards[m].active /\ tx = "begin" /\ ~stranded' => guards[m].kind # "transaction")
  <2>1. Cut /\ UNCHANGED <<tx, savepoints, data, committed>>
    BY <1>4 DEF Guards!UnchangedSql, Cut, GuardsInv, Guards!TypeOK, Savepoint
  <2>2. Guards!TypeOK'
    BY <1>0, <1>3, <2>1 DEF GuardsInv, Guards!TypeOK
  <2>3. Begun'
    <3>1. CASE tx = "begin" /\ ~stranded'
      <4>1. PICK i \in DOMAIN guards : guards[i].kind = "transaction" /\ guards[i].active
        BY <1>0, <3>1 DEF GuardsInv, Begun
      <4>2. i \in DOMAIN guards' /\ guards'[i] = guards[i]
        BY <1>2, <1>4, <3>1, <4>1
      <4> QED
        BY <2>1, <3>1, <4>1, <4>2 DEF Begun
    <3>2. CASE ~(tx = "begin" /\ ~stranded')
      BY <2>1, <3>2 DEF GuardsInv, Begun
    <3> QED
      BY <3>1, <3>2
  <2>4. AllStand'
    BY <1>2, <2>1, StillStands DEF AllStand
  <2> QED
    BY <2>2, <2>3, <2>4 DEF GuardsInv, GuardsAssumption
<1>5. CASE guards[m].active /\ guards[m].kind = "transaction" /\ Guards!SqlRollback
  <2>1. tx' = "none" /\ savepoints' = <<>> /\ data' = committed' /\ data' \in Guards!Contents
    BY <1>5 DEF Guards!SqlRollback, Guards!SqlEnds, GuardsInv, Guards!TypeOK
  <2>2. AllStand'
    BY <1>2, <1>5, TransactionOutermost DEF AllStand, GuardsInv, Guards!TypeOK
  <2> QED
    BY <1>0, <1>3, <2>1, <2>2 DEF GuardsInv, GuardsAssumption, Guards!TypeOK, Begun
<1>6. CASE guards[m].active /\ guards[m].kind = "savepoint" /\ Guards!SqlRollbackTo(guards[m].name)
  <2>1. Guards!TypeOK'
    BY <1>0, <1>2, <1>3, <1>6, Unwinds DEF Guards!TypeOK, Cut, Savepoint
  <2>2. AllStand'
    <3> SUFFICES ASSUME NEW i \in DOMAIN guards', Guards!Nested(i)' PROVE Stands(i)'
      BY DEF AllStand
    <3>1. i \in DOMAIN guards /\ i < m /\ Guards!Nested(i)
      BY <1>2
    <3>2. Cut /\ tx' = tx /\ committed' = committed /\ \A k \in DOMAIN savepoints : Held(i, k) => k \in DOMAIN savepoints'
      BY <1>2, <1>6, <3>1, Unwinds
    <3> QED
      BY <1>2, <3>1, <3>2, StillStands
  <2>3. Begun'
    <3>1. CASE tx' = "begin" /\ ~stranded'
      <4>1. PICK i \in DOMAIN guards : guards[i].kind = "transaction" /\ guards[i].active
        BY <1>0, <1>2, <1>6, <3>1, Unwinds DEF GuardsInv, Begun
      <4>2. i \in DOMAIN guards' /\ guards'[i] = guards[i]
        BY <1>2, <1>6, <4>1
      <4> QED
        BY <3>1, <4>1, <4>2 DEF Begun
    <3>2. CASE ~(tx' = "begin" /\ ~stranded')
      BY <1>2, <1>6, <3>2, Unwinds DEF Begun
    <3> QED
      BY <3>1, <3>2
  <2> QED
    BY <2>1, <2>2, <2>3 DEF GuardsInv, GuardsAssumption
<1> QED
  <2>1. CASE Guards!LeaveInactive
    BY <1>1, <1>4, <2>1 DEF Guards!LeaveInactive, Guards!Leaves, Guards!MayEnd, m
  <2>2. CASE Guards!LeaveTransaction
    BY <1>1, <1>4, <1>5, <2>2 DEF Guards!LeaveTransaction, Guards!Leaves, Guards!MayEnd, m
  <2>3. CASE Guards!LeaveSavepoint
    BY <1>1, <1>4, <1>6, <2>3 DEF Guards!LeaveSavepoint, Guards!Leaves, Guards!MayEnd, Guards!Undo, m
  <2>4. CASE Guards!LeaveStranded
    BY <1>4, <2>4 DEF Guards!LeaveStranded
  <2> QED
    BY <2>1, <2>2, <2>3, <2>4

\* A guard enters the scope: it is the innermost, and it is nested if it is active and all
\* others were.
LEMMA Entered ==
  ASSUME GuardsInv, NEW k \in {"transaction", "savepoint"}, NEW n \in Names \cup {None}, NEW a \in BOOLEAN,
         Guards!Enter(k, n, a), a => (k = "savepoint" <=> n # None)
  PROVE  LET m == Len(guards) + 1 IN
         /\ guards' \in Seq(Guards!Guard) /\ Len(guards') = m /\ m <= MaxGuards /\ m \in Nat
         /\ DOMAIN guards' = DOMAIN guards \cup {m} /\ \A i \in DOMAIN guards : i < m /\ guards'[i] = guards[i]
         /\ guards'[m] = [kind |-> k, name |-> n, active |-> a, start |-> data, undone |-> FALSE]
         /\ \A i \in DOMAIN guards' : guards'[i].active => (guards'[i].kind = "savepoint" <=> guards'[i].name # None)
         /\ \A i \in DOMAIN guards' : Guards!Nested(i)' =>
              IF i = m THEN a /\ \A h \in DOMAIN guards : Guards!Nested(h) ELSE Guards!Nested(i)
<1> DEFINE m == Len(guards) + 1
           g == [kind |-> k, name |-> n, active |-> a, start |-> data, undone |-> FALSE]
<1>1. guards \in Seq(Guards!Guard) /\ guards' = Append(guards, g) /\ g \in Guards!Guard /\ Len(guards) < MaxGuards
      /\ MaxGuards \in Nat /\ Len(guards) \in Nat
  BY DEF Guards!Enter, GuardsInv, GuardsAssumption, Guards!TypeOK, Guards!Guard
<1>2. g.kind = k /\ g.name = n /\ (g.active <=> a)
  OBVIOUS
<1> HIDE DEF g
<1>3. /\ guards' \in Seq(Guards!Guard) /\ Len(guards') = m /\ m <= MaxGuards /\ m \in Nat
      /\ DOMAIN guards' = DOMAIN guards \cup {m} /\ DOMAIN guards = 1..Len(guards)
      /\ \A i \in DOMAIN guards : i < m /\ guards'[i] = guards[i]
  BY <1>1
<1>4. guards'[m] = g
  BY <1>1
<1>5. \A i \in DOMAIN guards' : guards'[i].active => (guards'[i].kind = "savepoint" <=> guards'[i].name # None)
  BY <1>2, <1>3, <1>4 DEF GuardsInv, Guards!TypeOK
<1>6. \A i \in DOMAIN guards' : Guards!Nested(i)' =>
        IF i = m THEN a /\ \A h \in DOMAIN guards : Guards!Nested(h) ELSE Guards!Nested(i)
  <2> SUFFICES ASSUME NEW i \in DOMAIN guards', \A h \in 1..i : guards'[h].active /\ ~guards'[h].undone
               PROVE  IF i = m THEN a /\ \A h \in DOMAIN guards : Guards!Nested(h) ELSE Guards!Nested(i)
    BY DEF Guards!Nested
  <2>1. CASE i = m
    <3>1. a
      BY <1>2, <1>3, <1>4, <2>1
    <3>2. \A h \in 1..Len(guards) : guards[h].active /\ ~guards[h].undone
      BY <1>1, <1>3, <2>1
    <3>3. \A h \in DOMAIN guards : Guards!Nested(h)
      BY <1>1, <1>3, <3>2 DEF Guards!Nested
    <3> QED
      BY <2>1, <3>1, <3>3
  <2>2. CASE i # m
    BY <1>1, <1>3, <2>2 DEF Guards!Nested
  <2> QED
    BY <2>1, <2>2
<1> QED
  BY <1>3, <1>4, <1>5, <1>6 DEF g

\* BEGIN succeeds outside any transaction only: no guard around it is nested.
LEMMA TransactionsBegin ==
  ASSUME GuardsInv, Guards!BeginTransaction
  PROVE  GuardsInv'
<1> DEFINE m == Len(guards) + 1
<1>0. stranded' = stranded /\ stranded' \in BOOLEAN
  BY DEF Guards!BeginTransaction, Guards!Enter, GuardsInv, Guards!TypeOK
<1>1. tx = "none" /\ tx' = "begin" /\ UNCHANGED <<savepoints, data, committed>> /\ Guards!Enter("transaction", None, TRUE)
  BY DEF Guards!BeginTransaction, Guards!SqlBegin
<1>2. /\ guards' \in Seq(Guards!Guard) /\ Len(guards') = m /\ m <= MaxGuards /\ m \in Nat
      /\ DOMAIN guards' = DOMAIN guards \cup {m} /\ \A i \in DOMAIN guards : i < m /\ guards'[i] = guards[i]
      /\ guards'[m] = [kind |-> "transaction", name |-> None, active |-> TRUE, start |-> data, undone |-> FALSE]
      /\ \A i \in DOMAIN guards' : guards'[i].active => (guards'[i].kind = "savepoint" <=> guards'[i].name # None)
      /\ \A i \in DOMAIN guards' : Guards!Nested(i)' =>
           IF i = m THEN \A h \in DOMAIN guards : Guards!Nested(h) ELSE Guards!Nested(i)
  BY <1>1, Entered
<1> HIDE DEF m
<1>3. \A i \in DOMAIN guards : ~Guards!Nested(i)
  BY <1>1, NestedIsOpen
<1>4. data = committed
  BY <1>1 DEF GuardsInv, Begun
<1>5. AllStand'
  <2> SUFFICES ASSUME NEW i \in DOMAIN guards', Guards!Nested(i)' PROVE Stands(i)'
    BY DEF AllStand
  <2>1. i = m /\ DOMAIN guards = {}
    BY <1>2, <1>3
  <2>2. i = 1
    BY <2>1 DEF m, GuardsInv, Guards!TypeOK
  <2>3. \A j \in DOMAIN guards' : j = i
    BY <1>2, <2>1
  <2>4. guards'[i].kind = "transaction" /\ guards'[i].start = committed'
    BY <1>1, <1>2, <1>4, <2>1
  <2> QED
    BY <1>1, <2>2, <2>3, <2>4 DEF Stands
<1>6. Guards!TypeOK'
  BY <1>0, <1>1, <1>2 DEF GuardsInv, Guards!TypeOK
<1>7. Begun'
  BY <1>1, <1>2 DEF Begun
<1> QED
  BY <1>5, <1>6, <1>7 DEF GuardsInv, GuardsAssumption

LEMMA InactiveEnters ==
  ASSUME GuardsInv, Guards!BeginFails \/ Guards!EnterNameless
  PROVE  GuardsInv'
<1> DEFINE m == Len(guards) + 1
<1>0. stranded' = stranded /\ stranded' \in BOOLEAN
  BY DEF Guards!BeginFails, Guards!EnterNameless, Guards!Enter, GuardsInv, Guards!TypeOK
<1>1. UNCHANGED <<tx, savepoints, data, committed>>
      /\ \E k \in {"transaction", "savepoint"} : Guards!Enter(k, None, FALSE)
  BY DEF Guards!BeginFails, Guards!EnterNameless, Guards!UnchangedSql
<1>2. /\ guards' \in Seq(Guards!Guard) /\ Len(guards') = m /\ m <= MaxGuards /\ m \in Nat
      /\ DOMAIN guards' = DOMAIN guards \cup {m} /\ \A i \in DOMAIN guards : i < m /\ guards'[i] = guards[i]
      /\ ~guards'[m].active
      /\ \A i \in DOMAIN guards' : guards'[i].active => (guards'[i].kind = "savepoint" <=> guards'[i].name # None)
      /\ \A i \in DOMAIN guards' : Guards!Nested(i)' => i # m /\ Guards!Nested(i)
  <2>1. PICK k \in {"transaction", "savepoint"} : Guards!Enter(k, None, FALSE)
    BY <1>1
  <2>2. /\ guards' \in Seq(Guards!Guard) /\ Len(guards') = m /\ m <= MaxGuards /\ m \in Nat
        /\ DOMAIN guards' = DOMAIN guards \cup {m} /\ \A i \in DOMAIN guards : i < m /\ guards'[i] = guards[i]
        /\ guards'[m] = [kind |-> k, name |-> None, active |-> FALSE, start |-> data, undone |-> FALSE]
        /\ \A i \in DOMAIN guards' : guards'[i].active => (guards'[i].kind = "savepoint" <=> guards'[i].name # None)
        /\ \A i \in DOMAIN guards' : Guards!Nested(i)' => IF i = m THEN FALSE ELSE Guards!Nested(i)
    BY <2>1, Entered
  <2> QED
    BY <2>2
<1> HIDE DEF m
<1>3. AllStand'
  <2> SUFFICES ASSUME NEW i \in DOMAIN guards', Guards!Nested(i)' PROVE Stands(i)'
    BY DEF AllStand
  <2>1. i \in DOMAIN guards /\ Guards!Nested(i) /\ guards'[i] = guards[i]
    BY <1>2
  <2>2. Stands(i)
    BY <2>1 DEF GuardsInv, AllStand
  <2>3. \A j \in DOMAIN guards' : guards'[j].active => j \in DOMAIN guards /\ guards'[j] = guards[j]
    BY <1>2
  <2>4. \A k \in DOMAIN savepoints : Held(i, k) => Held(i, k)'
    BY <1>1, <2>1, <2>3 DEF Held, Guards!IsLatest
  <2> QED
    BY <1>1, <2>1, <2>2, <2>3, <2>4 DEF Stands
<1>4. Guards!TypeOK' /\ Begun'
  BY <1>0, <1>1, <1>2 DEF GuardsInv, Guards!TypeOK, Begun
<1> QED
  BY <1>3, <1>4 DEF GuardsInv, GuardsAssumption

\* A savepoint guard enters: its savepoint is on top, and none of its name is around that
\* of a nested guard.
LEMMA SavepointEnters ==
  ASSUME GuardsInv, NEW n \in Names, Guards!EnterSavepoint(n)
  PROVE  GuardsInv'
<1> DEFINE m == Len(guards) + 1
           s == [name |-> n, start |-> data]
<1>0. stranded' = stranded /\ stranded' \in BOOLEAN
  BY DEF Guards!EnterSavepoint, Guards!Enter, GuardsInv, Guards!TypeOK
<1>1. /\ Guards!MayEnter(n) /\ savepoints' = Append(savepoints, s) /\ UNCHANGED <<data, committed>>
      /\ tx' = (IF tx = "none" THEN "savepoint" ELSE tx) /\ Guards!Enter("savepoint", n, TRUE)
  BY DEF Guards!EnterSavepoint, Guards!SqlSavepoint
<1>2. /\ guards' \in Seq(Guards!Guard) /\ Len(guards') = m /\ m <= MaxGuards /\ m \in Nat
      /\ DOMAIN guards' = DOMAIN guards \cup {m} /\ \A i \in DOMAIN guards : i < m /\ guards'[i] = guards[i]
      /\ guards'[m] = [kind |-> "savepoint", name |-> n, active |-> TRUE, start |-> data, undone |-> FALSE]
      /\ \A i \in DOMAIN guards' : guards'[i].active => (guards'[i].kind = "savepoint" <=> guards'[i].name # None)
      /\ \A i \in DOMAIN guards' : Guards!Nested(i)' => IF i = m THEN TRUE ELSE Guards!Nested(i)
  <2>1. n # None
    BY DEF GuardsInv, GuardsAssumption
  <2>2. /\ guards' \in Seq(Guards!Guard) /\ Len(guards') = m /\ m <= MaxGuards /\ m \in Nat
        /\ DOMAIN guards' = DOMAIN guards \cup {m} /\ \A i \in DOMAIN guards : i < m /\ guards'[i] = guards[i]
        /\ guards'[m] = [kind |-> "savepoint", name |-> n, active |-> TRUE, start |-> data, undone |-> FALSE]
        /\ \A i \in DOMAIN guards' : guards'[i].active => (guards'[i].kind = "savepoint" <=> guards'[i].name # None)
        /\ \A i \in DOMAIN guards' : Guards!Nested(i)' =>
             IF i = m THEN TRUE /\ \A h \in DOMAIN guards : Guards!Nested(h) ELSE Guards!Nested(i)
    BY <1>1, <2>1, Entered
  <2> QED
    BY <2>2
<1>3. savepoints \in Seq(Savepoint) /\ s \in Savepoint /\ s.name = n /\ s.start = data
  BY DEF GuardsInv, Guards!TypeOK, Savepoint
<1> HIDE DEF s
<1> PICK top \in Nat : top = Len(savepoints) + 1
  BY <1>3
<1>4. /\ savepoints' \in Seq(Savepoint) /\ top \in Nat /\ DOMAIN savepoints' = DOMAIN savepoints \cup {top}
      /\ DOMAIN savepoints = 1..Len(savepoints) /\ savepoints'[top] = s
      /\ \A k \in DOMAIN savepoints : k < top /\ savepoints'[k] = savepoints[k]
  BY <1>1, <1>3
<1> HIDE DEF m
<1>5. Guards!TypeOK'
  BY <1>0, <1>1, <1>2, <1>4 DEF GuardsInv, Guards!TypeOK, Savepoint
<1>6. Begun'
  BY <1>0, <1>1, <1>2 DEF GuardsInv, Begun, Guards!TypeOK
<1>7. AllStand'
  <2> SUFFICES ASSUME NEW i \in DOMAIN guards', Guards!Nested(i)' PROVE Stands(i)'
    BY DEF AllStand
  <2>1. CASE i = m
    <3>1. \A j \in DOMAIN guards' : ~(j > i)
      <4>1. DOMAIN guards \subseteq Nat
        BY DEF GuardsInv, Guards!TypeOK
      <4> QED
        BY <1>2, <2>1, <4>1
    <3>2. Guards!IsLatest(top, guards[i].name)'
      BY <1>2, <1>3, <1>4, <2>1 DEF Guards!IsLatest
    <3>3. Held(i, top)'
      BY <1>2, <1>3, <1>4, <2>1, <3>1, <3>2 DEF Held
    <3> QED
      BY <1>2, <1>4, <2>1, <3>1, <3>3 DEF Stands
  <2>2. CASE i # m
    <3>1. i \in DOMAIN guards /\ Guards!Nested(i) /\ guards'[i] = guards[i] /\ guards[i].active
      BY <1>2, <2>2, NestedIsOpen
    <3>2. Stands(i) /\ tx # "none"
      BY <3>1, NestedIsOpen DEF GuardsInv, AllStand
    <3>3. \A j \in DOMAIN guards' : j = m \/ (j \in DOMAIN guards /\ guards'[j] = guards[j])
      BY <1>2
    <3>4. \A k \in DOMAIN savepoints : Held(i, k) => Held(i, k)'
      <4> SUFFICES ASSUME NEW k \in DOMAIN savepoints, Held(i, k) PROVE Held(i, k)'
        OBVIOUS
      <4>1. n # guards[i].name /\ ~Guards!Around(n, guards[i].name)
        BY <1>1, <3>1 DEF Guards!MayEnter
      <4>2. \A l \in 1..(k - 1) : savepoints[l].name # n
        <5>1. savepoints[k].name = guards[i].name
          BY DEF Held, Guards!IsLatest
        <5>2. \A l \in 1..(k - 1) : l \in DOMAIN savepoints /\ l < k
          BY <1>4
        <5> QED
          BY <4>1, <5>1, <5>2 DEF Guards!Around
      <4>3. \A l \in 1..(k - 1) : savepoints'[l] = savepoints[l]
        BY <1>4
      <4>4. Guards!IsLatest(k, guards[i].name)'
        BY <1>3, <1>4, <3>1, <4>1 DEF Held, Guards!IsLatest
      <4>5. savepoints'[k].start = guards'[i].start
        BY <1>4, <3>1 DEF Held
      <4>6. ASSUME NEW j \in DOMAIN guards', j > i, guards'[j].active
            PROVE  guards'[j].name # guards'[i].name /\ \A l \in 1..(k - 1) : savepoints'[l].name # guards'[j].name
        <5>1. CASE j = m
          BY <1>2, <3>1, <4>1, <4>2, <4>3, <5>1
        <5>2. CASE j # m
          BY <3>1, <3>3, <4>3, <4>6, <5>2 DEF Held
        <5> QED
          BY <5>1, <5>2
      <4> QED
        BY <4>4, <4>5, <4>6 DEF Held
    <3>5. \A j \in DOMAIN guards' : j > i /\ guards'[j].active => guards'[j].kind = "savepoint"
      BY <1>2, <3>2, <3>3 DEF Stands
    <3>6. CASE guards[i].kind = "transaction"
      BY <1>1, <3>1, <3>2, <3>5, <3>6 DEF Stands
    <3>7. CASE guards[i].kind # "transaction"
      BY <1>4, <3>1, <3>2, <3>4, <3>5, <3>7 DEF Stands
    <3> QED
      BY <3>6, <3>7
  <2> QED
    BY <2>1, <2>2
<1> QED
  BY <1>5, <1>6, <1>7 DEF GuardsInv, GuardsAssumption

LEMMA RowInserted ==
  ASSUME GuardsInv, NEW r \in Rows, Guards!Insert(r)
  PROVE  GuardsInv'
<1>0. stranded' = stranded /\ stranded' \in BOOLEAN
  BY DEF Guards!Insert, GuardsInv, Guards!TypeOK
<1>1. /\ data' = data \cup {r} /\ committed' = (IF tx = "none" THEN data' ELSE committed)
      /\ UNCHANGED <<guards, tx, savepoints>>
  BY DEF Guards!Insert
<1>2. Guards!TypeOK' /\ Begun'
  BY <1>0, <1>1 DEF GuardsInv, Guards!TypeOK, Guards!Contents, Guards!Guard, Begun
<1>3. AllStand'
  <2> SUFFICES ASSUME NEW i \in DOMAIN guards', Guards!Nested(i)' PROVE Stands(i)'
    BY DEF AllStand
  <2>1. i \in DOMAIN guards /\ Guards!Nested(i)
    BY <1>1 DEF Guards!Nested
  <2>2. Stands(i) /\ committed' = committed
    BY <1>1, <2>1, NestedIsOpen DEF GuardsInv, AllStand
  <2> QED
    BY <1>1, <2>2 DEF Stands, Held, Guards!IsLatest
<1> QED
  BY <1>2, <1>3 DEF GuardsInv, GuardsAssumption

LEMMA TransactionFails ==
  ASSUME GuardsInv, Guards!Fail
  PROVE  GuardsInv'
<1>0. stranded' = stranded /\ stranded' \in BOOLEAN
  BY DEF Guards!Fail, GuardsInv, Guards!TypeOK
<1>1. /\ tx' = "none" /\ savepoints' = <<>> /\ data' = committed' /\ data' \in Guards!Contents
      /\ guards' = [i \in DOMAIN guards |-> [guards[i] EXCEPT !.undone = TRUE]] /\ guards \in Seq(Guards!Guard)
  BY DEF Guards!Fail, Guards!SqlRollback, Guards!SqlEnds, GuardsInv, Guards!TypeOK
<1>2. DOMAIN guards' = DOMAIN guards
  BY <1>1
<1>3. \A i \in DOMAIN guards : /\ guards'[i] \in Guards!Guard /\ guards'[i].undone
                             /\ guards'[i].kind = guards[i].kind /\ guards'[i].name = guards[i].name
                             /\ guards'[i].active = guards[i].active
  <2> SUFFICES ASSUME NEW i \in DOMAIN guards
               PROVE  /\ guards'[i] \in Guards!Guard /\ guards'[i].undone
                      /\ guards'[i].kind = guards[i].kind /\ guards'[i].name = guards[i].name
                      /\ guards'[i].active = guards[i].active
    OBVIOUS
  <2>1. guards[i] \in Guards!Guard
    BY <1>1
  <2>2. guards'[i] = [guards[i] EXCEPT !.undone = TRUE]
    BY <1>1
  <2> QED
    BY <2>1, <2>2 DEF Guards!Guard
<1>4. guards' \in Seq(Guards!Guard) /\ Len(guards') = Len(guards)
  <2>1. DOMAIN guards' = 1..Len(guards) /\ Len(guards) \in Nat
    BY <1>1, <1>2
  <2>2. guards' = [i \in 1..Len(guards) |-> guards'[i]]
    BY <1>1, <2>1
  <2> QED
    BY <1>2, <1>3, <2>1, <2>2
<1>6. \A i \in DOMAIN guards' : ~Guards!Nested(i)'
  BY <1>2, <1>3, <1>4 DEF Guards!Nested
<1>5. Guards!TypeOK'
  BY <1>0, <1>1, <1>2, <1>3, <1>4 DEF GuardsInv, Guards!TypeOK
<1> QED
  BY <1>1, <1>5, <1>6 DEF GuardsInv, GuardsAssumption, Begun, AllStand

LEMMA GuardsInvariance ==
  ASSUME GuardsInv, [Guards!Next]_(Guards!vars)
  PROVE  GuardsInv'
<1>1. CASE UNCHANGED Guards!vars
  <2>1. UNCHANGED <<guards, tx, savepoints, data, committed, stranded>>
    BY <1>1 DEF Guards!vars
  <2>2. Guards!TypeOK' /\ Begun'
    BY <2>1 DEF GuardsInv, Guards!TypeOK, Begun
  <2>3. AllStand'
    BY <2>1 DEF GuardsInv, AllStand, Guards!Nested, Stands, Held, Guards!IsLatest
  <2> QED
    BY <2>2, <2>3 DEF GuardsInv, GuardsAssumption
<1>2. CASE Guards!Next
  BY <1>2, RowInserted, TransactionFails, TransactionsBegin, InactiveEnters, SavepointEnters, TransactionsEnd,
     SavepointsEnd, GuardsLeave DEF Guards!Next
<1> QED
  BY <1>1, <1>2

LEMMA GuardsAlways ==
  ASSUME GuardsAssumption
  PROVE  Guards!Spec => []GuardsInv
<1>1. Guards!Init => GuardsInv
  BY GuardsInitially
<1>2. GuardsInv /\ [Guards!Next]_(Guards!vars) => GuardsInv'
  BY GuardsInvariance
<1> QED
  BY <1>1, <1>2, PTL DEF Guards!Spec

\* What the run checks follows from the invariant.
LEMMA GuardsFollow ==
  ASSUME GuardsInv
  PROVE  Guards!Consistent /\ Guards!NotLeftOpen
<1>1. Guards!GuardsAgree
  <2> SUFFICES ASSUME NEW i \in DOMAIN guards, Guards!Nested(i)
               PROVE  IF guards[i].kind = "transaction"
                        THEN tx = "begin" /\ guards[i].start = committed
                        ELSE \E k \in DOMAIN savepoints :
                               Guards!IsLatest(k, guards[i].name) /\ savepoints[k].start = guards[i].start
    BY DEF Guards!GuardsAgree
  <2>1. Stands(i)
    BY DEF GuardsInv, AllStand
  <2> QED
    BY <2>1 DEF Stands, Held
<1>2. Guards!NotLeftOpen
  BY DEF GuardsInv, Guards!NotLeftOpen, Begun
<1> QED
  BY <1>1, <1>2 DEF GuardsInv, Guards!Consistent

\* A nested guard that is rolled back, or leaves the scope with memory for its ROLLBACK, takes
\* the connection back to where it was when the guard entered.
LEMMA RollbackReturns ==
  ASSUME GuardsInv, [Guards!Next]_(Guards!vars)
  PROVE  Guards!RollbackStep
<1> SUFFICES ASSUME NEW i \in DOMAIN guards, Guards!Nested(i),
                    \/ Guards!Rollback(i) \/ Guards!RollbackTo(i)
                    \/ i = Len(guards) /\ guards' = Guards!Front(guards) /\ ~Guards!LeaveStranded
             PROVE  data' = guards[i].start
  BY DEF Guards!RollbackStep
<1>1. Stands(i) /\ guards[i].active /\ tx # "none" /\ guards \in Seq(Guards!Guard)
  BY NestedIsOpen DEF GuardsInv, AllStand, Guards!TypeOK
<1>2. CASE guards[i].kind = "transaction" /\ Guards!SqlRollback
  BY <1>1, <1>2 DEF Stands, Guards!SqlRollback, Guards!SqlEnds
<1>3. CASE guards[i].kind = "savepoint" /\ Guards!SqlRollbackTo(guards[i].name)
  <2>1. PICK k \in DOMAIN savepoints : Held(i, k)
    BY <1>1, <1>3 DEF Stands
  <2>2. PICK m \in DOMAIN savepoints : Guards!IsLatest(m, guards[i].name) /\ data' = savepoints[m].start
    BY <1>3 DEF Guards!SqlRollbackTo, Guards!IsLatest
  <2>3. k = m
    BY <2>1, <2>2 DEF Held, Guards!IsLatest, GuardsInv, Guards!TypeOK
  <2> QED
    BY <2>1, <2>2, <2>3 DEF Held
<1>4. CASE Guards!Rollback(i) \/ Guards!RollbackTo(i)
  BY <1>2, <1>3, <1>4 DEF Guards!Rollback, Guards!RollbackTo, Guards!Undo
<1>5. CASE i = Len(guards) /\ guards' = Guards!Front(guards) /\ ~Guards!LeaveStranded
  <2>1. Len(guards') = Len(guards) - 1 /\ Len(guards) \in Nat /\ guards # <<>>
    BY <1>1, <1>5, Left
  <2>2. guards' # guards
    BY <2>1
  <2>3. Guards!LeaveTransaction \/ Guards!LeaveSavepoint
    <3>1. Guards!Next
      BY <2>2 DEF Guards!vars
    <3>2. ASSUME NEW j \in DOMAIN guards, Guards!Inactivate(j) PROVE FALSE
      BY <2>1, <3>2, Inactivated
    <3>3. ASSUME NEW k, NEW n, NEW a, Guards!Enter(k, n, a) PROVE FALSE
      BY <1>1, <2>1, <3>3 DEF Guards!Enter
    <3>4. ~Guards!Fail
      BY <1>1, <2>1 DEF Guards!Fail
    <3>5. ~Guards!LeaveInactive
      BY <1>1, <1>5 DEF Guards!LeaveInactive, Guards!Leaves, Guards!MayEnd
    <3> QED
      BY <1>5, <2>2, <3>1, <3>2, <3>3, <3>4, <3>5 DEF Guards!Next, Guards!Insert, Guards!BeginTransaction, Guards!BeginFails,
         Guards!EnterNameless, Guards!EnterSavepoint, Guards!Commit, Guards!Rollback, Guards!Release, Guards!RollbackTo
  <2>4. Guards!Last(guards) = guards[i]
    BY <1>5 DEF Guards!Last
  <2>5. CASE Guards!LeaveTransaction
    BY <1>1, <1>2, <2>4, <2>5 DEF Guards!LeaveTransaction
  <2>6. CASE Guards!LeaveSavepoint
    <3>1. guards[i].kind = "savepoint"
      BY <2>4, <2>6 DEF Guards!LeaveSavepoint
    <3>2. Guards!Known(guards[i].name)
      BY <1>1, <3>1 DEF Stands, Held, Guards!IsLatest, Guards!Known
    <3> QED
      BY <1>3, <2>4, <2>6, <3>1, <3>2 DEF Guards!LeaveSavepoint, Guards!Undo
  <2> QED
    BY <2>3, <2>5, <2>6
<1> QED
  BY <1>4, <1>5

\* While the outermost guard is nested, and after the step still is, nothing is committed.
LEMMA NothingPersists ==
  ASSUME GuardsInv, [Guards!Next]_(Guards!vars)
  PROVE  Guards!PersistStep
<1> SUFFICES ASSUME guards # <<>>, Guards!Nested(1), guards' # <<>>, Guards!Nested(1)'
             PROVE  committed' = committed
  BY DEF Guards!PersistStep
<1>1. 1 \in DOMAIN guards /\ guards \in Seq(Guards!Guard) /\ tx # "none"
  BY NestedIsOpen DEF GuardsInv, Guards!TypeOK
<1>2. guards'[1].active
  BY DEF Guards!Nested
<1>3. ASSUME NEW j \in DOMAIN guards, Guards!Release(j) PROVE committed' = committed
  <2>1. j # 1
    BY <1>2, <1>3, Inactivated DEF Guards!Release
  <2>2. 1 < j
    BY <1>1, <2>1
  <2>3. guards[j].active /\ guards[j].kind = "savepoint" /\ Guards!SqlRelease(guards[j].name)
    BY <1>3 DEF Guards!Release, Guards!MayEnd
  <2> QED
    BY <1>1, <2>2, <2>3, Unwinds
<1>4. ASSUME NEW j \in DOMAIN guards, Guards!Commit(j) PROVE committed' = committed
  <2>1. j # 1
    BY <1>2, <1>4, Inactivated DEF Guards!Commit
  <2>2. j <= 1
    BY <1>1, <1>4, TransactionOutermost DEF Guards!Commit, Guards!MayEnd
  <2> QED
    BY <1>1, <2>1, <2>2
<1>5. CASE Guards!Next
  BY <1>1, <1>3, <1>4, <1>5 DEF Guards!Next, Guards!Insert, Guards!Fail, Guards!SqlRollback, Guards!SqlEnds,
     Guards!BeginTransaction, Guards!SqlBegin, Guards!BeginFails, Guards!UnchangedSql, Guards!EnterNameless,
     Guards!EnterSavepoint, Guards!SqlSavepoint, Guards!Rollback, Guards!RollbackTo, Guards!Undo,
     Guards!SqlRollbackTo, Guards!LeaveInactive, Guards!LeaveTransaction, Guards!LeaveSavepoint,
     Guards!LeaveStranded
<1> QED
  BY <1>5 DEF Guards!vars

\* However guards of transactions and savepoints are nested, ended in any order and outlived
\* by what SQLite does of itself: a guard inside active ones believes to be active only if
\* the connection agrees, and when all guards have left no transaction is open, unless memory
\* was lacking for a ROLLBACK.
THEOREM GuardsConsistent ==
  ASSUME GuardsAssumption
  PROVE  Guards!Spec => [](Guards!Consistent /\ Guards!NotLeftOpen)
BY GuardsAlways, GuardsFollow, PTL

\* A guard that is rolled back, or leaves the scope without commit or release, undoes all
\* that was done in its scope and nothing that was done before, unless it lacks memory for it.
THEOREM GuardsRollBack ==
  ASSUME GuardsAssumption
  PROVE  Guards!Spec => Guards!RollbackUndoes
BY GuardsAlways, RollbackReturns, PTL DEF Guards!Spec, Guards!RollbackUndoes

\* While the outermost guard is active nothing becomes durable; its commit alone makes
\* everything durable.
THEOREM OutermostPersists ==
  ASSUME GuardsAssumption
  PROVE  Guards!Spec => Guards!OnlyCommitPersists
BY GuardsAlways, NothingPersists, PTL DEF Guards!Spec, Guards!OnlyCommitPersists

-----------------------------------------------------------------------------
(* Threads: threads, and the contexts they share with their objects *)

CrewTypeOK ==
  /\ os \in [Workers -> {"unborn", "running", "returned", "freeing", "signalling", "ended"}]
  /\ context \in [Workers -> {"none", "live", "freed"}]
  /\ system \in [Workers -> {"none", "open", "closed"}]
  /\ callable \in [Workers -> {"none", "live", "deleted"}]
  /\ detached \subseteq Workers /\ retval \subseteq Workers
  /\ joins \in [Objects -> Workers \cup {None}]

\* What is true of a thread wherever it stands and whatever became of its object: the one
\* of the two that comes last finds the context and gives it back.
ThreadKept(w) ==
  /\ os[w] = "unborn" => system[w] = "none"
  /\ system[w] = "none" => os[w] = "unborn" /\ context[w] = "none" /\ w \notin detached
  /\ ~Windows => context[w] = "none"
  /\ Windows /\ system[w] # "none" /\ os[w] # "ended" => context[w] = "live"
  /\ w \in detached => system[w] = "closed"
  /\ system[w] = "closed" /\ w \notin detached => os[w] = "ended"
  /\ os[w] \in {"returned", "freeing", "signalling"} => Windows
  /\ os[w] = "freeing" => w \in detached
  /\ os[w] \in {"returned", "freeing", "signalling", "ended"} => callable[w] # "live" /\ w \in retval
  /\ context[w] = "freed" => system[w] = "closed" /\ os[w] = "ended"
  /\ Windows /\ os[w] = "ended" /\ w \notin detached => (system[w] = "closed" <=> context[w] # "live")

\* The objects hold exactly the threads whose system record is open, each one of them.
ThreadsHeld ==
  /\ \A o \in Objects : joins[o] # None => system[joins[o]] = "open"
  /\ \A w \in Workers : system[w] = "open" => \E o \in Objects : joins[o] = w
  /\ \A o, p \in Objects : joins[o] = joins[p] /\ joins[o] # None => o = p

CrewInv == CrewAssumption /\ CrewTypeOK /\ (\A w \in Workers : ThreadKept(w)) /\ ThreadsHeld /\ joined

LEMMA CrewInitially ==
  ASSUME CrewAssumption, Crew!ThreadsInit
  PROVE  CrewInv
BY DEF Crew!ThreadsInit, CrewInv, CrewTypeOK, ThreadKept, ThreadsHeld, CrewAssumption

\* A step of one thread alone.
LEMMA ThreadGoes ==
  ASSUME CrewInv, NEW w \in Workers,
         Crew!Returns(w) \/ Crew!TestsDetached(w) \/ Crew!FreesContext(w) \/ Crew!Signals(w)
  PROVE  CrewInv'
<1>1. /\ UNCHANGED <<system, detached, joins, joined>> /\ CrewTypeOK'
      /\ \E to \in {"returned", "freeing", "signalling", "ended"} : os' = [os EXCEPT ![w] = to]
  BY DEF Crew!Returns, Crew!TestsDetached, Crew!FreesContext, Crew!Signals, Crew!Goes, CrewInv, CrewTypeOK
<1>2. ThreadsHeld'
  BY <1>1 DEF CrewInv, ThreadsHeld
<1>3. \A v \in Workers : v # w =>
        /\ os'[v] = os[v] /\ context'[v] = context[v] /\ callable'[v] = callable[v] /\ (v \in retval' <=> v \in retval)
  BY <1>1 DEF Crew!Returns, Crew!TestsDetached, Crew!FreesContext, Crew!Signals, Crew!Goes, CrewInv, CrewTypeOK
<1>4. \A v \in Workers : v # w => ThreadKept(v)'
  BY <1>1, <1>3 DEF CrewInv, ThreadKept
<1>5. ThreadKept(w) /\ system[w] # "none"
  BY DEF CrewInv, ThreadKept, Crew!Returns, Crew!TestsDetached, Crew!FreesContext, Crew!Signals, Crew!Goes
<1>6. ThreadKept(w)'
  <2>1. CASE Crew!Returns(w)
    <3>1. /\ os[w] = "running" /\ os'[w] = (IF Windows THEN "returned" ELSE "ended") /\ w \in retval'
          /\ context'[w] = context[w]
      BY <2>1 DEF Crew!Returns, Crew!Goes, CrewInv, CrewTypeOK
    <3>2. callable'[w] # "live"
      BY <2>1 DEF Crew!Returns, CrewInv, CrewTypeOK
    <3>3. system'[w] = system[w] /\ (w \in detached' <=> w \in detached) /\ Windows \in BOOLEAN
      BY <1>1 DEF CrewInv, CrewAssumption
    <3>4. CASE Windows
      BY <1>5, <3>1, <3>2, <3>3, <3>4 DEF ThreadKept
    <3>5. CASE ~Windows
      BY <1>5, <3>1, <3>2, <3>3, <3>5 DEF ThreadKept
    <3> QED
      BY <3>4, <3>5
  <2>2. CASE Crew!TestsDetached(w)
    BY <1>1, <1>5, <2>2 DEF ThreadKept, Crew!TestsDetached, Crew!Goes, CrewInv, CrewTypeOK
  <2>3. CASE Crew!FreesContext(w)
    BY <1>1, <1>5, <2>3 DEF ThreadKept, Crew!FreesContext, Crew!Goes, CrewInv, CrewTypeOK, CrewAssumption
  <2>4. CASE Crew!Signals(w)
    BY <1>1, <1>5, <2>4 DEF ThreadKept, Crew!Signals, Crew!Goes, CrewInv, CrewTypeOK
  <2> QED
    BY <2>1, <2>2, <2>3, <2>4
<1>7. \A v \in Workers : ThreadKept(v)'
  BY <1>4, <1>6
<1> QED
  BY <1>1, <1>2, <1>7 DEF CrewInv, CrewAssumption

LEMMA ThreadConstructed ==
  ASSUME CrewInv, NEW o \in Objects, Crew!Construct(o)
  PROVE  CrewInv'
<1>1. PICK w \in Workers, object \in {"none", "live"} :
        /\ joins[o] = None /\ os[w] = "unborn" /\ os' = [os EXCEPT ![w] = "running"]
        /\ system' = [system EXCEPT ![w] = "open"] /\ callable' = [callable EXCEPT ![w] = object]
        /\ context' = [context EXCEPT ![w] = IF Windows THEN "live" ELSE @]
        /\ joins' = [joins EXCEPT ![o] = w] /\ UNCHANGED <<detached, retval, joined>>
  BY DEF Crew!Construct
<1>2. CrewTypeOK'
  BY <1>1 DEF CrewInv, CrewTypeOK
<1>3. ThreadKept(w) /\ system[w] = "none"
  BY <1>1 DEF CrewInv, ThreadKept
<1>4. \A v \in Workers : ThreadKept(v)'
  BY <1>1, <1>3 DEF CrewInv, CrewTypeOK, CrewAssumption, ThreadKept
<1>5. ThreadsHeld'
  <2>1. \A p \in Objects : joins[p] # w
    BY <1>3 DEF CrewInv, CrewAssumption, ThreadsHeld
  <2> QED
    <3>1. \A p \in Objects : joins'[p] = IF p = o THEN w ELSE joins[p]
      BY <1>1 DEF CrewInv, CrewTypeOK
    <3>2. \A v \in Workers : system'[v] = IF v = w THEN "open" ELSE system[v]
      BY <1>1 DEF CrewInv, CrewTypeOK
    <3>3. \A p \in Objects : joins[p] # None => joins[p] \in Workers
      BY DEF CrewInv, CrewTypeOK
    <3>4. \A p \in Objects : joins'[p] # None => system'[joins'[p]] = "open"
      BY <2>1, <3>1, <3>2, <3>3 DEF CrewInv, ThreadsHeld
    <3>5. \A v \in Workers : system'[v] = "open" => \E p \in Objects : joins'[p] = v
      BY <1>1, <3>1, <3>2 DEF CrewInv, CrewAssumption, ThreadsHeld
    <3> QED
      BY <2>1, <3>1, <3>4, <3>5 DEF CrewInv, ThreadsHeld
<1> QED
  BY <1>1, <1>2, <1>4, <1>5 DEF CrewInv, CrewAssumption

LEMMA ThreadJoined ==
  ASSUME CrewInv, NEW o \in Objects, Crew!Join(o)
  PROVE  CrewInv'
<1> DEFINE w == joins[o]
<1>1. /\ w # None /\ w \in Workers /\ os[w] = "ended" /\ joined' = (joined /\ w \in retval)
      /\ context' = [context EXCEPT ![w] = IF @ = "live" THEN "freed" ELSE @]
      /\ system' = [system EXCEPT ![w] = "closed"] /\ joins' = [joins EXCEPT ![o] = None]
      /\ UNCHANGED <<os, detached, retval, callable>>
  BY DEF Crew!Join, Crew!Ended, CrewInv, CrewTypeOK
<1>2. ThreadKept(w) /\ system[w] = "open"
  BY <1>1 DEF CrewInv, ThreadsHeld
<1>3. CrewTypeOK' /\ joined'
  BY <1>1, <1>2 DEF CrewInv, CrewTypeOK, ThreadKept
<1>4. ThreadsHeld'
  BY <1>1, <1>2 DEF CrewInv, CrewTypeOK, ThreadsHeld
<1> HIDE DEF w
<1>5. \A v \in Workers : ThreadKept(v)'
  BY <1>1, <1>2 DEF CrewInv, CrewTypeOK, ThreadKept
<1> QED
  BY <1>3, <1>4, <1>5 DEF CrewInv, CrewAssumption

\* An object gives up its thread, which goes on detached.
LEMMA ThreadDetached ==
  ASSUME CrewInv, NEW w \in Workers, Crew!Detaches(w), system[w] = "open", UNCHANGED <<os, retval, callable>>
  PROVE  (\A v \in Workers : ThreadKept(v)') /\ system' = [system EXCEPT ![w] = "closed"]
<1>1. /\ detached' = detached \cup {w} /\ system' = [system EXCEPT ![w] = "closed"]
      /\ UNCHANGED <<context, os, retval, callable>>
  BY DEF Crew!Detaches
<1>2. ThreadKept(w)
  BY DEF CrewInv
<1>3. \A v \in Workers : ThreadKept(v)'
  BY <1>1, <1>2 DEF CrewInv, CrewTypeOK, ThreadKept
<1> QED
  BY <1>1, <1>3

LEMMA ObjectDetaches ==
  ASSUME CrewInv, NEW o \in Objects, Crew!Detach(o)
  PROVE  CrewInv'
<1> DEFINE w == joins[o]
<1>1. w # None /\ w \in Workers /\ system[w] = "open" /\ Crew!Detaches(w) /\ joins' = [joins EXCEPT ![o] = None]
      /\ UNCHANGED <<os, retval, callable, joined>>
  BY DEF Crew!Detach, CrewInv, CrewTypeOK, ThreadsHeld
<1>2. (\A v \in Workers : ThreadKept(v)') /\ system' = [system EXCEPT ![w] = "closed"]
  BY <1>1, ThreadDetached
<1>3. CrewTypeOK'
  BY <1>1 DEF CrewInv, CrewTypeOK, Crew!Detaches
<1>4. ThreadsHeld'
  BY <1>1, <1>2 DEF CrewInv, CrewTypeOK, ThreadsHeld
<1> QED
  BY <1>1, <1>2, <1>3, <1>4 DEF CrewInv, CrewAssumption

LEMMA ObjectMoved ==
  ASSUME CrewInv, NEW o \in Objects, NEW from \in Objects, Crew!Move(o, from)
  PROVE  CrewInv'
<1>1. /\ o # from /\ joins' = [joins EXCEPT ![o] = joins[from], ![from] = None]
      /\ UNCHANGED <<os, retval, callable, joined>>
  BY DEF Crew!Move
<1>2. \A p \in Objects : joins'[p] = IF p = o THEN joins[from] ELSE IF p = from THEN None ELSE joins[p]
  BY <1>1 DEF CrewInv, CrewTypeOK
<1>3. joins' \in [Objects -> Workers \cup {None}]
  BY <1>1 DEF CrewInv, CrewTypeOK
<1>4. CASE joins[o] = None
  <2>1. UNCHANGED <<detached, system, context>>
    BY <1>4 DEF Crew!Move
  <2>2. CrewTypeOK' /\ \A v \in Workers : ThreadKept(v)'
    BY <1>1, <1>3, <2>1 DEF CrewInv, CrewTypeOK, ThreadKept
  <2>3. \A v \in Workers : system[v] = "open" => \E p \in Objects : joins'[p] = v
    <3> SUFFICES ASSUME NEW v \in Workers, system[v] = "open" PROVE \E p \in Objects : joins'[p] = v
      OBVIOUS
    <3>1. PICK p \in Objects : joins[p] = v
      BY DEF CrewInv, ThreadsHeld
    <3>2. p # o
      BY <1>4, <3>1 DEF CrewInv, CrewAssumption
    <3> QED
      BY <1>1, <1>2, <3>1, <3>2
  <2>4. ThreadsHeld'
    <3>1. \A p \in Objects : joins'[p] # None => system'[joins'[p]] = "open"
      BY <1>2, <2>1 DEF CrewInv, ThreadsHeld
    <3>2. \A p, q \in Objects : joins'[p] = joins'[q] /\ joins'[p] # None => p = q
      BY <1>1, <1>2 DEF CrewInv, ThreadsHeld
    <3> QED
      BY <2>1, <2>3, <3>1, <3>2 DEF ThreadsHeld
  <2> QED
    BY <1>1, <2>2, <2>4 DEF CrewInv, CrewAssumption
<1>5. CASE joins[o] # None
  <2> DEFINE w == joins[o]
  <2>1. w \in Workers /\ system[w] = "open" /\ Crew!Detaches(w)
    BY <1>5 DEF Crew!Move, CrewInv, CrewTypeOK, ThreadsHeld
  <2>2. (\A v \in Workers : ThreadKept(v)') /\ system' = [system EXCEPT ![w] = "closed"]
    BY <1>1, <2>1, ThreadDetached
  <2>3. CrewTypeOK'
    BY <1>1, <1>3, <2>1 DEF CrewInv, CrewTypeOK, Crew!Detaches
  <2>4. \A v \in Workers : system'[v] = IF v = w THEN "closed" ELSE system[v]
    BY <2>2 DEF CrewInv, CrewTypeOK
  <2>5. \A p \in Objects : joins'[p] # None =>
          joins'[p] \in Workers /\ joins'[p] # w /\ system[joins'[p]] = "open"
    <3>1. \A p \in Objects : joins[p] = w => p = o
      BY <1>5 DEF CrewInv, ThreadsHeld
    <3>2. \A p \in Objects : joins[p] # None => joins[p] \in Workers
      BY DEF CrewInv, CrewTypeOK
    <3> SUFFICES ASSUME NEW p \in Objects, joins'[p] # None 
                 PROVE  joins'[p] \in Workers /\ joins'[p] # w /\ system[joins'[p]] = "open"
      OBVIOUS
    <3>3. PICK q \in Objects : q # o /\ joins'[p] = joins[q]
      BY <1>1, <1>2
    <3> QED
      BY <3>1, <3>2, <3>3 DEF CrewInv, ThreadsHeld
  <2>6. \A p \in Objects : joins'[p] # None => system'[joins'[p]] = "open"
    BY <2>4, <2>5
  <2>7. \A v \in Workers : system'[v] = "open" => \E p \in Objects : joins'[p] = v
    <3> SUFFICES ASSUME NEW v \in Workers, system'[v] = "open" PROVE \E p \in Objects : joins'[p] = v
      OBVIOUS
    <3>1. v # w /\ system[v] = "open"
      BY <2>4
    <3>2. PICK p \in Objects : joins[p] = v
      BY <3>1 DEF CrewInv, ThreadsHeld
    <3> QED
      BY <1>1, <1>2, <3>1, <3>2
  <2>8. ThreadsHeld'
    <3>1. \A p, q \in Objects : joins'[p] = joins'[q] /\ joins'[p] # None => p = q
      BY <1>1, <1>2 DEF CrewInv, ThreadsHeld
    <3> QED
      BY <2>6, <2>7, <3>1 DEF ThreadsHeld
  <2> QED
    BY <1>1, <2>2, <2>3, <2>8 DEF CrewInv, CrewAssumption
<1> QED
  BY <1>4, <1>5

LEMMA CrewInvariance ==
  ASSUME CrewInv, [Crew!ThreadsNext]_Crew!handleVars
  PROVE  CrewInv'
<1>1. CASE UNCHANGED Crew!handleVars
  BY <1>1 DEF Crew!handleVars, CrewInv, CrewAssumption, CrewTypeOK, ThreadKept, ThreadsHeld
<1>2. CASE Crew!ThreadsNext
  BY <1>2, ThreadGoes, ThreadConstructed, ThreadJoined, ObjectDetaches, ObjectMoved DEF Crew!ThreadsNext
<1> QED
  BY <1>1, <1>2

LEMMA CrewFollows ==
  ASSUME CrewInv
  PROVE  Crew!ThreadsSafe
<1>1. Crew!ContextsOwned
  <2>1. \A w \in Workers :
          /\ Windows /\ os[w] \in {"running", "returned", "freeing", "signalling"} => context[w] = "live"
          /\ context[w] = "freed" => system[w] = "closed" /\ os[w] = "ended"
          /\ os[w] = "ended" /\ w \notin detached => (system[w] = "closed" <=> context[w] # "live") \/ ~Windows
          /\ os[w] = "ended" => callable[w] # "live"
    BY DEF CrewInv, ThreadKept
  <2>2. \A o \in Objects : joins[o] # None =>
          system[joins[o]] = "open" /\ joins[o] \notin detached /\ (Windows => context[joins[o]] = "live")
    BY DEF CrewInv, CrewTypeOK, ThreadsHeld, ThreadKept
  <2> QED
    BY <2>1, <2>2 DEF Crew!ContextsOwned, CrewInv, ThreadsHeld
<1> QED
  BY <1>1 DEF Crew!ThreadsSafe, Crew!JoinGivesResult, CrewInv

\* On Windows and POSIX, with any number of threads and objects: the context of a thread is
\* there as long as the thread or an object may touch it and given back once, and join finds
\* the result.
THEOREM ThreadsAlwaysSafe ==
  ASSUME CrewAssumption
  PROVE  Crew!ThreadsSpec => []Crew!ThreadsSafe
<1>1. Crew!ThreadsInit => CrewInv
  BY CrewInitially
<1>2. CrewInv /\ [Crew!ThreadsNext]_Crew!handleVars => CrewInv'
  BY CrewInvariance
<1>3. CrewInv => Crew!ThreadsSafe
  BY CrewFollows
<1> QED
  BY <1>1, <1>2, <1>3, PTL DEF Crew!ThreadsSpec

-----------------------------------------------------------------------------
(* DbHandles: the owners of connections, statements, backups and blobs *)

OwningTypeOK ==
  /\ conn \in [Databases -> {"unborn", "open", "closed", "freed"}]
  /\ thing \in [Things -> ThingRecord \cup {None}]
  /\ holds \in [Owners -> Databases \cup Things \cup {None}]
  /\ loose \subseteq Things /\ cached \subseteq Things

\* What an object holds is open, of its class, and shelved only where the object leases it.
Proper(o) ==
  IF ClassOf[o] = "database" THEN holds[o] \in Databases /\ conn[holds[o]] = "open"
  ELSE /\ holds[o] \in Things /\ thing[holds[o]] # None /\ thing[holds[o]].class = Handles!Sort(ClassOf[o])
       /\ holds[o] \notin loose /\ (holds[o] \in cached <=> ClassOf[o] = "lease")

AllProper == \A o \in Owners : holds[o] # None => Proper(o)

OneHolder == \A o, p \in Owners : holds[o] = holds[p] /\ holds[o] # None => o = p

Shelved ==
  /\ loose \cap cached = {}
  /\ \A x \in loose \cup cached : thing[x] # None /\ thing[x].class = "statement"

ConnsKept ==
  /\ \A x \in Things : thing[x] # None => conn[thing[x].db] \in {"open", "closed"}
  /\ \A d \in Databases : conn[d] = "closed" => \E x \in Things : thing[x] # None /\ thing[x].db = d

ConnsOwned == \A d \in Databases : conn[d] = "open" => \E o \in Owners : ClassOf[o] = "database" /\ holds[o] = d

ThingsOwned == \A x \in Things : thing[x] # None => x \in loose \cup cached \/ \E o \in Owners : holds[o] = x

\* A statement of the cache that nobody holds is clean.
Clean == \A x \in cached : (\E o \in Owners : holds[o] = x) \/ (~thing[x].bound /\ thing[x].at = "ready")

OwningInv ==
  /\ OwningAssumption /\ OwningTypeOK /\ AllProper /\ OneHolder /\ Shelved /\ ConnsKept /\ ConnsOwned /\ ThingsOwned
  /\ Clean

LEMMA OwningInitially ==
  ASSUME OwningAssumption, Handles!HandlesInit
  PROVE  OwningInv
BY DEF Handles!HandlesInit, OwningInv, OwningAssumption, OwningTypeOK, AllProper, OneHolder, Shelved, ConnsKept, ConnsOwned,
   ThingsOwned, Clean

\* The same things are open.
SameThings ==
  /\ thing' \in [Things -> ThingRecord \cup {None}]
  /\ \A x \in Things : /\ thing'[x] # None <=> thing[x] # None
                       /\ thing[x] # None => thing'[x].class = thing[x].class /\ thing'[x].db = thing[x].db

LEMMA SameKept ==
  ASSUME OwningInv, SameThings, UNCHANGED conn
  PROVE  ConnsKept'
BY DEF OwningInv, SameThings, ConnsKept

\* Things are closed, and with each connection's last one the connection if it was closed.
LEMMA ConnsClosed ==
  ASSUME OwningInv, NEW gone \in SUBSET Things, conn' = Handles!ConnsWithout(gone, conn),
         thing' \in [Things -> ThingRecord \cup {None}],
         \A x \in Things : /\ thing'[x] # None => \/ thing'[x] = thing[x] /\ x \notin gone
                                                  \/ conn[thing'[x].db] = "open"
                           /\ thing[x] # None /\ x \notin gone => thing'[x] = thing[x]
  PROVE  /\ conn' \in [Databases -> {"unborn", "open", "closed", "freed"}] /\ ConnsKept'
         /\ \A d \in Databases : conn'[d] = "open" <=> conn[d] = "open"
<1>1. \A d \in Databases : conn'[d] =
        IF conn[d] = "closed" /\ \A x \in Things \ gone : thing[x] # None => thing[x].db # d
        THEN "freed" ELSE conn[d]
  BY DEF Handles!ConnsWithout
<1>2. conn' \in [Databases -> {"unborn", "open", "closed", "freed"}]
  BY DEF Handles!ConnsWithout, OwningInv, OwningTypeOK
<1>3. \A d \in Databases : conn'[d] = "open" <=> conn[d] = "open"
  BY <1>1
<1>4. ASSUME NEW x \in Things, thing'[x] # None PROVE conn'[thing'[x].db] \in {"open", "closed"}
  <2>1. thing'[x] \in ThingRecord /\ thing'[x].db \in Databases
    BY <1>4 DEF ThingRecord
  <2>2. CASE conn[thing'[x].db] = "open"
    BY <1>3, <2>1, <2>2
  <2>3. CASE thing'[x] = thing[x] /\ x \notin gone
    BY <1>1, <1>4, <2>1, <2>3 DEF OwningInv, ConnsKept
  <2> QED
    BY <1>4, <2>2, <2>3
<1>5. ASSUME NEW d \in Databases, conn'[d] = "closed" PROVE \E x \in Things : thing'[x] # None /\ thing'[x].db = d
  BY <1>1, <1>5
<1> QED
  BY <1>2, <1>3, <1>4, <1>5 DEF ConnsKept

-----------------------------------------------------------------------------
\* Connections: the things and the other objects do not notice.
LEMMA DatabaseSteps ==
  ASSUME OwningInv, NEW o \in Owners,
         \/ Handles!Open(o) \/ Handles!CloseDatabase(o) \/ \E from \in Owners : Handles!MoveDatabase(o, from)
  PROVE  OwningInv'
<1>1. UNCHANGED <<thing, loose, cached>> /\ SameThings
  BY DEF Handles!Open, Handles!CloseDatabase, Handles!MoveDatabase, SameThings, OwningInv, OwningTypeOK
<1>2. /\ holds' \in [Owners -> Databases \cup Things \cup {None}]
      /\ \A p \in Owners : ClassOf[p] # "database" => holds'[p] = holds[p]
      /\ \A p \in Owners : ClassOf[p] = "database" /\ holds'[p] # None => holds'[p] \in Databases
      /\ \A p \in Owners : ClassOf[p] = "database" /\ holds[p] # None => holds[p] \in Databases
      /\ \A p \in Owners : ClassOf[p] # "database" /\ holds[p] # None => holds[p] \in Things
  BY DEF Handles!Open, Handles!CloseDatabase, Handles!MoveDatabase, OwningInv, OwningTypeOK, OwningAssumption, AllProper, Proper
<1>3. Shelved'
  BY <1>1 DEF OwningInv, Shelved
<1>4. ThingsOwned' /\ Clean'
  <2>1. \A x \in Things : (\E p \in Owners : holds[p] = x) => \E p \in Owners : holds'[p] = x
    BY <1>2 DEF OwningInv, OwningAssumption
  <2> QED
    BY <1>1, <2>1 DEF OwningInv, OwningTypeOK, ThingsOwned, Clean
<1> SUFFICES /\ conn' \in [Databases -> {"unborn", "open", "closed", "freed"}] /\ ConnsKept'
             /\ OneHolder' /\ ConnsOwned'
             /\ \A p \in Owners : ClassOf[p] = "database" /\ holds'[p] # None => conn'[holds'[p]] = "open"
  <2>1. ASSUME \A p \in Owners : ClassOf[p] = "database" /\ holds'[p] # None => conn'[holds'[p]] = "open"
        PROVE  AllProper'
    BY <1>1, <1>2, <2>1 DEF OwningInv, AllProper, Proper
  <2> QED
    BY <1>1, <1>2, <1>3, <1>4, <2>1 DEF OwningInv, OwningAssumption, OwningTypeOK
<1>5. CASE Handles!Open(o)
  <2>1. PICK d \in Databases : /\ ClassOf[o] = "database" /\ holds[o] = None /\ conn[d] = "unborn"
                               /\ conn' = [conn EXCEPT ![d] = "open"] /\ holds' = [holds EXCEPT ![o] = d]
    BY <1>5 DEF Handles!Open
  <2>2. \A p \in Owners : holds'[p] = IF p = o THEN d ELSE holds[p]
    BY <2>1 DEF OwningInv, OwningTypeOK
  <2>3. \A e \in Databases : conn'[e] = IF e = d THEN "open" ELSE conn[e]
    BY <2>1 DEF OwningInv, OwningTypeOK
  <2>4. \A p \in Owners : holds[p] # d
    BY <1>2, <2>1 DEF OwningInv, OwningAssumption, AllProper, Proper
  <2>5. OneHolder' /\ ConnsOwned'
    BY <2>1, <2>2, <2>3, <2>4 DEF OwningInv, OwningAssumption, OneHolder, ConnsOwned
  <2>6. ConnsKept'
    BY <1>1, <2>1, <2>3 DEF OwningInv, OwningTypeOK, ThingRecord, ConnsKept
  <2>7. \A p \in Owners : ClassOf[p] = "database" /\ holds'[p] # None => conn'[holds'[p]] = "open"
    BY <1>2, <2>2, <2>3 DEF OwningInv, AllProper, Proper
  <2>8. conn' \in [Databases -> {"unborn", "open", "closed", "freed"}]
    BY <2>1 DEF OwningInv, OwningTypeOK
  <2> QED
    BY <2>5, <2>6, <2>7, <2>8
<1>6. ASSUME NEW ds \in SUBSET Databases, conn' = Handles!Closed(ds), OneHolder',
             \A d \in ds : \A p \in Owners : holds'[p] # d,
             \A d \in Databases \ ds : \A p \in Owners : (holds[p] = d => \E q \in Owners : ClassOf[q] = "database" /\ holds'[q] = d),
             \A p \in Owners : holds'[p] # None => \E q \in Owners : holds[q] = holds'[p] /\ ClassOf[q] = ClassOf[p]
      PROVE  /\ conn' \in [Databases -> {"unborn", "open", "closed", "freed"}] /\ ConnsKept'
             /\ OneHolder' /\ ConnsOwned'
             /\ \A p \in Owners : ClassOf[p] = "database" /\ holds'[p] # None => conn'[holds'[p]] = "open"
  <2>1. \A d \in Databases : conn'[d] =
          IF (d \in ds \/ conn[d] = "closed") /\ \A x \in Things : thing[x] # None => thing[x].db # d THEN "freed"
          ELSE IF d \in ds THEN "closed" ELSE conn[d]
    BY <1>6 DEF Handles!Closed, Handles!ConnsWithout
  <2>2. conn' \in [Databases -> {"unborn", "open", "closed", "freed"}]
    BY <1>6 DEF Handles!Closed, Handles!ConnsWithout, OwningInv, OwningTypeOK
  <2>3. ConnsKept'
    <3>1. ASSUME NEW x \in Things, thing[x] # None PROVE conn'[thing[x].db] \in {"open", "closed"}
      <4>1. thing[x].db \in Databases
        BY <3>1 DEF OwningInv, OwningTypeOK, ThingRecord
      <4> QED
        BY <2>1, <3>1, <4>1 DEF OwningInv, ConnsKept
    <3>2. ASSUME NEW d \in Databases, conn'[d] = "closed" PROVE \E x \in Things : thing[x] # None /\ thing[x].db = d
      BY <2>1, <3>2
    <3> QED
      BY <1>1, <3>1, <3>2 DEF ConnsKept
  <2>4. ConnsOwned'
    BY <1>6, <2>1 DEF OwningInv, ConnsOwned
  <2>5. \A p \in Owners : ClassOf[p] = "database" /\ holds'[p] # None => conn'[holds'[p]] = "open"
    <3> SUFFICES ASSUME NEW p \in Owners, ClassOf[p] = "database", holds'[p] # None PROVE conn'[holds'[p]] = "open"
      OBVIOUS
    <3>1. PICK q \in Owners : holds[q] = holds'[p] /\ ClassOf[q] = "database"
      BY <1>6
    <3>2. holds'[p] \in Databases /\ conn[holds'[p]] = "open" /\ holds'[p] \notin ds
      BY <1>6, <3>1 DEF OwningInv, AllProper, Proper
    <3> QED
      BY <2>1, <3>2
  <2> QED
    BY <1>6, <2>2, <2>3, <2>4, <2>5
<1>7. CASE Handles!CloseDatabase(o)
  <2>1. /\ holds[o] # None /\ ClassOf[o] = "database" /\ holds[o] \in Databases /\ conn' = Handles!Closed({holds[o]})
        /\ \A p \in Owners : holds'[p] = IF p = o THEN None ELSE holds[p]
    BY <1>2, <1>7 DEF Handles!CloseDatabase, OwningInv, OwningTypeOK
  <2>2. OneHolder' /\ \A p \in Owners : holds'[p] # holds[o]
    BY <2>1 DEF OwningInv, OneHolder
  <2>3. \A d \in Databases \ {holds[o]} : \A p \in Owners :
          (holds[p] = d => \E q \in Owners : ClassOf[q] = "database" /\ holds'[q] = d)
    BY <1>2, <2>1 DEF OwningInv, OwningAssumption
  <2> QED
    BY <1>6, <2>1, <2>2, <2>3
<1>8. ASSUME NEW from \in Owners, Handles!MoveDatabase(o, from)
      PROVE  /\ conn' \in [Databases -> {"unborn", "open", "closed", "freed"}] /\ ConnsKept'
             /\ OneHolder' /\ ConnsOwned'
             /\ \A p \in Owners : ClassOf[p] = "database" /\ holds'[p] # None => conn'[holds'[p]] = "open"
  <2>1. /\ ClassOf[o] = "database" /\ ClassOf[from] = "database" /\ o # from
        /\ conn' = Handles!Closed(Handles!Holding(o)) /\ Handles!Holding(o) = {holds[o]} \ {None}
        /\ Handles!Holding(o) \in SUBSET Databases
        /\ \A p \in Owners : holds'[p] = IF p = o THEN holds[from] ELSE IF p = from THEN None ELSE holds[p]
    BY <1>2, <1>8 DEF Handles!MoveDatabase, Handles!Holding, OwningInv, OwningTypeOK
  <2>2. OneHolder'
    BY <2>1 DEF OwningInv, OneHolder
  <2>3. \A d \in Handles!Holding(o) : \A p \in Owners : holds'[p] # d
    BY <2>1 DEF OwningInv, OneHolder
  <2>4. \A d \in Databases \ Handles!Holding(o) : \A p \in Owners :
          (holds[p] = d => \E q \in Owners : ClassOf[q] = "database" /\ holds'[q] = d)
    BY <1>2, <2>1 DEF OwningInv, OwningAssumption
  <2>5. \A p \in Owners : holds'[p] # None => \E q \in Owners : holds[q] = holds'[p] /\ ClassOf[q] = ClassOf[p]
    BY <2>1
  <2> QED
    BY <1>6, <2>1, <2>2, <2>3, <2>4, <2>5
<1> QED
  BY <1>5, <1>7, <1>8

-----------------------------------------------------------------------------
\* What o holds is closed, and the objects of its class hold other things then.
LEMMA ThingsReplaced ==
  ASSUME OwningInv, NEW o \in Owners, ClassOf[o] \in {"statement", "backup", "blob"}, UNCHANGED <<loose, cached>>,
         conn' = Handles!ConnsWithout(Handles!Holding(o), conn), thing' \in [Things -> ThingRecord \cup {None}],
         \A x \in Things :
           /\ thing'[x] # None => \/ thing'[x] = thing[x] /\ x # holds[o]
                                  \/ thing[x] = None /\ conn[thing'[x].db] = "open" /\ holds'[o] = x
           /\ thing[x] # None /\ x # holds[o] => thing'[x] = thing[x],
         holds' \in [Owners -> Databases \cup Things \cup {None}], OneHolder',
         \A p \in Owners :
           IF ClassOf[p] # ClassOf[o] THEN holds'[p] = holds[p]
           ELSE holds'[p] # None => /\ holds'[p] \in Things /\ thing'[holds'[p]] # None
                                    /\ thing'[holds'[p]].class = ClassOf[o] /\ holds'[p] \notin loose \cup cached,
         \A p \in Owners : holds[p] # None /\ holds[p] # holds[o] => \E q \in Owners : holds'[q] = holds[p]
  PROVE  OwningInv'
<1> DEFINE gone == Handles!Holding(o)
<1>1. /\ holds[o] # None => /\ holds[o] \in Things /\ thing[holds[o]] # None
                            /\ holds[o] \notin loose \cup cached
      /\ gone = {holds[o]} \ {None} /\ gone \in SUBSET Things
  BY DEF OwningInv, AllProper, Proper, Handles!Holding
<1>2. \A x \in Things : x \in gone <=> x = holds[o]
  BY <1>1 DEF OwningInv, OwningAssumption
<1>3. /\ conn' \in [Databases -> {"unborn", "open", "closed", "freed"}] /\ ConnsKept'
      /\ \A d \in Databases : conn'[d] = "open" <=> conn[d] = "open"
  BY <1>1, <1>2, ConnsClosed
<1> HIDE DEF gone
<1>4. OwningTypeOK'
  BY <1>3 DEF OwningInv, OwningTypeOK
<1>5. AllProper'
  <2> SUFFICES ASSUME NEW p \in Owners, holds'[p] # None PROVE Proper(p)'
    BY DEF AllProper
  <2>1. CASE ClassOf[p] = ClassOf[o]
    BY <2>1 DEF Proper, Handles!Sort
  <2>2. CASE ClassOf[p] # ClassOf[o]
    <3>1. holds'[p] = holds[p] /\ Proper(p)
      BY <2>2 DEF OwningInv, AllProper
    <3>2. holds[p] # holds[o]
      BY <2>2, <3>1 DEF OwningInv, OneHolder
    <3>3. CASE ClassOf[p] = "database"
      BY <1>3, <3>1, <3>3 DEF Proper
    <3>4. CASE ClassOf[p] # "database"
      <4>1. thing'[holds[p]] = thing[holds[p]]
        BY <3>1, <3>2, <3>4 DEF Proper
      <4> QED
        BY <3>1, <3>4, <4>1 DEF Proper
    <3> QED
      BY <3>3, <3>4
  <2> QED
    BY <2>1, <2>2
<1>6. Shelved'
  <2>1. \A x \in loose \cup cached : x \in Things /\ thing[x] # None /\ thing[x].class = "statement"
    BY DEF OwningInv, OwningTypeOK, Shelved
  <2>2. \A x \in loose \cup cached : x # holds[o]
    BY <1>1, <2>1 DEF OwningInv, OwningAssumption
  <2> QED
    BY <2>1, <2>2 DEF OwningInv, Shelved
<1>7. ConnsOwned'
  BY <1>3 DEF OwningInv, ConnsOwned
<1>8. ThingsOwned'
  <2> SUFFICES ASSUME NEW x \in Things, thing'[x] # None
               PROVE  x \in loose \cup cached \/ \E q \in Owners : holds'[q] = x
    BY DEF ThingsOwned
  <2>1. CASE thing'[x] = thing[x] /\ x # holds[o]
    BY <2>1 DEF OwningInv, OwningAssumption, ThingsOwned
  <2>2. CASE holds'[o] = x
    BY <2>2
  <2> QED
    BY <2>1, <2>2
<1>9. Clean'
  <2>1. \A x \in cached : x \in Things /\ thing[x] # None /\ x # holds[o]
    BY <1>1 DEF OwningInv, OwningTypeOK, OwningAssumption, Shelved
  <2>2. \A x \in cached : (\E p \in Owners : holds[p] = x) => \E p \in Owners : holds'[p] = x
    BY <2>1 DEF OwningInv, OwningAssumption
  <2> QED
    BY <2>1, <2>2 DEF OwningInv, Clean
<1> QED
  BY <1>3, <1>4, <1>5, <1>6, <1>7, <1>8, <1>9 DEF OwningInv, OwningAssumption

LEMMA ThingsClosed ==
  ASSUME OwningInv, NEW o \in Owners, NEW k \in {"statement", "backup", "blob"}, ClassOf[o] = k,
         Handles!Closes(Handles!Holding(o)), UNCHANGED <<loose, cached>>,
         \/ holds' = [holds EXCEPT ![o] = None]
         \/ \E from \in Owners : /\ ClassOf[from] = k /\ o # from
                                 /\ holds' = [holds EXCEPT ![o] = holds[from], ![from] = None]
  PROVE  OwningInv'
<1>1. /\ conn' = Handles!ConnsWithout(Handles!Holding(o), conn) /\ thing' \in [Things -> ThingRecord \cup {None}]
      /\ \A x \in Things : thing'[x] = IF x = holds[o] THEN None ELSE thing[x]
  BY DEF Handles!Closes, Handles!Holding, OwningInv, OwningTypeOK, OwningAssumption
<1>2. holds' \in [Owners -> Databases \cup Things \cup {None}]
  BY DEF OwningInv, OwningTypeOK
<1> DEFINE Moved ==
        /\ OneHolder'
        /\ \A p \in Owners : ClassOf[p] # k => holds'[p] = holds[p]
        /\ \A p \in Owners : ClassOf[p] = k /\ holds'[p] # None =>
             holds'[p] # holds[o] /\ \E q \in Owners : holds[q] = holds'[p] /\ ClassOf[q] = k
        /\ \A p \in Owners : holds[p] # None /\ holds[p] # holds[o] => \E q \in Owners : holds'[q] = holds[p]
<1>3. Moved
  <2>1. CASE holds' = [holds EXCEPT ![o] = None]
    <3>1. \A p \in Owners : holds'[p] = IF p = o THEN None ELSE holds[p]
      BY <2>1 DEF OwningInv, OwningTypeOK
    <3> QED
      BY <3>1 DEF OwningInv, OneHolder
  <2>2. ASSUME NEW from \in Owners, ClassOf[from] = k, o # from, holds' = [holds EXCEPT ![o] = holds[from], ![from] = None]
        PROVE  Moved
    <3>1. \A p \in Owners : holds'[p] = IF p = o THEN holds[from] ELSE IF p = from THEN None ELSE holds[p]
      BY <2>2 DEF OwningInv, OwningTypeOK
    <3>2. OneHolder'
      BY <2>2, <3>1 DEF OwningInv, OneHolder
    <3>3. \A p \in Owners : ClassOf[p] = k /\ holds'[p] # None =>
            holds'[p] # holds[o] /\ \E q \in Owners : holds[q] = holds'[p] /\ ClassOf[q] = k
      BY <2>2, <3>1 DEF OwningInv, OneHolder
    <3>4. \A p \in Owners : holds[p] # None /\ holds[p] # holds[o] => \E q \in Owners : holds'[q] = holds[p]
      BY <2>2, <3>1
    <3>5. \A p \in Owners : ClassOf[p] # k => holds'[p] = holds[p]
      BY <2>2, <3>1
    <3> QED
      BY <3>2, <3>3, <3>4, <3>5
  <2> QED
    BY <2>1, <2>2
<1> HIDE DEF Moved
<1>4. \A q \in Owners : ClassOf[q] = k /\ holds[q] # None =>
        holds[q] \in Things /\ thing[holds[q]] # None /\ thing[holds[q]].class = k /\ holds[q] \notin loose \cup cached
  BY DEF OwningInv, AllProper, Proper, Handles!Sort
<1>5. \A p \in Owners :
        IF ClassOf[p] # ClassOf[o] THEN holds'[p] = holds[p]
        ELSE holds'[p] # None => /\ holds'[p] \in Things /\ thing'[holds'[p]] # None
                                 /\ thing'[holds'[p]].class = ClassOf[o] /\ holds'[p] \notin loose \cup cached
  <2> SUFFICES ASSUME NEW p \in Owners, ClassOf[p] = k, holds'[p] # None
               PROVE  /\ holds'[p] \in Things /\ thing'[holds'[p]] # None
                      /\ thing'[holds'[p]].class = k /\ holds'[p] \notin loose \cup cached
    BY <1>3 DEF Moved
  <2>1. PICK q \in Owners : holds[q] = holds'[p] /\ ClassOf[q] = k /\ holds'[p] # holds[o]
    BY <1>3 DEF Moved
  <2> QED
    BY <1>1, <1>4, <2>1
<1>6. \A x \in Things :
        /\ thing'[x] # None => \/ thing'[x] = thing[x] /\ x # holds[o]
                               \/ thing[x] = None /\ conn[thing'[x].db] = "open" /\ holds'[o] = x
        /\ thing[x] # None /\ x # holds[o] => thing'[x] = thing[x]
  <2>1. \A x \in Things : thing'[x] = IF x = holds[o] THEN None ELSE thing[x]
    BY <1>1
  <2>2. \A x \in Things : thing'[x] # None => thing'[x] = thing[x] /\ x # holds[o]
    BY <2>1
  <2>3. \A x \in Things : x # holds[o] => thing'[x] = thing[x]
    BY <2>1
  <2> QED
    BY <2>2, <2>3
<1> QED
  BY <1>1, <1>2, <1>3, <1>5, <1>6, ThingsReplaced DEF Moved

\* finalize, finish, close and the move assignments.
LEMMA ThingsEnd ==
  ASSUME OwningInv, NEW o \in Owners,
         \/ Handles!Finalize(o) \/ Handles!Finish(o) \/ Handles!CloseBlob(o)
         \/ \E from \in Owners : Handles!MoveStatement(o, from) \/ Handles!MoveBackup(o, from) \/ Handles!MoveBlob(o, from)
  PROVE  OwningInv'
<1>1. CASE \E k \in {"statement", "backup", "blob"} : Handles!Closing(o, k)
  <2>1. PICK k \in {"statement", "backup", "blob"} : Handles!Closing(o, k)
    BY <1>1
  <2>2. {holds[o]} = Handles!Holding(o)
    BY <2>1 DEF Handles!Closing, Handles!Holding
  <2> QED
    BY <2>1, <2>2, ThingsClosed DEF Handles!Closing
<1>2. ASSUME NEW from \in Owners, \E k \in {"statement", "backup", "blob"} : Handles!Moving(o, from, k)
      PROVE  OwningInv'
  <2>1. PICK k \in {"statement", "backup", "blob"} : Handles!Moving(o, from, k)
    BY <1>2
  <2> QED
    BY <2>1, ThingsClosed DEF Handles!Moving
<1> QED
  BY <1>1, <1>2 DEF Handles!Finalize, Handles!Finish, Handles!CloseBlob, Handles!MoveStatement, Handles!MoveBackup, Handles!MoveBlob

\* prepare, and the constructors of a backup and of a blob stream.
LEMMA ThingsOpen ==
  ASSUME OwningInv, NEW o \in Owners, Handles!Prepare(o) \/ Handles!StartBackup(o) \/ Handles!OpenBlob(o)
  PROVE  OwningInv'
<1>1. PICK k \in {"statement", "backup", "blob"} : ClassOf[o] = k /\ Handles!Reopens(o, k)
  BY DEF Handles!Prepare, Handles!StartBackup, Handles!OpenBlob
<1>2. CASE Handles!Closes(Handles!Holding(o)) /\ holds' = [holds EXCEPT ![o] = None]
  BY <1>1, <1>2, ThingsClosed DEF Handles!Reopens
<1>3. ASSUME NEW x \in Things, NEW d \in Databases, thing[x] = None, conn[d] = "open",
             thing' = [y \in Things |->
               IF y = x THEN Handles!Fresh(k, d) ELSE IF y \in Handles!Holding(o) THEN None ELSE thing[y]],
             holds' = [holds EXCEPT ![o] = x], conn' = Handles!ConnsWithout(Handles!Holding(o), conn),
             UNCHANGED <<loose, cached>>
      PROVE  OwningInv'
  <2> DEFINE fresh == Handles!Fresh(k, d)
  <2>1. fresh \in ThingRecord /\ fresh.class = k /\ fresh.db = d /\ fresh # None
    <3>1. fresh \in ThingRecord /\ fresh.class = k /\ fresh.db = d
      BY DEF Handles!Fresh, ThingRecord
    <3> QED
      BY <3>1 DEF OwningInv, OwningAssumption
  <2> HIDE DEF fresh
  <2>2. \A y \in Things : thing'[y] = IF y = x THEN fresh ELSE IF y = holds[o] THEN None ELSE thing[y]
    BY <1>3 DEF Handles!Holding, OwningInv, OwningAssumption, fresh
  <2>3. \A p \in Owners : holds'[p] = IF p = o THEN x ELSE holds[p]
    BY <1>3 DEF OwningInv, OwningTypeOK
  <2>4. thing' \in [Things -> ThingRecord \cup {None}] /\ holds' \in [Owners -> Databases \cup Things \cup {None}]
    BY <1>3, <2>1 DEF OwningInv, OwningTypeOK, fresh
  <2>5. x \notin loose \cup cached /\ x # None /\ \A p \in Owners : holds[p] # x
    BY <1>3 DEF OwningInv, OwningAssumption, Shelved, AllProper, Proper
  <2>6. OneHolder'
    BY <2>3, <2>5 DEF OwningInv, OneHolder
  <2>7. \A y \in Things :
          /\ thing'[y] # None => (thing'[y] = thing[y] /\ y # holds[o])
                                  \/ (thing[y] = None /\ conn[thing'[y].db] = "open" /\ holds'[o] = y)
          /\ thing[y] # None /\ y # holds[o] => thing'[y] = thing[y]
    BY <1>3, <2>1, <2>2, <2>3
  <2>8. \A p \in Owners :
          IF ClassOf[p] # ClassOf[o] THEN holds'[p] = holds[p]
          ELSE holds'[p] # None => /\ holds'[p] \in Things /\ thing'[holds'[p]] # None
                                   /\ thing'[holds'[p]].class = ClassOf[o] /\ holds'[p] \notin loose \cup cached
    <3> SUFFICES ASSUME NEW p \in Owners, p # o, ClassOf[p] = k, holds[p] # None
                 PROVE  /\ holds[p] \in Things /\ thing'[holds[p]] # None
                        /\ thing'[holds[p]].class = k /\ holds[p] \notin loose \cup cached
      BY <1>1, <2>1, <2>2, <2>3, <2>5
    <3>1. /\ holds[p] \in Things /\ thing[holds[p]] # None /\ thing[holds[p]].class = k
          /\ holds[p] \notin loose \cup cached
      BY DEF OwningInv, AllProper, Proper, Handles!Sort
    <3>2. holds[p] # holds[o] /\ holds[p] # x
      BY <2>5 DEF OwningInv, OneHolder
    <3> QED
      BY <2>2, <3>1, <3>2
  <2>9. \A p \in Owners : holds[p] # None /\ holds[p] # holds[o] => \E q \in Owners : holds'[q] = holds[p]
    BY <2>3
  <2> QED
    BY <1>1, <1>3, <2>4, <2>6, <2>7, <2>8, <2>9, ThingsReplaced
<1> QED
  BY <1>1, <1>2, <1>3 DEF Handles!Reopens

-----------------------------------------------------------------------------
\* The same things stay open on the same connections; what changes is who holds them.
LEMMA Shifted ==
  ASSUME OwningInv, SameThings, UNCHANGED conn,
         holds' \in [Owners -> Databases \cup Things \cup {None}], loose' \subseteq Things, cached' \subseteq Things,
         OneHolder', loose' \cap cached' = {},
         \A x \in loose' \cup cached' : thing[x] # None /\ thing[x].class = "statement",
         \A p \in Owners : ClassOf[p] = "database" => holds'[p] = holds[p],
         \A p \in Owners : ClassOf[p] # "database" /\ holds'[p] # None =>
           /\ holds'[p] \in Things /\ thing[holds'[p]] # None /\ thing[holds'[p]].class = Handles!Sort(ClassOf[p])
           /\ holds'[p] \notin loose' /\ (holds'[p] \in cached' <=> ClassOf[p] = "lease"),
         \A x \in Things : x \in loose \cup cached \/ (\E p \in Owners : holds[p] = x) =>
           x \in loose' \cup cached' \/ \E p \in Owners : holds'[p] = x,
         Clean'
  PROVE  OwningInv'
<1>1. ConnsKept'
  BY SameKept
<1>2. OwningTypeOK'
  BY DEF OwningInv, OwningTypeOK, SameThings
<1>3. AllProper'
  <2> SUFFICES ASSUME NEW p \in Owners, holds'[p] # None PROVE Proper(p)'
    BY DEF AllProper
  <2>1. CASE ClassOf[p] = "database"
    BY <2>1 DEF Proper, OwningInv, AllProper
  <2>2. CASE ClassOf[p] # "database"
    BY <2>2 DEF Proper, SameThings
  <2> QED
    BY <2>1, <2>2
<1>4. Shelved'
  BY DEF Shelved, SameThings
<1>5. ConnsOwned'
  <2> SUFFICES ASSUME NEW d \in Databases, conn[d] = "open"
               PROVE  \E p \in Owners : ClassOf[p] = "database" /\ holds'[p] = d
    BY DEF ConnsOwned
  <2>1. PICK p \in Owners : ClassOf[p] = "database" /\ holds[p] = d
    BY DEF OwningInv, ConnsOwned
  <2> QED
    BY <2>1
<1>6. ThingsOwned'
  BY DEF OwningInv, ThingsOwned, SameThings
<1> QED
  BY <1>1, <1>2, <1>3, <1>4, <1>5, <1>6 DEF OwningInv, OwningAssumption

\* What the hypotheses of the lemma above are before the step.
LEMMA Before ==
  ASSUME OwningInv
  PROVE  /\ holds \in [Owners -> Databases \cup Things \cup {None}] /\ loose \subseteq Things /\ cached \subseteq Things
         /\ OneHolder /\ loose \cap cached = {}
         /\ \A x \in loose \cup cached : thing[x] # None /\ thing[x].class = "statement"
         /\ \A p \in Owners : ClassOf[p] # "database" /\ holds[p] # None =>
              /\ holds[p] \in Things /\ thing[holds[p]] # None /\ thing[holds[p]].class = Handles!Sort(ClassOf[p])
              /\ holds[p] \notin loose /\ (holds[p] \in cached <=> ClassOf[p] = "lease")
         /\ None \notin Things
BY DEF OwningInv, OwningAssumption, OwningTypeOK, AllProper, Proper, Shelved

\* The step of a statement, a backup or a blob.
LEMMA ThingStands ==
  ASSUME OwningInv, NEW x \in Things, thing[x] # None, NEW b \in BOOLEAN, NEW a \in {"ready", "row", "ended"},
         thing' = [thing EXCEPT ![x].bound = b, ![x].at = a]
  PROVE  SameThings /\ (\A y \in Things : y # x => thing'[y] = thing[y]) /\ thing'[x].bound = b /\ thing'[x].at = a
<1>1. thing[x] \in ThingRecord
  BY DEF OwningInv, OwningTypeOK
<1> DEFINE r == [[thing[x] EXCEPT !.bound = b] EXCEPT !.at = a]
<1>2. /\ r \in ThingRecord /\ r.class = thing[x].class /\ r.db = thing[x].db
      /\ r.bound = b /\ r.at = a
  BY <1>1 DEF ThingRecord
<1>3. \A y \in Things : thing'[y] = IF y = x THEN r ELSE thing[y]
  BY DEF OwningInv, OwningTypeOK
<1>4. DOMAIN thing' = Things /\ thing' = [y \in Things |-> thing'[y]]
  BY DEF OwningInv, OwningTypeOK
<1> HIDE DEF r
<1>5. r # None
  BY <1>2 DEF OwningInv, OwningAssumption
<1>6. thing' \in [Things -> ThingRecord \cup {None}]
  <2>1. \A y \in Things : thing'[y] \in ThingRecord \cup {None}
    BY <1>2, <1>3 DEF OwningInv, OwningTypeOK
  <2> QED
    BY <1>4, <2>1
<1> QED
  BY <1>2, <1>3, <1>5, <1>6 DEF SameThings

LEMMA ThingSteps ==
  ASSUME OwningInv, NEW o \in Owners,
         \/ Handles!Bind(o) \/ Handles!ClearBindings(o) \/ Handles!Step(o) \/ Handles!Reset(o) \/ Handles!Execute(o)
         \/ Handles!StepBackup(o) \/ Handles!ReopenBlob(o)
  PROVE  OwningInv'
<1>1. ClassOf[o] # "database" /\ holds[o] # None
  BY DEF Handles!Bind, Handles!ClearBindings, Handles!Step, Handles!Reset, Handles!Execute, Handles!StepBackup,
     Handles!ReopenBlob, Handles!Uses, Handles!Sort
<1>2. holds[o] \in Things /\ thing[holds[o]] # None /\ thing[holds[o]] \in ThingRecord
  BY <1>1, Before DEF OwningInv, OwningTypeOK
<1>3. \E b \in BOOLEAN, a \in {"ready", "row", "ended"} : Handles!Stands(holds[o], b, a)
  BY <1>2 DEF Handles!Bind, Handles!ClearBindings, Handles!Step, Handles!Reset, Handles!Execute, Handles!StepBackup,
     Handles!ReopenBlob, ThingRecord
<1>4. UNCHANGED <<conn, holds, loose, cached>>
  BY <1>3 DEF Handles!Stands
<1>5. SameThings /\ \A y \in Things : y # holds[o] => thing'[y] = thing[y]
  BY <1>2, <1>3, ThingStands DEF Handles!Stands
<1>6. Clean'
  <2> SUFFICES ASSUME NEW x \in cached, \A p \in Owners : holds[p] # x PROVE ~thing'[x].bound /\ thing'[x].at = "ready"
    BY <1>4 DEF Clean
  <2>1. x \in Things /\ thing'[x] = thing[x]
    BY <1>5, Before
  <2> QED
    BY <2>1 DEF OwningInv, Clean
<1> QED
  BY <1>4, <1>5, <1>6, Before, Shifted DEF OneHolder

\* A statement leaves an object for its caller, or comes back from there.
LEMMA StatementsShift ==
  ASSUME OwningInv, NEW o \in Owners, Handles!Release(o) \/ Handles!Adopt(o)
  PROVE  OwningInv'
<1>1. ClassOf[o] = "statement" /\ UNCHANGED <<conn, thing, cached>> /\ SameThings
  BY DEF Handles!Release, Handles!Adopt, SameThings, OwningInv, OwningTypeOK
<1>2. CASE Handles!Release(o)
  <2>1. /\ holds[o] # None /\ loose' = loose \cup {holds[o]} /\ holds[o] \in Things /\ thing[holds[o]] # None
        /\ thing[holds[o]].class = "statement" /\ holds[o] \notin cached
    BY <1>1, <1>2, Before DEF Handles!Release, Handles!Sort
  <2>2. holds' = [holds EXCEPT ![o] = None]
    BY <1>2 DEF Handles!Release
  <2>3. \A p \in Owners : holds'[p] = IF p = o THEN None ELSE holds[p]
    BY <2>2, Before
  <2>4. OneHolder' /\ \A p \in Owners : holds'[p] # holds[o]
    BY <2>1, <2>3, Before DEF OneHolder
  <2>5. Clean'
    <3>1. \A x \in cached : (\E p \in Owners : holds[p] = x) => \E p \in Owners : holds'[p] = x
      BY <2>1, <2>3
    <3> QED
      BY <1>1, <3>1 DEF Clean, OwningInv
  <2>6. holds' \in [Owners -> Databases \cup Things \cup {None}]
    BY <2>2, Before
  <2>7. \A x \in Things : x \in loose \cup cached \/ (\E p \in Owners : holds[p] = x) =>
          x \in loose' \cup cached' \/ \E p \in Owners : holds'[p] = x
    BY <1>1, <2>1, <2>3
  <2>8. \A p \in Owners : ClassOf[p] # "database" /\ holds'[p] # None =>
          /\ holds'[p] \in Things /\ thing[holds'[p]] # None /\ thing[holds'[p]].class = Handles!Sort(ClassOf[p])
          /\ holds'[p] \notin loose' /\ (holds'[p] \in cached' <=> ClassOf[p] = "lease")
    BY <1>1, <2>1, <2>3, <2>4, Before
  <2>9. loose' \cap cached' = {} /\ (\A x \in loose' \cup cached' : thing[x] # None /\ thing[x].class = "statement")
        /\ loose' \subseteq Things /\ cached' \subseteq Things
    BY <1>1, <2>1, Before
  <2> QED
    BY <1>1, <2>3, <2>4, <2>5, <2>6, <2>7, <2>8, <2>9, Shifted
<1>3. CASE Handles!Adopt(o)
  <2>1. PICK x \in loose : holds[o] = None /\ loose' = loose \ {x} /\ holds' = [holds EXCEPT ![o] = x]
    BY <1>3 DEF Handles!Adopt
  <2>2. x \in Things /\ thing[x] # None /\ thing[x].class = "statement" /\ x \notin cached /\ \A p \in Owners : holds[p] # x
    BY Before DEF OwningInv, OwningAssumption, AllProper, Proper
  <2>3. \A p \in Owners : holds'[p] = IF p = o THEN x ELSE holds[p]
    BY <2>1, Before
  <2>4. OneHolder'
    BY <2>2, <2>3, Before DEF OneHolder
  <2>5. Clean'
    <3>1. \A y \in cached : (\E p \in Owners : holds[p] = y) => \E p \in Owners : holds'[p] = y
      BY <2>1, <2>3, Before
    <3> QED
      BY <1>1, <3>1 DEF Clean, OwningInv
  <2>6. holds' \in [Owners -> Databases \cup Things \cup {None}]
    BY <2>1, <2>2, Before
  <2>7. \A y \in Things : y \in loose \cup cached \/ (\E p \in Owners : holds[p] = y) =>
          y \in loose' \cup cached' \/ \E p \in Owners : holds'[p] = y
    BY <1>1, <2>1, <2>3, Before
  <2>8. \A p \in Owners : ClassOf[p] # "database" /\ holds'[p] # None =>
          /\ holds'[p] \in Things /\ thing[holds'[p]] # None /\ thing[holds'[p]].class = Handles!Sort(ClassOf[p])
          /\ holds'[p] \notin loose' /\ (holds'[p] \in cached' <=> ClassOf[p] = "lease")
    BY <1>1, <2>1, <2>2, <2>3, Before DEF Handles!Sort
  <2>9. loose' \cap cached' = {} /\ (\A y \in loose' \cup cached' : thing[y] # None /\ thing[y].class = "statement")
        /\ loose' \subseteq Things /\ cached' \subseteq Things
    BY <1>1, <2>1, Before
  <2> QED
    BY <1>1, <2>3, <2>4, <2>5, <2>6, <2>7, <2>8, <2>9, Shifted
<1> QED
  BY <1>2, <1>3

\* The application's step: a statement goes from its caller to the cache.
LEMMA StatementKept ==
  ASSUME OwningInv, Handles!Keep
  PROVE  OwningInv'
<1>1. PICK x \in loose : /\ loose' = loose \ {x} /\ cached' = cached \cup {x}
                         /\ thing' = [thing EXCEPT ![x].bound = FALSE, ![x].at = "ready"]
  BY DEF Handles!Keep
<1>2. UNCHANGED <<conn, holds>>
  BY DEF Handles!Keep
<1>3. /\ x \in Things /\ thing[x] # None /\ thing[x].class = "statement" /\ x \notin cached
      /\ \A p \in Owners : holds[p] # x
  BY Before DEF OwningInv, OwningAssumption, AllProper, Proper
<1>4. /\ SameThings /\ \A y \in Things : y # x => thing'[y] = thing[y]
      /\ thing'[x].bound = FALSE /\ thing'[x].at = "ready"
  BY <1>1, <1>3, ThingStands
<1>5. Clean'
  <2> SUFFICES ASSUME NEW y \in cached', \A p \in Owners : holds[p] # y PROVE ~thing'[y].bound /\ thing'[y].at = "ready"
    BY <1>2 DEF Clean
  <2>1. CASE y = x
    BY <1>4, <2>1
  <2>2. CASE y # x
    BY <1>1, <1>4, <2>2, Before DEF OwningInv, Clean
  <2> QED
    BY <2>1, <2>2
<1>6. \A p \in Owners : ClassOf[p] # "database" /\ holds'[p] # None =>
        /\ holds'[p] \in Things /\ thing[holds'[p]] # None /\ thing[holds'[p]].class = Handles!Sort(ClassOf[p])
        /\ holds'[p] \notin loose' /\ (holds'[p] \in cached' <=> ClassOf[p] = "lease")
  BY <1>1, <1>2, <1>3, Before
<1>7. loose' \cap cached' = {} /\ (\A y \in loose' \cup cached' : thing[y] # None /\ thing[y].class = "statement")
      /\ loose' \subseteq Things /\ cached' \subseteq Things
  BY <1>1, <1>3, Before
<1>8. \A y \in Things : y \in loose \cup cached \/ (\E p \in Owners : holds[p] = y) =>
        y \in loose' \cup cached' \/ \E p \in Owners : holds'[p] = y
  BY <1>1, <1>2
<1>9. /\ holds' \in [Owners -> Databases \cup Things \cup {None}] /\ OneHolder'
      /\ \A p \in Owners : ClassOf[p] = "database" => holds'[p] = holds[p]
  BY <1>2, Before DEF OneHolder
<1> QED
  BY <1>2, <1>4, <1>5, <1>6, <1>7, <1>8, <1>9, Shifted

LEMMA StatementEvicted ==
  ASSUME OwningInv, Handles!Evict
  PROVE  OwningInv'
<1>1. PICK x \in cached : (\A p \in Owners : holds[p] # x) /\ cached' = cached \ {x} /\ Handles!Closes({x})
  BY DEF Handles!Evict
<1>2. UNCHANGED <<holds, loose>>
  BY DEF Handles!Evict
<1>3. x \in Things /\ thing[x] # None /\ x \notin loose
  BY Before
<1>4. /\ conn' = Handles!ConnsWithout({x}, conn)
      /\ thing' \in [Things -> ThingRecord \cup {None}]
      /\ \A y \in Things : thing'[y] = IF y = x THEN None ELSE thing[y]
  BY <1>1 DEF Handles!Closes, OwningInv, OwningTypeOK
<1>5. /\ conn' \in [Databases -> {"unborn", "open", "closed", "freed"}] /\ ConnsKept'
      /\ \A d \in Databases : conn'[d] = "open" <=> conn[d] = "open"
  BY <1>3, <1>4, ConnsClosed
<1>6. OwningTypeOK'
  BY <1>1, <1>2, <1>4, <1>5 DEF OwningInv, OwningTypeOK
<1>7. AllProper'
  <2> SUFFICES ASSUME NEW p \in Owners, holds[p] # None PROVE Proper(p)'
    BY <1>2 DEF AllProper
  <2>1. Proper(p) /\ holds[p] # x
    BY <1>1 DEF OwningInv, AllProper
  <2>2. CASE ClassOf[p] = "database"
    BY <1>2, <1>5, <2>1, <2>2 DEF Proper
  <2>3. CASE ClassOf[p] # "database"
    <3>1. thing'[holds[p]] = thing[holds[p]] /\ (holds[p] \in cached' <=> holds[p] \in cached)
      BY <1>1, <1>4, <2>1, <2>3 DEF Proper
    <3> QED
      BY <1>2, <2>1, <2>3, <3>1 DEF Proper
  <2> QED
    BY <2>2, <2>3
<1>8. OneHolder' /\ ConnsOwned'
  BY <1>2, <1>5 DEF OwningInv, OneHolder, ConnsOwned
<1>9. Shelved'
  <2>1. \A y \in loose' \cup cached' : y \in loose \cup cached /\ y # x /\ y \in Things
    BY <1>1, <1>2, <1>3, Before
  <2> QED
    BY <1>1, <1>2, <1>4, <2>1 DEF OwningInv, Shelved
<1>10. ThingsOwned'
  BY <1>1, <1>2, <1>4 DEF OwningInv, ThingsOwned
<1>11. Clean'
  BY <1>1, <1>2, <1>4, Before DEF OwningInv, Clean
<1>12. OwningAssumption'
  BY DEF OwningInv, OwningAssumption
<1> QED
  BY <1>5, <1>6, <1>7, <1>8, <1>9, <1>10, <1>11, <1>12 DEF OwningInv

-----------------------------------------------------------------------------
\* What release_to_cache leaves.
LEMMA Cleans ==
  ASSUME OwningInv, NEW xs \in SUBSET Things, \A x \in xs : thing[x] # None, thing' = Handles!Cleaned(xs)
  PROVE  /\ SameThings /\ \A y \in Things : y \notin xs => thing'[y] = thing[y]
         /\ \A y \in xs : ~thing'[y].bound /\ thing'[y].at = "ready"
<1> DEFINE r(x) == [thing[x] EXCEPT !.bound = FALSE, !.at = "ready"]
<1>1. \A x \in xs : thing[x] \in ThingRecord
  BY DEF OwningInv, OwningTypeOK
<1>2. \A x \in xs : /\ r(x) \in ThingRecord /\ r(x).class = thing[x].class /\ r(x).db = thing[x].db
                    /\ ~r(x).bound /\ r(x).at = "ready"
  BY <1>1 DEF ThingRecord
<1>3. /\ \A y \in Things : thing'[y] = IF y \in xs THEN r(y) ELSE thing[y]
      /\ DOMAIN thing' = Things /\ thing' = [y \in Things |-> thing'[y]]
  BY DEF Handles!Cleaned
<1> HIDE DEF r
<1>4. \A x \in xs : r(x) # None
  BY <1>2 DEF OwningInv, OwningAssumption
<1>5. thing' \in [Things -> ThingRecord \cup {None}]
  <2>1. \A y \in Things : thing'[y] \in ThingRecord \cup {None}
    BY <1>2, <1>3 DEF OwningInv, OwningTypeOK
  <2> QED
    BY <1>3, <2>1
<1>6. \A y \in Things : (thing'[y] # None <=> thing[y] # None)
                        /\ (thing[y] # None => thing'[y].class = thing[y].class /\ thing'[y].db = thing[y].db)
  <2>1. \A y \in xs : thing'[y] # None /\ thing'[y].class = thing[y].class /\ thing'[y].db = thing[y].db
    BY <1>2, <1>3, <1>4
  <2>2. \A y \in Things : y \notin xs => thing'[y] = thing[y]
    BY <1>3
  <2> QED
    BY <2>1, <2>2
<1>7. \A y \in Things : y \notin xs => thing'[y] = thing[y]
  BY <1>3
<1>8. \A y \in xs : ~thing'[y].bound /\ thing'[y].at = "ready"
  BY <1>2, <1>3
<1> QED
  BY <1>5, <1>6, <1>7, <1>8 DEF SameThings

\* A statement of the cache is leased, given back or handed on.
LEMMA LeaseSteps ==
  ASSUME OwningInv, NEW o \in Owners,
         \/ Handles!Lease(o) \/ Handles!ReleaseToCache(o) \/ \E from \in Owners : Handles!MoveLease(o, from)
  PROVE  OwningInv'
<1>1. ClassOf[o] = "lease" /\ UNCHANGED <<conn, loose, cached>>
  BY DEF Handles!Lease, Handles!ReleaseToCache, Handles!MoveLease
<1>2. \A p \in Owners : ClassOf[p] = "lease" /\ holds[p] # None =>
        /\ holds[p] \in cached /\ holds[p] \in Things /\ holds[p] \notin loose /\ thing[holds[p]] # None
        /\ thing[holds[p]].class = "statement"
  BY Before DEF Handles!Sort
<1>3. ASSUME SameThings, OneHolder', Clean', holds' \in [Owners -> Databases \cup Things \cup {None}],
             \A p \in Owners : ClassOf[p] # "lease" => holds'[p] = holds[p],
             \A p \in Owners : ClassOf[p] = "lease" /\ holds'[p] # None => holds'[p] \in cached
      PROVE  OwningInv'
  <2>1. \A p \in Owners : ClassOf[p] # "database" /\ holds'[p] # None =>
          /\ holds'[p] \in Things /\ thing[holds'[p]] # None /\ thing[holds'[p]].class = Handles!Sort(ClassOf[p])
          /\ holds'[p] \notin loose' /\ (holds'[p] \in cached' <=> ClassOf[p] = "lease")
    <3> SUFFICES ASSUME NEW p \in Owners, ClassOf[p] # "database", holds'[p] # None
                 PROVE  /\ holds'[p] \in Things /\ thing[holds'[p]] # None
                        /\ thing[holds'[p]].class = Handles!Sort(ClassOf[p])
                        /\ holds'[p] \notin loose' /\ (holds'[p] \in cached' <=> ClassOf[p] = "lease")
      OBVIOUS
    <3>1. CASE ClassOf[p] = "lease"
      <4>1. holds'[p] \in cached
        BY <1>3, <3>1
      <4> QED
        BY <1>1, <3>1, <4>1, Before DEF Handles!Sort
    <3>2. CASE ClassOf[p] # "lease"
      <4>1. holds'[p] = holds[p]
        BY <1>3, <3>2
      <4> QED
        BY <1>1, <4>1, Before
    <3> QED
      BY <3>1, <3>2
  <2>2. \A y \in Things : y \in loose \cup cached \/ (\E p \in Owners : holds[p] = y) =>
          y \in loose' \cup cached' \/ \E p \in Owners : holds'[p] = y
    <3>1. \A y \in Things : (\E p \in Owners : holds[p] = y) => y \in cached \/ \E p \in Owners : holds'[p] = y
      <4> SUFFICES ASSUME NEW y \in Things, NEW p \in Owners, holds[p] = y
                   PROVE  y \in cached \/ \E q \in Owners : holds'[q] = y
        OBVIOUS
      <4>1. CASE ClassOf[p] = "lease"
        BY <1>2, <4>1, Before
      <4>2. CASE ClassOf[p] # "lease"
        BY <1>3, <4>2
      <4> QED
        BY <4>1, <4>2
    <3> QED
      BY <1>1, <3>1
  <2>3. \A p \in Owners : ClassOf[p] = "database" => holds'[p] = holds[p]
    BY <1>3
  <2> QED
    BY <1>1, <1>3, <2>1, <2>2, <2>3, Before, Shifted
<1>4. CASE Handles!Lease(o)
  <2>1. PICK x \in cached : (\A p \in Owners : holds[p] # x) /\ holds' = [holds EXCEPT ![o] = x]
    BY <1>4 DEF Handles!Lease
  <2>2. UNCHANGED thing /\ SameThings
    BY <1>4 DEF Handles!Lease, SameThings, OwningInv, OwningTypeOK
  <2>3. \A p \in Owners : holds'[p] = IF p = o THEN x ELSE holds[p]
    BY <2>1, Before
  <2>4. OneHolder'
    BY <2>1, <2>3, Before DEF OneHolder
  <2>5. Clean'
    <3>1. holds[o] = None
      BY <1>4 DEF Handles!Lease
    <3>2. \A y \in cached : (\E p \in Owners : holds[p] = y) => \E p \in Owners : holds'[p] = y
      BY <2>3, <3>1, Before
    <3> QED
      BY <1>1, <2>2, <3>2 DEF OwningInv, Clean
  <2>6. holds' \in [Owners -> Databases \cup Things \cup {None}]
    BY <2>1, Before
  <2> QED
    BY <1>1, <1>2, <1>3, <2>2, <2>3, <2>4, <2>5, <2>6
<1>5. CASE Handles!ReleaseToCache(o)
  <2>1. /\ holds[o] # None /\ thing' = Handles!Cleaned({holds[o]}) /\ holds' = [holds EXCEPT ![o] = None]
        /\ holds[o] \in Things /\ thing[holds[o]] # None
    BY <1>1, <1>2, <1>5 DEF Handles!ReleaseToCache
  <2>2. /\ SameThings /\ (\A y \in Things : y # holds[o] => thing'[y] = thing[y])
        /\ ~thing'[holds[o]].bound /\ thing'[holds[o]].at = "ready"
    <3> DEFINE xs == {holds[o]}
    <3>1. xs \in SUBSET Things /\ (\A x \in xs : thing[x] # None) /\ thing' = Handles!Cleaned(xs)
      BY <2>1
    <3> HIDE DEF xs
    <3>2. /\ SameThings /\ (\A y \in Things : y \notin xs => thing'[y] = thing[y])
          /\ \A y \in xs : ~thing'[y].bound /\ thing'[y].at = "ready"
      BY <3>1, Cleans
    <3> QED
      BY <3>2 DEF xs
  <2>3. \A p \in Owners : holds'[p] = IF p = o THEN None ELSE holds[p]
    BY <2>1, Before
  <2>4. OneHolder'
    BY <2>3, Before DEF OneHolder
  <2>5. Clean'
    <3> SUFFICES ASSUME NEW y \in cached, \A p \in Owners : holds'[p] # y PROVE ~thing'[y].bound /\ thing'[y].at = "ready"
      BY <1>1 DEF Clean
    <3>1. CASE y = holds[o]
      BY <2>2, <3>1
    <3>2. CASE y # holds[o]
      <4>1. \A p \in Owners : holds[p] # y
        BY <2>3, <3>2
      <4>2. y \in Things /\ thing'[y] = thing[y]
        BY <2>2, <3>2, Before
      <4> QED
        BY <4>1, <4>2 DEF OwningInv, Clean
    <3> QED
      BY <3>1, <3>2
  <2>6. holds' \in [Owners -> Databases \cup Things \cup {None}]
    BY <2>1, Before
  <2> QED
    BY <1>1, <1>2, <1>3, <2>2, <2>3, <2>4, <2>5, <2>6
<1>6. ASSUME NEW from \in Owners, Handles!MoveLease(o, from) PROVE OwningInv'
  <2>1. /\ ClassOf[from] = "lease" /\ o # from /\ thing' = Handles!Cleaned(Handles!Holding(o))
        /\ holds' = [holds EXCEPT ![o] = holds[from], ![from] = None]
        /\ Handles!Holding(o) = {holds[o]} \ {None} /\ Handles!Holding(o) \in SUBSET Things
        /\ \A x \in Handles!Holding(o) : thing[x] # None
    BY <1>1, <1>2, <1>6 DEF Handles!MoveLease, Handles!Holding
  <2>2. /\ SameThings /\ (\A y \in Things : y # holds[o] => thing'[y] = thing[y])
        /\ (holds[o] # None => ~thing'[holds[o]].bound /\ thing'[holds[o]].at = "ready")
    BY <2>1, Cleans
  <2>3. \A p \in Owners : holds'[p] = IF p = o THEN holds[from] ELSE IF p = from THEN None ELSE holds[p]
    BY <2>1, Before
  <2>4. OneHolder'
    BY <2>1, <2>3, Before DEF OneHolder
  <2>5. Clean'
    <3> SUFFICES ASSUME NEW y \in cached, \A p \in Owners : holds'[p] # y PROVE ~thing'[y].bound /\ thing'[y].at = "ready"
      BY <1>1 DEF Clean
    <3>1. CASE y = holds[o]
      BY <2>2, <3>1, Before
    <3>2. CASE y # holds[o]
      <4>1. \A p \in Owners : holds[p] # y
        BY <2>1, <2>3, <3>2
      <4>2. y \in Things /\ thing'[y] = thing[y]
        BY <2>2, <3>2, Before
      <4> QED
        BY <4>1, <4>2 DEF OwningInv, Clean
    <3> QED
      BY <3>1, <3>2
  <2>6. holds' \in [Owners -> Databases \cup Things \cup {None}]
    BY <2>1, Before
  <2>7. \A p \in Owners : ClassOf[p] = "lease" /\ holds'[p] # None => holds'[p] \in cached
    BY <1>1, <1>2, <2>1, <2>3
  <2>8. \A p \in Owners : ClassOf[p] # "lease" => holds'[p] = holds[p]
    BY <1>1, <2>1, <2>3
  <2> QED
    BY <1>3, <2>2, <2>4, <2>5, <2>6, <2>7, <2>8
<1> QED
  BY <1>4, <1>5, <1>6

LEMMA OwningStutters ==
  ASSUME OwningInv, UNCHANGED Handles!handleVars
  PROVE  OwningInv'
BY DEF Handles!handleVars, OwningInv, OwningAssumption, OwningTypeOK, AllProper, Proper, OneHolder, Shelved, ConnsKept,
   ConnsOwned, ThingsOwned, Clean

\* The inductive invariant of the owners of connections and statements holds in every state.
THEOREM OwningInvariance == ASSUME OwningAssumption PROVE Handles!HandlesSpec => []OwningInv
<1>1. ASSUME OwningInv, [Handles!HandlesNext]_Handles!handleVars PROVE OwningInv'
  <2>1. CASE UNCHANGED Handles!handleVars
    BY <1>1, <2>1, OwningStutters
  <2>2. CASE Handles!Keep
    BY <1>1, <2>2, StatementKept
  <2>3. CASE Handles!Evict
    BY <1>1, <2>3, StatementEvicted
  <2>4. ASSUME NEW o \in Owners, Handles!BindByName(o) PROVE OwningInv'
    BY <1>1, <2>4, ThingSteps, OwningStutters DEF Handles!BindByName
  <2> QED
    BY <1>1, <2>1, <2>2, <2>3, <2>4, DatabaseSteps, ThingsOpen, ThingsEnd, StatementsShift, ThingSteps, LeaseSteps
       DEF Handles!HandlesNext
<1>2. ASSUME Handles!HandlesInit PROVE OwningInv
  BY <1>2, OwningInitially
<1> QED
  BY <1>1, <1>2, PTL DEF Handles!HandlesSpec

LEMMA OwningFollows ==
  ASSUME OwningInv
  PROVE  Handles!HandlesSafe
<1>1. Handles!NothingDangles
  <2>1. ASSUME NEW o \in Owners, holds[o] # None
        PROVE  IF ClassOf[o] = "database" THEN conn[holds[o]] = "open"
               ELSE thing[holds[o]] # None /\ thing[holds[o]].class = Handles!Sort(ClassOf[o])
    BY <2>1 DEF OwningInv, AllProper, Proper
  <2> QED
    BY <2>1 DEF OwningInv, OneHolder, ConnsKept, Handles!NothingDangles
<1>2. Handles!NothingForgotten
  BY DEF OwningInv, ThingsOwned, ConnsOwned, ConnsKept, Handles!NothingForgotten, Handles!Of
<1>3. Handles!CacheIsClean
  <2> SUFFICES ASSUME NEW x \in cached
               PROVE  thing[x] = Handles!Fresh("statement", thing[x].db) \/ \E o \in Handles!Of("lease") : holds[o] = x
    BY DEF Handles!CacheIsClean
  <2>1. CASE \E o \in Owners : holds[o] = x
    <3>1. PICK o \in Owners : holds[o] = x
      BY <2>1
    <3>2. x \in Things /\ x # None /\ x \notin Databases
      BY Before DEF OwningInv, OwningAssumption
    <3>3. ClassOf[o] = "lease"
      BY <3>1, <3>2 DEF OwningInv, AllProper, Proper
    <3> QED
      BY <3>1, <3>3 DEF Handles!Of
  <2>2. CASE ~thing[x].bound /\ thing[x].at = "ready"
    <3>1. thing[x] \in ThingRecord /\ thing[x].class = "statement"
      BY Before DEF OwningInv, OwningTypeOK
    <3>2. thing[x].bound = FALSE
      BY <2>2, <3>1 DEF ThingRecord
    <3> QED
      BY <2>2, <3>1, <3>2 DEF ThingRecord, Handles!Fresh
  <2> QED
    BY <2>1, <2>2 DEF OwningInv, Clean
<1> QED
  BY <1>1, <1>2, <1>3 DEF Handles!HandlesSafe

\* However the owners of connections, statements, backups and blobs are moved, emptied, used
\* again and destroyed: what they hold is open, whatever is open has an owner, and a statement of
\* the cache that nobody leases is clean.
THEOREM HandlesAlwaysSafe == ASSUME OwningAssumption PROVE Handles!HandlesSpec => []Handles!HandlesSafe
  BY OwningInvariance, OwningFollows, PTL

-----------------------------------------------------------------------------
(* SqlFunctions: the states of functions, and the instances of aggregates *)

FnsTypeOK ==
  /\ function \in [FnNames -> FnRecord \cup {None}]
  /\ counts \in [Functions!Parts -> Int] /\ holders \in Int /\ stray \subseteq Functions!Parts
  /\ group \in [Groups -> GroupRecord \cup {None}] /\ instances \in Int
  /\ result.failed \/ result.given = result.rows

Holds(p) == {f \in FnNames : function[f] # None /\ p \in function[f].data.held}
InHolders == {f \in FnNames : function[f] # None /\ function[f].data.holder}
Aggregating == {g \in Groups : group[g] # None /\ group[g].initialized}

StatesCounted ==
  /\ \A p \in Functions!Parts : counts[p] = Cardinality(Holds(p)) + IF p \in stray THEN 1 ELSE 0
  /\ holders = Cardinality(InHolders)

\* An aggregate has seen every row of its group, and one that is not constructed none.
RowsSeen == \A g \in Groups : group[g] # None => group[g].rows = IF group[g].initialized THEN group[g].seen ELSE 0

FnsInv == FnsAssumption /\ FnsTypeOK /\ StatesCounted /\ instances = Cardinality(Aggregating) /\ RowsSeen

\* Two finite sets that differ in one element at most.
LEMMA OneApart ==
  ASSUME NEW S, NEW T, NEW x, IsFiniteSet(S), S \ {x} = T \ {x}
  PROVE  /\ IsFiniteSet(T) /\ Cardinality(S) \in Nat /\ Cardinality(T) \in Nat
         /\ Cardinality(T) = Cardinality(S) + (IF x \in T THEN 1 ELSE 0) - (IF x \in S THEN 1 ELSE 0)
<1> DEFINE R == S \ {x}
<1>1. IsFiniteSet(R) /\ x \notin R /\ Cardinality(R) \in Nat
  BY FS_RemoveElement, FS_CardinalityType, FS_Subset
<1>2. IsFiniteSet(R \cup {x}) /\ Cardinality(R \cup {x}) = Cardinality(R) + 1
  BY <1>1, FS_AddElement
<1>3. S = (IF x \in S THEN R \cup {x} ELSE R) /\ T = (IF x \in T THEN R \cup {x} ELSE R)
  OBVIOUS
<1> HIDE DEF R
<1>4. Cardinality(S) = Cardinality(R) + (IF x \in S THEN 1 ELSE 0)
  <2>1. CASE x \in S
    BY <1>2, <1>3, <2>1
  <2>2. CASE x \notin S
    BY <1>1, <1>3, <2>2
  <2> QED
    BY <2>1, <2>2
<1>5. IsFiniteSet(T) /\ Cardinality(T) = Cardinality(R) + (IF x \in T THEN 1 ELSE 0)
  BY <1>1, <1>2, <1>3
<1> QED
  BY <1>1, <1>4, <1>5

LEMMA FnsCardinality ==
  ASSUME NEW S
  PROVE  Functions!Cardinality(S) = Cardinality(S)
BY DEF Functions!Cardinality, Cardinality

LEMMA FnsFinite ==
  ASSUME FnsInv
  PROVE  (\A p \in Functions!Parts : IsFiniteSet(Holds(p))) /\ IsFiniteSet(InHolders) /\ IsFiniteSet(Aggregating)
<1>1. (\A p \in Functions!Parts : Holds(p) \subseteq FnNames) /\ InHolders \subseteq FnNames /\ Aggregating \subseteq Groups
  BY DEF Holds, InHolders, Aggregating
<1> QED
  BY <1>1, FS_Subset DEF FnsInv, FnsAssumption

LEMMA FnsInitially ==
  ASSUME FnsAssumption, Functions!FunctionsInit
  PROVE  FnsInv
<1>1. (\A p \in Functions!Parts : Holds(p) = {}) /\ InHolders = {} /\ Aggregating = {}
  BY DEF Functions!FunctionsInit, Holds, InHolders, Aggregating
<1>2. Cardinality({}) = 0
  BY FS_EmptySet
<1>3. StatesCounted /\ instances = Cardinality(Aggregating)
  BY <1>1, <1>2 DEF Functions!FunctionsInit, StatesCounted
<1>4. FnsTypeOK /\ RowsSeen
  BY DEF Functions!FunctionsInit, FnsTypeOK, RowsSeen
<1> QED
  BY <1>3, <1>4 DEF FnsInv

-----------------------------------------------------------------------------
DataOf(r) == IF r = None THEN Functions!Nothing ELSE r.data

LEMMA FnsNothing == Functions!Nothing \in DataRecord /\ Functions!Nothing.held = {} /\ Functions!Nothing.stray = {} /\ ~Functions!Nothing.holder
BY DEF Functions!Nothing, Functions!UserData, DataRecord

\* The groups are not concerned.
LEMMA GroupsKept ==
  ASSUME FnsInv, UNCHANGED <<group, instances, result>>
  PROVE  instances' = Cardinality(Aggregating') /\ RowsSeen'
BY DEF FnsInv, Aggregating, RowsSeen

\* A function is defined, replaced or dropped.
LEMMA FunctionChanges ==
  ASSUME FnsInv, NEW f \in FnNames, NEW r \in FnRecord \cup {None},
         function' = [function EXCEPT ![f] = r], stray' = stray \cup DataOf(r).stray,
         DataOf(r).stray \cap stray = {}, DataOf(r).held \cap DataOf(r).stray = {},
         Functions!Refs(DataOf(r), DataOf(function[f])), Functions!Holders(DataOf(r), DataOf(function[f])),
         UNCHANGED <<group, instances, result>>
  PROVE  FnsInv'
<1> DEFINE new == DataOf(r)
<1>1. \A g \in FnNames : function'[g] = IF g = f THEN r ELSE function[g]
  BY DEF FnsInv, FnsTypeOK
<1>2. new \in DataRecord /\ DataOf(function[f]) \in DataRecord
  BY FnsNothing DEF DataOf, FnsInv, FnsTypeOK, FnRecord
<1>3. ASSUME NEW p \in Functions!Parts
      PROVE  /\ Cardinality(Holds(p)') = Cardinality(Holds(p)) + (IF p \in new.held THEN 1 ELSE 0)
                                           - (IF p \in DataOf(function[f]).held THEN 1 ELSE 0)
             /\ Cardinality(Holds(p)) \in Nat
  <2>1. Holds(p)' \ {f} = Holds(p) \ {f} /\ (f \in Holds(p)' <=> p \in new.held)
        /\ (f \in Holds(p) <=> p \in DataOf(function[f]).held)
    BY <1>1, FnsNothing DEF Holds, DataOf
  <2> QED
    BY <2>1, FnsFinite, OneApart
<1>4. /\ Cardinality(InHolders') = Cardinality(InHolders) + (IF new.holder THEN 1 ELSE 0)
                                     - (IF DataOf(function[f]).holder THEN 1 ELSE 0)
      /\ Cardinality(InHolders) \in Nat
  <2>1. InHolders' \ {f} = InHolders \ {f} /\ (f \in InHolders' <=> new.holder)
        /\ (f \in InHolders <=> DataOf(function[f]).holder)
    BY <1>1, FnsNothing DEF InHolders, DataOf
  <2> QED
    BY <2>1, FnsFinite, OneApart
<1> HIDE DEF new
<1>5. /\ counts' = [p \in Functions!Parts |-> counts'[p]]
      /\ \A p \in Functions!Parts : counts'[p] = counts[p] + (IF p \in new.held \cup new.stray THEN 1 ELSE 0)
                                                    - (IF p \in DataOf(function[f]).held THEN 1 ELSE 0)
  BY DEF Functions!Refs, Functions!GivenUp, new
<1>6. holders' = holders + (IF new.holder THEN 1 ELSE 0) - (IF DataOf(function[f]).holder THEN 1 ELSE 0)
  BY DEF Functions!Holders, new
<1>7. FnsTypeOK'
  <2>1. \A p \in Functions!Parts : counts'[p] \in Int
    BY <1>5 DEF FnsInv, FnsTypeOK
  <2>2. counts' \in [Functions!Parts -> Int]
    BY <1>5, <2>1
  <2>3. function' \in [FnNames -> FnRecord \cup {None}]
    BY DEF FnsInv, FnsTypeOK
  <2> QED
    BY <1>2, <1>6, <2>2, <2>3 DEF FnsInv, FnsTypeOK, new, DataRecord
<1>8. StatesCounted'
  <2>1. ASSUME NEW p \in Functions!Parts PROVE counts'[p] = Cardinality(Holds(p)') + IF p \in stray' THEN 1 ELSE 0
    BY <1>3, <1>5 DEF FnsInv, StatesCounted, new
  <2>2. holders' = Cardinality(InHolders')
    BY <1>4, <1>6 DEF FnsInv, StatesCounted
  <2> QED
    BY <2>1, <2>2 DEF StatesCounted
<1> QED
  BY <1>7, <1>8, GroupsKept DEF FnsInv, FnsAssumption

\* A definition is refused, and what was made for it is given back, but for what is left stray.
LEMMA FunctionRefused ==
  ASSUME FnsInv, NEW new \in DataRecord, stray' = stray \cup new.stray, new.stray \cap stray = {},
         new.held \cap new.stray = {}, Functions!Refs(new, new), UNCHANGED <<function, holders, group, instances, result>>
  PROVE  FnsInv'
<1>1. /\ counts' = [p \in Functions!Parts |-> counts'[p]]
      /\ \A p \in Functions!Parts : counts'[p] = counts[p] + IF p \in new.stray THEN 1 ELSE 0
  BY DEF Functions!Refs, Functions!GivenUp, FnsInv, FnsTypeOK
<1>2. FnsTypeOK'
  <2>1. \A p \in Functions!Parts : counts'[p] \in Int
    BY <1>1 DEF FnsInv, FnsTypeOK
  <2>2. counts' \in [Functions!Parts -> Int]
    BY <1>1, <2>1
  <2> QED
    BY <2>2 DEF FnsInv, FnsTypeOK, DataRecord
<1>3. StatesCounted'
  <2>1. \A p \in Functions!Parts : Holds(p)' = Holds(p) /\ Cardinality(Holds(p)) \in Nat
    BY FnsFinite, FS_CardinalityType DEF Holds
  <2> QED
    BY <1>1, <2>1 DEF FnsInv, StatesCounted, InHolders
<1> QED
  BY <1>2, <1>3, GroupsKept DEF FnsInv, FnsAssumption

FnStates == {"none", "ext", "conn", "hybrid", "hybrid in C"}

LEMMA InitsTyped ==
  ASSUME NEW state \in FnStates, NEW new \in Functions!Inits(state)
  PROVE  new \in DataRecord /\ new.held \cap new.stray = {}
<1>1. \A held \in SUBSET Functions!Parts, holder \in BOOLEAN :
        /\ Functions!UserData(held, holder, {}) \in DataRecord /\ Functions!UserData(held, holder, {}).stray = {}
        /\ Functions!UserData({}, holder, held) \in DataRecord /\ Functions!UserData({}, holder, held).held = {}
  BY DEF Functions!UserData, DataRecord
<1>2. Functions!Both \subseteq SUBSET Functions!Parts
  BY DEF Functions!Both
<1>3. CASE state = "none"
  <2>1. Functions!Inits(state) = {Functions!Nothing}
    BY <1>3 DEF Functions!Inits, Functions!Parts
  <2> QED
    BY <2>1, FnsNothing
<1>4. CASE state \in Functions!Parts
  <2>1. Functions!Inits(state) = Functions!One(state) /\ {state} \in SUBSET Functions!Parts
    BY <1>4 DEF Functions!Inits, Functions!Parts
  <2>2. new = Functions!Nothing \/ new = Functions!UserData({state}, FALSE, {})
    BY <2>1 DEF Functions!One
  <2> QED
    BY <1>1, <2>1, <2>2, FnsNothing
<1>5. CASE state = "hybrid"
  <2>1. Functions!Inits(state) = Functions!HybridInit
    BY <1>5 DEF Functions!Inits, Functions!Parts
  <2>2. new = Functions!Nothing \/ \E held \in SUBSET Functions!Parts : new = Functions!UserData(held, TRUE, {})
    BY <1>2, <2>1 DEF Functions!HybridInit
  <2> QED
    BY <1>1, <2>2, FnsNothing
<1>6. CASE state = "hybrid in C"
  <2>1. Functions!Inits(state) = Functions!HybridInitC
    BY <1>6 DEF Functions!Inits, Functions!Parts
  <2>2. \E held \in SUBSET Functions!Parts : new = Functions!UserData(held, TRUE, {}) \/ new = Functions!UserData({}, FALSE, held)
    BY <1>2, <2>1 DEF Functions!HybridInitC
  <2> QED
    BY <1>1, <2>2
<1> QED
  BY <1>3, <1>4, <1>5, <1>6 DEF FnStates, Functions!Parts

LEMMA FunctionDefined ==
  ASSUME FnsInv, NEW f \in FnNames, NEW sort \in {"scalar", "aggregate"}, NEW state \in FnStates,
         Functions!Defines(f, sort, state)
  PROVE  FnsInv'
<1> DEFINE old == IF function[f] = None THEN Functions!Nothing ELSE function[f].data
<1>1. PICK new \in Functions!Inits(state) :
        /\ stray' = stray \cup new.stray /\ new.stray \cap stray = {}
        /\ \/ /\ function' = [function EXCEPT ![f] = [sort |-> sort, data |-> new]]
              /\ Functions!Refs(new, old) /\ Functions!Holders(new, old)
           \/ UNCHANGED <<function, holders>> /\ Functions!Refs(new, new)
  BY DEF Functions!Defines
<1>2. new \in DataRecord /\ new.held \cap new.stray = {} /\ UNCHANGED <<group, instances, result>>
  BY <1>1, InitsTyped DEF Functions!Defines
<1>3. CASE UNCHANGED <<function, holders>> /\ Functions!Refs(new, new)
  BY <1>1, <1>2, <1>3, FunctionRefused
<1>4. CASE /\ function' = [function EXCEPT ![f] = [sort |-> sort, data |-> new]]
           /\ Functions!Refs(new, old) /\ Functions!Holders(new, old)
  <2> DEFINE r == [sort |-> sort, data |-> new]
  <2>1. r \in FnRecord /\ r.data = new
    BY <1>2 DEF FnRecord
  <2>2. DataOf(r) = new /\ DataOf(function[f]) = old
    BY <2>1 DEF DataOf, FnsInv, FnsAssumption
  <2>3. function' = [function EXCEPT ![f] = r]
    BY <1>4
  <2> HIDE DEF r, old
  <2> QED
    BY <1>1, <1>2, <1>4, <2>1, <2>2, <2>3, FunctionChanges
<1> QED
  BY <1>1, <1>3, <1>4

LEMMA FunctionDropped ==
  ASSUME FnsInv, NEW f \in FnNames, Functions!Drop(f)
  PROVE  FnsInv'
<1>1. DataOf(None) = Functions!Nothing /\ DataOf(function[f]) = function[f].data
  BY DEF DataOf, Functions!Drop
<1>2. stray' = stray \cup Functions!Nothing.stray /\ Functions!Nothing.stray \cap stray = {} /\ Functions!Nothing.held \cap Functions!Nothing.stray = {}
  BY FnsNothing DEF Functions!Drop
<1> QED
  BY <1>1, <1>2, FunctionChanges DEF Functions!Drop

-----------------------------------------------------------------------------
\* A group begins, gets a row or ends.
LEMMA GroupChanges ==
  ASSUME FnsInv, NEW g \in Groups, NEW r \in GroupRecord \cup {None}, group' = [group EXCEPT ![g] = r],
         instances' = instances + (IF r # None /\ r.initialized THEN 1 ELSE 0)
                                - (IF group[g] # None /\ group[g].initialized THEN 1 ELSE 0),
         r # None => r.rows = IF r.initialized THEN r.seen ELSE 0,
         UNCHANGED <<function, counts, holders, stray>>, result'.failed \/ result'.given = result'.rows
  PROVE  FnsInv'
<1>1. \A h \in Groups : group'[h] = IF h = g THEN r ELSE group[h]
  BY DEF FnsInv, FnsTypeOK
<1>2. Aggregating' \ {g} = Aggregating \ {g} /\ (g \in Aggregating' <=> r # None /\ r.initialized)
      /\ (g \in Aggregating <=> group[g] # None /\ group[g].initialized)
  BY <1>1 DEF Aggregating
<1>3. instances' = Cardinality(Aggregating')
  <2>1. instances = Cardinality(Aggregating)
    BY DEF FnsInv
  <2> QED
    BY <1>2, <2>1, FnsFinite, OneApart
<1>4. FnsTypeOK'
  BY DEF FnsInv, FnsTypeOK
<1>5. RowsSeen'
  BY <1>1 DEF FnsInv, RowsSeen
<1>6. StatesCounted'
  BY DEF FnsInv, StatesCounted, Holds, InHolders
<1> QED
  BY <1>3, <1>4, <1>5, <1>6 DEF FnsInv, FnsAssumption

LEMMA GroupBegins ==
  ASSUME FnsInv, NEW g \in Groups, NEW f \in FnNames, Functions!Begin(g, f)
  PROVE  FnsInv'
<1> DEFINE r == [of |-> f, context |-> FALSE, initialized |-> FALSE, seen |-> 0, rows |-> 0, failed |-> FALSE]
<1>1. r \in GroupRecord /\ ~r.initialized /\ r.rows = 0
  BY DEF GroupRecord
<1>2. group[g] = None /\ group' = [group EXCEPT ![g] = r] /\ UNCHANGED <<function, counts, holders, stray, instances, result>>
  BY DEF Functions!Begin
<1> HIDE DEF r
<1>3. instances' = instances + (IF r # None /\ r.initialized THEN 1 ELSE 0)
                             - (IF group[g] # None /\ group[g].initialized THEN 1 ELSE 0)
  BY <1>1, <1>2 DEF FnsInv, FnsTypeOK
<1>4. result'.failed \/ result'.given = result'.rows
  BY <1>2 DEF FnsInv, FnsTypeOK
<1> QED
  BY <1>1, <1>2, <1>3, <1>4, GroupChanges

LEMMA GroupSteps ==
  ASSUME FnsInv, NEW g \in Groups, Functions!StepProxy(g)
  PROVE  FnsInv'
<1>1. /\ group[g] \in GroupRecord /\ group[g] # None /\ UNCHANGED <<function, counts, holders, stray, result>>
      /\ group[g].rows = IF group[g].initialized THEN group[g].seen ELSE 0
      /\ result.failed \/ result.given = result.rows
  BY DEF Functions!StepProxy, FnsInv, FnsTypeOK, RowsSeen
<1>2. CASE /\ group' = [group EXCEPT ![g] =
                [@ EXCEPT !.context = TRUE, !.initialized = TRUE,
                          !.seen = IF group[g].initialized THEN group[g].seen + 1 ELSE 1,
                          !.rows = group[g].rows + 1]]
           /\ instances' = instances + IF group[g].initialized THEN 0 ELSE 1
  <2> DEFINE n == IF group[g].initialized THEN group[g].seen + 1 ELSE 1
             r == [group[g] EXCEPT !.context = TRUE, !.initialized = TRUE, !.seen = n, !.rows = group[g].rows + 1]
  <2>1. group[g].seen \in Nat /\ group[g].rows \in Nat
    BY <1>1 DEF GroupRecord
  <2>2. group' = [group EXCEPT ![g] = r]
    BY ONLY <1>2
  <2>n. n \in Nat
    BY <2>1
  <2>a. r \in GroupRecord /\ r.initialized /\ r.seen = n /\ r.rows = group[g].rows + 1
    <3> DEFINE m == group[g].rows + 1
               o == group[g]
    <3>1. r = [o EXCEPT !.context = TRUE, !.initialized = TRUE, !.seen = n, !.rows = m]
      OBVIOUS
    <3>2. m \in Nat /\ o \in GroupRecord
      BY <1>1, <2>1
    <3> HIDE DEF n, m, o, r
    <3>3. r \in GroupRecord
      BY ONLY <2>n, <3>1, <3>2 DEF GroupRecord
    <3>4. r.initialized
      BY ONLY <2>n, <3>1, <3>2 DEF GroupRecord
    <3>5. r.seen = n
      BY ONLY <2>n, <3>1, <3>2 DEF GroupRecord
    <3>6. r.rows = m
      BY ONLY <2>n, <3>1, <3>2 DEF GroupRecord
    <3> QED
      BY <3>3, <3>4, <3>5, <3>6 DEF m
  <2> HIDE DEF r
  <2>3. r \in GroupRecord /\ r.initialized
    BY <2>a
  <2>4. r.rows = IF r.initialized THEN r.seen ELSE 0
    BY <1>1, <2>1, <2>a
  <2>5. r # None /\ instances \in Int
    BY <2>3 DEF FnsInv, FnsAssumption, FnsTypeOK
  <2>6. instances' = instances + (IF r # None /\ r.initialized THEN 1 ELSE 0)
                               - (IF group[g] # None /\ group[g].initialized THEN 1 ELSE 0)
    BY <1>1, <1>2, <2>3, <2>5
  <2> QED
    BY <1>1, <2>2, <2>3, <2>4, <2>6, GroupChanges
<1>3. CASE group' = [group EXCEPT ![g].failed = TRUE] /\ UNCHANGED instances
  <2> DEFINE r == [group[g] EXCEPT !.failed = TRUE]
  <2>1. r \in GroupRecord /\ r.initialized = group[g].initialized /\ r.rows = group[g].rows /\ r.seen = group[g].seen
    BY <1>1 DEF GroupRecord
  <2>2. group' = [group EXCEPT ![g] = r]
    BY <1>3 DEF FnsInv, FnsTypeOK
  <2> HIDE DEF r
  <2>3. r # None /\ instances \in Int
    BY <2>1 DEF FnsInv, FnsAssumption, FnsTypeOK
  <2>4. instances' = instances + (IF r # None /\ r.initialized THEN 1 ELSE 0)
                               - (IF group[g] # None /\ group[g].initialized THEN 1 ELSE 0)
    BY <1>1, <1>3, <2>1, <2>3
  <2> QED
    BY <1>1, <2>1, <2>2, <2>4, GroupChanges
<1> QED
  BY <1>2, <1>3 DEF Functions!StepProxy

LEMMA GroupEnds ==
  ASSUME FnsInv, NEW g \in Groups, Functions!FinalProxy(g)
  PROVE  FnsInv'
<1>1. /\ group[g] # None /\ group' = [group EXCEPT ![g] = None] /\ UNCHANGED <<function, counts, holders, stray>>
      /\ instances' = instances - IF group[g].initialized THEN 1 ELSE 0
      /\ result' = [given |-> IF group[g].initialized THEN group[g].seen ELSE 0,
                    rows |-> group[g].rows, failed |-> group[g].failed]
  BY DEF Functions!FinalProxy
<1>2. result'.given = result'.rows /\ instances \in Int
  BY <1>1 DEF FnsInv, FnsTypeOK, RowsSeen
<1>3. instances' = instances + (IF None # None /\ None.initialized THEN 1 ELSE 0)
                             - (IF group[g] # None /\ group[g].initialized THEN 1 ELSE 0)
  BY <1>1, <1>2
<1> QED
  BY <1>1, <1>2, <1>3, GroupChanges

LEMMA FnsInvariance ==
  ASSUME FnsInv, [Functions!FunctionsNext]_Functions!functionVars
  PROVE  FnsInv'
<1>1. CASE UNCHANGED Functions!functionVars
  BY <1>1 DEF Functions!functionVars, FnsInv, FnsAssumption, FnsTypeOK, StatesCounted, Holds, InHolders, Aggregating, RowsSeen
<1>2. ASSUME NEW f \in FnNames,
             \/ Functions!Define(f) \/ Functions!DefineWithState(f) \/ Functions!DefineWithConnState(f) \/ Functions!DefineWithHybridState(f)
             \/ Functions!DefineAggregate(f) \/ Functions!DefineAggregateWithState(f) \/ Functions!DefineAggregateWithHybridState(f)
      PROVE  FnsInv'
  <2>1. \E sort \in {"scalar", "aggregate"}, state \in FnStates : Functions!Defines(f, sort, state)
    BY <1>2 DEF Functions!Define, Functions!DefineWithState, Functions!DefineWithConnState, Functions!DefineWithHybridState, Functions!DefineAggregate,
       Functions!DefineAggregateWithState, Functions!DefineAggregateWithHybridState, FnStates, Functions!Parts
  <2> QED
    BY <2>1, FunctionDefined
<1> QED
  BY <1>1, <1>2, FunctionDropped, GroupBegins, GroupSteps, GroupEnds DEF Functions!FunctionsNext

LEMMA FnsFollow ==
  ASSUME FnsInv
  PROVE  Functions!FunctionsSafe
<1>1. /\ \A p \in Functions!Parts : Functions!Holding(p) = Holds(p)
      /\ {f \in FnNames : function[f] # None /\ function[f].data.holder} = InHolders
      /\ {g \in Groups : group[g] # None /\ group[g].initialized} = Aggregating
  BY DEF Functions!Holding, Holds, InHolders, Aggregating
<1>2. ASSUME NEW f \in FnNames, NEW p \in Functions!Parts, function[f] # None, p \in Functions!Given(f) PROVE counts[p] > 0
  <2>1. CASE function[f].data.holder
    <3>1. f \in Holds(p)
      BY <1>2, <2>1 DEF Functions!Given, Holds
    <3>2. Cardinality(Holds(p)) \in Nat /\ Cardinality(Holds(p)) # 0
      BY <3>1, FnsFinite, FS_CardinalityType, FS_EmptySet
    <3> QED
      BY <3>2 DEF FnsInv, StatesCounted
  <2>2. CASE ~function[f].data.holder
    BY <1>2, <2>2 DEF Functions!Given
  <2> QED
    BY <2>1, <2>2
<1>3. Functions!ReferencesExact
  BY <1>1, <1>2, FnsCardinality DEF FnsInv, StatesCounted, Functions!ReferencesExact
<1>4. Functions!AggregatesExact
  BY <1>1, FnsCardinality DEF FnsInv, FnsTypeOK, RowsSeen, Functions!AggregatesExact
<1> QED
  BY <1>3, <1>4 DEF Functions!FunctionsSafe

\* However functions are defined, replaced, dropped or refused, the references to their states are
\* exact, but for those that a holder in C lacked memory for; and an aggregate lives for one group.
THEOREM FunctionsAlwaysSafe == ASSUME FnsAssumption PROVE Functions!FunctionsSpec => []Functions!FunctionsSafe
<1>1. FnsInv /\ [Functions!FunctionsNext]_Functions!functionVars => FnsInv'
  BY FnsInvariance
<1>2. Functions!FunctionsInit => FnsInv
  BY FnsInitially
<1> QED
  BY <1>1, <1>2, FnsFollow, PTL DEF Functions!FunctionsSpec

-----------------------------------------------------------------------------
(* TableFunctions: virtual tables and table-valued functions *)

TablesTypeOK ==
  /\ module \in [Modules -> ModuleRecord \cup {None}] /\ named \in Modules \cup {None}
  /\ table \in [VTabs -> TableRecord \cup {None}] /\ cursor \in [Cursors -> CursorRecord \cup {None}]
  /\ refs \in Int /\ heap \in [Tables!Sorts -> Int] /\ lost \subseteq {"instance", "function object"}

\* The registrations that hold a reference to their state.
HoldingModules == {m \in Modules : module[m] # None /\ module[m].state = "held"}

\* Who has the name is registered, and who has a table is with the state that the table has.
StatesStay ==
  /\ refs = Cardinality(HoldingModules)
  /\ named # None => module[named] # None
  /\ \A t \in VTabs : table[t] # None =>
       module[table[t].of] # None /\ module[table[t].of].state = table[t].raw

\* The kind of the module of the table of a cursor.
KindUnder(c) == module[table[cursor[c].of].of].kind

\* A cursor has a table, and a source of rows as its module has them.
CursorFits(c) ==
  /\ table[cursor[c].of] # None
  /\ cursor[c].phase = "row" => cursor[c].source # None
  /\ IF KindUnder(c) = "coro" THEN cursor[c].source # None => cursor[c].source.sort # "iterator"
     ELSE cursor[c].source # None /\ cursor[c].source.sort = "iterator" /\ cursor[c].source.valid

CursorsFit == \A c \in Cursors : cursor[c] # None => CursorFits(c)

\* The blocks of a table and of a cursor.
BlocksOfTable(t) ==
  IF table[t] = None THEN {}
  ELSE IF module[table[t].of].kind = "vtab" THEN {"instance", "table"} ELSE {"table"}

BlocksOfSource(x) ==
  IF x = None THEN {} ELSE {IF x.sort = "iterator" THEN "iterator" ELSE "generator"} \cup Tables!Holds(x)

BlocksOfCursor(r) == IF r = None THEN {} ELSE {"cursor"} \cup BlocksOfSource(r.source)

TablesWith(s) == {t \in VTabs : s \in BlocksOfTable(t)}
CursorsWith(s) == {c \in Cursors : s \in BlocksOfCursor(cursor[c])}

SortsOfTables == {"table", "instance"}

HeapOwned ==
  \A s \in Tables!Sorts :
    heap[s] = IF s \in SortsOfTables THEN Cardinality(TablesWith(s)) ELSE Cardinality(CursorsWith(s))

TablesInv == TablesAssumption /\ TablesTypeOK /\ StatesStay /\ CursorsFit /\ HeapOwned

\* A scan stands where its source stands, and ends behind the last row.
RowKept(r, kind) ==
  /\ r.phase = "row" => /\ r.source # None /\ r.source.valid /\ r.source.at = r.row /\ r.source.rows = r.args
                        /\ r.row >= 1 /\ r.row <= r.args /\ (kind = "coro" => r.rowid = r.row)
  /\ r.phase = "end" => r.source # None /\ (r.row = r.args + 1 \/ ~r.source.valid)

RowsKept == \A c \in Cursors : cursor[c] # None => RowKept(cursor[c], KindUnder(c))
\* The instance counts as this module does.
LEMMA TablesCardinality ==
  ASSUME NEW S
  PROVE  Tables!Cardinality(S) = Cardinality(S)
BY DEF Tables!Cardinality, Cardinality

LEMMA TablesFinite ==
  ASSUME TablesAssumption
  PROVE  /\ IsFiniteSet(HoldingModules)
         /\ \A s \in Tables!Sorts : IsFiniteSet(TablesWith(s)) /\ IsFiniteSet(CursorsWith(s))
<1>1. /\ HoldingModules \subseteq Modules
      /\ \A s \in Tables!Sorts : TablesWith(s) \subseteq VTabs /\ CursorsWith(s) \subseteq Cursors
  BY DEF HoldingModules, TablesWith, CursorsWith
<1> QED
  BY <1>1, FS_Subset DEF TablesAssumption

LEMMA TablesInitially ==
  ASSUME TablesAssumption, Tables!TablesInit
  PROVE  TablesInv /\ RowsKept
<1>1. HoldingModules = {} /\ \A s \in Tables!Sorts : TablesWith(s) = {} /\ CursorsWith(s) = {}
  BY DEF Tables!TablesInit, HoldingModules, TablesWith, CursorsWith, BlocksOfTable, BlocksOfCursor
<1>2. Cardinality({}) = 0
  BY FS_EmptySet
<1>3. StatesStay /\ HeapOwned
  BY <1>1, <1>2 DEF Tables!TablesInit, StatesStay, HeapOwned
<1>4. TablesTypeOK /\ CursorsFit /\ RowsKept
  BY DEF Tables!TablesInit, TablesTypeOK, CursorsFit, RowsKept
<1> QED
  BY <1>3, <1>4 DEF TablesInv

\* The heap after Blocks.
LEMMA BlocksCounted ==
  ASSUME TablesInv, NEW more, NEW less, Tables!Blocks(more, less)
  PROVE  /\ heap' \in [Tables!Sorts -> Int]
         /\ \A s \in Tables!Sorts :
              heap'[s] = heap[s] + (IF s \in more THEN 1 ELSE 0) - (IF s \in less THEN 1 ELSE 0)
<1>1. \A s \in Tables!Sorts : heap[s] \in Int
  BY DEF TablesInv, TablesTypeOK
<1> QED
  BY <1>1 DEF Tables!Blocks

\* Registrations change, of modules that no table has.
LEMMA TablesUnmoved ==
  ASSUME TablesInv, UNCHANGED <<table, cursor, heap>>,
         \A t \in VTabs : table[t] # None => module'[table[t].of] = module[table[t].of]
  PROVE  /\ CursorsFit' /\ HeapOwned' /\ (RowsKept => RowsKept')
         /\ \A t \in VTabs : table'[t] # None =>
              module'[table'[t].of] # None /\ module'[table'[t].of].state = table'[t].raw
<1>1. \A t \in VTabs : BlocksOfTable(t)' = BlocksOfTable(t)
  BY DEF BlocksOfTable
<1>2. \A s \in Tables!Sorts : TablesWith(s)' = TablesWith(s) /\ CursorsWith(s)' = CursorsWith(s)
  BY <1>1 DEF TablesWith, CursorsWith
<1>3. HeapOwned'
  BY <1>2 DEF TablesInv, HeapOwned
<1>4. \A c \in Cursors : cursor[c] # None => cursor[c].of \in VTabs /\ table[cursor[c].of] # None
  BY DEF TablesInv, TablesTypeOK, CursorRecord, CursorsFit, CursorFits
<1>5. \A c \in Cursors : cursor[c] # None => KindUnder(c)' = KindUnder(c)
  BY <1>4 DEF KindUnder
<1>6. CursorsFit'
  BY <1>5 DEF TablesInv, CursorsFit, CursorFits
<1>7. RowsKept => RowsKept'
  BY <1>5 DEF RowsKept
<1> QED
  BY <1>3, <1>6, <1>7 DEF TablesInv, StatesStay

\* Nothing happens to virtual tables.
LEMMA TablesStutter ==
  ASSUME TablesInv, UNCHANGED Tables!vars
  PROVE  TablesInv' /\ (RowsKept => RowsKept')
<1>1. UNCHANGED <<module, named, refs, table, cursor, heap, lost>>
  BY DEF Tables!vars
<1>2. TablesTypeOK' /\ StatesStay'
  BY <1>1 DEF TablesInv, TablesTypeOK, StatesStay, HoldingModules
<1> QED
  BY <1>1, <1>2, TablesUnmoved DEF TablesInv, TablesAssumption

\* A module is registered.
LEMMA RegisterStep ==
  ASSUME TablesInv, NEW m \in Modules, NEW kind \in {"vtab", "tvf", "coro"}, NEW state \in {"none", "null", "held"},
         Tables!Register(m, kind, state)
  PROVE  TablesInv' /\ (RowsKept => RowsKept')
<1>1. CASE UNCHANGED <<module, named, refs>>
  <2>1. UNCHANGED Tables!vars
    BY <1>1 DEF Tables!Register, Tables!vars
  <2> QED
    BY <2>1, TablesStutter
<1>2. CASE ~UNCHANGED <<module, named, refs>>
  <2> DEFINE released == Tables!Unused(named, m, table)
             new == Tables!Registers(m, kind, state)
             without == IF released THEN [module EXCEPT ![named] = None] ELSE module
  <2>1. /\ module[m] = None /\ module' = [without EXCEPT ![m] = new] /\ named' = m
        /\ refs' = refs + (IF state = "held" THEN 1 ELSE 0)
                        - (IF released /\ module[named].state = "held" THEN 1 ELSE 0)
        /\ UNCHANGED <<table, cursor, heap, lost>>
    BY <1>2 DEF Tables!Register, Tables!registration
  <2>2. new \in ModuleRecord /\ new.state = state /\ new # None
    BY DEF Tables!Registers, ModuleRecord, TablesInv, TablesAssumption
  <2>3. released => named \in Modules /\ named # None /\ named # m /\ module[named] # None
                    /\ \A t \in VTabs : table[t] # None => table[t].of # named
    BY <2>1 DEF Tables!Unused, TablesInv, TablesTypeOK, StatesStay
  <2>4. module \in [Modules -> ModuleRecord \cup {None}] /\ named \in Modules \cup {None} /\ refs \in Int
    BY DEF TablesInv, TablesTypeOK
  <2> HIDE DEF released, new
  <2>5. without \in [Modules -> ModuleRecord \cup {None}]
        /\ \A k \in Modules : without[k] = IF released /\ k = named THEN None ELSE module[k]
    BY <2>3, <2>4
  <2> HIDE DEF without
  <2>6. /\ module' \in [Modules -> ModuleRecord \cup {None}]
        /\ \A k \in Modules : module'[k] = IF k = m THEN new ELSE without[k]
    BY <2>1, <2>2, <2>5
  <2>7. \A t \in VTabs : table[t] # None => table[t].of \in Modules /\ table[t].of # m
    BY <2>1 DEF TablesInv, TablesTypeOK, TableRecord, StatesStay
  <2>8. \A t \in VTabs : table[t] # None => module'[table[t].of] = module[table[t].of]
    BY <2>3, <2>5, <2>6, <2>7
  <2>9. refs' = Cardinality(HoldingModules')
    <3> DEFINE S == {k \in Modules : without[k] # None /\ without[k].state = "held"}
    <3>1. S \ {named} = HoldingModules \ {named} /\ IsFiniteSet(HoldingModules)
      BY <2>5, TablesFinite DEF HoldingModules, TablesInv
    <3>3. IF released THEN named \notin S /\ (named \in HoldingModules <=> module[named].state = "held")
          ELSE named \in S <=> named \in HoldingModules
      BY <2>3, <2>5 DEF HoldingModules
    <3>4. HoldingModules' \ {m} = S \ {m} /\ m \notin S /\ (m \in HoldingModules' <=> state = "held")
      BY <2>1, <2>2, <2>3, <2>5, <2>6 DEF HoldingModules
    <3> HIDE DEF S
    <3>2. /\ IsFiniteSet(S) /\ Cardinality(S) \in Nat /\ Cardinality(HoldingModules) \in Nat
          /\ Cardinality(S) = Cardinality(HoldingModules) + (IF named \in S THEN 1 ELSE 0)
                                 - (IF named \in HoldingModules THEN 1 ELSE 0)
      BY <3>1, OneApart
    <3>5. Cardinality(HoldingModules') = Cardinality(S) + (IF state = "held" THEN 1 ELSE 0)
      BY <3>2, <3>4, OneApart
    <3>6. refs = Cardinality(HoldingModules)
      BY DEF TablesInv, StatesStay
    <3> QED
      BY <2>1, <3>2, <3>3, <3>5, <3>6
  <2>10. refs' \in Int /\ named' \in Modules /\ module'[named'] # None
    BY <2>1, <2>2, <2>4, <2>6
  <2>11. TablesTypeOK'
    BY <2>1, <2>6, <2>10 DEF TablesInv, TablesTypeOK
  <2> QED
    BY <2>1, <2>8, <2>9, <2>10, <2>11, TablesUnmoved DEF TablesInv, TablesAssumption, StatesStay
<1> QED
  BY <1>1, <1>2

\* A registration goes, if nobody needs it any more, with its reference.
LEMMA DropsCount ==
  ASSUME TablesInv, NEW m \in Modules, module[m] # None, NEW name, NEW tables, Tables!Drops(m, name, tables)
  PROVE  /\ module' \in [Modules -> ModuleRecord \cup {None}] /\ refs' \in Int
         /\ refs' = Cardinality(HoldingModules')
         /\ \A k \in Modules : module'[k] = IF k = m /\ Tables!Unused(m, name, tables) THEN None ELSE module[k]
<1> DEFINE u == Tables!Unused(m, name, tables)
<1>1. /\ module' = IF u THEN [module EXCEPT ![m] = None] ELSE module
      /\ refs' = IF u /\ module[m].state = "held" THEN refs - 1 ELSE refs
  BY DEF Tables!Drops
<1> HIDE DEF u
<1>2. module \in [Modules -> ModuleRecord \cup {None}] /\ refs \in Int /\ refs = Cardinality(HoldingModules)
  BY DEF TablesInv, TablesTypeOK, StatesStay
<1>3. /\ module' \in [Modules -> ModuleRecord \cup {None}]
      /\ \A k \in Modules : module'[k] = IF k = m /\ u THEN None ELSE module[k]
  BY <1>1, <1>2
<1>4. /\ HoldingModules' \ {m} = HoldingModules \ {m}
      /\ m \in HoldingModules' <=> ~u /\ m \in HoldingModules
      /\ m \in HoldingModules <=> module[m].state = "held"
  BY <1>3 DEF HoldingModules
<1>5. /\ Cardinality(HoldingModules) \in Nat
      /\ Cardinality(HoldingModules') = Cardinality(HoldingModules) + (IF m \in HoldingModules' THEN 1 ELSE 0)
                                          - (IF m \in HoldingModules THEN 1 ELSE 0)
  BY <1>4, TablesFinite, OneApart DEF TablesInv
<1> QED
  BY <1>1, <1>2, <1>3, <1>4, <1>5 DEF u

\* The connection is closed.
LEMMA CloseStep ==
  ASSUME TablesInv, Tables!Close
  PROVE  TablesInv' /\ (RowsKept => RowsKept')
<1>1. /\ named \in Modules /\ module[named] # None /\ Tables!Unused(named, None, table)
      /\ Tables!Drops(named, None, table) /\ named' = None /\ UNCHANGED <<table, cursor, heap, lost>>
  BY DEF Tables!Close, TablesInv, TablesTypeOK, StatesStay
<1>2. /\ module' \in [Modules -> ModuleRecord \cup {None}] /\ refs' \in Int
      /\ refs' = Cardinality(HoldingModules')
      /\ \A k \in Modules : module'[k] = IF k = named THEN None ELSE module[k]
  BY <1>1, DropsCount
<1>3. \A t \in VTabs : table[t] # None => table[t].of \in Modules /\ table[t].of # named
  BY <1>1 DEF Tables!Unused, TablesInv, TablesTypeOK, TableRecord
<1>4. \A t \in VTabs : table[t] # None => module'[table[t].of] = module[table[t].of]
  BY <1>2, <1>3
<1>5. TablesTypeOK'
  BY <1>1, <1>2 DEF TablesInv, TablesTypeOK
<1> QED
  BY <1>1, <1>2, <1>4, <1>5, TablesUnmoved DEF TablesInv, TablesAssumption, StatesStay

\* A table without cursors comes or goes, with its blocks; the others' modules stay.
LEMMA TableChanges ==
  ASSUME TablesInv, NEW t \in VTabs, NEW new, table' = [table EXCEPT ![t] = new], UNCHANGED cursor,
         \A c \in Cursors : cursor[c] # None => cursor[c].of # t,
         \A u \in VTabs : u # t /\ table[u] # None => module'[table[u].of] = module[table[u].of],
         \A s \in Tables!Sorts :
           heap'[s] = heap[s] + (IF s \in BlocksOfTable(t)' THEN 1 ELSE 0) - (IF s \in BlocksOfTable(t) THEN 1 ELSE 0)
  PROVE  CursorsFit' /\ HeapOwned' /\ (RowsKept => RowsKept')
<1>1. \A u \in VTabs : u # t => table'[u] = table[u]
  BY DEF TablesInv, TablesTypeOK
<1>2. \A c \in Cursors : cursor[c] # None =>
         /\ cursor[c].of \in VTabs /\ cursor[c].of # t /\ table[cursor[c].of] # None
         /\ table'[cursor[c].of] = table[cursor[c].of]
  <2>1. \A c \in Cursors : cursor[c] # None => cursor[c] \in CursorRecord /\ CursorFits(c)
    BY DEF TablesInv, TablesTypeOK, CursorsFit
  <2>2. \A c \in Cursors : cursor[c] # None => cursor[c].of \in VTabs /\ table[cursor[c].of] # None
    BY <2>1 DEF CursorRecord, CursorFits
  <2> QED
    BY <1>1, <2>2
<1>3. \A c \in Cursors : cursor[c] # None => KindUnder(c)' = KindUnder(c)
  BY <1>2 DEF KindUnder
<1>4. CursorsFit'
  BY <1>2, <1>3 DEF TablesInv, CursorsFit, CursorFits
<1>5. RowsKept => RowsKept'
  BY <1>3 DEF RowsKept
<1>6. \A u \in VTabs : u # t => BlocksOfTable(u)' = BlocksOfTable(u)
  BY <1>1 DEF BlocksOfTable
<1>7. ASSUME NEW s \in Tables!Sorts
      PROVE  heap'[s] = IF s \in SortsOfTables THEN Cardinality(TablesWith(s)') ELSE Cardinality(CursorsWith(s)')
  <2>1. CursorsWith(s)' = CursorsWith(s)
    BY DEF CursorsWith
  <2>2. TablesWith(s)' \ {t} = TablesWith(s) \ {t} /\ IsFiniteSet(TablesWith(s))
        /\ (t \in TablesWith(s) <=> s \in BlocksOfTable(t)) /\ (t \in TablesWith(s)' <=> s \in BlocksOfTable(t)')
    BY <1>6, TablesFinite DEF TablesWith, TablesInv
  <2>3. /\ Cardinality(TablesWith(s)) \in Nat
        /\ Cardinality(TablesWith(s)') = Cardinality(TablesWith(s)) + (IF s \in BlocksOfTable(t)' THEN 1 ELSE 0)
                                            - (IF s \in BlocksOfTable(t) THEN 1 ELSE 0)
    BY <2>2, OneApart
  <2>4. heap[s] = IF s \in SortsOfTables THEN Cardinality(TablesWith(s)) ELSE Cardinality(CursorsWith(s))
    BY DEF TablesInv, HeapOwned
  <2>5. heap[s] \in Int
    BY DEF TablesInv, TablesTypeOK
  <2>6. s \notin SortsOfTables => s \notin BlocksOfTable(t)' /\ s \notin BlocksOfTable(t)
    BY DEF BlocksOfTable, SortsOfTables
  <2> QED
    BY <2>1, <2>3, <2>4, <2>5, <2>6
<1>8. HeapOwned'
  BY <1>7 DEF HeapOwned
<1> QED
  BY <1>4, <1>5, <1>8

\* A table is connected, or lacks memory, or its application fails.
LEMMA ConnectStep ==
  ASSUME TablesInv, NEW t \in VTabs, Tables!ConnectVTab(t) \/ Tables!ConnectFunction(t)
  PROVE  TablesInv' /\ (RowsKept => RowsKept')
<1> DEFINE new == [of |-> named, raw |-> module[named].state]
           more == IF module[named].kind = "vtab" THEN {"instance", "table"} ELSE {"table"}
<1>1. /\ table[t] = None /\ named \in Modules /\ module[named] \in ModuleRecord
      /\ UNCHANGED <<module, named, refs, cursor>> /\ lost' \subseteq {"instance", "function object"}
  BY DEF Tables!ConnectVTab, Tables!ConnectFunction, Tables!registration, TablesInv, TablesTypeOK, StatesStay
<1>2. new \in TableRecord /\ new.of = named /\ new.raw = module[named].state /\ new # None
  <2>1. module[named].state \in {"none", "null", "held"}
    BY <1>1 DEF ModuleRecord
  <2>2. new \in TableRecord
    BY <1>1, <2>1 DEF TableRecord
  <2>3. None \notin TableRecord
    BY DEF TablesInv, TablesAssumption
  <2> QED
    BY <2>2, <2>3
<1>3. \/ Tables!Connected(t) /\ Tables!Blocks(more, {})
      \/ UNCHANGED table /\ \E both \in SUBSET Tables!Sorts : Tables!Blocks(both, both)
      \/ UNCHANGED <<table, heap>>
  BY DEF Tables!ConnectVTab, Tables!ConnectFunction, Tables!Sorts
<1>4. StatesStay' /\ TablesTypeOK' /\ CursorsFit' /\ HeapOwned' /\ (RowsKept => RowsKept')
  <2>1. CASE UNCHANGED <<table, heap>> \/ (UNCHANGED table /\ \E both \in SUBSET Tables!Sorts : Tables!Blocks(both, both))
    <3>1. \A s \in Tables!Sorts : heap[s] \in Int
      BY DEF TablesInv, TablesTypeOK
    <3>2. heap \in [Tables!Sorts -> Int]
      BY DEF TablesInv, TablesTypeOK
    <3>3. heap' = heap
      BY <2>1, <3>1, <3>2 DEF Tables!Blocks
    <3> QED
      BY <1>1, <2>1, <3>3, TablesUnmoved DEF TablesInv, TablesTypeOK, StatesStay, HoldingModules
  <2>2. CASE Tables!Connected(t) /\ Tables!Blocks(more, {})
    <3>1. table' = [table EXCEPT ![t] = new] /\ table \in [VTabs -> TableRecord \cup {None}]
      BY <2>2 DEF Tables!Connected, TablesInv, TablesTypeOK
    <3> HIDE DEF new
    <3>2. table'[t] = new /\ table' \in [VTabs -> TableRecord \cup {None}] /\ \A u \in VTabs : u # t => table'[u] = table[u]
      BY <1>2, <3>1
    <3>3. BlocksOfTable(t) = {} /\ BlocksOfTable(t)' = more
      BY <1>1, <1>2, <3>2 DEF BlocksOfTable
    <3>4. /\ heap' \in [Tables!Sorts -> Int]
          /\ \A s \in Tables!Sorts :
               heap'[s] = heap[s] + (IF s \in more THEN 1 ELSE 0) - (IF s \in {} THEN 1 ELSE 0)
      BY <2>2, BlocksCounted
    <3> HIDE DEF more
    <3>5. \A c \in Cursors : cursor[c] # None => cursor[c].of # t
      BY <1>1 DEF TablesInv, CursorsFit, CursorFits
    <3>6. CursorsFit' /\ HeapOwned' /\ (RowsKept => RowsKept')
      BY <1>1, <3>1, <3>3, <3>4, <3>5, TableChanges
    <3>7. TablesTypeOK'
      BY <1>1, <3>2, <3>4 DEF TablesInv, TablesTypeOK
    <3>8. StatesStay'
      BY <1>1, <1>2, <3>2 DEF TablesInv, TablesAssumption, StatesStay, HoldingModules
    <3> QED
      BY <3>6, <3>7, <3>8
  <2> QED
    BY <1>3, <2>1, <2>2
<1> QED
  BY <1>4 DEF TablesInv, TablesAssumption

\* A table is disconnected, and with it goes a registration that has neither name nor tables.
LEMMA DisconnectStep ==
  ASSUME TablesInv, NEW t \in VTabs, Tables!DisconnectVTab(t) \/ Tables!DisconnectFunction(t)
  PROVE  TablesInv' /\ (RowsKept => RowsKept')
<1> DEFINE m == table[t].of
           tables == [table EXCEPT ![t] = None]
           less == IF module[m].kind = "vtab" THEN {"instance", "table"} ELSE {"table"}
<1>1. /\ table[t] # None /\ \A c \in Cursors : cursor[c] # None => cursor[c].of # t
      /\ table' = tables /\ Tables!Blocks({}, less) /\ Tables!Drops(m, named, tables)
      /\ UNCHANGED <<named, cursor, lost>>
  BY DEF Tables!DisconnectVTab, Tables!DisconnectFunction, Tables!Disconnects, Tables!KindOf
<1>2. m \in Modules /\ module[m] # None
  BY <1>1 DEF TablesInv, TablesTypeOK, TableRecord, StatesStay
<1>3. BlocksOfTable(t) = less
  BY <1>1 DEF BlocksOfTable
<1>4. /\ table' \in [VTabs -> TableRecord \cup {None}] /\ table'[t] = None
      /\ \A u \in VTabs : u # t => table'[u] = table[u]
  BY <1>1 DEF TablesInv, TablesTypeOK
<1>5. BlocksOfTable(t)' = {}
  BY <1>4 DEF BlocksOfTable
<1> HIDE DEF m, less
<1>6. /\ heap' \in [Tables!Sorts -> Int]
      /\ \A s \in Tables!Sorts : heap'[s] = heap[s] + (IF s \in {} THEN 1 ELSE 0) - (IF s \in less THEN 1 ELSE 0)
  BY <1>1, BlocksCounted
<1>7. /\ module' \in [Modules -> ModuleRecord \cup {None}] /\ refs' \in Int
      /\ refs' = Cardinality(HoldingModules')
      /\ \A k \in Modules : module'[k] = IF k = m /\ Tables!Unused(m, named, tables) THEN None ELSE module[k]
  BY <1>1, <1>2, DropsCount
<1>8. Tables!Unused(m, named, tables) => m # named /\ \A u \in VTabs : table'[u] # None => table'[u].of # m
  BY <1>1 DEF Tables!Unused
<1>9. \A u \in VTabs : table'[u] # None => table'[u].of \in Modules /\ module'[table'[u].of] = module[table'[u].of]
  BY <1>4, <1>7, <1>8 DEF TableRecord
<1> HIDE DEF tables
<1>10. \A u \in VTabs : u # t /\ table[u] # None => module'[table[u].of] = module[table[u].of]
  BY <1>4, <1>9
<1>11. CursorsFit' /\ HeapOwned' /\ (RowsKept => RowsKept')
  <2>1. table' = [table EXCEPT ![t] = None]
    BY <1>1 DEF tables
  <2> QED
    BY <1>1, <1>3, <1>5, <1>6, <1>10, <2>1, TableChanges
<1>12. TablesTypeOK'
  BY <1>1, <1>4, <1>6, <1>7 DEF TablesInv, TablesTypeOK
<1>13. StatesStay'
  <2>1. named # None => named \in Modules /\ module[named] # None
    BY DEF TablesInv, TablesTypeOK, StatesStay
  <2>2. named' # None => module'[named'] # None
    BY <1>1, <1>7, <1>8, <2>1
  <2>3. \A u \in VTabs : table'[u] # None =>
          module'[table'[u].of] # None /\ module'[table'[u].of].state = table'[u].raw
    BY <1>4, <1>9 DEF TablesInv, StatesStay
  <2> QED
    BY <1>7, <2>2, <2>3 DEF StatesStay
<1> QED
  BY <1>11, <1>12, <1>13 DEF TablesInv, TablesAssumption

\* What a source of rows may be, and the blocks it has then.
LEMMA BlocksOwned ==
  ASSUME NEW r \in CursorRecord, None \notin SourceRecord, r # None
  PROVE  /\ BlocksOfCursor(r) \subseteq Tables!Sorts \ SortsOfTables
         /\ r.source # None => BlocksOfCursor(r) = {"cursor", IF r.source.sort = "iterator" THEN "iterator" ELSE "generator"}
                                                     \cup Tables!Holds(r.source)
<1>1. r.source # None => r.source \in SourceRecord /\ r.source.sort \in {"iterator", "fiber", "stackless"}
  BY DEF CursorRecord, SourceRecord
<1>2. r.source # None => Tables!Holds(r.source) \subseteq {"stack", "function object"}
  <2>1. CASE r.source # None /\ (r.source.sort = "iterator" \/ ~r.source.valid)
    BY <2>1 DEF Tables!Holds
  <2>2. CASE r.source # None /\ ~(r.source.sort = "iterator" \/ ~r.source.valid) /\ r.source.sort = "stackless"
    BY <2>2 DEF Tables!Holds
  <2>3. CASE r.source # None /\ ~(r.source.sort = "iterator" \/ ~r.source.valid) /\ r.source.sort # "stackless"
    BY <2>3 DEF Tables!Holds
  <2> QED
    BY <2>1, <2>2, <2>3
<1> DEFINE own == IF r.source.sort = "iterator" THEN "iterator" ELSE "generator"
<1>3. r # None => BlocksOfCursor(r) = {"cursor"} \cup (IF r.source = None THEN {} ELSE {own} \cup Tables!Holds(r.source))
  BY DEF BlocksOfCursor, BlocksOfSource
<1>4. own \in {"iterator", "generator"}
  OBVIOUS
<1> HIDE DEF own
<1>5. BlocksOfCursor(r) \subseteq {"cursor", "iterator", "generator", "stack", "function object"}
  <2>1. CASE r = None
    BY <2>1 DEF BlocksOfCursor
  <2>2. CASE r # None /\ r.source = None
    BY <1>3, <2>2
  <2>3. CASE r # None /\ r.source # None
    BY <1>2, <1>3, <1>4, <2>3
  <2> QED
    BY <2>1, <2>2, <2>3
<1>6. BlocksOfCursor(r) \subseteq Tables!Sorts \ SortsOfTables
  BY <1>5 DEF Tables!Sorts, SortsOfTables
<1>7. r.source # None => BlocksOfCursor(r) = {"cursor", own} \cup Tables!Holds(r.source)
  BY <1>3
<1> QED
  BY <1>6, <1>7 DEF own

\* Adding and taking nothing.
LEMMA NothingAdded == \A x \in Int : x + 0 - 0 = x /\ x + 1 - 1 = x
OBVIOUS

\* One cursor changes, with its blocks.
LEMMA CursorChanges ==
  ASSUME TablesInv, NEW c \in Cursors, NEW new \in CursorRecord \cup {None}, cursor' = [cursor EXCEPT ![c] = new],
         UNCHANGED <<module, named, refs, table>>, lost' \subseteq {"instance", "function object"},
         new # None => CursorFits(c)',
         heap' \in [Tables!Sorts -> Int],
         \A s \in Tables!Sorts :
           heap'[s] = heap[s] + (IF s \in BlocksOfCursor(new) THEN 1 ELSE 0)
                              - (IF s \in BlocksOfCursor(cursor[c]) THEN 1 ELSE 0)
  PROVE  TablesInv' /\ (RowsKept /\ (new # None => RowKept(new, KindUnder(c)')) => RowsKept')
<1>1. cursor'[c] = new /\ cursor' \in [Cursors -> CursorRecord \cup {None}]
      /\ \A d \in Cursors : d # c => cursor'[d] = cursor[d]
  BY DEF TablesInv, TablesTypeOK
<1>2. \A d \in Cursors : d # c => KindUnder(d)' = KindUnder(d)
  BY <1>1 DEF KindUnder
<1>3. CursorsFit'
  <2>1. ASSUME NEW d \in Cursors, d # c, cursor[d] # None
        PROVE  CursorFits(d)'
    BY <1>1, <1>2, <2>1 DEF TablesInv, CursorsFit, CursorFits
  <2> QED
    BY <1>1, <2>1 DEF CursorsFit
<1>4. ASSUME RowsKept, new # None => RowKept(new, KindUnder(c)')
      PROVE  RowsKept'
  BY <1>1, <1>2, <1>4 DEF RowsKept
<1>5. \A d \in Cursors : d # c => BlocksOfCursor(cursor'[d]) = BlocksOfCursor(cursor[d])
  BY <1>1
<1>6. ASSUME NEW s \in Tables!Sorts
      PROVE  heap'[s] = IF s \in SortsOfTables THEN Cardinality(TablesWith(s)') ELSE Cardinality(CursorsWith(s)')
  <2>1. TablesWith(s)' = TablesWith(s)
    <3>1. \A t \in VTabs : BlocksOfTable(t)' = BlocksOfTable(t)
      BY DEF BlocksOfTable
    <3> QED
      BY <3>1 DEF TablesWith
  <2>2. CursorsWith(s)' \ {c} = CursorsWith(s) \ {c} /\ IsFiniteSet(CursorsWith(s))
        /\ (c \in CursorsWith(s) <=> s \in BlocksOfCursor(cursor[c]))
        /\ (c \in CursorsWith(s)' <=> s \in BlocksOfCursor(new))
    BY <1>1, <1>5, TablesFinite DEF CursorsWith, TablesInv
  <2> DEFINE S == CursorsWith(s)  T == CursorsWith(s)'
  <2>10. S \ {c} = T \ {c} /\ IsFiniteSet(S)
    BY <2>2
  <2> HIDE DEF S, T
  <2>11. /\ Cardinality(S) \in Nat
         /\ Cardinality(T) = Cardinality(S) + (IF c \in T THEN 1 ELSE 0) - (IF c \in S THEN 1 ELSE 0)
    BY <2>10, OneApart
  <2>3. /\ Cardinality(CursorsWith(s)) \in Nat
        /\ Cardinality(CursorsWith(s)') = Cardinality(CursorsWith(s)) + (IF s \in BlocksOfCursor(new) THEN 1 ELSE 0)
                                             - (IF s \in BlocksOfCursor(cursor[c]) THEN 1 ELSE 0)
    BY <2>2, <2>11 DEF S, T
  <2>4. heap[s] = IF s \in SortsOfTables THEN Cardinality(TablesWith(s)) ELSE Cardinality(CursorsWith(s))
    BY DEF TablesInv, HeapOwned
  <2>5. heap[s] \in Int
    BY DEF TablesInv, TablesTypeOK
  <2>6. \A r \in CursorRecord \cup {None} : s \in SortsOfTables => s \notin BlocksOfCursor(r)
    <3>1. None \notin SourceRecord /\ None \notin CursorRecord
      BY DEF TablesInv, TablesAssumption
    <3> QED
      BY <3>1, BlocksOwned DEF BlocksOfCursor
  <2>7. cursor[c] \in CursorRecord \cup {None}
    BY DEF TablesInv, TablesTypeOK
  <2>8. CASE s \in SortsOfTables
    <3>2. s \notin BlocksOfCursor(cursor[c]) /\ s \notin BlocksOfCursor(new)
      BY <2>6, <2>7, <2>8
    <3>3. heap'[s] = heap[s] + 0 - 0
      BY <3>2
    <3>1. heap'[s] = heap[s]
      BY <2>5, <3>3, NothingAdded
    <3> QED
      BY <2>1, <2>4, <2>8, <3>1
  <2>9. CASE s \notin SortsOfTables
    BY <2>3, <2>4, <2>9
  <2> QED
    BY <2>8, <2>9
<1>7. HeapOwned'
  BY <1>6 DEF HeapOwned
<1>8. TablesTypeOK'
  BY <1>1 DEF TablesInv, TablesTypeOK
<1>9. StatesStay'
  BY DEF TablesInv, StatesStay, HoldingModules
<1> QED
  BY <1>3, <1>4, <1>7, <1>8, <1>9 DEF TablesInv, TablesAssumption

\* What is allocated and freed again leaves the heap as it was.
LEMMA HeapBack ==
  ASSUME TablesInv, NEW both, Tables!Blocks(both, both)
  PROVE  heap' = heap
<1>1. \A s \in Tables!Sorts : heap[s] \in Int
  BY DEF TablesInv, TablesTypeOK
<1>2. heap \in [Tables!Sorts -> Int]
  BY DEF TablesInv, TablesTypeOK
<1> QED
  BY <1>1, <1>2 DEF Tables!Blocks

\* A cursor is opened, or lacks memory.
LEMMA OpenStep ==
  ASSUME TablesInv, NEW t \in VTabs, NEW c \in Cursors,
         Tables!OpenVTab(t, c) \/ Tables!OpenIterator(t, c) \/ Tables!OpenGenerator(t, c)
  PROVE  TablesInv' /\ (RowsKept => RowsKept')
<1>1. /\ table[t] # None /\ cursor[c] = None /\ UNCHANGED <<module, named, refs, table, lost>>
  BY DEF Tables!OpenVTab, Tables!OpenIterator, Tables!OpenGenerator, Tables!registration
<1>2. \/ UNCHANGED cursor /\ (heap' = heap \/ \E both \in SUBSET Tables!Sorts : Tables!Blocks(both, both))
      \/ /\ Tables!KindOf(t) # "coro" /\ Tables!Blocks({"cursor", "iterator"}, {})
         /\ cursor' = [cursor EXCEPT ![c] = Tables!Opened(t, Tables!Source("iterator", 0, 0))]
      \/ /\ Tables!KindOf(t) = "coro" /\ Tables!Blocks({"cursor"}, {})
         /\ cursor' = [cursor EXCEPT ![c] = Tables!Opened(t, None)]
  <2>1. {"iterator", "cursor"} = {"cursor", "iterator"}
    OBVIOUS
  <2>2. {"iterator"} \in SUBSET Tables!Sorts /\ {"cursor"} \in SUBSET Tables!Sorts
    BY DEF Tables!Sorts
  <2> QED
    BY <2>1, <2>2 DEF Tables!OpenVTab, Tables!OpenIterator, Tables!OpenGenerator
<1>3. CASE UNCHANGED cursor /\ (heap' = heap \/ \E both \in SUBSET Tables!Sorts : Tables!Blocks(both, both))
  <2>1. heap' = heap
    BY <1>3, HeapBack
  <2> QED
    BY <1>1, <1>3, <2>1, TablesStutter DEF Tables!vars
<1>4. ASSUME NEW x \in SourceRecord \cup {None}, NEW more,
             x = None \/ x = Tables!Source("iterator", 0, 0),
             IF x = None THEN Tables!KindOf(t) = "coro" /\ more = {"cursor"}
             ELSE Tables!KindOf(t) # "coro" /\ more = {"cursor", "iterator"},
             Tables!Blocks(more, {}), cursor' = [cursor EXCEPT ![c] = Tables!Opened(t, x)]
      PROVE  TablesInv' /\ (RowsKept => RowsKept')
  <2> DEFINE new == Tables!Opened(t, x)
  <2>1. /\ new \in CursorRecord /\ new # None /\ new.of = t /\ new.source = x /\ new.phase = "opened"
    <3>1. new \in CursorRecord
      BY DEF Tables!Opened, CursorRecord
    <3>2. None \notin CursorRecord
      BY DEF TablesInv, TablesAssumption
    <3> QED
      BY <3>1, <3>2 DEF Tables!Opened
  <2>2. x # None => x.sort = "iterator" /\ x.valid
    BY <1>4 DEF Tables!Source
  <2> HIDE DEF new
  <2>3. cursor' = [cursor EXCEPT ![c] = new]
    BY <1>4 DEF new
  <2>4. cursor'[c] = new
    BY <2>3 DEF TablesInv, TablesTypeOK
  <2>5. KindUnder(c)' = Tables!KindOf(t)
    BY <1>1, <2>1, <2>4 DEF KindUnder, Tables!KindOf
  <2>6. CursorFits(c)'
    BY <1>1, <1>4, <2>1, <2>2, <2>4, <2>5 DEF CursorFits
  <2>7. BlocksOfCursor(new) = more /\ BlocksOfCursor(cursor[c]) = {}
    <3>1. x # None => Tables!Holds(x) = {}
      BY <2>2 DEF Tables!Holds
    <3> QED
      BY <1>1, <1>4, <2>1, <2>2, <3>1 DEF BlocksOfCursor, BlocksOfSource
  <2>8. /\ heap' \in [Tables!Sorts -> Int]
        /\ \A s \in Tables!Sorts :
             heap'[s] = heap[s] + (IF s \in more THEN 1 ELSE 0) - (IF s \in {} THEN 1 ELSE 0)
    BY <1>4, BlocksCounted
  <2>9. \A s \in Tables!Sorts :
          heap'[s] = heap[s] + (IF s \in BlocksOfCursor(new) THEN 1 ELSE 0)
                             - (IF s \in BlocksOfCursor(cursor[c]) THEN 1 ELSE 0)
    BY <2>7, <2>8
  <2>10. lost' \subseteq {"instance", "function object"} /\ heap' \in [Tables!Sorts -> Int]
    BY <1>1, <2>8 DEF TablesInv, TablesTypeOK
  <2>11. \A kind : RowKept(new, kind)
    BY <2>1 DEF RowKept
  <2> QED
    BY <1>1, <2>1, <2>3, <2>6, <2>9, <2>10, <2>11, CursorChanges
<1>5. Tables!Source("iterator", 0, 0) \in SourceRecord /\ Tables!Source("iterator", 0, 0) # None
  <2>1. Tables!Source("iterator", 0, 0) \in SourceRecord
    BY DEF Tables!Source, SourceRecord
  <2> QED
    BY <2>1 DEF TablesInv, TablesAssumption
<1> QED
  BY <1>2, <1>3, <1>4, <1>5

\* Asking a cursor for its end changes nothing but what it knows of it.
LEMMA AskedCursor ==
  ASSUME NEW r \in CursorRecord
  PROVE  /\ Tables!Asked(r) \in CursorRecord
         /\ Tables!Asked(r).of = r.of /\ Tables!Asked(r).source = r.source /\ Tables!Asked(r).rowid = r.rowid
         /\ Tables!Asked(r).row = r.row /\ Tables!Asked(r).args = r.args
         /\ Tables!Asked(r).phase = IF Tables!Eof(r) THEN "end" ELSE "row"
BY DEF Tables!Asked, CursorRecord

\* A cursor that stands where its source stands, and is asked for its end, is as a scan is.
LEMMA AskedKept ==
  ASSUME NEW r \in CursorRecord, NEW kind, r.source # None, r.source \in SourceRecord,
         r.source.valid => /\ r.source.at = r.row /\ r.source.rows = r.args
                           /\ r.row >= 1 /\ r.row <= r.args + 1 /\ (kind = "coro" => r.rowid = r.row)
  PROVE  RowKept(Tables!Asked(r), kind)
<1>1. r.row \in Nat /\ r.args \in Nat
  BY DEF CursorRecord
<1>2. Tables!Eof(r) <=> ~r.source.valid \/ r.source.at > r.source.rows
  BY DEF Tables!Eof, Tables!Done
<1>3. r.source.valid \in BOOLEAN
  BY DEF SourceRecord
<1>4. CASE ~r.source.valid
  BY <1>2, <1>4, AskedCursor DEF RowKept
<1>5. CASE r.source.valid
  <2>1. r.row > r.args <=> r.row = r.args + 1
    BY <1>1, <1>5
  <2>2. r.row > r.args \/ r.row <= r.args
    BY <1>1
  <2>3. Tables!Eof(r) <=> r.row > r.args
    BY <1>2, <1>5
  <2>4. CASE r.row > r.args
    BY <1>5, <2>1, <2>3, <2>4, AskedCursor DEF RowKept
  <2>5. CASE ~(r.row > r.args)
    BY <1>5, <2>2, <2>3, <2>5, AskedCursor DEF RowKept
  <2> QED
    BY <2>4, <2>5
<1> QED
  BY <1>3, <1>4, <1>5

\* A cursor that is open changes, over its table, with its blocks.
LEMMA CursorMoves ==
  ASSUME TablesInv, NEW c \in Cursors, cursor[c] # None, NEW new \in CursorRecord, new.of = cursor[c].of,
         cursor' = [cursor EXCEPT ![c] = new],
         UNCHANGED <<module, named, refs, table>>, lost' \subseteq {"instance", "function object"},
         new.source = None => new.phase # "row",
         IF KindUnder(c) = "coro" THEN new.source # None => new.source.sort # "iterator"
         ELSE new.source # None /\ new.source.sort = "iterator" /\ new.source.valid,
         heap' \in [Tables!Sorts -> Int],
         \A s \in Tables!Sorts :
           heap'[s] = heap[s] + (IF s \in BlocksOfCursor(new) THEN 1 ELSE 0)
                              - (IF s \in BlocksOfCursor(cursor[c]) THEN 1 ELSE 0)
  PROVE  TablesInv' /\ (RowsKept /\ RowKept(new, KindUnder(c)) => RowsKept')
<1>1. cursor'[c] = new
  BY DEF TablesInv, TablesTypeOK
<1>2. KindUnder(c)' = KindUnder(c)
  BY <1>1 DEF KindUnder
<1>3. CursorFits(c)'
  BY <1>1, <1>2 DEF TablesInv, CursorsFit, CursorFits
<1> QED
  BY <1>2, <1>3, CursorChanges

\* A cursor over an iterator changes, and its blocks do not.
LEMMA IteratorMoves ==
  ASSUME TablesInv, NEW c \in Cursors, cursor[c] # None, NEW new \in CursorRecord, new.of = cursor[c].of,
         cursor' = [cursor EXCEPT ![c] = new],
         UNCHANGED <<module, named, refs, table, heap, lost>>,
         KindUnder(c) # "coro", new.source # None, new.source.sort = "iterator", new.source.valid
  PROVE  TablesInv' /\ (RowsKept /\ RowKept(new, KindUnder(c)) => RowsKept')
<1>1. cursor[c].source # None /\ cursor[c].source.sort = "iterator" /\ cursor[c].source.valid
  BY DEF TablesInv, CursorsFit, CursorFits
<1>2. Tables!Holds(cursor[c].source) = {} /\ Tables!Holds(new.source) = {}
  BY <1>1 DEF Tables!Holds
<1>3. new # None
  BY DEF TablesInv, TablesAssumption
<1>4. BlocksOfCursor(new) = BlocksOfCursor(cursor[c])
  BY <1>1, <1>2, <1>3 DEF BlocksOfCursor, BlocksOfSource
<1>5. heap' \in [Tables!Sorts -> Int] /\ lost' \subseteq {"instance", "function object"}
      /\ \A s \in Tables!Sorts : heap[s] \in Int
  BY DEF TablesInv, TablesTypeOK
<1>6. ASSUME NEW s \in Tables!Sorts
      PROVE  heap'[s] = heap[s] + (IF s \in BlocksOfCursor(new) THEN 1 ELSE 0)
                                - (IF s \in BlocksOfCursor(cursor[c]) THEN 1 ELSE 0)
  <2>1. heap[s] \in Int /\ heap'[s] = heap[s]
    BY <1>5
  <2>2. CASE s \in BlocksOfCursor(new)
    BY <1>4, <2>1, <2>2
  <2>3. CASE s \notin BlocksOfCursor(new)
    BY <1>4, <2>1, <2>3
  <2> QED
    BY <2>2, <2>3
<1> QED
  BY <1>5, <1>6, CursorMoves

\* A scan of an iterator starts, or fails in the application.
LEMMA FilterIteratorStep ==
  ASSUME TablesInv, NEW c \in Cursors, NEW n \in Nat, Tables!FilterVTab(c, n) \/ Tables!FilterIterator(c, n)
  PROVE  TablesInv' /\ (RowsKept => RowsKept')
<1> DEFINE r == cursor[c]
           started == [r EXCEPT !.source = Tables!Source("iterator", 1, n), !.row = 1, !.args = n]
           failed == [r EXCEPT !.phase = "failed"]
<1>1. /\ r # None /\ KindUnder(c) # "coro" /\ UNCHANGED <<module, named, refs, table, heap, lost>>
      /\ \/ cursor' = [cursor EXCEPT ![c] = Tables!Asked(started)]
         \/ cursor' = [cursor EXCEPT ![c] = failed]
  BY DEF Tables!FilterVTab, Tables!FilterIterator, Tables!KindAt, Tables!KindOf, KindUnder, Tables!registration
<1>2. r \in CursorRecord /\ r.source # None /\ r.source.sort = "iterator" /\ r.source.valid
  BY <1>1 DEF TablesInv, TablesTypeOK, CursorsFit, CursorFits
<1>3. CASE cursor' = [cursor EXCEPT ![c] = failed]
  <2>1. failed \in CursorRecord /\ failed.of = r.of /\ failed.source = r.source
    BY <1>2 DEF CursorRecord
  <2>2. RowKept(failed, KindUnder(c))
    <3>1. failed.phase = "failed"
      BY <1>2 DEF CursorRecord
    <3> QED
      BY <3>1 DEF RowKept
  <2> HIDE DEF failed
  <2> QED
    BY <1>1, <1>2, <1>3, <2>1, <2>2, IteratorMoves
<1>4. CASE cursor' = [cursor EXCEPT ![c] = Tables!Asked(started)]
  <2> DEFINE x == Tables!Source("iterator", 1, n)
  <2>1. x \in SourceRecord /\ x.sort = "iterator" /\ x.valid /\ x.at = 1 /\ x.rows = n
    BY DEF Tables!Source, SourceRecord
  <2>2. x # None
    BY <2>1 DEF TablesInv, TablesAssumption
  <2> HIDE DEF x
  <2>3. started = [r EXCEPT !.source = x, !.row = 1, !.args = n]
    BY DEF x
  <2> HIDE DEF started
  <2>4. started \in CursorRecord /\ started.of = r.of /\ started.source = x /\ started.row = 1 /\ started.args = n
    BY <1>2, <2>1, <2>3 DEF CursorRecord
  <2> DEFINE new == Tables!Asked(started)
  <2>5. new \in CursorRecord /\ new.of = r.of /\ new.source = x
    BY <2>4, AskedCursor
  <2>6. KindUnder(c) # "coro"
    BY <1>1
  <2>7. RowKept(new, KindUnder(c))
    BY <2>1, <2>2, <2>4, <2>6, AskedKept
  <2> HIDE DEF new
  <2>8. cursor' = [cursor EXCEPT ![c] = new]
    BY <1>4 DEF new
  <2> QED
    BY <1>1, <2>1, <2>2, <2>5, <2>7, <2>8, IteratorMoves
<1> QED
  BY <1>1, <1>3, <1>4

\* A scan goes on.
LEMMA NextIteratorStep ==
  ASSUME TablesInv, NEW c \in Cursors, Tables!NextIterator(c)
  PROVE  TablesInv' /\ (RowsKept => RowsKept')
<1> DEFINE r == cursor[c]
           x == Tables!Advanced(r.source)
           moved == [r EXCEPT !.source = x, !.row = r.row + 1]
           new == Tables!Asked(moved)
<1>10. /\ r # None /\ r.phase = "row" /\ KindUnder(c) # "coro" /\ UNCHANGED <<module, named, refs, table, heap, lost>>
  BY DEF Tables!NextIterator, Tables!KindAt, Tables!KindOf, KindUnder, Tables!registration
<1>11. cursor' = [cursor EXCEPT ![c] = new]
  BY DEF Tables!NextIterator
<1>1. /\ r # None /\ r.phase = "row" /\ KindUnder(c) # "coro" /\ UNCHANGED <<module, named, refs, table, heap, lost>>
      /\ cursor' = [cursor EXCEPT ![c] = new]
  BY <1>10, <1>11
<1>2. r \in CursorRecord /\ r.source # None /\ r.source \in SourceRecord /\ r.source.sort = "iterator" /\ r.source.valid
  BY <1>1 DEF TablesInv, TablesTypeOK, CursorsFit, CursorFits, CursorRecord
<1>3. /\ x \in SourceRecord /\ x.sort = "iterator" /\ x.valid /\ x.rows = r.source.rows
      /\ r.source.at <= r.source.rows => x.at = r.source.at + 1
  BY <1>2 DEF Tables!Advanced, Tables!Done, SourceRecord
<1>4. x # None
  BY <1>3 DEF TablesInv, TablesAssumption
<1> HIDE DEF x
<1>5. /\ moved \in CursorRecord /\ moved.of = r.of /\ moved.source = x
      /\ moved.row = r.row + 1 /\ moved.args = r.args
  <2>1. r.row + 1 \in Nat
    BY <1>2 DEF CursorRecord
  <2> QED
    BY <1>2, <1>3, <2>1 DEF CursorRecord
<1> HIDE DEF moved
<1>6. new \in CursorRecord /\ new.of = r.of /\ new.source = x
  BY <1>5, AskedCursor
<1>7. ASSUME RowsKept
      PROVE  RowKept(new, KindUnder(c))
  <2>1. r.source.at = r.row /\ r.source.rows = r.args /\ r.row >= 1 /\ r.row <= r.args
    BY <1>1, <1>7 DEF RowsKept, RowKept
  <2>2. r.row \in Nat /\ r.args \in Nat
    BY <1>2 DEF CursorRecord
  <2>3. x.at = r.row + 1 /\ x.rows = r.args /\ r.row + 1 >= 1 /\ r.row + 1 <= r.args + 1
    BY <1>3, <2>1, <2>2
  <2>4. KindUnder(c) # "coro"
    BY <1>1
  <2> QED
    BY <1>3, <1>4, <1>5, <2>3, <2>4, AskedKept
<1> HIDE DEF new
<1> QED
  BY <1>1, <1>3, <1>4, <1>6, <1>7, IteratorMoves

\* A cursor is closed.
LEMMA CloseCursorStep ==
  ASSUME TablesInv, NEW c \in Cursors, Tables!CloseIterator(c) \/ Tables!CloseGenerator(c)
  PROVE  TablesInv' /\ (RowsKept => RowsKept')
<1>1. /\ cursor[c] # None /\ cursor' = [cursor EXCEPT ![c] = None] /\ UNCHANGED <<module, named, refs, table>>
      /\ \/ KindUnder(c) # "coro" /\ Tables!Blocks({}, {"iterator", "cursor"}) /\ UNCHANGED lost
         \/ /\ KindUnder(c) = "coro" /\ Tables!Blocks({}, {"cursor"} \cup Tables!OldBlocks(c))
            /\ lost' = lost \cup Tables!OldAbandons(c)
  BY DEF Tables!CloseIterator, Tables!CloseGenerator, Tables!KindAt, Tables!KindOf, KindUnder, Tables!registration
<1>2. cursor[c] \in CursorRecord /\ CursorFits(c)
  BY <1>1 DEF TablesInv, TablesTypeOK, CursorsFit
<1>3. Tables!Blocks({}, BlocksOfCursor(cursor[c]))
  <2>1. CASE KindUnder(c) # "coro"
    <3>1. cursor[c].source # None /\ cursor[c].source.sort = "iterator"
      BY <1>2, <2>1 DEF CursorFits
    <3>2. Tables!Holds(cursor[c].source) = {}
      BY <3>1 DEF Tables!Holds
    <3>3. BlocksOfCursor(cursor[c]) = {"iterator", "cursor"}
      BY <1>1, <3>1, <3>2 DEF BlocksOfCursor, BlocksOfSource
    <3> QED
      BY <1>1, <2>1, <3>3
  <2>2. CASE KindUnder(c) = "coro"
    <3>1. cursor[c].source # None => cursor[c].source.sort # "iterator"
      BY <1>2, <2>2 DEF CursorFits
    <3>2. BlocksOfCursor(cursor[c]) = {"cursor"} \cup Tables!OldBlocks(c)
      BY <1>1, <3>1 DEF BlocksOfCursor, BlocksOfSource, Tables!OldBlocks
    <3> QED
      BY <1>1, <2>2, <3>2
  <2> QED
    BY <2>1, <2>2
<1>4. Tables!OldAbandons(c) \subseteq {"function object"}
  BY DEF Tables!OldAbandons, Tables!Abandons
<1>5. lost' \subseteq {"instance", "function object"}
  BY <1>1, <1>4 DEF TablesInv, TablesTypeOK
<1>6. /\ heap' \in [Tables!Sorts -> Int]
      /\ \A s \in Tables!Sorts :
           heap'[s] = heap[s] + (IF s \in {} THEN 1 ELSE 0) - (IF s \in BlocksOfCursor(cursor[c]) THEN 1 ELSE 0)
  BY <1>3, BlocksCounted
<1>7. BlocksOfCursor(None) = {}
  BY DEF BlocksOfCursor
<1>8. \A s \in Tables!Sorts :
        heap'[s] = heap[s] + (IF s \in BlocksOfCursor(None) THEN 1 ELSE 0)
                           - (IF s \in BlocksOfCursor(cursor[c]) THEN 1 ELSE 0)
  BY <1>6, <1>7
<1> QED
  BY <1>1, <1>5, <1>6, <1>8, CursorChanges

\* A cursor over a generator changes, and with it the blocks of its source.
LEMMA GeneratorMoves ==
  ASSUME TablesInv, NEW c \in Cursors, cursor[c] # None, NEW new \in CursorRecord, new.of = cursor[c].of,
         cursor' = [cursor EXCEPT ![c] = new], UNCHANGED <<module, named, refs, table>>,
         lost' \subseteq {"instance", "function object"},
         KindUnder(c) = "coro", new.source # None => new.source.sort # "iterator",
         new.source = None => new.phase # "row",
         heap' \in [Tables!Sorts -> Int],
         \A s \in Tables!Sorts :
           heap'[s] = heap[s] + (IF s \in BlocksOfSource(new.source) THEN 1 ELSE 0)
                              - (IF s \in BlocksOfSource(cursor[c].source) THEN 1 ELSE 0)
  PROVE  TablesInv' /\ (RowsKept /\ RowKept(new, KindUnder(c)) => RowsKept')
<1>1. cursor[c] \in CursorRecord /\ None \notin CursorRecord /\ None \notin SourceRecord
      /\ \A s \in Tables!Sorts : heap[s] \in Int
  BY DEF TablesInv, TablesTypeOK, TablesAssumption
<1>2. \A r \in CursorRecord : BlocksOfCursor(r) = {"cursor"} \cup BlocksOfSource(r.source)
  BY <1>1 DEF BlocksOfCursor
<1>3. \A r \in CursorRecord : "cursor" \notin BlocksOfSource(r.source)
  <2>1. ASSUME NEW r \in CursorRecord, r.source # None
        PROVE  "cursor" \notin Tables!Holds(r.source)
    <3>1. r.source.sort \in {"iterator", "fiber", "stackless"}
      BY <2>1 DEF CursorRecord, SourceRecord
    <3>2. CASE r.source.sort = "iterator" \/ ~r.source.valid
      BY <3>2 DEF Tables!Holds
    <3>3. CASE ~(r.source.sort = "iterator" \/ ~r.source.valid)
      BY <3>1, <3>3 DEF Tables!Holds
    <3> QED
      BY <3>2, <3>3
  <2> QED
    BY <2>1 DEF BlocksOfSource
<1>4. ASSUME NEW s \in Tables!Sorts
      PROVE  heap'[s] = heap[s] + (IF s \in BlocksOfCursor(new) THEN 1 ELSE 0)
                                - (IF s \in BlocksOfCursor(cursor[c]) THEN 1 ELSE 0)
  <2>1. heap'[s] = heap[s] + (IF s \in BlocksOfSource(new.source) THEN 1 ELSE 0)
                           - (IF s \in BlocksOfSource(cursor[c].source) THEN 1 ELSE 0)
    OBVIOUS
  <2>2. CASE s = "cursor"
    <3>1. s \in BlocksOfCursor(new) /\ s \in BlocksOfCursor(cursor[c])
      BY <1>1, <1>2, <2>2
    <3>2. s \notin BlocksOfSource(new.source) /\ s \notin BlocksOfSource(cursor[c].source)
      BY <1>1, <1>3, <2>2
    <3>3. heap'[s] = heap[s] + 0 - 0 /\ heap[s] \in Int
      BY <1>1, <2>1, <3>2
    <3> QED
      BY <3>1, <3>3, NothingAdded
  <2>3. CASE s # "cursor"
    <3>1. /\ s \in BlocksOfCursor(new) <=> s \in BlocksOfSource(new.source)
          /\ s \in BlocksOfCursor(cursor[c]) <=> s \in BlocksOfSource(cursor[c].source)
      BY <1>1, <1>2, <2>3
    <3> QED
      BY <2>1, <3>1
  <2> QED
    BY <2>2, <2>3
<1> QED
  BY <1>4, CursorMoves

\* The blocks of a generator, as xFilter and xClose count them.
LEMMA OldBlocksOwned ==
  ASSUME TablesInv, NEW c \in Cursors, cursor[c] # None, KindUnder(c) = "coro"
  PROVE  /\ Tables!OldBlocks(c) = BlocksOfSource(cursor[c].source)
         /\ Tables!OldAbandons(c) \subseteq {"function object"}
<1>1. cursor[c].source # None => cursor[c].source.sort # "iterator"
  BY DEF TablesInv, CursorsFit, CursorFits
<1> QED
  BY <1>1 DEF Tables!OldBlocks, Tables!OldAbandons, Tables!Abandons, BlocksOfSource

\* A scan of a generator starts, or lacks memory.
LEMMA FilterGeneratorStep ==
  ASSUME TablesInv, NEW c \in Cursors, NEW n \in Nat, NEW sort \in Generators, Tables!FilterGenerator(c, n, sort)
  PROVE  TablesInv' /\ (FibersOnly /\ RowsKept => RowsKept')
<1> DEFINE r == cursor[c]
           old == BlocksOfSource(r.source)
           failed == [r EXCEPT !.source = None, !.phase = "failed"]
<1>1. /\ r # None /\ KindUnder(c) = "coro" /\ UNCHANGED <<module, named, refs, table>>
  BY DEF Tables!FilterGenerator, Tables!KindAt, Tables!KindOf, KindUnder, Tables!registration
<1>2. \/ \E x \in {Tables!Generated(sort, n), Tables!Invalid} :
           /\ cursor' = [cursor EXCEPT ![c] =
                Tables!Asked([r EXCEPT !.source = x, !.rowid = 1, !.row = 1, !.args = n])]
           /\ Tables!Blocks({"generator"} \cup Tables!Holds(x), Tables!OldBlocks(c))
           /\ lost' = lost \cup Tables!OldAbandons(c)
      \/ /\ cursor' = [cursor EXCEPT ![c] = failed]
         /\ Tables!Blocks({}, Tables!OldBlocks(c))
         /\ lost' = lost \cup Tables!OldAbandons(c) \cup Tables!Abandons(Tables!Generated(sort, n))
  BY DEF Tables!FilterGenerator
<1>3. Tables!OldBlocks(c) = old /\ Tables!OldAbandons(c) \subseteq {"function object"}
  BY <1>1, OldBlocksOwned
<1>4. lost' \subseteq {"instance", "function object"}
  <2>1. Tables!Abandons(Tables!Generated(sort, n)) \subseteq {"function object"}
    BY DEF Tables!Abandons
  <2>2. lost \subseteq {"instance", "function object"}
    BY DEF TablesInv, TablesTypeOK
  <2> QED
    BY <1>2, <1>3, <2>1, <2>2
<1>5. r \in CursorRecord /\ None \notin SourceRecord
  BY <1>1 DEF TablesInv, TablesTypeOK, TablesAssumption
<1> HIDE DEF old
<1>6. CASE /\ cursor' = [cursor EXCEPT ![c] = failed]
           /\ Tables!Blocks({}, Tables!OldBlocks(c))
  <2>1. failed \in CursorRecord /\ failed.of = r.of /\ failed.source = None /\ failed.phase = "failed"
    BY <1>5 DEF CursorRecord
  <2>2. RowKept(failed, KindUnder(c))
    BY <2>1 DEF RowKept
  <2>3. BlocksOfSource(failed.source) = {}
    BY <2>1 DEF BlocksOfSource
  <2>4. Tables!Blocks({}, old)
    BY <1>3, <1>6
  <2>5. /\ heap' \in [Tables!Sorts -> Int]
        /\ \A s \in Tables!Sorts : heap'[s] = heap[s] + (IF s \in {} THEN 1 ELSE 0) - (IF s \in old THEN 1 ELSE 0)
    BY <2>4, BlocksCounted
  <2>6. \A s \in Tables!Sorts :
          heap'[s] = heap[s] + (IF s \in BlocksOfSource(failed.source) THEN 1 ELSE 0)
                             - (IF s \in BlocksOfSource(r.source) THEN 1 ELSE 0)
    BY <2>3, <2>5 DEF old
  <2> HIDE DEF failed
  <2> QED
    BY <1>1, <1>4, <1>6, <2>1, <2>2, <2>5, <2>6, GeneratorMoves
<1>7. ASSUME NEW x \in {Tables!Generated(sort, n), Tables!Invalid},
             cursor' = [cursor EXCEPT ![c] =
               Tables!Asked([r EXCEPT !.source = x, !.rowid = 1, !.row = 1, !.args = n])],
             Tables!Blocks({"generator"} \cup Tables!Holds(x), Tables!OldBlocks(c))
      PROVE  TablesInv' /\ (FibersOnly /\ RowsKept => RowsKept')
  <2> DEFINE started == [r EXCEPT !.source = x, !.rowid = 1, !.row = 1, !.args = n]
             new == Tables!Asked(started)
  <2>1. sort \in {"fiber", "stackless"}
    BY DEF TablesInv, TablesAssumption
  <2>2. x \in SourceRecord /\ x.sort # "iterator"
        /\ (FibersOnly /\ x.valid => x.at = 1 /\ x.rows = n)
    <3>1. CASE x = Tables!Generated(sort, n)
      <4> DEFINE from == IF sort = "fiber" THEN 1 ELSE 0
      <4>1. x = [sort |-> sort, at |-> from, rows |-> n, valid |-> TRUE]
        BY <3>1 DEF Tables!Generated, Tables!Source
      <4>2. from \in Nat /\ (FibersOnly => from = 1)
        BY DEF FibersOnly
      <4> HIDE DEF from
      <4>3. x.sort = sort /\ x.at = from /\ x.rows = n
        BY <4>1
      <4>4. x \in SourceRecord
        BY <2>1, <4>1, <4>2 DEF SourceRecord
      <4>5. sort # "iterator"
        BY <2>1
      <4> QED
        BY <4>2, <4>3, <4>4, <4>5
    <3>2. CASE x = Tables!Invalid
      <4>1. x = [sort |-> "fiber", at |-> 0, rows |-> 0, valid |-> FALSE]
        BY <3>2 DEF Tables!Invalid
      <4> QED
        BY <4>1 DEF SourceRecord
    <3> QED
      BY <1>7, <3>1, <3>2
  <2>3. x # None
    BY <1>5, <2>2
  <2>4. /\ started \in CursorRecord /\ started.of = r.of /\ started.source = x
        /\ started.row = 1 /\ started.args = n /\ started.rowid = 1
    BY <1>5, <2>2 DEF CursorRecord
  <2> HIDE DEF started
  <2>5. new \in CursorRecord /\ new.of = r.of /\ new.source = x
    BY <2>4, AskedCursor
  <2>6. FibersOnly => RowKept(new, KindUnder(c))
    BY <2>2, <2>3, <2>4, AskedKept
  <2>7. cursor' = [cursor EXCEPT ![c] = new]
    BY <1>7 DEF started
  <2> HIDE DEF new
  <2>8. BlocksOfSource(new.source) = {"generator"} \cup Tables!Holds(x)
    BY <2>2, <2>3, <2>5 DEF BlocksOfSource
  <2>9. Tables!Blocks(BlocksOfSource(new.source), BlocksOfSource(r.source))
    BY <1>3, <1>7, <2>8 DEF old
  <2>10. /\ heap' \in [Tables!Sorts -> Int]
         /\ \A s \in Tables!Sorts :
              heap'[s] = heap[s] + (IF s \in BlocksOfSource(new.source) THEN 1 ELSE 0)
                                 - (IF s \in BlocksOfSource(r.source) THEN 1 ELSE 0)
    BY <2>9, BlocksCounted
  <2>11. new.source # None /\ new.source.sort # "iterator"
    BY <2>2, <2>3, <2>5
  <2> QED
    BY <1>1, <1>4, <2>5, <2>6, <2>7, <2>10, <2>11, GeneratorMoves
<1> QED
  BY <1>2, <1>6, <1>7

\* A scan of a generator goes on, and gives back what it needs no more.
LEMMA NextGeneratorStep ==
  ASSUME TablesInv, NEW c \in Cursors, Tables!NextGenerator(c)
  PROVE  TablesInv' /\ (RowsKept => RowsKept')
<1> DEFINE r == cursor[c]
           x == Tables!Advanced(r.source)
           moved == [r EXCEPT !.source = x, !.rowid = r.rowid + 1, !.row = r.row + 1]
           new == Tables!Asked(moved)
<1>1. /\ r # None /\ r.phase = "row" /\ KindUnder(c) = "coro" /\ UNCHANGED <<module, named, refs, table, lost>>
      /\ Tables!Blocks({}, Tables!Holds(r.source) \ Tables!Holds(x))
  BY DEF Tables!NextGenerator, Tables!KindAt, Tables!KindOf, KindUnder, Tables!registration
<1>2. cursor' = [cursor EXCEPT ![c] = new]
  BY DEF Tables!NextGenerator
<1>3. r \in CursorRecord /\ r.source # None /\ r.source \in SourceRecord /\ r.source.sort # "iterator"
  BY <1>1 DEF TablesInv, TablesTypeOK, CursorsFit, CursorFits, CursorRecord
<1>4. /\ x \in SourceRecord /\ x.sort = r.source.sort /\ x.valid = r.source.valid /\ x.rows = r.source.rows
      /\ x.at = IF Tables!Done(r.source) THEN r.source.at ELSE r.source.at + 1
  BY <1>3 DEF Tables!Advanced, SourceRecord
<1>5. x # None
  BY <1>4 DEF TablesInv, TablesAssumption
<1> HIDE DEF x
<1>6. Tables!Holds(x) \subseteq Tables!Holds(r.source)
  <2>1. Tables!Done(r.source) => Tables!Done(x)
    BY <1>4 DEF Tables!Done
  <2>2. r.source.sort \in {"fiber", "stackless"}
    BY <1>3 DEF SourceRecord
  <2>3. CASE ~r.source.valid
    <3>1. ~x.valid
      BY <1>4, <2>3
    <3>2. Tables!Holds(x) = {}
      BY <3>1 DEF Tables!Holds
    <3> QED
      BY <3>2
  <2>4. CASE r.source.valid /\ r.source.sort = "stackless"
    <3>1. Tables!Holds(r.source) = {"stack"} /\ Tables!Holds(x) = {"stack"}
      BY <1>4, <2>4 DEF Tables!Holds
    <3> QED
      BY <3>1
  <2>5. CASE r.source.valid /\ r.source.sort = "fiber"
    <3>1. /\ Tables!Holds(r.source) = IF Tables!Done(r.source) THEN {"stack"} ELSE {"stack", "function object"}
          /\ Tables!Holds(x) = IF Tables!Done(x) THEN {"stack"} ELSE {"stack", "function object"}
      BY <1>4, <2>5 DEF Tables!Holds
    <3> QED
      BY <2>1, <3>1
  <2> QED
    BY <2>2, <2>3, <2>4, <2>5
<1>7. /\ moved \in CursorRecord /\ moved.of = r.of /\ moved.source = x
      /\ moved.row = r.row + 1 /\ moved.args = r.args /\ moved.rowid = r.rowid + 1
  <2>1. r.row + 1 \in Nat /\ r.rowid + 1 \in Nat
    BY <1>3 DEF CursorRecord
  <2> QED
    BY <1>3, <1>4, <2>1 DEF CursorRecord
<1> HIDE DEF moved
<1>8. new \in CursorRecord /\ new.of = r.of /\ new.source = x
  BY <1>7, AskedCursor
<1>9. ASSUME RowsKept
      PROVE  RowKept(new, KindUnder(c))
  <2>1. r.source.valid /\ r.source.at = r.row /\ r.source.rows = r.args /\ r.row >= 1 /\ r.row <= r.args
        /\ r.rowid = r.row
    BY <1>1, <1>9 DEF RowsKept, RowKept
  <2>2. r.row \in Nat /\ r.args \in Nat
    BY <1>3 DEF CursorRecord
  <2>3. x.at = r.row + 1 /\ x.rows = r.args /\ r.row + 1 >= 1 /\ r.row + 1 <= r.args + 1
    BY <1>4, <2>1, <2>2 DEF Tables!Done
  <2>4. r.rowid + 1 = r.row + 1
    BY <2>1
  <2> QED
    BY <1>4, <1>5, <1>7, <2>3, <2>4, AskedKept
<1> HIDE DEF new
<1>10. /\ BlocksOfSource(new.source) = {"generator"} \cup Tables!Holds(x)
       /\ BlocksOfSource(r.source) = {"generator"} \cup Tables!Holds(r.source)
  BY <1>3, <1>4, <1>5, <1>8 DEF BlocksOfSource
<1>11. /\ heap' \in [Tables!Sorts -> Int]
       /\ \A s \in Tables!Sorts :
            heap'[s] = heap[s] + (IF s \in {} THEN 1 ELSE 0)
                               - (IF s \in Tables!Holds(r.source) \ Tables!Holds(x) THEN 1 ELSE 0)
  BY <1>1, BlocksCounted
<1>12. ASSUME NEW s \in Tables!Sorts
       PROVE  heap'[s] = heap[s] + (IF s \in BlocksOfSource(new.source) THEN 1 ELSE 0)
                                 - (IF s \in BlocksOfSource(r.source) THEN 1 ELSE 0)
  <2>1. heap[s] \in Int
    BY DEF TablesInv, TablesTypeOK
  <2>4. "generator" \notin Tables!Holds(r.source)
    <3>1. r.source.sort \in {"fiber", "stackless"}
      BY <1>3 DEF SourceRecord
    <3>2. CASE ~r.source.valid
      BY <3>2 DEF Tables!Holds
    <3>3. CASE r.source.valid
      BY <3>1, <3>3 DEF Tables!Holds
    <3> QED
      BY <3>2, <3>3
  <2>2. CASE s \in BlocksOfSource(new.source)
    <3>1. s \in BlocksOfSource(r.source) /\ s \notin Tables!Holds(r.source) \ Tables!Holds(x)
      BY <1>6, <1>10, <2>2, <2>4
    <3>2. heap'[s] = heap[s] + 0 - 0
      BY <1>11, <3>1
    <3> QED
      BY <2>1, <2>2, <3>1, <3>2, NothingAdded
  <2>3. CASE s \notin BlocksOfSource(new.source)
    <3>1. s \in BlocksOfSource(r.source) <=> s \in Tables!Holds(r.source) \ Tables!Holds(x)
      BY <1>10, <2>3
    <3> QED
      BY <1>11, <2>3, <3>1
  <2> QED
    BY <2>2, <2>3
<1>13. lost' \subseteq {"instance", "function object"} /\ new.source # None /\ new.source.sort # "iterator"
  BY <1>1, <1>3, <1>4, <1>5, <1>8 DEF TablesInv, TablesTypeOK
<1> QED
  BY <1>1, <1>2, <1>8, <1>9, <1>11, <1>12, <1>13, GeneratorMoves

\* No step of SQLite or the application disturbs the invariant, and with fibers no scan is disturbed.
LEMMA TablesStep ==
  ASSUME TablesInv, [Tables!TablesNext]_(Tables!vars)
  PROVE  TablesInv' /\ (FibersOnly /\ RowsKept => RowsKept')
<1>1. CASE UNCHANGED Tables!vars
  BY <1>1, TablesStutter
<1>2. CASE Tables!Close
  BY <1>2, CloseStep
<1>3. ASSUME NEW m \in Modules, NEW state \in {"none", "null", "held"},
             Tables!RegisterVTab(m, state) \/ Tables!RegisterFunction(m, state) \/ Tables!RegisterGenerator(m, state)
      PROVE  TablesInv' /\ (RowsKept => RowsKept')
  <2>1. \E kind \in {"vtab", "tvf", "coro"} : Tables!Register(m, kind, state)
    BY <1>3 DEF Tables!RegisterVTab, Tables!RegisterFunction, Tables!RegisterGenerator
  <2> QED
    BY <2>1, RegisterStep
<1>4. ASSUME NEW t \in VTabs, Tables!ConnectVTab(t) \/ Tables!ConnectFunction(t)
      PROVE  TablesInv' /\ (RowsKept => RowsKept')
  BY <1>4, ConnectStep
<1>5. ASSUME NEW t \in VTabs, Tables!DisconnectVTab(t) \/ Tables!DisconnectFunction(t)
      PROVE  TablesInv' /\ (RowsKept => RowsKept')
  BY <1>5, DisconnectStep
<1>6. ASSUME NEW t \in VTabs, NEW c \in Cursors,
             Tables!OpenVTab(t, c) \/ Tables!OpenIterator(t, c) \/ Tables!OpenGenerator(t, c)
      PROVE  TablesInv' /\ (RowsKept => RowsKept')
  BY <1>6, OpenStep
<1>7. ASSUME NEW c \in Cursors, Tables!NextIterator(c) \/ Tables!NextGenerator(c)
      PROVE  TablesInv' /\ (RowsKept => RowsKept')
  BY <1>7, NextIteratorStep, NextGeneratorStep
<1>8. ASSUME NEW c \in Cursors, Tables!CloseIterator(c) \/ Tables!CloseGenerator(c)
      PROVE  TablesInv' /\ (RowsKept => RowsKept')
  BY <1>8, CloseCursorStep
<1>9. ASSUME NEW c \in Cursors, NEW n \in 0..MaxRows, Tables!FilterVTab(c, n) \/ Tables!FilterIterator(c, n)
      PROVE  TablesInv' /\ (RowsKept => RowsKept')
  <2>1. n \in Nat
    BY DEF TablesInv, TablesAssumption
  <2> QED
    BY <1>9, <2>1, FilterIteratorStep
<1>10. ASSUME NEW c \in Cursors, NEW n \in 0..MaxRows, NEW sort \in Generators, Tables!FilterGenerator(c, n, sort)
       PROVE  TablesInv' /\ (FibersOnly /\ RowsKept => RowsKept')
  <2>1. n \in Nat
    BY DEF TablesInv, TablesAssumption
  <2> QED
    BY <1>10, <2>1, FilterGeneratorStep
<1> QED
  BY <1>1, <1>2, <1>3, <1>4, <1>5, <1>6, <1>7, <1>8, <1>9, <1>10 DEF Tables!TablesNext

\* The invariant counts the blocks as EveryBlockOwned does, and keeps the state and the rows.
LEMMA TablesFollow ==
  ASSUME TablesInv
  PROVE  /\ Tables!EveryBlockOwned /\ Tables!StateOutlivesTables
         /\ RowsKept => Tables!RowsInOrder
<1>1. Tables!EveryBlockOwned
  <2>1. /\ TablesWith("table") = {t \in VTabs : table[t] # None}
        /\ TablesWith("instance") = {t \in VTabs : table[t] # None /\ Tables!KindOf(t) = "vtab"}
    BY DEF TablesWith, BlocksOfTable, Tables!KindOf
  <2>2. \A c \in Cursors : cursor[c] # None /\ cursor[c].source # None =>
          /\ Tables!Holds(cursor[c].source) \subseteq {"stack", "function object"}
          /\ cursor[c].source.sort = "iterator" => Tables!Holds(cursor[c].source) = {}
    <3> SUFFICES ASSUME NEW c \in Cursors, cursor[c] # None, cursor[c].source # None
                 PROVE  /\ Tables!Holds(cursor[c].source) \subseteq {"stack", "function object"}
                        /\ cursor[c].source.sort = "iterator" => Tables!Holds(cursor[c].source) = {}
      OBVIOUS
    <3>1. cursor[c].source.sort \in {"iterator", "fiber", "stackless"} /\ cursor[c].source.valid \in BOOLEAN
      BY DEF TablesInv, TablesTypeOK, CursorRecord, SourceRecord
    <3>2. CASE cursor[c].source.sort = "iterator" \/ ~cursor[c].source.valid
      BY <3>2 DEF Tables!Holds
    <3>3. CASE ~(cursor[c].source.sort = "iterator" \/ ~cursor[c].source.valid)
      BY <3>1, <3>3 DEF Tables!Holds
    <3> QED
      BY <3>2, <3>3
  <2>3. CursorsWith("cursor") = {c \in Cursors : cursor[c] # None}
    BY <2>2 DEF CursorsWith, BlocksOfCursor, BlocksOfSource
  <2>4. /\ CursorsWith("iterator") = {c \in Cursors : cursor[c] # None /\ Tables!HasIterator(cursor[c])}
        /\ CursorsWith("generator") = {c \in Cursors : cursor[c] # None /\ Tables!HasGenerator(cursor[c])}
    BY <2>2 DEF CursorsWith, BlocksOfCursor, BlocksOfSource, Tables!HasIterator, Tables!HasGenerator, Tables!HasSource
  <2>5. /\ CursorsWith("stack") = {c \in Cursors : cursor[c] # None /\ Tables!HasStack(cursor[c])}
        /\ CursorsWith("function object") = {c \in Cursors : cursor[c] # None /\ Tables!HasFunction(cursor[c])}
    BY <2>2 DEF CursorsWith, BlocksOfCursor, BlocksOfSource, Tables!HasStack, Tables!HasFunction, Tables!HasSource
  <2>6. /\ heap["table"] = Cardinality(TablesWith("table"))
        /\ heap["instance"] = Cardinality(TablesWith("instance"))
    BY DEF TablesInv, HeapOwned, Tables!Sorts, SortsOfTables
  <2>7. /\ heap["cursor"] = Cardinality(CursorsWith("cursor"))
        /\ heap["iterator"] = Cardinality(CursorsWith("iterator"))
        /\ heap["generator"] = Cardinality(CursorsWith("generator"))
        /\ heap["stack"] = Cardinality(CursorsWith("stack"))
        /\ heap["function object"] = Cardinality(CursorsWith("function object"))
    BY DEF TablesInv, HeapOwned, Tables!Sorts, SortsOfTables
  <2>8. lost \subseteq {"instance", "function object"}
    BY DEF TablesInv, TablesTypeOK
  <2>9. /\ heap["cursor"] = Tables!Count(LAMBDA r : TRUE)
        /\ heap["iterator"] = Tables!Count(Tables!HasIterator)
        /\ heap["generator"] = Tables!Count(Tables!HasGenerator)
        /\ heap["stack"] = Tables!Count(Tables!HasStack)
        /\ heap["function object"] = Tables!Count(Tables!HasFunction)
    BY <2>3, <2>4, <2>5, <2>7, TablesCardinality DEF Tables!Count
  <2>10. /\ heap["table"] = Tables!Cardinality({t \in VTabs : table[t] # None})
         /\ heap["instance"] = Tables!Cardinality({t \in VTabs : table[t] # None /\ Tables!KindOf(t) = "vtab"})
    BY <2>1, <2>6, TablesCardinality
  <2> QED
    BY <2>8, <2>9, <2>10 DEF Tables!EveryBlockOwned
<1>2. Tables!StateOutlivesTables
  <2>1. refs = Tables!Cardinality({m \in Modules : module[m] # None /\ module[m].state = "held"})
    BY TablesCardinality DEF TablesInv, StatesStay, HoldingModules
  <2> QED
    BY <2>1 DEF TablesInv, StatesStay, CursorsFit, CursorFits, Tables!StateOutlivesTables
<1>3. ASSUME RowsKept
      PROVE  Tables!RowsInOrder
  <2>1. ASSUME NEW c \in Cursors, cursor[c] # None, cursor[c].phase = "row"
        PROVE  /\ Tables!Column(cursor[c]) = cursor[c].row /\ Tables!Rowid(cursor[c]) = cursor[c].row
               /\ cursor[c].row <= cursor[c].args
    <3>1. RowKept(cursor[c], KindUnder(c)) /\ cursor[c] \in CursorRecord
      BY <1>3, <2>1 DEF RowsKept, TablesInv, TablesTypeOK
    <3>2. cursor[c].row \in Nat /\ cursor[c].args \in Nat
      BY <3>1 DEF CursorRecord
    <3>3. /\ cursor[c].source # None /\ cursor[c].source.valid /\ cursor[c].source.at = cursor[c].row
          /\ cursor[c].source.rows = cursor[c].args /\ cursor[c].row >= 1 /\ cursor[c].row <= cursor[c].args
          /\ KindUnder(c) = "coro" => cursor[c].rowid = cursor[c].row
      BY <2>1, <3>1 DEF RowKept
    <3>4. ~Tables!Eof(cursor[c]) /\ cursor[c].source.at \in 1..cursor[c].source.rows
      BY <3>2, <3>3 DEF Tables!Eof, Tables!Done
    <3>5. Tables!Column(cursor[c]) = cursor[c].row
      BY <3>3, <3>4 DEF Tables!Column, Tables!Value
    <3>6. Tables!Rowid(cursor[c]) = cursor[c].row
      BY <3>3 DEF Tables!Rowid, Tables!KindOf, KindUnder
    <3> QED
      BY <3>3, <3>5, <3>6
  <2>2. ASSUME NEW c \in Cursors, cursor[c] # None, cursor[c].phase = "end"
        PROVE  cursor[c].row = cursor[c].args + 1 \/ ~cursor[c].source.valid
    BY <1>3, <2>2 DEF RowsKept, RowKept
  <2> QED
    BY <2>1, <2>2 DEF Tables!RowsInOrder
<1> QED
  BY <1>1, <1>2, <1>3

\* Virtual tables and table-valued functions, with any modules, tables, cursors and numbers of rows:
\* every block has an owner, and the state a table hands to its functions outlives it.
THEOREM TablesOwned ==
  ASSUME TablesAssumption PROVE Tables!Spec => [](Tables!EveryBlockOwned /\ Tables!StateOutlivesTables)
<1>1. Tables!TablesInit => TablesInv
  BY TablesInitially
<1>2. TablesInv /\ [Tables!TablesNext]_(Tables!vars) => TablesInv'
  BY TablesStep
<1>3. TablesInv => Tables!EveryBlockOwned /\ Tables!StateOutlivesTables
  BY TablesFollow
<1> QED
  BY <1>1, <1>2, <1>3, PTL DEF Tables!Spec

\* With fibers every scan gives its rows in order besides.
THEOREM TablesAlwaysSafe ==
  ASSUME TablesAssumption, FibersOnly PROVE Tables!Spec => []Tables!TablesSafe
<1>1. Tables!TablesInit => TablesInv /\ RowsKept
  BY TablesInitially
<1>2. TablesInv /\ RowsKept /\ [Tables!TablesNext]_(Tables!vars) => TablesInv' /\ RowsKept'
  BY TablesStep
<1>3. TablesInv /\ RowsKept => Tables!TablesSafe
  BY TablesFollow DEF Tables!TablesSafe
<1> QED
  BY <1>1, <1>2, <1>3, PTL DEF Tables!Spec

-----------------------------------------------------------------------------
(* SqlRunner: the runner answers true exactly when every statement came out as it should, *)
(* but for what it overlooks *)

\* Induction over the numbers, in the form of sets.
LEMMA Least ==
  ASSUME NEW T, T \subseteq Nat, T # {}
  PROVE  \E x \in T : \A y \in T : x <= y
<1>1. PICK x \in T : \A y \in T : <<y, x>> \notin OpToRel(<, Nat)
  BY NatLessThanWellFounded, WFMin
<1>2. ASSUME NEW y \in T
      PROVE  x <= y
  <2>1. x \in Nat /\ y \in Nat
    OBVIOUS
  <2>2. OpToRel(<, Nat) = {s \in Nat \X Nat : s[1] < s[2]}
    BY DEF OpToRel
  <2>3. <<y, x>> \in Nat \X Nat /\ <<y, x>>[1] = y /\ <<y, x>>[2] = x
    BY <2>1
  <2>4. ~(y < x)
    BY <1>1, <2>2, <2>3
  <2> QED
    BY <2>1, <2>4
<1> QED
  BY <1>2

LEMMA Induct ==
  ASSUME NEW T, 0 \in T, \A n \in Nat : n \in T => n + 1 \in T
  PROVE  \A n \in Nat : n \in T
<1> SUFFICES ASSUME Nat \ T # {} PROVE FALSE
  OBVIOUS
<1>1. PICK m \in Nat \ T : \A y \in Nat \ T : m <= y
  BY Least
<1>2. m # 0 /\ m - 1 \in Nat /\ m - 1 \in T
  BY <1>1
<1> QED
  BY <1>1, <1>2

\* Sequences of the same elements are the same.
LEMMA SameSeq ==
  ASSUME NEW s, NEW t, Runner!IsSeq(s), Runner!IsSeq(t), Len(s) = Len(t), \A i \in 1 .. Len(s) : s[i] = t[i]
  PROVE  s = t
<1>1. s = [i \in 1 .. Len(s) |-> s[i]] /\ t = [i \in 1 .. Len(t) |-> t[i]]
  BY DEF Runner!IsSeq
<1> QED
  BY <1>1

\* What is a table buffer, with so many rows, which fit.
Buffer(t, n) ==
  /\ t \in [rows : {t.rows}, capacity : Nat, present : BOOLEAN, skip : BOOLEAN]
  /\ Runner!IsSeq(t.rows) /\ Len(t.rows) = n /\ n <= t.capacity

\* A sequence that gets one element more.
LEMMA Appended ==
  ASSUME NEW s, NEW x, Runner!IsSeq(s)
  PROVE  /\ Runner!IsSeq(Append(s, x)) /\ Len(s) \in Nat /\ Len(Append(s, x)) = Len(s) + 1
         /\ DOMAIN s = 1 .. Len(s) /\ DOMAIN Append(s, x) = 1 .. Len(s) + 1
         /\ Append(s, x)[Len(s) + 1] = x
         /\ \A i \in 1 .. Len(s) : Append(s, x)[i] = s[i]
<1> DEFINE V == {s[i] : i \in DOMAIN s} \cup {x}
           a == Append(s, x)
<1>1. s \in Seq({s[i] : i \in DOMAIN s}) /\ Len(s) \in Nat /\ DOMAIN s = 1 .. Len(s)
  BY DEF Runner!IsSeq
<1>2. s \in Seq(V) /\ x \in V
  <2>1. \A i \in 1 .. Len(s) : s[i] \in V
    BY <1>1
  <2> QED
    BY <1>1, <2>1
<1>3. /\ a \in Seq(V) /\ Len(a) = Len(s) + 1 /\ DOMAIN a = 1 .. Len(s) + 1
      /\ a[Len(s) + 1] = x /\ \A i \in 1 .. Len(s) : a[i] = s[i]
  BY <1>1, <1>2
<1>4. a \in Seq({a[i] : i \in DOMAIN a})
  <2>1. \A i \in 1 .. Len(a) : a[i] \in {a[j] : j \in DOMAIN a}
    BY <1>3
  <2> QED
    BY <1>3, <2>1
<1> QED
  BY <1>1, <1>3, <1>4 DEF Runner!IsSeq

LEMMA RowAdded ==
  ASSUME FirstRoom \in Nat \ {0}, NEW t, NEW n \in Nat, NEW row, Buffer(t, n)
  PROVE  LET more == Runner!AddRow(t, row) IN
         /\ Buffer(more, n + 1) /\ more.rows = Append(t.rows, row)
         /\ more.present = t.present /\ more.skip = t.skip
<1> DEFINE more == Runner!AddRow(t, row)
           room == IF Len(t.rows) < t.capacity THEN t.capacity ELSE IF t.capacity = 0 THEN FirstRoom ELSE 2 * t.capacity
<1>1. Runner!IsSeq(t.rows) /\ Len(t.rows) = n /\ t.capacity \in Nat /\ n <= t.capacity
  BY DEF Buffer
<1>2. room \in Nat /\ n + 1 <= room
  BY <1>1
<1>3. /\ more.rows = Append(t.rows, row) /\ more.capacity = room
      /\ more.present = t.present /\ more.skip = t.skip
      /\ more \in [rows : {Append(t.rows, row)}, capacity : Nat, present : BOOLEAN, skip : BOOLEAN]
  BY <1>2 DEF Buffer, Runner!AddRow
<1>4. Runner!IsSeq(Append(t.rows, row)) /\ Len(Append(t.rows, row)) = n + 1
  BY <1>1, Appended
<1> QED
  BY <1>2, <1>3, <1>4 DEF Buffer

\* The rows of a parsed table are those that stand there, and they fit into it.
LEMMA RowsParsed ==
  ASSUME FirstRoom \in Nat \ {0}, NEW rows, Runner!IsSeq(rows)
  PROVE  LET t == Runner!Parsed(rows) IN
         Buffer(t, Len(rows)) /\ t.rows = rows /\ t.present /\ ~t.skip
<1> DEFINE base == [Runner!NoTable EXCEPT !.present = TRUE]
           Table(f, n) == [m \in 0 .. n |-> IF m = 0 THEN base ELSE Runner!AddRow(f[m - 1], rows[m])]
           Some == {n \in Nat : \E f : f = Table(f, n)}
<1>0. Len(rows) \in Nat /\ DOMAIN rows = 1 .. Len(rows)
  BY DEF Runner!IsSeq
<1>1. \A n \in Nat : n \in Some
  <2>1. 0 \in Some
    <3>1. [m \in 0 .. 0 |-> base] = Table([m \in 0 .. 0 |-> base], 0)
      OBVIOUS
    <3> QED
      BY <3>1
  <2>2. ASSUME NEW n \in Nat, n \in Some
        PROVE  n + 1 \in Some
    <3>1. PICK f : f = Table(f, n)
      BY <2>2
    <3> DEFINE g == [m \in 0 .. n + 1 |-> IF m = n + 1 THEN Runner!AddRow(f[n], rows[n + 1]) ELSE f[m]]
    <3>2. \A m \in 0 .. n : f[m] = IF m = 0 THEN base ELSE Runner!AddRow(f[m - 1], rows[m])
      BY <3>1
    <3> HIDE DEF base
    <3>3. \A m \in 0 .. n + 1 : g[m] = IF m = 0 THEN base ELSE Runner!AddRow(g[m - 1], rows[m])
      BY <3>2
    <3>4. g = Table(g, n + 1)
      <4> HIDE DEF g
      <4>1. g = [m \in 0 .. n + 1 |-> g[m]]
        BY DEF g
      <4> QED
        BY <3>3, <4>1
    <3>5. \E h : h = Table(h, n + 1)
      <4> HIDE DEF g
      <4> QED
        BY <3>4
    <3> QED
      BY <3>5
  <2> HIDE DEF Some
  <2> QED
    BY <2>1, <2>2, Induct
<1> DEFINE T == CHOOSE f : f = Table(f, Len(rows))
<1>2. T = Table(T, Len(rows))
  BY <1>0, <1>1
<1>3. Runner!Parsed(rows) = T[Len(rows)]
  BY DEF Runner!Parsed
<1>4. T[0] = base /\ \A n \in 0 .. Len(rows) - 1 : T[n + 1] = Runner!AddRow(T[n], rows[n + 1])
  <2> HIDE DEF T, base
  <2> QED
    BY <1>0, <1>2
<1> DEFINE Upto(n) == /\ Buffer(T[n], n) /\ T[n].present /\ ~T[n].skip
                      /\ \A i \in 1 .. n : T[n].rows[i] = rows[i]
           Good == {n \in Nat : n <= Len(rows) => Upto(n)}
<1> HIDE DEF T
<1>5. \A n \in Nat : n \in Good
  <2>1. 0 \in Good
    <3>1. /\ base.rows = <<>> /\ base.capacity = 0 /\ base.present /\ ~base.skip
          /\ base \in [rows : {<<>>}, capacity : Nat, present : BOOLEAN, skip : BOOLEAN]
      BY DEF Runner!NoTable
    <3>2. Runner!IsSeq(<<>>) /\ Len(<<>>) = 0
      BY DEF Runner!IsSeq
    <3> QED
      BY <1>4, <3>1, <3>2 DEF Buffer
  <2>2. ASSUME NEW n \in Nat, n \in Good
        PROVE  n + 1 \in Good
    <3> SUFFICES ASSUME n + 1 <= Len(rows) PROVE Upto(n + 1)
      OBVIOUS
    <3>1. Upto(n) /\ T[n + 1] = Runner!AddRow(T[n], rows[n + 1])
      BY <1>0, <1>4, <2>2
    <3> HIDE DEF base
    <3>2. /\ Buffer(T[n + 1], n + 1) /\ T[n + 1].rows = Append(T[n].rows, rows[n + 1])
          /\ T[n + 1].present /\ ~T[n + 1].skip
      BY <3>1, RowAdded
    <3>3. \A i \in 1 .. n + 1 : T[n + 1].rows[i] = rows[i]
      <4>1. Runner!IsSeq(T[n].rows) /\ Len(T[n].rows) = n
        BY <3>1 DEF Buffer
      <4>2. /\ Append(T[n].rows, rows[n + 1])[n + 1] = rows[n + 1]
            /\ \A i \in 1 .. n : Append(T[n].rows, rows[n + 1])[i] = T[n].rows[i]
        BY <4>1, Appended
      <4>3. ASSUME NEW i \in 1 .. n + 1
            PROVE  T[n + 1].rows[i] = rows[i]
        <5>1. i = n + 1 \/ i \in 1 .. n
          OBVIOUS
        <5> QED
          BY <3>1, <3>2, <4>2, <5>1
      <4> QED
        BY <4>3
    <3> QED
      BY <3>2, <3>3
  <2> HIDE DEF Good
  <2> QED
    BY <2>1, <2>2, Induct
<1>6. Upto(Len(rows))
  BY <1>0, <1>5
<1>7. T[Len(rows)].rows = rows
  <2>1. Runner!IsSeq(T[Len(rows)].rows) /\ Len(T[Len(rows)].rows) = Len(rows)
    BY <1>6 DEF Buffer
  <2> QED
    BY <1>6, <2>1, SameSeq
<1> QED
  BY <1>3, <1>6, <1>7

\* Where the first cell begins, the statements behind it, and those of them up to a line; how
\* they came out: where memory is lacking a query may pass with a snapshot that was read wrong.
FirstCell ==
  IF Runner!IsMark(1) THEN 1 ELSE IF Runner!NextMark(1) <= Len(script) THEN Runner!NextMark(1) ELSE 0
Due == {i \in Runner!Statements : FirstCell < i}
Passed(i) == {j \in Due : j <= i}
WentWell(S) ==
  /\ \A b \in S : script[b].kind # "query" => Runner!Good(b)
  /\ Runner!OneSpelling => \A b \in S : Runner!Passes(b) \/ scarce
InOrder(s) == \A i, j \in DOMAIN s : i < j => s[i] < s[j]
RanAre(S) == Runner!IsSeq(ran) /\ InOrder(ran) /\ Runner!ToSet(ran) = S

RunnerPlace ==
  /\ at \in 0 .. Len(script) /\ end \in at .. Len(script) /\ scarce \in BOOLEAN
  /\ phase \in {"between", "cell", "query"} /\ all_ok = TRUE
  /\ at > 0 \/ phase # "between" => FirstCell <= at /\ end > 0
  /\ end > 0 /\ end < Len(script) => Runner!IsMark(end + 1)
  /\ phase = "between" => at = end

\* In a script of one spelling a cell has no marks, but on the line behind its title.
NoMarks ==
  /\ phase = "cell" => \A m \in at + 2 .. end : ~Runner!IsMark(m)
  /\ phase = "query" => \A m \in at + 1 .. end : ~Runner!IsMark(m)

BuffersFit == Buffer(snapshot, Len(snapshot.rows)) /\ Buffer(actual, Len(actual.rows))

\* The tables of a query: what the comments say, and the rows given until now.
SnapshotRead ==
  /\ Required => snapshot.present
  /\ Runner!SkipAhead(at) => snapshot.skip
  /\ ~Runner!SkipAhead(at) /\ ~Runner!HasSnapshot(at) => ~snapshot.present
  /\ ~Runner!SkipAhead(at) /\ Runner!HasSnapshot(at) =>
       snapshot.present /\ ~snapshot.skip /\ (~scarce => snapshot.rows = script[at].snapshot)
RowsTaken ==
  /\ stepped \in 0 .. Len(Runner!Given)
  /\ ~scarce => Len(actual.rows) = stepped /\ \A i \in 1 .. stepped : actual.rows[i] = Runner!Given[i]

RunnerBusy ==
  /\ RunnerPlace /\ RanAre(Passed(at)) /\ (Runner!OneSpelling => NoMarks)
  /\ phase # "query" => WentWell(Passed(at))
  /\ phase = "query" =>
       at \in Due /\ WentWell(Passed(at - 1)) /\ script[at].kind = "query" /\ SnapshotRead /\ RowsTaken

RunnerInv ==
  /\ script \in Scripts /\ BuffersFit
  /\ phase = "done" => Runner!RunnerHonest
  /\ phase # "done" => RunnerBusy

LEMMA SeqShape ==
  ASSUME NEW s, Runner!IsSeq(s)
  PROVE  Len(s) \in Nat /\ DOMAIN s = 1 .. Len(s)
BY DEF Runner!IsSeq

\* Scripts are what they should be.
LEMMA ScriptShape ==
  ASSUME Runner!ScriptsAssumption, script \in Scripts
  PROVE  /\ Len(script) \in Nat /\ DOMAIN script = 1 .. Len(script)
         /\ \A i \in 1 .. Len(script) : Runner!LineFits(script[i])
BY SeqShape DEF Runner!ScriptsAssumption

LEMMA LeastMark ==
  ASSUME NEW T, T \subseteq Nat, T # {}
  PROVE  Runner!Min(T) \in T /\ \A y \in T : Runner!Min(T) <= y
<1>1. \E x \in T : \A y \in T : x <= y
  BY Least
<1> QED
  BY <1>1 DEF Runner!Min

\* What the search for a mark finds.
LEMMA NextMarkIs ==
  ASSUME Runner!ScriptsAssumption, script \in Scripts, NEW from \in Nat, from > 0
  PROVE  LET n == Runner!NextMark(from) IN
         /\ n \in 1 .. Len(script) + 1
         /\ n <= Len(script) => n >= from /\ Runner!IsMark(n)
         /\ n = Len(script) + 1 => \A m \in from .. Len(script) : ~Runner!IsMark(m)
         /\ Runner!OneSpelling => \A m \in from .. n - 1 : ~Runner!IsMark(m)
<1> DEFINE n == Runner!NextMark(from)
           S == Runner!Marks(TRUE, from)
           T == Runner!Marks(FALSE, from)
<1>0. Len(script) \in Nat /\ DOMAIN script = 1 .. Len(script) /\ \A i \in 1 .. Len(script) : Runner!LineFits(script[i])
  BY ScriptShape
<1>1. S \subseteq from .. Len(script) /\ T \subseteq from .. Len(script) /\ S \subseteq Nat /\ T \subseteq Nat
  BY <1>0 DEF Runner!Marks
<1>2. \A m \in from .. Len(script) : Runner!IsMark(m) <=> m \in S \cup T
  <2>1. \A m \in from .. Len(script) : script[m].spaced \in BOOLEAN
    BY <1>0 DEF Runner!LineFits
  <2> QED
    BY <2>1 DEF Runner!Marks
<1>3. Runner!OneSpelling => S = {} \/ T = {}
  BY <1>0, <1>1 DEF Runner!OneSpelling, Runner!Marks
<1>4. CASE S # {}
  <2>1. n = Runner!Min(S)
    BY <1>4 DEF Runner!NextMark
  <2>2. n \in S /\ \A y \in S : n <= y
    BY <1>1, <1>4, <2>1, LeastMark
  <2> HIDE DEF n, S, T
  <2>3. Runner!OneSpelling => \A m \in from .. n - 1 : ~Runner!IsMark(m)
    BY <1>0, <1>1, <1>2, <1>3, <1>4, <2>2
  <2>4. n \in from .. Len(script) /\ Runner!IsMark(n)
    BY <1>1, <1>2, <2>2
  <2> QED
    BY <1>0, <2>3, <2>4 DEF n
<1>5. CASE S = {} /\ T # {}
  <2>1. n = Runner!Min(T)
    BY <1>5 DEF Runner!NextMark
  <2>2. n \in T /\ \A y \in T : n <= y
    BY <1>1, <1>5, <2>1, LeastMark
  <2> HIDE DEF n, S, T
  <2>3. \A m \in from .. n - 1 : ~Runner!IsMark(m)
    BY <1>0, <1>1, <1>2, <1>5, <2>2
  <2>4. n \in from .. Len(script) /\ Runner!IsMark(n)
    BY <1>1, <1>2, <2>2
  <2> QED
    BY <1>0, <2>3, <2>4 DEF n
<1>6. CASE S = {} /\ T = {}
  <2>1. n = Len(script) + 1
    BY <1>6 DEF Runner!NextMark
  <2>2. \A m \in from .. Len(script) : ~Runner!IsMark(m)
    BY <1>2, <1>6
  <2> QED
    BY <1>0, <2>1, <2>2
<1> QED
  BY <1>4, <1>5, <1>6

\* The first cell, and that it is the first in a script of one spelling.
LEMMA FirstIs ==
  ASSUME Runner!ScriptsAssumption, script \in Scripts
  PROVE  /\ FirstCell \in Nat /\ (Len(script) > 0 => FirstCell <= Len(script))
         /\ FirstCell = 0 => \A m \in 1 .. Len(script) : ~Runner!IsMark(m)
         /\ FirstCell > 0 => Runner!IsMark(FirstCell)
         /\ Runner!OneSpelling => Due = Runner!Statements
<1> DEFINE n == Runner!NextMark(1)
<1>0. Len(script) \in Nat /\ DOMAIN script = 1 .. Len(script)
  BY ScriptShape
<1>1. /\ n \in 1 .. Len(script) + 1
      /\ n <= Len(script) => n >= 1 /\ Runner!IsMark(n)
      /\ n = Len(script) + 1 => \A m \in 1 .. Len(script) : ~Runner!IsMark(m)
      /\ Runner!OneSpelling => \A m \in 1 .. n - 1 : ~Runner!IsMark(m)
  BY NextMarkIs
<1> HIDE DEF n
<1>2. FirstCell = IF Runner!IsMark(1) THEN 1 ELSE IF n <= Len(script) THEN n ELSE 0
  BY DEF FirstCell, n
<1>3. /\ FirstCell \in Nat /\ (Len(script) > 0 => FirstCell <= Len(script))
      /\ FirstCell = 0 => \A m \in 1 .. Len(script) : ~Runner!IsMark(m)
      /\ FirstCell > 0 => Runner!IsMark(FirstCell)
  BY <1>0, <1>1, <1>2
<1>4. ASSUME Runner!OneSpelling, NEW i \in Runner!Statements
      PROVE  FirstCell < i
  <2>1. i \in 1 .. Len(script) /\ ~Runner!IsMark(i)
        /\ ((\E m \in 1 .. i : Runner!IsMark(m)) \/ \A m \in 1 .. Len(script) : ~Runner!IsMark(m))
    BY <1>0 DEF Runner!Statements
  <2>2. CASE \A m \in 1 .. Len(script) : ~Runner!IsMark(m)
    BY <1>0, <1>3, <2>1, <2>2
  <2>3. CASE \E m \in 1 .. i : Runner!IsMark(m)
    <3>1. PICK m \in 1 .. i : Runner!IsMark(m)
      BY <2>3
    <3>2. m # i
      BY <2>1, <3>1
    <3>3. m < i /\ m >= 1
      BY <2>1, <3>1, <3>2
    <3>4. CASE Runner!IsMark(1)
      BY <1>2, <3>3, <3>4, <2>1
    <3>5. CASE ~Runner!IsMark(1)
      <4>1. \A k \in 1 .. n - 1 : ~Runner!IsMark(k)
        BY <1>1, <1>4
      <4>2. n <= m
        BY <1>0, <1>1, <2>1, <3>1, <3>3, <4>1
      <4> QED
        BY <1>0, <1>1, <1>2, <2>1, <3>3, <3>5, <4>2
    <3> QED
      BY <3>4, <3>5
  <2> QED
    BY <2>1, <2>2, <2>3
<1>5. Runner!OneSpelling => Due = Runner!Statements
  BY <1>4 DEF Due
<1> QED
  BY <1>3, <1>5

\* What is due are lines of the script.
LEMMA DueLines ==
  ASSUME Runner!ScriptsAssumption, script \in Scripts
  PROVE  Due \subseteq 1 .. Len(script) /\ \A i \in Due : ~Runner!IsMark(i) /\ i \in Runner!Statements /\ i \in Nat
BY ScriptShape DEF Due, Runner!Statements

\* The next line of a cell.
LEMMA PassedNext ==
  ASSUME Runner!ScriptsAssumption, script \in Scripts, RunnerPlace, phase = "cell", at < end
  PROVE  /\ at \in Nat /\ end \in Nat /\ at + 1 \in 1 .. Len(script)
         /\ Runner!IsMark(at + 1) => Passed(at + 1) = Passed(at)
         /\ ~Runner!IsMark(at + 1) =>
              /\ at + 1 \in Due /\ at + 1 \in Runner!Statements
              /\ Passed(at + 1) = Passed(at) \cup {at + 1} /\ at + 1 \notin Passed(at)
              /\ \A b \in Passed(at) : b \in Nat /\ b < at + 1
<1>0. /\ Len(script) \in Nat /\ DOMAIN script = 1 .. Len(script) /\ at \in Nat /\ end \in Nat
      /\ at + 1 \in 1 .. Len(script) /\ FirstCell <= at
  BY ScriptShape DEF RunnerPlace
<1>1. Due \subseteq 1 .. Len(script) /\ \A i \in Due : ~Runner!IsMark(i) /\ i \in Nat
  BY DueLines
<1>2. ASSUME Runner!IsMark(at + 1)
      PROVE  Passed(at + 1) = Passed(at)
  <2>1. at + 1 \notin Due
    BY <1>1, <1>2
  <2>2. ASSUME NEW i \in Due
        PROVE  i <= at + 1 <=> i <= at
    <3>1. i \in Nat /\ i # at + 1
      BY <1>1, <2>1
    <3> QED
      BY <1>0, <3>1
  <2> QED
    BY <2>2 DEF Passed
<1>3. ASSUME ~Runner!IsMark(at + 1)
      PROVE  at + 1 \in Due /\ at + 1 \in Runner!Statements
  <2>1. FirstCell \in Nat /\ (FirstCell = 0 => \A m \in 1 .. Len(script) : ~Runner!IsMark(m))
        /\ (FirstCell > 0 => Runner!IsMark(FirstCell))
    BY FirstIs
  <2>2. (\E m \in 1 .. at + 1 : Runner!IsMark(m)) \/ \A m \in DOMAIN script : ~Runner!IsMark(m)
    <3>1. CASE FirstCell = 0
      BY <1>0, <2>1, <3>1
    <3>2. CASE FirstCell > 0
      <4>1. FirstCell \in 1 .. at + 1
        BY <1>0, <2>1, <3>2
      <4> QED
        BY <2>1, <3>2, <4>1
    <3> QED
      BY <2>1, <3>1, <3>2
  <2>3. at + 1 \in Runner!Statements
    BY <1>0, <1>3, <2>2 DEF Runner!Statements
  <2>4. FirstCell < at + 1
    BY <1>0, <2>1
  <2> QED
    BY <2>3, <2>4 DEF Due
<1>4. ASSUME ~Runner!IsMark(at + 1)
      PROVE  /\ Passed(at + 1) = Passed(at) \cup {at + 1} /\ at + 1 \notin Passed(at)
             /\ \A b \in Passed(at) : b \in Nat /\ b < at + 1
  <2>1. ASSUME NEW i \in Due
        PROVE  i \in Nat /\ (i <= at + 1 <=> i <= at \/ i = at + 1) /\ (i <= at => i < at + 1)
    <3>1. i \in Nat
      BY <1>1
    <3> QED
      BY <1>0, <3>1
  <2>2. at + 1 \in Due /\ ~(at + 1 <= at)
    BY <1>0, <1>3, <1>4
  <2> QED
    BY <2>1, <2>2 DEF Passed
<1> QED
  BY <1>0, <1>2, <1>3, <1>4

\* The next cell, and the end of the last one.
LEMMA PassedCell ==
  ASSUME Runner!ScriptsAssumption, script \in Scripts, RunnerPlace, phase = "between"
  PROVE  /\ at < Len(script) =>
              LET c == Runner!CellMark
                  e == Runner!NextMark(c + 2) - 1 IN
              /\ c \in 0 .. Len(script) /\ FirstCell <= c /\ Passed(c) = Passed(at)
              /\ e \in c .. Len(script) /\ e > 0 /\ (e < Len(script) => Runner!IsMark(e + 1))
              /\ Runner!OneSpelling => \A m \in c + 2 .. e : ~Runner!IsMark(m)
         /\ at = Len(script) => Passed(at) = Due
<1> DEFINE c == Runner!CellMark
           n == Runner!NextMark(c + 2)
<1>0. /\ Len(script) \in Nat /\ at \in Nat /\ at = end /\ at <= Len(script)
      /\ at > 0 => FirstCell <= at /\ (at < Len(script) => Runner!IsMark(at + 1))
  BY ScriptShape DEF RunnerPlace
<1>1. /\ FirstCell \in Nat /\ (Len(script) > 0 => FirstCell <= Len(script))
      /\ FirstCell = 0 => \A m \in 1 .. Len(script) : ~Runner!IsMark(m)
  BY FirstIs
<1>2. Due \subseteq 1 .. Len(script) /\ \A i \in Due : ~Runner!IsMark(i) /\ i \in Nat /\ FirstCell < i
  BY DueLines DEF Due
<1>3. at = Len(script) => Passed(at) = Due
  <2>1. ASSUME NEW i \in Due
        PROVE  i <= Len(script)
    BY <1>0, <1>2
  <2> QED
    BY <2>1 DEF Passed
<1>4. ASSUME at < Len(script)
      PROVE  /\ c \in 0 .. Len(script) /\ FirstCell <= c /\ Passed(c) = Passed(at)
             /\ c = 0 => \A m \in 1 .. Len(script) : ~Runner!IsMark(m)
  <2>1. CASE at > 0
    <3>1. c = at + 1
      BY <2>1 DEF Runner!CellMark
    <3>2. at + 1 \notin Due
      BY <1>0, <1>2, <1>4, <2>1
    <3>3. Passed(at + 1) = Passed(at)
      <4>1. ASSUME NEW i \in Due
            PROVE  i <= at + 1 <=> i <= at
        <5>1. i \in Nat /\ i # at + 1
          BY <1>2, <3>2
        <5> QED
          BY <1>0, <5>1
      <4> QED
        BY <4>1 DEF Passed
    <3> QED
      BY <1>0, <1>1, <1>4, <2>1, <3>1, <3>3
  <2>2. CASE at = 0
    <3>1. c = FirstCell
      <4>1. CASE Runner!IsMark(1)
        BY <2>2, <4>1 DEF Runner!CellMark, FirstCell
      <4>2. CASE ~Runner!IsMark(1) /\ Runner!NextMark(1) <= Len(script)
        <5>1. c = Runner!NextMark(1)
          BY <2>2, <4>2 DEF Runner!CellMark
        <5> QED
          BY <4>2, <5>1 DEF FirstCell
      <4>3. CASE ~Runner!IsMark(1) /\ ~(Runner!NextMark(1) <= Len(script))
        <5>1. c = 0
          BY <2>2, <4>3 DEF Runner!CellMark
        <5> QED
          BY <4>3, <5>1 DEF FirstCell
      <4> QED
        BY <4>1, <4>2, <4>3
    <3>2. Passed(FirstCell) = {} /\ Passed(at) = {}
      <4>1. ASSUME NEW i \in Due
            PROVE  ~(i <= FirstCell) /\ ~(i <= at)
        <5>1. i \in Nat /\ FirstCell < i /\ FirstCell \in Nat
          BY <1>1, <1>2
        <5> QED
          BY <2>2, <5>1
      <4> QED
        BY <4>1 DEF Passed
    <3> QED
      BY <1>0, <1>1, <1>4, <3>1, <3>2
  <2> QED
    BY <1>0, <2>1, <2>2
<1>5. ASSUME at < Len(script)
      PROVE  /\ n - 1 \in c .. Len(script) /\ n - 1 > 0 /\ (n - 1 < Len(script) => Runner!IsMark(n - 1 + 1))
             /\ Runner!OneSpelling => \A m \in c + 2 .. n - 1 : ~Runner!IsMark(m)
  <2>1. c \in Nat /\ c <= Len(script) /\ (c = 0 => \A m \in 1 .. Len(script) : ~Runner!IsMark(m))
    BY <1>0, <1>4, <1>5
  <2> HIDE DEF c
  <2>2. c + 2 \in Nat /\ c + 2 > 0
    BY <2>1
  <2>3. /\ n \in 1 .. Len(script) + 1
        /\ n <= Len(script) => n >= c + 2 /\ Runner!IsMark(n)
        /\ Runner!OneSpelling => \A m \in c + 2 .. n - 1 : ~Runner!IsMark(m)
    BY <2>2, NextMarkIs
  <2> HIDE DEF n
  <2>4. n - 1 \in c .. Len(script) /\ n - 1 + 1 = n
    BY <1>0, <2>1, <2>3
  <2>5. n - 1 > 0
    BY <1>0, <1>5, <2>1, <2>3
  <2> QED
    BY <1>0, <2>3, <2>4, <2>5
<1> QED
  BY <1>3, <1>4, <1>5

\* A buffer for a part of the lines, where memory was lacking, is one all the same.
LEMMA LossyBuffers ==
  ASSUME FirstRoom \in Nat \ {0}, NEW all, Runner!IsSeq(all), NEW rows \in Runner!Lossy(all)
  PROVE  LET t == Runner!Parsed(rows) IN Buffer(t, Len(t.rows)) /\ t.present /\ ~t.skip
<1> DEFINE V == {all[i] : i \in DOMAIN all}
<1>0. all \in Seq(V) /\ Len(all) \in Nat /\ DOMAIN all = 1 .. Len(all)
  BY DEF Runner!IsSeq
<1>1. ASSUME NEW W, NEW s, s \in Seq(W)
      PROVE  Runner!IsSeq(s)
  <2>1. s \in [1 .. Len(s) -> {s[i] : i \in DOMAIN s}] /\ Len(s) \in Nat
    BY <1>1
  <2> QED
    BY <2>1 DEF Runner!IsSeq
<1>2. CASE rows \in {SubSeq(all, 1, n) : n \in 0 .. Len(all) - 1}
  <2>1. PICK n \in 0 .. Len(all) - 1 : rows = SubSeq(all, 1, n)
    BY <1>2
  <2>2. rows \in Seq(V)
    BY <1>0, <2>1
  <2> QED
    BY <1>1, <2>2, RowsParsed
<1>3. CASE rows \in {Runner!RemoveAt(all, i) : i \in DOMAIN all}
  <2>1. PICK i \in DOMAIN all : rows = SubSeq(all, 1, i - 1) \o SubSeq(all, i + 1, Len(all))
    BY <1>3 DEF Runner!RemoveAt
  <2>0. all \in Seq(V) /\ i \in 1 .. Len(all) /\ Len(all) \in Nat
    BY <1>0, <2>1
  <2>a. SubSeq(all, 1, i - 1) \in Seq(V)
    BY <2>0
  <2>b. SubSeq(all, i + 1, Len(all)) \in Seq(V)
    BY <2>0
  <2>2. SubSeq(all, 1, i - 1) \in Seq(V) /\ SubSeq(all, i + 1, Len(all)) \in Seq(V)
    BY <2>a, <2>b
  <2>3. rows \in Seq(V)
    BY <2>1, <2>2
  <2> QED
    BY <1>1, <2>3, RowsParsed
<1>4. CASE rows \in UNION {{[all EXCEPT ![i] = Runner!RemoveAt(@, c)] : c \in DOMAIN all[i]} : i \in DOMAIN all}
  <2>1. PICK i \in DOMAIN all : rows \in {[all EXCEPT ![i] = Runner!RemoveAt(@, c)] : c \in DOMAIN all[i]}
    BY <1>4
  <2>2. PICK c \in DOMAIN all[i] : rows = [all EXCEPT ![i] = Runner!RemoveAt(all[i], c)]
    BY <2>1
  <2> DEFINE x == Runner!RemoveAt(all[i], c)
  <2> HIDE DEF x
  <2>3. rows = [all EXCEPT ![i] = x] /\ all \in Seq(V \cup {x}) /\ i \in 1 .. Len(all)
    BY <1>0, <2>2 DEF x
  <2>4. rows \in Seq(V \cup {x})
    BY <2>3
  <2> QED
    BY <1>1, <2>4, RowsParsed
<1>5. rows \in {SubSeq(all, 1, n) : n \in 0 .. Len(all) - 1} \cup {Runner!RemoveAt(all, i) : i \in DOMAIN all}
        \cup UNION {{[all EXCEPT ![i] = Runner!RemoveAt(@, c)] : c \in DOMAIN all[i]} : i \in DOMAIN all}
  BY DEF Runner!Lossy
<1> QED
  BY <1>2, <1>3, <1>4, <1>5

LEMMA RunnerInitially ==
  ASSUME Runner!ScriptsAssumption, Runner!RunnerInit
  PROVE  RunnerInv
<1>0. /\ script \in Scripts /\ at = 0 /\ end = 0 /\ phase = "between" /\ all_ok = TRUE /\ scarce = FALSE
      /\ ran = <<>> /\ snapshot = Runner!NoTable /\ actual = Runner!NoTable
  BY DEF Runner!RunnerInit
<1>1. BuffersFit
  <2>1. Runner!IsSeq(<<>>) /\ Len(<<>>) = 0
    BY DEF Runner!IsSeq
  <2>2. Runner!NoTable \in [rows : {<<>>}, capacity : Nat, present : BOOLEAN, skip : BOOLEAN]
        /\ Runner!NoTable.rows = <<>> /\ Runner!NoTable.capacity = 0
    BY DEF Runner!NoTable
  <2> QED
    BY <1>0, <2>1, <2>2 DEF BuffersFit, Buffer
<1>2. RunnerPlace
  <2>1. Len(script) \in Nat
    BY <1>0, ScriptShape
  <2>2. at \in 0 .. Len(script) /\ end \in at .. Len(script) /\ ~(end > 0) /\ ~(at > 0)
    BY <1>0, <2>1
  <2> QED
    BY <1>0, <2>2 DEF RunnerPlace
<1>3. Passed(at) = {}
  BY <1>0, DueLines DEF Passed
<1>4. RanAre({})
  BY <1>0 DEF RanAre, InOrder, Runner!IsSeq, Runner!ToSet
<1>5. (Runner!OneSpelling => NoMarks) /\ WentWell({})
  BY <1>0 DEF NoMarks, WentWell
<1> QED
  BY <1>0, <1>1, <1>2, <1>3, <1>4, <1>5 DEF RunnerInv, RunnerBusy

\* What runs next stands behind what has run before.
LEMMA RanAppended ==
  ASSUME Runner!IsSeq(ran), InOrder(ran), NEW b, \A a \in Runner!ToSet(ran) : a < b,
         ran' = Append(ran, b)
  PROVE  Runner!IsSeq(ran') /\ InOrder(ran') /\ Runner!ToSet(ran') = Runner!ToSet(ran) \cup {b}
<1>1. /\ Runner!IsSeq(ran') /\ Len(ran) \in Nat
      /\ DOMAIN ran = 1 .. Len(ran) /\ DOMAIN ran' = 1 .. Len(ran) + 1
      /\ ran'[Len(ran) + 1] = b /\ \A i \in 1 .. Len(ran) : ran'[i] = ran[i]
  BY Appended
<1>2. \A i \in DOMAIN ran' : i \in 1 .. Len(ran) \/ i = Len(ran) + 1
  BY <1>1
<1>3. \A i \in 1 .. Len(ran) : ran[i] < b
  BY <1>1 DEF Runner!ToSet
<1>4. InOrder(ran')
  <2> SUFFICES ASSUME NEW i \in DOMAIN ran', NEW j \in DOMAIN ran', i < j PROVE ran'[i] < ran'[j]
    BY DEF InOrder
  <2>1. i \in 1 .. Len(ran)
    BY <1>1, <1>2
  <2>2. CASE j \in 1 .. Len(ran)
    BY <1>1, <2>1, <2>2 DEF InOrder
  <2>3. CASE j = Len(ran) + 1
    BY <1>1, <1>3, <2>1, <2>3
  <2> QED
    BY <1>2, <2>2, <2>3
<1>5. Runner!ToSet(ran') = Runner!ToSet(ran) \cup {b}
  BY <1>1, <1>2 DEF Runner!ToSet
<1> QED
  BY <1>1, <1>4, <1>5

\* The statements, and what is good of them, are those of the script.
LEMMA SameScript ==
  ASSUME script' = script
  PROVE  /\ Runner!Statements' = Runner!Statements /\ Due' = Due /\ FirstCell' = FirstCell
         /\ Runner!OneSpelling' = Runner!OneSpelling
         /\ \A i : /\ Runner!IsMark(i)' = Runner!IsMark(i) /\ Runner!Good(i)' = Runner!Good(i)
                   /\ Runner!Passes(i)' = Runner!Passes(i) /\ Passed(i)' = Passed(i)
<1>1. ASSUME NEW i PROVE Runner!IsMark(i)' = Runner!IsMark(i)
  BY DEF Runner!IsMark
<1>2. Runner!Statements' = Runner!Statements /\ Runner!OneSpelling' = Runner!OneSpelling
  BY DEF Runner!Statements, Runner!OneSpelling, Runner!IsMark
<1>3. FirstCell' = FirstCell
  BY DEF FirstCell, Runner!NextMark, Runner!Marks, Runner!IsMark
<1>4. Due' = Due
  BY <1>2, <1>3 DEF Due
<1>5. ASSUME NEW i PROVE Runner!Good(i)' = Runner!Good(i) /\ Runner!RowsRight(i)' = Runner!RowsRight(i)
  BY DEF Runner!Good, Runner!RowsRight, Runner!Matches
<1>6. ASSUME NEW i PROVE Runner!Passes(i)' = Runner!Passes(i)
  BY <1>5 DEF Runner!Passes, Runner!Overlooked, Runner!IsMark
<1>7. ASSUME NEW i PROVE Passed(i)' = Passed(i)
  BY <1>4 DEF Passed
<1> QED
  BY <1>1, <1>2, <1>3, <1>4, <1>5, <1>6, <1>7

\* What is done no second time, while nothing has failed, is all in front, and so well done.
LEMMA BusyHonest ==
  ASSUME Runner!ScriptsAssumption, RunnerInv, phase # "done"
  PROVE  /\ Runner!OneSpelling =>
              \A a \in Runner!ToSet(ran), b \in Runner!Statements :
                b < a => b \in Runner!ToSet(ran) /\ (Runner!Passes(b) \/ scarce)
         /\ InOrder(ran) /\ Runner!ToSet(ran) \subseteq Runner!Statements
         /\ Runner!ToSet(ran) = Passed(at) /\ Runner!IsSeq(ran)
<1>0. RanAre(Passed(at)) /\ RunnerPlace /\ script \in Scripts
  BY DEF RunnerInv, RunnerBusy
<1>1. Due \subseteq 1 .. Len(script) /\ \A i \in Due : i \in Runner!Statements /\ i \in Nat
  BY <1>0, DueLines
<1>2. at \in Nat
  BY <1>0, ScriptShape DEF RunnerPlace
<1>3. ASSUME Runner!OneSpelling, NEW a \in Passed(at), NEW b \in Runner!Statements, b < a
      PROVE  b \in Passed(at) /\ (Runner!Passes(b) \/ scarce)
  <2>1. b \in Due /\ b \in Nat /\ a \in Nat /\ a <= at
    BY <1>0, <1>1, <1>3, FirstIs DEF Passed
  <2>2. b \in Passed(at) /\ b \in Passed(at - 1)
    BY <1>2, <1>3, <2>1 DEF Passed
  <2> QED
    BY <1>3, <2>2 DEF RunnerInv, RunnerBusy, WentWell
<1> QED
  BY <1>0, <1>1, <1>3 DEF RanAre, Passed

\* Where the runner stops with false, nothing ran that should not have, and something is
\* wrong or memory was lacking.
LEMMA RunnerFails ==
  ASSUME Runner!ScriptsAssumption, RunnerInv, phase # "done", script' = script, scarce => scarce',
         phase' = "done", all_ok' = FALSE,
         \/ ran' = ran
         \/ phase = "cell" /\ at < end /\ ~Runner!IsMark(at + 1) /\ ran' = Append(ran, at + 1),
         Runner!OneSpelling => scarce' \/ \E b \in Runner!Statements : ~Runner!Passes(b)
  PROVE  Runner!RunnerHonest'
<1>0. RunnerPlace /\ script \in Scripts
  BY DEF RunnerInv, RunnerBusy
<1>1. /\ Runner!Statements' = Runner!Statements /\ Runner!OneSpelling' = Runner!OneSpelling
      /\ \A i : Runner!Passes(i)' = Runner!Passes(i)
  BY SameScript
<1>2. /\ Runner!OneSpelling =>
           \A a \in Runner!ToSet(ran), b \in Runner!Statements :
             b < a => b \in Runner!ToSet(ran) /\ (Runner!Passes(b) \/ scarce)
      /\ InOrder(ran) /\ Runner!ToSet(ran) \subseteq Runner!Statements
      /\ Runner!ToSet(ran) = Passed(at) /\ Runner!IsSeq(ran)
  BY BusyHonest
<1>3. /\ Runner!OneSpelling =>
           \A a \in Runner!ToSet(ran'), b \in Runner!Statements :
             b < a => b \in Runner!ToSet(ran') /\ (Runner!Passes(b) \/ scarce')
      /\ InOrder(ran') /\ Runner!ToSet(ran') \subseteq Runner!Statements
  <2>1. CASE ran' = ran
    BY <1>2, <2>1
  <2>2. CASE phase = "cell" /\ at < end /\ ~Runner!IsMark(at + 1) /\ ran' = Append(ran, at + 1)
    <3>1. at + 1 \in Runner!Statements /\ at \in Nat /\ \A b \in Passed(at) : b \in Nat /\ b < at + 1
      BY <1>0, <2>2, PassedNext
    <3>2. Runner!ToSet(ran') = Runner!ToSet(ran) \cup {at + 1} /\ InOrder(ran')
      BY <1>2, <2>2, <3>1, RanAppended
    <3>3. ASSUME Runner!OneSpelling, NEW b \in Runner!Statements, b < at + 1
          PROVE  b \in Passed(at) /\ (Runner!Passes(b) \/ scarce)
      <4>1. b \in Due /\ b \in Nat
        BY <1>0, <3>3, FirstIs, DueLines
      <4>2. b \in Passed(at)
        BY <3>1, <3>3, <4>1 DEF Passed
      <4> QED
        BY <2>2, <3>3, <4>2 DEF RunnerInv, RunnerBusy, WentWell
    <3> QED
      BY <1>2, <3>1, <3>2, <3>3
  <2> QED
    BY <2>1, <2>2
<1>4. Runner!OneSpelling /\ ~scarce' => \E b \in Runner!Statements : ~Runner!Passes(b)
  OBVIOUS
<1>5. Runner!ToSet(ran)' = Runner!ToSet(ran')
  BY DEF Runner!ToSet
<1>6. /\ Runner!ToSet(ran)' \subseteq Runner!Statements'
      /\ (\A i, j \in DOMAIN ran : i < j => ran[i] < ran[j])'
  BY <1>1, <1>3, <1>5 DEF InOrder
<1> QED
  BY <1>1, <1>3, <1>4, <1>5, <1>6 DEF Runner!RunnerHonest

\* In a script of one spelling, a query passes if the runner skips its snapshot, or finds the
\* one it has and that is right, or needs none.
LEMMA QueryPasses ==
  ASSUME Runner!ScriptsAssumption, script \in Scripts, Runner!OneSpelling,
         NEW i \in 1 .. Len(script), end \in i .. Len(script), script[i].kind = "query",
         \A m \in i + 1 .. end : ~Runner!IsMark(m), end < Len(script) => Runner!IsMark(end + 1)
  PROVE  /\ Runner!Passes(i) <=>
              Runner!SkipAhead(i) \/
                IF script[i].snapshot = None THEN ~Required
                ELSE Runner!Matches(script[i].snapshot, script[i].gives)
         /\ Runner!HasSnapshot(i) <=> script[i].snapshot # None
<1>0. /\ Len(script) \in Nat /\ DOMAIN script = 1 .. Len(script)
      /\ \A j \in 1 .. Len(script) : Runner!LineFits(script[j])
  BY ScriptShape
<1>1. ~Runner!IsMark(i) /\ i \in Nat /\ end \in Nat
  BY <1>0 DEF Runner!IsMark
<1>2. (\E j \in i .. Len(script) : (\A m \in i .. j : ~Runner!IsMark(m)) /\ script[j].skip) <=> Runner!SkipAhead(i)
  <2>1. ASSUME NEW j \in i .. Len(script), \A m \in i .. j : ~Runner!IsMark(m), script[j].skip
        PROVE  Runner!SkipAhead(i)
    <3>1. j <= end
      BY <1>0, <1>1, <2>1
    <3>2. j \in i .. end /\ ~Runner!IsMark(j)
      BY <1>0, <1>1, <2>1, <3>1
    <3> QED
      BY <2>1, <3>2 DEF Runner!SkipAhead
  <2>2. ASSUME NEW j \in i .. end, ~Runner!IsMark(j), script[j].skip
        PROVE  j \in i .. Len(script) /\ \A m \in i .. j : ~Runner!IsMark(m)
    BY <1>0, <1>1, <2>2
  <2> QED
    BY <2>1, <2>2 DEF Runner!SkipAhead
<1>3. script[i].skip => Runner!SkipAhead(i)
  BY <1>1 DEF Runner!SkipAhead
<1>4. Runner!HasSnapshot(i) <=> script[i].snapshot # None
  <2>1. \A j \in i .. end : ~Runner!IsMark(j) /\ script[j].snapshot # None /\ script[i].snapshot # None
          => script[j].spaced = script[i].spaced
    BY <1>0, <1>1 DEF Runner!OneSpelling
  <2> QED
    BY <2>1 DEF Runner!HasSnapshot
<1>5. Runner!Passes(i) <=>
        Runner!RowsRight(i) \/ \E j \in i .. Len(script) : (\A m \in i .. j : ~Runner!IsMark(m)) /\ script[j].skip
  BY DEF Runner!Passes, Runner!Overlooked, Runner!Good
<1>6. script[i].skip \in BOOLEAN
  BY <1>0, <1>1 DEF Runner!LineFits, Runner!IsMark
<1> QED
  BY <1>2, <1>3, <1>4, <1>5, <1>6 DEF Runner!RowsRight

LEMMA FindCellStep ==
  ASSUME Runner!ScriptsAssumption, RunnerInv, Runner!FindCell
  PROVE  RunnerInv'
<1>0. /\ phase = "between" /\ at < Len(script) /\ at' = Runner!CellMark
      /\ end' = Runner!NextMark(Runner!CellMark + 2) - 1
      /\ script' = script /\ ran' = ran /\ snapshot' = snapshot /\ actual' = actual
      /\ RunnerBusy /\ RunnerPlace /\ BuffersFit /\ script \in Scripts
  BY DEF RunnerInv, RunnerBusy, Runner!FindCell
<1>1. /\ at' \in 0 .. Len(script) /\ FirstCell <= at' /\ Passed(at') = Passed(at)
      /\ end' \in at' .. Len(script) /\ end' > 0 /\ (end' < Len(script) => Runner!IsMark(end' + 1))
      /\ Runner!OneSpelling => \A m \in at' + 2 .. end' : ~Runner!IsMark(m)
  BY <1>0, PassedCell
<1>2. BuffersFit'
  BY <1>0 DEF BuffersFit, Buffer
<1>3. CASE phase' = "cell" /\ UNCHANGED <<all_ok, scarce>>
  <2>1. RunnerPlace'
    BY <1>0, <1>1, <1>3, SameScript DEF RunnerPlace
  <2>2. RanAre(Passed(at)) /\ WentWell(Passed(at))
    BY <1>0 DEF RunnerBusy
  <2>3. Passed(at)' = Passed(at)
    BY <1>0, <1>1, SameScript DEF Passed
  <2>4. RanAre(Passed(at))'
    BY <1>0, <2>2, <2>3 DEF RanAre, InOrder, Runner!ToSet, Runner!IsSeq
  <2>5. WentWell(Passed(at))'
    BY <1>0, <1>3, <2>2, <2>3, SameScript DEF WentWell
  <2>6. (Runner!OneSpelling => NoMarks)'
    BY <1>0, <1>1, <1>3, SameScript DEF NoMarks
  <2> QED
    BY <1>0, <1>2, <1>3, <2>1, <2>4, <2>5, <2>6 DEF RunnerInv, RunnerBusy
<1>4. CASE phase' = "done" /\ all_ok' = FALSE /\ scarce' = TRUE
  <2>1. Runner!RunnerHonest'
    BY <1>0, <1>4, RunnerFails
  <2> QED
    BY <1>0, <1>2, <1>4, <2>1 DEF RunnerInv
<1> QED
  BY <1>3, <1>4 DEF Runner!FindCell, Runner!Fails

LEMMA RunFinishes ==
  ASSUME Runner!ScriptsAssumption, RunnerInv, Runner!Finish
  PROVE  RunnerInv'
<1>0. /\ phase = "between" /\ phase' = "done" /\ at = Len(script) /\ script' = script /\ ran' = ran
      /\ scarce' = scarce /\ snapshot' = snapshot /\ actual' = actual /\ all_ok' = TRUE
      /\ RunnerBusy /\ RunnerPlace /\ BuffersFit /\ script \in Scripts
  BY DEF RunnerInv, RunnerBusy, RunnerPlace, Runner!Finish
<1>1. Passed(at) = Due /\ (Runner!OneSpelling => Due = Runner!Statements)
  BY <1>0, PassedCell, FirstIs
<1>2. WentWell(Due) /\ RanAre(Due)
  BY <1>0, <1>1 DEF RunnerBusy
<1>3. \A b \in Runner!ToSet(ran) : script[b].kind # "query" => Runner!Good(b)
  BY <1>2 DEF WentWell, RanAre
<1>4. Runner!OneSpelling => \A b \in Runner!Statements : Runner!Passes(b) \/ scarce
  BY <1>1, <1>2 DEF WentWell
<1>5. Runner!ToSet(ran)' = Runner!ToSet(ran) /\ Runner!ToSet(ran) = Due
  BY <1>0, <1>2 DEF Runner!ToSet, RanAre
<1>6. /\ Runner!ToSet(ran) \subseteq Runner!Statements /\ InOrder(ran)
      /\ Runner!OneSpelling =>
           \A a \in Runner!ToSet(ran), b \in Runner!Statements :
             b < a => b \in Runner!ToSet(ran) /\ (Runner!Passes(b) \/ scarce)
  BY <1>0, BusyHonest
<1>7. /\ Runner!ToSet(ran)' \subseteq Runner!Statements'
      /\ (\A i, j \in DOMAIN ran : i < j => ran[i] < ran[j])'
      /\ (\A b \in Runner!ToSet(ran) : script[b].kind # "query" => Runner!Good(b))'
  BY <1>0, <1>3, <1>5, <1>6, SameScript DEF InOrder
<1>8. Runner!RunnerHonest'
  BY <1>0, <1>1, <1>4, <1>5, <1>6, <1>7, SameScript DEF Runner!RunnerHonest
<1>9. BuffersFit'
  BY <1>0 DEF BuffersFit, Buffer
<1> QED
  BY <1>0, <1>8, <1>9 DEF RunnerInv

LEMMA EndCellStep ==
  ASSUME Runner!ScriptsAssumption, RunnerInv, Runner!EndCell
  PROVE  RunnerInv'
<1>0. /\ phase = "cell" /\ phase' = "between" /\ at = end
      /\ UNCHANGED <<script, at, end, stepped, snapshot, actual, all_ok, ran, scarce>>
      /\ RunnerBusy /\ RunnerPlace /\ BuffersFit /\ script \in Scripts
  BY DEF RunnerInv, RunnerBusy, Runner!EndCell
<1>1. RunnerPlace' /\ BuffersFit'
  BY <1>0, SameScript DEF RunnerPlace, BuffersFit, Buffer
<1>2. RanAre(Passed(at)) /\ WentWell(Passed(at))
  BY <1>0 DEF RunnerBusy
<1>3. RanAre(Passed(at))' /\ WentWell(Passed(at))'
  BY <1>0, <1>2, SameScript DEF RanAre, WentWell, Passed, InOrder, Runner!ToSet, Runner!IsSeq
<1> QED
  BY <1>0, <1>1, <1>3 DEF RunnerInv, RunnerBusy, NoMarks

\* The line that comes next, and its place.
LEMMA MeetsPlace ==
  ASSUME Runner!ScriptsAssumption, RunnerInv, NEW kind, Runner!Meets(kind), script' = script, end' = end
  PROVE  /\ RunnerPlace /\ BuffersFit /\ script \in Scripts /\ phase = "cell" /\ at \in Nat /\ end \in Nat
         /\ at' = at + 1 /\ at < end /\ all_ok = TRUE /\ end <= Len(script) /\ Len(script) \in Nat
         /\ at + 1 \in 1 .. Len(script) /\ script[at + 1].kind = kind /\ Runner!LineFits(script[at + 1])
         /\ Runner!IsMark(at + 1) <=> kind = "mark"
         /\ RanAre(Passed(at)) /\ WentWell(Passed(at)) /\ (end < Len(script) => Runner!IsMark(end + 1))
         /\ Runner!OneSpelling => \A m \in at + 2 .. end : ~Runner!IsMark(m)
         /\ kind = "mark" => Passed(at)' = Passed(at)
         /\ kind # "mark" =>
              /\ Passed(at)' = Passed(at) \cup {at + 1} /\ at + 1 \in Due /\ at + 1 \in Runner!Statements
              /\ \A b \in Passed(at) : b \in Nat /\ b < at + 1
<1>1. /\ RunnerPlace /\ BuffersFit /\ script \in Scripts /\ phase = "cell" /\ at' = at + 1 /\ at < end
      /\ RanAre(Passed(at)) /\ WentWell(Passed(at)) /\ script[at + 1].kind = kind
      /\ Runner!OneSpelling => \A m \in at + 2 .. end : ~Runner!IsMark(m)
  BY DEF RunnerInv, RunnerBusy, NoMarks, Runner!Meets
<1>2. /\ at \in Nat /\ end \in Nat /\ end <= Len(script) /\ Len(script) \in Nat /\ all_ok = TRUE
      /\ at + 1 \in 1 .. Len(script) /\ Runner!LineFits(script[at + 1])
      /\ (end < Len(script) => Runner!IsMark(end + 1))
  BY <1>1, ScriptShape DEF RunnerPlace
<1>3. Runner!IsMark(at + 1) <=> kind = "mark"
  BY <1>1 DEF Runner!IsMark
<1>4. Passed(at)' = Passed(at + 1)
  BY <1>1, SameScript DEF Passed
<1> QED
  BY <1>1, <1>2, <1>3, <1>4, PassedNext

LEMMA SkipMarkStep ==
  ASSUME Runner!ScriptsAssumption, RunnerInv, Runner!SkipMark
  PROVE  RunnerInv'
<1>1. Runner!Meets("mark") /\ UNCHANGED <<script, end, phase, stepped, snapshot, actual, all_ok, ran, scarce>>
  BY DEF Runner!SkipMark
<1>2. /\ RunnerPlace /\ BuffersFit /\ script \in Scripts /\ phase = "cell" /\ at \in Nat /\ end \in Nat
      /\ at' = at + 1 /\ at < end /\ end <= Len(script) /\ Len(script) \in Nat
      /\ RanAre(Passed(at)) /\ WentWell(Passed(at)) /\ Passed(at)' = Passed(at)
      /\ Runner!OneSpelling => \A m \in at + 2 .. end : ~Runner!IsMark(m)
  BY <1>1, MeetsPlace
<1>3. RunnerPlace'
  <2>1. at' \in 0 .. Len(script)' /\ end' \in at' .. Len(script)'
    BY <1>1, <1>2
  <2>2. FirstCell <= at /\ FirstCell \in Nat
    BY <1>2, FirstIs DEF RunnerPlace
  <2>3. FirstCell <= at'
    BY <1>2, <2>2
  <2> QED
    BY <1>1, <1>2, <2>1, <2>3, SameScript DEF RunnerPlace
<1>4. RanAre(Passed(at))'
  BY <1>1, <1>2 DEF RanAre, InOrder, Runner!ToSet, Runner!IsSeq
<1>5. WentWell(Passed(at))'
  BY <1>1, <1>2, SameScript DEF WentWell
<1>6. (Runner!OneSpelling => NoMarks)' /\ BuffersFit'
  BY <1>1, <1>2, SameScript DEF NoMarks, BuffersFit, Buffer
<1> QED
  BY <1>1, <1>2, <1>3, <1>4, <1>5, <1>6 DEF RunnerInv, RunnerBusy

LEMMA PrepareFailsStep ==
  ASSUME Runner!ScriptsAssumption, RunnerInv, Runner!PrepareFails
  PROVE  RunnerInv'
<1>1. Runner!Meets("broken") /\ Runner!Fails /\ UNCHANGED <<script, end, stepped, snapshot, actual, ran, scarce>>
  BY DEF Runner!PrepareFails
<1>k. "broken" # "mark"
  OBVIOUS
<1>2. /\ script \in Scripts /\ phase = "cell" /\ BuffersFit /\ script[at + 1].kind = "broken"
      /\ at + 1 \in Runner!Statements
  BY <1>1, <1>k, MeetsPlace
<1>3. ~Runner!Passes(at + 1)
  BY <1>2 DEF Runner!Passes, Runner!Good, Runner!Overlooked
<1>4. \E b \in Runner!Statements : ~Runner!Passes(b)
  BY <1>2, <1>3
<1>5. Runner!RunnerHonest'
  BY <1>1, <1>2, <1>4, RunnerFails DEF Runner!Fails
<1> QED
  BY <1>1, <1>2, <1>5 DEF RunnerInv, BuffersFit, Buffer, Runner!Fails

\* The place behind a statement.
LEMMA NextPlace ==
  ASSUME Runner!ScriptsAssumption, RunnerInv, NEW kind, Runner!Meets(kind), script' = script, end' = end,
         phase' \in {"cell", "query"}, all_ok' = TRUE, scarce' \in BOOLEAN
  PROVE  RunnerPlace' /\ (Runner!OneSpelling => NoMarks)'
<1>1. /\ RunnerPlace /\ script \in Scripts /\ phase = "cell" /\ at \in Nat /\ end \in Nat
      /\ at' = at + 1 /\ at < end /\ end <= Len(script) /\ Len(script) \in Nat
      /\ Runner!OneSpelling => \A m \in at + 2 .. end : ~Runner!IsMark(m)
  BY MeetsPlace
<1>2. at' \in 0 .. Len(script)' /\ end' \in at' .. Len(script)'
  BY <1>1
<1>3. FirstCell <= at /\ FirstCell \in Nat
  BY <1>1, FirstIs DEF RunnerPlace
<1>4. FirstCell <= at'
  BY <1>1, <1>3
<1>5. RunnerPlace'
  BY <1>1, <1>2, <1>4, SameScript DEF RunnerPlace
<1>6. (Runner!OneSpelling => NoMarks)'
  <2> SUFFICES ASSUME Runner!OneSpelling PROVE NoMarks'
    BY SameScript
  <2>1. \A m \in at' + 1 .. end' : m \in at + 2 .. end
    BY <1>1
  <2>2. \A m \in at' + 2 .. end' : m \in at + 2 .. end
    BY <1>1
  <2>3. \A m \in at + 2 .. end : ~Runner!IsMark(m)'
    BY <1>1, SameScript
  <2> QED
    BY <2>1, <2>2, <2>3 DEF NoMarks
<1> QED
  BY <1>5, <1>6

\* A statement that has run stands behind those that have run before.
LEMMA OneMore ==
  ASSUME Runner!ScriptsAssumption, RunnerInv, NEW kind, kind # "mark", Runner!Meets(kind),
         script' = script, end' = end, ran' = Append(ran, at + 1)
  PROVE  RanAre(Passed(at))'
<1>1. /\ Passed(at)' = Passed(at) \cup {at + 1} /\ RanAre(Passed(at))
      /\ \A b \in Passed(at) : b \in Nat /\ b < at + 1
  BY MeetsPlace
<1>2. Runner!IsSeq(ran') /\ InOrder(ran') /\ Runner!ToSet(ran') = Runner!ToSet(ran) \cup {at + 1}
  BY <1>1, RanAppended DEF RanAre
<1> QED
  BY <1>1, <1>2 DEF RanAre, InOrder, Runner!ToSet, Runner!IsSeq

LEMMA RunStatementStep ==
  ASSUME Runner!ScriptsAssumption, RunnerInv, Runner!RunStatement
  PROVE  RunnerInv'
<1>1. /\ Runner!Meets("change") /\ ran' = Append(ran, at + 1)
      /\ UNCHANGED <<script, end, stepped, snapshot, actual, scarce>>
  BY DEF Runner!RunStatement
<1>k. "change" # "mark"
  OBVIOUS
<1>2. /\ RunnerPlace /\ script \in Scripts /\ phase = "cell" /\ BuffersFit /\ at < end /\ all_ok = TRUE
      /\ script[at + 1].kind = "change" /\ ~Runner!IsMark(at + 1) /\ at + 1 \in Runner!Statements
      /\ Passed(at)' = Passed(at) \cup {at + 1} /\ WentWell(Passed(at))
  BY <1>1, <1>k, MeetsPlace
<1>3. BuffersFit'
  BY <1>1, <1>2 DEF BuffersFit, Buffer
<1>4. CASE script[at + 1].fails
  <2>1. Runner!Fails
    BY <1>4 DEF Runner!RunStatement
  <2>2. ~Runner!Passes(at + 1)
    BY <1>2, <1>4 DEF Runner!Passes, Runner!Good, Runner!Overlooked
  <2>3. \E b \in Runner!Statements : ~Runner!Passes(b)
    BY <1>2, <2>2
  <2>4. Runner!RunnerHonest'
    BY <1>1, <1>2, <2>1, <2>3, RunnerFails DEF Runner!Fails
  <2> QED
    BY <1>1, <1>2, <1>3, <2>1, <2>4 DEF RunnerInv, Runner!Fails
<1>5. CASE ~script[at + 1].fails
  <2>1. phase' = phase /\ all_ok' = all_ok
    BY <1>5 DEF Runner!RunStatement
  <2>2. RunnerPlace' /\ (Runner!OneSpelling => NoMarks)'
    BY <1>1, <1>2, <2>1, NextPlace DEF RunnerPlace
  <2>3. Runner!Good(at + 1) /\ Runner!Passes(at + 1)
    BY <1>2, <1>5 DEF Runner!Passes, Runner!Good
  <2>4. WentWell(Passed(at))'
    BY <1>1, <1>2, <2>3, SameScript DEF WentWell
  <2>5. RanAre(Passed(at))'
    BY <1>1, OneMore
  <2> QED
    BY <1>1, <1>2, <1>3, <2>1, <2>2, <2>4, <2>5 DEF RunnerInv, RunnerBusy
<1> QED
  BY <1>4, <1>5

\* What the comments behind a query give.
LEMMA SnapshotGiven ==
  ASSUME Runner!ScriptsAssumption, RunnerInv, Runner!Meets("query"), script' = script, end' = end,
         Runner!ParseSnapshotBlock(at + 1, snapshot')
  PROVE  /\ Buffer(snapshot', Len(snapshot'.rows)) /\ scarce' \in BOOLEAN /\ (scarce => scarce')
         /\ Runner!SkipAhead(at + 1) => snapshot'.present /\ snapshot'.skip
         /\ ~Runner!SkipAhead(at + 1) /\ ~Runner!HasSnapshot(at + 1) => ~snapshot'.present
         /\ ~Runner!SkipAhead(at + 1) /\ Runner!HasSnapshot(at + 1) =>
              snapshot'.present /\ ~snapshot'.skip /\ (~scarce' => snapshot'.rows = script[at + 1].snapshot)
<1> DEFINE text == script[at + 1].snapshot
<1>0. Runner!LineFits(script[at + 1]) /\ script[at + 1].kind = "query" /\ scarce \in BOOLEAN /\ FirstRoom \in Nat \ {0}
  BY MeetsPlace DEF RunnerPlace, Runner!ScriptsAssumption
<1>1. Runner!IsSeq(<<>>) /\ Len(<<>>) = 0
  BY DEF Runner!IsSeq
<1>2. CASE Runner!SkipAhead(at + 1)
  <2>1. snapshot' = [Runner!NoTable EXCEPT !.present = TRUE, !.skip = TRUE] /\ scarce' = scarce
    BY <1>2 DEF Runner!ParseSnapshotBlock
  <2>2. /\ snapshot' \in [rows : {<<>>}, capacity : Nat, present : BOOLEAN, skip : BOOLEAN]
        /\ snapshot'.rows = <<>> /\ snapshot'.capacity = 0 /\ snapshot'.present /\ snapshot'.skip
    BY <2>1 DEF Runner!NoTable
  <2> QED
    BY <1>0, <1>1, <1>2, <2>1, <2>2 DEF Buffer
<1>3. CASE ~Runner!SkipAhead(at + 1) /\ ~Runner!HasSnapshot(at + 1)
  <2>1. snapshot' = Runner!NoTable /\ scarce' = scarce
    BY <1>3 DEF Runner!ParseSnapshotBlock
  <2>2. /\ snapshot' \in [rows : {<<>>}, capacity : Nat, present : BOOLEAN, skip : BOOLEAN]
        /\ snapshot'.rows = <<>> /\ snapshot'.capacity = 0 /\ ~snapshot'.present
    BY <2>1 DEF Runner!NoTable
  <2> QED
    BY <1>0, <1>1, <1>3, <2>1, <2>2 DEF Buffer
<1>4. CASE ~Runner!SkipAhead(at + 1) /\ Runner!HasSnapshot(at + 1)
  <2>1. \/ snapshot' = Runner!Parsed(text) /\ scarce' = scarce
        \/ scarce' = TRUE /\ \E rows \in Runner!Lossy(text) : snapshot' = Runner!Parsed(rows)
    BY <1>4 DEF Runner!ParseSnapshotBlock
  <2>2. Runner!IsSeq(text)
    BY <1>0, <1>4 DEF Runner!LineFits, Runner!HasSnapshot
  <2>3. CASE snapshot' = Runner!Parsed(text) /\ scarce' = scarce
    <3>1. Buffer(snapshot', Len(text)) /\ snapshot'.rows = text /\ snapshot'.present /\ ~snapshot'.skip
      BY <1>0, <2>2, <2>3, RowsParsed
    <3> QED
      BY <1>0, <1>4, <2>3, <3>1
  <2>4. CASE scarce' = TRUE /\ \E rows \in Runner!Lossy(text) : snapshot' = Runner!Parsed(rows)
    <3>1. PICK rows \in Runner!Lossy(text) : snapshot' = Runner!Parsed(rows)
      BY <2>4
    <3> HIDE DEF text
    <3>2. Buffer(snapshot', Len(snapshot'.rows)) /\ snapshot'.present /\ ~snapshot'.skip
      BY <1>0, <2>2, <3>1, LossyBuffers
    <3> QED
      BY <1>4, <2>4, <3>2 DEF text
  <2> QED
    BY <2>1, <2>3, <2>4
<1> QED
  BY <1>2, <1>3, <1>4

LEMMA BeginQueryStep ==
  ASSUME Runner!ScriptsAssumption, RunnerInv, Runner!BeginQuery
  PROVE  RunnerInv'
<1>1. /\ Runner!Meets("query") /\ Runner!ParseSnapshotBlock(at + 1, snapshot')
      /\ actual' = Runner!NoTable /\ stepped' = 0 /\ script' = script /\ end' = end
  BY DEF Runner!BeginQuery
<1>2. /\ Buffer(snapshot', Len(snapshot'.rows)) /\ scarce' \in BOOLEAN /\ (scarce => scarce')
      /\ Runner!SkipAhead(at + 1) => snapshot'.present /\ snapshot'.skip
      /\ ~Runner!SkipAhead(at + 1) /\ ~Runner!HasSnapshot(at + 1) => ~snapshot'.present
      /\ ~Runner!SkipAhead(at + 1) /\ Runner!HasSnapshot(at + 1) =>
           snapshot'.present /\ ~snapshot'.skip /\ (~scarce' => snapshot'.rows = script[at + 1].snapshot)
  BY <1>1, SnapshotGiven
<1>3. Buffer(actual', Len(actual'.rows)) /\ Len(actual'.rows) = 0
  <2>1. Runner!IsSeq(<<>>) /\ Len(<<>>) = 0
    BY DEF Runner!IsSeq
  <2>2. /\ actual' \in [rows : {<<>>}, capacity : Nat, present : BOOLEAN, skip : BOOLEAN]
        /\ actual'.rows = <<>> /\ actual'.capacity = 0
    BY <1>1 DEF Runner!NoTable
  <2> QED
    BY <2>1, <2>2 DEF Buffer
<1>4. BuffersFit'
  BY <1>2, <1>3 DEF BuffersFit, Buffer
<1>k. "query" # "mark"
  OBVIOUS
<1>5. /\ RunnerPlace /\ script \in Scripts /\ phase = "cell" /\ at \in Nat /\ end \in Nat /\ at' = at + 1
      /\ at < end /\ end <= Len(script) /\ Len(script) \in Nat /\ all_ok = TRUE
      /\ at + 1 \in 1 .. Len(script) /\ script[at + 1].kind = "query" /\ Runner!LineFits(script[at + 1])
      /\ ~Runner!IsMark(at + 1) /\ at + 1 \in Runner!Statements /\ at + 1 \in Due
      /\ WentWell(Passed(at)) /\ (end < Len(script) => Runner!IsMark(end + 1))
      /\ Runner!OneSpelling => \A m \in at + 2 .. end : ~Runner!IsMark(m)
  BY <1>1, <1>k, MeetsPlace
<1>6. CASE Required /\ ~snapshot'.present
  <2>1. Runner!Fails /\ ran' = ran
    BY <1>6 DEF Runner!BeginQuery
  <2>2. Runner!OneSpelling => ~Runner!Passes(at + 1)
    <3> SUFFICES ASSUME Runner!OneSpelling PROVE ~Runner!Passes(at + 1)
      OBVIOUS
    <3>1. end \in at + 1 .. Len(script) /\ \A m \in at + 1 + 1 .. end : ~Runner!IsMark(m)
      BY <1>5
    <3>2. /\ Runner!Passes(at + 1) <=>
               Runner!SkipAhead(at + 1) \/
                 IF script[at + 1].snapshot = None THEN ~Required
                 ELSE Runner!Matches(script[at + 1].snapshot, script[at + 1].gives)
          /\ Runner!HasSnapshot(at + 1) <=> script[at + 1].snapshot # None
      BY <1>5, <3>1, QueryPasses
    <3> QED
      BY <1>2, <1>6, <3>2
  <2>3. Runner!OneSpelling => \E b \in Runner!Statements : ~Runner!Passes(b)
    BY <1>5, <2>2
  <2>4. Runner!RunnerHonest'
    BY <1>1, <1>2, <1>5, <2>1, <2>3, RunnerFails DEF Runner!Fails
  <2> QED
    BY <1>1, <1>4, <1>5, <2>1, <2>4 DEF RunnerInv, Runner!Fails
<1>7. CASE ~(Required /\ ~snapshot'.present)
  <2>1. phase' = "query" /\ ran' = Append(ran, at + 1) /\ all_ok' = all_ok
    BY <1>7 DEF Runner!BeginQuery
  <2>2. RunnerPlace' /\ (Runner!OneSpelling => NoMarks)'
    BY <1>1, <1>2, <1>5, <2>1, NextPlace
  <2>3. RanAre(Passed(at))'
    BY <1>1, <2>1, OneMore
  <2>4. WentWell(Passed(at - 1))'
    <3>1. Passed(at - 1)' = Passed(at)
      <4>1. at' - 1 = at
        BY <1>5
      <4> QED
        BY <1>1, <4>1, SameScript DEF Passed
    <3> QED
      BY <1>1, <1>2, <1>5, <3>1, SameScript DEF WentWell
  <2>5. (at \in Due)' /\ (script[at].kind = "query")'
    BY <1>1, <1>5, SameScript
  <2>6. SnapshotRead'
    <3>1. /\ Runner!SkipAhead(at)' = Runner!SkipAhead(at + 1)
          /\ Runner!HasSnapshot(at)' = Runner!HasSnapshot(at + 1)
      BY <1>1, <1>5 DEF Runner!SkipAhead, Runner!HasSnapshot, Runner!IsMark
    <3>2. script[at]' = script[at + 1]
      BY <1>1, <1>5
    <3> QED
      BY <1>2, <1>7, <3>1, <3>2 DEF SnapshotRead
  <2>7. RowsTaken'
    <3>1. Runner!Given' = script[at + 1].gives
      BY <1>1, <1>5 DEF Runner!Given
    <3>2. Len(Runner!Given') \in Nat
      <4>1. Runner!IsSeq(script[at + 1].gives)
        BY <1>5 DEF Runner!LineFits
      <4> QED
        BY <3>1, <4>1, SeqShape
    <3> QED
      BY <1>1, <1>3, <3>2 DEF RowsTaken
  <2> QED
    BY <1>1, <1>4, <1>5, <2>1, <2>2, <2>3, <2>4, <2>5, <2>6, <2>7 DEF RunnerInv, RunnerBusy
<1> QED
  BY <1>6, <1>7

\* The query that is run.
LEMMA QueryPlace ==
  ASSUME Runner!ScriptsAssumption, RunnerInv, phase = "query"
  PROVE  /\ RunnerBusy /\ RunnerPlace /\ BuffersFit /\ script \in Scripts
         /\ at \in 1 .. Len(script) /\ end \in at .. Len(script) /\ at \in Nat
         /\ RanAre(Passed(at)) /\ WentWell(Passed(at - 1)) /\ script[at].kind = "query" /\ at \in Due
         /\ SnapshotRead /\ RowsTaken /\ Runner!IsSeq(Runner!Given) /\ at \in Runner!Statements
         /\ Passed(at) = Passed(at - 1) \cup {at} /\ (Runner!OneSpelling => NoMarks)
         /\ (end < Len(script) => Runner!IsMark(end + 1))
<1>1. /\ RunnerBusy /\ RunnerPlace /\ BuffersFit /\ script \in Scripts
      /\ RanAre(Passed(at)) /\ WentWell(Passed(at - 1)) /\ script[at].kind = "query" /\ at \in Due
      /\ SnapshotRead /\ RowsTaken /\ (Runner!OneSpelling => NoMarks)
  BY DEF RunnerInv, RunnerBusy
<1>2. /\ at \in 1 .. Len(script) /\ at \in Runner!Statements /\ at \in Nat
      /\ \A i \in Due : i \in Nat
  BY <1>1, DueLines
<1>3. end \in at .. Len(script) /\ end \in Nat /\ (end < Len(script) => Runner!IsMark(end + 1))
  BY <1>1, <1>2, ScriptShape DEF RunnerPlace
<1>4. Runner!IsSeq(Runner!Given)
  BY <1>1, <1>2, ScriptShape DEF Runner!LineFits, Runner!Given
<1>5. Passed(at) = Passed(at - 1) \cup {at}
  <2>1. ASSUME NEW i \in Due
        PROVE  i <= at <=> i <= at - 1 \/ i = at
    <3>1. i \in Nat
      BY <1>2
    <3> QED
      BY <1>2, <3>1
  <2> QED
    BY <1>1, <2>1 DEF Passed
<1> QED
  BY <1>1, <1>2, <1>3, <1>4, <1>5

LEMMA StepRowStep ==
  ASSUME Runner!ScriptsAssumption, RunnerInv, Runner!StepRow
  PROVE  RunnerInv'
<1>1. /\ phase = "query" /\ stepped < Len(Runner!Given) /\ stepped' = stepped + 1
      /\ UNCHANGED <<script, at, end, phase, snapshot, all_ok, ran>>
  BY DEF Runner!StepRow
<1>2. /\ Buffer(actual, Len(actual.rows)) /\ Buffer(snapshot, Len(snapshot.rows))
      /\ Runner!IsSeq(actual.rows) /\ Len(actual.rows) \in Nat /\ FirstRoom \in Nat \ {0}
      /\ scarce \in BOOLEAN /\ script \in Scripts
  BY <1>1, QueryPlace, SeqShape DEF BuffersFit, Buffer, Runner!ScriptsAssumption, RunnerPlace
<1>3. Runner!Given' = Runner!Given
  BY <1>1 DEF Runner!Given
<1>4. ASSUME scarce' \in BOOLEAN, scarce => scarce', Buffer(actual', Len(actual'.rows)), RowsTaken'
      PROVE  RunnerInv'
  <2>1. RunnerPlace'
    BY <1>1, <1>4, QueryPlace, SameScript DEF RunnerPlace
  <2>2. BuffersFit'
    BY <1>1, <1>2, <1>4 DEF BuffersFit, Buffer
  <2>3. RanAre(Passed(at))' /\ (at \in Due)' /\ (script[at].kind = "query")'
    BY <1>1, QueryPlace, SameScript DEF RanAre, Passed, InOrder, Runner!ToSet, Runner!IsSeq
  <2>4. WentWell(Passed(at - 1))'
    <3>1. Passed(at - 1)' = Passed(at - 1)
      BY <1>1, SameScript DEF Passed
    <3> QED
      BY <1>1, <1>4, <3>1, QueryPlace, SameScript DEF WentWell
  <2>5. Runner!SkipAhead(at)' = Runner!SkipAhead(at) /\ Runner!HasSnapshot(at)' = Runner!HasSnapshot(at)
    BY <1>1 DEF Runner!SkipAhead, Runner!HasSnapshot, Runner!IsMark
  <2>6. SnapshotRead'
    BY <1>1, <1>4, <2>5, QueryPlace DEF SnapshotRead
  <2>7. (Runner!OneSpelling => NoMarks)'
    BY <1>1, QueryPlace, SameScript DEF NoMarks
  <2> QED
    BY <1>1, <1>2, <1>4, <2>1, <2>2, <2>3, <2>4, <2>6, <2>7 DEF RunnerInv, RunnerBusy
<1>5. stepped \in 0 .. Len(Runner!Given) /\ Len(Runner!Given) \in Nat /\ stepped' \in 0 .. Len(Runner!Given)
  BY <1>1, QueryPlace, SeqShape DEF RowsTaken
<1>6. CASE actual' = Runner!AddRow(actual, Runner!Given[stepped + 1]) /\ scarce' = scarce
  <2> DEFINE row == Runner!Given[stepped + 1]
  <2>1. Buffer(actual', Len(actual.rows) + 1) /\ actual'.rows = Append(actual.rows, row)
    BY <1>2, <1>6, RowAdded
  <2>2. /\ Len(actual'.rows) = Len(actual.rows) + 1 /\ actual'.rows[Len(actual.rows) + 1] = row
        /\ \A i \in 1 .. Len(actual.rows) : actual'.rows[i] = actual.rows[i]
    BY <1>2, <2>1, Appended
  <2>3. ~scarce => Len(actual.rows) = stepped /\ \A i \in 1 .. stepped : actual.rows[i] = Runner!Given[i]
    BY <1>1, QueryPlace DEF RowsTaken
  <2>4. ~scarce => Len(actual'.rows) = stepped' /\ \A i \in 1 .. stepped' : actual'.rows[i] = Runner!Given[i]
    <3> SUFFICES ASSUME ~scarce
                 PROVE  Len(actual'.rows) = stepped' /\ \A i \in 1 .. stepped' : actual'.rows[i] = Runner!Given[i]
      OBVIOUS
    <3>1. \A i \in 1 .. stepped' : i \in 1 .. stepped \/ i = stepped + 1
      BY <1>1, <1>5
    <3> QED
      BY <1>1, <1>5, <2>2, <2>3, <3>1
  <2>5. RowsTaken'
    BY <1>3, <1>5, <1>6, <2>4 DEF RowsTaken
  <2> QED
    BY <1>2, <1>4, <1>6, <2>1, <2>2, <2>5
<1>7. CASE scarce' = TRUE /\ actual' = actual
  <2>1. RowsTaken'
    BY <1>3, <1>5, <1>7 DEF RowsTaken
  <2> QED
    BY <1>2, <1>4, <1>7, <2>1
<1> QED
  BY <1>6, <1>7 DEF Runner!StepRow

LEMMA EndQueryStep ==
  ASSUME Runner!ScriptsAssumption, RunnerInv, Runner!EndQuery
  PROVE  RunnerInv'
<1> DEFINE differ == snapshot.present /\ ~snapshot.skip /\ ~Runner!Matches(snapshot.rows, actual.rows)
<1>1. /\ phase = "query" /\ stepped = Len(Runner!Given)
      /\ UNCHANGED <<script, at, end, stepped, snapshot, actual, ran, scarce>>
      /\ IF differ THEN Runner!Fails ELSE phase' = "cell" /\ all_ok' = all_ok
  BY DEF Runner!EndQuery
<1>p. /\ RunnerPlace /\ BuffersFit /\ script \in Scripts /\ at \in 1 .. Len(script) /\ end \in at .. Len(script)
      /\ RanAre(Passed(at)) /\ WentWell(Passed(at - 1)) /\ script[at].kind = "query" /\ at \in Runner!Statements
      /\ SnapshotRead /\ RowsTaken /\ Runner!IsSeq(Runner!Given) /\ Passed(at) = Passed(at - 1) \cup {at}
      /\ (Runner!OneSpelling => NoMarks) /\ (end < Len(script) => Runner!IsMark(end + 1))
  BY <1>1, QueryPlace
<1>2. ~scarce => actual.rows = Runner!Given
  <2> SUFFICES ASSUME ~scarce PROVE actual.rows = Runner!Given
    OBVIOUS
  <2>1. Len(actual.rows) = Len(Runner!Given) /\ \A i \in 1 .. Len(Runner!Given) : actual.rows[i] = Runner!Given[i]
    BY <1>1, <1>p DEF RowsTaken
  <2>2. Runner!IsSeq(actual.rows) /\ Runner!IsSeq(Runner!Given)
    BY <1>p DEF BuffersFit, Buffer
  <2> QED
    BY <2>1, <2>2, SameSeq
<1>3. Runner!OneSpelling /\ ~scarce => (differ <=> ~Runner!Passes(at))
  <2> SUFFICES ASSUME Runner!OneSpelling, ~scarce PROVE differ <=> ~Runner!Passes(at)
    OBVIOUS
  <2>1. Runner!Given = script[at].gives
    BY DEF Runner!Given
  <2>2. /\ Runner!Passes(at) <=>
             Runner!SkipAhead(at) \/
               IF script[at].snapshot = None THEN ~Required
               ELSE Runner!Matches(script[at].snapshot, script[at].gives)
        /\ Runner!HasSnapshot(at) <=> script[at].snapshot # None
    BY <1>1, <1>p, QueryPasses DEF NoMarks
  <2>3. CASE Runner!SkipAhead(at)
    BY <1>p, <2>2, <2>3 DEF SnapshotRead
  <2>4. CASE ~Runner!SkipAhead(at) /\ script[at].snapshot = None
    BY <1>p, <2>2, <2>4 DEF SnapshotRead
  <2>5. CASE ~Runner!SkipAhead(at) /\ script[at].snapshot # None
    <3>1. snapshot.present /\ ~snapshot.skip /\ snapshot.rows = script[at].snapshot /\ actual.rows = script[at].gives
      BY <1>2, <1>p, <2>1, <2>2, <2>5 DEF SnapshotRead
    <3> QED
      BY <2>2, <2>5, <3>1
  <2> QED
    BY <2>3, <2>4, <2>5
<1> HIDE DEF differ
<1>4. BuffersFit'
  BY <1>1, <1>p DEF BuffersFit, Buffer
<1>5. CASE differ
  <2>1. Runner!OneSpelling => scarce' \/ \E b \in Runner!Statements : ~Runner!Passes(b)
    BY <1>1, <1>3, <1>5, <1>p
  <2>2. Runner!RunnerHonest'
    BY <1>1, <1>5, <2>1, RunnerFails DEF Runner!Fails
  <2> QED
    BY <1>1, <1>4, <1>5, <1>p, <2>2 DEF RunnerInv, Runner!Fails
<1>6. CASE ~differ
  <2>1. RunnerPlace'
    BY <1>1, <1>6, <1>p, SameScript DEF RunnerPlace
  <2>2. Runner!OneSpelling => Runner!Passes(at) \/ scarce
    BY <1>3, <1>6
  <2>3. WentWell(Passed(at))
    BY <1>p, <2>2 DEF WentWell
  <2>4. RanAre(Passed(at))' /\ WentWell(Passed(at))'
    BY <1>1, <1>p, <2>3, SameScript DEF RanAre, WentWell, Passed, InOrder, Runner!ToSet, Runner!IsSeq
  <2>5. (Runner!OneSpelling => NoMarks)'
    <3> SUFFICES ASSUME Runner!OneSpelling PROVE NoMarks'
      BY <1>1, SameScript
    <3>1. \A m \in at + 2 .. end : m \in at + 1 .. end
      BY <1>p, ScriptShape
    <3>2. \A m \in at + 2 .. end : ~Runner!IsMark(m)'
      BY <1>1, <1>p, <3>1, SameScript DEF NoMarks
    <3> QED
      BY <1>1, <1>6, <3>2 DEF NoMarks
  <2> QED
    BY <1>1, <1>4, <1>6, <1>p, <2>1, <2>4, <2>5 DEF RunnerInv, RunnerBusy
<1> QED
  BY <1>5, <1>6

LEMMA RunnerInvariance ==
  ASSUME Runner!ScriptsAssumption, RunnerInv, [Runner!RunnerNext]_(Runner!runnerVars)
  PROVE  RunnerInv'
<1>1. CASE UNCHANGED Runner!runnerVars
  <2>1. UNCHANGED <<script, at, end, phase, stepped, snapshot, actual, all_ok, ran, scarce>>
    BY <1>1 DEF Runner!runnerVars
  <2>2. BuffersFit' = BuffersFit
    BY <2>1 DEF BuffersFit, Buffer
  <2>3. Runner!RunnerHonest' = Runner!RunnerHonest
    BY <2>1, SameScript DEF Runner!RunnerHonest, Runner!ToSet
  <2>4. RunnerPlace' = RunnerPlace /\ NoMarks' = NoMarks
    BY <2>1, SameScript DEF RunnerPlace, NoMarks
  <2>5. RanAre(Passed(at))' = RanAre(Passed(at)) /\ WentWell(Passed(at))' = WentWell(Passed(at))
        /\ WentWell(Passed(at - 1))' = WentWell(Passed(at - 1))
    BY <2>1, SameScript DEF RanAre, WentWell, Passed, InOrder, Runner!ToSet, Runner!IsSeq
  <2>6. SnapshotRead' = SnapshotRead /\ RowsTaken' = RowsTaken
    BY <2>1 DEF SnapshotRead, RowsTaken, Runner!SkipAhead, Runner!HasSnapshot, Runner!IsMark, Runner!Given
  <2> QED
    BY <2>1, <2>2, <2>3, <2>4, <2>5, <2>6, SameScript DEF RunnerInv, RunnerBusy
<1> QED
  BY <1>1, FindCellStep, RunFinishes, EndCellStep, SkipMarkStep, PrepareFailsStep, RunStatementStep, BeginQueryStep,
     StepRowStep, EndQueryStep DEF Runner!RunnerNext

LEMMA RunnerFollows ==
  ASSUME Runner!ScriptsAssumption, RunnerInv
  PROVE  Runner!RunnerSafe
<1>1. Runner!RunnerHonest
  <2>1. CASE phase = "done"
    BY <2>1 DEF RunnerInv
  <2>2. CASE phase # "done"
    BY <2>2, BusyHonest DEF Runner!RunnerHonest, InOrder
  <2> QED
    BY <2>1, <2>2
<1>2. Runner!TablesFit
  BY DEF RunnerInv, BuffersFit, Buffer, Runner!TablesFit
<1> QED
  BY <1>1, <1>2 DEF Runner!RunnerSafe

\* Whatever the scripts: statements are run in order, none twice; in a script of one spelling
\* the runner answers true exactly when every statement was run and its rows are those of its
\* snapshot, or it was overlooked: a query that broke off, or stands in front of a "skip".
THEOREM RunnerAlwaysHonest ==
  ASSUME Runner!ScriptsAssumption PROVE Runner!RunnerSpec => []Runner!RunnerSafe
<1>1. Runner!RunnerInit => RunnerInv
  BY RunnerInitially
<1>2. RunnerInv /\ [Runner!RunnerNext]_(Runner!runnerVars) => RunnerInv'
  BY RunnerInvariance
<1>3. RunnerInv => Runner!RunnerSafe
  BY RunnerFollows
<1> QED
  BY <1>1, <1>2, <1>3, PTL DEF Runner!RunnerSpec

-----------------------------------------------------------------------------
(* Lifetimes: what holds of a component holds of a behaviour that is one of it *)

\* A behaviour of the whole is, seen at the variables of a component, one of the component.
LEMMA LivesParts ==
  LivesSpec => /\ Guards!Spec /\ Fibers!Spec /\ Shared!Spec /\ Handles!HandlesSpec
               /\ Crew!ThreadsSpec /\ Functions!FunctionsSpec /\ Tables!Spec /\ Runner!RunnerSpec
<1>1. LivesInit => /\ Guards!Init /\ Fibers!Init /\ Shared!Init /\ Handles!HandlesInit
                   /\ Crew!ThreadsInit /\ Functions!FunctionsInit /\ Tables!TablesInit /\ Runner!RunnerInit
  BY DEF LivesInit
<1>2. [LivesNext]_allVars => [Guards!Next]_(Guards!vars)
  BY DEF LivesNext, allVars, guardVars, Guards!vars
<1>3. [LivesNext]_allVars => [Fibers!Next]_(Fibers!vars)
  BY DEF LivesNext, allVars, fiberVars, Fibers!vars
<1>4. [LivesNext]_allVars => [Shared!Next]_(Shared!vars)
  BY DEF LivesNext, allVars, sharedVars, Shared!vars
<1>5. [LivesNext]_allVars => [Handles!HandlesNext]_(Handles!handleVars)
  BY DEF LivesNext, allVars, handleVars, Handles!handleVars
<1>6. [LivesNext]_allVars => [Crew!ThreadsNext]_(Crew!handleVars)
  BY DEF LivesNext, allVars, threadVars, Crew!handleVars
<1>7. [LivesNext]_allVars => [Functions!FunctionsNext]_(Functions!functionVars)
  BY DEF LivesNext, allVars, functionVars, Functions!functionVars
<1>8. [LivesNext]_allVars => [Tables!TablesNext]_(Tables!vars)
  BY DEF LivesNext, allVars, tableVars, Tables!vars
<1>9. [LivesNext]_allVars => [Runner!RunnerNext]_(Runner!runnerVars)
  BY DEF LivesNext, allVars, runnerVars, Runner!runnerVars
<1> QED
  BY <1>1, <1>2, <1>3, <1>4, <1>5, <1>6, <1>7, <1>8, <1>9, PTL
     DEF LivesSpec, Guards!Spec, Fibers!Spec, Shared!Spec, Handles!HandlesSpec, Crew!ThreadsSpec,
       Functions!FunctionsSpec, Tables!Spec, Runner!RunnerSpec

\* A guard believes to be active only if the connection agrees, and no transaction
\* outlives the guard that began it, memory for every ROLLBACK or not.
THEOREM GuardsAlwaysSafe == LivesSpec => []GuardsSafe
<1>0. GuardsAssumption
  BY LivesAssumption
<1>1. Guards!Consistent /\ Guards!NotLeftOpen => GuardsSafe
  BY DEF GuardsSafe
<1> QED
  BY <1>0, <1>1, LivesParts, GuardsConsistent, PTL

\* As long as no coroutine was resumed while it ran or waited, what runs or waits is not
\* freed and each thread's pointer to its active coroutine says what runs there; and unless
\* two connections made the mutex of the shared pool at once, the pool lives as long as one
\* of the connections has it.
THEOREM CoroutinesAlwaysSafe == LivesSpec => []CoroutinesSafe
<1>0. ContextsApart /\ SharedAssumption
  BY LivesAssumption
<1>1. Fibers!FibersSafe /\ Shared!SharedSafe => CoroutinesSafe
  BY DEF CoroutinesSafe
<1> QED
  BY <1>0, <1>1, LivesParts, CoroutinesConsistent, SharedPoolSafe, PTL

\* Every block of a virtual table or table-valued function has an owner, its state outlives
\* its tables, and a scan, of an iterator or of a generator on a fiber, gives its rows in order.
THEOREM ScansAlwaysSafe == ASSUME FibersOnly PROVE LivesSpec => []TablesSafe
<1>0. TablesAssumption
  BY LivesAssumption
<1>1. Tables!TablesSafe => TablesSafe
  BY DEF TablesSafe
<1> QED
  BY <1>0, <1>1, LivesParts, TablesAlwaysSafe, PTL

\* References to the states of functions are exact, and an aggregate lives for one group.
THEOREM FunctionStatesSafe == LivesSpec => []FunctionsSafe
<1>0. FnsAssumption
  BY LivesAssumption
<1>1. Functions!FunctionsSafe => FunctionsSafe
  BY DEF FunctionsSafe
<1> QED
  BY <1>0, <1>1, LivesParts, FunctionsAlwaysSafe, PTL

\* Connections, statements, backups, blobs and the contexts of threads have one owner and
\* die in the right order, and join finds the result of its thread.
THEOREM OwnersAlwaysSafe == LivesSpec => []HandlesSafe
<1>0. OwningAssumption /\ CrewAssumption
  BY LivesAssumption
<1>1. Handles!HandlesSafe /\ Crew!ThreadsSafe => HandlesSafe
  BY DEF HandlesSafe
<1> QED
  BY <1>0, <1>1, LivesParts, HandlesAlwaysSafe, ThreadsAlwaysSafe, PTL

\* Among the parts, too, the script runner runs statements in order and answers true only if
\* none that is no query failed; and exactly when every statement came out as its snapshot
\* says, or was overlooked, if the marks and snapshots of the script are each spelled alike.
THEOREM RunsAlwaysHonest == LivesSpec => []RunnerSafe
<1>0. Runner!ScriptsAssumption
  BY LivesAssumption
<1>1. Runner!RunnerSafe => RunnerSafe
  BY DEF RunnerSafe
<1> QED
  BY <1>0, <1>1, LivesParts, RunnerAlwaysHonest, PTL

\* Rolling back undoes the scope of the guard and nothing else, unless its savepoint was left
\* for lack of memory; only the outermost commit persists; and control returns to the context
\* that resumed a coroutine, as long as none was resumed while it ran or waited.
THEOREM LivesImplement == LivesSpec => AllImplement
<1>0. ContextsApart /\ GuardsAssumption
  BY LivesAssumption
<1>1. GuardsInv /\ [Guards!Next]_(Guards!vars) => Guards!RollbackStep /\ Guards!PersistStep
  BY RollbackReturns, NothingPersists
<1>2. [Fibers!NestsStep]_(Fibers!vars) => Fibers!NestsStep
  BY DEF Fibers!vars, Fibers!NestsStep, Fibers!Abstract!vars
<1>3. Guards!RollbackStep /\ Guards!PersistStep /\ Fibers!NestsStep => [PartImplements]_allVars
  BY DEF PartImplements
<1>4. LivesSpec => []GuardsInv /\ [][Guards!Next]_(Guards!vars) /\ [][Fibers!NestsStep]_(Fibers!vars)
  BY <1>0, LivesParts, GuardsAlways, CoroutinesNest, PTL DEF Guards!Spec, Fibers!ImplementsNesting
<1> QED
  BY <1>1, <1>2, <1>3, <1>4, PTL DEF AllImplement
=============================================================================
