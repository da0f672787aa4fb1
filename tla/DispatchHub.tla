---------------------------- MODULE DispatchHub -----------------------------
(***************************************************************************)
(* Direct dispatch: the table of handlers of direct_dispatch_hub.hpp under *)
(* its lock, and the context of direct_dispatch_context.hpp in which a     *)
(* handler reports.  A handler is looked up under the lock and called      *)
(* without it, and may itself use the hub.  A critical section is one step.*)
(*                                                                         *)
(* No name lacks memory: one that does passes for the empty name.          *)
(***************************************************************************)
EXTENDS Integers, Sequences, SequencesExt

CONSTANTS
  Callers,     \* threads that call handlers
  FnNames,     \* names that handlers may be registered under
  Handlers,    \* functions
  MaxDepth,    \* bound on calls within calls
  Null

VARIABLES
  s_lock,    \* who holds s_lock between two steps
  entries,   \* s_entries
  stack,     \* each thread's calls of dispatch and invoke, the innermost last
  contexts,  \* m_has_error of each thread's contexts: the application's, then those of dispatch
  honest     \* for the properties: whether every call has answered what it should

hubVars == <<s_lock, entries, stack, contexts, honest>>

HubInit ==
  /\ s_lock = Null
  /\ entries = [n \in FnNames |-> Null]
  /\ stack = [c \in Callers |-> <<>>]
  /\ contexts = [c \in Callers |-> <<FALSE>>]
  /\ honest = TRUE

\* A thread uses the hub where no call of it is in progress, or from a handler.
InUserCode(c) == stack[c] # <<>> => Last(stack[c]).phase = "running"

Top(c, frame) == stack' = [stack EXCEPT ![c] = Front(@) \o <<frame>>]

-----------------------------------------------------------------------------
(* The table *)

\* Other threads, and the handlers that run, change it at any time: s_lock is all they need.

\* register_function and register_udf; a name that is taken is refused.
Register(n, h) ==
  /\ s_lock = Null /\ entries[n] = Null
  /\ entries' = [entries EXCEPT ![n] = h]
  /\ UNCHANGED <<s_lock, stack, contexts, honest>>

\* erase and the functions that call it.
Erase(n) ==
  /\ s_lock = Null
  /\ entries' = [entries EXCEPT ![n] = Null]
  /\ UNCHANGED <<s_lock, stack, contexts, honest>>

Clear ==
  /\ s_lock = Null
  /\ entries' = [n \in FnNames |-> Null]
  /\ UNCHANGED <<s_lock, stack, contexts, honest>>

-----------------------------------------------------------------------------
(* Calls *)

Frame(n, at, own, error) ==
  [name |-> n, phase |-> "finding", handler |-> Null, at |-> at, own |-> own,
   before |-> error, said |-> "nothing"]

\* dispatch without a context makes one.
Dispatch(c, n) ==
  /\ InUserCode(c) /\ Len(stack[c]) < MaxDepth
  /\ contexts' = [contexts EXCEPT ![c] = Append(@, FALSE)]
  /\ stack' = [stack EXCEPT ![c] = Append(@, Frame(n, Len(contexts[c]) + 1, TRUE, FALSE))]
  /\ UNCHANGED <<s_lock, entries, honest>>

\* dispatch and invoke with one: the application's, or that of the handler that calls.
Invoke(c, n) ==
  /\ InUserCode(c) /\ Len(stack[c]) < MaxDepth
  /\ LET at == Len(contexts[c]) IN
     stack' = [stack EXCEPT ![c] = Append(@, Frame(n, at, FALSE, contexts[c][at]))]
  /\ UNCHANGED <<s_lock, entries, contexts, honest>>

\* find, which copies the handler under the lock.
Find(c) ==
  /\ stack[c] # <<>> /\ Last(stack[c]).phase = "finding" /\ s_lock = Null
  /\ Top(c, [Last(stack[c]) EXCEPT !.phase = "found", !.handler = entries[Last(stack[c]).name]])
  /\ UNCHANGED <<s_lock, entries, contexts, honest>>

\* For the properties: a call should answer true when there is a handler whose last word,
\* or that of the calls in its context, was no error, or which said nothing in a context
\* without an error.
Succeeds(frame, said) ==
  frame.handler # Null /\ (said = "result" \/ (said = "nothing" /\ ~frame.before))

\* What a nested call says in the context of the call outside it is the word of that one.
Spoken(outer, said) == [outer EXCEPT !.said = IF said = "nothing" THEN outer.said ELSE said]

\* The call ends: it answers !is_error(), and a context of its own is destroyed.
Answers(c, frame, said, ctxs) ==
  /\ stack' = [stack EXCEPT ![c] =
       IF Len(@) > 1 /\ ~frame.own
       THEN SubSeq(@, 1, Len(@) - 2) \o <<Spoken(@[Len(@) - 1], said)>>
       ELSE Front(@)]
  /\ contexts' = [contexts EXCEPT ![c] = IF frame.own THEN Front(ctxs) ELSE ctxs]
  /\ honest' = (honest /\ ((frame.handler # Null /\ ~ctxs[frame.at]) <=> Succeeds(frame, said)))
  /\ s_lock' = IF s_lock = c THEN Null ELSE s_lock
  /\ UNCHANGED entries

Reports(c, at, error) == [contexts EXCEPT ![c][at] = error]

\* There is no handler: result_error.
NotFound(c) ==
  /\ stack[c] # <<>> /\ Last(stack[c]).phase = "found" /\ Last(stack[c]).handler = Null
  /\ Answers(c, Last(stack[c]), "error", [contexts[c] EXCEPT ![Last(stack[c]).at] = TRUE])

\* The row is filled and the handler called, which may be unregistered by now.
Call(c) ==
  /\ stack[c] # <<>> /\ Last(stack[c]).phase = "found" /\ Last(stack[c]).handler # Null
  /\ Top(c, [Last(stack[c]) EXCEPT !.phase = "running"])
  /\ UNCHANGED <<s_lock, entries, contexts, honest>>

Running(c) == stack[c] # <<>> /\ Last(stack[c]).phase = "running"

\* Mutant of Result: an error that was reported before stays.
ResultKeepsError(c) ==
  /\ Running(c)
  /\ Top(c, [Last(stack[c]) EXCEPT !.said = "result"])
  /\ UNCHANGED <<s_lock, entries, contexts, honest>>

\* The result_ functions, of which a blob that lacks memory reports an error instead.
Result(c) ==
  /\ Running(c)
  /\ contexts' = Reports(c, Last(stack[c]).at, FALSE)
  /\ Top(c, [Last(stack[c]) EXCEPT !.said = "result"])
  /\ UNCHANGED <<s_lock, entries, honest>>

\* result_error and its variants.
Error(c) ==
  /\ Running(c)
  /\ contexts' = Reports(c, Last(stack[c]).at, TRUE)
  /\ Top(c, [Last(stack[c]) EXCEPT !.said = "error"])
  /\ UNCHANGED <<s_lock, entries, honest>>

Return(c) == Running(c) /\ Answers(c, Last(stack[c]), Last(stack[c]).said, contexts[c])

HubNext ==
  \/ Clear
  \/ \E n \in FnNames : Erase(n) \/ \E h \in Handlers : Register(n, h)
  \/ \E c \in Callers :
       \/ \E n \in FnNames : Dispatch(c, n) \/ Invoke(c, n)
       \/ Find(c) \/ NotFound(c) \/ Call(c) \/ Result(c) \/ Error(c) \/ Return(c)

\* Threads go on, and handlers return: they call others now and then, but not for ever.
HubFair ==
  \A c \in Callers :
    /\ WF_hubVars(Find(c)) /\ WF_hubVars(NotFound(c) \/ Call(c))
    /\ \A depth \in 1..MaxDepth : SF_hubVars(Len(stack[c]) = depth /\ Return(c))

-----------------------------------------------------------------------------
\* A call answers true exactly when a handler was found and no error was the last word in
\* its context: what nested calls said in it, and an error it had before, included.
AnswersHonest == honest

\* A call reports in the context that was made last, its own or the one of the call in
\* which it runs, and no context is left over: the last is the innermost call's.
ContextsMatch ==
  \A c \in Callers :
    /\ \A i \in DOMAIN stack[c] :
         stack[c][i].at = (IF i = 1 THEN 1 ELSE stack[c][i - 1].at) + (IF stack[c][i].own THEN 1 ELSE 0)
    /\ Len(contexts[c]) = IF stack[c] = <<>> THEN 1 ELSE Last(stack[c]).at

HubSafe == AnswersHonest /\ ContextsMatch

\* Every dispatch comes back, although handlers register, remove and call others.
DispatchReturns == \A c \in Callers : stack[c] # <<>> ~> stack[c] = <<>>
=============================================================================
