------------------------------- MODULE ExtPool ------------------------------
(***************************************************************************)
(* The registry of tagged coroutine pools of sqlite3_coro_ext_pool.h: a    *)
(* list of nodes, one per extension, each with a pool and a reference      *)
(* count, all under one mutex.  A critical section is one step, unless it  *)
(* waits for something inside: pool_destroy, which joins the workers.  Of  *)
(* a pool only one body at a time matters here: whether it is running, and *)
(* whether it has called the registry.  The mutex exists; CoroGlobal shows *)
(* what happens while it is made.                                          *)
(***************************************************************************)
EXTENDS Integers, FiniteSets, Sequences, SequencesExt

CONSTANTS
  Conns,        \* connections, each with a thread of its own
  Tags,         \* extensions
  TagOf,        \* the extension each connection belongs to
  Nodes,        \* nodes that may be allocated
  None          \* a null pointer

\* What is assumed of the parameters.
RegistryAssumption ==
  /\ IsFiniteSet(Conns) /\ TagOf \in [Conns -> Tags]
  /\ Tags # {}
  /\ None \notin Conns \cup Nodes

VARIABLES
  lock,       \* the connection inside a long critical section, or None
  list,       \* the nodes from reg->head on
  tag,        \* node->tag
  ref_count,  \* node->ref_count
  mem,        \* each node's memory: "unborn", "live" or "freed"
  body,       \* a body of its pool: "none", "running" or "calling"
  has,        \* the pool each connection was given
  pc,         \* where each connection's thread stands
  curr        \* its local variable

vars == <<lock, list, tag, ref_count, mem, body, has, pc, curr>>

Init ==
  /\ lock = None /\ list = <<>>
  /\ tag = [n \in Nodes |-> CHOOSE t \in Tags : TRUE]
  /\ ref_count = [n \in Nodes |-> 0]
  /\ mem = [n \in Nodes |-> "unborn"]
  /\ body = [n \in Nodes |-> "none"]
  /\ has = [c \in Conns |-> None]
  /\ pc = [c \in Conns |-> "idle"]
  /\ curr = [c \in Conns |-> None]

Goes(c, from, to) == pc[c] = from /\ pc' = [pc EXCEPT ![c] = to]

\* The search through the list.
Match(n, t) == n \in ToSet(list) /\ tag[n] = t

NoMatch(t) == \A n \in Nodes : ~Match(n, t)

-----------------------------------------------------------------------------
(* acquire *)

\* Mutant of AddRef: a pool that exists is not counted.
AddRefNot(n) == UNCHANGED ref_count

AddRef(n) == ref_count' = [ref_count EXCEPT ![n] = @ + 1]

AcquireFinds(c, n) ==
  /\ pc[c] = "idle" /\ has[c] = None /\ lock = None
  /\ Match(n, TagOf[c])
  /\ AddRef(n)
  /\ has' = [has EXCEPT ![c] = n]
  /\ UNCHANGED <<lock, list, tag, mem, body, pc, curr>>

AcquireCreates(c, n) ==
  /\ pc[c] = "idle" /\ has[c] = None /\ lock = None
  /\ NoMatch(TagOf[c])
  /\ mem[n] = "unborn"
  /\ mem' = [mem EXCEPT ![n] = "live"]
  /\ tag' = [tag EXCEPT ![n] = TagOf[c]]
  /\ ref_count' = [ref_count EXCEPT ![n] = 1]
  /\ list' = <<n>> \o list
  /\ has' = [has EXCEPT ![c] = n]
  /\ UNCHANGED <<lock, body, pc, curr>>

-----------------------------------------------------------------------------
(* release *)

ReleaseKeeps(c, n) ==
  /\ pc[c] = "idle" /\ has[c] # None /\ lock = None
  /\ Match(n, TagOf[c]) /\ ref_count[n] > 1
  /\ ref_count' = [ref_count EXCEPT ![n] = @ - 1]
  /\ has' = [has EXCEPT ![c] = None]
  /\ UNCHANGED <<lock, list, tag, mem, body, pc, curr>>

\* Mutant of Unlink: the head is moved on, wherever the node stands.
UnlinkHead(n) == list' = Tail(list)

\* prev->next = curr->next, or reg->head = curr->next
Unlink(n) == \E i \in DOMAIN list : list[i] = n /\ list' = RemoveAt(list, i)

\* The last connection unlinks the node ...
ReleaseUnlinks(c, n) ==
  /\ Goes(c, "idle", "joining") /\ has[c] # None /\ lock = None
  /\ Match(n, TagOf[c]) /\ ref_count[n] <= 1
  /\ ref_count' = [ref_count EXCEPT ![n] = @ - 1]
  /\ has' = [has EXCEPT ![c] = None]
  /\ Unlink(n)
  /\ lock' = c
  /\ curr' = [curr EXCEPT ![c] = n]
  /\ UNCHANGED <<tag, mem, body>>

\* Mutant of Joined: the workers are not waited for.
NotJoined(n) == TRUE

\* Mutant of Joined: the workers of all pools are waited for.
AllJoined(n) == \A m \in Nodes : body[m] = "none"

\* The pool's workers have ended.
Joined(n) == body[n] = "none"

\* ... and destroys the pool, still inside the critical section.
ReleaseFrees(c) ==
  /\ Goes(c, "joining", "idle")
  /\ Joined(curr[c])
  /\ mem' = [mem EXCEPT ![curr[c]] = "freed"]
  /\ lock' = None
  /\ curr' = [curr EXCEPT ![c] = None]
  /\ UNCHANGED <<list, tag, ref_count, body, has>>

-----------------------------------------------------------------------------
(* wait, by anybody: the pool is looked up under the lock and waited for   *)
(* outside it, without a reference to it.                                  *)

WaitFinds(c, n) ==
  /\ Goes(c, "idle", "waiting") /\ lock = None
  /\ Match(n, TagOf[c])
  /\ curr' = [curr EXCEPT ![c] = n]
  /\ UNCHANGED <<lock, list, tag, ref_count, mem, body, has>>

\* Where the pool has been freed meanwhile, whether the wait ends is undefined.
WaitEnds(c) ==
  /\ Goes(c, "waiting", "idle")
  /\ mem[curr[c]] = "live" => body[curr[c]] = "none"
  /\ curr' = [curr EXCEPT ![c] = None]
  /\ UNCHANGED <<lock, list, tag, ref_count, mem, body, has>>

-----------------------------------------------------------------------------
(* shutdown_all, when no connection uses any pool or will release it *)

ShutdownBegins(c) ==
  /\ Goes(c, "idle", "shutting")
  /\ \A d \in Conns : pc[d] = "idle"
  /\ lock' = c
  /\ has' = [d \in Conns |-> None]
  /\ UNCHANGED <<list, tag, ref_count, mem, body, curr>>

\* The next pool of the list is destroyed; the list itself stays.
ShutdownFrees(c) ==
  /\ pc[c] = "shutting"
  /\ \E i \in DOMAIN list :
       /\ \A j \in 1..(i - 1) : mem[list[j]] = "freed"
       /\ mem[list[i]] = "live" /\ Joined(list[i])
       /\ mem' = [mem EXCEPT ![list[i]] = "freed"]
  /\ UNCHANGED <<lock, list, tag, ref_count, body, has, pc, curr>>

ClearList == list' = <<>>

ShutdownEnds(c) ==
  /\ Goes(c, "shutting", "idle")
  /\ \A n \in ToSet(list) : mem[n] = "freed"
  /\ ClearList
  /\ lock' = None
  /\ UNCHANGED <<tag, ref_count, mem, body, has, curr>>

-----------------------------------------------------------------------------
(* The bodies of the pools *)

\* A connection spawns into its pool, and a worker starts the body.
BodyStarts(c) ==
  /\ pc[c] = "idle" /\ has[c] # None
  /\ mem[has[c]] = "live" /\ body[has[c]] = "none"
  /\ body' = [body EXCEPT ![has[c]] = "running"]
  /\ UNCHANGED <<lock, list, tag, ref_count, mem, has, pc, curr>>

\* The body calls ref_count, get or another function, which takes the lock ...
BodyCalls(n) ==
  /\ body[n] = "running"
  /\ body' = [body EXCEPT ![n] = "calling"]
  /\ UNCHANGED <<lock, list, tag, ref_count, mem, has, pc, curr>>

\* ... and gets its answer.
BodyAnswered(n) ==
  /\ body[n] = "calling" /\ lock = None
  /\ body' = [body EXCEPT ![n] = "running"]
  /\ UNCHANGED <<lock, list, tag, ref_count, mem, has, pc, curr>>

BodyEnds(n) ==
  /\ body[n] = "running"
  /\ body' = [body EXCEPT ![n] = "none"]
  /\ UNCHANGED <<lock, list, tag, ref_count, mem, has, pc, curr>>

-----------------------------------------------------------------------------
Destroying(c) == ReleaseFrees(c) \/ ShutdownFrees(c) \/ ShutdownEnds(c)

Next ==
  \/ \E c \in Conns :
       \/ \E n \in Nodes : \/ AcquireFinds(c, n) \/ AcquireCreates(c, n)
                           \/ ReleaseKeeps(c, n) \/ ReleaseUnlinks(c, n)
                           \/ WaitFinds(c, n)
       \/ WaitEnds(c) \/ ShutdownBegins(c) \/ Destroying(c) \/ BodyStarts(c)
  \/ \E n \in Nodes : BodyCalls(n) \/ BodyAnswered(n) \/ BodyEnds(n)

Spec == Init /\ [][Next]_vars

\* Threads go on, and every body returns: it calls the registry now and then,
\* but not for ever.
Fairness ==
  /\ \A c \in Conns : WF_vars(Destroying(c))
  /\ \A n \in Nodes : SF_vars(BodyEnds(n)) /\ WF_vars(BodyAnswered(n))

-----------------------------------------------------------------------------
(* Properties *)

TypeOK ==
  /\ lock \in Conns \cup {None}
  /\ list \in Seq(Nodes)
  /\ tag \in [Nodes -> Tags]
  /\ ref_count \in [Nodes -> Nat]
  /\ mem \in [Nodes -> {"unborn", "live", "freed"}]
  /\ body \in [Nodes -> {"none", "running", "calling"}]
  /\ has \in [Conns -> Nodes \cup {None}]
  /\ pc \in [Conns -> {"idle", "joining", "waiting", "shutting"}]
  /\ curr \in [Conns -> Nodes \cup {None}]

ShuttingDown == \E c \in Conns : pc[c] = "shutting"

\* The count of a registered pool is the number of connections that hold it.
RefCountExact ==
  ~ShuttingDown =>
    \A n \in ToSet(list) : ref_count[n] = Cardinality({c \in Conns : has[c] = n})

\* A connection holds the one pool of its extension, which is registered.
OnePoolPerTag ==
  /\ \A m, n \in ToSet(list) : tag[m] = tag[n] => m = n
  /\ \A c \in Conns : has[c] # None => has[c] \in ToSet(list) /\ tag[has[c]] = TagOf[c]

\* List, counts and connections agree.
Consistent == TypeOK /\ RefCountExact /\ OnePoolPerTag

\* No freed pool is registered, still has a body running, is destroyed, or waited for by a
\* connection that holds it.
NoUseAfterFree ==
  /\ \A n \in Nodes : mem[n] = "freed" => body[n] = "none"
  /\ \A c \in Conns : pc[c] = "joining" \/ (pc[c] = "waiting" /\ has[c] # None) => mem[curr[c]] = "live"
  /\ ~ShuttingDown => \A n \in ToSet(list) : mem[n] = "live"

\* A pool that runs is held by a connection, or somebody is destroying it.
NothingLeaks ==
  \A n \in Nodes : mem[n] = "live" =>
    \/ n \in ToSet(list) /\ (ShuttingDown \/ \E c \in Conns : has[c] = n)
    \/ \E c \in Conns : pc[c] = "joining" /\ curr[c] = n

\* The count of a pool is the number of connections that acquired it and did not release
\* it, no pool is used after it was destroyed, but by a wait without a reference, and none
\* is left behind.
PoolsSafe == Consistent /\ NoUseAfterFree /\ NothingLeaks

\* A connection that has begun to destroy pools comes back, provided that no body
\* is for ever in a call of the registry.  (The body of a pool that is being
\* destroyed is, if it calls: the lock is held until it has returned.)
DestroyReturns ==
  <>[](\A n \in Nodes : body[n] # "calling")
    => \A c \in Conns : pc[c] \in {"joining", "shutting"} ~> pc[c] = "idle"

=============================================================================
