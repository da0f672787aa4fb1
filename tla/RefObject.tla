----------------------------- MODULE RefObject -----------------------------
(***************************************************************************)
(* What shared and weak pointers promise, without counters: an object is   *)
(* alive while somebody owns it, dies once, after the last owner let go,   *)
(* can be owned again only through an owner, and its control block is      *)
(* returned when no watcher is left either.                                *)
(***************************************************************************)
CONSTANTS Objects, Strong, Weak

VARIABLES
  owners,     \* the shared pointers to each object
  watchers,   \* the weak pointers to each object
  life        \* "unborn", "alive", "dead" (destroyed), "gone" (memory returned)

vars == <<owners, watchers, life>>

Init == /\ owners = [o \in Objects |-> {}]
        /\ watchers = [o \in Objects |-> {}]
        /\ life = [o \in Objects |-> "unborn"]

Create(o, s) == /\ life[o] = "unborn"
                /\ life' = [life EXCEPT ![o] = "alive"]
                /\ owners' = [owners EXCEPT ![o] = {s}]
                /\ UNCHANGED watchers

StillBorn(o) == /\ life[o] = "unborn"
                /\ life' = [life EXCEPT ![o] = "gone"]
                /\ UNCHANGED <<owners, watchers>>

\* A new owner needs an owner, not just a watcher.
Own(o, s) == /\ owners[o] # {}
             /\ owners' = [owners EXCEPT ![o] = @ \cup {s}]
             /\ UNCHANGED <<watchers, life>>

Disown(o, s) == /\ s \in owners[o]
                /\ owners' = [owners EXCEPT ![o] = @ \ {s}]
                /\ UNCHANGED <<watchers, life>>

PassOn(o, s, t) == /\ s \in owners[o]
                   /\ owners' = [owners EXCEPT ![o] = (@ \ {s}) \cup {t}]
                   /\ UNCHANGED <<watchers, life>>

Watch(o, w) == /\ owners[o] \cup watchers[o] # {}
               /\ watchers' = [watchers EXCEPT ![o] = @ \cup {w}]
               /\ UNCHANGED <<owners, life>>

Unwatch(o, w) == /\ w \in watchers[o]
                 /\ watchers' = [watchers EXCEPT ![o] = @ \ {w}]
                 /\ UNCHANGED <<owners, life>>

PassWatch(o, v, w) == /\ v \in watchers[o]
                      /\ watchers' = [watchers EXCEPT ![o] = (@ \ {v}) \cup {w}]
                      /\ UNCHANGED <<owners, life>>

Die(o) == /\ life[o] = "alive" /\ owners[o] = {}
          /\ life' = [life EXCEPT ![o] = "dead"]
          /\ UNCHANGED <<owners, watchers>>

Reclaim(o) == /\ life[o] = "dead" /\ watchers[o] = {}
              /\ life' = [life EXCEPT ![o] = "gone"]
              /\ UNCHANGED <<owners, watchers>>

Next == \E o \in Objects :
          \/ StillBorn(o) \/ Die(o) \/ Reclaim(o)
          \/ \E s \in Strong : \/ Create(o, s) \/ Own(o, s) \/ Disown(o, s)
                               \/ \E t \in Strong : PassOn(o, s, t)
          \/ \E w \in Weak : \/ Watch(o, w) \/ Unwatch(o, w)
                             \/ \E v \in Weak : PassWatch(o, v, w)

Spec == Init /\ [][Next]_vars
=============================================================================
