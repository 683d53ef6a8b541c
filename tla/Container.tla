------------------------------ MODULE Container ------------------------------
(***************************************************************************)
(* The state of one unit's pod: what Juju shows the charm, the hook it     *)
(* runs, its workload container with the Pebble daemon in it, and the      *)
(* StatefulSet the pod belongs to.  Workload, LogForwarding and            *)
(* ResourcePatch are the handlers; Pod composes them.                      *)
(***************************************************************************)
EXTENDS Naturals

CONSTANTS
  Settings,      \* values of what the environment of the service is made of
  LokiUnits,     \* units of Loki applications that may relate
  RelationOf,    \* LokiUnits -> the logging relation of each
  Limits,        \* values of the options cpu and memory that the operator may set
  Pods,          \* the ordinals of the StatefulSet's pods, this unit's among them
  This,          \* this unit's pod
  Initial,       \* bound: what the inputs may be at first
  Usual,         \* bound: what the inputs are that do not vary in a behaviour
  MaxFaults,     \* bound: failures of calls, containers and processes
  MaxChanges     \* bound: changes of what Juju shows

ASSUME PodAssumption == Pods \subseteq Nat /\ This \in Pods /\ MaxFaults \in Nat /\ MaxChanges \in Nat

None == "none"

\* What the plan would contain if the outpost had no host and no token to connect with.
Blank == "blank"

VARIABLES
  \* Juju
  inputs,     \* what relations and configuration are
  pending,    \* events not yet dispatched to the unit
  event,      \* the event of the running hook
  seen,       \* what relations and configuration were when it started
  pc,         \* where it is
  status,     \* what the last completed hook reported
  \* the workload container
  up,         \* Pebble answers
  planned,    \* the environment in Pebble's plan
  service,    \* Pebble's view of the outpost
  runs,       \* the environment the process was started with
  check,      \* the ready check
  latest,     \* how the newest change that touched the service ended
  targets,    \* the log targets in Pebble's plan
  \* Kubernetes
  sts,        \* the StatefulSet
  \* bounds
  faults, changes,
  focus       \* which inputs vary in this behaviour

juju == <<inputs, pending, event, seen, pc, status>>
pebble == <<up, planned, service, runs, check, latest, targets>>
vars == <<juju, pebble, sts, faults, changes, focus>>

Environments == Settings \union {Blank}

\* Events by what they make the charm do; every hook ends with collect-status.  "reconcile" stands
\* for update-status and all events whose only handler is _on_holistic_handler, "check" for the
\* events of the ready check, which are only logged.
Logging == {RelationOf[u] : u \in LokiUnits}
Events == {"pebble-ready", "config-changed", "reconcile", "check"} \union Logging

ASSUME EventsAssumption == Logging \intersect {"pebble-ready", "config-changed", "reconcile", "check"} = {}

\* inputs.loki: a unit has not joined, has joined, or has published its endpoint.
Inputs ==
  [server : {"absent", "related", "ready"}, token : BOOLEAN, setting : Settings,
   limit : Limits, loki : [LokiUnits -> {"gone", "joined", "published"}]]

ASSUME InputsAssumption ==
  /\ Usual \in Inputs /\ Initial \subseteq Inputs
  /\ Settings \intersect {None, Blank} = {}

Varying == [service |-> {"server", "token", "setting"}, logging |-> {"loki"}, resources |-> {"limit"}]

Vary(old, new) == \A field \in DOMAIN Usual \ Varying[focus] : new[field] = old[field]

Statuses == {"unset", "error", "blocked", "waiting", "active"}

Fault == faults < MaxFaults /\ faults' = faults + 1

\* What the handler did to Pebble's plan, service, check and targets is all there is: a new
\* container begins with none of it.
Wiped ==
  /\ planned' = None /\ service' = "absent" /\ runs' = None /\ check' = "up" /\ latest' = "none"
  /\ targets' = [u \in LokiUnits |-> "absent"]

\* A relation or an option changes, and an event tells of it.
Changed(new, e) ==
  /\ changes < MaxChanges /\ changes' = changes + 1
  /\ Vary(inputs, new)
  /\ inputs' = new
  /\ pending' = pending \union {e}
  /\ UNCHANGED <<event, seen, pc, status, pebble, sts, faults>>

-----------------------------------------------------------------------------
(* Hooks *)

At(step) == pc' = step /\ UNCHANGED <<inputs, pending, event, seen, status>>

\* Nothing of a hook outlives it but what it reported.
EndHook == pc' = "idle" /\ event' = "reconcile" /\ seen' = Usual

\* An exception nobody catches: Juju keeps the event and runs the hook again.
HookError ==
  /\ EndHook
  /\ status' = "error"
  /\ pending' = pending \union {event}
  /\ UNCHANGED inputs

\* Mutant of FirstStep: the patch library does not observe the event.
NeverPatches(e) ==
  CASE e \in Logging \union {"pebble-ready"} -> "disable"
    [] e = "check" -> "status"
    [] OTHER -> "handle"

\* The first handler of an event, in the order in which __init__ observes them.
FirstStep(e) ==
  CASE e = "config-changed" -> "patch"
    [] e \in Logging \union {"pebble-ready"} -> "disable"
    [] e = "check" -> "status"
    [] OTHER -> "handle"

\* update-status comes when nothing else is waiting.
StartHook ==
  /\ pc = "idle" /\ sts.ready[This]
  /\ \E e \in IF pending = {} THEN {"reconcile"} ELSE pending :
       /\ event' = e
       /\ pending' = pending \ {e}
       /\ pc' = FirstStep(e)
  /\ seen' = inputs
  /\ UNCHANGED <<inputs, status, pebble, sts, faults, changes>>

=============================================================================
