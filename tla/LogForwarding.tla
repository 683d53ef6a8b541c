---------------------------- MODULE LogForwarding ----------------------------
(***************************************************************************)
(* LogForwarder: the log targets in Pebble's plan follow the endpoints of  *)
(* the related Loki units.                                                 *)
(***************************************************************************)
EXTENDS Container

Members(r, loki) == {u \in LokiUnits : RelationOf[u] = r /\ loki[u] # "gone"}

\* A relation is ready when every unit in it has an endpoint.
Ready(r, loki) == Members(r, loki) # {} /\ \A u \in Members(r, loki) : loki[u] = "published"

EndpointsOf(loki) == UNION {Members(r, loki) : r \in {r \in Logging : Ready(r, loki)}}

Endpoints == EndpointsOf(seen.loki)

\* The handler that follows: pebble-ready goes on to the charm's own.
Forwarded == At(IF event = "pebble-ready" THEN "handle" ELSE "status")

\* Mutant of Inactive: only targets that were never enabled count.
NothingInactive == {}

Inactive == {u \in LokiUnits : targets[u] = "on"} \ Endpoints

\* No endpoints, or no Pebble to tell: nothing is done.  On pebble-ready Pebble is not asked.
SkipForwarding ==
  /\ pc = "disable"
  /\ Endpoints = {} \/ (~up /\ event # "pebble-ready")
  /\ Forwarded
  /\ UNCHANGED <<pebble, sts, faults, changes>>

\* The layer of log targets, all in one state, combined into the plan.
Combined(units, state) == [u \in LokiUnits |-> IF u \in units THEN state ELSE targets[u]]

\* disable_inactive_endpoints.
Disable ==
  /\ pc = "disable" /\ Endpoints # {} /\ up
  /\ targets' = Combined(Inactive, "off")
  /\ At("enable")
  /\ UNCHANGED <<up, planned, service, runs, check, latest, sts, faults, changes>>

\* enable_endpoints.
Enable ==
  /\ pc = "enable" /\ up
  /\ targets' = Combined(Endpoints, "on")
  /\ Forwarded
  /\ UNCHANGED <<up, planned, service, runs, check, latest, sts, faults, changes>>

\* Pebble does not answer a call of either: nothing catches that.
ForwardingFails ==
  /\ pc \in {"disable", "enable"}
  /\ Endpoints # {}
  /\ \/ ~up /\ (pc = "enable" \/ event = "pebble-ready") /\ UNCHANGED faults
     \/ up /\ Fault
  /\ HookError
  /\ UNCHANGED <<pebble, sts, changes>>

\* A Loki unit joins, publishes its endpoint, or departs.
LokiStep(from, to, u) ==
  /\ inputs.loki[u] \in from
  /\ Changed([inputs EXCEPT !.loki[u] = to], RelationOf[u])

LokiJoins(u) == LokiStep({"gone"}, "joined", u)
LokiPublishes(u) == LokiStep({"joined"}, "published", u)
LokiDeparts(u) == LokiStep({"joined", "published"}, "gone", u)

=============================================================================
