------------------------------- MODULE Workload -------------------------------
(***************************************************************************)
(* The outpost's Pebble service: _holistic_handler from its guards to the  *)
(* plan, PebbleService.plan, and the unit status collected at the end of a *)
(* hook.                                                                   *)
(***************************************************************************)
EXTENDS Container

\* NOOP_CONDITIONS.
Reconcilable == up /\ seen.server # "absent"

\* Mutant of ProviderStepSucceeds: consumers do not need the server's data.
ProviderNeedsNothing == TRUE

\* _ensure_ldap_provider returns False until the server-info data is complete.
ProviderStepSucceeds == seen.server = "ready"

\* The steps let the plan be made: the token is there and no step returned False.
CanPlan == seen.token /\ ProviderStepSucceeds

\* Mutant of Environment: the layer is built without it.
Bare == None

\* The environment _pebble_layer renders.
Environment == IF seen.server = "ready" /\ seen.token THEN seen.setting ELSE Blank

\* The steps before the plan, of which any may raise a CharmError; then add_layer combines the
\* layer into Pebble's plan.  Neither kind of failure ends the hook.
AddLayer ==
  /\ pc = "handle"
  /\ Reconcilable /\ CanPlan
  /\ planned' = Environment
  /\ service' = IF service = "absent" THEN "inactive" ELSE service
  /\ At("run")
  /\ UNCHANGED <<up, runs, check, latest, targets, sts, faults, changes>>

NoPlan ==
  /\ pc = "handle"
  /\ IF Reconcilable /\ CanPlan THEN Fault ELSE UNCHANGED faults
  /\ At("status")
  /\ UNCHANGED <<pebble, sts, changes>>

\* The process is started with the planned environment.
Started == service' = "active" /\ runs' = planned /\ latest' = "done"

\* It could not be executed, and stays inactive, or it exited at once.
StartFails ==
  /\ Fault
  /\ service' \in {"inactive", "error"} /\ runs' = None /\ latest' = "failed"

\* replan restarts a running service whose configuration has changed.
Outdated == runs # planned

\* Mutant of TakesEffect: plan starts the service even if it runs, which leaves it alone.
StartsOnly == service \notin {"absent", "active"}

\* plan replans a running service and starts any other.  A Pebble that has restarted since does
\* not know the service, and the start fails.
TakesEffect == service # "absent" /\ (service = "active" => Outdated)

\* What plan's call does; one to a Pebble that does not answer is logged.
Run ==
  /\ pc = "run"
  /\ \/ /\ up /\ TakesEffect
        /\ \/ Started /\ UNCHANGED faults
           \/ StartFails
     \/ /\ up /\ ~TakesEffect
        /\ UNCHANGED <<service, runs, latest, faults>>
     \/ /\ up => Fault
        /\ ~up => UNCHANGED faults
        /\ UNCHANGED <<service, runs, latest>>
  /\ At("status")
  /\ UNCHANGED <<up, planned, check, targets, sts, changes>>

-----------------------------------------------------------------------------
(* Status *)

\* Mutant of LastStartFailed: a service that is not running says nothing about its start.
IgnoresChanges == FALSE

\* _last_start_failed: a service that cannot be executed never leaves inactive.
LastStartFailed == latest = "failed"

IsFailing ==
  \/ service \in {"backoff", "error"}
  \/ service = "inactive" /\ LastStartFailed
  \/ service = "active" /\ check = "down"

IsRunning == service = "active" /\ check = "up"

\* The reasons _on_collect_status adds, and whether each blocks the unit or has it wait; the
\* status of the resource patch is added to them.
ServiceStatuses ==
  IF IsFailing THEN {"blocked"} ELSE IF IsRunning THEN {} ELSE {"waiting"}

\* ops reports the gravest.
Gravest(statuses) ==
  IF "blocked" \in statuses THEN "blocked"
  ELSE IF "waiting" \in statuses THEN "waiting" ELSE "active"

\* What precedes the look at the service returns at once.
Collected(patchStatus) ==
  IF ~up THEN "waiting"
  ELSE IF seen.server = "absent" THEN "blocked"
  ELSE IF seen.server # "ready" \/ ~seen.token THEN "waiting"
  ELSE Gravest(ServiceStatuses \union {patchStatus})

-----------------------------------------------------------------------------
(* What happens to the container *)

\* Its process ends; Pebble starts it again after a delay.
ServiceExits ==
  /\ service = "active" /\ Fault
  /\ service' = "backoff"
  /\ UNCHANGED <<juju, up, planned, runs, check, latest, targets, sts, changes>>

Backoff ==
  /\ service = "backoff"
  /\ service' = "active"
  /\ UNCHANGED <<juju, up, planned, runs, check, latest, targets, sts, faults, changes>>

\* The ready check fails ten times; it can while nothing listens.
CheckFails ==
  /\ up /\ service \notin {"absent", "active"} /\ check = "up"
  /\ check' = "down"
  /\ pending' = pending \union {"check"}
  /\ UNCHANGED <<inputs, event, seen, pc, status, up, planned, service, runs, latest, targets, sts,
                 faults, changes>>

CheckRecovers ==
  /\ up /\ service = "active" /\ check = "down"
  /\ check' = "up"
  /\ pending' = pending \union {"check"}
  /\ UNCHANGED <<inputs, event, seen, pc, status, up, planned, service, runs, latest, targets, sts,
                 faults, changes>>

\* The container is lost, and a running hook with it only if the whole pod is.
ContainerRestarts ==
  /\ up /\ Fault
  /\ up' = FALSE
  /\ Wiped
  /\ UNCHANGED <<juju, sts, changes>>

ContainerReady ==
  /\ ~up /\ sts.ready[This]
  /\ up' = TRUE
  /\ pending' = pending \union {"pebble-ready"}
  /\ UNCHANGED <<inputs, event, seen, pc, status, planned, service, runs, check, latest, targets,
                 sts, faults, changes>>

=============================================================================
