---------------------------------- MODULE Pod ----------------------------------
(***************************************************************************)
(* One unit of the charm in its pod: the hooks of Workload, LogForwarding  *)
(* and ResourcePatch one after another, interleaved with what happens to   *)
(* the container, to the StatefulSet, and to relations and configuration.  *)
(***************************************************************************)
EXTENDS Workload, LogForwarding, ResourcePatch

\* A pod that has just started: everything is still to be dispatched.  Its first rollout is
\* part of the behaviours that are about resources.
Init ==
  /\ focus \in DOMAIN Varying
  /\ inputs \in Initial
  /\ Vary(Usual, inputs)
  /\ pending = {"config-changed"} \union {RelationOf[u] : u \in {u \in LokiUnits : inputs.loki[u] # "gone"}}
  /\ event = "reconcile" /\ seen = Usual /\ pc = "idle" /\ status = "unset"
  /\ up = FALSE
  /\ planned = None /\ service = "absent" /\ runs = None /\ check = "up" /\ latest = "none"
  /\ targets = [u \in LokiUnits |-> "absent"]
  /\ \E t \in {IF focus = "resources" THEN Unpatched ELSE Resources(Usual.limit)} :
       sts = [template |-> t, unobserved |-> FALSE, updateRevision |-> t, currentRevision |-> t,
              pod |-> [p \in Pods |-> t], ready |-> [p \in Pods |-> TRUE]]
  /\ faults = 0 /\ changes = 0

\* Every store has its type; Pebble knows the service exactly when it has a plan of it, and a
\* service that is or was up runs with an environment.
TypeOK ==
  /\ inputs \in Inputs /\ seen \in Inputs
  /\ pending \subseteq Events /\ event \in Events
  /\ pc \in {"idle", "patch", "disable", "enable", "handle", "run", "status"}
  /\ status \in Statuses
  /\ up \in BOOLEAN /\ planned \in Environments \union {None}
  /\ service \in {"absent", "inactive", "active", "backoff", "error"}
  /\ runs \in Environments \union {None}
  /\ service = "absent" <=> planned = None
  /\ service \in {"active", "backoff"} => runs # None
  /\ check \in {"up", "down"} /\ latest \in {"none", "done", "failed"}
  /\ targets \in [LokiUnits -> {"absent", "on", "off"}]
  /\ sts \in StatefulSets
  /\ faults \in 0..MaxFaults /\ changes \in 0..MaxChanges /\ focus \in DOMAIN Varying

\* Whether collect-status gets as far as the service and the patch.
LooksAtService == up /\ seen.server = "ready" /\ seen.token

\* _on_collect_status, at the end of every hook.
Collect ==
  /\ pc = "status"
  /\ \/ ~LooksAtService /\ status' = Collected("active") /\ UNCHANGED faults
     \/ /\ LooksAtService /\ ~(IsValid(seen.limit) /\ Raises(seen.limit))
        /\ \E s \in Statuses : PatchStatus(s) /\ status' = Collected(s)
  /\ EndHook
  /\ UNCHANGED <<inputs, pending, pebble, sts, changes>>

CollectRaises ==
  /\ pc = "status" /\ LooksAtService /\ IsValid(seen.limit) /\ Raises(seen.limit)
  /\ HookError
  /\ UNCHANGED <<pebble, sts, faults, changes>>

HookStep ==
  \/ RejectLimits \/ RaiseOnLimits \/ Patch \/ PatchFails
  \/ SkipForwarding \/ Disable \/ Enable \/ ForwardingFails
  \/ AddLayer \/ NoPlan \/ Run
  \/ Collect \/ CollectRaises

ChangeServer == \E s \in {"absent", "related", "ready"} \ {inputs.server} :
  Changed([inputs EXCEPT !.server = s], "reconcile")

ChangeToken == Changed([inputs EXCEPT !.token = ~@], "reconcile")

ChangeSetting == \E s \in Settings \ {inputs.setting} :
  Changed([inputs EXCEPT !.setting = s], "config-changed")

ChangeLimit == \E l \in Limits \ {inputs.limit} :
  Changed([inputs EXCEPT !.limit = l], "config-changed")

Kubernetes == Observe \/ CompleteRollout \/ \E p \in Pods : ReplacePod(p) \/ PodReady(p)

Daemon == ContainerReady \/ Backoff \/ CheckRecovers

Keep(action) == action /\ UNCHANGED focus

Next ==
  \/ Keep(StartHook) \/ Keep(HookStep)
  \/ Keep(Kubernetes) \/ Keep(Daemon)
  \/ focus = "service" /\ Keep(ServiceExits \/ CheckFails)
  \/ focus # "resources" /\ Keep(ContainerRestarts)
  \/ Keep(ChangeServer \/ ChangeToken \/ ChangeSetting \/ ChangeLimit)
  \/ \E u \in LokiUnits : Keep(LokiJoins(u) \/ LokiPublishes(u) \/ LokiDeparts(u))

Spec == Init /\ [][Next]_vars

\* Juju dispatches what is pending and update-status, hooks go on, the StatefulSet controller and
\* Pebble do their work.  Nothing is asked of inputs and failures.
FairSpec ==
  /\ Spec
  /\ WF_vars(Keep(StartHook \/ HookStep))
  /\ WF_vars(Keep(Kubernetes \/ Daemon))

-----------------------------------------------------------------------------
(* Properties *)

\* The outpost is never planned without a host and a token: get_info may answer None while the
\* token of an earlier server is still there, and only the step before the plan prevents it.
NeverPlannedBlank == planned # Blank

\* A start that failed is reported: while the service has not run since and nothing it needs is
\* missing, a unit with no event waiting is blocked, whichever hooks have come in between.
FailedStartReported ==
  (pc = "idle" /\ pending = {} /\ up /\ latest = "failed" /\ service \in {"inactive", "error"}
     /\ inputs.server = "ready" /\ inputs.token)
    => status = "blocked"

\* When no event that concerns them is waiting, logs go to exactly the Loki units that can take
\* them, restarts of the container and failed hooks notwithstanding.  That the last endpoint has
\* gone is not noticed by the code.
TargetsCurrent ==
  (pc = "idle" /\ up /\ pending \intersect (Logging \union {"pebble-ready"}) = {}
     /\ EndpointsOf(inputs.loki) # {})
    => {u \in LokiUnits : targets[u] = "on"} = EndpointsOf(inputs.loki)

\* Kubernetes can schedule a pod from the template: no limit is below its request, and memory is
\* whole bytes.
TemplateSchedulable ==
  /\ sts.template.cpu # Unset => sts.template.cpu >= CpuRequest
  /\ sts.template.memory # Unset => sts.template.memory >= MemoryRequest
  /\ sts.template.memory % 1000 = 0

\* A unit reports active only when the rollout last completed is that of the present template, on
\* every pod, unless a failed call hid the rollout.  (Options changed back while they are rolled
\* out make the revision last completed the present one again, at once.)
ActiveMeansInEffect ==
  [][(pc = "status" /\ pc' = "idle" /\ status' = "active" /\ UNCHANGED <<sts, faults>>)
       => sts.template = sts.currentRevision]_vars

Servable == inputs.server = "ready" /\ inputs.token /\ ~(IsValid(inputs.limit) /\ Raises(inputs.limit))

\* Once it has what it needs, the outpost runs with the current environment and the unit says so,
\* unless its options are invalid: rollouts, restarts, failed starts and failed calls are repaired.
EventuallyServes ==
  <>[]Servable =>
    <>[](/\ service = "active" /\ runs = inputs.setting
         /\ status = IF IsValid(inputs.limit) THEN "active" ELSE "blocked")

\* Without failures, the options come into effect on every pod.
LimitsTakeEffect ==
  (<>[](IsValid(inputs.limit) /\ ~Raises(inputs.limit)) /\ [](faults = 0)) =>
    <>[](\A p \in Pods : sts.pod[p] = Resources(inputs.limit))

=============================================================================
