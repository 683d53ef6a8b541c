------------------------------- MODULE PodProofs -------------------------------
(***************************************************************************)
(* For any pods, Loki units, settings and limits, and any number of faults *)
(* and changes: the safety properties of Pod.                              *)
(*                                                                         *)
(* The reports and the log targets speak of a unit at rest, so their       *)
(* invariants (StatusInv, ForwardInv) say what a hook on its way has to    *)
(* know: that it sees the inputs as they are unless an event is pending    *)
(* that will bring another one.  Most steps are then one of few to Juju: a *)
(* hook moves on, it breaks and its event is pending again, or something   *)
(* arrives with an event of its own.                                       *)
(***************************************************************************)
EXTENDS Pod, TLAPS

-----------------------------------------------------------------------------
(* Types, by store *)

JujuOK ==
  /\ inputs \in Inputs /\ seen \in Inputs
  /\ pending \subseteq Events /\ event \in Events
  /\ pc \in {"idle", "patch", "disable", "enable", "handle", "run", "status"}
  /\ status \in Statuses

PebbleOK ==
  /\ up \in BOOLEAN /\ planned \in Environments \union {None}
  /\ service \in {"absent", "inactive", "active", "backoff", "error"}
  /\ runs \in Environments \union {None}
  /\ service = "absent" <=> planned = None
  /\ service \in {"active", "backoff"} => runs # None
  /\ check \in {"up", "down"} /\ latest \in {"none", "done", "failed"}
  /\ targets \in [LokiUnits -> {"absent", "on", "off"}]

BoundsOK == faults \in 0..MaxFaults /\ changes \in 0..MaxChanges

\* Next by the part of the code or of the surroundings that takes the step.
PatchStep == RejectLimits \/ RaiseOnLimits \/ Patch \/ PatchFails
ForwardStep == SkipForwarding \/ Disable \/ Enable \/ ForwardingFails
PlanStep == AddLayer \/ NoPlan \/ Run
StatusStep == Collect \/ CollectRaises
InputStep ==
  \/ ChangeServer \/ ChangeToken \/ ChangeSetting \/ ChangeLimit
  \/ \E u \in LokiUnits : LokiJoins(u) \/ LokiPublishes(u) \/ LokiDeparts(u)
ContainerStep ==
  ContainerReady \/ Backoff \/ CheckRecovers \/ ServiceExits \/ CheckFails \/ ContainerRestarts
Step ==
  \/ StartHook \/ PatchStep \/ ForwardStep \/ PlanStep \/ StatusStep
  \/ InputStep \/ Kubernetes \/ ContainerStep

\* Apart from the choice of what varies, Next is these.
LEMMA NextIsStep ==
  ASSUME Next
  PROVE  Step /\ UNCHANGED focus
  BY DEF Next, Keep, HookStep, Daemon, Step, PatchStep, ForwardStep, PlanStep, StatusStep,
    InputStep, ContainerStep

LEMMA TypeParts ==
  TypeOK <=> /\ JujuOK /\ PebbleOK /\ BoundsOK
             /\ sts \in StatefulSets /\ focus \in DOMAIN Varying
  BY DEF TypeOK, JujuOK, PebbleOK, BoundsOK

\* A failure is counted, so it shows.
LEMMA FaultCounts ==
  ASSUME BoundsOK, Fault
  PROVE  faults' \in 0..MaxFaults /\ faults' # faults
  BY PodAssumption DEF BoundsOK, Fault

LEMMA HookErrorJuju ==
  ASSUME JujuOK, HookError
  PROVE  JujuOK'
  BY InputsAssumption DEF JujuOK, HookError, EndHook, Events, Statuses

LEMMA AtJuju ==
  ASSUME JujuOK, NEW s \in {"patch", "disable", "enable", "handle", "run", "status"}, At(s)
  PROVE  JujuOK'
  BY DEF JujuOK, At

LEMMA JujuSteps ==
  ASSUME JujuOK, Step
  PROVE  JujuOK'
<1>1. CASE StartHook
  <2>1. PICK e \in Events : pc' = FirstStep(e) /\ event' = e /\ pending' = pending \ {e}
    BY <1>1 DEF StartHook, JujuOK, Events
  <2>2. FirstStep(e) \in {"patch", "disable", "status", "handle"}
    BY <2>1 DEF FirstStep
  <2>3. QED
    BY <1>1, <2>1, <2>2 DEF StartHook, JujuOK
<1>2. CASE PatchStep
  BY <1>2, HookErrorJuju, AtJuju DEF PatchStep, RejectLimits, RaiseOnLimits, Patch, PatchFails
<1>3. CASE ForwardStep
  BY <1>3, HookErrorJuju, AtJuju DEF ForwardStep, SkipForwarding, Disable, Enable,
    ForwardingFails, Forwarded
<1>4. CASE PlanStep
  BY <1>4, AtJuju DEF PlanStep, AddLayer, NoPlan, Run
<1>5. CASE StatusStep
  <2>1. CASE Collect
    <3>1. \A s \in Statuses : Collected(s) \in Statuses
      BY DEF Collected, Gravest, Statuses
    <3>2. status' \in Statuses
      BY <2>1, <3>1 DEF Collect, Statuses
    <3>3. QED
      BY <2>1, <3>2, InputsAssumption DEF Collect, EndHook, JujuOK, Events
  <2>2. QED
    BY <1>5, <2>1, HookErrorJuju DEF StatusStep, CollectRaises
<1>6. CASE InputStep
  <2>1. SUFFICES ASSUME NEW new \in Inputs, NEW e \in Events, Changed(new, e) PROVE JujuOK'
    BY <1>6 DEF JujuOK, InputStep, ChangeServer, ChangeToken, ChangeSetting, ChangeLimit,
      LokiJoins, LokiPublishes, LokiDeparts, LokiStep, Inputs, Events, Logging
  <2>2. QED
    BY <2>1 DEF Changed, JujuOK
<1>7. CASE Kubernetes
  BY <1>7, InputsAssumption DEF Kubernetes, Observe, CompleteRollout, ReplacePod, PodReady, juju,
    JujuOK, EndHook, Events
<1>8. CASE ContainerStep
  BY <1>8 DEF ContainerStep, ContainerReady, Backoff, CheckRecovers, ServiceExits, CheckFails,
    ContainerRestarts, juju, JujuOK, Events
<1>9. QED
  BY <1>1, <1>2, <1>3, <1>4, <1>5, <1>6, <1>7, <1>8 DEF Step

LEMMA PebbleSteps ==
  ASSUME JujuOK, PebbleOK, Step
  PROVE  PebbleOK'
<1>1. CASE StartHook \/ PatchStep \/ StatusStep \/ InputStep
  <2>1. UNCHANGED pebble
    BY <1>1 DEF StartHook, PatchStep, RejectLimits, RaiseOnLimits, Patch, PatchFails, StatusStep,
      Collect, CollectRaises, InputStep, ChangeServer, ChangeToken, ChangeSetting, ChangeLimit,
      LokiJoins, LokiPublishes, LokiDeparts, LokiStep, Changed
  <2>2. QED
    BY <2>1 DEF pebble, PebbleOK
<1>2. CASE ForwardStep
  BY <1>2 DEF ForwardStep, SkipForwarding, Disable, Enable, ForwardingFails, Combined, pebble,
    PebbleOK
<1>3. CASE PlanStep
  <2>1. CASE AddLayer
    <3>1. Environment \in Environments \ {None}
      BY InputsAssumption DEF Environment, Environments, JujuOK, Inputs, None, Blank
    <3>2. QED
      BY <2>1, <3>1 DEF AddLayer, PebbleOK
  <2>2. CASE NoPlan
    BY <2>2 DEF NoPlan, pebble, PebbleOK
  <2>3. CASE Run
    BY <2>3 DEF Run, TakesEffect, Started, StartFails, PebbleOK
  <2>4. QED
    BY <1>3, <2>1, <2>2, <2>3 DEF PlanStep
<1>4. CASE Kubernetes
  <2>1. (UNCHANGED pebble) \/ (up' = FALSE /\ Wiped)
    BY <1>4 DEF Kubernetes, Observe, CompleteRollout, ReplacePod, PodReady, pebble
  <2>2. QED
    BY <2>1 DEF pebble, Wiped, PebbleOK
<1>5. CASE ContainerStep
  BY <1>5 DEF ContainerStep, ContainerReady, Backoff, CheckRecovers, ServiceExits, CheckFails,
    ContainerRestarts, Wiped, PebbleOK
<1>6. QED
  BY <1>1, <1>2, <1>3, <1>4, <1>5 DEF Step

\* What the patch applies is a template.
LEMMA TemplateOfOptions ==
  ASSUME JujuOK, IsValid(seen.limit), ~Raises(seen.limit)
  PROVE  Resources(seen.limit) \in Templates
  BY DEF Templates, JujuOK, Inputs

LEMMA StatefulSetSteps ==
  ASSUME JujuOK, sts \in StatefulSets, Step
  PROVE  sts' \in StatefulSets
<1>1. CASE StartHook \/ ForwardStep \/ PlanStep \/ StatusStep \/ InputStep \/ ContainerStep
  BY <1>1 DEF StartHook, ForwardStep, SkipForwarding, Disable, Enable, ForwardingFails, PlanStep,
    AddLayer, NoPlan, Run, StatusStep, Collect, CollectRaises, InputStep, ChangeServer,
    ChangeToken, ChangeSetting, ChangeLimit, LokiJoins, LokiPublishes, LokiDeparts, LokiStep,
    Changed, ContainerStep, ContainerReady, Backoff, CheckRecovers, ServiceExits, CheckFails,
    ContainerRestarts
<1>2. CASE PatchStep
  BY <1>2, TemplateOfOptions DEF PatchStep, RejectLimits, RaiseOnLimits, Patch, PatchFails,
    StatefulSets
<1>3. CASE Observe \/ CompleteRollout
  BY <1>3 DEF Observe, CompleteRollout, StatefulSets
<1>4. CASE \E p \in Pods : ReplacePod(p) \/ PodReady(p)
  <2>1. PICK p \in Pods : ReplacePod(p) \/ PodReady(p)
    BY <1>4
  <2>2. PICK f \in [Pods -> Templates], g \in [Pods -> BOOLEAN] :
          sts' = [[sts EXCEPT !.pod = f] EXCEPT !.ready = g]
    <3>1. /\ [sts.pod EXCEPT ![p] = sts.updateRevision] \in [Pods -> Templates]
          /\ sts.pod \in [Pods -> Templates]
          /\ \A b \in BOOLEAN : [sts.ready EXCEPT ![p] = b] \in [Pods -> BOOLEAN]
      BY DEF StatefulSets
    <3>2. CASE ReplacePod(p)
      <4>1. sts' = [[sts EXCEPT !.pod = [sts.pod EXCEPT ![p] = sts.updateRevision]]
                    EXCEPT !.ready = [sts.ready EXCEPT ![p] = FALSE]]
        BY <3>2 DEF ReplacePod, StatefulSets
      <4>2. QED
        BY <3>1, <4>1
    <3>3. CASE PodReady(p)
      <4>1. sts' = [[sts EXCEPT !.pod = sts.pod] EXCEPT !.ready = [sts.ready EXCEPT ![p] = TRUE]]
        BY <3>3 DEF PodReady, StatefulSets
      <4>2. QED
        BY <3>1, <4>1
    <3>4. QED
      BY <2>1, <3>2, <3>3
  <2>3. QED
    BY <2>2 DEF StatefulSets
<1>5. QED
  BY <1>1, <1>2, <1>3, <1>4 DEF Step, Kubernetes

LEMMA BoundSteps ==
  ASSUME BoundsOK, Step
  PROVE  BoundsOK'
<1>1. CASE InputStep
  <2>1. changes < MaxChanges /\ changes' = changes + 1 /\ UNCHANGED faults
    BY <1>1 DEF InputStep, ChangeServer, ChangeToken, ChangeSetting, ChangeLimit, LokiJoins,
      LokiPublishes, LokiDeparts, LokiStep, Changed
  <2>2. changes' \in 0..MaxChanges
    BY <2>1, PodAssumption DEF BoundsOK
  <2>3. QED
    BY <2>1, <2>2 DEF BoundsOK
<1>2. CASE StartHook \/ Kubernetes \/ PatchStep \/ ForwardStep
  BY <1>2, FaultCounts DEF StartHook, Kubernetes, Observe, CompleteRollout, ReplacePod, PodReady,
    PatchStep, RejectLimits, RaiseOnLimits, Patch, PatchFails, ForwardStep, SkipForwarding,
    Disable, Enable, ForwardingFails, BoundsOK
<1>3. CASE PlanStep \/ StatusStep \/ ContainerStep
  BY <1>3, FaultCounts DEF PlanStep, AddLayer, NoPlan, Run, StartFails, StatusStep, Collect,
    PatchStatus, IsFailed, CollectRaises, ContainerStep, ContainerReady, Backoff, CheckRecovers,
    ServiceExits, CheckFails, ContainerRestarts, BoundsOK
<1>4. QED
  BY <1>1, <1>2, <1>3 DEF Step

\* Every store of the pod keeps its type, and Pebble's view of the service agrees with its plan
\* and with what the process was started with, whatever hooks, daemon and cluster do.
THEOREM PodTypeCorrect == Spec => []TypeOK
<1>1. Init => TypeOK
  <2>1. SUFFICES ASSUME Init PROVE TypeOK
    OBVIOUS
  <2>2. JujuOK
    BY <2>1, InputsAssumption DEF Init, JujuOK, Events, Logging, Statuses
  <2>3. PebbleOK
    BY <2>1 DEF Init, PebbleOK
  <2>4. Unpatched \in Templates /\ Resources(Usual.limit) \in Templates
    BY InputsAssumption, UsualAssumption DEF Templates, Inputs
  <2>5. sts \in StatefulSets
    BY <2>1, <2>4 DEF Init, StatefulSets
  <2>6. BoundsOK /\ focus \in DOMAIN Varying
    BY <2>1, PodAssumption DEF Init, BoundsOK
  <2>7. QED
    BY <2>2, <2>3, <2>5, <2>6, TypeParts
<1>2. TypeOK /\ [Next]_vars => TypeOK'
  <2>1. SUFFICES ASSUME TypeOK, [Next]_vars PROVE TypeOK'
    OBVIOUS
  <2>2. CASE Next
    <3>1. JujuOK' /\ PebbleOK' /\ sts' \in StatefulSets /\ BoundsOK' /\ focus' \in DOMAIN Varying
      BY <2>1, <2>2, NextIsStep, TypeParts, JujuSteps, PebbleSteps, StatefulSetSteps, BoundSteps
    <3>2. QED
      BY <3>1, TypeParts DEF TypeOK, JujuOK, PebbleOK, BoundsOK
  <2>3. CASE UNCHANGED vars
    BY <2>1, <2>3 DEF TypeOK, vars, juju, pebble
  <2>4. QED
    BY <2>1, <2>2, <2>3
<1>3. QED
  BY <1>1, <1>2, PTL DEF Spec

-----------------------------------------------------------------------------
(* Resources *)

\* Rounding makes whole bytes of every quantity.
LEMMA WholeBytesIsWhole ==
  ASSUME NEW m \in Nat
  PROVE  WholeBytes(m) \in Nat /\ WholeBytes(m) % 1000 = 0
  BY DEF WholeBytes

\* adjust_resource_requirements never sets a limit below the request.
LEMMA LimitCoversRequest ==
  ASSUME NEW option \in Nat, NEW request \in Nat
  PROVE  /\ Limit(option, request) \in {Unset, option, request}
         /\ Limit(option, request) # Unset => Limit(option, request) >= request
  BY DEF Limit, Bigger, Unset

\* No option the operator may set makes a template that Kubernetes cannot schedule.
THEOREM TemplatesAreSchedulable == Spec => []TemplateSchedulable
<1>1. TypeOK => TemplateSchedulable
  <2>1. SUFFICES ASSUME NEW t \in Templates
                 PROVE  /\ t.cpu # Unset => t.cpu >= CpuRequest
                        /\ t.memory # Unset => t.memory >= MemoryRequest
                        /\ t.memory % 1000 = 0
    BY DEF TypeOK, StatefulSets, TemplateSchedulable
  <2>2. CASE t = Unpatched
    BY <2>2 DEF Unpatched, Unset
  <2>3. CASE t # Unpatched
    <3>1. PICK l \in Limits : IsValid(l) /\ ~Raises(l) /\ t = Resources(l)
      BY <2>1, <2>3 DEF Templates
    <3>2. l.cpu \in Nat /\ l.memory \in Nat /\ CpuRequest \in Nat /\ MemoryRequest \in Nat
      BY <3>1, RequestsAssumption
    <3>3. t.cpu = Limit(l.cpu, CpuRequest) /\ t.memory = Limit(WholeBytes(l.memory), MemoryRequest)
      BY <3>1 DEF Resources
    <3>4. t.cpu # Unset => t.cpu >= CpuRequest
      BY <3>2, <3>3, LimitCoversRequest
    <3>5. WholeBytes(l.memory) \in Nat /\ WholeBytes(l.memory) % 1000 = 0
      BY <3>2, WholeBytesIsWhole
    <3>6. /\ t.memory \in {Unset, WholeBytes(l.memory), MemoryRequest}
          /\ t.memory # Unset => t.memory >= MemoryRequest
      BY <3>2, <3>3, <3>5, LimitCoversRequest
    <3>7. t.memory % 1000 = 0
      BY <3>5, <3>6, RequestsAssumption DEF Unset
    <3>8. QED
      BY <3>4, <3>6, <3>7
  <2>4. QED
    BY <2>2, <2>3
<1>2. QED
  BY <1>1, PodTypeCorrect, PTL

-----------------------------------------------------------------------------
(* What a step is to Juju *)

\* A hook goes on; nothing but the place it is at changes.
Moves ==
  /\ pc # "idle" /\ pc' # "idle"
  /\ UNCHANGED <<inputs, pending, event, seen, status>>

\* A hook raises, or dies with the pod: the event is pending again.
Breaks == pc' = "idle" /\ event \in pending' /\ pending \subseteq pending' /\ UNCHANGED inputs

\* The pod is replaced while no hook runs.
Replaced ==
  /\ pc = "idle" /\ pc' = "idle" /\ up' = FALSE
  /\ pending' # {} /\ pending \subseteq pending' /\ UNCHANGED inputs

\* Something happens that an event tells of.
Arrives(e) ==
  /\ pending' = pending \union {e}
  /\ UNCHANGED <<event, seen, pc, status>>

LEMMA HooksMoveOrBreak ==
  ASSUME PatchStep \/ ForwardStep \/ PlanStep
  PROVE  (Moves \/ Breaks) /\ pc # "idle"
<1>1. (HookError \/ \E s \in {"enable", "handle", "run", "status"} : At(s)) /\ pc # "idle"
  <2>1. CASE PatchStep
    BY <2>1 DEF PatchStep, RejectLimits, RaiseOnLimits, Patch, PatchFails
  <2>2. CASE ForwardStep
    BY <2>2 DEF ForwardStep, SkipForwarding, Disable, Enable, ForwardingFails, Forwarded
  <2>3. CASE PlanStep
    BY <2>3 DEF PlanStep, AddLayer, NoPlan, Run
  <2>4. QED
    BY <2>1, <2>2, <2>3
<1>2. QED
  BY <1>1 DEF HookError, EndHook, At, Moves, Breaks

LEMMA InputsArrive ==
  ASSUME InputStep
  PROVE  (\E e : Arrives(e)) /\ UNCHANGED pebble
  BY DEF InputStep, LokiJoins, LokiPublishes, LokiDeparts, LokiStep, ChangeServer, ChangeToken,
    ChangeSetting, ChangeLimit, Changed, Arrives

LEMMA LokiArrives ==
  ASSUME InputStep, inputs \in Inputs
  PROVE  \E e : Arrives(e) /\ (inputs'.loki # inputs.loki => e \in Logging)
<1>1. CASE \E u \in LokiUnits : LokiJoins(u) \/ LokiPublishes(u) \/ LokiDeparts(u)
  BY <1>1 DEF LokiJoins, LokiPublishes, LokiDeparts, LokiStep, Changed, Arrives, Logging
<1>2. CASE ChangeServer \/ ChangeToken \/ ChangeSetting \/ ChangeLimit
  <2>1. inputs'.loki = inputs.loki
    BY <1>2 DEF ChangeServer, ChangeToken, ChangeSetting, ChangeLimit, Changed, Inputs
  <2>2. QED
    BY <2>1, InputsArrive
<1>3. QED
  BY <1>1, <1>2 DEF InputStep

LEMMA KubernetesToJuju ==
  ASSUME Kubernetes
  PROVE  (UNCHANGED <<juju, pebble>>) \/ Replaced \/ (pc # "idle" /\ Breaks /\ up' = FALSE)
  BY DEF Kubernetes, Observe, CompleteRollout, ReplacePod, PodReady, EndHook, Replaced, Breaks,
    juju

LEMMA ContainerToJuju ==
  ASSUME ContainerStep
  PROVE  /\ UNCHANGED inputs
         /\ \/ (UNCHANGED juju)
            \/ \E e \in {"pebble-ready", "check"} : Arrives(e)
  BY DEF ContainerStep, ContainerReady, Backoff, CheckRecovers, ServiceExits, CheckFails,
    ContainerRestarts, Arrives, juju

-----------------------------------------------------------------------------
(* The service *)

\* Without a host and a token the steps before the plan prevent it.
THEOREM BlankIsNeverPlanned == Spec => []NeverPlannedBlank
<1>1. Init => NeverPlannedBlank
  BY DEF Init, NeverPlannedBlank, None, Blank
<1>2. TypeOK /\ NeverPlannedBlank /\ [Next]_vars => NeverPlannedBlank'
  <2>1. SUFFICES ASSUME TypeOK, NeverPlannedBlank, Next PROVE NeverPlannedBlank'
    BY DEF vars, pebble, NeverPlannedBlank
  <2>2. CASE AddLayer
    <3>1. planned' = seen.setting /\ seen.setting \in Settings
      BY <2>1, <2>2 DEF AddLayer, CanPlan, ProviderStepSucceeds, Environment, TypeOK, Inputs
    <3>2. QED
      BY <3>1, InputsAssumption DEF NeverPlannedBlank
  <2>3. CASE ~AddLayer
    <3>1. planned' \in {planned, None}
      <4>1. CASE StartHook \/ PatchStep \/ ForwardStep \/ PlanStep \/ StatusStep
        BY <2>3, <4>1 DEF StartHook, PatchStep, RejectLimits, RaiseOnLimits, Patch, PatchFails,
          ForwardStep, SkipForwarding, Disable, Enable, ForwardingFails, PlanStep, NoPlan, Run,
          StatusStep, Collect, CollectRaises, pebble
      <4>2. CASE InputStep
        BY <4>2, InputsArrive DEF pebble
      <4>3. CASE Kubernetes \/ ContainerStep
        BY <4>3 DEF Kubernetes, Observe, CompleteRollout, ReplacePod, PodReady, ContainerStep,
          ContainerReady, Backoff, CheckRecovers, ServiceExits, CheckFails, ContainerRestarts,
          Wiped, pebble
      <4>4. QED
        BY <2>1, NextIsStep, <4>1, <4>2, <4>3 DEF Step
    <3>2. QED
      BY <2>1, <3>1 DEF NeverPlannedBlank, None, Blank
  <2>4. QED
    BY <2>2, <2>3
<1>3. QED
  BY <1>1, <1>2, PodTypeCorrect, PTL DEF Spec

\* A hook with nothing pending behind it sees the inputs as they are.
InSight == pc # "idle" /\ pending = {} => seen = inputs

StatusInv == InSight /\ FailedStartReported

LEMMA HooksKeepStatus ==
  ASSUME StatusInv, Moves \/ Breaks
  PROVE  StatusInv'
  BY DEF StatusInv, InSight, FailedStartReported, Moves, Breaks

LEMMA ArrivalKeepsStatus ==
  ASSUME NEW e, Arrives(e)
  PROVE  StatusInv'
  BY DEF Arrives, StatusInv, InSight, FailedStartReported

\* A failed start is reported by the hook in which it failed, and by each one after it.
LEMMA CollectKeepsStatus ==
  ASSUME StatusInv, Collect
  PROVE  StatusInv'
<1>1. InSight'
  BY DEF Collect, EndHook, InSight
<1>2. ASSUME pending = {}, up, latest = "failed", service \in {"inactive", "error"},
             inputs.server = "ready", inputs.token
      PROVE  status' = "blocked"
  <2>1. seen = inputs
    BY <1>2 DEF StatusInv, InSight, Collect
  <2>2. LooksAtService
    BY <1>2, <2>1 DEF LooksAtService
  <2>3. \A s : Collected(s) = "blocked"
    BY <1>2, <2>1 DEF Collected, Gravest, ServiceStatuses, IsFailing, LastStartFailed
  <2>4. QED
    BY <2>2, <2>3 DEF Collect
<1>3. QED
  BY <1>1, <1>2 DEF StatusInv, FailedStartReported, Collect, pebble

LEMMA StatusSteps ==
  ASSUME StatusInv, Step
  PROVE  StatusInv'
<1>1. CASE StartHook
  <2>1. pc' # "idle"
    BY <1>1 DEF StartHook, FirstStep
  <2>2. QED
    BY <1>1, <2>1 DEF StartHook, StatusInv, InSight, FailedStartReported
<1>2. CASE PatchStep \/ ForwardStep \/ PlanStep
  BY <1>2, HooksMoveOrBreak, HooksKeepStatus
<1>3. CASE CollectRaises
  BY <1>3, HooksKeepStatus DEF CollectRaises, HookError, EndHook, Breaks
<1>4. CASE Collect
  BY <1>4, CollectKeepsStatus
<1>5. CASE InputStep
  BY <1>5, InputsArrive, ArrivalKeepsStatus
<1>6. CASE Kubernetes
  <2>1. CASE UNCHANGED <<juju, pebble>>
    BY <2>1 DEF juju, pebble, StatusInv, InSight, FailedStartReported
  <2>2. CASE Replaced
    BY <2>2 DEF Replaced, StatusInv, InSight, FailedStartReported
  <2>3. QED
    BY <1>6, <2>1, <2>2, KubernetesToJuju, HooksKeepStatus
<1>7. CASE ContainerStep
  <2>1. CASE UNCHANGED juju
    <3>1. \/ up' = FALSE
          \/ service' \in {"active", "backoff"}
          \/ UNCHANGED <<up, latest, service>>
          \/ \E e : Arrives(e)
      BY <1>7 DEF ContainerStep, ContainerReady, Backoff, CheckRecovers, ServiceExits,
        CheckFails, ContainerRestarts, Arrives
    <3>2. QED
      BY <2>1, <3>1, ArrivalKeepsStatus DEF juju, StatusInv, InSight, FailedStartReported
  <2>2. QED
    BY <1>7, <2>1, ContainerToJuju, ArrivalKeepsStatus
<1>8. QED
  BY <1>1, <1>2, <1>3, <1>4, <1>5, <1>6, <1>7 DEF Step, StatusStep

\* A failed start is reported whichever hooks follow it.
THEOREM FailedStartsAreReported == Spec => []FailedStartReported
<1>1. Init => StatusInv
  BY DEF Init, StatusInv, InSight, FailedStartReported
<1>2. StatusInv /\ [Next]_vars => StatusInv'
  <2>1. CASE UNCHANGED vars
    BY <2>1 DEF vars, juju, pebble, StatusInv, InSight, FailedStartReported
  <2>2. QED
    BY <2>1, NextIsStep, StatusSteps
<1>3. QED
  BY <1>1, <1>2, PTL DEF Spec, StatusInv

-----------------------------------------------------------------------------
(* Log targets *)

Pertinent == Logging \union {"pebble-ready"}

NoneDue == pending \intersect Pertinent = {}

On == {u \in LokiUnits : targets[u] = "on"}

\* The two calls are made in a hook for one of those events; with none pending the hook sees the
\* endpoints as they are, between the calls no target is on that should not be, and otherwise
\* the targets are right.
ForwardInv ==
  /\ pc \in {"disable", "enable"} => event \in Pertinent
  /\ pc # "idle" /\ NoneDue => seen.loki = inputs.loki
  /\ pc = "enable" /\ up /\ NoneDue => On \subseteq EndpointsOf(inputs.loki)
  /\ (pc \notin {"disable", "enable"} /\ up /\ NoneDue /\ EndpointsOf(inputs.loki) # {})
       => On = EndpointsOf(inputs.loki)

LEMMA EndpointsAreUnits ==
  ASSUME NEW loki
  PROVE  EndpointsOf(loki) \subseteq LokiUnits
  BY DEF EndpointsOf, Members

\* What a layer of log targets leaves on.
LEMMA CombinedOn ==
  ASSUME NEW units \in SUBSET LokiUnits, NEW state \in {"on", "off"},
         targets' = Combined(units, state)
  PROVE  On' = IF state = "on" THEN On \union units ELSE On \ units
  BY DEF Combined, On

\* A step that makes such an event pending, or leaves Pebble unreachable, has nothing to keep.
LEMMA DueKeepsForward ==
  ASSUME ForwardInv, pc' # "idle" => UNCHANGED <<pc, event>>,
         ~NoneDue' \/ (pc' = "idle" /\ up' = FALSE)
  PROVE  ForwardInv'
  BY DEF ForwardInv

\* A hook that breaks leaves its event pending.
LEMMA BreakKeepsForward ==
  ASSUME ForwardInv, Breaks, up' = FALSE \/ (UNCHANGED pebble)
  PROVE  ForwardInv'
<1>1. CASE up' = FALSE
  BY <1>1 DEF Breaks, ForwardInv
<1>2. CASE event \in Pertinent
  <2>1. ~NoneDue'
    BY <1>2 DEF Breaks, NoneDue
  <2>2. QED
    BY <2>1 DEF Breaks, ForwardInv
<1>3. CASE event \notin Pertinent /\ UNCHANGED pebble
  <2>1. NoneDue' => NoneDue
    BY DEF Breaks, NoneDue
  <2>2. QED
    BY <1>3, <2>1 DEF Breaks, ForwardInv, On, pebble
<1>4. QED
  BY <1>1, <1>2, <1>3

\* What does not touch the targets and tells of no such event keeps them right.
LEMMA OtherKeepsForward ==
  ASSUME ForwardInv, UNCHANGED <<pc, event, seen, targets>>, inputs'.loki = inputs.loki,
         pending \subseteq pending', up' => up \/ "pebble-ready" \in pending'
  PROVE  ForwardInv'
<1>1. CASE NoneDue'
  <2>1. NoneDue /\ (up' => up)
    BY <1>1 DEF NoneDue, Pertinent
  <2>2. QED
    BY <2>1 DEF ForwardInv, On
<1>2. CASE ~NoneDue'
  BY <1>2 DEF ForwardInv
<1>3. QED
  BY <1>1, <1>2

LEMMA ForwardSteps ==
  ASSUME TypeOK, ForwardInv, Step
  PROVE  ForwardInv'
<1>1. CASE StartHook
  <2>1. PICK e : /\ pc' = FirstStep(e) /\ event' = e /\ pending' = pending \ {e}
                 /\ e \in pending \union {"reconcile"}
    BY <1>1 DEF StartHook
  <2>2. CASE e \in Pertinent
    <3>1. pc' = "disable"
      BY <2>1, <2>2, EventsAssumption DEF FirstStep, Pertinent
    <3>2. QED
      BY <1>1, <2>1, <2>2, <3>1 DEF StartHook, ForwardInv
  <2>3. CASE e \notin Pertinent
    <3>1. pc' \notin {"disable", "enable", "idle"}
      BY <2>1, <2>3 DEF FirstStep, Pertinent
    <3>2. NoneDue' <=> NoneDue
      BY <2>1, <2>3 DEF NoneDue
    <3>3. QED
      BY <1>1, <3>1, <3>2 DEF StartHook, ForwardInv, pebble, On
  <2>4. QED
    BY <2>2, <2>3
<1>2. CASE PatchStep
  <2>1. pc = "patch" /\ UNCHANGED pebble /\ (At("handle") \/ HookError)
    BY <1>2 DEF PatchStep, RejectLimits, RaiseOnLimits, Patch, PatchFails
  <2>2. QED
    BY <1>2, <2>1, BreakKeepsForward DEF At, HookError, EndHook, Breaks, ForwardInv, NoneDue, On,
      pebble
<1>3. CASE ForwardStep
  <2>1. CASE SkipForwarding
    <3>1. \/ Endpoints = {}
          \/ ~up
      BY <2>1 DEF SkipForwarding
    <3>2. pc' \in {"handle", "status"} /\ pc = "disable"
      BY <2>1 DEF SkipForwarding, Forwarded, At
    <3>3. UNCHANGED <<inputs, pending, seen, pebble>>
      BY <2>1 DEF SkipForwarding, Forwarded, At
    <3>4. QED
      BY <3>1, <3>2, <3>3 DEF ForwardInv, Endpoints, NoneDue, On, pebble
  <2>2. CASE Disable
    <3>1. /\ pc = "disable" /\ pc' = "enable"
          /\ UNCHANGED <<inputs, pending, event, seen>>
      BY <2>2 DEF Disable, At
    <3>2. On' = On \ Inactive
      BY <2>2, CombinedOn DEF Disable, Inactive
    <3>3. On' \subseteq Endpoints
      BY <3>2 DEF Inactive, On
    <3>4. QED
      BY <3>1, <3>3 DEF ForwardInv, Endpoints, NoneDue
  <2>3. CASE Enable
    <3>1. /\ pc = "enable" /\ pc' \in {"handle", "status"} /\ up
          /\ UNCHANGED <<inputs, pending, event, seen>>
      BY <2>3 DEF Enable, Forwarded, At
    <3>2. On' = On \union Endpoints
      BY <2>3, CombinedOn, EndpointsAreUnits DEF Enable, Endpoints
    <3>3. QED
      BY <3>1, <3>2 DEF ForwardInv, Endpoints, NoneDue
  <2>4. CASE ForwardingFails
    BY <2>4, BreakKeepsForward DEF ForwardingFails, HookError, EndHook, Breaks
  <2>5. QED
    BY <1>3, <2>1, <2>2, <2>3, <2>4 DEF ForwardStep
<1>4. CASE PlanStep
  <2>1. /\ pc \in {"handle", "run"} /\ pc' \in {"run", "status"}
        /\ UNCHANGED <<inputs, pending, event, seen, up, targets>>
    BY <1>4 DEF PlanStep, AddLayer, NoPlan, Run, At, pebble
  <2>2. QED
    BY <2>1 DEF ForwardInv, NoneDue, On
<1>5. CASE StatusStep
  <2>1. CASE CollectRaises
    BY <2>1, BreakKeepsForward DEF CollectRaises, HookError, EndHook, Breaks
  <2>2. CASE Collect
    BY <2>2 DEF Collect, EndHook, ForwardInv, NoneDue, On, pebble
  <2>3. QED
    BY <1>5, <2>1, <2>2 DEF StatusStep
<1>6. CASE InputStep
  <2>1. PICK e : Arrives(e) /\ (inputs'.loki # inputs.loki => e \in Logging)
    BY <1>6, LokiArrives DEF TypeOK
  <2>2. CASE e \in Logging
    BY <2>1, <2>2, DueKeepsForward DEF Arrives, NoneDue, Pertinent
  <2>3. CASE e \notin Logging
    BY <1>6, <2>1, <2>3, InputsArrive, OtherKeepsForward DEF Arrives, pebble
  <2>4. QED
    BY <2>2, <2>3
<1>7. CASE Kubernetes
  <2>1. CASE UNCHANGED <<juju, pebble>>
    BY <2>1, OtherKeepsForward DEF juju, pebble
  <2>2. CASE Replaced
    BY <2>2, DueKeepsForward DEF Replaced
  <2>3. QED
    BY <1>7, <2>1, <2>2, KubernetesToJuju, BreakKeepsForward
<1>8. CASE ContainerStep
  <2>1. CASE ContainerRestarts
    BY <2>1 DEF ContainerRestarts, juju, ForwardInv, NoneDue
  <2>2. CASE ~ContainerRestarts
    <3>1. (UNCHANGED targets) /\ (up' => up \/ "pebble-ready" \in pending')
      BY <1>8, <2>2 DEF ContainerStep, ContainerReady, Backoff, CheckRecovers, ServiceExits,
        CheckFails
    <3>2. QED
      BY <1>8, <3>1, ContainerToJuju, OtherKeepsForward DEF juju, Arrives
  <2>3. QED
    BY <2>1, <2>2
<1>9. QED
  BY <1>1, <1>2, <1>3, <1>4, <1>5, <1>6, <1>7, <1>8 DEF Step

\* Logs go to exactly the Loki units that can take them, whatever container and hooks do.
THEOREM LogTargetsAreCurrent == Spec => []TargetsCurrent
<1>1. Init => ForwardInv
  BY DEF Init, ForwardInv
<1>2. TypeOK /\ ForwardInv /\ [Next]_vars => ForwardInv'
  <2>1. CASE UNCHANGED vars
    BY <2>1 DEF vars, juju, pebble, ForwardInv, NoneDue, On
  <2>2. QED
    BY <2>1, NextIsStep, ForwardSteps
<1>3. ForwardInv => TargetsCurrent
  BY DEF ForwardInv, TargetsCurrent, NoneDue, Pertinent, On
<1>4. QED
  BY <1>1, <1>2, <1>3, PodTypeCorrect, PTL DEF Spec

-----------------------------------------------------------------------------
(* The rollout *)

\* Once the controller has observed the template, it rolls that one out.
Observed == ~sts.unobserved => sts.updateRevision = sts.template

\* Only collect-status reports active, and only once the rollout is over.
LEMMA ReportsActive ==
  ASSUME TypeOK, Observed, Step, pc = "status", pc' = "idle", status' = "active",
         UNCHANGED <<sts, faults>>
  PROVE  sts.template = sts.currentRevision
<1>1. CASE Collect
  <2>1. ~LooksAtService => Collected("active") # "active"
    BY DEF LooksAtService, Collected
  <2>2. PICK s \in Statuses : PatchStatus(s) /\ Collected(s) = "active"
    BY <1>1, <2>1 DEF Collect
  <2>3. s \notin {"blocked", "waiting"}
    BY <1>1, <2>1, <2>2 DEF Collected, Gravest
  <2>4. ~Fault
    BY FaultCounts, TypeParts
  <2>5. ~InProgress
    BY <2>2, <2>3, <2>4 DEF PatchStatus, IsFailed
  <2>6. QED
    BY <2>5 DEF InProgress, Observed
<1>2. CASE Kubernetes
  <2>1. sts' # sts
    <3>1. Observe \/ CompleteRollout => sts' # sts
      BY DEF Observe, CompleteRollout, TypeOK, StatefulSets
    <3>2. ASSUME NEW p \in Pods, ReplacePod(p) \/ PodReady(p) PROVE sts' # sts
      <4>1. sts.pod \in [Pods -> Templates] /\ sts.ready \in [Pods -> BOOLEAN]
        BY DEF TypeOK, StatefulSets
      <4>2. CASE ReplacePod(p)
        <5>1. sts'.ready = [sts.ready EXCEPT ![p] = FALSE] /\ sts.ready[p]
          BY <4>2 DEF ReplacePod, TypeOK, StatefulSets
        <5>2. sts'.ready[p] # sts.ready[p]
          BY <4>1, <5>1
        <5>3. QED
          BY <5>2
      <4>3. CASE PodReady(p)
        <5>1. sts'.ready = [sts.ready EXCEPT ![p] = TRUE] /\ ~sts.ready[p]
          BY <4>3 DEF PodReady, TypeOK, StatefulSets
        <5>2. sts'.ready[p] # sts.ready[p]
          BY <4>1, <5>1
        <5>3. QED
          BY <5>2
      <4>4. QED
        BY <3>2, <4>2, <4>3
    <3>3. QED
      BY <1>2, <3>1, <3>2 DEF Kubernetes
  <2>2. QED
    BY <2>1
<1>3. CASE StartHook \/ CollectRaises \/ InputStep \/ ContainerStep
  BY <1>3, InputsArrive, ContainerToJuju DEF StartHook, CollectRaises, HookError, Arrives, juju
<1>4. CASE PatchStep \/ ForwardStep \/ PlanStep
  BY <1>4 DEF PatchStep, RejectLimits, RaiseOnLimits, Patch, PatchFails, ForwardStep,
    SkipForwarding, Disable, Enable, ForwardingFails, PlanStep, AddLayer, NoPlan, Run
<1>5. QED
  BY <1>1, <1>2, <1>3, <1>4 DEF Step, StatusStep

LEMMA ObservedSteps ==
  ASSUME TypeOK, Observed, Step
  PROVE  Observed'
<1>1. CASE StartHook \/ ForwardStep \/ PlanStep \/ StatusStep \/ InputStep \/ ContainerStep
  BY <1>1 DEF StartHook, ForwardStep, SkipForwarding, Disable, Enable, ForwardingFails, PlanStep,
    AddLayer, NoPlan, Run, StatusStep, Collect, CollectRaises, InputStep, ChangeServer,
    ChangeToken, ChangeSetting, ChangeLimit, LokiJoins, LokiPublishes, LokiDeparts, LokiStep,
    Changed, ContainerStep, ContainerReady, Backoff, CheckRecovers, ServiceExits, CheckFails,
    ContainerRestarts, Observed
<1>2. CASE PatchStep
  BY <1>2 DEF PatchStep, RejectLimits, RaiseOnLimits, Patch, PatchFails, TypeOK, StatefulSets,
    Observed
<1>3. CASE Observe \/ CompleteRollout
  BY <1>3 DEF Observe, CompleteRollout, TypeOK, StatefulSets, Observed
<1>4. CASE \E p \in Pods : ReplacePod(p) \/ PodReady(p)
  <2>1. /\ sts'.unobserved = sts.unobserved
        /\ sts'.updateRevision = sts.updateRevision
        /\ sts'.template = sts.template
    BY <1>4 DEF ReplacePod, PodReady, TypeOK, StatefulSets
  <2>2. QED
    BY <2>1 DEF Observed
<1>5. QED
  BY <1>1, <1>2, <1>3, <1>4 DEF Step, Kubernetes

\* A unit that reports active has the template rolled out.
THEOREM ActiveIsInEffect == Spec => ActiveMeansInEffect
<1>1. Init => Observed
  BY DEF Init, Observed
<1>2. TypeOK /\ Observed /\ [Next]_vars => Observed'
  <2>1. CASE UNCHANGED vars
    BY <2>1 DEF vars, Observed
  <2>2. QED
    BY <2>1, NextIsStep, ObservedSteps
<1>3. TypeOK /\ Observed /\ [Next]_vars =>
        [(pc = "status" /\ pc' = "idle" /\ status' = "active" /\ UNCHANGED <<sts, faults>>)
           => sts.template = sts.currentRevision]_vars
  <2>1. SUFFICES ASSUME TypeOK, Observed, Next, pc = "status", pc' = "idle", status' = "active",
                        UNCHANGED <<sts, faults>>, vars' # vars
                 PROVE  sts.template = sts.currentRevision
    OBVIOUS
  <2>2. QED
    BY <2>1, NextIsStep, ReportsActive
<1>4. QED
  BY <1>1, <1>2, <1>3, PodTypeCorrect, PTL DEF Spec, ActiveMeansInEffect

=============================================================================
