---------------------------- MODULE ResourcePatch ----------------------------
(***************************************************************************)
(* KubernetesComputeResourcesPatch: the cpu and memory options become the  *)
(* resources of the StatefulSet's template, which replaces the pods one by *)
(* one, this unit's included.  Quantities are in thousandths, so whole     *)
(* bytes are multiples of 1000.                                            *)
(***************************************************************************)
EXTENDS Container

CONSTANTS
  Invalid,       \* the value of an option that is no quantity, or a negative one
  MemoryRequest, \* the charm's request of memory
  CpuRequest     \* the charm's request of cpu

ASSUME RequestsAssumption ==
  /\ Limits \subseteq [cpu : Nat, memory : Nat]
  /\ CpuRequest \in Nat /\ MemoryRequest \in Nat /\ MemoryRequest % 1000 = 0

Unset == 0

Bigger(m, n) == IF m > n THEN m ELSE n

\* sanitize_resource_spec_dict rounds memory up to whole bytes.
WholeBytes(m) == 1000 * ((m + 999) \div 1000)

\* Less than a byte: the rounding divides by the whole bytes it has found, which raises an
\* InvalidOperation, and that is no ValueError.
Raises(limit) == limit.memory \in 1..999

IsValid(limit) == limit.cpu # Invalid /\ limit.memory # Invalid

\* Mutant of Limit: a limit is taken as it is set.
Trusting(option, request) == IF option = Unset THEN Unset ELSE option

\* An option left empty sets no limit; one below the request is raised to it.
Limit(option, request) == IF option = Unset THEN Unset ELSE Bigger(option, request)

\* What adjust_resource_requirements makes of valid options.
Resources(limit) ==
  [cpu |-> Limit(limit.cpu, CpuRequest),
   memory |-> Limit(WholeBytes(limit.memory), MemoryRequest), requests |-> TRUE]

ASSUME UsualAssumption == IsValid(Usual.limit) /\ ~Raises(Usual.limit)

Unpatched == [cpu |-> Unset, memory |-> Unset, requests |-> FALSE]

Templates == {Unpatched} \union {Resources(l) : l \in {l \in Limits : IsValid(l) /\ ~Raises(l)}}

\* The StatefulSet: its template, whether the controller has still to observe the last change of
\* it, the revisions it rolls out and has rolled out, each pod's revision and the pods that are
\* ready.  A revision is named by its template.
StatefulSets ==
  [template : Templates, unobserved : BOOLEAN, updateRevision : Templates,
   currentRevision : Templates, pod : [Pods -> Templates], ready : [Pods -> BOOLEAN]]

-----------------------------------------------------------------------------
(* config-changed *)

\* Invalid options: patch_failed runs the holistic handler, and so does config-changed after it.
RejectLimits ==
  /\ pc = "patch" /\ ~IsValid(seen.limit)
  /\ At("handle")
  /\ UNCHANGED <<pebble, sts, faults, changes>>

RaiseOnLimits ==
  /\ pc = "patch" /\ IsValid(seen.limit) /\ Raises(seen.limit)
  /\ HookError
  /\ UNCHANGED <<pebble, sts, faults, changes>>

\* apply: what the template has already is not patched again.
Patch ==
  /\ pc = "patch" /\ IsValid(seen.limit) /\ ~Raises(seen.limit)
  /\ sts' = IF sts.template = Resources(seen.limit) THEN sts
            ELSE [sts EXCEPT !.template = Resources(seen.limit), !.unobserved = TRUE]
  /\ At("handle")
  /\ UNCHANGED <<pebble, faults, changes>>

\* Kubernetes refuses, at once or after 20 seconds of retries, or it is not reached.
PatchFails ==
  /\ pc = "patch" /\ IsValid(seen.limit) /\ ~Raises(seen.limit)
  /\ Fault
  /\ At("handle") \/ HookError
  /\ UNCHANGED <<pebble, sts, changes>>

-----------------------------------------------------------------------------
(* The patch's part of the unit status *)

\* Kubernetes leaves out readyReplicas when it is zero, and then it is not compared.
ReadyReplicasLow == \E p, q \in Pods : sts.ready[p] /\ ~sts.ready[q]

\* Mutant of InProgress: the controller is taken to be prompt.
ComparesRevisions == ReadyReplicasLow \/ sts.updateRevision # sts.currentRevision

InProgress == sts.unobserved \/ ReadyReplicasLow \/ sts.updateRevision # sts.currentRevision

\* is_failed: options that are invalid, or that a dry run cannot apply.
IsFailed == IF IsValid(seen.limit) THEN Fault ELSE UNCHANGED faults

\* get_status; that the StatefulSet cannot be read is not taken for a failure.
PatchStatus(s) ==
  \/ IsFailed /\ s = "blocked"
  \/ IsValid(seen.limit) /\ Fault /\ s = "active"
  \/ IsValid(seen.limit) /\ s = (IF InProgress THEN "waiting" ELSE "active") /\ UNCHANGED faults

-----------------------------------------------------------------------------
(* Kubernetes *)

\* The controller observes the template and sets out to roll it out.
Observe ==
  /\ sts.unobserved
  /\ sts' = [sts EXCEPT !.unobserved = FALSE, !.updateRevision = sts.template]
  /\ UNCHANGED <<juju, pebble, faults, changes>>

\* It replaces the pods from the last to the first, each once all are ready.  A hook that
\* runs in this pod dies with it, and Juju runs it again.
ReplacePod(p) ==
  /\ sts.pod[p] # sts.updateRevision
  /\ \A q \in Pods : sts.ready[q] /\ (q > p => sts.pod[q] = sts.updateRevision)
  /\ sts' = [sts EXCEPT !.pod[p] = sts.updateRevision, !.ready[p] = FALSE]
  /\ IF p = This
       THEN /\ up' = FALSE /\ Wiped
            /\ EndHook
            /\ pending' = pending \union {"config-changed"} \union (IF pc = "idle" THEN {} ELSE {event})
       ELSE UNCHANGED <<pebble, pc, event, seen, pending>>
  /\ UNCHANGED <<inputs, status, faults, changes>>

PodReady(p) ==
  /\ ~sts.ready[p]
  /\ sts' = [sts EXCEPT !.ready[p] = TRUE]
  /\ UNCHANGED <<juju, pebble, faults, changes>>

\* The rollout is complete when every pod is updated and ready.
CompleteRollout ==
  /\ sts.currentRevision # sts.updateRevision
  /\ \A p \in Pods : sts.pod[p] = sts.updateRevision /\ sts.ready[p]
  /\ sts' = [sts EXCEPT !.currentRevision = sts.updateRevision]
  /\ UNCHANGED <<juju, pebble, faults, changes>>

=============================================================================
