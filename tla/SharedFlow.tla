------------------------------ MODULE SharedFlow ------------------------------
(***************************************************************************)
(* What get_or_create_ldap_bind_flow promises to every deployment that     *)
(* shares one Authentik, whoever wins a race and whatever is retried: the  *)
(* flow is made once, only when the stages it needs exist, each stage is   *)
(* bound to it once, and a provider refers to it only when it is whole.    *)
(***************************************************************************)
EXTENDS Naturals

CONSTANTS
  Deployments,  \* applications of this charm that share the Authentik
  Stages,       \* default authentication stages the flow binds
  Blueprints    \* what Authentik applies by itself after its first boot

VARIABLES
  applied,  \* blueprints applied so far
  flow,     \* the flow exists
  bound,    \* stages bound to it
  users     \* deployments whose provider refers to it

vars == <<applied, flow, bound, users>>

\* An earlier run of the charm may have left a flow without all its bindings.
Init ==
  /\ applied \in SUBSET Blueprints
  /\ flow \in BOOLEAN
  /\ bound \in SUBSET Stages
  /\ bound \subseteq applied
  /\ ~flow => bound = {}
  /\ users = {}

Apply(b) ==
  /\ b \in Blueprints \ applied
  /\ applied' = applied \union {b}
  /\ UNCHANGED <<flow, bound, users>>

CreateFlow ==
  /\ ~flow
  /\ Stages \subseteq applied
  /\ flow' = TRUE
  /\ UNCHANGED <<applied, bound, users>>

Bind(s) ==
  /\ flow
  /\ s \in (Stages \intersect applied) \ bound
  /\ bound' = bound \union {s}
  /\ UNCHANGED <<applied, flow, users>>

CreateProvider(d) ==
  /\ flow /\ bound = Stages
  /\ d \in Deployments \ users
  /\ users' = users \union {d}
  /\ UNCHANGED <<applied, flow, bound>>

Next ==
  \/ CreateFlow
  \/ \E b \in Blueprints : Apply(b)
  \/ \E s \in Stages : Bind(s)
  \/ \E d \in Deployments : CreateProvider(d)

Spec == Init /\ [][Next]_vars

=============================================================================
