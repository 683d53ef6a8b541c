------------------------------- MODULE BindFlow -------------------------------
(***************************************************************************)
(* get_or_create_provider of several deployments on one Authentik, request *)
(* by request: what Provisioning takes as the single action EnsureProvider.*)
(* The bind flow it needs has one slug for all of them, so deployments     *)
(* race for it, and Authentik applies the stages it binds asynchronously   *)
(* after its first boot.                                                   *)
(***************************************************************************)
EXTENDS ApiRequest

CONSTANTS
  Stages,         \* the stages required_orders names, by their binding order
  Invalidation,   \* the default invalidation flow, also applied by a blueprint
  PageOf,         \* Stages -> the page of the stage list each is on
  MaxPages        \* pages _request_all reads before it gives up

Blueprints == Stages \union {Invalidation}

ASSUME StageAssumption == Stages \subseteq Nat /\ Invalidation \notin Stages
ASSUME PageAssumption ==
  MaxPages \in Nat \ {0} /\ PageOf \in [Stages -> 1..MaxPages]

VARIABLES
  \* Authentik's database
  applied,    \* blueprint objects that exist
  flow,       \* the bind flow exists
  bound,      \* stages bound to it
  provider,   \* whether the provider of a deployment exists
  pages,      \* how many pages the list of all stages fills
  \* the hook of each deployment
  pc,         \* its next request
  page,       \* the page of the stage list it is at
  seen,       \* stages it has read
  missing,    \* bindings it has still to create
  before      \* what was applied when it began to list the stages (history)

server == <<applied, flow, bound, provider, pages>>
hooks == <<pc, page, seen, missing, before>>
vars == <<server, hooks, requestVars>>

Steps ==
  {"lookup", "sync", "invalidation", "stages", "flow", "createFlow", "bindings", "bind", "create"}

Writes ==
  [op : {"createFlow"}] \union [op : {"bind"}, stage : Stages]
    \union [op : {"create"}, by : Deployments]

\* Every store has its type.
TypeOK ==
  /\ applied \subseteq Blueprints /\ flow \in BOOLEAN /\ bound \subseteq Stages
  /\ provider \in [Deployments -> BOOLEAN] /\ pages \in 1..MaxPages
  /\ pc \in [Deployments -> Steps \union {"idle"}]
  /\ page \in [Deployments -> 1..MaxPages]
  /\ seen \in [Deployments -> SUBSET Stages]
  /\ missing \in [Deployments -> SUBSET Stages]
  /\ before \in [Deployments -> SUBSET Blueprints]
  /\ \A d \in Deployments : pc[d] = "bind" => missing[d] # {}
  /\ attempt \in [Deployments -> 1..MaxAttempts]
  /\ late \subseteq Writes
  /\ faults \in 0..MaxFaults

Promised == INSTANCE SharedFlow WITH users <- {d \in Deployments : provider[d]}

Init ==
  /\ provider = [d \in Deployments |-> FALSE]
  /\ Promised!Init
  /\ pages \in {n \in 1..MaxPages : \A s \in Stages : PageOf[s] <= n}
  /\ pc = [d \in Deployments |-> "idle"]
  /\ page = [d \in Deployments |-> 1]
  /\ seen = [d \in Deployments |-> {}]
  /\ missing = [d \in Deployments |-> {}]
  /\ before = [d \in Deployments |-> {}]
  /\ attempt = [d \in Deployments |-> 1]
  /\ late = {}
  /\ faults = 0

-----------------------------------------------------------------------------
(* Authentik *)

\* The slug of the flow and the name of a provider are unique: a second one is refused.
Taken(w) ==
  \/ w.op = "createFlow" /\ flow
  \/ w.op = "create" /\ provider[w.by]

\* A binding that exists may be refused too; either way a stage is bound once.
MayRefuse(w) == Taken(w) \/ (w.op = "bind" /\ w.stage \in bound)

Carry(w) ==
  /\ flow' = (flow \/ w.op = "createFlow")
  /\ bound' = IF w.op = "bind" THEN bound \union {w.stage} ELSE bound
  /\ provider' = IF w.op = "create" THEN [provider EXCEPT ![w.by] = TRUE] ELSE provider
  /\ UNCHANGED <<applied, pages>>

Accept(w) == ~Taken(w) /\ Carry(w)

Apply(b) ==
  /\ b \in Blueprints \ applied
  /\ applied' = applied \union {b}
  /\ UNCHANGED <<flow, bound, provider, pages, hooks, requestVars>>

\* A write whose client stopped waiting for it arrives.
LateWrite(w) ==
  /\ w \in late
  /\ \/ Accept(w)
     \/ MayRefuse(w) /\ UNCHANGED server
  /\ late' = late \ {w}
  /\ UNCHANGED <<hooks, attempt, faults>>

-----------------------------------------------------------------------------
(* The hook of deployment d *)

At(d, step) == pc' = [pc EXCEPT ![d] = step]

\* Any AuthentikApiError ends the hook; a later hook begins anew.
Raise(d) == At(d, "idle") /\ UNCHANGED <<page, seen, missing, before>>

StartHook(d) ==
  /\ pc[d] = "idle"
  /\ At(d, "lookup")
  /\ UNCHANGED <<server, page, seen, missing, before, requestVars>>

\* Moves on without touching what the hook remembers.
Go(d, step) == At(d, step) /\ UNCHANGED <<page, seen, missing, before>>

Listed(d) == seen[d] \union {s \in Stages \intersect applied : PageOf[s] = page[d]}

\* Mutant of Turns: only the first page is read.
ReadsFirstPage(d) == FALSE

\* _request_all follows the next link.
Turns(d) == page[d] < pages

\* The loop is over before it can see that its last page had no next link.
GivesUp(d) == page[d] = MaxPages

\* Mutant of StagesReady: the flow is made from the stages there are.
AnyStage(d) == Listed(d) # {}

StagesReady(d) == Stages \subseteq Listed(d)

\* The answer to GET /stages/all/: a page of the list; after the last one the three stages are
\* resolved, before anything is created.
ReadStages(d) ==
  /\ seen' = [seen EXCEPT ![d] = Listed(d)]
  /\ UNCHANGED <<missing, before>>
  /\ IF GivesUp(d) THEN At(d, "idle") /\ UNCHANGED page
     ELSE IF Turns(d) THEN page' = [page EXCEPT ![d] = @ + 1] /\ UNCHANGED pc
     ELSE At(d, IF StagesReady(d) THEN "flow" ELSE "idle") /\ UNCHANGED page

\* Mutants of FlowFound: a flow is left as it was found; a flow is made without a look.
TrustFlow(d) == Go(d, IF flow THEN "create" ELSE "createFlow")
MakeFlow(d) == Go(d, "createFlow")

FlowFound(d) == Go(d, IF flow THEN "bindings" ELSE "createFlow")

\* The bindings still to be made; none, and the provider can be created.
BindNext(d, stages) ==
  /\ missing' = [missing EXCEPT ![d] = stages]
  /\ At(d, IF stages = {} THEN "create" ELSE "bind")
  /\ UNCHANGED <<page, seen, before>>

BeginStages(d) ==
  /\ At(d, "stages")
  /\ page' = [page EXCEPT ![d] = 1]
  /\ seen' = [seen EXCEPT ![d] = {}]
  /\ before' = [before EXCEPT ![d] = applied]
  /\ UNCHANGED missing

\* A read is answered.
Read(d) ==
  \/ pc[d] = "lookup" /\ Go(d, IF provider[d] THEN "sync" ELSE "invalidation")
  \/ pc[d] = "sync" /\ Go(d, "idle")
  \/ pc[d] = "invalidation" /\ IF Invalidation \in applied THEN BeginStages(d) ELSE Raise(d)
  \/ pc[d] = "stages" /\ ReadStages(d)
  \/ pc[d] = "flow" /\ FlowFound(d)
  \/ pc[d] = "bindings" /\ BindNext(d, Stages \ bound)

\* Bindings are created in the order of required_orders.
First(stages) == {s \in stages : \A other \in stages : s <= other}

\* The write d is at, if it is at one.
Sends(d) ==
  CASE pc[d] = "createFlow" -> {[op |-> "createFlow"]}
    [] pc[d] = "bind" -> [op : {"bind"}, stage : First(missing[d])]
    [] pc[d] = "create" -> [op : {"create"}, by : {d}]
    [] OTHER -> {}

\* Write w is answered.
Written(d, w) ==
  \/ pc[d] = "createFlow" /\ Go(d, "bindings")
  \/ pc[d] = "bind" /\ BindNext(d, missing[d] \ {w.stage})
  \/ pc[d] = "create" /\ Go(d, "idle")

Answered(d) ==
  /\ \/ Read(d) /\ UNCHANGED server
     \/ \E w \in Sends(d) : Written(d, w) /\ Accept(w)
  /\ NewRequest(d)
  /\ UNCHANGED <<late, faults>>

\* A 4xx answer: not transient.
Refuse(d) ==
  /\ \E w \in Sends(d) : MayRefuse(w)
  /\ Raise(d)
  /\ NewRequest(d)
  /\ UNCHANGED <<server, late, faults>>

\* An attempt of the request d is at fails with e.  A write was never received, or is carried out
\* nevertheless, or, when the client stopped waiting, is still on its way.
Fails(d, e) ==
  /\ pc[d] # "idle"
  /\ \/ Repeats(d, e) /\ UNCHANGED hooks
     \/ Surrenders(d, e) /\ Raise(d)
  /\ \/ (e \in TransientErrors \/ Sends(d) = {}) /\ UNCHANGED <<server, late>>
     \/ \E w \in Sends(d) : Accept(w) /\ UNCHANGED late
     \/ e = "connection" /\ \E w \in Sends(d) : late' = late \union {w} /\ UNCHANGED server

\* The charm's process is lost with its hook; what it has sent may still be on its way.
Crash(d) ==
  /\ pc[d] # "idle"
  /\ Fault
  /\ Raise(d) /\ NewRequest(d)
  /\ \/ UNCHANGED late
     \/ \E w \in Sends(d) : late' = late \union {w}
  /\ UNCHANGED server

Next ==
  \/ \E b \in Blueprints : Apply(b)
  \/ \E w \in late : LateWrite(w)
  \/ \E d \in Deployments :
       StartHook(d) \/ Answered(d) \/ Refuse(d) \/ Crash(d) \/ \E e \in Errors : Fails(d, e)

Spec == Init /\ [][Next]_vars

\* Authentik applies its blueprints, and Juju fires update-status and completes hooks.
FairSpec ==
  /\ Spec
  /\ \A b \in Blueprints : WF_vars(Apply(b))
  /\ \A d \in Deployments : WF_vars(StartHook(d)) /\ WF_vars(Answered(d) \/ Refuse(d))

-----------------------------------------------------------------------------
(* Properties *)

\* Whatever races, retries and late writes do, what happens to Authentik is what SharedFlow
\* promises: one flow, made when its stages exist, each stage bound to it once, and no provider
\* before the flow is whole.
KeepsPromise == Promised!Spec

\* A provider authenticates: the flow it refers to exists with every stage bound, so a bind over
\* LDAP does not end in a flow that authenticates nobody (the failure the docstring of
\* get_or_create_ldap_bind_flow describes).
ProviderAuthenticates == \A d \in Deployments : provider[d] => flow /\ bound = Stages

\* "Stages not ready yet" is said only if a stage was missing when the list was begun: a stage on
\* a later page, or one applied between two pages, never makes a hook give up.
UnreadyOnlyIfMissing ==
  [][\A d \in Deployments :
       (pc[d] = "stages" /\ pc'[d] = "idle" /\ faults' = faults /\ ~GivesUp(d))
         => ~(Stages \subseteq before[d])]_vars

\* Every deployment ends with its provider, provided the list of stages is shorter than the pages
\* _request_all reads: neither races nor faults leave anything that a later hook cannot repair.
EventuallyProvided ==
  pages < MaxPages => <>[](\A d \in Deployments : provider[d])

=============================================================================
