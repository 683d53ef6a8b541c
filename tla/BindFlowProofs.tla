---------------------------- MODULE BindFlowProofs ----------------------------
(***************************************************************************)
(* For any number of deployments, stages, attempts and faults: a provider  *)
(* authenticates, and what the deployments do to Authentik together is     *)
(* what SharedFlow promises.                                               *)
(*                                                                         *)
(* Neither is inductive: a request of a hook relies on what the earlier    *)
(* ones ensured (Ensured), and a write that reaches Authentik after its    *)
(* client gave it up relies on what was so when it was sent (Entitled).    *)
(* Both survive whatever the others do, since Authentik's state only grows *)
(* (Grows).                                                                *)
(***************************************************************************)
EXTENDS BindFlow, TLAPS

\* What d has ensured when it is at a step.
Ensured(d) ==
  /\ pc[d] = "stages" => seen[d] \subseteq applied
  /\ pc[d] \in {"flow", "createFlow", "bindings", "bind", "create"} => Stages \subseteq applied
  /\ pc[d] \in {"bindings", "bind", "create"} => flow
  /\ pc[d] = "bind" => Stages \ missing[d] \subseteq bound
  /\ pc[d] = "create" => bound = Stages

\* A write on its way is one its client was entitled to.
Entitled(w) ==
  /\ Stages \subseteq applied
  /\ w.op \in {"bind", "create"} => flow
  /\ w.op = "create" => bound = Stages

IInv ==
  /\ TypeOK
  /\ \A d \in Deployments : Ensured(d)
  /\ \A w \in late : Entitled(w)
  /\ ProviderAuthenticates

\* What a step may do to Authentik.
Grows ==
  /\ applied \subseteq applied' /\ applied' \subseteq Blueprints
  /\ flow => flow'
  /\ flow' \in BOOLEAN
  /\ bound \subseteq bound' /\ bound' \subseteq Stages
  /\ provider' \in [Deployments -> BOOLEAN]
  /\ pages' = pages
  /\ ProviderAuthenticates'
  /\ [Promised!Next]_(Promised!vars)

\* A hook's part of the types.
HookTypeOK ==
  /\ pc \in [Deployments -> Steps \union {"idle"}]
  /\ page \in [Deployments -> 1..MaxPages]
  /\ seen \in [Deployments -> SUBSET Stages]
  /\ missing \in [Deployments -> SUBSET Stages]
  /\ before \in [Deployments -> SUBSET Blueprints]
  /\ \A d \in Deployments : pc[d] = "bind" => missing[d] # {}

RequestTypeOK ==
  /\ attempt \in [Deployments -> 1..MaxAttempts]
  /\ faults \in 0..MaxFaults

-----------------------------------------------------------------------------
(* Authentik *)

\* An unchanged Authentik is one that grows.
LEMMA IdleGrows ==
  ASSUME IInv, UNCHANGED server
  PROVE  Grows
  BY DEF IInv, TypeOK, Grows, server, ProviderAuthenticates, Promised!vars

\* A write its client is entitled to is a step SharedFlow allows, or changes nothing.
LEMMA AcceptGrows ==
  ASSUME IInv, NEW w \in Writes, Entitled(w), Accept(w)
  PROVE  Grows
<1> USE DEF IInv, TypeOK
<1>1. CASE w.op = "createFlow"
  <2>1. /\ flow' = TRUE /\ ~flow
        /\ UNCHANGED <<applied, bound, provider, pages>>
    BY <1>1 DEF Accept, Taken, Carry
  <2>2. Promised!CreateFlow
    BY <1>1, <2>1 DEF Promised!CreateFlow, Entitled
  <2>3. QED
    BY <2>1, <2>2 DEF Grows, ProviderAuthenticates, Promised!Next
<1>2. CASE w.op = "bind"
  <2>1. w.stage \in Stages
    BY <1>2 DEF Writes
  <2>2. /\ bound' = bound \union {w.stage}
        /\ flow' = flow /\ flow
        /\ UNCHANGED <<applied, provider, pages>>
    BY <1>2 DEF Accept, Carry, Entitled
  <2>3. Promised!Bind(w.stage) \/ UNCHANGED Promised!vars
    BY <1>2, <2>1, <2>2 DEF Promised!Bind, Promised!vars, Entitled
  <2>4. QED
    BY <2>1, <2>2, <2>3 DEF Grows, ProviderAuthenticates, Promised!Next
<1>3. CASE w.op = "create"
  <2>1. w.by \in Deployments
    BY <1>3 DEF Writes
  <2>2. /\ provider' = [provider EXCEPT ![w.by] = TRUE] /\ ~provider[w.by]
        /\ flow' = flow /\ flow /\ bound = Stages
        /\ UNCHANGED <<applied, bound, pages>>
    BY <1>3 DEF Accept, Taken, Carry, Entitled
  <2>3. Promised!CreateProvider(w.by)
    BY <2>1, <2>2 DEF Promised!CreateProvider
  <2>4. QED
    BY <2>1, <2>2, <2>3 DEF Grows, ProviderAuthenticates, Promised!Next
<1>4. QED
  BY <1>1, <1>2, <1>3 DEF Writes

\* The blueprints only add to it.
LEMMA ApplyGrows ==
  ASSUME IInv, NEW b \in Blueprints, Apply(b)
  PROVE  Grows
<1>1. Promised!Apply(b)
  BY DEF Apply, Promised!Apply, Blueprints
<1>2. QED
  BY <1>1 DEF IInv, TypeOK, Apply, Grows, ProviderAuthenticates, Promised!Next, Blueprints

\* What a hook has ensured and a write relies on stays so.
LEMMA EnsuredStays ==
  ASSUME IInv, Grows, NEW d \in Deployments,
         pc'[d] = pc[d], seen'[d] = seen[d], missing'[d] = missing[d]
  PROVE  Ensured(d)'
  BY DEF IInv, TypeOK, Grows, Ensured

LEMMA EntitledStays ==
  ASSUME IInv, Grows, NEW w, Entitled(w)
  PROVE  Entitled(w)'
  BY DEF IInv, TypeOK, Grows, Entitled

\* A hook sends only what it is entitled to.
LEMMA SendsEntitled ==
  ASSUME IInv, NEW d \in Deployments, NEW w \in Sends(d)
  PROVE  w \in Writes /\ Entitled(w)
<1> USE DEF IInv, TypeOK, Ensured, Entitled
<1>1. CASE pc[d] = "createFlow"
  BY <1>1 DEF Sends, Writes
<1>2. CASE pc[d] = "bind"
  <2>1. w \in [op : {"bind"}, stage : First(missing[d])]
    BY <1>2 DEF Sends
  <2>2. w.op = "bind" /\ w \in Writes
    BY <2>1 DEF First, Writes
  <2>3. QED
    BY <1>2, <2>2
<1>3. CASE pc[d] = "create"
  BY <1>3 DEF Sends, Writes
<1>4. CASE pc[d] \notin {"createFlow", "bind", "create"}
  BY <1>4 DEF Sends
<1>5. QED
  BY <1>1, <1>2, <1>3, <1>4

-----------------------------------------------------------------------------
(* The hooks *)

\* Deployment d is the only one whose hook changes, and it keeps its type.
Moves(d) ==
  /\ HookTypeOK'
  /\ \A other \in Deployments \ {d} :
       pc'[other] = pc[other] /\ seen'[other] = seen[other] /\ missing'[other] = missing[other]

LEMMA RaiseMoves ==
  ASSUME IInv, NEW d \in Deployments, Raise(d)
  PROVE  Moves(d) /\ Ensured(d)'
  BY DEF IInv, TypeOK, Raise, At, Moves, HookTypeOK, Ensured

LEMMA GoMoves ==
  ASSUME IInv, NEW d \in Deployments, NEW step \in (Steps \union {"idle"}) \ {"bind"}, Go(d, step)
  PROVE  /\ Moves(d) /\ pc'[d] = step
         /\ seen'[d] = seen[d]
  BY DEF IInv, TypeOK, Go, At, Moves, HookTypeOK

LEMMA BindNextMoves ==
  ASSUME IInv, Grows, NEW d \in Deployments, NEW stages \in SUBSET Stages, BindNext(d, stages),
         Stages \subseteq applied, flow', Stages \ stages \subseteq bound'
  PROVE  Moves(d) /\ Ensured(d)'
<1>1. Moves(d)
  BY DEF IInv, TypeOK, BindNext, At, Moves, HookTypeOK, Steps
<1>2. /\ missing'[d] = stages
      /\ pc'[d] = IF stages = {} THEN "create" ELSE "bind"
  BY DEF IInv, TypeOK, BindNext, At
<1>3. Ensured(d)'
  BY <1>2 DEF Ensured, Grows
<1>4. QED
  BY <1>1, <1>3

LEMMA ReadMoves ==
  ASSUME IInv, NEW d \in Deployments, Read(d), UNCHANGED server
  PROVE  Moves(d) /\ Ensured(d)'
<1> USE DEF IInv, TypeOK, server
<1>1. CASE pc[d] = "lookup" /\ Go(d, IF provider[d] THEN "sync" ELSE "invalidation")
  BY <1>1, GoMoves DEF Steps, Ensured
<1>2. CASE pc[d] = "sync" /\ Go(d, "idle")
  BY <1>2, GoMoves DEF Ensured
<1>3. CASE pc[d] = "invalidation" /\ IF Invalidation \in applied THEN BeginStages(d) ELSE Raise(d)
  <2>1. CASE Raise(d)
    BY <2>1, RaiseMoves
  <2>2. CASE BeginStages(d)
    <3>1. Moves(d)
      BY <2>2, PageAssumption DEF BeginStages, At, Moves, HookTypeOK, Steps
    <3>2. pc'[d] = "stages" /\ seen'[d] = {}
      BY <2>2 DEF BeginStages, At
    <3>3. QED
      BY <3>1, <3>2 DEF Ensured
  <2>3. QED
    BY <1>3, <2>1, <2>2
<1>4. CASE pc[d] = "stages" /\ ReadStages(d)
  <2>1. Listed(d) \subseteq Stages \intersect applied
    BY <1>4 DEF Listed, Ensured
  <2>2. /\ seen' = [seen EXCEPT ![d] = Listed(d)]
        /\ UNCHANGED <<missing, before>>
    BY <1>4 DEF ReadStages
  <2>3. CASE At(d, "idle") /\ UNCHANGED page
    BY <2>1, <2>2, <2>3 DEF At, Moves, HookTypeOK, Ensured
  <2>4. CASE Turns(d) /\ ~GivesUp(d) /\ page' = [page EXCEPT ![d] = @ + 1] /\ UNCHANGED pc
    <3>1. page[d] + 1 \in 1..MaxPages
      BY <2>4, PageAssumption DEF GivesUp
    <3>2. QED
      BY <1>4, <2>1, <2>2, <2>4, <3>1 DEF Moves, HookTypeOK, Ensured
  <2>5. CASE StagesReady(d) /\ At(d, "flow") /\ UNCHANGED page
    BY <2>1, <2>2, <2>5 DEF At, Moves, HookTypeOK, Ensured, Steps, StagesReady
  <2>6. QED
    BY <1>4, <2>3, <2>4, <2>5 DEF ReadStages
<1>5. CASE pc[d] = "flow" /\ FlowFound(d)
  <2>1. Go(d, IF flow THEN "bindings" ELSE "createFlow")
    BY <1>5 DEF FlowFound
  <2>2. Moves(d) /\ pc'[d] = IF flow THEN "bindings" ELSE "createFlow"
    BY <2>1, GoMoves DEF Steps
  <2>3. QED
    BY <1>5, <2>2 DEF Ensured
<1>6. CASE pc[d] = "bindings" /\ BindNext(d, Stages \ bound)
  BY <1>6, IdleGrows, BindNextMoves DEF Ensured
<1>7. QED
  BY <1>1, <1>2, <1>3, <1>4, <1>5, <1>6 DEF Read

LEMMA WrittenMoves ==
  ASSUME IInv, NEW d \in Deployments, NEW w \in Sends(d), Written(d, w), Accept(w), Grows
  PROVE  Moves(d) /\ Ensured(d)'
<1> USE DEF IInv, TypeOK
<1>1. CASE pc[d] = "createFlow" /\ Go(d, "bindings")
  <2>1. w = [op |-> "createFlow"]
    BY <1>1 DEF Sends
  <2>2. flow' = (flow \/ w.op = "createFlow")
    BY DEF Accept, Carry
  <2>3. Moves(d) /\ pc'[d] = "bindings"
    BY <1>1, GoMoves DEF Steps
  <2>4. QED
    BY <1>1, <2>1, <2>2, <2>3 DEF Ensured, Grows
<1>2. CASE pc[d] = "bind" /\ BindNext(d, missing[d] \ {w.stage})
  <2>1. w \in [op : {"bind"}, stage : First(missing[d])]
    BY <1>2 DEF Sends
  <2>2. w.op = "bind"
    BY <2>1
  <2>3. bound' = bound \union {w.stage}
    BY <2>2 DEF Accept, Carry
  <2>4. Stages \ (missing[d] \ {w.stage}) \subseteq bound' /\ flow' /\ Stages \subseteq applied
    BY <1>2, <2>3 DEF Ensured, Grows
  <2>5. QED
    BY <1>2, <2>4, BindNextMoves
<1>3. CASE pc[d] = "create" /\ Go(d, "idle")
  BY <1>3, GoMoves DEF Ensured
<1>4. QED
  BY <1>1, <1>2, <1>3 DEF Written

-----------------------------------------------------------------------------
(* The steps *)

\* A step of d that lets Authentik grow keeps the invariant.
LEMMA MoveKeeps ==
  ASSUME IInv, Grows, NEW d \in Deployments, Moves(d), Ensured(d)', RequestTypeOK',
         late' \subseteq late \union Sends(d)
  PROVE  IInv'
<1>1. TypeOK'
  BY SendsEntitled DEF IInv, TypeOK, Grows, Moves, HookTypeOK, RequestTypeOK
<1>2. \A other \in Deployments : Ensured(other)'
  BY EnsuredStays DEF Moves
<1>3. ASSUME NEW w \in late' PROVE Entitled(w)'
  BY <1>3, SendsEntitled, EntitledStays DEF IInv
<1>4. QED
  BY <1>1, <1>2, <1>3 DEF IInv, Grows

LEMMA AnsweredKeeps ==
  ASSUME IInv, NEW d \in Deployments, Answered(d)
  PROVE  IInv' /\ Grows
<1>1. RequestTypeOK' /\ late' = late
  BY AttemptAssumption DEF IInv, TypeOK, Answered, NewRequest, RequestTypeOK
<1>2. CASE Read(d) /\ UNCHANGED server
  BY <1>1, <1>2, IdleGrows, ReadMoves, MoveKeeps
<1>3. CASE \E w \in Sends(d) : Written(d, w) /\ Accept(w)
  BY <1>1, <1>3, SendsEntitled, AcceptGrows, WrittenMoves, MoveKeeps
<1>4. QED
  BY <1>2, <1>3 DEF Answered

LEMMA RefuseKeeps ==
  ASSUME IInv, NEW d \in Deployments, Refuse(d)
  PROVE  IInv' /\ Grows
<1>1. RequestTypeOK' /\ late' = late
  BY AttemptAssumption DEF IInv, TypeOK, Refuse, NewRequest, RequestTypeOK
<1>2. QED
  BY <1>1, IdleGrows, RaiseMoves, MoveKeeps DEF Refuse

LEMMA CrashKeeps ==
  ASSUME IInv, NEW d \in Deployments, Crash(d)
  PROVE  IInv' /\ Grows
<1>1. RequestTypeOK' /\ late' \subseteq late \union Sends(d)
  BY AttemptAssumption DEF IInv, TypeOK, Crash, Fault, NewRequest, RequestTypeOK
<1>2. QED
  BY <1>1, IdleGrows, RaiseMoves, MoveKeeps DEF Crash

LEMMA FailsKeeps ==
  ASSUME IInv, NEW d \in Deployments, NEW e \in Errors, Fails(d, e)
  PROVE  IInv' /\ Grows
<1>1. RequestTypeOK'
  BY AttemptAssumption
  DEF IInv, TypeOK, Fails, Fault, Repeats, Surrenders, NewRequest, RequestTypeOK
<1>2. late' \subseteq late \union Sends(d)
  BY DEF Fails
<1>3. Grows
  BY IdleGrows, SendsEntitled, AcceptGrows DEF Fails
<1>4. Moves(d) /\ Ensured(d)'
  <2>1. CASE UNCHANGED hooks
    BY <1>3, <2>1, EnsuredStays DEF IInv, TypeOK, hooks, Moves, HookTypeOK
  <2>2. CASE Raise(d)
    BY <2>2, RaiseMoves
  <2>3. QED
    BY <2>1, <2>2 DEF Fails
<1>5. QED
  BY <1>1, <1>2, <1>3, <1>4, MoveKeeps

\* A step that touches no hook.
LEMMA EnvironmentKeeps ==
  ASSUME IInv, Grows, UNCHANGED <<hooks, attempt, faults>>, late' \subseteq late
  PROVE  IInv'
<1>1. TypeOK'
  BY DEF IInv, TypeOK, Grows, hooks
<1>2. \A d \in Deployments : Ensured(d)'
  BY EnsuredStays DEF hooks
<1>3. \A w \in late' : Entitled(w)'
  BY EntitledStays DEF IInv
<1>4. QED
  BY <1>1, <1>2, <1>3 DEF IInv, Grows

LEMMA NextKeeps ==
  ASSUME IInv, Next
  PROVE  IInv' /\ Grows
<1>1. ASSUME NEW b \in Blueprints, Apply(b) PROVE IInv' /\ Grows
  <2>1. UNCHANGED <<hooks, attempt, faults>> /\ late' = late
    BY <1>1 DEF Apply, requestVars
  <2>2. QED
    BY <1>1, <2>1, ApplyGrows, EnvironmentKeeps
<1>2. ASSUME NEW w \in late, LateWrite(w) PROVE IInv' /\ Grows
  <2>1. w \in Writes /\ Entitled(w)
    BY DEF IInv, TypeOK
  <2>2. Grows
    BY <1>2, <2>1, AcceptGrows, IdleGrows DEF LateWrite
  <2>3. QED
    BY <1>2, <2>2, EnvironmentKeeps DEF LateWrite
<1>3. ASSUME NEW d \in Deployments, StartHook(d) PROVE IInv' /\ Grows
  <2>1. Moves(d) /\ pc'[d] = "lookup"
    BY <1>3 DEF IInv, TypeOK, StartHook, At, Moves, HookTypeOK, Steps
  <2>2. RequestTypeOK' /\ late' = late /\ UNCHANGED server
    BY <1>3 DEF IInv, TypeOK, StartHook, requestVars, RequestTypeOK
  <2>3. QED
    BY <2>1, <2>2, IdleGrows, MoveKeeps DEF Ensured
<1>4. QED
  BY <1>1, <1>2, <1>3, AnsweredKeeps, RefuseKeeps, CrashKeeps, FailsKeeps DEF Next

-----------------------------------------------------------------------------
(* The theorems *)

LEMMA InitHolds == ASSUME Init PROVE IInv
  BY AttemptAssumption, PageAssumption
  DEF Init, Promised!Init, IInv, TypeOK, Ensured, ProviderAuthenticates, Blueprints

LEMMA Invariance == Spec => []IInv
<1>1. Init => IInv
  BY InitHolds
<1>2. IInv /\ [Next]_vars => IInv'
  <2> SUFFICES ASSUME IInv, [Next]_vars PROVE IInv'
    OBVIOUS
  <2>1. CASE Next
    BY <2>1, NextKeeps
  <2>2. CASE UNCHANGED vars
    <3>1. UNCHANGED server /\ UNCHANGED <<hooks, attempt, faults>> /\ late' \subseteq late
      BY <2>2 DEF vars, requestVars
    <3>2. QED
      BY <3>1, IdleGrows, EnvironmentKeeps
  <2>3. QED
    BY <2>1, <2>2
<1>3. QED
  BY <1>1, <1>2, PTL DEF Spec

\* Every store of the request-level model keeps its type.
THEOREM BindFlowTypeCorrect == Spec => []TypeOK
<1>1. IInv => TypeOK
  BY DEF IInv
<1>2. QED
  BY <1>1, Invariance, PTL

\* No deployment ever has a provider whose flow lacks a stage, whatever the races, retries, late
\* writes and lost hooks of get_or_create_ldap_bind_flow.
THEOREM ProvidersAuthenticate == Spec => []ProviderAuthenticates
<1>1. IInv => ProviderAuthenticates
  BY DEF IInv
<1>2. QED
  BY <1>1, Invariance, PTL

\* The requests of all deployments together implement SharedFlow.
THEOREM BindFlowKeepsPromise == Spec => KeepsPromise
<1>1. Init => Promised!Init
  BY DEF Init
<1>2. IInv /\ [Next]_vars => [Promised!Next]_(Promised!vars)
  <2> SUFFICES ASSUME IInv, [Next]_vars PROVE [Promised!Next]_(Promised!vars)
    OBVIOUS
  <2>1. CASE Next
    BY <2>1, NextKeeps DEF Grows
  <2>2. CASE UNCHANGED vars
    BY <2>2, IdleGrows DEF vars, Grows
  <2>3. QED
    BY <2>1, <2>2
<1>3. QED
  BY <1>1, <1>2, Invariance, PTL DEF Spec, KeepsPromise, Promised!Spec

-----------------------------------------------------------------------------
(* The list of stages *)

\* What was applied when the list was begun has been read as far as the list has been read.
ListInv ==
  /\ \A s \in Stages : PageOf[s] <= pages
  /\ \A d \in Deployments :
       /\ before[d] \subseteq applied
       /\ pc[d] = "stages" =>
            \A s \in Stages \intersect before[d] : PageOf[s] < page[d] => s \in seen[d]

\* What a step may do to the list that the hook of d reads.
KeepsList(d) ==
  /\ pc'[d] = pc[d] /\ page'[d] = page[d] /\ seen'[d] = seen[d] /\ before'[d] = before[d]
LeavesList(d) == pc'[d] # "stages" /\ before'[d] = before[d]
BeginsList(d) == page'[d] = 1 /\ before'[d] = applied
TurnsPage(d) ==
  /\ pc[d] = "stages" /\ page'[d] = page[d] + 1 /\ seen'[d] = Listed(d) /\ before'[d] = before[d]
Reads(d) == KeepsList(d) \/ LeavesList(d) \/ BeginsList(d) \/ TurnsPage(d)

LEMMA GoReads ==
  ASSUME TypeOK, NEW d \in Deployments, NEW step, step # "stages",
         At(d, step), UNCHANGED <<page, seen, before>>
  PROVE  \A c \in Deployments : Reads(c)
  BY DEF TypeOK, At, Reads, KeepsList, LeavesList

LEMMA AnswerReads ==
  ASSUME TypeOK, NEW d \in Deployments, Answered(d)
  PROVE  \A c \in Deployments : Reads(c)
<1>1. CASE pc[d] = "invalidation" /\ BeginStages(d)
  BY <1>1 DEF BeginStages, At, TypeOK, Reads, KeepsList, BeginsList
<1>2. CASE pc[d] = "stages" /\ ReadStages(d)
  <2>1. CASE ~GivesUp(d) /\ Turns(d)
    BY <1>2, <2>1 DEF ReadStages, TypeOK, Reads, KeepsList, TurnsPage
  <2>2. CASE GivesUp(d) \/ ~Turns(d)
    <3>1. PICK step \in {"idle", "flow"} : At(d, step) /\ UNCHANGED <<page, before>>
      BY <1>2, <2>2 DEF ReadStages
    <3>2. QED
      BY <1>2, <3>1 DEF ReadStages, At, TypeOK, Reads, KeepsList, LeavesList
  <2>3. QED
    BY <2>1, <2>2
<1>3. ASSUME NEW w, Written(d, w) PROVE \A c \in Deployments : Reads(c)
  BY <1>3, GoReads DEF Written, Go, BindNext
<1>4. CASE Read(d)
  BY <1>1, <1>2, <1>4, GoReads DEF Read, Go, Raise, FlowFound, BindNext
<1>5. QED
  BY <1>3, <1>4 DEF Answered

LEMMA NextReads ==
  ASSUME TypeOK, Next
  PROVE  \A c \in Deployments : Reads(c)
<1>1. CASE UNCHANGED hooks
  BY <1>1 DEF hooks, Reads, KeepsList
<1>2. ASSUME NEW d \in Deployments, Raise(d) \/ StartHook(d) PROVE \A c \in Deployments : Reads(c)
  BY <1>2, GoReads DEF Raise, StartHook
<1>3. QED
  BY <1>1, <1>2, AnswerReads DEF Next, Apply, LateWrite, Refuse, Crash, Fails

LEMMA ListInvariance == Spec => []ListInv
<1>1. Init => ListInv
  BY PageAssumption DEF Init, ListInv
<1>2. IInv /\ ListInv /\ [Next]_vars => ListInv'
  <2>1. SUFFICES ASSUME IInv, ListInv, [Next]_vars PROVE ListInv'
    OBVIOUS
  <2>2. CASE UNCHANGED vars
    BY <2>1, <2>2 DEF vars, server, hooks, ListInv
  <2>3. CASE Next
    <3>1. applied \subseteq applied' /\ pages' = pages
      BY <2>1, <2>3, NextKeeps DEF Grows
    <3>2. ASSUME NEW d \in Deployments
          PROVE  /\ before'[d] \subseteq applied'
                 /\ pc'[d] = "stages" =>
                      \A s \in Stages \intersect before'[d] :
                        PageOf[s] < page'[d] => s \in seen'[d]
      <4>1. Reads(d)
        BY <2>1, <2>3, NextReads DEF IInv
      <4>2. CASE KeepsList(d) \/ LeavesList(d)
        BY <2>1, <3>1, <4>2 DEF ListInv, KeepsList, LeavesList
      <4>3. CASE BeginsList(d)
        BY <3>1, <4>3, PageAssumption DEF BeginsList
      <4>4. CASE TurnsPage(d)
        <5>1. page[d] \in Nat /\ \A s \in Stages : PageOf[s] \in Nat
          BY <2>1, PageAssumption DEF IInv, TypeOK
        <5>2. QED
          BY <2>1, <3>1, <4>4, <5>1 DEF ListInv, TurnsPage, Listed
      <4>5. QED
        BY <4>1, <4>2, <4>3, <4>4 DEF Reads
    <3>3. QED
      BY <2>1, <3>1, <3>2 DEF ListInv
  <2>4. QED
    BY <2>1, <2>2, <2>3
<1>3. QED
  BY <1>1, <1>2, Invariance, PTL DEF Spec

\* However stages are spread over the pages and applied while they are read, a hook that reads to
\* the end gives up only if a stage was missing when it began.
THEOREM HooksGiveUpForAReason == Spec => UnreadyOnlyIfMissing
<1>1. IInv /\ ListInv /\ [Next]_vars =>
        [\A d \in Deployments :
           (pc[d] = "stages" /\ pc'[d] = "idle" /\ faults' = faults /\ ~GivesUp(d))
             => ~(Stages \subseteq before[d])]_vars
  <2>1. SUFFICES ASSUME IInv, ListInv, Next, NEW d \in Deployments, pc[d] = "stages",
                        pc'[d] = "idle", faults' = faults, ~GivesUp(d),
                        Stages \subseteq before[d]
                 PROVE  FALSE
    OBVIOUS
  <2>2. pc'[d] # pc[d] /\ faults \in Nat /\ pc \in [Deployments -> Steps \union {"idle"}]
    BY <2>1 DEF IInv, TypeOK
  <2>3. ASSUME NEW c \in Deployments, StartHook(c) \/ Refuse(c) \/ Crash(c)
                                     \/ \E e \in Errors : Fails(c, e)
        PROVE  FALSE
    <3>1. c = d
      BY <2>2, <2>3 DEF StartHook, Refuse, Crash, Fails, Raise, At, hooks
    <3>2. Sends(d) = {}
      BY <2>1 DEF Sends
    <3>3. QED
      BY <2>1, <2>2, <2>3, <3>1, <3>2
      DEF StartHook, Refuse, Crash, Fails, Repeats, Surrenders, Fault
  <2>4. PICK c \in Deployments : Answered(c)
    BY <2>1, <2>2, <2>3 DEF Next, Apply, LateWrite, hooks
  <2>5. c = d
    BY <2>2, <2>4
    DEF Answered, Read, Written, Go, Raise, BeginStages, ReadStages, FlowFound, BindNext, At
  <2>6. ReadStages(d)
    BY <2>1, <2>4, <2>5 DEF Answered, Read, Written
  <2>7. ~Turns(d) /\ ~StagesReady(d)
    BY <2>1, <2>2, <2>6 DEF ReadStages, At
  <2>8. ASSUME NEW s \in Stages PROVE s \in Listed(d)
    <3>1. s \in before[d] /\ s \in applied /\ PageOf[s] <= pages
      BY <2>1 DEF ListInv
    <3>2. page[d] \in Nat /\ pages \in Nat /\ PageOf[s] \in Nat
      BY <2>1, PageAssumption DEF IInv, TypeOK
    <3>3. PageOf[s] = page[d] \/ PageOf[s] < page[d]
      BY <2>7, <3>1, <3>2 DEF Turns
    <3>4. QED
      BY <2>1, <3>1, <3>3 DEF ListInv, Listed
  <2>9. QED
    BY <2>7, <2>8 DEF StagesReady
<1>2. QED
  BY <1>1, Invariance, ListInvariance, PTL DEF Spec, UnreadyOnlyIfMissing

=============================================================================
