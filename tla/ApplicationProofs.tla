--------------------------- MODULE ApplicationProofs ---------------------------
(***************************************************************************)
(* The units of the application, for any number of units, servers,         *)
(* relations and changes, under any moves of leadership, refused hooks and *)
(* failed calls: whose API token the server accepts, which token of the    *)
(* outpost is planned, and that all sides of every integration agree once  *)
(* they have seen what there is to see.                                    *)
(*                                                                         *)
(* A unit keeps to the revision of a server's secret that it has read      *)
(* first, so what it has read is never of a later server nor of a later    *)
(* revision than there is.  A leader that does not provision plans what is *)
(* recorded, so an outpost must never be recorded without its token.       *)
(*                                                                         *)
(* Agreement rests on the events that are still pending: whatever changes  *)
(* leaves an event with every unit that has to act on it, and a hook that  *)
(* takes the event away does what it calls for.                            *)
(***************************************************************************)
EXTENDS Application, TLAPS

\* Servers are numbered in order, at the cost of a change each.
ServerInv ==
  /\ focus \in Integrations /\ changes \in 0..MaxNumber
  /\ server \in [state : {"absent", "related", "ready"}, host : Nat, revision : Nat]
  /\ server.host \in 1..changes + 1 /\ server.revision # 0

\* No unit has read ahead.
ReadInv ==
  /\ tracked \in [Units -> [host : Nat, revision : Nat]]
  /\ \A u \in Units :
       /\ tracked[u].host <= server.host
       /\ tracked[u].host = server.host => tracked[u].revision \in 1..server.revision

\* An outpost and its token are recorded together.
RecordInv ==
  /\ peers.outpost = peers.token
  /\ DOMAIN outposts = Servers /\ DOMAIN planned = Units

TokenInv == ServerInv /\ ReadInv /\ RecordInv

\* The plan a hook of u may make.
PlanOf(u) == [host |-> server.host, token |-> TokenInHook(u), traces |-> Endpoint]

\* What a hook of u does to the tokens, whether it is committed, refused or raises.
HookEffect(u) ==
  /\ UNCHANGED <<changes, focus, server>>
  /\ tracked' = tracked \/ (Ready /\ tracked' = [tracked EXCEPT ![u] = TokenRead(u)])
  /\ peers' \in {peers, [outpost |-> TokenOfOutpost, token |-> TokenOfOutpost]}
  /\ outposts' \in {outposts, [outposts EXCEPT ![server.host] = TokenOfOutpost]}
  /\ \/ planned' = planned
     \/ /\ planned' = [planned EXCEPT ![u] = PlanOf(u)]
        /\ Provisions(u) => outposts' = [outposts EXCEPT ![server.host] = TokenOfOutpost]
        /\ ~Provisions(u) => outposts' = outposts /\ Ready

\* What the other sides do to them, and Juju.
OtherEffect ==
  /\ peers' = peers /\ focus' = focus
  /\ planned' = planned \/ \E u \in Units : planned' = [planned EXCEPT ![u] = NotPlanned]
  /\ outposts' = outposts \/ outposts' = [outposts EXCEPT ![server.host] = 0]
  /\ tracked' = tracked
  /\ \/ UNCHANGED changes
     \/ changes < MaxChanges[focus] /\ changes' = changes + 1
  /\ \/ UNCHANGED server
     \/ ServerRelates \/ ServerPublishes \/ ServerRotates \/ ServerLeaves

LEMMA HookHasEffect ==
  ASSUME NEW u \in Units, Hook(u) \/ HookRaises(u) \/ HookRefused(u)
  PROVE  HookEffect(u)
<1>1. ASSUME NEW event, NEW outcome, Acts(u, event, outcome),
             Writes(u, event, outcome) \/ UNCHANGED peers, OthersUnchanged
      PROVE  HookEffect(u)
  <2>1. UNCHANGED <<changes, focus, server>>
    BY <1>1 DEF OthersUnchanged
  <2>2. tracked' = tracked \/ (Ready /\ tracked' = [tracked EXCEPT ![u] = TokenRead(u)])
    BY <1>1 DEF Acts, ReadInfo
  <2>3. peers' \in {peers, [outpost |-> TokenOfOutpost, token |-> TokenOfOutpost]}
    BY <1>1 DEF Writes, StoreToken
  <2>4. outposts' \in {outposts, [outposts EXCEPT ![server.host] = TokenOfOutpost]}
    BY <1>1 DEF Acts, MintToken
  <2>5. CASE Plans(u, event, outcome)
    BY <1>1, <2>1, <2>2, <2>3, <2>4, <2>5 DEF Acts, Plans, MintToken, HookEffect, PlanOf
  <2>6. CASE ~Plans(u, event, outcome)
    BY <1>1, <2>1, <2>2, <2>3, <2>4, <2>6 DEF Acts, HookEffect
  <2>7. QED
    BY <2>5, <2>6
<1>2. CASE Hook(u)
  BY <1>1, <1>2 DEF Hook
<1>3. CASE HookRefused(u)
  BY <1>1, <1>3 DEF HookRefused
<1>4. CASE HookRaises(u)
  BY <1>4 DEF HookRaises, ReadInfo, OthersUnchanged, HookEffect
<1>5. QED
  BY <1>2, <1>3, <1>4

LEMMA OthersHaveEffect ==
  ASSUME Environment \/ Others \/ Leadership
  PROVE  OtherEffect
<1>1. CASE Environment
  <2>1. CASE ServerChanges /\ UNCHANGED <<outposts, minted, peers, planned>>
    BY <2>1 DEF ServerChanges, ServerRelates, ServerPublishes, ServerRotates, ServerLeaves,
      ChangesNoticed,
      ChangesUnnoticed, Changes, OtherEffect
  <2>2. CASE OutpostLost
    BY <2>2 DEF OutpostLost, ChangesUnnoticed, Changes, OtherEffect
  <2>3. CASE
             /\ UNCHANGED tokenVars
             /\ RouteChanges \/ TracingChanges \/ ScrapingChanges \/ DashboardChanges
    BY <2>3 DEF tokenVars, RouteChanges, TraefikRelates, TraefikPublishes, TraefikLeaves,
      OptionsChange,
      TracingChanges, TempoRelates, TempoLeaves, ScrapingChanges, PrometheusRelates,
      PrometheusLeaves,
      DashboardChanges, GrafanaRelates, GrafanaLeaves, ChangesNoticed, Changes, OtherEffect
  <2>4. CASE \E u \in Units : Restart(u)
    BY <2>4 DEF Restart, NewPod, Changes, OtherEffect
  <2>5. CASE \E u \in Units : /\ Upgrade(u) /\ NewPod(u)
                             /\ UNCHANGED <<server, tracked, outposts, minted, peers>>
    BY <2>5 DEF Upgrade, NewPod, Changes, OtherEffect
  <2>6. QED
    BY <1>1, <2>1, <2>2, <2>3, <2>4, <2>5 DEF Environment
<1>2. CASE Others
  BY <1>2 DEF Others, tokenVars, jujuVars, TraefikApplies, TempoPublishes, PrometheusReads,
    GrafanaRenders, OtherEffect
<1>3. CASE Leadership
  BY <1>3 DEF Leadership, tokenVars, LoseLeadership, Elect, OtherEffect
<1>4. QED
  BY <1>1, <1>2, <1>3

LEMMA StepHasEffect ==
  ASSUME Next
  PROVE  OtherEffect \/ \E u \in Units : HookEffect(u)
  BY HookHasEffect, OthersHaveEffect DEF Next

-----------------------------------------------------------------------------
(* The invariant *)

\* What the server does to the relation.
LEMMA ServerSteps ==
  ASSUME TokenInv, OtherEffect
  PROVE  ServerInv'
<1>1. MaxNumber \in Nat /\ MaxChanges[focus] \in 0..MaxNumber
  BY UnitAssumption DEF TokenInv, ServerInv
<1>2. CASE UNCHANGED server
  BY <1>1, <1>2 DEF TokenInv, ServerInv, OtherEffect
<1>3. CASE ServerRelates \/ ServerLeaves \/ ServerRotates
  <2>1. /\ server'.host = server.host
        /\ server'.revision \in {server.revision, server.revision + 1}
        /\ server' \in [state : {"absent", "related", "ready"}, host : Nat, revision : Nat]
    BY <1>3 DEF ServerRelates, ServerLeaves, ServerRotates, TokenInv, ServerInv
  <2>2. changes' \in 0..MaxNumber /\ changes <= changes' /\ focus' \in Integrations
    BY <1>1 DEF TokenInv, ServerInv, OtherEffect
  <2>3. QED
    BY <2>1, <2>2 DEF TokenInv, ServerInv
<1>4. CASE ServerPublishes
  <2>1. server' = [state |-> "ready", host |-> server.host + 1, revision |-> 1]
    BY <1>4 DEF ServerPublishes
  <2>2. changes' = changes + 1 /\ changes' \in 0..MaxNumber /\ focus' \in Integrations
    BY <1>1, <1>4 DEF ServerPublishes, ChangesNoticed, Changes, TokenInv, ServerInv
  <2>3. QED
    BY <2>1, <2>2 DEF TokenInv, ServerInv
<1>5. QED
  BY <1>2, <1>3, <1>4 DEF OtherEffect

\* A hook reads what there is, and a server that changes only moves on.
LEMMA ReadSteps ==
  ASSUME TokenInv, OtherEffect \/ \E u \in Units : HookEffect(u)
  PROVE  ReadInv'
<1>1. CASE \E u \in Units : HookEffect(u)
  <2>1. PICK u \in Units : HookEffect(u)
    BY <1>1
  <2>2. TokenRead(u) \in [host : Nat, revision : Nat]
    BY DEF TokenRead, TokenInv, ReadInv, ServerInv
  <2>3. /\ TokenRead(u).host = server.host
        /\ TokenRead(u).revision \in 1..server.revision
    BY DEF TokenRead, TokenInv, ReadInv, ServerInv
  <2>4. server' = server
    BY <2>1 DEF HookEffect
  <2>5. QED
    BY <2>1, <2>2, <2>3, <2>4 DEF HookEffect, TokenInv, ReadInv, ServerInv
<1>2. CASE OtherEffect
  <2>1. tracked' = tracked
    BY <1>2 DEF OtherEffect
  <2>2. \/ server'.host = server.host /\ server'.revision \in {server.revision, server.revision + 1}
        \/ server'.host = server.host + 1
    BY <1>2 DEF OtherEffect, ServerRelates, ServerLeaves, ServerRotates, ServerPublishes,
      TokenInv, ServerInv
  <2>3. QED
    BY <2>1, <2>2 DEF TokenInv, ReadInv, ServerInv
<1>3. QED
  BY <1>1, <1>2

LEMMA RecordSteps ==
  ASSUME TokenInv, OtherEffect \/ \E u \in Units : HookEffect(u)
  PROVE  RecordInv'
  BY DEF OtherEffect, HookEffect, TokenInv, RecordInv

LEMMA TokenStep == TokenInv /\ [Next]_vars => TokenInv'
<1>1. SUFFICES ASSUME TokenInv, [Next]_vars PROVE TokenInv'
  OBVIOUS
<1>2. CASE UNCHANGED vars
  BY <1>1, <1>2 DEF vars, jujuVars, tokenVars, TokenInv, ServerInv, ReadInv, RecordInv
<1>3. CASE Next
  <2>1. OtherEffect \/ \E u \in Units : HookEffect(u)
    BY <1>3, StepHasEffect
  <2>2. ServerInv'
    BY <1>1, <2>1, ServerSteps DEF HookEffect, TokenInv, ServerInv
  <2>3. QED
    BY <1>1, <2>1, <2>2, ReadSteps, RecordSteps DEF TokenInv
<1>4. QED
  BY <1>1, <1>2, <1>3

LEMMA TokenInit == Init => TokenInv
<1>1. SUFFICES ASSUME Init PROVE TokenInv
  OBVIOUS
<1>2. ServerInv
  BY <1>1, UnitAssumption DEF Init, ServerInv
<1>3. ReadInv
  BY <1>1 DEF Init, Fresh, Serving, ReadInv
<1>4. RecordInv
  BY <1>1 DEF Init, Fresh, Serving, RecordInv
<1>5. QED
  BY <1>2, <1>3, <1>4 DEF TokenInv

-----------------------------------------------------------------------------
(* Theorems *)

\* A unit whose API token is refused has read it before the server replaced it, however
\* often servers have come and gone: get_content keeps no revision across relations.
THEOREM RefusalsFollowRotations == Spec => []RefusedOnlyAfterRotation
<1>1. TokenInv => RefusedOnlyAfterRotation
  <2>1. SUFFICES ASSUME TokenInv, server.revision = 1, NEW u \in Units PROVE CallsAccepted(u)
    BY DEF RefusedOnlyAfterRotation
  <2>2. CASE tracked[u].host = server.host
    <3>1. tracked[u] \in [host : Nat, revision : Nat] /\ tracked[u].revision = 1
      BY <2>1, <2>2 DEF TokenInv, ReadInv
    <3>2. QED
      BY <2>1, <2>2, <3>1 DEF CallsAccepted, TokenRead
  <2>3. CASE tracked[u].host # server.host
    BY <2>3 DEF CallsAccepted, TokenRead
  <2>4. QED
    BY <2>2, <2>3
<1>2. QED
  BY <1>1, TokenInit, TokenStep, PTL DEF Spec

\* A leader plans the token its server has for the outpost, minted, adopted or read: also in
\* a hook whose writes are refused, and in the next one.
THEOREM LeadersPlanCurrentTokens == Spec => LeaderPlansCurrentToken
<1>1. TokenInv /\ [Next]_vars =>
        [\A u \in Units :
           (leader = u /\ planned'[u] # planned[u] /\ planned'[u].token # 0)
             => planned'[u].token = outposts'[planned'[u].host]]_vars
  <2>1. SUFFICES ASSUME TokenInv, Next, NEW u \in Units, leader = u, planned'[u] # planned[u],
                        planned'[u].token # 0
                 PROVE  planned'[u].token = outposts'[planned'[u].host]
    OBVIOUS
  <2>2. DOMAIN planned = Units /\ DOMAIN outposts = Servers /\ peers.outpost = peers.token
    BY <2>1 DEF TokenInv, RecordInv
  <2>3. server.host \in Servers
    BY <2>1, UnitAssumption DEF TokenInv, ServerInv, Servers
  <2>4. HookEffect(u) /\ planned' = [planned EXCEPT ![u] = PlanOf(u)]
    <3>1. CASE OtherEffect
      BY <2>1, <2>2, <3>1 DEF OtherEffect, NotPlanned
    <3>2. CASE \E v \in Units : HookEffect(v)
      BY <2>1, <2>2, <3>2 DEF HookEffect
    <3>3. QED
      BY <2>1, <3>1, <3>2, StepHasEffect
  <2>5. planned'[u] = PlanOf(u)
    BY <2>2, <2>4
  <2>6. CASE Provisions(u)
    <3>1. outposts'[server.host] = TokenOfOutpost
      BY <2>1, <2>2, <2>3, <2>4, <2>6 DEF HookEffect
    <3>2. QED
      BY <2>5, <2>6, <3>1 DEF PlanOf, TokenInHook
  <2>7. CASE ~Provisions(u)
    <3>1. outposts' = outposts /\ Ready
      BY <2>1, <2>4, <2>7 DEF HookEffect
    <3>2. outposts[server.host] = peers.token
      BY <2>1, <2>2, <2>7, <3>1 DEF Provisions, Verified
    <3>3. QED
      BY <2>5, <2>7, <3>1, <3>2 DEF PlanOf, TokenInHook
  <2>8. QED
    BY <2>6, <2>7
<1>2. QED
  BY <1>1, TokenInit, TokenStep, PTL DEF Spec, LeaderPlansCurrentToken

-----------------------------------------------------------------------------
(* Hooks, whether they are committed, refused or raise *)

\* What a hook does before Juju hears of it.
Runs(u, event, outcome) ==
  /\ Due(u, event) /\ outcome \in {"ok", "early", "late"}
  /\ IF Handles(u, event) THEN Ends(u, outcome) ELSE outcome = "ok" /\ UNCHANGED faults
  /\ Acts(u, event, outcome)
  /\ OthersUnchanged

Commits(u, event, outcome) ==
  /\ Runs(u, event, outcome) /\ Writes(u, event, outcome)
  /\ ~Raises(u, event, outcome)
  /\ pending' = Dispatched(u, event)
  /\ UNCHANGED <<leader, moves>>

\* Of a hook that raises or is refused, nothing is written and its event remains.
NotWritten ==
  UNCHANGED <<pending, peers, route, applying, urls, requested, prometheus, jobs, published, sent,
              grafana>>

Refuses(u, event, outcome) == leader = u /\ leader' = None /\ Runs(u, event, outcome) /\ NotWritten

Stops(u) ==
  /\ ReadInfo(u) /\ NotWritten
  /\ UNCHANGED <<leader, moves, faults, outposts, minted, planned, stored, templates>>
  /\ OthersUnchanged

\* A step of the application, by who takes it.
Steps ==
  \/ \E u \in Units, event \in Events, outcome \in {"ok", "early", "late"} :
       Commits(u, event, outcome) \/ Refuses(u, event, outcome)
  \/ \E u \in Units : Stops(u)
  \/ Environment \/ Others \/ Leadership \/ UNCHANGED vars

LEMMA NextIsSteps == ASSUME [Next]_vars PROVE Steps
<1>1. ASSUME NEW u \in Units, Hook(u) \/ HookRefused(u) \/ HookRaises(u) PROVE Steps
  <2>1. CASE Hook(u)
    BY <1>1, <2>1 DEF Hook, Runs, Commits, Steps
  <2>2. CASE HookRefused(u)
    BY <1>1, <2>2 DEF HookRefused, Runs, Refuses, NotWritten, Steps
  <2>3. CASE HookRaises(u)
    BY <1>1, <2>3 DEF HookRaises, Stops, NotWritten, routeVars, dashboardVars, OthersUnchanged, Steps
  <2>4. QED
    BY <1>1, <2>1, <2>2, <2>3
<1>2. QED
  BY <1>1 DEF Next, Steps

-----------------------------------------------------------------------------
(* Types *)

JujuTypes ==
  /\ leader \in Units \union {None}
  /\ pending \in [Units -> SUBSET Events] /\ retry \in [Units -> Events \union {None}]
  /\ moves \in 0..MaxNumber /\ faults \in 0..MaxNumber /\ changes \in 0..MaxNumber
  /\ focus \in Integrations

LEMMA Bounds ==
  ASSUME focus \in Integrations
  PROVE  /\ MaxNumber \in Nat
         /\ MaxMoves[focus] \in 0..MaxNumber /\ MaxFaults[focus] \in 0..MaxNumber
         /\ MaxChanges[focus] \in 0..MaxNumber
  BY UnitAssumption

LEMMA ToldType ==
  ASSUME JujuTypes, NEW units, NEW event \in Events
  PROVE  Told(units, event) \in [Units -> SUBSET Events]
  BY DEF JujuTypes, Told

\* A change on another side is told or not, but counted.
LEMMA ChangeTypes ==
  ASSUME JujuTypes, NEW integration, Changes(integration),
         pending' \in [Units -> SUBSET Events]
  PROVE  JujuTypes' /\ changes' = changes + 1 /\ changes' \in 0..MaxNumber
  BY Bounds DEF JujuTypes, Changes

LEMMA EnvironmentTypes ==
  ASSUME JujuTypes, Environment
  PROVE  JujuTypes' /\ changes' = changes + 1 /\ changes' \in 0..MaxNumber
<1>1. ASSUME NEW integration, ChangesUnnoticed(integration)
      PROVE  JujuTypes' /\ changes' = changes + 1 /\ changes' \in 0..MaxNumber
  BY <1>1, ChangeTypes DEF ChangesUnnoticed, JujuTypes
<1>2. ASSUME NEW integration, NEW event \in Events, ChangesNoticed(integration, event)
      PROVE  JujuTypes' /\ changes' = changes + 1 /\ changes' \in 0..MaxNumber
  BY <1>2, ChangeTypes, ToldType DEF ChangesNoticed
<1>3. CASE ServerChanges \/ OutpostLost
  BY <1>1, <1>2, <1>3
  DEF ServerChanges, ServerRelates, ServerPublishes, ServerRotates, ServerLeaves, OutpostLost, Events
<1>4. CASE RouteChanges \/ TracingChanges
  BY <1>1, <1>2, <1>4
  DEF RouteChanges, TraefikRelates, TraefikPublishes, TraefikLeaves, OptionsChange, TracingChanges,
    TempoRelates, TempoLeaves, Events
<1>5. CASE PrometheusRelates \/ GrafanaRelates
  BY <1>1, <1>2, <1>5 DEF PrometheusRelates, GrafanaRelates, Events
<1>6. CASE PrometheusLeaves \/ GrafanaLeaves
  <2>1. pending' \in [Units -> SUBSET Events]
    BY <1>6 DEF PrometheusLeaves, GrafanaLeaves, JujuTypes
  <2>2. QED
    BY <1>6, <2>1, ChangeTypes DEF PrometheusLeaves, GrafanaLeaves
<1>7. ASSUME NEW u \in Units, Upgrade(u) \/ Restart(u)
      PROVE  JujuTypes' /\ changes' = changes + 1 /\ changes' \in 0..MaxNumber
  <2>1. pending' \in [Units -> SUBSET Events]
    BY <1>7, ToldType DEF Upgrade, Restart, JujuTypes, Events, PodEvents
  <2>2. QED
    BY <1>7, <2>1, ChangeTypes DEF Upgrade, Restart
<1>8. QED
  BY <1>3, <1>4, <1>5, <1>6, <1>7 DEF Environment, ScrapingChanges, DashboardChanges

LEMMA HookTypes ==
  ASSUME JujuTypes, NEW u \in Units, Hook(u) \/ HookRefused(u) \/ HookRaises(u)
  PROVE  JujuTypes' /\ changes' = changes
<1>1. changes' = changes /\ focus' = focus
  BY DEF Hook, HookRefused, HookRaises, OthersUnchanged
<1>2. faults' \in 0..MaxNumber
  BY Bounds DEF Hook, HookRefused, HookRaises, Ends, JujuTypes
<1>3. leader' \in Units \union {None} /\ moves' \in 0..MaxNumber
  BY Bounds DEF Hook, HookRefused, HookRaises, JujuTypes
<1>4. pending' \in [Units -> SUBSET Events]
  BY DEF Hook, HookRefused, HookRaises, Dispatched, Events, JujuTypes
<1>5. retry' \in [Units -> Events \union {None}]
  BY DEF Hook, HookRefused, HookRaises, JujuTypes
<1>6. QED
  BY <1>1, <1>2, <1>3, <1>4, <1>5 DEF JujuTypes

LEMMA JujuSteps ==
  ASSUME JujuTypes, [Next]_vars
  PROVE  JujuTypes' /\ changes' \in {changes, changes + 1}
<1>1. CASE Others
  <2>1. pending' \in [Units -> SUBSET Events]
    BY <1>1, ToldType DEF Others, TraefikApplies, TempoPublishes, PrometheusReads, GrafanaRenders,
      jujuVars, JujuTypes, Events
  <2>2. UNCHANGED <<leader, retry, moves, faults, changes, focus>>
    BY <1>1 DEF Others, TraefikApplies, TempoPublishes, PrometheusReads, GrafanaRenders, jujuVars
  <2>3. QED
    BY <2>1, <2>2 DEF JujuTypes
<1>2. CASE Leadership
  <2>1. CASE LoseLeadership
    BY <2>1, Bounds DEF LoseLeadership, JujuTypes
  <2>2. ASSUME NEW u \in Units, Elect(u) PROVE JujuTypes' /\ changes' = changes
    <3>1. pending' \in [Units -> SUBSET Events]
      BY <2>2, ToldType DEF Elect, Events
    <3>2. QED
      BY <2>2, <3>1 DEF Elect, JujuTypes
  <2>3. QED
    BY <1>2, <2>1, <2>2 DEF Leadership
<1>3. CASE UNCHANGED vars
  BY <1>3 DEF vars, jujuVars, JujuTypes
<1>4. QED
  BY <1>1, <1>2, <1>3, EnvironmentTypes, HookTypes DEF Next

\* What is numbered in order costs a change each.
TempoCounts ==
  /\ tempo \in [relation : Nat, receivers : {"none", "other", "http"}, last : Nat]
  /\ tempo.relation <= tempo.last /\ tempo.last <= changes

ServerCounts ==
  /\ server.revision <= changes + 1
  /\ tracked \in [Units -> [host : 0..changes + 1, revision : 0..changes + 1]]

\* A token is only minted for a server that has none.
MintCounts ==
  /\ minted \in Nat /\ outposts \in [Servers -> 0..minted]
  /\ peers \in [outpost : 0..minted, token : 0..minted]
  /\ minted <= changes + 1
  /\ outposts[server.host] = 0 => minted <= changes
  /\ \A s \in Servers : s > server.host => outposts[s] = 0

PlanCounts == planned \in [Units -> [host : 0..server.host, token : 0..minted, traces : 0..tempo.last]]

TokenCounts == TempoCounts /\ ServerCounts /\ MintCounts /\ PlanCounts

LEMMA CountsAreTypes ==
  ASSUME TokenInv, TokenCounts
  PROVE  /\ ServerTypes /\ TokenTypes
         /\ tempo \in [relation : Tempos, receivers : {"none", "other", "http"}, last : Tempos]
         /\ server.host \in Servers
<1> USE UnitAssumption
<1>1. changes \in 0..MaxNumber /\ server.host \in 1..changes + 1
  BY DEF TokenInv, ServerInv
<1>2. /\ server \in [state : {"absent", "related", "ready"}, host : Servers, revision : Servers]
      /\ tracked \in [Units -> [host : Servers, revision : Servers]]
  BY <1>1 DEF TokenInv, ServerInv, TokenCounts, ServerCounts, Servers
<1>3. /\ outposts \in [Servers -> Tokens] /\ minted \in Tokens
      /\ peers \in [outpost : Tokens, token : Tokens]
  BY <1>1 DEF TokenCounts, MintCounts, Tokens
<1>4. tempo \in [relation : Tempos, receivers : {"none", "other", "http"}, last : Tempos]
  BY <1>1 DEF TokenCounts, TempoCounts, Tempos
<1>5. planned \in [Units -> [host : Servers, token : Tokens, traces : Servers]]
  <2>1. 0..server.host \subseteq Servers /\ 0..minted \subseteq Tokens /\ 0..tempo.last \subseteq Servers
    <3>1. /\ server.host \in 0..MaxNumber + 1 /\ minted \in 0..MaxNumber + 1
          /\ tempo.last \in 0..MaxNumber + 1
      BY <1>1, <1>3, <1>4 DEF Tokens, Tempos
    <3>2. \A n \in 0..MaxNumber + 1 : 0..n \subseteq 0..MaxNumber + 1
      OBVIOUS
    <3>3. QED
      BY <3>1, <3>2 DEF Servers, Tokens
  <2> DEFINE Counted == [host : 0..server.host, token : 0..minted, traces : 0..tempo.last]
  <2>2. planned \in [Units -> Counted]
    BY DEF TokenCounts, PlanCounts
  <2>3. Counted \subseteq [host : Servers, token : Tokens, traces : Servers]
    BY <2>1
  <2> HIDE DEF Counted
  <2>4. QED
    BY <2>2, <2>3
<1>6. QED
  BY <1>1, <1>2, <1>3, <1>4, <1>5 DEF ServerTypes, TokenTypes, Servers

\* The database gets the outpost's token, adopted or new.
Minting ==
  /\ outposts' = [outposts EXCEPT ![server.host] = TokenOfOutpost]
  /\ minted' = IF TokenOfOutpost > minted THEN TokenOfOutpost ELSE minted

Minted(u) ==
  IF Provisions(u)
    THEN UNCHANGED <<outposts, minted, peers, planned>>
           \/ (Minting /\ peers' \in {peers, [outpost |-> TokenOfOutpost, token |-> TokenOfOutpost]})
    ELSE UNCHANGED <<outposts, minted, peers>>

LEMMA HookMints ==
  ASSUME NEW u \in Units, NEW event, NEW outcome,
         Commits(u, event, outcome) \/ Refuses(u, event, outcome)
  PROVE  /\ UNCHANGED <<changes, focus, server, tempo>>
         /\ tracked' = tracked \/ tracked' = [tracked EXCEPT ![u] = TokenRead(u)]
         /\ planned' = planned \/ planned' = [planned EXCEPT ![u] = PlanOf(u)]
         /\ Minted(u)
<1>1. Acts(u, event, outcome) /\ OthersUnchanged /\ (Writes(u, event, outcome) \/ peers' = peers)
  BY DEF Commits, Refuses, Runs, NotWritten
<1>2. /\ UNCHANGED <<changes, focus, server, tempo>>
      /\ tracked' = tracked \/ tracked' = [tracked EXCEPT ![u] = TokenRead(u)]
      /\ planned' = planned \/ planned' = [planned EXCEPT ![u] = PlanOf(u)]
  BY <1>1 DEF OthersUnchanged, Acts, ReadInfo, PlanOf
<1>3. CASE Handles(u, event) /\ outcome # "early"
  <2>1. MintToken(u) /\ (StoreToken(u) \/ peers' = peers)
    BY <1>1, <1>3 DEF Acts, Writes
  <2>2. QED
    BY <1>2, <2>1 DEF MintToken, StoreToken, Minted, Minting
<1>4. CASE ~(Handles(u, event) /\ outcome # "early")
  <2>1. UNCHANGED <<outposts, minted, peers, planned>>
    BY <1>1, <1>4 DEF Acts, Writes, Plans
  <2>2. QED
    BY <1>2, <2>1 DEF Minted
<1>5. QED
  BY <1>3, <1>4

\* Tokens are numbered in order.
LEMMA MintedToken ==
  ASSUME TokenInv, TokenCounts
  PROVE  /\ server.host \in Servers /\ TokenOfOutpost \in 1..minted + 1
         /\ outposts[server.host] # 0 => TokenOfOutpost = outposts[server.host] /\ TokenOfOutpost <= minted
         /\ outposts[server.host] = 0 => TokenOfOutpost = minted + 1
<1>1. server.host \in Servers
  BY CountsAreTypes
<1>2. outposts[server.host] \in 0..minted /\ minted \in Nat
  BY <1>1 DEF TokenCounts, MintCounts
<1>3. QED
  BY <1>1, <1>2 DEF TokenOfOutpost

LEMMA HookCounts ==
  ASSUME TokenInv, TokenCounts, NEW u \in Units, NEW event, NEW outcome,
         Commits(u, event, outcome) \/ Refuses(u, event, outcome)
  PROVE  TokenCounts'
<1> DEFINE T == TokenOfOutpost
<1>1. /\ UNCHANGED <<changes, server, tempo>>
      /\ tracked' = tracked \/ tracked' = [tracked EXCEPT ![u] = TokenRead(u)]
      /\ planned' = planned \/ planned' = [planned EXCEPT ![u] = PlanOf(u)]
      /\ Minted(u)
  BY HookMints
<1>2. /\ server.host \in Servers /\ T \in 1..minted + 1 /\ minted \in Nat
      /\ outposts[server.host] # 0 => T = outposts[server.host] /\ T <= minted
      /\ outposts[server.host] = 0 => T = minted + 1
  BY MintedToken DEF TokenCounts, MintCounts
<1>3. TempoCounts'
  BY <1>1 DEF TokenCounts, TempoCounts
<1>4. ServerCounts'
  BY <1>1 DEF TokenInv, ServerInv, TokenCounts, ServerCounts, TokenRead
<1>5. MintCounts' /\ minted <= minted' /\ (Provisions(u) => planned' = planned \/ T <= minted')
  <2>1. CASE UNCHANGED <<outposts, minted, peers>> /\ (Provisions(u) => planned' = planned)
    BY <1>1, <1>2, <2>1 DEF TokenCounts, MintCounts
  <2>2. CASE Minting /\ peers' \in {peers, [outpost |-> T, token |-> T]}
    <3>1. minted' \in Nat /\ minted <= minted' /\ T \in 0..minted'
      BY <1>2, <2>2 DEF Minting
    <3>2. outposts' \in [Servers -> 0..minted'] /\ outposts'[server.host] # 0
      BY <1>2, <2>2, <3>1 DEF Minting, TokenCounts, MintCounts
    <3>3. peers' \in [outpost : 0..minted', token : 0..minted']
      BY <1>2, <2>2, <3>1 DEF TokenCounts, MintCounts
    <3>4. minted' <= changes + 1
      BY <1>2, <2>2 DEF Minting, TokenCounts, MintCounts, TokenInv, ServerInv
    <3>5. \A s \in Servers : s > server.host => outposts'[s] = 0
      BY <1>2, <2>2 DEF Minting, TokenCounts, MintCounts, Servers
    <3>6. QED
      BY <1>1, <3>1, <3>2, <3>3, <3>4, <3>5 DEF MintCounts
  <2>3. QED
    BY <1>1, <2>1, <2>2 DEF Minted
<1>6. PlanCounts'
  <2>1. planned \in [Units -> [host : 0..server.host, token : 0..minted', traces : 0..tempo.last]]
    BY <1>2, <1>5 DEF TokenCounts, PlanCounts, MintCounts
  <2>2. /\ planned' # planned => TokenInHook(u) \in 0..minted'
        /\ server.host \in 0..server.host /\ Endpoint \in 0..tempo.last
    BY <1>2, <1>5
    DEF TokenInHook, Endpoint, TokenCounts, TempoCounts, MintCounts, TokenInv, ServerInv
  <2>3. QED
    BY <1>1, <2>1, <2>2 DEF PlanCounts, PlanOf
<1>7. QED
  BY <1>3, <1>4, <1>5, <1>6 DEF TokenCounts

\* A hook that raises has only read.
LEMMA StopCounts ==
  ASSUME TokenInv, TokenCounts, NEW u \in Units, Stops(u)
  PROVE  TokenCounts'
<1>1. /\ UNCHANGED <<changes, server, tempo, outposts, minted, peers, planned>>
      /\ tracked' = tracked \/ tracked' = [tracked EXCEPT ![u] = TokenRead(u)]
  BY DEF Stops, NotWritten, OthersUnchanged, ReadInfo
<1>2. ServerCounts'
  BY <1>1 DEF TokenInv, ServerInv, TokenCounts, ServerCounts, TokenRead
<1>3. QED
  BY <1>1, <1>2 DEF TokenCounts, TempoCounts, MintCounts, PlanCounts

\* With nothing else changed, a change more leaves more room.
LEMMA RoomIsLeft ==
  ASSUME TokenInv, TokenCounts, changes' \in {changes, changes + 1}
  PROVE  /\ UNCHANGED tempo => TempoCounts'
         /\ UNCHANGED <<server, tracked>> => ServerCounts'
         /\ UNCHANGED <<server, outposts, minted, peers>> => MintCounts'
         /\ UNCHANGED <<server, minted, tempo, planned>> => PlanCounts'
<1>1. changes \in Nat
  BY DEF TokenInv, ServerInv
<1>2. CASE changes' = changes
  BY <1>2 DEF TokenCounts, TempoCounts, ServerCounts, MintCounts, PlanCounts
<1>3. CASE changes' = changes + 1
  <2>1. 0..changes + 1 \subseteq 0..changes' + 1
    BY <1>1, <1>3
  <2>2. minted \in Nat /\ minted <= changes + 1 => minted <= changes' + 1 /\ minted <= changes'
    BY <1>1, <1>3
  <2>3. UNCHANGED tempo => TempoCounts'
    BY <1>1, <1>3 DEF TokenCounts, TempoCounts
  <2>4. UNCHANGED <<server, tracked>> => ServerCounts'
    BY <1>1, <1>3, <2>1 DEF TokenInv, ServerInv, TokenCounts, ServerCounts
  <2>5. UNCHANGED <<server, outposts, minted, peers>> => MintCounts'
    BY <2>2 DEF TokenCounts, MintCounts
  <2>6. UNCHANGED <<server, minted, tempo, planned>> => PlanCounts'
    BY DEF TokenCounts, PlanCounts
  <2>7. QED
    BY <2>3, <2>4, <2>5, <2>6
<1>4. QED
  BY <1>2, <1>3

LEMMA ServerCountSteps ==
  ASSUME TokenInv, TokenCounts, ServerChanges, UNCHANGED <<outposts, minted, peers, planned, tempo>>
  PROVE  TokenCounts'
<1>1. changes' = changes + 1 /\ changes \in 0..MaxNumber /\ changes' \in 0..MaxNumber
  <2>1. changes < MaxChanges[focus] /\ changes' = changes + 1
    BY DEF ServerChanges, ServerRelates, ServerPublishes, ServerRotates, ServerLeaves,
      ChangesNoticed, ChangesUnnoticed, Changes
  <2>2. QED
    BY <2>1, Bounds DEF TokenInv, ServerInv
<1>2. /\ server' \in [state : {"absent", "related", "ready"}, host : Nat, revision : Nat]
      /\ \/ server'.host = server.host /\ server'.revision \in {server.revision, server.revision + 1}
         \/ server'.host = server.host + 1 /\ server'.revision = 1
  BY DEF ServerChanges, ServerRelates, ServerPublishes, ServerRotates, ServerLeaves, TokenInv,
    ServerInv
<1>3. tracked' = tracked
  BY DEF ServerChanges
<1>4. server.host \in 1..changes + 1 /\ MaxNumber \in Nat
  BY UnitAssumption DEF TokenInv, ServerInv
<1>5. ServerCounts'
  <2>1. 0..changes + 1 \subseteq 0..changes' + 1
    BY <1>1
  <2>2. QED
    BY <1>1, <1>2, <1>3, <2>1 DEF TokenInv, ServerInv, TokenCounts, ServerCounts
<1>6. MintCounts'
  <2>1. server'.host \in Servers /\ server.host \in Servers
    BY <1>1, <1>2, <1>4 DEF Servers
  <2>2. outposts'[server'.host] = 0 => minted' <= changes'
    BY <1>1 DEF TokenCounts, MintCounts
  <2>3. \A s \in Servers : s > server'.host => outposts'[s] = 0
    BY <1>2, <1>4 DEF TokenCounts, MintCounts, Servers
  <2>4. QED
    BY <1>1, <2>2, <2>3 DEF TokenCounts, MintCounts
<1>7. PlanCounts'
  <2>1. 0..server.host \subseteq 0..server'.host
    BY <1>2, <1>4
  <2>2. QED
    BY <2>1 DEF TokenCounts, PlanCounts
<1>8. QED
  BY <1>1, <1>5, <1>6, <1>7, RoomIsLeft DEF TokenCounts

LEMMA OutpostLostCounts ==
  ASSUME TokenInv, TokenCounts, OutpostLost, tempo' = tempo
  PROVE  TokenCounts'
<1>1. changes' = changes + 1 /\ outposts' = [outposts EXCEPT ![server.host] = 0]
      /\ UNCHANGED <<server, tracked, minted, peers, planned>>
  BY DEF OutpostLost, ChangesUnnoticed, Changes
<1>2. changes \in Nat
  BY DEF TokenInv, ServerInv
<1>3. MintCounts'
  <2>1. minted \in Nat /\ minted <= changes' /\ minted <= changes' + 1
    BY <1>1, <1>2 DEF TokenCounts, MintCounts
  <2>2. 0 \in 0..minted /\ outposts \in [Servers -> 0..minted]
    BY <2>1 DEF TokenCounts, MintCounts
  <2>3. QED
    BY <1>1, <2>1, <2>2 DEF TokenCounts, MintCounts
<1>4. QED
  BY <1>1, <1>3, RoomIsLeft DEF TokenCounts

LEMMA TempoCountSteps ==
  ASSUME TokenInv, TokenCounts, TracingChanges \/ TempoPublishes,
         UNCHANGED <<server, tracked, outposts, minted, peers, planned>>
  PROVE  TokenCounts'
<1>1. changes \in Nat
  BY DEF TokenInv, ServerInv
<1>2. /\ changes' \in {changes, changes + 1}
      /\ TempoRelates => changes' = changes + 1
  BY DEF TracingChanges, TempoRelates, TempoLeaves, TempoPublishes, ChangesNoticed, Changes
<1>3. TempoCounts' /\ tempo.last <= tempo'.last /\ tempo.last \in Nat /\ tempo'.last \in Nat
  <2>1. CASE TempoRelates
    <3>1. changes' = changes + 1
      BY <1>2, <2>1
    <3>2. tempo.last \in Nat /\ tempo.last <= changes
      BY DEF TokenCounts, TempoCounts
    <3>3. PICK n \in Nat : n = tempo.last + 1
      BY <3>2
    <3>4. /\ tempo'.relation = n /\ tempo'.last = n
          /\ tempo' \in [relation : Nat, receivers : {"none", "other", "http"}, last : Nat]
      BY <2>1, <3>3 DEF TempoRelates, TokenCounts, TempoCounts
    <3>5. n <= changes' /\ tempo.last <= n /\ n <= n
      BY <1>1, <3>1, <3>2, <3>3
    <3>6. QED
      BY <3>2, <3>4, <3>5 DEF TempoCounts
  <2>2. CASE TempoLeaves \/ TempoPublishes
    <3>1. /\ tempo' \in [relation : Nat, receivers : {"none", "other", "http"}, last : Nat]
          /\ tempo'.relation \in {0, tempo.relation} /\ tempo'.last = tempo.last
      <4>1. CASE TempoLeaves
        BY <4>1 DEF TempoLeaves, TokenCounts, TempoCounts
      <4>2. CASE TempoPublishes
        <5>1. Offered \in {"none", "other", "http"} /\ tempo' = [tempo EXCEPT !.receivers = Offered]
          BY <4>2 DEF TempoPublishes, Offered
        <5>2. QED
          BY <5>1 DEF TokenCounts, TempoCounts
      <4>3. QED
        BY <2>2, <4>1, <4>2
    <3>2. tempo.last \in Nat /\ tempo.last <= changes'
      <4>1. CASE changes' = changes
        BY <4>1 DEF TokenCounts, TempoCounts
      <4>2. CASE changes' = changes + 1
        BY <1>1, <4>2 DEF TokenCounts, TempoCounts
      <4>3. QED
        BY <1>2, <4>1, <4>2
    <3>3. QED
      BY <3>1, <3>2 DEF TokenCounts, TempoCounts
  <2>3. QED
    BY <2>1, <2>2 DEF TracingChanges
<1>4. PlanCounts'
  <2>1. 0..tempo.last \subseteq 0..tempo'.last
    BY <1>3
  <2>2. QED
    BY <2>1 DEF TokenCounts, PlanCounts
<1>5. QED
  BY <1>2, <1>3, <1>4, RoomIsLeft DEF TokenCounts

\* A unit in a new pod has an empty plan.
LEMMA NewPodCounts ==
  ASSUME TokenInv, TokenCounts, NEW u \in Units, NewPod(u), changes' \in {changes, changes + 1},
         UNCHANGED <<server, tracked, outposts, minted, peers, tempo>>
  PROVE  TokenCounts'
<1>1. PlanCounts'
  <2>1. NotPlanned \in [host : 0..server.host, token : 0..minted, traces : 0..tempo.last]
    BY DEF NotPlanned, TokenCounts, TempoCounts, MintCounts, TokenInv, ServerInv
  <2>2. QED
    BY <2>1 DEF NewPod, TokenCounts, PlanCounts
<1>2. QED
  BY <1>1, RoomIsLeft DEF TokenCounts

LEMMA CountSteps ==
  ASSUME JujuTypes, TokenInv, TokenCounts, [Next]_vars
  PROVE  TokenCounts'
<1>1. changes' \in {changes, changes + 1}
  BY JujuSteps
<1>2. ASSUME UNCHANGED tokenVars, UNCHANGED tempo PROVE TokenCounts'
  BY <1>1, <1>2, RoomIsLeft DEF tokenVars, TokenCounts
<1>3. CASE Environment
  <2>1. CASE ServerChanges /\ UNCHANGED <<outposts, minted, peers, planned, tracingVars>>
    BY <2>1, ServerCountSteps DEF tracingVars
  <2>2. CASE OutpostLost /\ UNCHANGED tracingVars
    BY <2>2, OutpostLostCounts DEF tracingVars
  <2>3. CASE TracingChanges /\ UNCHANGED tokenVars
    BY <2>3, TempoCountSteps DEF tokenVars
  <2>4. CASE UNCHANGED <<tokenVars, tracingVars>>
    BY <1>2, <2>4 DEF tracingVars
  <2>5. ASSUME NEW u \in Units, NewPod(u),
               UNCHANGED <<server, tracked, outposts, minted, peers, tracingVars>>
        PROVE  TokenCounts'
    BY <1>1, <2>5, NewPodCounts DEF tracingVars
  <2>6. QED
    BY <1>3, <2>1, <2>2, <2>3, <2>4, <2>5 DEF Environment, Restart
<1>4. CASE Others \/ Leadership \/ UNCHANGED vars
  <2>1. CASE TempoPublishes /\ UNCHANGED tokenVars
    BY <2>1, TempoCountSteps DEF tokenVars
  <2>2. CASE UNCHANGED <<tokenVars, tracingVars>>
    BY <1>2, <2>2 DEF tracingVars
  <2>3. QED
    BY <1>4, <2>1, <2>2 DEF Others, Leadership, vars
<1>5. QED
  BY <1>3, <1>4, NextIsSteps, HookCounts, StopCounts DEF Steps

-----------------------------------------------------------------------------
(* Types of what the integrations write *)

LEMMA RememberedTypes ==
  ASSUME RouteTypes, NEW u \in Units, NEW event
  PROVE  /\ Kept(u, event) \in Remembering /\ Remembered(u, event) \in Remembering
         /\ NoAddress \in Remembering
<1>1. /\ stored[u] \in Remembering /\ NoAddress \in Remembering
      /\ traefik.address.host \in Hosts \union {None}
      /\ traefik.address.scheme \in {"none", "http", "https"}
  <2>1. traefik.address \in Addresses \/ traefik.address = NoAddress
    BY DEF RouteTypes
  <2>2. QED
    BY <2>1, RouteAssumption DEF RouteTypes, Hosts, NoAddress, None, Remembering
<1>2. Kept(u, event) \in Remembering
  BY <1>1 DEF Kept, Remembering
<1>3. QED
  BY <1>1, <1>2 DEF Remembered, Remembering, Or

LEMMA UrlTypes ==
  ASSUME RouteTypes, NEW a \in Remembering
  PROVE  UrlsFor(a) \in [ldap : Hosts \union {"none", "cluster"}, ldaps : Hosts \union Domains \union {None}]
<1>1. a.host \in Hosts \union {None} /\ options.domain \in Domains
  BY DEF RouteTypes, Remembering, Domains
<1>2. (IF options.expose /\ a.host # None THEN a.host ELSE "cluster") \in Hosts \union {"none", "cluster"}
  BY <1>1
<1>3. (IF LdapsEnabled(a) THEN Or(options.domain, a.host) ELSE None) \in Hosts \union Domains \union {None}
  BY <1>1 DEF LdapsEnabled, Or
<1>4. QED
  BY <1>2, <1>3 DEF UrlsFor

\* What a hook of u does to the route and to what is advertised of it.
HookRoutes(u) ==
  /\ UNCHANGED <<options, traefik>>
  /\ \/ stored' = stored
     \/ \E event : \E address1 \in {Kept(u, event), Remembered(u, event)} :
          stored' = [stored EXCEPT ![u] = address1]
  /\ \/ UNCHANGED <<route, applying>>
     \/ traefik.related /\ route' = RouteOf(options) /\ applying' = (applying \/ route' # route)
  /\ urls' = urls \/ urls' = UrlsFor(NoAddress) \/ \E event : urls' = UrlsFor(Remembered(u, event))

LEMMA HooksRoute ==
  ASSUME NEW u \in Units, NEW event, NEW outcome,
         Commits(u, event, outcome) \/ Refuses(u, event, outcome) \/ Stops(u)
  PROVE  HookRoutes(u)
<1>1. CASE Stops(u)
  BY <1>1 DEF Stops, NotWritten, OthersUnchanged, HookRoutes
<1>2. CASE Commits(u, event, outcome) \/ Refuses(u, event, outcome)
  <2>1. /\ Acts(u, event, outcome) /\ OthersUnchanged
        /\ Writes(u, event, outcome) \/ UNCHANGED <<route, applying, urls>>
    BY <1>2 DEF Commits, Refuses, Runs, NotWritten
  <2>2. UNCHANGED <<options, traefik>>
    BY <2>1 DEF OthersUnchanged
  <2>3. \E address1 \in {Kept(u, event), Remembered(u, event)} :
          stored' = [stored EXCEPT ![u] = address1]
    BY <2>1 DEF Acts, Remember
  <2>4. \/ UNCHANGED <<route, applying>>
        \/ traefik.related /\ route' = RouteOf(options) /\ applying' = (applying \/ route' # route)
    BY <2>1 DEF Writes, Submit, Submits
  <2>5. urls' = urls \/ urls' = UrlsFor(NoAddress) \/ urls' = UrlsFor(Remembered(u, event))
    BY <2>1 DEF Writes, Publish
  <2>6. QED
    BY <2>2, <2>3, <2>4, <2>5 DEF HookRoutes
<1>3. QED
  BY <1>1, <1>2

LEMMA HookRouteTypes ==
  ASSUME RouteTypes, NEW u \in Units, HookRoutes(u)
  PROVE  RouteTypes'
<1>1. options' \in Options /\ traefik' \in [related : BOOLEAN, address : Addresses \union {NoAddress}, serves : Routes]
  BY DEF HookRoutes, RouteTypes
<1>2. route' \in Routes /\ applying' \in BOOLEAN
  <2>1. RouteOf(options) \in Routes
    BY DEF RouteTypes, Routes
  <2>2. QED
    BY <2>1 DEF HookRoutes, RouteTypes
<1>3. stored' \in [Units -> Remembering]
  BY RememberedTypes DEF HookRoutes, RouteTypes
<1>4. urls' \in [ldap : Hosts \union {"none", "cluster"}, ldaps : Hosts \union Domains \union {None}]
  <2>1. urls' = urls \/ \E a \in Remembering : urls' = UrlsFor(a)
    BY RememberedTypes DEF HookRoutes
  <2>2. QED
    BY <2>1, UrlTypes DEF RouteTypes
<1>5. QED
  BY <1>1, <1>2, <1>3, <1>4 DEF RouteTypes

LEMMA OtherRouteTypes ==
  ASSUME RouteTypes, RouteChanges \/ TraefikApplies \/ UNCHANGED routeVars
  PROVE  RouteTypes'
<1>1. CASE UNCHANGED routeVars
  BY <1>1 DEF routeVars, RouteTypes
<1>2. CASE TraefikRelates \/ TraefikPublishes
  BY <1>2 DEF TraefikRelates, TraefikPublishes, RouteTypes
<1>3. CASE TraefikLeaves
  BY <1>3 DEF TraefikLeaves, RouteTypes, Routes
<1>4. CASE OptionsChange
  BY <1>4 DEF OptionsChange, RouteTypes
<1>5. CASE TraefikApplies
  BY <1>5 DEF TraefikApplies, RouteTypes
<1>6. QED
  BY <1>1, <1>2, <1>3, <1>4, <1>5 DEF RouteChanges

LEMMA RouteTypeSteps ==
  ASSUME RouteTypes, [Next]_vars
  PROVE  RouteTypes'
<1>1. CASE RouteChanges \/ TraefikApplies \/ UNCHANGED routeVars
  BY <1>1, OtherRouteTypes
<1>2. CASE Environment \/ Others \/ Leadership \/ UNCHANGED vars
  BY <1>1, <1>2 DEF Environment, Restart, Others, Leadership, vars
<1>3. ASSUME NEW u \in Units, HookRoutes(u) PROVE RouteTypes'
  BY <1>3, HookRouteTypes
<1>4. QED
  BY <1>2, <1>3, NextIsSteps, HooksRoute DEF Steps

-----------------------------------------------------------------------------
(* Targets *)

\* Addresses are numbered in order, and an event makes a unit publish its new one.
AddressTypes ==
  /\ address \in [Units -> 1..changes + 1] /\ published \in [Units -> 0..changes + 1]
  /\ jobs \in BOOLEAN
  /\ prometheus \in [related : BOOLEAN, notified : BOOLEAN,
                     targets : SUBSET (Units \X (0..changes + 1))]

AddressEvents == {"metrics-joined", "pebble-ready", "update-status"}

ScrapeInv ==
  /\ jobs = TRUE => prometheus.related = TRUE
  /\ prometheus.notified = FALSE => prometheus.targets = Targets
  /\ prometheus.related = TRUE =>
       \A u \in Units : pending[u] \intersect AddressEvents = {} => published[u] = address[u]

LEMMA NumbersGrow ==
  ASSUME changes \in Nat, changes' \in {changes, changes + 1}
  PROVE  /\ 0..changes + 1 \subseteq 0..changes' + 1 /\ 1..changes + 1 \subseteq 1..changes' + 1
         /\ changes' = changes + 1 => \A n \in 1..changes + 1 : n + 1 \in 1..changes' + 1
<1>1. CASE changes' = changes
  BY <1>1
<1>2. CASE changes' = changes + 1
  BY <1>2
<1>3. QED
  BY <1>1, <1>2

LEMMA AddressTypesStay ==
  ASSUME JujuTypes, AddressTypes, changes' \in {changes, changes + 1},
         UNCHANGED <<published, jobs, prometheus>>,
         \/ address' = address
         \/ changes' = changes + 1 /\ \E u \in Units : address' = [address EXCEPT ![u] = @ + 1]
  PROVE  AddressTypes'
<1>1. changes \in Nat
  BY DEF JujuTypes
<1>2. /\ 0..changes + 1 \subseteq 0..changes' + 1 /\ 1..changes + 1 \subseteq 1..changes' + 1
      /\ changes' = changes + 1 => \A n \in 1..changes + 1 : n + 1 \in 1..changes' + 1
  BY <1>1, NumbersGrow
<1>3. address' \in [Units -> 1..changes' + 1]
  BY <1>2 DEF AddressTypes
<1>4. published' \in [Units -> 0..changes' + 1]
  BY <1>2 DEF AddressTypes
<1>5. prometheus' \in [related : BOOLEAN, notified : BOOLEAN,
                       targets : SUBSET (Units \X (0..changes' + 1))]
  BY <1>2 DEF AddressTypes
<1>6. QED
  BY <1>3, <1>4, <1>5 DEF AddressTypes

\* A hook that is committed sets what its event calls for.
LEMMA CommitScrapes ==
  ASSUME JujuTypes, AddressTypes, ScrapeInv, NEW u \in Units, NEW event, NEW outcome,
         Commits(u, event, outcome)
  PROVE  AddressTypes' /\ ScrapeInv'
<1>1. /\ UNCHANGED <<address, changes>>
      /\ pending' = Dispatched(u, event)
      /\ published' = IF prometheus.related /\ SetsAddress(event)
                        THEN [published EXCEPT ![u] = address[u]] ELSE published
      /\ jobs' = (jobs \/ (prometheus.related /\ SetsJobs(event) /\ leader = u))
      /\ prometheus' = IF published' # published \/ jobs' # jobs
                         THEN [prometheus EXCEPT !.notified = TRUE] ELSE prometheus
  BY DEF Commits, Runs, OthersUnchanged, Writes, SetAddress, SetJobs, TellPrometheus
<1>2. published' \in [Units -> 0..changes + 1]
  <2>1. address[u] \in 0..changes + 1
    BY DEF AddressTypes
  <2>2. QED
    BY <1>1, <2>1 DEF AddressTypes
<1>3. jobs' \in BOOLEAN
  BY <1>1
<1>4. /\ prometheus' \in [related : BOOLEAN, notified : BOOLEAN,
                          targets : SUBSET (Units \X (0..changes + 1))]
      /\ prometheus'.related = prometheus.related
      /\ prometheus'.notified = FALSE =>
           prometheus.notified = FALSE /\ prometheus'.targets = prometheus.targets
             /\ published' = published /\ jobs' = jobs
  BY <1>1 DEF AddressTypes
<1>5. AddressTypes'
  BY <1>1, <1>2, <1>3, <1>4 DEF AddressTypes
<1>6. jobs' = TRUE => prometheus.related = TRUE
  BY <1>1 DEF AddressTypes, ScrapeInv
<1>7. prometheus'.notified = FALSE => prometheus'.targets = Targets'
  BY <1>4 DEF ScrapeInv, Targets, Hosted, Expanded
<1>8. ASSUME prometheus.related = TRUE, NEW v \in Units, pending'[v] \intersect AddressEvents = {}
      PROVE  published'[v] = address[v]
  <2>1. CASE v = u /\ event \in AddressEvents
    BY <1>1, <1>8, <2>1 DEF AddressEvents, SetsAddress, SetsJobs, AddressTypes
  <2>2. CASE ~(v = u /\ event \in AddressEvents)
    <3>1. pending[v] \intersect AddressEvents = {}
      BY <1>1, <1>8, <2>2 DEF Dispatched, JujuTypes
    <3>2. QED
      BY <1>1, <1>8, <3>1 DEF ScrapeInv, AddressTypes
  <2>3. QED
    BY <2>1, <2>2
<1>9. QED
  BY <1>1, <1>4, <1>5, <1>6, <1>7, <1>8 DEF ScrapeInv

\* An event waits for the hook of its unit, unless the relation it is about ends first.
LEMMA EventsWait ==
  ASSUME JujuTypes, Environment \/ Others \/ Leadership \/ UNCHANGED vars,
         NEW v \in Units, NEW event \in pending[v],
         event = "metrics-joined" => ~PrometheusLeaves,
         event = "dashboard-created" => ~GrafanaLeaves
  PROVE  event \in pending'[v]
<1>1. ASSUME NEW integration, ChangesUnnoticed(integration) PROVE event \in pending'[v]
  BY <1>1 DEF ChangesUnnoticed
<1>2. ASSUME NEW units, NEW other, pending' = Told(units, other) PROVE event \in pending'[v]
  BY <1>2 DEF Told
<1>3. ASSUME NEW integration, NEW other, ChangesNoticed(integration, other)
      PROVE  event \in pending'[v]
  BY <1>2, <1>3 DEF ChangesNoticed
<1>4. CASE Environment
  <2>1. CASE ServerChanges \/ OutpostLost
    BY <1>1, <1>3, <2>1
    DEF ServerChanges, ServerRelates, ServerPublishes, ServerRotates, ServerLeaves, OutpostLost
  <2>2. CASE RouteChanges \/ TracingChanges
    BY <1>3, <2>2
    DEF RouteChanges, TraefikRelates, TraefikPublishes, TraefikLeaves, OptionsChange,
      TracingChanges, TempoRelates, TempoLeaves
  <2>3. CASE ScrapingChanges
    BY <1>3, <2>3 DEF ScrapingChanges, PrometheusRelates, PrometheusLeaves
  <2>4. CASE DashboardChanges
    BY <1>3, <2>4 DEF DashboardChanges, GrafanaRelates, GrafanaLeaves
  <2>5. ASSUME NEW u \in Units, Upgrade(u) PROVE event \in pending'[v]
    BY <2>5 DEF Upgrade, JujuTypes
  <2>6. ASSUME NEW u \in Units, Restart(u) PROVE event \in pending'[v]
    BY <1>2, <2>6 DEF Restart
  <2>7. QED
    BY <1>4, <2>1, <2>2, <2>3, <2>4, <2>5, <2>6 DEF Environment
<1>5. CASE Others
  BY <1>2, <1>5
  DEF Others, TraefikApplies, TempoPublishes, PrometheusReads, GrafanaRenders, jujuVars
<1>6. CASE Leadership
  BY <1>2, <1>6 DEF Leadership, LoseLeadership, Elect
<1>7. CASE UNCHANGED vars
  BY <1>7 DEF vars, jujuVars
<1>8. QED
  BY <1>4, <1>5, <1>6, <1>7

\* A new leader has the event of its election to see.
LEMMA LeaderStays ==
  ASSUME Environment \/ Others \/ Leadership \/ UNCHANGED vars,
         leader' # None, "leader-elected" \notin pending'[leader']
  PROVE  leader' = leader
<1>1. ASSUME NEW u \in Units, Elect(u) PROVE FALSE
  BY <1>1 DEF Elect, Told
<1>2. ASSUME NEW integration, Changes(integration) PROVE leader' = leader
  BY <1>2 DEF Changes
<1>3. CASE Environment
  BY <1>2, <1>3
  DEF Environment, ServerChanges, ServerRelates, ServerPublishes, ServerRotates, ServerLeaves,
    OutpostLost, RouteChanges, TraefikRelates, TraefikPublishes, TraefikLeaves, OptionsChange,
    TracingChanges, TempoRelates, TempoLeaves, ScrapingChanges, PrometheusRelates,
    PrometheusLeaves, DashboardChanges, GrafanaRelates, GrafanaLeaves, Upgrade, Restart,
    ChangesNoticed, ChangesUnnoticed
<1>4. CASE Others \/ Leadership \/ UNCHANGED vars
  BY <1>1, <1>4
  DEF Others, TraefikApplies, TempoPublishes, PrometheusReads, GrafanaRenders, Leadership,
    LoseLeadership, jujuVars, vars
<1>5. QED
  BY <1>3, <1>4

\* Where nothing is related, published and scraped otherwise, the invariant stays.
LEMMA ScrapeStays ==
  ASSUME JujuTypes, AddressTypes, ScrapeInv, changes' \in {changes, changes + 1},
         UNCHANGED <<published, jobs, prometheus>>,
         \A v \in Units : pending[v] \intersect AddressEvents # {} =>
           pending'[v] \intersect AddressEvents # {},
         \/ address' = address
         \/ changes' = changes + 1 /\ \E u \in Units :
              /\ address' = [address EXCEPT ![u] = @ + 1]
              /\ pending'[u] \intersect PodEvents # {}
  PROVE  AddressTypes' /\ ScrapeInv'
<1>1. AddressTypes'
  BY AddressTypesStay
<1>2. Targets' = Targets
  BY DEF Targets, Hosted, Expanded
<1>3. ASSUME prometheus.related = TRUE, NEW v \in Units, pending'[v] \intersect AddressEvents = {}
      PROVE  published[v] = address'[v]
  <2>1. published[v] = address[v]
    BY <1>3 DEF ScrapeInv
  <2>2. pending'[v] \intersect PodEvents = {}
    BY <1>3 DEF AddressEvents, PodEvents
  <2>3. QED
    BY <2>1, <2>2 DEF AddressTypes
<1>4. QED
  BY <1>1, <1>2, <1>3 DEF ScrapeInv

LEMMA ScrapingSteps ==
  ASSUME JujuTypes, AddressTypes, ScrapeInv, ScrapingChanges \/ PrometheusReads,
         changes' \in {changes, changes + 1}
  PROVE  AddressTypes' /\ ScrapeInv'
<1>1. changes \in Nat
  BY DEF JujuTypes
<1>2. 0..changes + 1 \subseteq 0..changes' + 1 /\ 1..changes + 1 \subseteq 1..changes' + 1
  BY <1>1, NumbersGrow
<1>3. CASE PrometheusRelates
  <2>1. /\ UNCHANGED <<address, jobs, published>> /\ prometheus.related = FALSE
        /\ prometheus' = [prometheus EXCEPT !.related = TRUE]
        /\ pending' = Told(Units, "metrics-joined")
    BY <1>3 DEF PrometheusRelates, ChangesNoticed, AddressTypes
  <2>2. \A v \in Units : "metrics-joined" \in pending'[v]
    BY <2>1 DEF Told
  <2>3. AddressTypes'
    BY <1>2, <2>1 DEF AddressTypes
  <2>4. Targets' = Targets
    BY <2>1 DEF Targets, Expanded, Hosted
  <2>5. QED
    BY <2>1, <2>2, <2>3, <2>4 DEF ScrapeInv, AddressTypes, AddressEvents
<1>4. CASE PrometheusLeaves
  <2>1. /\ prometheus' = [related |-> FALSE, notified |-> FALSE, targets |-> {}]
        /\ jobs' = FALSE /\ published' = [u \in Units |-> 0] /\ address' = address
    BY <1>4 DEF PrometheusLeaves
  <2>2. AddressTypes'
    <3>1. 0 \in 0..changes + 1
      BY <1>1
    <3>2. QED
      BY <1>2, <2>1, <3>1 DEF AddressTypes
  <2>3. QED
    BY <2>1, <2>2 DEF ScrapeInv, Targets
<1>5. CASE PrometheusReads
  <2>1. /\ prometheus' = [prometheus EXCEPT !.notified = FALSE, !.targets = Targets]
        /\ UNCHANGED <<jujuVars, address, jobs, published>>
    BY <1>5 DEF PrometheusReads
  <2>2. Targets \in SUBSET (Units \X (0..changes + 1)) /\ Targets' = Targets
    BY <2>1 DEF Targets, Expanded, Hosted, AddressTypes
  <2>3. changes' = changes /\ pending' = pending
    BY <2>1 DEF jujuVars
  <2>4. AddressTypes'
    BY <2>1, <2>2, <2>3 DEF AddressTypes
  <2>5. QED
    BY <2>1, <2>2, <2>3, <2>4 DEF ScrapeInv, AddressTypes
<1>6. QED
  BY <1>3, <1>4, <1>5 DEF ScrapingChanges

LEMMA ScrapeSteps ==
  ASSUME JujuTypes, AddressTypes, ScrapeInv, [Next]_vars
  PROVE  AddressTypes' /\ ScrapeInv'
<1>1. changes' \in {changes, changes + 1}
  BY JujuSteps
<1>2. ASSUME NEW u \in Units, NEW event, NEW outcome, Refuses(u, event, outcome) \/ Stops(u)
      PROVE  AddressTypes' /\ ScrapeInv'
  <2>1. UNCHANGED <<published, jobs, prometheus, address, pending>>
    BY <1>2 DEF Refuses, Runs, Stops, NotWritten, OthersUnchanged
  <2>2. QED
    BY <1>1, <2>1, ScrapeStays
<1>3. CASE Environment \/ Others \/ Leadership \/ UNCHANGED vars
  <2>1. CASE ScrapingChanges \/ PrometheusReads
    BY <1>1, <2>1, ScrapingSteps
  <2>2. CASE ~(ScrapingChanges \/ PrometheusReads)
    <3>1. UNCHANGED <<published, jobs, prometheus>>
      BY <1>3, <2>2 DEF Environment, Restart, Others, Leadership, vars, scrapingVars
    <3>2. \A v \in Units : pending[v] \intersect AddressEvents # {} =>
            pending'[v] \intersect AddressEvents # {}
      <4>1. ASSUME NEW v \in Units, NEW event \in pending[v], event \in AddressEvents
            PROVE  event \in pending'[v]
        BY <1>3, <2>2, <4>1, EventsWait DEF AddressEvents, ScrapingChanges
      <4>2. QED
        BY <4>1
    <3>3. \/ address' = address
          \/ changes' = changes + 1 /\ \E u \in Units :
               /\ address' = [address EXCEPT ![u] = @ + 1]
               /\ pending'[u] \intersect PodEvents # {}
      <4>1. ASSUME NEW u \in Units, Upgrade(u) /\ NewPod(u)
            PROVE  /\ changes' = changes + 1 /\ address' = [address EXCEPT ![u] = @ + 1]
                   /\ pending'[u] \intersect PodEvents # {}
        BY <4>1 DEF Upgrade, NewPod, Changes, JujuTypes, PodEvents
      <4>2. ASSUME NEW u \in Units, Restart(u)
            PROVE  /\ changes' = changes + 1 /\ address' = [address EXCEPT ![u] = @ + 1]
                   /\ pending'[u] \intersect PodEvents # {}
        BY <4>2 DEF Restart, NewPod, Changes, Told
      <4>3. QED
        BY <1>3, <2>2, <4>1, <4>2 DEF Environment, Others, Leadership, vars, scrapingVars
    <3>4. QED
      BY <1>1, <3>1, <3>2, <3>3, ScrapeStays
  <2>3. QED
    BY <2>1, <2>2
<1>4. QED
  BY <1>2, <1>3, NextIsSteps, CommitScrapes DEF Steps

LEMMA JujuInit == ASSUME Init PROVE JujuTypes
<1>1. pending \in [Units -> SUBSET Events]
  BY DEF Init, Fresh, Serving, Events
<1>2. QED
  BY <1>1, UnitAssumption DEF Init, JujuTypes

LEMMA ScrapeInit == ASSUME Init PROVE AddressTypes /\ ScrapeInv
<1>1. /\ changes = 0 /\ address = [u \in Units |-> 1] /\ published = [u \in Units |-> 0]
      /\ jobs = FALSE
      /\ prometheus = [related |-> FALSE, notified |-> FALSE, targets |-> {}]
  BY DEF Init
<1>2. address \in [Units -> 1..changes + 1]
  BY <1>1
<1>3. published \in [Units -> 0..changes + 1]
  BY <1>1
<1>4. QED
  BY <1>1, <1>2, <1>3 DEF AddressTypes, ScrapeInv, Targets

\* The targets that Prometheus has seen are what the units have published of their present pods.
LEMMA TargetsAreUnits ==
  ASSUME AddressTypes, ScrapeInv, Settled, jobs
  PROVE  prometheus.targets = {<<u, address[u]>> : u \in Units}
<1>1. prometheus.related = TRUE /\ prometheus.targets = Targets
  <2>1. jobs = TRUE
    BY DEF AddressTypes
  <2>2. prometheus.notified = FALSE
    BY DEF AddressTypes, Settled
  <2>3. QED
    BY <2>1, <2>2 DEF ScrapeInv
<1>2. \A u \in Units : published[u] = address[u]
  <2>1. \A u \in Units : pending[u] \intersect AddressEvents = {}
    BY DEF Settled
  <2>2. QED
    BY <1>1, <2>1 DEF ScrapeInv
<1>3. Hosted = Units
  BY <1>2 DEF Hosted, AddressTypes
<1>4. QED
  BY <1>1, <1>2, <1>3 DEF Targets, Expanded

\* Prometheus scrapes every unit where its present pod is, whoever led when the jobs were
\* published: on pebble-ready or, when the pod came back silently, on update-status the unit that
\* moved publishes its own address without the leader.
THEOREM UnitsAreScraped == Spec => []ScrapedWhereTheyAre
<1> DEFINE I == JujuTypes /\ AddressTypes /\ ScrapeInv
<1>1. Init => I
  BY JujuInit, ScrapeInit
<1>2. I /\ [Next]_vars => I'
  BY JujuSteps, ScrapeSteps
<1>3. I => ScrapedWhereTheyAre
  BY TargetsAreUnits DEF ScrapedWhereTheyAre, UnitsScraped
<1>4. QED
  BY <1>1, <1>2, <1>3, PTL DEF Spec

-----------------------------------------------------------------------------
(* Plans *)

\* Where the behaviour is about neither the server nor the token, every call is accepted and the
\* outpost stays.
ServingInv ==
  focus \notin {"server", "token"} =>
    /\ server = [state |-> "ready", host |-> 1, revision |-> 1]
    /\ peers.token = 1 /\ outposts[1] = 1
    /\ \A u \in Units : CallsAccepted(u)

LEMMA OthersKeep ==
  ASSUME Environment \/ Others \/ Leadership \/ UNCHANGED vars
  PROVE  /\ UNCHANGED <<faults, focus>>
         /\ focus \notin {"server", "token"} => UNCHANGED <<server, tracked, outposts, peers>>
<1>1. ASSUME NEW integration, Changes(integration)
      PROVE  UNCHANGED <<faults, focus>> /\ focus = integration
  BY <1>1 DEF Changes
<1>2. CASE Environment
  <2>1. CASE ServerChanges \/ OutpostLost
    BY <1>1, <2>1
    DEF ServerChanges, ServerRelates, ServerPublishes, ServerRotates, ServerLeaves, OutpostLost,
      ChangesNoticed, ChangesUnnoticed
  <2>2. CASE (RouteChanges \/ TracingChanges \/ ScrapingChanges \/ DashboardChanges)
               /\ UNCHANGED tokenVars
    BY <1>1, <2>2
    DEF RouteChanges, TraefikRelates, TraefikPublishes, TraefikLeaves, OptionsChange,
      TracingChanges, TempoRelates, TempoLeaves, ScrapingChanges, PrometheusRelates,
      PrometheusLeaves, DashboardChanges, GrafanaRelates, GrafanaLeaves, ChangesNoticed, tokenVars
  <2>3. ASSUME NEW u \in Units, UNCHANGED <<server, tracked, outposts, peers>>,
               Upgrade(u) \/ Restart(u)
        PROVE  UNCHANGED <<faults, focus, server, tracked, outposts, peers>>
    BY <1>1, <2>3 DEF Upgrade, Restart
  <2>4. QED
    BY <1>2, <2>1, <2>2, <2>3 DEF Environment, Restart
<1>3. CASE Others \/ Leadership \/ UNCHANGED vars
  BY <1>3
  DEF Others, TraefikApplies, TempoPublishes, PrometheusReads, GrafanaRenders, Leadership,
    LoseLeadership, Elect, tokenVars, jujuVars, vars
<1>4. QED
  BY <1>2, <1>3

LEMMA ServingSteps ==
  ASSUME TokenInv, ServingInv, [Next]_vars
  PROVE  ServingInv'
<1>1. ASSUME NEW u \in Units, Hook(u) \/ HookRaises(u) \/ HookRefused(u) PROVE ServingInv'
  <2>1. HookEffect(u)
    BY <1>1, HookHasEffect
  <2>2. SUFFICES ASSUME focus \notin {"server", "token"} PROVE ServingInv'
    BY <2>1 DEF HookEffect, ServingInv
  <2>3. TokenOfOutpost = 1 /\ server.host = 1 /\ 1 \in Servers
    BY <2>2, UnitAssumption DEF ServingInv, TokenOfOutpost, Servers
  <2>4. server' = server /\ peers'.token = 1 /\ outposts'[1] = 1
    BY <2>1, <2>2, <2>3 DEF HookEffect, ServingInv, TokenInv, RecordInv
  <2>5. \A v \in Units : CallsAccepted(v)'
    BY <2>1, <2>2 DEF HookEffect, ServingInv, CallsAccepted, TokenRead, TokenInv, ReadInv
  <2>6. QED
    BY <2>1, <2>2, <2>4, <2>5 DEF ServingInv
<1>2. CASE Environment \/ Others \/ Leadership \/ UNCHANGED vars
  BY <1>2, OthersKeep DEF ServingInv, CallsAccepted, TokenRead
<1>3. QED
  BY <1>1, <1>2 DEF Next

LEMMA ServingInit == ASSUME Init PROVE ServingInv
<1>1. SUFFICES ASSUME focus \notin {"server", "token"} PROVE ServingInv
  BY DEF ServingInv
<1>2. /\ server = [state |-> "ready", host |-> 1, revision |-> 1] /\ peers.token = 1
      /\ tracked = [u \in Units |-> [host |-> 1, revision |-> 1]]
      /\ outposts = [s \in Servers |-> IF s = 1 THEN 1 ELSE 0]
  BY <1>1 DEF Init, Serving
<1>3. 1 \in Servers
  BY UnitAssumption DEF Servers
<1>4. QED
  BY <1>2, <1>3 DEF ServingInv, CallsAccepted, TokenRead

\* Unless a call fails, a hook that comes to the holistic handler plans.
LEMMA HookPlans ==
  ASSUME JujuTypes, NEW u \in Units, NEW event, NEW outcome, Runs(u, event, outcome),
         Reconciles(u, event), Ready, leader = u => CallsAccepted(u), TokenInHook(u) # 0,
         faults' = faults
  PROVE  Plans(u, event, outcome)
<1>1. Handles(u, event)
  BY DEF Handles, Ready
<1>2. Ends(u, outcome)
  BY <1>1 DEF Runs
<1>3. faults' # faults + 1
  BY DEF JujuTypes
<1>4. outcome = "ok"
  BY <1>2, <1>3 DEF Ends
<1>5. QED
  BY <1>1, <1>4 DEF Plans

\* What has failed stays known.
LEMMA FaultsStay ==
  ASSUME JujuTypes, NEW u \in Units, NEW event, NEW outcome, Runs(u, event, outcome), faults' = 0
  PROVE  faults = 0 /\ faults' = faults
<1>1. faults' \in {faults, faults + 1} /\ faults \in Nat
  BY Bounds DEF Runs, Ends, JujuTypes
<1>2. CASE faults' = faults
  BY <1>2
<1>3. CASE faults' = faults + 1
  BY <1>1, <1>3
<1>4. QED
  BY <1>1, <1>2, <1>3

\* What a hook plans, or that it plans nothing.
LEMMA PlanEffect ==
  ASSUME TokenInv, NEW u \in Units, NEW event, NEW outcome, Runs(u, event, outcome)
  PROVE  /\ \A v \in Units \ {u} : planned'[v] = planned[v]
         /\ Plans(u, event, outcome) => planned'[u] = PlanOf(u)
         /\ ~Plans(u, event, outcome) => planned'[u] = planned[u]
  BY DEF Runs, Acts, PlanOf, TokenInv, RecordInv

-----------------------------------------------------------------------------
(* Traces *)

TraceInv ==
  /\ others \in BOOLEAN /\ requested \in BOOLEAN
  /\ tempo.relation = 0 => tempo.receivers = "none"
  /\ focus # "tracing" => tempo.relation = 0
  /\ \A u \in Units :
       (focus = "tracing" => faults = 0 /\ "tracing" \notin pending[u]) => planned[u].traces = Endpoint

\* A hook that takes the event away plans the endpoint of now.
LEMMA HookTraces ==
  ASSUME JujuTypes, TokenInv, ServingInv, TraceInv, NEW u \in Units, NEW event, NEW outcome,
         Commits(u, event, outcome) \/ Refuses(u, event, outcome)
  PROVE  TraceInv'
<1>1. Runs(u, event, outcome) /\ UNCHANGED <<tempo, others, focus>>
  BY DEF Commits, Refuses, Runs, OthersUnchanged
<1>2. Endpoint' = Endpoint
  BY <1>1 DEF Endpoint
<1>3. requested' \in BOOLEAN
  BY DEF Commits, Refuses, Writes, NotWritten, Request, Requests, TraceInv
<1>4. ASSUME NEW v \in Units, focus = "tracing" => faults' = 0 /\ "tracing" \notin pending'[v]
      PROVE  planned'[v].traces = Endpoint
  <2>1. CASE v = u /\ Plans(u, event, outcome)
    <3>1. planned'[u] = PlanOf(u)
      BY <1>1, <2>1, PlanEffect
    <3>2. QED
      BY <2>1, <3>1 DEF PlanOf
  <2>2. CASE ~(v = u /\ Plans(u, event, outcome))
    <3>1. planned'[v] = planned[v]
      BY <1>1, <2>2, PlanEffect
    <3>2. CASE focus # "tracing"
      BY <3>1, <3>2 DEF TraceInv
    <3>3. CASE focus = "tracing"
      <4>1. faults = 0 /\ faults' = faults
        BY <1>1, <1>4, <3>3, FaultsStay
      <4>2. "tracing" \notin pending[v]
        <5>1. SUFFICES ASSUME "tracing" \in pending[v] PROVE FALSE
          OBVIOUS
        <5>2. v = u /\ event = "tracing"
          BY <1>4, <3>3, <5>1 DEF Commits, Refuses, NotWritten, Dispatched
        <5>3. Ready /\ (leader = u => CallsAccepted(u))
          BY <3>3 DEF ServingInv, Ready
        <5>4. TokenInHook(u) # 0
          BY <3>3 DEF ServingInv, TokenInHook, TokenOfOutpost
        <5>5. Plans(u, event, outcome)
          BY <1>1, <4>1, <5>2, <5>3, <5>4, HookPlans DEF Reconciles
        <5>6. QED
          BY <2>2, <5>2, <5>5
      <4>3. QED
        BY <3>1, <4>1, <4>2 DEF TraceInv
    <3>4. QED
      BY <3>2, <3>3
  <2>3. QED
    BY <2>1, <2>2
<1>5. QED
  BY <1>1, <1>2, <1>3, <1>4 DEF TraceInv

\* Whatever changes the endpoint is an event for every unit.
LEMMA TempoTraces ==
  ASSUME TokenCounts, TraceInv, TracingChanges \/ TempoPublishes
  PROVE  TraceInv'
<1>1. focus = "tracing" /\ focus' = "tracing"
  BY DEF TracingChanges, TempoRelates, TempoLeaves, TempoPublishes, ChangesNoticed, Changes, TraceInv
<1>2. pending' = Told(Units, "tracing")
  BY DEF TracingChanges, TempoRelates, TempoLeaves, TempoPublishes, ChangesNoticed
<1>3. \A u \in Units : "tracing" \in pending'[u]
  BY <1>2 DEF Told
<1>4. others' \in BOOLEAN /\ requested' \in BOOLEAN
  BY DEF TracingChanges, TempoRelates, TempoLeaves, TempoPublishes, TraceInv
<1>5. tempo'.relation = 0 => tempo'.receivers = "none"
  <2>1. CASE TempoRelates
    <3>1. tempo'.relation = tempo.last + 1 /\ tempo.last \in Nat
      BY <2>1 DEF TempoRelates, TokenCounts, TempoCounts
    <3>2. QED
      BY <3>1
  <2>2. CASE TempoLeaves \/ TempoPublishes
    BY <2>2 DEF TempoLeaves, TempoPublishes, TokenCounts, TempoCounts
  <2>3. QED
    BY <2>1, <2>2 DEF TracingChanges
<1>6. QED
  BY <1>1, <1>3, <1>4, <1>5 DEF TraceInv

LEMMA OthersTrace ==
  ASSUME JujuTypes, TokenInv, TokenCounts, TraceInv,
         Environment \/ Others \/ Leadership \/ UNCHANGED vars
  PROVE  TraceInv'
<1>1. CASE TracingChanges \/ TempoPublishes
  BY <1>1, TempoTraces
<1>2. CASE ~(TracingChanges \/ TempoPublishes)
  <2>1. UNCHANGED tracingVars
    BY <1>2 DEF Environment, Restart, Others, Leadership, vars
  <2>2. UNCHANGED <<faults, focus>>
    BY OthersKeep
  <2>3. Endpoint' = Endpoint
    BY <2>1 DEF tracingVars, Endpoint
  <2>4. \/ planned' = planned
        \/ focus # "tracing" /\ \E u \in Units : planned' = [planned EXCEPT ![u] = NotPlanned]
    BY <1>2
    DEF Environment, OutpostLost, Upgrade, Restart, NewPod, Changes, Others, Leadership, vars,
      tokenVars
  <2>5. ASSUME NEW v \in Units, focus = "tracing" => faults = 0 /\ "tracing" \notin pending'[v]
        PROVE  planned'[v].traces = Endpoint
    <3>1. focus = "tracing" => "tracing" \notin pending[v]
      BY <2>5, EventsWait
    <3>2. planned[v].traces = Endpoint
      BY <2>5, <3>1 DEF TraceInv
    <3>3. focus # "tracing" => Endpoint = 0
      BY DEF TraceInv, Endpoint
    <3>4. QED
      BY <2>4, <3>2, <3>3 DEF TokenInv, RecordInv, NotPlanned
  <2>6. QED
    BY <2>1, <2>2, <2>3, <2>5 DEF TraceInv, tracingVars
<1>3. QED
  BY <1>1, <1>2

LEMMA TraceSteps ==
  ASSUME JujuTypes, TokenInv, TokenCounts, ServingInv, TraceInv, [Next]_vars
  PROVE  TraceInv'
<1>1. ASSUME NEW u \in Units, Stops(u) PROVE TraceInv'
  BY <1>1 DEF Stops, NotWritten, OthersUnchanged, TraceInv, Endpoint
<1>2. QED
  BY <1>1, NextIsSteps, HookTraces, OthersTrace DEF Steps

LEMMA CountInit == ASSUME Init PROVE TokenCounts
<1>1. /\ changes = 0 /\ server = [state |-> "ready", host |-> 1, revision |-> 1]
      /\ tempo = [relation |-> 0, receivers |-> "none", last |-> 0]
  BY DEF Init
<1>2. TempoCounts
  BY <1>1 DEF TempoCounts
<1>3. CASE Fresh
  BY <1>1, <1>2, <1>3
  DEF Fresh, TokenCounts, ServerCounts, MintCounts, PlanCounts, NotPlanned
<1>4. CASE Serving
  <2>1. ServerCounts
    BY <1>1, <1>4 DEF Serving, ServerCounts
  <2>2. 1 \in Servers /\ Servers \subseteq Nat
    BY UnitAssumption DEF Servers
  <2>3. MintCounts
    BY <1>1, <1>4, <2>2 DEF Serving, MintCounts
  <2>4. PlanCounts
    BY <1>1, <1>4 DEF Serving, PlanCounts
  <2>5. QED
    BY <1>2, <2>1, <2>3, <2>4 DEF TokenCounts
<1>5. QED
  BY <1>3, <1>4 DEF Init

LEMMA TraceInit == ASSUME Init PROVE TraceInv
<1>1. /\ tempo = [relation |-> 0, receivers |-> "none", last |-> 0]
      /\ others \in BOOLEAN /\ requested \in BOOLEAN
  BY DEF Init
<1>2. Endpoint = 0
  BY <1>1 DEF Endpoint
<1>3. \A u \in Units : planned[u].traces = 0
  <2>1. \/ planned = [u \in Units |-> NotPlanned]
        \/ planned = [u \in Units |-> [host |-> 1, token |-> 1, traces |-> 0]]
    BY DEF Init, Fresh, Serving
  <2>2. CASE planned = [u \in Units |-> NotPlanned]
    BY <2>2 DEF NotPlanned
  <2>3. CASE planned = [u \in Units |-> [host |-> 1, token |-> 1, traces |-> 0]]
    BY <2>3
  <2>4. QED
    BY <2>1, <2>2, <2>3
<1>4. QED
  BY <1>1, <1>2, <1>3 DEF TraceInv

\* Every unit sends its traces to the Tempo that is related and to no former one: each change of
\* the relation is an event for every unit, a hook plans the endpoint of the moment it runs, and a
\* hook that raises for want of a receiver leaves its event to be run again.
THEOREM TracesAreFollowed == Spec => []TracesFollowTempo
<1> DEFINE I == JujuTypes /\ TokenInv /\ TokenCounts /\ ServingInv /\ TraceInv
<1>1. Init => I
  BY JujuInit, TokenInit, CountInit, ServingInit, TraceInit
<1>2. I /\ [Next]_vars => I'
  BY JujuSteps, TokenStep, CountSteps, ServingSteps, TraceSteps
<1>3. I => TracesFollowTempo
  <2>1. SUFFICES ASSUME TraceInv, Settled, NEW u \in Units PROVE planned[u].traces = Endpoint
    BY DEF TracesFollowTempo, TracesGo
  <2>2. faults = 0 /\ "tracing" \notin pending[u]
    BY <2>1 DEF Settled
  <2>3. QED
    BY <2>1, <2>2 DEF TraceInv
<1>4. QED
  BY <1>1, <1>2, <1>3, PTL DEF Spec

-----------------------------------------------------------------------------
(* Dashboards *)

LoadEvents == {"leader-elected", "upgrade-charm", "dashboard-created"}

DashInv ==
  /\ grafana.notified = FALSE => grafana.shows = sent
  /\ (leader # None /\ grafana.related = TRUE /\ pending[leader] \intersect LoadEvents = {}) =>
       sent = revision[leader]

\* A hook that takes the event away sends what is in the charm of its unit.
LEMMA CommitSends ==
  ASSUME JujuTypes, DashboardTypes, DashInv, NEW u \in Units, NEW event, NEW outcome,
         Commits(u, event, outcome)
  PROVE  DashboardTypes' /\ DashInv'
<1>1. /\ UNCHANGED <<revision, leader>> /\ pending' = Dispatched(u, event)
      /\ Load(u, event) /\ Send(u, event)
  BY DEF Commits, Runs, Acts, Writes, OthersUnchanged
<1>2. DashboardTypes'
  <2>1. revision[u] \in Revisions
    BY DEF DashboardTypes
  <2>2. templates' \in [Units -> Revisions \union {0}]
    BY <1>1, <2>1 DEF DashboardTypes, Load
  <2>3. sent' \in Revisions \union {0}
    BY <1>1, <2>1 DEF DashboardTypes, Send
  <2>4. grafana' \in [related : BOOLEAN, notified : BOOLEAN, shows : Revisions \union {0}]
    BY <1>1 DEF DashboardTypes, Send
  <2>5. QED
    BY <1>1, <2>2, <2>3, <2>4 DEF DashboardTypes
<1>3. grafana'.related = grafana.related
      /\ (grafana'.notified = FALSE => UNCHANGED <<grafana, sent>>)
  BY <1>1 DEF DashboardTypes, Send
<1>4. ASSUME leader # None, grafana.related = TRUE, pending'[leader] \intersect LoadEvents = {}
      PROVE  sent' = revision[leader]
  <2>1. CASE Loads(u, event) /\ leader = u
    BY <1>1, <1>4, <2>1 DEF Send
  <2>2. CASE ~(Loads(u, event) /\ leader = u)
    <3>1. leader \in Units /\ sent' = sent
      BY <1>1, <1>4, <2>2 DEF Send, JujuTypes
    <3>2. leader = u => event \notin LoadEvents
      BY <2>2 DEF LoadEvents, Loads
    <3>3. pending[leader] \intersect LoadEvents = {}
      BY <1>1, <1>4, <3>1, <3>2 DEF Dispatched
    <3>4. QED
      BY <1>4, <3>1, <3>3 DEF DashInv
  <2>3. QED
    BY <2>1, <2>2
<1>5. QED
  BY <1>1, <1>2, <1>3, <1>4 DEF DashInv

\* A revision more, a Grafana more or less.
LEMMA DashboardSteps ==
  ASSUME JujuTypes, DashboardTypes, DashInv,
         DashboardChanges \/ GrafanaRenders \/ \E u \in Units : Upgrade(u)
  PROVE  DashboardTypes' /\ DashInv'
<1>1. CASE GrafanaRelates
  <2>1. /\ grafana' = [grafana EXCEPT !.related = TRUE] /\ leader' = leader
        /\ UNCHANGED <<revision, templates, sent>>
        /\ pending' = Told(Units, "dashboard-created")
    BY <1>1 DEF GrafanaRelates, ChangesNoticed, Changes, dashboardVars
  <2>2. \A v \in Units : "dashboard-created" \in pending'[v]
    BY <2>1 DEF Told
  <2>3. QED
    BY <2>1, <2>2 DEF DashboardTypes, DashInv, JujuTypes, LoadEvents
<1>2. CASE GrafanaLeaves
  BY <1>2 DEF GrafanaLeaves, DashboardTypes, DashInv
<1>3. CASE GrafanaRenders
  BY <1>3 DEF GrafanaRenders, jujuVars, DashboardTypes, DashInv
<1>4. ASSUME NEW u \in Units, Upgrade(u) PROVE DashboardTypes' /\ DashInv'
  <2>1. /\ revision' = [revision EXCEPT ![u] = @ + 1] /\ revision[u] <= MaxNumber
        /\ UNCHANGED <<templates, grafana, sent, leader>>
        /\ pending' = [pending EXCEPT ![u] = @ \union {"upgrade-charm", "update-status"}]
    BY <1>4 DEF Upgrade, Changes
  <2>2. revision[u] + 1 \in Revisions
    BY <2>1, UnitAssumption DEF DashboardTypes, Revisions
  <2>3. DashboardTypes'
    BY <2>1, <2>2 DEF DashboardTypes
  <2>4. ASSUME leader # None, grafana.related = TRUE, pending'[leader] \intersect LoadEvents = {}
        PROVE  sent = revision'[leader]
    <3>1. leader \in Units /\ pending \in [Units -> SUBSET Events]
      BY <2>4 DEF JujuTypes
    <3>2. leader # u
      BY <2>1, <2>4, <3>1 DEF LoadEvents
    <3>3. pending'[leader] = pending[leader] /\ revision'[leader] = revision[leader]
      BY <2>1, <3>1, <3>2 DEF DashboardTypes
    <3>4. QED
      BY <2>4, <3>3 DEF DashInv
  <2>5. QED
    BY <2>1, <2>3, <2>4 DEF DashInv
<1>5. QED
  BY <1>1, <1>2, <1>3, <1>4 DEF DashboardChanges

LEMMA OthersDash ==
  ASSUME JujuTypes, DashboardTypes, DashInv,
         Environment \/ Others \/ Leadership \/ UNCHANGED vars
  PROVE  DashboardTypes' /\ DashInv'
<1>1. CASE DashboardChanges \/ GrafanaRenders \/ \E u \in Units : Upgrade(u)
  BY <1>1, DashboardSteps
<1>2. CASE ~(DashboardChanges \/ GrafanaRenders \/ \E u \in Units : Upgrade(u))
  <2>1. UNCHANGED dashboardVars
    BY <1>2 DEF Environment, Restart, Others, Leadership, vars
  <2>2. DashboardTypes' /\ (grafana'.notified = FALSE => grafana'.shows = sent')
    BY <2>1 DEF dashboardVars, DashboardTypes, DashInv
  <2>3. ASSUME leader' # None, grafana.related = TRUE, pending'[leader'] \intersect LoadEvents = {}
        PROVE  sent = revision[leader']
    <3>1. leader' = leader
      BY <2>3, LeaderStays DEF LoadEvents
    <3>2. leader \in Units
      BY <2>3, <3>1 DEF JujuTypes
    <3>3. \A event \in pending[leader] \intersect LoadEvents : event \in pending'[leader]
      BY <1>2, <3>2, EventsWait DEF DashboardChanges, LoadEvents
    <3>4. QED
      BY <2>3, <3>1, <3>3 DEF DashInv
  <2>4. QED
    BY <2>1, <2>2, <2>3 DEF DashInv, dashboardVars
<1>3. QED
  BY <1>1, <1>2

LEMMA DashSteps ==
  ASSUME JujuTypes, DashboardTypes, DashInv, [Next]_vars
  PROVE  DashboardTypes' /\ DashInv'
<1>1. ASSUME NEW u \in Units, NEW event, NEW outcome, Refuses(u, event, outcome)
      PROVE  DashboardTypes' /\ DashInv'
  BY <1>1
  DEF Refuses, Runs, Acts, Load, NotWritten, OthersUnchanged, DashboardTypes, DashInv
<1>2. ASSUME NEW u \in Units, Stops(u) PROVE DashboardTypes' /\ DashInv'
  BY <1>2 DEF Stops, NotWritten, OthersUnchanged, DashboardTypes, DashInv
<1>3. QED
  BY <1>1, <1>2, NextIsSteps, CommitSends, OthersDash DEF Steps

LEMMA DashInit == ASSUME Init PROVE DashboardTypes /\ DashInv
<1>1. /\ revision = [u \in Units |-> 1] /\ templates = [u \in Units |-> 1] /\ sent = 0
      /\ grafana = [related |-> FALSE, notified |-> FALSE, shows |-> 0]
  BY DEF Init
<1>2. 1 \in Revisions
  BY UnitAssumption DEF Revisions
<1>3. QED
  BY <1>1, <1>2 DEF DashboardTypes, DashInv

\* Grafana shows the dashboards of the leader's own revision, though every unit has its own and
\* they are upgraded one by one: the new leader sends them, the leader sends them when it is
\* upgraded, and what a leader that has lost its lease has sent is overwritten.
THEOREM LeadersDashboardsAreShown == Spec => []DashboardsOfTheLeader
<1> DEFINE I == JujuTypes /\ DashboardTypes /\ DashInv
<1>1. Init => I
  BY JujuInit, DashInit
<1>2. I /\ [Next]_vars => I'
  BY JujuSteps, DashSteps
<1>3. I => DashboardsOfTheLeader
  <2>1. SUFFICES ASSUME I, Settled, grafana.related PROVE grafana.shows = revision[leader]
    BY DEF DashboardsOfTheLeader, LeadersDashboards
  <2>2. grafana.related = TRUE /\ grafana.notified = FALSE
    BY <2>1 DEF DashboardTypes, Settled
  <2>3. leader # None /\ pending[leader] = {}
    BY <2>1 DEF JujuTypes, Settled
  <2>4. QED
    BY <2>1, <2>2, <2>3 DEF DashInv
<1>4. QED
  BY <1>1, <1>2, <1>3, PTL DEF Spec

-----------------------------------------------------------------------------
(* All types *)

LEMMA AddressesAreTypes ==
  ASSUME JujuTypes, AddressTypes
  PROVE  ScrapingTypes
<1>1. changes \in 0..MaxNumber /\ MaxNumber \in Nat
  BY UnitAssumption DEF JujuTypes
<1>2. 0..changes + 1 \subseteq PodAddresses /\ 1..changes + 1 \subseteq PodAddresses
  BY <1>1 DEF PodAddresses
<1>3. address \in [Units -> PodAddresses] /\ published \in [Units -> PodAddresses]
  BY <1>2 DEF AddressTypes
<1>4. prometheus \in [related : BOOLEAN, notified : BOOLEAN, targets : SUBSET (Units \X PodAddresses)]
  BY <1>2 DEF AddressTypes
<1>5. QED
  BY <1>3, <1>4 DEF AddressTypes, ScrapingTypes

LEMMA RouteTypesInit == ASSUME Init PROVE RouteTypes
<1>1. /\ options \in Options /\ options = [expose |-> FALSE, domain |-> None]
      /\ applying = FALSE /\ stored = [u \in Units |-> NoAddress]
  BY RouteAssumption DEF Init
<1>2. RouteOf(options) \in Routes /\ NoRoute \in Routes
  BY <1>1 DEF Routes
<1>3. /\ route \in Routes
      /\ traefik = [related |-> focus = "traefik", address |-> NoAddress, serves |-> route]
  BY <1>2 DEF Init
<1>4. traefik \in [related : BOOLEAN, address : Addresses \union {NoAddress}, serves : Routes]
  BY <1>3
<1>5. NoAddress \in Remembering
  BY DEF NoAddress, Remembering
<1>6. urls \in [ldap : Hosts \union {"none", "cluster"}, ldaps : Hosts \union Domains \union {None}]
  <2>1. urls = NoUrls \/ urls = UrlsFor(NoAddress)
    BY DEF Init, Fresh, Serving
  <2>2. QED
    BY <1>1, <2>1 DEF NoUrls, UrlsFor, LdapsEnabled, NoAddress, None
<1>7. QED
  BY <1>1, <1>3, <1>4, <1>5, <1>6 DEF RouteTypes

\* Every store of every integration keeps its type, whatever is bounded: what is numbered in order
\* never runs past the changes there have been, a token is minted only for a server that has
\* none, and an outpost and its token are recorded together.
THEOREM ApplicationTypeCorrect == Spec => []TypeOK
<1> DEFINE I == /\ JujuTypes /\ TokenInv /\ TokenCounts /\ ServingInv /\ TraceInv
                /\ RouteTypes /\ AddressTypes /\ ScrapeInv /\ DashboardTypes /\ DashInv
<1>1. Init => I
  BY JujuInit, TokenInit, CountInit, ServingInit, TraceInit, RouteTypesInit, ScrapeInit, DashInit
<1>2. I /\ [Next]_vars => I'
  BY JujuSteps, TokenStep, CountSteps, ServingSteps, TraceSteps, RouteTypeSteps, ScrapeSteps,
    DashSteps
<1>3. I => TypeOK
  BY CountsAreTypes, AddressesAreTypes
  DEF JujuTypes, TokenInv, RecordInv, TraceInv, TracingTypes, TypeOK
<1>4. QED
  BY <1>1, <1>2, <1>3, PTL DEF Spec

-----------------------------------------------------------------------------
(* Tokens *)

Accepting == faults = 0 /\ Ready /\ \A u \in Units : CallsAccepted(u)

PlanEvents == {"peer", "pebble-ready", "update-status"}

\* What is recorded is the server's, once the leader has looked.
LeaderVerified ==
  (leader # None /\ "leader-elected" \notin pending[leader] /\ outposts[server.host] # 0) => Verified

\* Where it is, every unit has planned it.
UnitsPlanned ==
  Verified =>
    \A u \in Units :
      pending[u] \intersect PlanEvents = {} =>
        planned[u].host = server.host /\ planned[u].token = peers.token

AgreeInv == Accepting => LeaderVerified /\ UnitsPlanned

\* A leader with an outpost to provision that is not stopped on the way.
Mints(u, event, outcome) == Handles(u, event) /\ outcome # "early" /\ Provisions(u)

LEMMA WhatIsMinted ==
  ASSUME NEW u \in Units, NEW event, NEW outcome, Commits(u, event, outcome) \/ Refuses(u, event, outcome)
  PROVE  /\ ~Mints(u, event, outcome) => UNCHANGED <<outposts, peers>>
         /\ Mints(u, event, outcome) => Minting
         /\ Commits(u, event, outcome) /\ Mints(u, event, outcome) =>
              peers' = [outpost |-> TokenOfOutpost, token |-> TokenOfOutpost]
         /\ Refuses(u, event, outcome) => peers' = peers
<1>1. Acts(u, event, outcome)
  BY DEF Commits, Refuses, Runs
<1>2. /\ ~Mints(u, event, outcome) => UNCHANGED outposts
      /\ Mints(u, event, outcome) => Minting
  BY <1>1 DEF Acts, MintToken, Mints, Minting
<1>3. Commits(u, event, outcome) =>
        peers' = IF Mints(u, event, outcome)
                   THEN [outpost |-> TokenOfOutpost, token |-> TokenOfOutpost] ELSE peers
  BY DEF Commits, Writes, StoreToken, Mints
<1>4. Refuses(u, event, outcome) => peers' = peers
  BY DEF Refuses, NotWritten
<1>5. QED
  BY <1>2, <1>3, <1>4

\* Reading what there is changes nothing about whose token is accepted.
LEMMA HooksAccept ==
  ASSUME JujuTypes, TokenInv, Accepting', NEW u \in Units, NEW event, NEW outcome,
         Commits(u, event, outcome) \/ Refuses(u, event, outcome) \/ Stops(u)
  PROVE  /\ Accepting /\ faults' = faults
         /\ server' = server
<1>1. server' = server
      /\ (tracked' = tracked \/ tracked' = [tracked EXCEPT ![u] = TokenRead(u)])
  BY HookMints DEF Stops, ReadInfo, OthersUnchanged
<1>2. faults = 0 /\ faults' = faults
  BY FaultsStay DEF Commits, Refuses, Stops, Accepting
<1>3. ASSUME NEW v \in Units PROVE CallsAccepted(v)
  <2>1. TokenRead(v)' = [host |-> server.host, revision |-> server.revision]
    BY <1>1 DEF Accepting, CallsAccepted
  <2>2. TokenRead(v)' = TokenRead(v)
    BY <1>1 DEF TokenRead, TokenInv, ReadInv
  <2>3. QED
    BY <2>1, <2>2 DEF CallsAccepted
<1>4. QED
  BY <1>1, <1>2, <1>3 DEF Accepting, Ready

\* The recorded token is never one that is minted now, nor adopted.
LEMMA NewToken ==
  ASSUME TokenInv, TokenCounts, ~Verified
  PROVE  TokenOfOutpost # 0 /\ peers.token # TokenOfOutpost /\ peers.outpost # TokenOfOutpost
<1>1. /\ TokenOfOutpost \in 1..minted + 1 /\ minted \in Nat
      /\ outposts[server.host] # 0 => TokenOfOutpost = outposts[server.host]
      /\ outposts[server.host] = 0 => TokenOfOutpost = minted + 1
  BY MintedToken DEF TokenCounts, MintCounts
<1>2. peers.outpost = peers.token /\ peers.token \in 0..minted
  BY DEF TokenInv, RecordInv, TokenCounts, MintCounts
<1>3. CASE outposts[server.host] # 0
  BY <1>1, <1>2, <1>3 DEF Verified
<1>4. CASE outposts[server.host] = 0
  BY <1>1, <1>2, <1>4
<1>5. QED
  BY <1>1, <1>3, <1>4

LEMMA CommitAgrees ==
  ASSUME JujuTypes, TokenInv, TokenCounts, AgreeInv, Accepting', NEW u \in Units, NEW event,
         NEW outcome, Commits(u, event, outcome)
  PROVE  LeaderVerified' /\ UnitsPlanned'
<1>1. /\ Accepting /\ LeaderVerified /\ UnitsPlanned /\ faults' = faults /\ server' = server
      /\ Runs(u, event, outcome) /\ leader' = leader /\ pending' = Dispatched(u, event)
  BY HooksAccept DEF AgreeInv, Commits
<1>2. /\ \A v \in Units \ {u} : planned'[v] = planned[v]
      /\ Plans(u, event, outcome) => planned'[u] = PlanOf(u)
      /\ ~Plans(u, event, outcome) => planned'[u] = planned[u]
  BY <1>1, PlanEffect
<1>3. ASSUME Reconciles(u, event), TokenInHook(u) # 0 PROVE Plans(u, event, outcome)
  BY <1>1, <1>3, HookPlans DEF Accepting
<1>4. ~Verified => TokenOfOutpost # 0 /\ peers.token # TokenOfOutpost
  BY NewToken
<1>5. CASE Mints(u, event, outcome)
  <2>1. peers' = [outpost |-> TokenOfOutpost, token |-> TokenOfOutpost] /\ Minting
    BY <1>5, WhatIsMinted
  <2>2. ~Verified /\ Reconciles(u, event) /\ TokenInHook(u) = TokenOfOutpost
    BY <1>5 DEF Mints, Provisions, Handles, TokenInHook
  <2>3. Verified'
    BY <1>1, <1>4, <2>1, <2>2, MintedToken DEF Minting, Verified, TokenInv, RecordInv
  <2>4. peers' # peers
    BY <1>4, <2>1, <2>2
  <2>5. \A v \in Units \ {u} : "peer" \in pending'[v]
    BY <1>1, <2>4 DEF Dispatched
  <2>6. planned'[u] = PlanOf(u) /\ PlanOf(u).token = TokenOfOutpost /\ PlanOf(u).host = server.host
    BY <1>2, <1>3, <1>4, <2>2 DEF PlanOf
  <2>7. ASSUME NEW v \in Units, pending'[v] \intersect PlanEvents = {}
        PROVE  planned'[v].host = server.host /\ planned'[v].token = peers'.token
    BY <2>1, <2>5, <2>6, <2>7 DEF PlanEvents
  <2>8. QED
    BY <1>1, <2>3, <2>7 DEF LeaderVerified, UnitsPlanned
<1>6. CASE ~Mints(u, event, outcome)
  <2>1. UNCHANGED <<outposts, peers>>
    BY <1>6, WhatIsMinted
  <2>2. Verified' <=> Verified
    BY <1>1, <2>1 DEF Verified
  <2>3. ASSUME leader # None, "leader-elected" \notin pending'[leader], outposts[server.host] # 0,
               ~Verified
        PROVE  FALSE
    <3>1. "leader-elected" \in pending[leader]
      BY <1>1, <2>3 DEF LeaderVerified
    <3>2. leader = u /\ event = "leader-elected"
      BY <1>1, <2>3, <3>1 DEF Dispatched, JujuTypes
    <3>3. Provisions(u) /\ TokenInHook(u) # 0
      BY <1>1, <1>4, <2>3, <3>2 DEF Provisions, Accepting, TokenInHook
    <3>4. Plans(u, event, outcome)
      BY <1>3, <3>2, <3>3 DEF Reconciles
    <3>5. QED
      BY <1>6, <3>3, <3>4 DEF Plans, Mints
  <2>4. ASSUME Verified, NEW v \in Units, pending'[v] \intersect PlanEvents = {}
        PROVE  planned'[v].host = server.host /\ planned'[v].token = peers.token
    <3>1. TokenInHook(u) = peers.token /\ peers.token # 0
      BY <2>4 DEF TokenInHook, Provisions, Verified
    <3>2. CASE v = u /\ Plans(u, event, outcome)
      <4>1. planned'[u] = PlanOf(u) /\ PlanOf(u).host = server.host /\ PlanOf(u).token = peers.token
        BY <1>2, <3>1, <3>2 DEF PlanOf
      <4>2. QED
        BY <3>2, <4>1
    <3>3. CASE ~(v = u /\ Plans(u, event, outcome))
      <4>1. planned'[v] = planned[v]
        BY <1>2, <3>3
      <4>2. v = u => event \notin PlanEvents
        BY <1>3, <3>1, <3>3 DEF PlanEvents, Reconciles
      <4>3. pending[v] \intersect PlanEvents = {}
        BY <1>1, <2>4, <4>2 DEF Dispatched
      <4>4. QED
        BY <1>1, <2>4, <4>1, <4>3 DEF UnitsPlanned
    <3>4. QED
      BY <3>2, <3>3
  <2>5. QED
    BY <1>1, <2>1, <2>2, <2>3, <2>4 DEF LeaderVerified, UnitsPlanned
<1>7. QED
  BY <1>5, <1>6

\* What a refused hook has minted nobody takes for what is recorded.
LEMMA RefusalAgrees ==
  ASSUME JujuTypes, TokenInv, TokenCounts, AgreeInv, Accepting', NEW u \in Units, NEW event,
         NEW outcome, Refuses(u, event, outcome)
  PROVE  LeaderVerified' /\ UnitsPlanned'
<1>1. /\ UnitsPlanned /\ server' = server /\ peers' = peers /\ pending' = pending
      /\ leader' = None /\ Runs(u, event, outcome)
  BY HooksAccept DEF AgreeInv, Refuses, NotWritten
<1>2. CASE Mints(u, event, outcome)
  <2>1. ~Verified /\ Minting
    BY <1>2, WhatIsMinted DEF Mints, Provisions
  <2>2. outposts'[server.host] = TokenOfOutpost
    BY <2>1, MintedToken DEF Minting, TokenInv, RecordInv
  <2>3. ~Verified'
    BY <1>1, <2>1, <2>2, NewToken DEF Verified
  <2>4. QED
    BY <1>1, <2>3 DEF LeaderVerified, UnitsPlanned
<1>3. CASE ~Mints(u, event, outcome)
  <2>1. Verified' <=> Verified
    BY <1>1, <1>3, WhatIsMinted DEF Verified
  <2>2. ASSUME Verified, NEW v \in Units, pending[v] \intersect PlanEvents = {}
        PROVE  planned'[v].host = server.host /\ planned'[v].token = peers.token
    <3>1. planned[v].host = server.host /\ planned[v].token = peers.token
      BY <1>1, <2>2 DEF UnitsPlanned
    <3>2. PlanOf(u).host = server.host /\ PlanOf(u).token = peers.token
      BY <2>2 DEF PlanOf, TokenInHook, Provisions
    <3>3. planned'[v] = planned[v] \/ planned'[v] = PlanOf(u)
      BY <1>1, PlanEffect
    <3>4. QED
      BY <3>1, <3>2, <3>3
  <2>3. QED
    BY <1>1, <2>1, <2>2 DEF LeaderVerified, UnitsPlanned
<1>4. QED
  BY <1>2, <1>3

\* A change of the server or the loss of the outpost, and none of them makes up for a token that is
\* not accepted.
LEMMA ServerAgrees ==
  ASSUME JujuTypes, TokenInv, TokenCounts, AgreeInv, Accepting',
         ServerChanges \/ OutpostLost, UNCHANGED <<outposts, peers, planned>> \/ OutpostLost
  PROVE  LeaderVerified' /\ UnitsPlanned'
<1>1. CASE ServerRelates \/ ServerLeaves
  BY <1>1 DEF ServerRelates, ServerLeaves, Accepting, Ready, TokenInv, ServerInv
<1>2. CASE ServerPublishes /\ UNCHANGED <<outposts, peers, planned>>
  <2>1. server'.host = server.host + 1 /\ changes' = changes + 1 /\ changes < MaxChanges[focus]
    BY <1>2 DEF ServerPublishes, ChangesNoticed, Changes
  <2>2. MaxNumber \in Nat /\ MaxChanges[focus] \in 0..MaxNumber
    BY Bounds DEF JujuTypes
  <2>3. server'.host \in Servers /\ server'.host > server.host
    BY <2>1, <2>2 DEF TokenInv, ServerInv, Servers
  <2>4. outposts'[server'.host] = 0
    BY <1>2, <2>3 DEF TokenCounts, MintCounts
  <2>5. QED
    BY <2>4 DEF LeaderVerified, UnitsPlanned, Verified
<1>3. CASE ServerRotates /\ ServerChanges /\ UNCHANGED <<outposts, peers, planned>>
  <2>1. /\ server' = [server EXCEPT !.revision = @ + 1]
        /\ UNCHANGED <<tracked, faults, leader, pending>> /\ Ready
    BY <1>3 DEF ServerRotates, ServerChanges, ChangesUnnoticed, Changes
  <2>2. server'.host = server.host /\ server'.revision = server.revision + 1
    BY <2>1 DEF TokenInv, ServerInv
  <2>3. ASSUME NEW u \in Units PROVE CallsAccepted(u)
    <3>1. tracked[u].host # server.host
      <4>1. SUFFICES ASSUME tracked[u].host = server.host PROVE FALSE
        OBVIOUS
      <4>2. tracked[u].revision \in 1..server.revision
        BY <4>1 DEF TokenInv, ReadInv
      <4>3. TokenRead(u)' = tracked[u]
        BY <2>1, <2>2, <4>1 DEF TokenRead
      <4>4. tracked[u].revision = server.revision + 1
        BY <2>2, <4>3 DEF Accepting, CallsAccepted
      <4>5. QED
        BY <4>2, <4>4 DEF TokenInv, ServerInv
    <3>2. QED
      BY <3>1 DEF CallsAccepted, TokenRead
  <2>4. Accepting
    BY <2>1, <2>3 DEF Accepting
  <2>5. QED
    BY <1>3, <2>1, <2>2, <2>4 DEF AgreeInv, LeaderVerified, UnitsPlanned, Verified
<1>4. CASE OutpostLost
  <2>1. outposts' = [outposts EXCEPT ![server.host] = 0] /\ server' = server
    BY <1>4 DEF OutpostLost
  <2>2. outposts'[server'.host] = 0
    BY <2>1, CountsAreTypes DEF TokenInv, RecordInv
  <2>3. QED
    BY <2>2 DEF LeaderVerified, UnitsPlanned, Verified
<1>5. QED
  BY <1>1, <1>2, <1>3, <1>4 DEF ServerChanges

LEMMA OthersAgree ==
  ASSUME JujuTypes, TokenInv, TokenCounts, AgreeInv, Accepting',
         Environment \/ Others \/ Leadership \/ UNCHANGED vars
  PROVE  LeaderVerified' /\ UnitsPlanned'
<1>1. CASE (ServerChanges /\ UNCHANGED <<outposts, peers, planned>>) \/ OutpostLost
  BY <1>1, ServerAgrees
<1>2. CASE ~((ServerChanges /\ UNCHANGED <<outposts, peers, planned>>) \/ OutpostLost)
  <2>1. UNCHANGED <<server, tracked, outposts, peers>>
    BY <1>2 DEF Environment, Restart, Others, Leadership, vars, tokenVars
  <2>2. UNCHANGED faults
    BY OthersKeep
  <2>3. LeaderVerified /\ UnitsPlanned
    BY <2>1, <2>2 DEF AgreeInv, Accepting, Ready, CallsAccepted, TokenRead
  <2>4. Verified' <=> Verified
    BY <2>1 DEF Verified
  <2>5. ASSUME leader' # None, "leader-elected" \notin pending'[leader'], outposts[server.host] # 0
        PROVE  Verified
    <3>1. leader' = leader /\ leader \in Units
      BY <2>5, LeaderStays DEF JujuTypes
    <3>2. "leader-elected" \notin pending[leader]
      BY <2>5, <3>1, EventsWait
    <3>3. QED
      BY <2>3, <2>5, <3>1, <3>2 DEF LeaderVerified
  <2>6. ASSUME Verified, NEW v \in Units, pending'[v] \intersect PlanEvents = {}
        PROVE  planned'[v].host = server.host /\ planned'[v].token = peers.token
    <3>1. pending[v] \intersect PlanEvents = {}
      BY <2>6, EventsWait DEF PlanEvents
    <3>2. planned[v].host = server.host /\ planned[v].token = peers.token
      BY <2>3, <2>6, <3>1 DEF UnitsPlanned
    <3>3. planned'[v] = planned[v]
      <4>1. ASSUME NEW u \in Units, Upgrade(u) \/ Restart(u), NewPod(u) PROVE planned'[v] = planned[v]
        <5>1. pending'[u] \intersect PodEvents # {}
          BY <4>1 DEF Upgrade, Restart, Told, JujuTypes, PodEvents
        <5>2. v # u
          BY <2>6, <5>1 DEF PlanEvents, PodEvents
        <5>3. QED
          BY <4>1, <5>2 DEF NewPod, TokenInv, RecordInv
      <4>2. QED
        BY <1>2, <4>1 DEF Environment, Restart, Others, Leadership, vars, tokenVars
    <3>4. QED
      BY <3>2, <3>3
  <2>7. QED
    BY <2>1, <2>4, <2>5, <2>6 DEF LeaderVerified, UnitsPlanned
<1>3. QED
  BY <1>1, <1>2

LEMMA AgreeSteps ==
  ASSUME JujuTypes, TokenInv, TokenCounts, AgreeInv, [Next]_vars
  PROVE  AgreeInv'
<1>1. SUFFICES ASSUME Accepting' PROVE LeaderVerified' /\ UnitsPlanned'
  BY DEF AgreeInv
<1>2. ASSUME NEW u \in Units, Stops(u) PROVE LeaderVerified' /\ UnitsPlanned'
  <2>1. /\ UNCHANGED <<pending, leader, outposts, peers, planned>> /\ server' = server
        /\ LeaderVerified /\ UnitsPlanned
    BY <1>1, <1>2, HooksAccept DEF Stops, NotWritten, AgreeInv
  <2>2. QED
    BY <2>1 DEF LeaderVerified, UnitsPlanned, Verified
<1>3. QED
  BY <1>1, <1>2, NextIsSteps, CommitAgrees, RefusalAgrees, OthersAgree DEF Steps

LEMMA AgreeInit == ASSUME Init PROVE AgreeInv
<1>1. server = [state |-> "ready", host |-> 1, revision |-> 1] /\ 1 \in Servers
  BY UnitAssumption DEF Init, Servers
<1>2. CASE Fresh
  BY <1>1, <1>2 DEF Fresh, AgreeInv, LeaderVerified, UnitsPlanned, Verified
<1>3. CASE Serving
  BY <1>1, <1>3 DEF Serving, AgreeInv, LeaderVerified, UnitsPlanned, Verified
<1>4. QED
  BY <1>2, <1>3 DEF Init

\* The outpost of every unit connects to the server that is related, with the token this server
\* has for it, as soon as the units have seen what there is to see.  A new leader looks at the
\* outpost in the hook of its election; what it provisions is an event for every other unit;
\* and a token that a refused hook has minted is not taken for the recorded one.
THEOREM UnitsAgreeOnTokens == Spec => []TokensAgree
<1> DEFINE I == JujuTypes /\ TokenInv /\ TokenCounts /\ AgreeInv
<1>1. Init => I
  BY JujuInit, TokenInit, CountInit, AgreeInit
<1>2. I /\ [Next]_vars => I'
  BY JujuSteps, TokenStep, CountSteps, AgreeSteps
<1>3. I => TokensAgree
  <2>1. SUFFICES ASSUME I, Settled, Ready, outposts[server.host] # 0, \A u \in Units : CallsAccepted(u)
                 PROVE  OneToken
    BY DEF TokensAgree
  <2>2. Accepting /\ leader \in Units /\ (\A u \in Units : pending[u] = {})
    BY <2>1 DEF Settled, Accepting, JujuTypes
  <2>3. Verified
    BY <2>1, <2>2 DEF AgreeInv, LeaderVerified, Settled
  <2>4. peers.token = outposts[server.host]
    BY <2>1, <2>3 DEF Verified, TokenInv, RecordInv
  <2>5. QED
    BY <2>1, <2>2, <2>3, <2>4 DEF AgreeInv, UnitsPlanned, OneToken
<1>4. QED
  BY <1>1, <1>2, <1>3, PTL DEF Spec

-----------------------------------------------------------------------------
(* URLs *)

TraefikEvents == {"traefik", "traefik-broken"}
RouteEvents == TraefikEvents \union {"config-changed", "leader-elected"}

\* What is on the relation; without Traefik there is no ingress.
RouteInv ==
  /\ traefik.related = FALSE => route = NoRoute /\ traefik.serves = NoRoute /\ traefik.address = NoAddress
  /\ applying = FALSE => traefik.serves = route
  /\ focus # "traefik" =>
       traefik.related = FALSE /\ options.expose = FALSE /\ urls \in {NoUrls, UrlsFor(NoAddress)}

\* A unit that has handled what it was told of Traefik remembers no host of a former relation.
StoredInv ==
  \A u \in Units :
    /\ "traefik-broken" \notin pending[u] /\ traefik.address.host = None => stored[u].host = None
    /\ pending[u] \intersect TraefikEvents = {} => stored[u].host \in {None, traefik.address.host}

\* The address is Traefik's own, or none.
Present(a) ==
  /\ a.host \in {None, traefik.address.host}
  /\ a.host # None => a.scheme = traefik.address.scheme

\* A leader that has handled what it was told has published the URLs and submitted the route.
UrlInv ==
  (focus = "traefik" /\ leader # None /\ faults = 0 /\ pending[leader] \intersect RouteEvents = {}) =>
    /\ \E a \in Remembering : Present(a) /\ urls = UrlsFor(a)
    /\ traefik.related = TRUE => route = RouteOf(options)

IngressInv == RouteInv /\ StoredInv /\ UrlInv

\* What a unit remembers in a hook.
LEMMA RememberedHosts ==
  ASSUME RouteTypes, RouteInv, NEW u \in Units, NEW event
  PROVE  /\ traefik.address.host # None =>
              traefik.related = TRUE /\ traefik.address.scheme # None
                /\ Remembered(u, event).host = traefik.address.host
                /\ Remembered(u, event).scheme = traefik.address.scheme
         /\ traefik.address.host = None => Remembered(u, event).host = Kept(u, event).host
         /\ Kept(u, event).host \in {None, stored[u].host}
         /\ event = "traefik-broken" => Kept(u, event).host = None
         /\ event # "traefik-broken" => Kept(u, event) = stored[u]
<1>1. Kept(u, event) \in Remembering /\ stored[u] \in Remembering
  BY RememberedTypes DEF RouteTypes
<1>2. /\ Kept(u, event).host \in {None, stored[u].host}
      /\ event = "traefik-broken" => Kept(u, event).host = None
      /\ event # "traefik-broken" => Kept(u, event) = stored[u]
  BY <1>1 DEF Kept, Remembering, RouteTypes
<1>3. traefik.address \in Addresses \union {NoAddress} /\ traefik.related \in BOOLEAN
  BY DEF RouteTypes
<1>4. ASSUME traefik.address.host # None
      PROVE  /\ traefik.related = TRUE /\ traefik.address.scheme # None
             /\ Remembered(u, event).host = traefik.address.host
             /\ Remembered(u, event).scheme = traefik.address.scheme
  <2>1. traefik.address # NoAddress
    BY <1>4 DEF NoAddress
  <2>2. traefik.related = TRUE
    BY <1>3, <2>1 DEF RouteInv
  <2>3. traefik.address.scheme # None
    BY <1>3, <2>1, RouteAssumption DEF None
  <2>4. QED
    BY <1>4, <2>2, <2>3 DEF Remembered, Or
<1>5. ASSUME traefik.address.host = None PROVE Remembered(u, event).host = Kept(u, event).host
  BY <1>5 DEF Remembered, Or
<1>6. QED
  BY <1>2, <1>4, <1>5

\* What a hook remembers and submits.
LEMMA RouteEffect ==
  ASSUME NEW u \in Units, NEW event, NEW outcome, Commits(u, event, outcome) \/ Refuses(u, event, outcome)
  PROVE  /\ UNCHANGED <<options, traefik, focus>>
         /\ stored' = [stored EXCEPT ![u] = Remembered(u, event)]
              \/ (event # "traefik" /\ stored' = [stored EXCEPT ![u] = Kept(u, event)])
         /\ \/ UNCHANGED <<route, applying>>
            \/ traefik.related /\ route' = RouteOf(options) /\ applying' = (applying \/ route' # route)
         /\ \/ urls' = urls
            \/ urls' = UrlsFor(IF traefik.related THEN Remembered(u, event) ELSE NoAddress)
<1>1. /\ Acts(u, event, outcome) /\ OthersUnchanged
      /\ Writes(u, event, outcome) \/ UNCHANGED <<route, applying, urls>>
  BY DEF Commits, Refuses, Runs, NotWritten
<1>2. stored' = [stored EXCEPT ![u] = Remembered(u, event)]
        \/ (event # "traefik" /\ stored' = [stored EXCEPT ![u] = Kept(u, event)])
  BY <1>1 DEF Acts, Remember
<1>3. \/ UNCHANGED <<route, applying>>
      \/ traefik.related /\ route' = RouteOf(options) /\ applying' = (applying \/ route' # route)
  BY <1>1 DEF Writes, Submit, Submits
<1>4. \/ urls' = urls
      \/ urls' = UrlsFor(IF traefik.related THEN Remembered(u, event) ELSE NoAddress)
  BY <1>1 DEF Writes, Publish
<1>5. QED
  BY <1>1, <1>2, <1>3, <1>4 DEF OthersUnchanged

LEMMA HookKeepsRoute ==
  ASSUME RouteTypes, RouteInv, NEW u \in Units, NEW event, NEW outcome,
         Commits(u, event, outcome) \/ Refuses(u, event, outcome)
  PROVE  RouteInv'
<1>1. /\ UNCHANGED <<options, traefik, focus>>
      /\ \/ UNCHANGED <<route, applying>>
         \/ traefik.related /\ route' = RouteOf(options) /\ applying' = (applying \/ route' # route)
      /\ \/ urls' = urls
         \/ urls' = UrlsFor(IF traefik.related THEN Remembered(u, event) ELSE NoAddress)
  BY RouteEffect
<1>2. applying' = FALSE => traefik'.serves = route'
  BY <1>1 DEF RouteInv, RouteTypes
<1>3. traefik'.related = FALSE =>
        route' = NoRoute /\ traefik'.serves = NoRoute /\ traefik'.address = NoAddress
  BY <1>1 DEF RouteInv
<1>4. focus # "traefik" => urls' \in {NoUrls, UrlsFor(NoAddress)}
  BY <1>1 DEF RouteInv
<1>5. UrlsFor(NoAddress)' = UrlsFor(NoAddress)
  BY <1>1 DEF UrlsFor
<1>6. QED
  BY <1>1, <1>2, <1>3, <1>4, <1>5 DEF RouteInv

LEMMA HookStores ==
  ASSUME RouteTypes, RouteInv, StoredInv, NEW u \in Units, NEW event, NEW outcome,
         Commits(u, event, outcome) \/ Refuses(u, event, outcome)
  PROVE  StoredInv'
<1>1. traefik' = traefik /\ \A v \in Units \ {u} : stored'[v] = stored[v]
  BY RouteEffect DEF RouteTypes
<1>2. stored'[u] = Remembered(u, event) \/ (event # "traefik" /\ stored'[u] = Kept(u, event))
  BY RouteEffect DEF RouteTypes
<1>3. ASSUME NEW v \in Units, NEW other \in pending[v], other # event \/ v # u PROVE other \in pending'[v]
  BY <1>3 DEF Commits, Refuses, NotWritten, Dispatched
<1>4. ASSUME NEW v \in Units, "traefik-broken" \notin pending'[v], traefik.address.host = None
      PROVE  stored'[v].host = None
  BY <1>1, <1>2, <1>3, <1>4, RememberedHosts DEF StoredInv
<1>5. ASSUME NEW v \in Units, pending'[v] \intersect TraefikEvents = {}
      PROVE  stored'[v].host \in {None, traefik.address.host}
  <2>1. CASE traefik.address.host = None
    BY <1>4, <1>5, <2>1 DEF TraefikEvents
  <2>2. CASE traefik.address.host # None /\ v = u /\ event \in TraefikEvents
    <3>1. /\ Remembered(u, event).host = traefik.address.host
          /\ event = "traefik-broken" => Kept(u, event).host = None
      BY <2>2, RememberedHosts
    <3>2. stored'[u].host = Remembered(u, event).host \/ stored'[u].host = Kept(u, event).host
      BY <1>2
    <3>3. event = "traefik" => stored'[u].host = Remembered(u, event).host
      BY <1>2
    <3>4. QED
      BY <2>2, <3>1, <3>2, <3>3 DEF TraefikEvents
  <2>3. CASE traefik.address.host # None /\ ~(v = u /\ event \in TraefikEvents)
    <3>1. pending[v] \intersect TraefikEvents = {}
      BY <1>3, <1>5, <2>3
    <3>2. stored[v].host \in {None, traefik.address.host}
      BY <3>1 DEF StoredInv
    <3>3. CASE v = u
      <4>1. /\ Remembered(u, event).host = traefik.address.host
            /\ Kept(u, event).host \in {None, stored[u].host}
        BY <2>3, RememberedHosts
      <4>2. stored'[u].host = Remembered(u, event).host \/ stored'[u].host = Kept(u, event).host
        BY <1>2
      <4>3. QED
        BY <3>2, <3>3, <4>1, <4>2
    <3>4. QED
      BY <1>1, <3>2, <3>3
  <2>4. QED
    BY <2>1, <2>2, <2>3
<1>6. QED
  BY <1>1, <1>4, <1>5 DEF StoredInv

\* What the leader publishes is Traefik's own address, or none.
LEMMA PublishedIsPresent ==
  ASSUME RouteTypes, RouteInv, StoredInv, NEW u \in Units, NEW event,
         event = "traefik-broken" \/ "traefik-broken" \notin pending[u]
  PROVE  \E a \in Remembering :
           Present(a) /\ a = IF traefik.related THEN Remembered(u, event) ELSE NoAddress
<1>1. Remembered(u, event) \in Remembering /\ NoAddress \in Remembering
  BY RememberedTypes
<1>2. Present(NoAddress)
  BY DEF Present, NoAddress
<1>3. Present(Remembered(u, event))
  <2>1. CASE traefik.address.host # None
    BY <2>1, RememberedHosts DEF Present
  <2>2. CASE traefik.address.host = None
    <3>1. Remembered(u, event).host = Kept(u, event).host
      BY <2>2, RememberedHosts
    <3>2. Kept(u, event).host = None
      BY <2>2, RememberedHosts DEF StoredInv
    <3>3. QED
      BY <3>1, <3>2 DEF Present
  <2>3. QED
    BY <2>1, <2>2
<1>4. QED
  BY <1>1, <1>2, <1>3

LEMMA CommitPublishes ==
  ASSUME JujuTypes, RouteTypes, ServingInv, IngressInv, NEW u \in Units, NEW event, NEW outcome,
         Commits(u, event, outcome)
  PROVE  UrlInv'
<1>1. /\ UNCHANGED <<options, traefik, focus, leader>> /\ pending' = Dispatched(u, event)
      /\ Runs(u, event, outcome)
      /\ IF Plans(u, event, outcome) THEN Publish(u, event) ELSE UNCHANGED urls
      /\ IF Handles(u, event) THEN Submit(u) ELSE UNCHANGED <<route, applying>>
  BY DEF Commits, Runs, Writes, OthersUnchanged
<1>2. SUFFICES ASSUME focus = "traefik", leader # None, faults' = 0,
                      pending'[leader] \intersect RouteEvents = {}
               PROVE  /\ \E a \in Remembering : Present(a) /\ urls' = UrlsFor(a)
                      /\ traefik.related = TRUE => route' = RouteOf(options)
  <2>1. \A a : Present(a)' <=> Present(a)
    BY <1>1 DEF Present
  <2>2. \A a : UrlsFor(a)' = UrlsFor(a)
    BY <1>1 DEF UrlsFor
  <2>3. Remembering' = Remembering /\ RouteOf(options)' = RouteOf(options)
    BY <1>1
  <2>4. QED
    BY <1>1, <2>1, <2>2, <2>3 DEF UrlInv
<1>3. leader \in Units /\ faults = 0 /\ faults' = faults
  BY <1>1, <1>2, FaultsStay DEF JujuTypes
<1>4. CASE leader = u /\ Plans(u, event, outcome)
  <2>1. event = "traefik-broken" \/ "traefik-broken" \notin pending[u]
    BY <1>1, <1>2, <1>4 DEF Dispatched, RouteEvents, TraefikEvents
  <2>2. urls' = UrlsFor(IF traefik.related THEN Remembered(u, event) ELSE NoAddress)
    BY <1>1, <1>4 DEF Publish
  <2>3. PICK a \in Remembering :
          Present(a) /\ a = IF traefik.related THEN Remembered(u, event) ELSE NoAddress
    BY <2>1, PublishedIsPresent DEF IngressInv
  <2>4. traefik.related = TRUE => route' = RouteOf(options)
    BY <1>1, <1>4 DEF Plans, Submit, Submits
  <2>5. QED
    BY <2>2, <2>3, <2>4
<1>5. CASE ~(leader = u /\ Plans(u, event, outcome))
  <2>1. leader = u => event \notin RouteEvents
    <3>1. SUFFICES ASSUME leader = u, event \in RouteEvents PROVE Plans(u, event, outcome)
      BY <1>5
    <3>2. Reconciles(u, event)
      BY <3>1 DEF RouteEvents, TraefikEvents, Reconciles
    <3>3. Ready /\ CallsAccepted(u)
      BY <1>2 DEF ServingInv, Ready
    <3>4. TokenInHook(u) # 0
      BY <1>2 DEF ServingInv, TokenInHook, TokenOfOutpost
    <3>5. QED
      BY <1>1, <1>3, <3>2, <3>3, <3>4, HookPlans
  <2>2. pending[leader] \intersect RouteEvents = {}
    BY <1>1, <1>2, <1>3, <2>1 DEF Dispatched
  <2>3. /\ \E a \in Remembering : Present(a) /\ urls = UrlsFor(a)
        /\ traefik.related = TRUE => route = RouteOf(options)
    BY <1>2, <1>3, <2>2 DEF IngressInv, UrlInv
  <2>4. urls' = urls
    BY <1>1, <1>5 DEF Publish
  <2>5. route' = route \/ route' = RouteOf(options)
    BY <1>1 DEF Submit
  <2>6. QED
    BY <2>3, <2>4, <2>5
<1>6. QED
  BY <1>4, <1>5

\* Whatever changes is an event for every unit.
LEMMA ChangesRoute ==
  ASSUME JujuTypes, RouteTypes, IngressInv, RouteChanges
  PROVE  IngressInv'
<1>1. focus = "traefik" /\ focus' = "traefik" /\ stored' = stored /\ leader' = leader
  BY DEF RouteChanges, TraefikRelates, TraefikPublishes, TraefikLeaves, OptionsChange,
    ChangesNoticed, Changes
<1>2. PICK event \in RouteEvents :
        /\ pending' = Told(Units, event)
        /\ event = "traefik" => UNCHANGED <<options, route, applying>>
             /\ traefik'.serves = traefik.serves /\ traefik'.related = TRUE
             /\ (traefik'.address = traefik.address \/ traefik'.address \in Addresses)
        /\ event = "traefik-broken" =>
             /\ traefik' = [related |-> FALSE, address |-> NoAddress, serves |-> NoRoute]
             /\ route' = NoRoute
        /\ event \notin TraefikEvents => UNCHANGED <<traefik, route, applying>>
  <2>1. CASE TraefikRelates \/ TraefikPublishes
    BY <2>1 DEF TraefikRelates, TraefikPublishes, ChangesNoticed, RouteTypes, RouteEvents, TraefikEvents
  <2>2. CASE TraefikLeaves
    BY <2>2 DEF TraefikLeaves, ChangesNoticed, RouteEvents, TraefikEvents
  <2>3. CASE OptionsChange
    BY <2>3 DEF OptionsChange, ChangesNoticed, RouteEvents, TraefikEvents
  <2>4. QED
    BY <2>1, <2>2, <2>3 DEF RouteChanges
<1>3. \A u \in Units : event \in pending'[u] /\ pending[u] \subseteq pending'[u]
  BY <1>2 DEF Told
<1>4. RouteInv'
  <2>1. /\ traefik.related = FALSE =>
             route = NoRoute /\ traefik.serves = NoRoute /\ traefik.address = NoAddress
        /\ applying = FALSE => traefik.serves = route
    BY DEF IngressInv, RouteInv
  <2>2. CASE event = "traefik"
    BY <1>1, <1>2, <2>1, <2>2 DEF RouteInv
  <2>3. CASE event = "traefik-broken"
    BY <1>1, <1>2, <2>3 DEF RouteInv
  <2>4. CASE event \notin TraefikEvents
    BY <1>1, <1>2, <2>1, <2>4 DEF RouteInv
  <2>5. QED
    BY <2>2, <2>3, <2>4 DEF TraefikEvents
<1>5. UrlInv'
  BY <1>1, <1>2, <1>3 DEF UrlInv, JujuTypes
<1>6. StoredInv'
  <2>1. CASE event = "traefik-broken"
    BY <1>3, <2>1 DEF StoredInv, TraefikEvents
  <2>2. CASE event = "traefik"
    <3>1. ASSUME NEW u \in Units, "traefik-broken" \notin pending'[u], traefik'.address.host = None
          PROVE  stored[u].host = None
      <4>1. traefik'.address \notin Addresses
        BY <3>1, RouteAssumption
      <4>2. traefik.address.host = None
        BY <1>2, <2>2, <3>1, <4>1
      <4>3. QED
        BY <1>3, <3>1, <4>2 DEF IngressInv, StoredInv
    <3>2. QED
      BY <1>1, <1>3, <2>2, <3>1 DEF StoredInv, TraefikEvents
  <2>3. CASE event \notin TraefikEvents
    BY <1>1, <1>2, <1>3, <2>3 DEF IngressInv, StoredInv
  <2>4. QED
    BY <2>1, <2>2, <2>3 DEF TraefikEvents
<1>7. QED
  BY <1>4, <1>5, <1>6 DEF IngressInv

LEMMA OthersRoute ==
  ASSUME JujuTypes, RouteTypes, IngressInv, Environment \/ Others \/ Leadership \/ UNCHANGED vars
  PROVE  IngressInv'
<1>1. CASE RouteChanges
  BY <1>1, ChangesRoute
<1>2. CASE ~RouteChanges
  <2>1. /\ UNCHANGED <<options, route, stored, urls>>
        /\ \/ UNCHANGED <<traefik, applying>>
           \/ applying' = FALSE /\ traefik' = [traefik EXCEPT !.serves = route]
    BY <1>2 DEF Environment, Restart, Others, TraefikApplies, Leadership, vars, routeVars
  <2>2. UNCHANGED <<faults, focus>>
    BY OthersKeep
  <2>3. /\ traefik'.address = traefik.address /\ traefik'.related = traefik.related
        /\ traefik'.serves = traefik.serves \/ traefik'.serves = route
        /\ applying' = FALSE => traefik'.serves = route
    BY <2>1 DEF RouteTypes, IngressInv, RouteInv
  <2>4. UrlsFor(NoAddress)' = UrlsFor(NoAddress)
    BY <2>1 DEF UrlsFor
  <2>5. RouteInv'
    BY <2>1, <2>2, <2>3, <2>4 DEF IngressInv, RouteInv
  <2>6. ASSUME NEW v \in Units, NEW event \in RouteEvents, event \notin pending'[v]
        PROVE  event \notin pending[v]
    BY <2>6, EventsWait DEF RouteEvents, TraefikEvents
  <2>7. StoredInv'
    BY <2>1, <2>3, <2>6 DEF IngressInv, StoredInv, RouteEvents, TraefikEvents
  <2>8. UrlInv'
    <3>1. SUFFICES ASSUME focus = "traefik", leader' # None, faults = 0,
                          pending'[leader'] \intersect RouteEvents = {}
                   PROVE  /\ \E a \in Remembering : Present(a) /\ urls = UrlsFor(a)
                          /\ traefik.related = TRUE => route = RouteOf(options)
      <4>1. \A a : Present(a)' <=> Present(a)
        BY <2>3 DEF Present
      <4>2. \A a : UrlsFor(a)' = UrlsFor(a)
        BY <2>1 DEF UrlsFor
      <4>3. Remembering' = Remembering /\ RouteOf(options)' = RouteOf(options)
        BY <2>1
      <4>4. QED
        BY <2>1, <2>2, <2>3, <4>1, <4>2, <4>3 DEF UrlInv
    <3>2. leader' = leader /\ leader \in Units
      BY <3>1, LeaderStays DEF RouteEvents, JujuTypes
    <3>3. pending[leader] \intersect RouteEvents = {}
      BY <2>6, <3>1, <3>2
    <3>4. QED
      BY <3>1, <3>2, <3>3 DEF IngressInv, UrlInv
  <2>9. QED
    BY <2>5, <2>7, <2>8 DEF IngressInv
<1>3. QED
  BY <1>1, <1>2

LEMMA IngressSteps ==
  ASSUME JujuTypes, RouteTypes, ServingInv, IngressInv, [Next]_vars
  PROVE  IngressInv'
<1>1. ASSUME NEW u \in Units, NEW event, NEW outcome, Commits(u, event, outcome) PROVE IngressInv'
  BY <1>1, HookKeepsRoute, HookStores, CommitPublishes DEF IngressInv
<1>2. ASSUME NEW u \in Units, NEW event, NEW outcome, Refuses(u, event, outcome) PROVE IngressInv'
  <2>1. leader' = None
    BY <1>2 DEF Refuses
  <2>2. QED
    BY <1>2, <2>1, HookKeepsRoute, HookStores DEF IngressInv, UrlInv
<1>3. ASSUME NEW u \in Units, Stops(u) PROVE IngressInv'
  <2>1. UNCHANGED <<options, traefik, route, applying, stored, urls, leader, pending, faults, focus>>
    BY <1>3 DEF Stops, NotWritten, OthersUnchanged
  <2>2. UrlsFor(NoAddress)' = UrlsFor(NoAddress)
    BY <2>1 DEF UrlsFor
  <2>3. RouteInv' /\ StoredInv'
    BY <2>1, <2>2 DEF IngressInv, RouteInv, StoredInv
  <2>4. UrlInv'
    <3>1. \A a : (Present(a)' <=> Present(a)) /\ UrlsFor(a)' = UrlsFor(a)
      BY <2>1 DEF Present, UrlsFor
    <3>2. QED
      BY <2>1, <3>1 DEF IngressInv, UrlInv
  <2>5. QED
    BY <2>3, <2>4 DEF IngressInv
<1>4. QED
  BY <1>1, <1>2, <1>3, NextIsSteps, OthersRoute DEF Steps

LEMMA IngressInit == ASSUME Init PROVE IngressInv
<1>1. /\ options = [expose |-> FALSE, domain |-> None] /\ stored = [u \in Units |-> NoAddress]
      /\ traefik = [related |-> focus = "traefik", address |-> NoAddress, serves |-> route]
      /\ route = IF focus = "traefik" THEN RouteOf(options) ELSE NoRoute
      /\ urls = NoUrls \/ urls = UrlsFor(NoAddress)
  BY DEF Init, Fresh, Serving
<1>2. focus = "traefik" => urls = UrlsFor(NoAddress)
  BY DEF Init, Serving
<1>3. RouteInv
  BY <1>1 DEF RouteInv
<1>4. StoredInv
  BY <1>1 DEF StoredInv, NoAddress
<1>5. UrlInv
  <2>1. Present(NoAddress) /\ NoAddress \in Remembering
    BY DEF Present, NoAddress, Remembering
  <2>2. QED
    BY <1>1, <1>2, <2>1 DEF UrlInv
<1>6. QED
  BY <1>3, <1>4, <1>5 DEF IngressInv

\* Traefik's address is present, and it serves the route of the options.
LEMMA PresentIsServed ==
  ASSUME RouteTypes, RouteInv, NEW a \in Remembering, Present(a), urls = UrlsFor(a),
         traefik.related = TRUE => route = RouteOf(options), applying = FALSE
  PROVE  UrlsReachOutpost
<1>1. ASSUME a.host # None
      PROVE  /\ traefik.serves = RouteOf(options) /\ a.host = traefik.address.host
             /\ a.scheme = traefik.address.scheme
  <2>1. traefik.related = TRUE
    BY <1>1 DEF RouteInv, RouteTypes, Present, NoAddress
  <2>2. QED
    BY <1>1, <2>1 DEF RouteInv, Present
<1>2. "cluster" \notin Hosts
  BY RouteAssumption DEF Hosts
<1>3. ASSUME urls.ldap \in Hosts PROVE traefik.serves.expose /\ urls.ldap = traefik.address.host
  <2>1. options.expose /\ a.host # None /\ urls.ldap = a.host
    BY <1>2, <1>3 DEF UrlsFor
  <2>2. QED
    BY <1>1, <2>1 DEF RouteOf
<1>4. ASSUME urls.ldaps # None
      PROVE  /\ traefik.serves.submitted /\ traefik.address.scheme = "https"
             /\ urls.ldaps = Or(traefik.serves.domain, traefik.address.host)
  <2>1. a.host # None /\ a.scheme = "https" /\ urls.ldaps = Or(options.domain, a.host)
    BY <1>4 DEF UrlsFor, LdapsEnabled
  <2>2. QED
    BY <1>1, <2>1 DEF RouteOf
<1>5. QED
  BY <1>3, <1>4 DEF UrlsReachOutpost

\* Every URL that consumers are told reaches the outpost by way of Traefik, whatever Traefik has
\* said, and units remember, of former relations: the host is forgotten when a relation ends, a
\* scheme is of use only with a host, and the leader publishes the URLs and submits the route
\* in the same hook.
THEOREM AdvertisedUrlsAreServed == Spec => []UrlsServed
<1> DEFINE I == JujuTypes /\ TokenInv /\ ServingInv /\ RouteTypes /\ IngressInv
<1>1. Init => I
  BY JujuInit, TokenInit, ServingInit, RouteTypesInit, IngressInit
<1>2. I /\ [Next]_vars => I'
  BY JujuSteps, TokenStep, ServingSteps, RouteTypeSteps, IngressSteps
<1>3. I => UrlsServed
  <2>1. SUFFICES ASSUME I, Settled PROVE UrlsReachOutpost
    BY DEF UrlsServed
  <2>2. applying = FALSE /\ leader \in Units /\ leader # None /\ faults = 0 /\ pending[leader] = {}
    BY <2>1 DEF RouteTypes, JujuTypes, Settled
  <2>3. CASE focus = "traefik"
    <3>1. /\ \E a \in Remembering : Present(a) /\ urls = UrlsFor(a)
          /\ traefik.related = TRUE => route = RouteOf(options)
      BY <2>1, <2>2, <2>3 DEF IngressInv, UrlInv
    <3>2. QED
      BY <2>1, <2>2, <3>1, PresentIsServed DEF IngressInv
  <2>4. CASE focus # "traefik"
    <3>1. options.expose = FALSE /\ urls \in {NoUrls, UrlsFor(NoAddress)}
      BY <2>1, <2>4 DEF IngressInv, RouteInv
    <3>2. urls.ldap \in {"none", "cluster"} /\ urls.ldaps = None
      BY <3>1 DEF NoUrls, UrlsFor, LdapsEnabled, NoAddress, None
    <3>3. "none" \notin Hosts /\ "cluster" \notin Hosts
      BY RouteAssumption DEF Hosts, None
    <3>4. QED
      BY <3>2, <3>3 DEF UrlsReachOutpost
  <2>5. QED
    BY <2>3, <2>4
<1>4. QED
  BY <1>1, <1>2, <1>3, PTL DEF Spec

=============================================================================
