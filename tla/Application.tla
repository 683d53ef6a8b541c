----------------------------- MODULE Application -----------------------------
(***************************************************************************)
(* The units of the application with all their integrations but ldap: a    *)
(* hook runs the handlers of the libraries, then _on_holistic_handler on   *)
(* the events the charm observes.  A hook is one step: what it reads does  *)
(* not change while it runs, and what it writes is committed at its end.   *)
(* A leader that loses its lease meanwhile has its writes refused and runs *)
(* the hook again, but what it did on Authentik, in Pebble and in its      *)
(* stored state remains.  A consumer is related and provisioned.           *)
(***************************************************************************)
EXTENDS OutpostToken, TraefikRoute, Tracing, Scraping, Dashboards

tokenVars == <<server, tracked, outposts, minted, peers, planned>>
vars == <<jujuVars, tokenVars, routeVars, tracingVars, scrapingVars, dashboardVars>>

\* Every store has its type, and an outpost and its token are recorded together.
TypeOK ==
  /\ leader \in Units \union {None}
  /\ pending \in [Units -> SUBSET Events] /\ retry \in [Units -> Events \union {None}]
  /\ moves \in 0..MaxNumber /\ faults \in 0..MaxNumber /\ changes \in 0..MaxNumber
  /\ focus \in Integrations /\ ServerTypes /\ TokenTypes /\ peers.outpost = peers.token
  /\ RouteTypes /\ TracingTypes /\ ScrapingTypes /\ DashboardTypes

\* The application has been deployed and its server is ready.  No unit has heard of it where the
\* behaviours are about the server and the token, and elsewhere all have.  Traefik is related, but
\* says nothing yet, where they are about it.
Fresh ==
  /\ pending = [u \in Units |-> {"server"}]
  /\ tracked = [u \in Units |-> [host |-> 0, revision |-> 0]]
  /\ outposts = [s \in Servers |-> 0] /\ minted = 0
  /\ peers = [outpost |-> 0, token |-> 0]
  /\ planned = [u \in Units |-> NotPlanned]
  /\ urls = NoUrls

Serving ==
  /\ pending = [u \in Units |-> {}]
  /\ tracked = [u \in Units |-> [host |-> 1, revision |-> 1]]
  /\ outposts = [s \in Servers |-> IF s = 1 THEN 1 ELSE 0] /\ minted = 1
  /\ peers = [outpost |-> 1, token |-> 1]
  /\ planned = [u \in Units |-> [host |-> 1, token |-> 1, traces |-> 0]]
  /\ urls = UrlsFor(NoAddress)

Init ==
  /\ leader = First
  /\ retry = [u \in Units |-> None]
  /\ moves = 0 /\ faults = 0 /\ changes = 0 /\ focus \in Integrations
  /\ server = [state |-> "ready", host |-> 1, revision |-> 1]
  /\ options = [expose |-> FALSE, domain |-> None]
  /\ IF focus \in {"server", "token"} THEN Fresh ELSE Serving
  /\ route = IF focus = "traefik" THEN RouteOf(options) ELSE NoRoute
  /\ traefik = [related |-> focus = "traefik", address |-> NoAddress, serves |-> route]
  /\ applying = FALSE
  /\ stored = [u \in Units |-> NoAddress]
  /\ tempo = [relation |-> 0, receivers |-> "none", last |-> 0]
  /\ others \in {FALSE, focus = "tracing"} /\ requested = FALSE
  /\ address = [u \in Units |-> 1]
  /\ prometheus = [related |-> FALSE, notified |-> FALSE, targets |-> {}]
  /\ jobs = FALSE /\ published = [u \in Units |-> 0]
  /\ revision = [u \in Units |-> 1] /\ templates = [u \in Units |-> 1]
  /\ grafana = [related |-> FALSE, notified |-> FALSE, shows |-> 0] /\ sent = 0

-----------------------------------------------------------------------------
(* Hooks *)

\* Mutant of Reconciles: the charm does not observe that the endpoint is removed.
IgnoresTracing(u, event) ==
  \/ event \in {"config-changed", "leader-elected", "update-status", "upgrade-charm",
                "pebble-ready", "peer", "server"}
  \/ event \in {"traefik", "traefik-broken"} /\ leader = u

\* The events that come to the holistic handler, Traefik's only on the leader.
Reconciles(u, event) ==
  \/ event \in {"config-changed", "leader-elected", "update-status", "upgrade-charm",
                "pebble-ready", "peer", "server", "tracing"}
  \/ event \in {"traefik", "traefik-broken"} /\ leader = u

\* It does nothing without a server.
Handles(u, event) == Reconciles(u, event) /\ server.state # "absent"

\* How _ensure_authentik_resources ends.  "early": a call fails before anything is recorded;
\* "late": one fails when the token is stored.
Ends(u, outcome) ==
  \/ outcome = "ok" /\ (leader = u /\ Ready => CallsAccepted(u)) /\ UNCHANGED faults
  \/ outcome = "early" /\ leader = u /\ Ready /\ ~CallsAccepted(u) /\ UNCHANGED faults
  \/ /\ leader = u /\ Ready /\ CallsAccepted(u)
     /\ faults < MaxFaults[focus] /\ faults' = faults + 1
     /\ outcome = "early" \/ (outcome = "late" /\ Provisions(u))

\* Every step must succeed before anything is planned.
Plans(u, event, outcome) ==
  Handles(u, event) /\ outcome = "ok" /\ Ready /\ TokenInHook(u) # 0

\* What the hook does at once, and its stored state, which it writes before Juju hears of it.
Acts(u, event, outcome) ==
  LET handles == Handles(u, event)
      plans == Plans(u, event, outcome) IN
    /\ IF handles THEN ReadInfo(u) ELSE UNCHANGED tracked
    /\ IF handles /\ outcome # "early" THEN MintToken(u) ELSE UNCHANGED <<outposts, minted>>
    /\ planned' = IF plans
                    THEN [planned EXCEPT ![u] =
                           [host |-> server.host, token |-> TokenInHook(u), traces |-> Endpoint]]
                    ELSE planned
    /\ Remember(u, event, plans)
    /\ Load(u, event)

\* What it asks Juju to write.
Writes(u, event, outcome) ==
  LET handles == Handles(u, event) IN
    /\ IF handles /\ outcome # "early" THEN StoreToken(u) ELSE UNCHANGED peers
    /\ IF handles THEN Submit(u) ELSE UNCHANGED <<route, applying>>
    /\ IF Plans(u, event, outcome) THEN Publish(u, event) ELSE UNCHANGED urls
    /\ Request(u)
    /\ SetAddress(u, event) /\ SetJobs(u, event) /\ TellPrometheus
    /\ Send(u, event)

\* Changed peer data are an event for the other units.
Dispatched(u, event) ==
  [v \in Units |-> IF v = u THEN pending[v] \ {event}
                   ELSE pending[v] \union (IF peers' # peers THEN {"peer"} ELSE {})]

Raises(u, event, outcome) == Plans(u, event, outcome) /\ EndpointRaises(u)

\* What only the other sides change.
OthersUnchanged ==
  UNCHANGED <<changes, focus, server, options, traefik, tempo, others, address, revision>>

Hook(u) == \E event \in Events, outcome \in {"ok", "early", "late"} :
  /\ Due(u, event)
  /\ IF Handles(u, event) THEN Ends(u, outcome) ELSE outcome = "ok" /\ UNCHANGED faults
  /\ ~Raises(u, event, outcome)
  /\ Acts(u, event, outcome)
  /\ Writes(u, event, outcome)
  /\ pending' = Dispatched(u, event)
  /\ retry' = [retry EXCEPT ![u] = None]
  /\ UNCHANGED <<leader, moves>> /\ OthersUnchanged

\* An exception on the way to the plan: what was done on the way is read only.
HookRaises(u) == \E event \in Events :
  /\ Due(u, event)
  /\ Raises(u, event, "ok")
  /\ retry' = [retry EXCEPT ![u] = event]
  /\ ReadInfo(u)
  /\ UNCHANGED <<leader, pending, moves, faults, peers, outposts, minted, planned, routeVars,
                 requested, prometheus, jobs, published, dashboardVars>>
  /\ OthersUnchanged

\* The leader loses the lease before its writes are committed.
HookRefused(u) == \E event \in Events, outcome \in {"ok", "early", "late"} :
  /\ leader = u /\ moves < MaxMoves[focus]
  /\ Due(u, event)
  /\ IF Handles(u, event) THEN Ends(u, outcome) ELSE outcome = "ok" /\ UNCHANGED faults
  /\ Acts(u, event, outcome)
  /\ leader' = None /\ moves' = moves + 1
  /\ retry' = [retry EXCEPT ![u] = event]
  /\ UNCHANGED <<pending, peers, route, applying, urls, requested, prometheus, jobs, published,
                 sent, grafana>>
  /\ OthersUnchanged

-----------------------------------------------------------------------------
(* The other sides *)

\* A new pod has another address and an empty plan.
NewPod(u) ==
  /\ address' = [address EXCEPT ![u] = @ + 1]
  /\ planned' = [planned EXCEPT ![u] = NotPlanned]

\* A pod is rescheduled, and its unit may hear nothing of it.
Restart(u) ==
  /\ Changes("metrics")
  /\ \E event \in PodEvents : pending' = Told({u}, event)
  /\ NewPod(u)
  /\ UNCHANGED <<server, tracked, outposts, minted, peers, routeVars, tracingVars, prometheus,
                 jobs, published, dashboardVars>>

Environment ==
  \/ ServerChanges
       /\ UNCHANGED <<outposts, minted, peers, planned, routeVars, tracingVars, scrapingVars,
                      dashboardVars>>
  \/ OutpostLost /\ UNCHANGED <<routeVars, tracingVars, scrapingVars, dashboardVars>>
  \/ RouteChanges /\ UNCHANGED <<tokenVars, tracingVars, scrapingVars, dashboardVars>>
  \/ TracingChanges /\ UNCHANGED <<tokenVars, routeVars, scrapingVars, dashboardVars>>
  \/ ScrapingChanges /\ UNCHANGED <<tokenVars, routeVars, tracingVars, dashboardVars>>
  \/ DashboardChanges /\ UNCHANGED <<tokenVars, routeVars, tracingVars, scrapingVars>>
  \/ \E u \in Units :
       /\ Upgrade(u) /\ NewPod(u)
       /\ UNCHANGED <<server, tracked, outposts, minted, peers, routeVars, tracingVars,
                      prometheus, jobs, published>>
  \/ \E u \in Units : Restart(u)

\* What other applications do with what they are told.
Others ==
  \/ TraefikApplies /\ UNCHANGED <<tokenVars, tracingVars, scrapingVars, dashboardVars>>
  \/ TempoPublishes /\ UNCHANGED <<tokenVars, routeVars, scrapingVars, dashboardVars>>
  \/ PrometheusReads /\ UNCHANGED <<tokenVars, routeVars, tracingVars, dashboardVars>>
  \/ GrafanaRenders /\ UNCHANGED <<tokenVars, routeVars, tracingVars, scrapingVars>>

Leadership ==
  /\ LoseLeadership \/ \E u \in Units : Elect(u)
  /\ UNCHANGED <<tokenVars, routeVars, tracingVars, scrapingVars, dashboardVars>>

Next ==
  \/ \E u \in Units : Hook(u) \/ HookRaises(u) \/ HookRefused(u)
  \/ Environment \/ Others \/ Leadership

Spec == Init /\ [][Next]_vars

\* Juju runs what is due on every unit, update-status included, and elects a leader; other
\* applications act on what they are told.
FairSpec ==
  /\ Spec
  /\ \A u \in Units : WF_vars(Hook(u) \/ HookRaises(u))
  /\ WF_vars(Others \/ (Leadership /\ leader = None))

-----------------------------------------------------------------------------
(* Properties *)

\* What follows is about moments when there is a leader, no unit has an event to see or a hook
\* to run again, nor has yet to reach update-status in a new pod of which it was told nothing, the
\* other applications have seen what there is, and no call has failed.
Settled ==
  /\ leader # None /\ faults = 0
  /\ \A u \in Units : pending[u] = {} /\ retry[u] = None
  /\ ~applying /\ ~prometheus.notified /\ ~grafana.notified
  /\ tempo.relation # 0 => tempo.receivers = Offered

\* Every unit's outpost connects to the server that is related, with the token that this server
\* has for it.
OneToken ==
  \A u \in Units : planned[u].host = server.host /\ planned[u].token = outposts[server.host]

\* A unit whose API token is refused has read it before the server replaced it: a new server's
\* token is read anew.
RefusedOnlyAfterRotation == (Ready /\ server.revision = 1) => \A u \in Units : CallsAccepted(u)

\* The units agree, and only one in a new pod waits for update-status, unless the server has lost
\* the outpost, which it tells nobody, or replaced its API token, which no unit reads again.
TokensAgree ==
  (Settled /\ Ready /\ outposts[server.host] # 0 /\ \A u \in Units : CallsAccepted(u)) => OneToken

\* A leader never plans a token that its server does not have: what it has minted is used before
\* Juju lets it read the secret.
LeaderPlansCurrentToken ==
  [][\A u \in Units :
       (leader = u /\ planned'[u] # planned[u] /\ planned'[u].token # 0)
         => planned'[u].token = outposts'[planned'[u].host]]_vars

\* Every URL that consumers are told reaches the outpost: Traefik, at the host and in the scheme
\* it says, serves the route behind it.
UrlsReachOutpost ==
  /\ urls.ldap \in Hosts => traefik.serves.expose /\ urls.ldap = traefik.address.host
  /\ urls.ldaps # None =>
       /\ traefik.serves.submitted /\ traefik.address.scheme = "https"
       /\ urls.ldaps = Or(traefik.serves.domain, traefik.address.host)

UrlsServed == Settled => UrlsReachOutpost

\* Traces go to the Tempo that is related and to no former one, from every unit.
TracesGo == \A u \in Units : planned[u].traces = Endpoint
TracesFollowTempo == (Settled /\ Ready) => TracesGo

\* Once the jobs are published, Prometheus scrapes every unit at the address of its present pod
\* and no former one, once update-status has come to a unit whose pod came back silently.
UnitsScraped == jobs => prometheus.targets = {<<u, address[u]>> : u \in Units}
ScrapedWhereTheyAre == Settled => UnitsScraped

\* Grafana shows the dashboards of the leader's revision, in whatever order the units were
\* upgraded and leadership moved.
LeadersDashboards == grafana.related => grafana.shows = revision[leader]
DashboardsOfTheLeader == Settled => LeadersDashboards

\* Failed calls, refused hooks, lost outposts and stale addresses are repaired: while the server
\* stays and accepts its API token, in the end everything above holds, and no unit is in error.
EventuallyConsistent ==
  <>[](Ready /\ \A u \in Units : CallsAccepted(u)) =>
    <>[](/\ leader # None /\ \A u \in Units : retry[u] = None
         /\ OneToken /\ UrlsReachOutpost /\ TracesGo /\ UnitsScraped /\ LeadersDashboards)

=============================================================================
