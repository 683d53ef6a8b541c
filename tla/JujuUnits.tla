------------------------------ MODULE JujuUnits ------------------------------
(***************************************************************************)
(* The units of the application as Juju runs them: who leads, which events *)
(* each unit has still to see, and which hook it has to run again.         *)
(* ServerInfo, OutpostToken, TraefikRoute, Tracing, Scraping and           *)
(* Dashboards are the integrations; Application composes their hooks.      *)
(***************************************************************************)
EXTENDS Naturals

CONSTANTS
  Units,         \* the units of the application
  First,         \* the one that leads at first
  MaxMoves,      \* bound: losses of leadership, by focus
  MaxFaults,     \* bound: failures of Authentik, by focus
  MaxChanges,    \* bound: changes on the other side of a relation and of options, by focus
  MaxNumber      \* the largest of these, which what is numbered in order cannot exceed

Integrations == {"token", "server", "traefik", "tracing", "metrics", "dashboards"}

ASSUME UnitAssumption ==
  /\ First \in Units /\ MaxNumber \in Nat
  /\ \A bound \in {MaxMoves, MaxFaults, MaxChanges} : bound \in [Integrations -> 0..MaxNumber]

None == "none"

VARIABLES
  leader,     \* the unit that holds the lease
  pending,    \* the events each unit has still to see
  retry,      \* the hook a unit that is in error runs again before any other
  moves, faults, changes,
  focus       \* the integration whose other side changes in this behaviour

jujuVars == <<leader, pending, retry, moves, faults, changes, focus>>

\* Events by what they make the charm do.  "peer" is the change of peer data by another unit,
\* "server", "traefik" and "tracing" are the changes of those relations and the end of the first
\* and the last.
Events ==
  {"config-changed", "leader-elected", "update-status", "upgrade-charm", "pebble-ready", "peer",
   "server", "traefik", "traefik-broken", "tracing", "metrics-joined", "dashboard-created"}

Told(units, event) ==
  [u \in Units |-> IF u \in units THEN pending[u] \union {event} ELSE pending[u]]

\* What follows a new pod: pebble-ready or, when a pod comes back with another address and the unit
\* is told nothing, only the next update-status.  That one comes in any case; it is pending here
\* until it has.
PodEvents == {"pebble-ready", "update-status"}

\* update-status comes when nothing else is waiting, and before that if it is awaited.
Due(u, event) ==
  IF retry[u] # None THEN event = retry[u]
  ELSE IF pending[u] = {} THEN event = "update-status"
  ELSE event \in pending[u]

\* The other side of the integration changes.
Changes(integration) ==
  /\ focus = integration
  /\ changes < MaxChanges[focus] /\ changes' = changes + 1
  /\ UNCHANGED <<leader, retry, moves, faults, focus>>

ChangesUnnoticed(integration) == Changes(integration) /\ UNCHANGED pending

ChangesNoticed(integration, event) ==
  Changes(integration) /\ pending' = Told(Units, event)

\* The lease expires: no hook learns of it.
LoseLeadership ==
  /\ leader # None /\ moves < MaxMoves[focus]
  /\ leader' = None /\ moves' = moves + 1
  /\ UNCHANGED <<pending, retry, faults, changes, focus>>

Elect(u) ==
  /\ leader = None
  /\ leader' = u
  /\ pending' = Told({u}, "leader-elected")
  /\ UNCHANGED <<retry, moves, faults, changes, focus>>

=============================================================================
