------------------------------ MODULE Dashboards ------------------------------
(***************************************************************************)
(* grafana-dashboard: every unit keeps the dashboards of its own revision  *)
(* of the charm, and the leader sends its own to Grafana.                  *)
(***************************************************************************)
EXTENDS JujuUnits

VARIABLES
  revision,    \* per unit: the charm's revision
  templates,   \* per unit: the revision whose dashboards are in its stored state, 0 if none is
  grafana,     \* it is related; it has still to see a change; the dashboards it shows
  sent         \* the dashboards in the application's databag, 0 if there are none

dashboardVars == <<revision, templates, grafana, sent>>

Revisions == 1..MaxNumber + 1

DashboardTypes ==
  /\ revision \in [Units -> Revisions] /\ templates \in [Units -> Revisions \union {0}]
  /\ grafana \in [related : BOOLEAN, notified : BOOLEAN, shows : Revisions \union {0}]
  /\ sent \in Revisions \union {0}

\* Mutant of Loads: a new leader relies on what the old one sent.
LoadsOnOwnEvents(u, event) ==
  \/ event \in {"upgrade-charm", "config-changed"}
  \/ event = "dashboard-created" /\ leader = u

\* _update_all_dashboards_from_dir, which on created only the leader runs.
Loads(u, event) ==
  \/ event \in {"leader-elected", "upgrade-charm", "config-changed"}
  \/ event = "dashboard-created" /\ leader = u

Load(u, event) ==
  templates' = IF Loads(u, event) THEN [templates EXCEPT ![u] = revision[u]] ELSE templates

\* _upset_dashboards_on_relation sends a new uuid with them, so that Grafana always sees a change.
Send(u, event) ==
  IF Loads(u, event) /\ leader = u /\ grafana.related
    THEN sent' = revision[u] /\ grafana' = [grafana EXCEPT !.notified = TRUE]
    ELSE UNCHANGED <<sent, grafana>>

\* The unit moves to the next revision, in a new pod.  What follows the pod is left to
\* update-status: no Prometheus is related here, and without one pebble-ready does no more.
Upgrade(u) ==
  /\ \A v \in Units : revision[u] <= revision[v]
  /\ revision[u] <= MaxNumber
  /\ revision' = [revision EXCEPT ![u] = @ + 1]
  /\ Changes("dashboards")
  /\ pending' = [pending EXCEPT ![u] = @ \union {"upgrade-charm", "update-status"}]
  /\ UNCHANGED <<templates, grafana, sent>>

GrafanaRelates ==
  /\ ~grafana.related
  /\ grafana' = [grafana EXCEPT !.related = TRUE]
  /\ ChangesNoticed("dashboards", "dashboard-created")
  /\ UNCHANGED <<revision, templates, sent>>

GrafanaLeaves ==
  /\ grafana.related
  /\ grafana' = [related |-> FALSE, notified |-> FALSE, shows |-> 0]
  /\ sent' = 0
  /\ pending' = [u \in Units |-> pending[u] \ {"dashboard-created"}]
  /\ Changes("dashboards")
  /\ UNCHANGED <<revision, templates>>

DashboardChanges == GrafanaRelates \/ GrafanaLeaves

\* Grafana renders the dashboards it is sent and keeps them.
GrafanaRenders ==
  /\ grafana.notified
  /\ grafana' = [grafana EXCEPT !.notified = FALSE, !.shows = sent]
  /\ UNCHANGED <<jujuVars, revision, templates, sent>>

=============================================================================
