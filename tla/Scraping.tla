------------------------------- MODULE Scraping -------------------------------
(***************************************************************************)
(* metrics-endpoint: the leader publishes the scrape jobs and alert rules, *)
(* every unit its address, and Prometheus makes targets of them.           *)
(***************************************************************************)
EXTENDS JujuUnits

VARIABLES
  address,     \* per unit: the address of its pod
  prometheus,  \* it is related; it has still to see a change; the targets it scrapes
  jobs,        \* the leader has published the jobs and rules
  published    \* per unit: the address in its databag, 0 if there is none

scrapingVars == <<address, prometheus, jobs, published>>

PodAddresses == 0..MaxNumber + 1

ScrapingTypes ==
  /\ address \in [Units -> PodAddresses]
  /\ prometheus \in [related : BOOLEAN, notified : BOOLEAN, targets : SUBSET (Units \X PodAddresses)]
  /\ jobs \in BOOLEAN /\ published \in [Units -> PodAddresses]

\* set_scrape_job_spec, on joined and on pebble-ready, the refresh event of a charm with a single
\* container; _set_unit_ip alone on update-status, for the pod that comes back silently.  The
\* relation-changed that follows joined sets what joined has set; a later one, which would only
\* set the address sooner, is left out.
SetsJobs(event) == event \in {"metrics-joined", "pebble-ready"}

\* Mutant of SetsAddress: the address is set with the jobs only.
AddressWithJobs(event) == SetsJobs(event)

SetsAddress(event) == SetsJobs(event) \/ event = "update-status"

SetAddress(u, event) ==
  published' = IF prometheus.related /\ SetsAddress(event)
                 THEN [published EXCEPT ![u] = address[u]] ELSE published

SetJobs(u, event) == jobs' = (jobs \/ (prometheus.related /\ SetsJobs(event) /\ leader = u))

\* Both are events for Prometheus.
TellPrometheus ==
  prometheus' = IF published' # published \/ jobs' # jobs
                  THEN [prometheus EXCEPT !.notified = TRUE] ELSE prometheus

PrometheusRelates ==
  /\ ~prometheus.related
  /\ prometheus' = [prometheus EXCEPT !.related = TRUE]
  /\ ChangesNoticed("metrics", "metrics-joined")
  /\ UNCHANGED <<address, jobs, published>>

PrometheusLeaves ==
  /\ prometheus.related
  /\ prometheus' = [related |-> FALSE, notified |-> FALSE, targets |-> {}]
  /\ jobs' = FALSE /\ published' = [u \in Units |-> 0]
  /\ pending' = [u \in Units |-> pending[u] \ {"metrics-joined"}]
  /\ Changes("metrics")
  /\ UNCHANGED address

ScrapingChanges == PrometheusRelates \/ PrometheusLeaves

\* _relation_hosts leaves out units that have published no address.
Hosted == {u \in Units : published[u] # 0}

\* A wildcard target becomes a job for each host.
Expanded(units) == {<<u, published[u]>> : u \in units}

\* _static_scrape_config: without jobs there is nothing to expand.
Targets == IF jobs THEN Expanded(Hosted) ELSE {}

\* targets_changed, on which Prometheus asks for the jobs.
PrometheusReads ==
  /\ prometheus.notified
  /\ prometheus' = [prometheus EXCEPT !.notified = FALSE, !.targets = Targets]
  /\ UNCHANGED <<jujuVars, address, jobs, published>>

=============================================================================
