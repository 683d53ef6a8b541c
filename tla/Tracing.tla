------------------------------- MODULE Tracing -------------------------------
(***************************************************************************)
(* tracing: the leader requests the protocol otlp_http, Tempo publishes    *)
(* receivers for all that its clients request, and every unit gives the    *)
(* endpoint to its workload.  Relations are numbered in order.             *)
(***************************************************************************)
EXTENDS JujuUnits

VARIABLES
  tempo,       \* the relation: which one it is, 0 if there is none, and the receivers published
  others,      \* another client of Tempo requests another protocol
  requested    \* the leader has requested otlp_http

tracingVars == <<tempo, others, requested>>

Tempos == 0..MaxNumber + 1

\* Receivers are told apart by whether there are any and whether one is for otlp_http.
TracingTypes ==
  /\ tempo \in [relation : Tempos, receivers : {"none", "other", "http"}, last : Tempos]
  /\ others \in BOOLEAN /\ requested \in BOOLEAN

\* The library requests the protocols whenever the leader's charm is constructed.
Requests(u) == leader = u /\ tempo.relation # 0

Request(u) == requested' = (requested \/ Requests(u))

\* is_ready: there are receivers, of whatever protocol.
IsReady == tempo.receivers # "none"

\* TracingData.load, for a unit that does not raise.
Endpoint == IF tempo.receivers = "http" THEN tempo.relation ELSE 0

\* get_endpoint reads, when it finds no receiver, what was requested, which only the leader may.
EndpointRaises(u) == IsReady /\ tempo.receivers # "http" /\ leader # u

TempoRelates ==
  /\ tempo.relation = 0
  /\ tempo' = [tempo EXCEPT !.relation = tempo.last + 1, !.last = @ + 1]
  /\ ChangesNoticed("tracing", "tracing")
  /\ UNCHANGED <<others, requested>>

TempoLeaves ==
  /\ tempo.relation # 0
  /\ tempo' = [tempo EXCEPT !.relation = 0, !.receivers = "none"]
  /\ requested' = FALSE
  /\ ChangesNoticed("tracing", "tracing")
  /\ UNCHANGED others

TracingChanges == TempoRelates \/ TempoLeaves

\* publish_receivers writes to every relation what all of them request.
Offered == IF requested THEN "http" ELSE IF others THEN "other" ELSE "none"

TempoPublishes ==
  /\ tempo.relation # 0 /\ tempo.receivers # Offered
  /\ tempo' = [tempo EXCEPT !.receivers = Offered]
  /\ pending' = Told(Units, "tracing")
  /\ UNCHANGED <<leader, retry, moves, faults, changes, focus, others, requested>>

=============================================================================
