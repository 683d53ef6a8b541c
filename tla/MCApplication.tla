----------------------------- MODULE MCApplication -----------------------------
(***************************************************************************)
(* The instance of Application that TLC checks: two units, and for each    *)
(* integration the bounds that its interesting cases need.                 *)
(***************************************************************************)
EXTENDS Application

CONSTANTS u1, u2, h1, h2, d

MCOptions ==
  {[expose |-> FALSE, domain |-> "none"], [expose |-> TRUE, domain |-> d]}
MCAddresses == {[host |-> h1, scheme |-> "https"], [host |-> h2, scheme |-> "http"]}

MCMaxMoves ==
  [token |-> 2, server |-> 1, traefik |-> 1, tracing |-> 1, metrics |-> 1, dashboards |-> 2]
MCMaxFaults ==
  [token |-> 1, server |-> 1, traefik |-> 1, tracing |-> 0, metrics |-> 0, dashboards |-> 0]
MCMaxChanges ==
  [token |-> 2, server |-> 3, traefik |-> 3, tracing |-> 3, metrics |-> 3, dashboards |-> 3]

=============================================================================
