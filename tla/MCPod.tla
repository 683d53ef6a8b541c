-------------------------------- MODULE MCPod --------------------------------
(***************************************************************************)
(* The instance of Pod that TLC checks: one peer, three Loki units in two  *)
(* relations, and memory options below a byte, below the request, with a   *)
(* fraction, and invalid.                                                  *)
(***************************************************************************)
EXTENDS Pod

CONSTANTS s1, l1, l2, l3, r1, r2

MCRelationOf == [u \in {l1, l2, l3} |-> IF u = l3 THEN r2 ELSE r1]
MCLimits ==
  {[cpu |-> 50, memory |-> 0], [cpu |-> 0, memory |-> 2500], [cpu |-> 0, memory |-> 500],
   [cpu |-> 7, memory |-> 0]}
MCUsual ==
  [server |-> "ready", token |-> TRUE, setting |-> s1, limit |-> [cpu |-> 0, memory |-> 2500],
   loki |-> [u \in {l1, l2, l3} |-> "gone"]]
MCInitial ==
  {MCUsual, [MCUsual EXCEPT !.server = "absent", !.token = FALSE],
   [MCUsual EXCEPT !.loki = [u \in {l1, l2, l3} |-> IF u = l2 THEN "gone" ELSE "published"]]}

=============================================================================
