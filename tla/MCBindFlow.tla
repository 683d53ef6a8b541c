----------------------------- MODULE MCBindFlow -----------------------------
(***************************************************************************)
(* The instance of BindFlow that TLC checks: two deployments race for the  *)
(* flow, whose two stages are on different pages of the list.              *)
(***************************************************************************)
EXTENDS BindFlow

MCStages == {10, 20}
MCPageOf == [s \in MCStages |-> IF s = 10 THEN 1 ELSE 2]

=============================================================================
