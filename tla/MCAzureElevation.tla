-------------------------- MODULE MCAzureElevation --------------------------
(* Two elevators of the same principal (two jobs that run as one service   *)
(* connection) on one account.  Their order and the order of the           *)
(* identifiers do not matter.                                              *)
EXTENDS AzureElevation, TLC

CONSTANTS e1, e2, p1, a1, a2, own

MCPrincipalOf == [e \in {e1, e2} |-> p1]
(* The histories unsure and clean only matter while one elevator has the   *)
(* account to itself; no action reads them.                                *)
MCView ==
    <<account, memory, control, pristine, creator, touched, fault,
      IF touched = {e1, e2} THEN <<>> ELSE <<unsure, clean>> >>

MCSymmetry == Permutations({e1, e2}) \cup Permutations({a1, a2})
=============================================================================
