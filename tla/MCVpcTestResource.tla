------------------------- MODULE MCVpcTestResource -------------------------
(* Two jobs and three subnets: the first is private, the second public by   *)
(* its own route table, the third by the main one, and the names agree with *)
(* the routes.  Either of the public ones may come first.                   *)
EXTENDS VpcTestResource

MCInit ==
    /\ Init
    /\ table[1] = "local" /\ table[2] # "none" /\ table[3] = "none"
    /\ main = "internet"
    /\ named = {s \in Subnets : IsSubnetPublic(s)}
    /\ assigns \in {{}, {1, 2, 3}}
    /\ provider # "aws" => ~waits /\ table[2] = "internet" /\ assigns = {}

MCSpec == MCInit /\ [][Next]_vars /\ Fairness
=============================================================================
