--------------------------- MODULE MCObjectStorage ---------------------------
(* Two services on one bucket, which may be there from the start, with the *)
(* probe and one more key.  The services do not differ.                    *)
EXTENDS ObjectStorage, TLC

CONSTANTS s1, s2, main, probe, data

MCSymmetry == Permutations({s1, s2})

(* Every Azure account keeps deleted containers; the owner has one object. *)
MCInit ==
    /\ Init
    /\ softDelete = (provider = "azure")
    /\ owned \subseteq {<<main, data>>}

MCSpec == MCInit /\ [][Next]_vars
=============================================================================
