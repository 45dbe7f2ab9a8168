--------------------------- MODULE ServicePromise ---------------------------
(***************************************************************************)
(* What a caller of a cloud factory relies on (the Factory interface,      *)
(* cloud-api/factory/factory.go, and TearDown of cloud-api/generic): one   *)
(* name stands for one service until the factory is forgotten, and the     *)
(* objects a service has created in the cloud are created by, and removed  *)
(* through, a service that still has a name.  Object storage creates       *)
(* objects its TearDown knows; what other kinds leave is not spoken of.    *)
(***************************************************************************)
CONSTANTS
    Names,     \* what a service is asked for by
    Services,  \* service objects
    None       \* no service

VARIABLES
    directory,  \* the service each name stands for, or None
    litter      \* services whose objects are in the cloud

promiseVars == <<directory, litter>>

Named == {directory[n] : n \in Names} \ {None}

Init ==
    /\ directory = [n \in Names |-> None]
    /\ litter = {}

(* A new service never takes over the name, or the litter, of another. *)
Bind(n, s) ==
    /\ directory[n] = None
    /\ s \notin Named \cup litter
    /\ directory' = [directory EXCEPT ![n] = s]
    /\ UNCHANGED litter

Litter(s) ==
    /\ s \in Named
    /\ litter' = litter \cup {s}
    /\ UNCHANGED directory

Clean(s) ==
    /\ s \in Named
    /\ litter' = litter \ {s}
    /\ UNCHANGED directory

Forget ==
    /\ directory' = [n \in Names |-> None]
    /\ UNCHANGED litter

Next ==
    \/ \E n \in Names, s \in Services : Bind(n, s)
    \/ \E s \in Services : Litter(s) \/ Clean(s)
    \/ Forget

Spec == Init /\ [][Next]_promiseVars
=============================================================================
