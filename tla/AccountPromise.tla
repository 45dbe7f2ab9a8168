--------------------------- MODULE AccountPromise ---------------------------
(***************************************************************************)
(* What the owner of a cloud storage account is promised while the test    *)
(* harness elevates and resets access to it (cloud-api/generic/service.go, *)
(* ElevateAccessForInspection and ResetAccess).  A network switch of the   *)
(* account only ever moves between the level the owner chose and the open  *)
(* level, a switch the account does not expose stays absent, and a role    *)
(* assignment the owner made is neither replaced nor revoked.              *)
(***************************************************************************)
CONSTANTS
    Switches,    \* network switches of the account
    Levels,      \* values of a switch
    Open,        \* the level that lets the harness in
    Principals,  \* identities a role can be assigned to
    Ids,         \* role assignment identifiers
    OwnerIds,    \* those of assignments the owner made
    Nil          \* "no value" / "no assignment"

VARIABLES
    live,      \* the level of each switch, Nil when it is not exposed
    assigned,  \* the role assignment of each principal, or Nil
    pristine   \* the levels the owner chose

promiseVars == <<live, assigned, pristine>>

Init ==
    /\ pristine \in [Switches -> Levels \cup {Nil}]
    /\ live = pristine
    /\ assigned \in [Principals -> OwnerIds \cup {Nil}]

(* Open a switch, or give it back the level the owner chose. *)
SetLevel(s) ==
    /\ live[s] # Nil
    /\ \E level \in {Open, pristine[s]} : live' = [live EXCEPT ![s] = level]
    /\ UNCHANGED <<assigned, pristine>>

Grant(p) ==
    /\ assigned[p] = Nil
    /\ \E id \in Ids \ OwnerIds : assigned' = [assigned EXCEPT ![p] = id]
    /\ UNCHANGED <<live, pristine>>

Revoke(id) ==
    /\ id \notin OwnerIds
    /\ assigned' = [p \in Principals |-> IF assigned[p] = id THEN Nil ELSE assigned[p]]
    /\ UNCHANGED <<live, pristine>>

Next ==
    \/ \E s \in Switches : SetLevel(s)
    \/ \E p \in Principals : Grant(p)
    \/ \E id \in Ids : Revoke(id)

Spec == Init /\ [][Next]_promiseVars
=============================================================================
