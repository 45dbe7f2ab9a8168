--------------------------- MODULE AzureElevation ---------------------------
(***************************************************************************)
(* The Azure storage elevator                                              *)
(* (modules/cloud-api/object-storage/elevation/azure_elevation.go).        *)
(*                                                                         *)
(* An elevator opens the two network switches of a storage account, grants *)
(* its own principal a data role, and later resets all three.  Each        *)
(* AzureBlobService owns one elevator, with its own memory, so several     *)
(* elevators (the default service, one per test identity, another test     *)
(* process) may work on the same account.  One action is one call to the   *)
(* management API or one local decision between two calls.  A call that    *)
(* changes the account is acknowledged, or rejected, or applied while its  *)
(* response is lost: the caller sees the last two as the same error.       *)
(***************************************************************************)
CONSTANTS
    Elevators,    \* AzureStorageElevator instances on one storage account
    Principals,   \* identities the data role can be assigned to
    PrincipalOf,  \* the identity behind each elevator's credential
    Levels,       \* values of a network switch
    Open,         \* PublicNetworkAccessEnabled / DefaultActionAllow
    Ids,          \* role assignment identifiers
    OwnerIds,     \* assignments that were on the account before any test
    Nil           \* a nil pointer, an absent property, no assignment

ASSUME ElevationAssumption ==
    /\ PrincipalOf \in [Elevators -> Principals]
    /\ Open \in Levels
    /\ Nil \notin Levels \cup Ids \cup Elevators
    /\ OwnerIds \subseteq Ids

VARIABLES
    live,      \* account: the level of each switch, Nil when not exposed
    assigned,  \* account: the role assignment of each principal, or Nil
    orig,      \* Original*: the level an elevator saw first
    cur,       \* Current*: the level an elevator believes the switch has
    granted,   \* GrantedRoleAssignments
    pc,        \* the next call of each elevator
    sw,        \* the switch that call is about
    pristine,  \* history: the levels before any elevator started
    creator,   \* history: the elevator whose Create made an assignment on the account
    touched,   \* history: the elevators that ever started an operation
    unsure,    \* history: an Update of a switch with a known Current was lost
    clean,     \* history: the last operation is a reset, none of its calls failed
    fault      \* history: a Create was lost or a DeleteByID failed

account == <<live, assigned>>
memory == <<orig, cur, granted>>
control == <<pc, sw>>
history == <<pristine, creator, touched, unsure, clean, fault>>
vars == <<account, memory, control, history>>

Switches == {"publicNetworkAccess", "networkDefaultAction"}

Calls == {"idle", "get", "update", "identity", "list", "create",
          "delete", "restore", "restoreGet", "restoreUpdate"}

TypeOK ==
    /\ live \in [Switches -> Levels \cup {Nil}]
    /\ assigned \in [Principals -> Ids \cup {Nil}]
    /\ orig \in [Elevators -> [Switches -> Levels \cup {Nil}]]
    /\ cur \in [Elevators -> [Switches -> Levels \cup {Nil}]]
    /\ granted \in [Elevators -> SUBSET Ids]
    /\ pc \in [Elevators -> Calls]
    /\ sw \in [Elevators -> Switches]
    /\ pristine \in [Switches -> Levels \cup {Nil}]
    /\ creator \in [Ids -> Elevators \cup {Nil}]
    /\ touched \subseteq Elevators
    /\ unsure \in [Elevators -> [Switches -> BOOLEAN]]
    /\ clean \in [Elevators -> BOOLEAN]
    /\ fault \in [Elevators -> BOOLEAN]

(* NewAzureStorageElevator starts with an empty state. *)
Init ==
    /\ pristine \in [Switches -> Levels \cup {Nil}]
    /\ live = pristine
    /\ assigned \in [Principals -> OwnerIds \cup {Nil}]
    /\ orig = [e \in Elevators |-> [s \in Switches |-> Nil]]
    /\ cur = [e \in Elevators |-> [s \in Switches |-> Nil]]
    /\ granted = [e \in Elevators |-> {}]
    /\ pc = [e \in Elevators |-> "idle"]
    /\ sw = [e \in Elevators |-> "publicNetworkAccess"]
    /\ creator = [id \in Ids |-> Nil]
    /\ touched = {}
    /\ unsure = [e \in Elevators |-> [s \in Switches |-> FALSE]]
    /\ clean = [e \in Elevators |-> FALSE]
    /\ fault = [e \in Elevators |-> FALSE]

-----------------------------------------------------------------------------
(* Control flow.  Every step of an operation is tried, whatever the errors *)
(* of the steps before it: they are only printed.                          *)

Goto(e, call) == pc' = [pc EXCEPT ![e] = call] /\ UNCHANGED sw

(* Public network access first, then the firewall, then the role. *)
NextElevation(e) ==
    IF sw[e] = "publicNetworkAccess"
    THEN /\ pc' = [pc EXCEPT ![e] = "get"]
         /\ sw' = [sw EXCEPT ![e] = "networkDefaultAction"]
    ELSE Goto(e, "identity")

(* The role is reset first, then the firewall, then public network access. *)
NextReset(e) ==
    IF sw[e] = "networkDefaultAction"
    THEN /\ pc' = [pc EXCEPT ![e] = "restore"]
         /\ sw' = [sw EXCEPT ![e] = "publicNetworkAccess"]
    ELSE Goto(e, "idle")

(* The elevator records that the switch it works on now has this level. *)
Believe(e, level) ==
    /\ cur' = [cur EXCEPT ![e][sw[e]] = level]
    /\ unsure' = [unsure EXCEPT ![e][sw[e]] = FALSE]

(* The three outcomes of an Update that sets the switch to a level. *)
Acknowledged(e, level) ==
    /\ live' = [live EXCEPT ![sw[e]] = level]
    /\ Believe(e, level)
    /\ UNCHANGED clean

Rejected(e) ==
    /\ clean' = [clean EXCEPT ![e] = FALSE]
    /\ UNCHANGED <<live, cur, unsure>>

ResponseLost(e, level) ==
    /\ live' = [live EXCEPT ![sw[e]] = level]
    /\ unsure' = [unsure EXCEPT ![e][sw[e]] = (cur[e][sw[e]] # Nil)]
    /\ clean' = [clean EXCEPT ![e] = FALSE]
    /\ UNCHANGED cur

-----------------------------------------------------------------------------
(* ElevateStorageAccountAccess *)

BeginElevate(e) ==
    /\ pc[e] = "idle"
    /\ pc' = [pc EXCEPT ![e] = "get"]
    /\ sw' = [sw EXCEPT ![e] = "publicNetworkAccess"]
    /\ touched' = touched \cup {e}
    /\ clean' = [clean EXCEPT ![e] = FALSE]
    /\ UNCHANGED <<account, memory, pristine, creator, unsure, fault>>

(* Mutant: every elevation stores the level it finds as the original. *)
OriginalOverwritten(e) == live[sw[e]]

(* The level to keep as the original: the first one seen, never a later one. *)
OriginalAfterGet(e) ==
    IF orig[e][sw[e]] = Nil THEN live[sw[e]] ELSE orig[e][sw[e]]

GetFails(e) ==
    /\ pc[e] = "get"
    /\ NextElevation(e)
    /\ UNCHANGED <<account, memory, history>>

GetFindsNoProperty(e) ==
    /\ pc[e] = "get"
    /\ live[sw[e]] = Nil
    /\ NextElevation(e)
    /\ UNCHANGED <<account, memory, history>>

GetFindsOpen(e) ==
    /\ pc[e] = "get"
    /\ live[sw[e]] = Open
    /\ orig' = [orig EXCEPT ![e][sw[e]] = OriginalAfterGet(e)]
    /\ Believe(e, Open)
    /\ NextElevation(e)
    /\ UNCHANGED <<account, granted, pristine, creator, touched, clean, fault>>

GetFindsClosed(e) ==
    /\ pc[e] = "get"
    /\ live[sw[e]] \notin {Nil, Open}
    /\ orig' = [orig EXCEPT ![e][sw[e]] = OriginalAfterGet(e)]
    /\ Goto(e, "update")
    /\ UNCHANGED <<account, cur, granted, history>>

UpdateToOpen(e) ==
    /\ pc[e] = "update"
    /\ \/ Acknowledged(e, Open)
       \/ Rejected(e)
       \/ ResponseLost(e, Open)
    /\ NextElevation(e)
    /\ UNCHANGED <<assigned, orig, granted, pristine, creator, touched, fault>>

(* GetCurrentIdentityObjectID: without a principal the elevation ends here. *)
ResolveIdentity(e) ==
    /\ pc[e] = "identity"
    /\ \E call \in {"list", "idle"} : Goto(e, call)
    /\ UNCHANGED <<account, memory, history>>

(* Mutant: an assignment that was already there is tracked for deletion. *)
ListTracksAssignment(e) ==
    /\ pc[e] = "list"
    /\ assigned[PrincipalOf[e]] # Nil
    /\ granted' = [granted EXCEPT ![e] = @ \cup {assigned[PrincipalOf[e]]}]
    /\ Goto(e, "idle")
    /\ UNCHANGED <<account, orig, cur, history>>

(* GrantRBAC leaves an assignment that is already there alone, untracked. *)
ListFindsAssignment(e) ==
    /\ pc[e] = "list"
    /\ assigned[PrincipalOf[e]] # Nil
    /\ Goto(e, "idle")
    /\ UNCHANGED <<account, memory, history>>

(* Nothing on the pages, or a page that could not be read. *)
ListFindsNothing(e) ==
    /\ pc[e] = "list"
    /\ Goto(e, "create")
    /\ UNCHANGED <<account, memory, history>>

(* uuid.New: an identifier no assignment and no elevator refers to. *)
FreshIds ==
    {id \in Ids \ OwnerIds :
        /\ \A p \in Principals : assigned[p] # id
        /\ \A e \in Elevators : id \notin granted[e]}

(* Mutant: the assignment's identifier is appended without the nil check. *)
CreateTracksNil(e) ==
    /\ pc[e] = "create"
    /\ assigned[PrincipalOf[e]] = Nil
    /\ \E id \in FreshIds :
        /\ assigned' = [assigned EXCEPT ![PrincipalOf[e]] = id]
        /\ creator' = [creator EXCEPT ![id] = e]
        /\ granted' = [granted EXCEPT ![e] = @ \cup {Nil}]
    /\ Goto(e, "idle")
    /\ UNCHANGED <<live, orig, cur, pristine, touched, unsure, clean, fault>>

(* Mutant: the assignment is not recorded for cleanup. *)
CreateTracksNothing(e) ==
    /\ pc[e] = "create"
    /\ assigned[PrincipalOf[e]] = Nil
    /\ \E id \in FreshIds :
        /\ assigned' = [assigned EXCEPT ![PrincipalOf[e]] = id]
        /\ creator' = [creator EXCEPT ![id] = e]
    /\ Goto(e, "idle")
    /\ UNCHANGED <<live, memory, pristine, touched, unsure, clean, fault>>

CreateSucceeds(e) ==
    /\ pc[e] = "create"
    /\ assigned[PrincipalOf[e]] = Nil
    /\ \E id \in FreshIds :
        /\ assigned' = [assigned EXCEPT ![PrincipalOf[e]] = id]
        /\ creator' = [creator EXCEPT ![id] = e]
        /\ granted' = [granted EXCEPT ![e] = @ \cup {id}]
    /\ Goto(e, "idle")
    /\ UNCHANGED <<live, orig, cur, pristine, touched, unsure, clean, fault>>

(* RoleAssignmentExists, or any other error: nothing is recorded. *)
CreateFails(e) ==
    /\ pc[e] = "create"
    /\ Goto(e, "idle")
    /\ UNCHANGED <<account, memory, history>>

CreateResponseLost(e) ==
    /\ pc[e] = "create"
    /\ assigned[PrincipalOf[e]] = Nil
    /\ \E id \in FreshIds :
        /\ assigned' = [assigned EXCEPT ![PrincipalOf[e]] = id]
        /\ creator' = [creator EXCEPT ![id] = e]
    /\ fault' = [fault EXCEPT ![e] = TRUE]
    /\ Goto(e, "idle")
    /\ UNCHANGED <<live, memory, pristine, touched, unsure, clean>>

-----------------------------------------------------------------------------
(* ResetStorageAccountAccess *)

BeginReset(e) ==
    /\ pc[e] = "idle"
    /\ pc' = [pc EXCEPT ![e] = IF granted[e] = {} THEN "restore" ELSE "delete"]
    /\ sw' = [sw EXCEPT ![e] = "networkDefaultAction"]
    /\ touched' = touched \cup {e}
    /\ clean' = [clean EXCEPT ![e] = TRUE]
    /\ UNCHANGED <<account, memory, pristine, creator, unsure, fault>>

(* One DeleteByID of ResetRBAC's loop.  The list is emptied after the loop *)
(* whatever the outcome of each call, so an identifier is forgotten as     *)
(* soon as it was tried.                                                   *)
DeleteAssignment(e) ==
    /\ pc[e] = "delete"
    /\ \E id \in granted[e] :
        /\ granted' = [granted EXCEPT ![e] = @ \ {id}]
        /\ pc' = [pc EXCEPT ![e] = IF granted[e] = {id} THEN "restore" ELSE "delete"]
        /\ \/ /\ assigned' = [p \in Principals |->
                                IF assigned[p] = id THEN Nil ELSE assigned[p]]
              /\ creator' = [creator EXCEPT ![id] = Nil]
              /\ UNCHANGED <<clean, fault>>
           \/ /\ assigned' = [p \in Principals |->
                                IF assigned[p] = id THEN Nil ELSE assigned[p]]
              /\ creator' = [creator EXCEPT ![id] = Nil]
              /\ clean' = [clean EXCEPT ![e] = FALSE]  \* the response is lost
              /\ UNCHANGED fault
           \/ /\ clean' = [clean EXCEPT ![e] = FALSE]
              /\ fault' = [fault EXCEPT ![e] = TRUE]
              /\ UNCHANGED <<assigned, creator>>
    /\ UNCHANGED <<live, orig, cur, sw, pristine, touched, unsure>>

(* A switch is left alone when no original is stored, or when Current says *)
(* that it already has its original level.                                 *)
SkipsRestore(e) ==
    \/ orig[e][sw[e]] = Nil
    \/ cur[e][sw[e]] = orig[e][sw[e]]

DecideRestore(e) ==
    /\ pc[e] = "restore"
    /\ IF SkipsRestore(e) THEN NextReset(e) ELSE Goto(e, "restoreGet")
    /\ UNCHANGED <<account, memory, history>>

RestoreGetFails(e) ==
    /\ pc[e] = "restoreGet"
    /\ NextReset(e)
    /\ clean' = [clean EXCEPT ![e] = FALSE]
    /\ UNCHANGED <<account, memory, pristine, creator, touched, unsure, fault>>

RestoreGetFindsOriginal(e) ==
    /\ pc[e] = "restoreGet"
    /\ live[sw[e]] = orig[e][sw[e]]
    /\ Believe(e, orig[e][sw[e]])
    /\ NextReset(e)
    /\ UNCHANGED <<account, orig, granted, pristine, creator, touched, clean, fault>>

RestoreGetFindsOther(e) ==
    /\ pc[e] = "restoreGet"
    /\ live[sw[e]] # orig[e][sw[e]]
    /\ IF live[sw[e]] = Nil THEN NextReset(e) ELSE Goto(e, "restoreUpdate")
    /\ UNCHANGED <<account, memory, history>>

UpdateToOriginal(e) ==
    /\ pc[e] = "restoreUpdate"
    /\ \/ Acknowledged(e, orig[e][sw[e]])
       \/ Rejected(e)
       \/ ResponseLost(e, orig[e][sw[e]])
    /\ NextReset(e)
    /\ UNCHANGED <<assigned, orig, granted, pristine, creator, touched, fault>>

-----------------------------------------------------------------------------
Elevate(e) ==
    \/ BeginElevate(e)
    \/ GetFails(e)
    \/ GetFindsNoProperty(e)
    \/ GetFindsOpen(e)
    \/ GetFindsClosed(e)
    \/ UpdateToOpen(e)
    \/ ResolveIdentity(e)
    \/ ListFindsAssignment(e)
    \/ ListFindsNothing(e)
    \/ CreateSucceeds(e)
    \/ CreateFails(e)
    \/ CreateResponseLost(e)

Reset(e) ==
    \/ BeginReset(e)
    \/ DeleteAssignment(e)
    \/ DecideRestore(e)
    \/ RestoreGetFails(e)
    \/ RestoreGetFindsOriginal(e)
    \/ RestoreGetFindsOther(e)
    \/ UpdateToOriginal(e)

Next == \E e \in Elevators : Elevate(e) \/ Reset(e)

Spec == Init /\ [][Next]_vars
-----------------------------------------------------------------------------
(* Properties *)

Promise == INSTANCE AccountPromise WITH
    live <- live, assigned <- assigned, pristine <- pristine

(* Whatever the elevators do and however their calls end, the account only *)
(* sees what its owner was promised: a switch has the owner's level or the *)
(* open one, and no assignment of the owner is replaced or revoked         *)
(* (azure_elevation.go:193-197, 385-394, 417-421).                         *)
KeepsAccountPromise == Promise!Spec

Created(e) == {id \in Ids : creator[id] = e}

OnAccount == {id \in Ids : \E p \in Principals : assigned[p] = id}

(* An elevator holds for deletion only assignments it made itself, and,    *)
(* unless one of its Creates was lost or one of its deletions failed, all  *)
(* of those that are still on the account: ResetRBAC then removes exactly  *)
(* what GrantRBAC added (azure_elevation.go:417-446).                      *)
RolesAccountedFor ==
    \A e \in Elevators :
        /\ granted[e] \subseteq Created(e)
        /\ ~fault[e] => Created(e) \cap OnAccount \subseteq granted[e]

Alone(e) == touched = {e}

JustReset(e) == pc[e] = "idle" /\ clean[e]

(* An elevator that has the account to itself gives every switch back the  *)
(* level it had before the first elevation, after any number of partly     *)
(* failed elevations and resets, when the calls of the last reset all      *)
(* succeed.  The one exception is a switch whose Current was known when    *)
(* the response of a later Update was lost (azure_elevation.go:215-220,    *)
(* 232-237).                                                               *)
ResetRestores ==
    \A e \in Elevators :
        Alone(e) /\ JustReset(e) =>
            \A s \in Switches : unsure[e][s] \/ live[s] = pristine[s]

(* The comments promise it without the exception: ResetPublicNetworkAccess *)
(* "restores the original public network access setting"                   *)
(* (azure_elevation.go:225), ResetAccess "restores the original access     *)
(* permissions" (generic/service.go:50).                                   *)
ResetAlwaysRestores ==
    \A e \in Elevators : Alone(e) /\ JustReset(e) => live = pristine
=============================================================================
