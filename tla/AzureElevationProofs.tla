------------------------ MODULE AzureElevationProofs ------------------------
(* Theorems about AzureElevation, for any number of elevators, principals, *)
(* levels and assignments.                                                 *)
EXTENDS AzureElevation, TLAPS

(***************************************************************************)
(* Type correctness                                                        *)
(***************************************************************************)

(* The control helpers keep pc and sw within their types. *)
LEMMA ControlType ==
    ASSUME TypeOK, NEW e \in Elevators
    PROVE  /\ NextElevation(e) \/ NextReset(e) =>
                /\ pc' \in [Elevators -> Calls]
                /\ sw' \in [Elevators -> Switches]
           /\ \A call \in Calls : Goto(e, call) =>
                /\ pc' \in [Elevators -> Calls]
                /\ sw' \in [Elevators -> Switches]
BY DEF TypeOK, NextElevation, NextReset, Goto, Calls, Switches

(* Recording a level keeps cur and unsure within their types. *)
LEMMA BelieveType ==
    ASSUME TypeOK, NEW e \in Elevators, NEW level \in Levels \cup {Nil}, Believe(e, level)
    PROVE  /\ cur' \in [Elevators -> [Switches -> Levels \cup {Nil}]]
           /\ unsure' \in [Elevators -> [Switches -> BOOLEAN]]
<1>1. cur' \in [Elevators -> [Switches -> Levels \cup {Nil}]]
  BY DEF TypeOK, Believe
<1>2. unsure' \in [Elevators -> [Switches -> BOOLEAN]]
  BY DEF TypeOK, Believe
<1>3. QED
  BY <1>1, <1>2

(* Whatever its outcome, an Update to a level keeps the types. *)
LEMMA UpdateType ==
    ASSUME TypeOK, NEW e \in Elevators, NEW level \in Levels \cup {Nil},
           Acknowledged(e, level) \/ Rejected(e) \/ ResponseLost(e, level)
    PROVE  /\ live' \in [Switches -> Levels \cup {Nil}]
           /\ cur' \in [Elevators -> [Switches -> Levels \cup {Nil}]]
           /\ unsure' \in [Elevators -> [Switches -> BOOLEAN]]
           /\ clean' \in [Elevators -> BOOLEAN]
<1>1. CASE Acknowledged(e, level)
  BY <1>1, BelieveType DEF Acknowledged, TypeOK
<1>2. CASE Rejected(e)
  BY <1>2 DEF Rejected, TypeOK
<1>3. CASE ResponseLost(e, level)
  <2>1. (cur[e][sw[e]] # Nil) \in BOOLEAN
    OBVIOUS
  <2>2. unsure' \in [Elevators -> [Switches -> BOOLEAN]]
    BY <1>3, <2>1 DEF ResponseLost, TypeOK
  <2>3. QED
    BY <1>3, <2>2 DEF ResponseLost, TypeOK
<1>4. QED
  BY <1>1, <1>2, <1>3

(* Every reachable state of every set of elevators has the declared types. *)
THEOREM TypeCorrect == Spec => []TypeOK
<1> USE ElevationAssumption
<1>1. Init => TypeOK
  BY DEF Init, TypeOK, Calls, Switches
<1>2. TypeOK /\ [Next]_vars => TypeOK'
  <2> SUFFICES ASSUME TypeOK, [Next]_vars
               PROVE  TypeOK'
    OBVIOUS
  <2>1. CASE UNCHANGED vars
    BY <2>1 DEF TypeOK, vars, account, memory, control, history
  <2> "restoreGet" \in Calls /\ "restoreUpdate" \in Calls
    BY DEF Calls
  <2>2. ASSUME NEW e \in Elevators, Elevate(e)
        PROVE  TypeOK'
    <3>1. CASE BeginElevate(e)
      BY <3>1 DEF BeginElevate, TypeOK, account, memory, Calls, Switches
    <3>2. CASE GetFails(e)
      BY <3>2, ControlType DEF GetFails, TypeOK, account, memory, history
    <3>3. CASE GetFindsNoProperty(e)
      BY <3>3, ControlType DEF GetFindsNoProperty, TypeOK, account, memory, history
    <3>4. CASE GetFindsOpen(e)
      <4>1. orig' \in [Elevators -> [Switches -> Levels \cup {Nil}]]
        BY <3>4 DEF GetFindsOpen, OriginalAfterGet, TypeOK
      <4>2. QED
        BY <3>4, <4>1, ControlType, BelieveType DEF GetFindsOpen, TypeOK, account
    <3>5. CASE GetFindsClosed(e)
      BY <3>5 DEF GetFindsClosed, OriginalAfterGet, Goto, TypeOK, account, history, Calls
    <3>6. CASE UpdateToOpen(e)
      BY <3>6, ControlType, UpdateType DEF UpdateToOpen, TypeOK
    <3>7. CASE ResolveIdentity(e)
      BY <3>7 DEF ResolveIdentity, Goto, TypeOK, account, memory, history, Calls
    <3>8. CASE ListFindsAssignment(e)
      BY <3>8 DEF ListFindsAssignment, Goto, TypeOK, account, memory, history, Calls
    <3>9. CASE ListFindsNothing(e)
      BY <3>9 DEF ListFindsNothing, Goto, TypeOK, account, memory, history, Calls
    <3>10. CASE CreateSucceeds(e)
      BY <3>10 DEF CreateSucceeds, FreshIds, Goto, TypeOK, Calls
    <3>11. CASE CreateFails(e)
      BY <3>11 DEF CreateFails, Goto, TypeOK, account, memory, history, Calls
    <3>12. CASE CreateResponseLost(e)
      BY <3>12 DEF CreateResponseLost, FreshIds, Goto, TypeOK, memory, Calls
    <3>13. QED
      BY <2>2, <3>1, <3>2, <3>3, <3>4, <3>5, <3>6, <3>7, <3>8, <3>9, <3>10, <3>11, <3>12 DEF Elevate
  <2>3. ASSUME NEW e \in Elevators, Reset(e)
        PROVE  TypeOK'
    <3>1. CASE BeginReset(e)
      BY <3>1 DEF BeginReset, TypeOK, account, memory, Calls, Switches
    <3>2. CASE DeleteAssignment(e)
      <4>1. PICK id \in granted[e] : DeleteAssignment(e)!2!(id)
        BY <3>2 DEF DeleteAssignment
      <4>2. pc' \in [Elevators -> Calls]
        <5>1. \E call \in {"restore", "delete"} : pc' = [pc EXCEPT ![e] = call]
          <6>1. CASE granted[e] = {id}
            BY <4>1, <6>1
          <6>2. CASE granted[e] # {id}
            BY <4>1, <6>2
          <6>3. QED
            BY <6>1, <6>2
        <5>2. QED
          BY <5>1 DEF TypeOK, Calls
      <4>3. assigned' \in [Principals -> Ids \cup {Nil}] /\ creator' \in [Ids -> Elevators \cup {Nil}]
        <5>1. CASE UNCHANGED <<assigned, creator>>
          BY <5>1 DEF TypeOK
        <5>2. CASE /\ assigned' = [p \in Principals |-> IF assigned[p] = id THEN Nil ELSE assigned[p]]
                   /\ creator' = [creator EXCEPT ![id] = Nil]
          BY <5>2 DEF TypeOK
        <5>3. QED
          BY <4>1, <5>1, <5>2
      <4>4. granted' \in [Elevators -> SUBSET Ids]
        BY <4>1 DEF TypeOK
      <4>5. clean' \in [Elevators -> BOOLEAN] /\ fault' \in [Elevators -> BOOLEAN]
        BY <4>1 DEF TypeOK
      <4>6. UNCHANGED <<live, orig, cur, sw, pristine, touched, unsure>>
        BY <3>2 DEF DeleteAssignment
      <4>7. QED
        BY <4>2, <4>3, <4>4, <4>5, <4>6 DEF TypeOK
    <3>3. CASE DecideRestore(e)
      BY <3>3, ControlType DEF DecideRestore, TypeOK, account, memory, history
    <3>4. CASE RestoreGetFails(e)
      BY <3>4, ControlType DEF RestoreGetFails, TypeOK, account, memory
    <3>5. CASE RestoreGetFindsOriginal(e)
      <4>1. orig[e][sw[e]] \in Levels \cup {Nil}
        BY DEF TypeOK
      <4>2. QED
        BY <3>5, <4>1, ControlType, BelieveType DEF RestoreGetFindsOriginal, TypeOK, account
    <3>6. CASE RestoreGetFindsOther(e)
      BY <3>6, ControlType DEF RestoreGetFindsOther, TypeOK, account, memory, history
    <3>7. CASE UpdateToOriginal(e)
      <4>1. orig[e][sw[e]] \in Levels \cup {Nil}
        BY DEF TypeOK
      <4>2. QED
        BY <3>7, <4>1, ControlType, UpdateType DEF UpdateToOriginal, TypeOK
    <3>8. QED
      BY <2>3, <3>1, <3>2, <3>3, <3>4, <3>5, <3>6, <3>7 DEF Reset
  <2>4. QED
    BY <2>1, <2>2, <2>3 DEF Next
<1>3. QED
  BY <1>1, <1>2, PTL DEF Spec

(***************************************************************************)
(* Role assignments                                                        *)
(***************************************************************************)

(* What an elevator tracks it created, and what was created is not the     *)
(* owner's: tracking alone does not exclude the owner's assignments.       *)
RolesInv ==
    /\ RolesAccountedFor
    /\ \A id \in OwnerIds : creator[id] = Nil

(* No elevator has created or tracked anything at first. *)
LEMMA RolesInvInitial == Init => RolesInv
BY ElevationAssumption DEF Init, RolesInv, RolesAccountedFor, Created, OnAccount

(* Steps that touch neither assignments nor their bookkeeping. *)
LEMMA RolesInvFrame ==
    ASSUME RolesInv, UNCHANGED <<assigned, granted, creator, fault>>
    PROVE  RolesInv'
BY DEF RolesInv, RolesAccountedFor, Created, OnAccount

(* GrantRBAC and ResetRBAC, whatever their calls return, keep the books. *)
LEMMA RolesInvInductive ==
    ASSUME TypeOK, RolesInv, NEW e \in Elevators, Elevate(e) \/ Reset(e)
    PROVE  RolesInv'
<1> USE ElevationAssumption
<1>1. CASE CreateSucceeds(e)
  <2>1. PICK id \in FreshIds :
          /\ assigned' = [assigned EXCEPT ![PrincipalOf[e]] = id]
          /\ creator' = [creator EXCEPT ![id] = e]
          /\ granted' = [granted EXCEPT ![e] = @ \cup {id}]
    BY <1>1 DEF CreateSucceeds
  <2>2. fault' = fault /\ id \in Ids \ OwnerIds /\ \A f \in Elevators : id \notin granted[f]
    BY <1>1, <2>1 DEF CreateSucceeds, FreshIds
  <2>3. \A f \in Elevators : granted'[f] \subseteq Created(f)'
    BY <2>1, <2>2 DEF TypeOK, RolesInv, RolesAccountedFor, Created
  <2>4. ASSUME NEW f \in Elevators, ~fault'[f]
        PROVE  Created(f)' \cap OnAccount' \subseteq granted'[f]
    BY <2>1, <2>2, <2>4 DEF TypeOK, RolesInv, RolesAccountedFor, Created, OnAccount
  <2>5. QED
    BY <2>1, <2>2, <2>3, <2>4 DEF TypeOK, RolesInv, RolesAccountedFor
<1>2. CASE CreateResponseLost(e)
  <2>1. PICK id \in FreshIds :
          /\ assigned' = [assigned EXCEPT ![PrincipalOf[e]] = id]
          /\ creator' = [creator EXCEPT ![id] = e]
    BY <1>2 DEF CreateResponseLost
  <2>2. /\ fault' = [fault EXCEPT ![e] = TRUE] /\ granted' = granted
        /\ id \in Ids \ OwnerIds /\ \A f \in Elevators : id \notin granted[f]
    BY <1>2, <2>1 DEF CreateResponseLost, memory, FreshIds
  <2>3. \A f \in Elevators : granted'[f] \subseteq Created(f)'
    BY <2>1, <2>2 DEF TypeOK, RolesInv, RolesAccountedFor, Created
  <2>4. ASSUME NEW f \in Elevators, ~fault'[f]
        PROVE  Created(f)' \cap OnAccount' \subseteq granted'[f]
    <3>1. f # e /\ ~fault[f]
      BY <2>2, <2>4 DEF TypeOK
    <3>2. QED
      BY <2>1, <2>2, <3>1 DEF TypeOK, RolesInv, RolesAccountedFor, Created, OnAccount
  <2>5. QED
    BY <2>1, <2>2, <2>3, <2>4 DEF TypeOK, RolesInv, RolesAccountedFor
<1>3. CASE DeleteAssignment(e)
  <2>1. PICK id \in granted[e] : DeleteAssignment(e)!2!(id)
    BY <1>3 DEF DeleteAssignment
  <2>2. id \in Ids /\ creator[id] = e /\ \A f \in Elevators : f # e => id \notin granted[f]
    BY <2>1 DEF TypeOK, RolesInv, RolesAccountedFor, Created
  <2>3. granted' = [granted EXCEPT ![e] = @ \ {id}]
    BY <2>1
  <2>4. CASE /\ assigned' = [p \in Principals |-> IF assigned[p] = id THEN Nil ELSE assigned[p]]
             /\ creator' = [creator EXCEPT ![id] = Nil]
             /\ fault' = fault
    <3>1. \A f \in Elevators : granted'[f] \subseteq Created(f)'
      BY <2>2, <2>3, <2>4 DEF TypeOK, RolesInv, RolesAccountedFor, Created
    <3>2. \A f \in Elevators : ~fault'[f] => Created(f)' \cap OnAccount' \subseteq granted'[f]
      BY <2>2, <2>3, <2>4 DEF TypeOK, RolesInv, RolesAccountedFor, Created, OnAccount
    <3>3. QED
      BY <2>2, <2>4, <3>1, <3>2 DEF TypeOK, RolesInv, RolesAccountedFor
  <2>5. CASE UNCHANGED <<assigned, creator>> /\ fault' = [fault EXCEPT ![e] = TRUE]
    BY <2>2, <2>3, <2>5 DEF TypeOK, RolesInv, RolesAccountedFor, Created, OnAccount
  <2>6. QED
    BY <2>1, <2>4, <2>5
<1>4. CASE ~CreateSucceeds(e) /\ ~CreateResponseLost(e) /\ ~DeleteAssignment(e)
  <2>1. UNCHANGED <<assigned, granted, creator, fault>>
    BY <1>4 DEF Elevate, Reset, account, memory, history,
        BeginElevate, GetFails, GetFindsNoProperty, GetFindsOpen, GetFindsClosed, UpdateToOpen,
        ResolveIdentity, ListFindsAssignment, ListFindsNothing, CreateFails, BeginReset,
        DecideRestore, RestoreGetFails, RestoreGetFindsOriginal, RestoreGetFindsOther, UpdateToOriginal
  <2>2. QED
    BY <2>1, RolesInvFrame
<1>5. QED
  BY <1>1, <1>2, <1>3, <1>4

(* Of any number of elevators on one account, each deletes only what it    *)
(* created, and misses nothing unless one of its calls failed.             *)
THEOREM RolesAreAccountedFor == Spec => []RolesAccountedFor
<1>1. TypeOK /\ RolesInv /\ [Next]_vars => RolesInv'
  <2> SUFFICES ASSUME TypeOK, RolesInv, [Next]_vars
               PROVE  RolesInv'
    OBVIOUS
  <2>1. CASE UNCHANGED vars
    BY <2>1, RolesInvFrame DEF vars, account, memory, history
  <2>2. CASE Next
    BY <2>2, RolesInvInductive DEF Next
  <2>3. QED
    BY <2>1, <2>2
<1>2. RolesInv => RolesAccountedFor
  BY DEF RolesInv
<1>3. QED
  BY <1>1, <1>2, RolesInvInitial, TypeCorrect, PTL DEF Spec

(***************************************************************************)
(* The account owner's promise                                             *)
(***************************************************************************)

(* A switch is at the owner's level or open; what an elevator stored as an *)
(* original is one of these too, even when another elevator had already    *)
(* opened the switch; an Update is only sent for a switch that exists.     *)
EnvelopeInv ==
    /\ \A s \in Switches : live[s] \in {pristine[s], Open}
    /\ \A s \in Switches : live[s] = Nil <=> pristine[s] = Nil
    /\ \A e \in Elevators, s \in Switches :
        /\ orig[e][s] \in {Nil, pristine[s], Open}
        /\ orig[e][s] # Nil => live[s] # Nil
    /\ \A e \in Elevators : pc[e] = "update" => live[sw[e]] # Nil
    /\ \A e \in Elevators :
        pc[e] \in {"restoreGet", "restoreUpdate"} => orig[e][sw[e]] # Nil

(* At first every switch has its owner's level. *)
LEMMA EnvelopeInitial == Init => EnvelopeInv
BY ElevationAssumption DEF Init, EnvelopeInv

(* What a step may do to the switches, seen from the account. *)
Writes(e, level) ==
    /\ live[sw[e]] # Nil
    /\ level \in {Open, pristine[sw[e]]}
    /\ live' = [live EXCEPT ![sw[e]] = level]

(* A step moves at most the switch it works on, and only to open it or to  *)
(* give it back the owner's level.                                         *)
LEMMA StepOnSwitches ==
    ASSUME TypeOK, EnvelopeInv, NEW e \in Elevators, Elevate(e) \/ Reset(e)
    PROVE  /\ pristine' = pristine
           /\ live' = live \/ \E level \in {Open, pristine[sw[e]]} : Writes(e, level)
<1>1. CASE UpdateToOpen(e)
  BY <1>1 DEF UpdateToOpen, Acknowledged, Rejected, ResponseLost, Writes, EnvelopeInv
<1>2. CASE UpdateToOriginal(e)
  <2>1. orig[e][sw[e]] \in {Open, pristine[sw[e]]} /\ live[sw[e]] # Nil
    BY <1>2 DEF UpdateToOriginal, EnvelopeInv, TypeOK
  <2>2. QED
    BY <1>2, <2>1 DEF UpdateToOriginal, Acknowledged, Rejected, ResponseLost, Writes
<1>3. CASE ~UpdateToOpen(e) /\ ~UpdateToOriginal(e)
  BY <1>3 DEF Elevate, Reset, account, memory, history,
      BeginElevate, GetFails, GetFindsNoProperty, GetFindsOpen, GetFindsClosed,
      ResolveIdentity, ListFindsAssignment, ListFindsNothing, CreateSucceeds, CreateFails,
      CreateResponseLost, BeginReset, DeleteAssignment,
      DecideRestore, RestoreGetFails, RestoreGetFindsOriginal, RestoreGetFindsOther
<1>4. QED
  BY <1>1, <1>2, <1>3

(* What a step may do to what the elevators stored as originals. *)
LEMMA StepOnOriginals ==
    ASSUME TypeOK, NEW e \in Elevators, Elevate(e) \/ Reset(e)
    PROVE  \/ orig' = orig
           \/ /\ live[sw[e]] # Nil
              /\ live' = live
              /\ orig' = [orig EXCEPT ![e][sw[e]] = OriginalAfterGet(e)]
<1>1. CASE GetFindsOpen(e)
  BY <1>1, ElevationAssumption DEF GetFindsOpen, account
<1>2. CASE GetFindsClosed(e)
  BY <1>2 DEF GetFindsClosed, account
<1>3. CASE ~GetFindsOpen(e) /\ ~GetFindsClosed(e)
  BY <1>3 DEF Elevate, Reset, account, memory, history,
      BeginElevate, GetFails, GetFindsNoProperty, UpdateToOpen,
      ResolveIdentity, ListFindsAssignment, ListFindsNothing, CreateSucceeds, CreateFails,
      CreateResponseLost, BeginReset, DeleteAssignment, DecideRestore, RestoreGetFails,
      RestoreGetFindsOriginal, RestoreGetFindsOther, UpdateToOriginal
<1>4. QED
  BY <1>1, <1>2, <1>3

(* Which step leads to a call that writes, and what it has checked. *)
LEMMA StepToWrite ==
    ASSUME TypeOK, EnvelopeInv, NEW e \in Elevators, Elevate(e) \/ Reset(e)
    PROVE  /\ \A f \in Elevators \ {e} : pc'[f] = pc[f] /\ sw'[f] = sw[f]
           /\ pc'[e] = "update" => live[sw'[e]] # Nil /\ live' = live
           /\ pc'[e] \in {"restoreGet", "restoreUpdate"} =>
                orig[e][sw'[e]] # Nil /\ orig' = orig
<1>1. CASE Elevate(e)
  <2>1. CASE GetFindsClosed(e)
    BY <2>1 DEF GetFindsClosed, Goto, TypeOK, account
  <2>2. CASE ~GetFindsClosed(e)
    BY <1>1, <2>2 DEF Elevate, TypeOK, NextElevation, Goto,
        BeginElevate, GetFails, GetFindsNoProperty, GetFindsOpen, UpdateToOpen, ResolveIdentity,
        ListFindsAssignment, ListFindsNothing, CreateSucceeds, CreateFails, CreateResponseLost
  <2>3. QED
    BY <2>1, <2>2
<1>2. CASE Reset(e)
  <2>1. CASE DecideRestore(e)
    BY <2>1 DEF DecideRestore, SkipsRestore, NextReset, Goto, TypeOK, memory
  <2>2. CASE RestoreGetFindsOther(e)
    BY <2>2 DEF RestoreGetFindsOther, NextReset, Goto, TypeOK, memory, EnvelopeInv
  <2>3. CASE DeleteAssignment(e)
    BY <2>3 DEF DeleteAssignment, TypeOK
  <2>4. CASE BeginReset(e)
    BY <2>4 DEF BeginReset, TypeOK
  <2>5. CASE RestoreGetFails(e) \/ RestoreGetFindsOriginal(e) \/ UpdateToOriginal(e)
    BY <2>5 DEF RestoreGetFails, RestoreGetFindsOriginal, UpdateToOriginal, NextReset, Goto, TypeOK
  <2>6. QED
    BY <1>2, <2>1, <2>2, <2>3, <2>4, <2>5 DEF Reset
<1>3. QED
  BY <1>1, <1>2

(* Every step keeps the switches, and what is stored of them, in bounds. *)
LEMMA EnvelopeInductive ==
    ASSUME TypeOK, TypeOK', EnvelopeInv, NEW e \in Elevators, Elevate(e) \/ Reset(e)
    PROVE  EnvelopeInv'
<1> USE ElevationAssumption
<1> sw[e] \in Switches
  BY DEF TypeOK
<1>1. \A s \in Switches :
        live'[s] \in {pristine'[s], Open} /\ (live'[s] = Nil <=> pristine'[s] = Nil)
  <2>1. CASE live' = live
    BY <2>1, StepOnSwitches DEF EnvelopeInv
  <2>2. ASSUME NEW level \in {Open, pristine[sw[e]]}, Writes(e, level)
        PROVE  \A s \in Switches :
                 live'[s] \in {pristine'[s], Open} /\ (live'[s] = Nil <=> pristine'[s] = Nil)
    <3>1. pristine' = pristine /\ level # Nil
      BY <2>2, StepOnSwitches DEF Writes, EnvelopeInv
    <3>2. \A s \in Switches : live'[s] = IF s = sw[e] THEN level ELSE live[s]
      BY <2>2 DEF Writes, TypeOK
    <3>3. QED
      BY <2>2, <3>1, <3>2 DEF EnvelopeInv, Writes
  <2>3. QED
    BY <2>1, <2>2, StepOnSwitches
<1>2. \A s \in Switches : live'[s] = Nil <=> live[s] = Nil
  BY <1>1, StepOnSwitches DEF EnvelopeInv
<1>3. \A f \in Elevators, s \in Switches :
        /\ orig'[f][s] \in {Nil, pristine'[s], Open}
        /\ orig'[f][s] # Nil => live'[s] # Nil
  <2>1. CASE orig' = orig
    BY <1>2, <2>1, StepOnSwitches DEF EnvelopeInv
  <2>2. CASE /\ live[sw[e]] # Nil
             /\ orig' = [orig EXCEPT ![e][sw[e]] = OriginalAfterGet(e)]
    BY <1>2, <2>2, StepOnSwitches DEF EnvelopeInv, OriginalAfterGet, TypeOK
  <2>3. QED
    BY <2>1, <2>2, StepOnOriginals
<1>4. \A f \in Elevators : pc'[f] = "update" => live'[sw'[f]] # Nil
  <2>1. ASSUME NEW f \in Elevators \ {e}, pc'[f] = "update"
        PROVE  live'[sw'[f]] # Nil
    <3>1. sw'[f] = sw[f] /\ sw[f] \in Switches /\ live[sw[f]] # Nil
      BY <2>1, StepToWrite DEF EnvelopeInv, TypeOK
    <3>2. QED
      BY <1>2, <3>1
  <2>2. QED
    BY <2>1, StepToWrite
<1>5. \A f \in Elevators : pc'[f] \in {"restoreGet", "restoreUpdate"} => orig'[f][sw'[f]] # Nil
  <2>1. ASSUME NEW f \in Elevators \ {e}, pc'[f] \in {"restoreGet", "restoreUpdate"}
        PROVE  orig'[f][sw'[f]] # Nil
    <3>1. sw'[f] = sw[f] /\ sw[f] \in Switches /\ orig[f][sw[f]] # Nil
      BY <2>1, StepToWrite DEF EnvelopeInv, TypeOK
    <3>2. orig'[f] = orig[f]
      <4>1. CASE orig' = orig
        BY <4>1
      <4>2. CASE orig' = [orig EXCEPT ![e][sw[e]] = OriginalAfterGet(e)]
        BY <4>2 DEF TypeOK
      <4>3. QED
        BY <4>1, <4>2, StepOnOriginals
    <3>3. QED
      BY <3>1, <3>2
  <2>2. QED
    BY <2>1, StepToWrite
<1>6. QED
  BY <1>1, <1>3, <1>4, <1>5 DEF EnvelopeInv
(* A step changes role assignments by granting a free principal an         *)
(* assignment of its own or by deleting one that is not the owner's.       *)
LEMMA StepOnRoles ==
    ASSUME TypeOK, RolesInv, NEW e \in Elevators, Elevate(e) \/ Reset(e)
    PROVE  \/ assigned' = assigned
           \/ live' = live /\ \E p \in Principals : Promise!Grant(p)
           \/ live' = live /\ \E id \in Ids : Promise!Revoke(id)
<1> USE ElevationAssumption
<1>1. CASE CreateSucceeds(e) \/ CreateResponseLost(e)
  <2>1. PICK id \in FreshIds : assigned' = [assigned EXCEPT ![PrincipalOf[e]] = id]
    BY <1>1 DEF CreateSucceeds, CreateResponseLost
  <2>2. assigned[PrincipalOf[e]] = Nil /\ UNCHANGED <<live, pristine>>
    BY <1>1 DEF CreateSucceeds, CreateResponseLost
  <2>3. PrincipalOf[e] \in Principals /\ id \in Ids \ OwnerIds
    BY DEF FreshIds
  <2>4. Promise!Grant(PrincipalOf[e])
    BY <2>1, <2>2, <2>3 DEF Promise!Grant
  <2>5. QED
    BY <2>2, <2>3, <2>4
<1>2. CASE DeleteAssignment(e)
  <2>1. PICK id \in granted[e] : DeleteAssignment(e)!2!(id)
    BY <1>2 DEF DeleteAssignment
  <2>2. id \in Ids /\ id \notin OwnerIds
    BY DEF TypeOK, RolesInv, RolesAccountedFor, Created
  <2>3. UNCHANGED <<live, pristine>>
    BY <1>2 DEF DeleteAssignment
  <2>4. assigned' = assigned \/ Promise!Revoke(id)
    BY <2>1, <2>2, <2>3 DEF Promise!Revoke
  <2>5. QED
    BY <2>2, <2>3, <2>4
<1>3. CASE ~CreateSucceeds(e) /\ ~CreateResponseLost(e) /\ ~DeleteAssignment(e)
  BY <1>3 DEF Elevate, Reset, account, memory, history,
      BeginElevate, GetFails, GetFindsNoProperty, GetFindsOpen, GetFindsClosed, UpdateToOpen,
      ResolveIdentity, ListFindsAssignment, ListFindsNothing, CreateFails, BeginReset,
      DecideRestore, RestoreGetFails, RestoreGetFindsOriginal, RestoreGetFindsOther, UpdateToOriginal
<1>4. QED
  BY <1>1, <1>2, <1>3

(* Every step of an elevator is a step of AccountPromise or leaves what    *)
(* the owner sees as it is.                                                *)
LEMMA StepKeepsPromise ==
    ASSUME TypeOK, RolesInv, EnvelopeInv, NEW e \in Elevators, Elevate(e) \/ Reset(e)
    PROVE  [Promise!Next]_(Promise!promiseVars)
<1>1. CASE assigned' = assigned
  <2>1. CASE live' = live
    BY <1>1, <2>1, StepOnSwitches DEF Promise!promiseVars
  <2>2. ASSUME NEW level \in {Open, pristine[sw[e]]}, Writes(e, level)
        PROVE  Promise!Next
    <3>1. sw[e] \in Switches /\ pristine' = pristine
      BY StepOnSwitches DEF TypeOK
    <3>2. Promise!SetLevel(sw[e])
      BY <1>1, <2>2, <3>1 DEF Promise!SetLevel, Writes
    <3>3. QED
      BY <3>1, <3>2 DEF Promise!Next
  <2>3. QED
    BY <2>1, <2>2, StepOnSwitches
<1>2. CASE \E p \in Principals : Promise!Grant(p)
  BY <1>2 DEF Promise!Next
<1>3. CASE \E id \in Ids : Promise!Revoke(id)
  BY <1>3 DEF Promise!Next
<1>4. QED
  BY <1>1, <1>2, <1>3, StepOnRoles

(* The elevator implements the promise to the owner of the account: for    *)
(* any number of elevators and any outcome of every call, each step is one *)
(* the promise allows.                                                     *)
THEOREM ElevationKeepsPromise == Spec => KeepsAccountPromise
<1>1. Init => Promise!Init
  BY DEF Init, Promise!Init
<1>2. TypeOK /\ TypeOK' /\ EnvelopeInv /\ [Next]_vars => EnvelopeInv'
  <2>1. TypeOK /\ EnvelopeInv /\ UNCHANGED vars => EnvelopeInv'
    BY DEF EnvelopeInv, vars, account, memory, control, history
  <2>2. QED
    BY <2>1, EnvelopeInductive DEF Next
<1>3. TypeOK /\ RolesInv /\ [Next]_vars => RolesInv'
  <2>1. TypeOK /\ RolesInv /\ UNCHANGED vars => RolesInv'
    BY RolesInvFrame DEF vars, account, memory, history
  <2>2. QED
    BY <2>1, RolesInvInductive DEF Next
<1>4. TypeOK /\ RolesInv /\ EnvelopeInv /\ [Next]_vars
        => [Promise!Next]_(Promise!promiseVars)
  <2>1. UNCHANGED vars => UNCHANGED Promise!promiseVars
    BY DEF vars, account, history, Promise!promiseVars
  <2>2. QED
    BY <2>1, StepKeepsPromise DEF Next
<1>5. QED
  BY <1>1, <1>2, <1>3, <1>4, RolesInvInitial, EnvelopeInitial, TypeCorrect, PTL
     DEF Spec, KeepsAccountPromise, Promise!Spec
(***************************************************************************)
(* Reset restores                                                          *)
(***************************************************************************)

(* The switch is back, or marked as unsure. *)
Restored(e, s) == unsure[e][s] \/ live[s] = pristine[s]

(* What holds of the only elevator that has worked on the account.         *)
Solo(e) ==
    /\ \A s \in Switches : orig[e][s] \in {Nil, pristine[s]}
    /\ \A s \in Switches : orig[e][s] = Nil => live[s] = pristine[s] /\ cur[e][s] = Nil
    /\ \A s \in Switches : cur[e][s] \in {Nil, live[s]} \/ unsure[e][s]
    /\ pc[e] = "update" => orig[e][sw[e]] # Nil
    /\ clean[e] => pc[e] \in {"idle", "delete", "restore", "restoreGet", "restoreUpdate"}
    /\ clean[e] /\ pc[e] = "delete" => sw[e] = "networkDefaultAction"
    /\ clean[e] /\ pc[e] \in {"restore", "restoreGet", "restoreUpdate"}
         /\ sw[e] = "publicNetworkAccess" => Restored(e, "networkDefaultAction")
    /\ clean[e] /\ pc[e] = "idle" => \A s \in Switches : Restored(e, s)

(* What holds of an elevator that has not started anything. *)
Untouched(e) ==
    /\ pc[e] = "idle" /\ ~clean[e]
    /\ \A s \in Switches : orig[e][s] = Nil /\ cur[e][s] = Nil

(* The inductive invariant. *)
SoloInv ==
    /\ touched = {} => live = pristine
    /\ \A e \in Elevators \ touched : Untouched(e)
    /\ \A e \in Elevators : touched = {e} => Solo(e)

(* Nobody has touched the account at first. *)
LEMMA SoloInitial == Init => SoloInv
BY DEF Init, SoloInv, Untouched

(* The invariant of a lone elevator gives the property. *)
LEMMA SoloImpliesRestores == SoloInv => ResetRestores
BY DEF SoloInv, Solo, ResetRestores, Alone, JustReset, Restored

(* Losing the response of an Update marks its switch, and no other.       *)
LEMMA LossOfKnown ==
    ASSUME TypeOK, NEW e \in Elevators, NEW level, ResponseLost(e, level), cur[e][sw[e]] # Nil
    PROVE  unsure'[e][sw[e]]
<1>1. (cur[e][sw[e]] # Nil) = TRUE
  OBVIOUS
<1>2. unsure' = [unsure EXCEPT ![e][sw[e]] = TRUE]
  BY <1>1 DEF ResponseLost
<1>3. QED
  BY <1>2 DEF TypeOK

(* Losing the response of an Update leaves the marks of other switches. *)
LEMMA LossElsewhere ==
    ASSUME TypeOK, NEW e \in Elevators, NEW level, ResponseLost(e, level)
    PROVE  \A s \in Switches \ {sw[e]} : unsure'[e][s] = unsure[e][s]
<1> DEFINE known == cur[e][sw[e]] # Nil
<1>1. unsure' = [unsure EXCEPT ![e][sw[e]] = known]
  BY DEF ResponseLost
<1> HIDE DEF known
<1>2. QED
  BY <1>1 DEF TypeOK

(* A step inside an operation keeps what holds of a lone elevator.         *)
LEMMA SoloElevates ==
    ASSUME TypeOK, TypeOK', EnvelopeInv, NEW e \in Elevators, Solo(e), touched = {e},
           Elevate(e), pc[e] # "idle"
    PROVE  Solo(e)'
<1> USE ElevationAssumption
<1> sw[e] \in Switches /\ Open # Nil
  BY DEF TypeOK
<1>0. ~clean[e]
  BY DEF Solo, Elevate, BeginElevate, GetFails, GetFindsNoProperty, GetFindsOpen, GetFindsClosed,
         UpdateToOpen, ResolveIdentity, ListFindsAssignment, ListFindsNothing, CreateSucceeds,
         CreateFails, CreateResponseLost
<1>1. CASE GetFindsOpen(e)
  <2>1. /\ \A s \in Switches : orig'[e][s] = IF s = sw[e] THEN OriginalAfterGet(e) ELSE orig[e][s]
        /\ \A s \in Switches : cur'[e][s] = IF s = sw[e] THEN Open ELSE cur[e][s]
        /\ \A s \in Switches \ {sw[e]} : unsure'[e][s] = unsure[e][s]
        /\ live' = live /\ pristine' = pristine /\ clean' = clean /\ live[sw[e]] = Open
        /\ pc'[e] # "update"
    BY <1>1 DEF GetFindsOpen, Believe, TypeOK, account, NextElevation, Goto
  <2>2. QED
    BY <1>0, <2>1 DEF Solo, OriginalAfterGet
<1>2. CASE GetFindsClosed(e)
  <2>1. /\ \A s \in Switches : orig'[e][s] = IF s = sw[e] THEN OriginalAfterGet(e) ELSE orig[e][s]
        /\ UNCHANGED <<live, cur, unsure, pristine, clean, sw>> /\ live[sw[e]] # Nil
    BY <1>2 DEF GetFindsClosed, TypeOK, account, history, Goto
  <2>2. QED
    BY <1>0, <2>1 DEF Solo, OriginalAfterGet
<1>3. CASE UpdateToOpen(e)
  <2>1. orig[e][sw[e]] # Nil /\ UNCHANGED <<orig, pristine>> /\ pc'[e] # "update"
    BY <1>3 DEF UpdateToOpen, Solo, NextElevation, Goto, TypeOK
  <2>2. CASE Acknowledged(e, Open)
    <3>1. /\ \A s \in Switches : live'[s] = IF s = sw[e] THEN Open ELSE live[s]
          /\ \A s \in Switches : cur'[e][s] = IF s = sw[e] THEN Open ELSE cur[e][s]
          /\ \A s \in Switches \ {sw[e]} : unsure'[e][s] = unsure[e][s]
          /\ clean' = clean
      BY <2>2 DEF Acknowledged, Believe, TypeOK
    <3>2. QED
      BY <1>0, <2>1, <3>1 DEF Solo
  <2>3. CASE Rejected(e)
    BY <1>0, <2>1, <2>3 DEF Rejected, Solo, TypeOK
  <2>4. CASE ResponseLost(e, Open)
    <3>1. /\ \A s \in Switches : live'[s] = IF s = sw[e] THEN Open ELSE live[s]
          /\ ~clean'[e] /\ cur' = cur
      BY <2>4 DEF ResponseLost, TypeOK
    <3>2. \A s \in Switches \ {sw[e]} : unsure'[e][s] = unsure[e][s]
      BY <2>4, LossElsewhere
    <3>3. cur[e][sw[e]] # Nil => unsure'[e][sw[e]]
      BY <2>4, LossOfKnown
    <3>4. QED
      BY <2>1, <3>1, <3>2, <3>3 DEF Solo
  <2>5. QED
    BY <1>3, <2>2, <2>3, <2>4 DEF UpdateToOpen
<1>4. CASE ~GetFindsOpen(e) /\ ~GetFindsClosed(e) /\ ~UpdateToOpen(e)
  <2>1. UNCHANGED <<live, orig, cur, unsure, pristine, clean>> /\ pc'[e] # "update"
    BY <1>4 DEF Elevate, BeginElevate, GetFails, GetFindsNoProperty, ResolveIdentity,
        ListFindsAssignment, ListFindsNothing, CreateSucceeds, CreateFails, CreateResponseLost,
        NextElevation, Goto, account, memory, history, TypeOK
  <2>2. QED
    BY <1>0, <2>1 DEF Solo
<1>5. QED
  BY <1>1, <1>2, <1>3, <1>4

(* A step inside a reset keeps what holds of a lone elevator: a switch the *)
(* reset has passed without a failure is restored or marked as unsure.     *)
LEMMA SoloResets ==
    ASSUME TypeOK, TypeOK', EnvelopeInv, NEW e \in Elevators, Solo(e), touched = {e},
           Reset(e), pc[e] # "idle"
    PROVE  Solo(e)'
<1> USE ElevationAssumption
<1> sw[e] \in Switches /\ orig[e][sw[e]] \in {Nil, pristine[sw[e]]}
  BY DEF TypeOK, Solo
<1>1. CASE DeleteAssignment(e)
  <2>1. /\ UNCHANGED <<live, orig, cur, unsure, pristine, sw>>
        /\ pc[e] = "delete" /\ pc'[e] \in {"delete", "restore"}
        /\ clean'[e] => clean[e]
    BY <1>1 DEF DeleteAssignment, TypeOK
  <2>2. QED
    BY <2>1 DEF Solo
<1>2. CASE DecideRestore(e)
  <2>1. /\ UNCHANGED <<live, orig, cur, unsure, pristine, clean>>
        /\ pc[e] = "restore"
    BY <1>2 DEF DecideRestore, account, memory, history
  <2>2. CASE SkipsRestore(e)
    <3>1. Restored(e, sw[e])
      BY <2>2 DEF SkipsRestore, Solo, Restored
    <3>2. NextReset(e)
      BY <1>2, <2>2 DEF DecideRestore
    <3>3. QED
      BY <2>1, <3>1, <3>2 DEF Solo, Restored, NextReset, Goto, TypeOK, Switches
  <2>3. CASE ~SkipsRestore(e)
    BY <1>2, <2>1, <2>3 DEF DecideRestore, Solo, Restored, Goto, TypeOK
  <2>4. QED
    BY <2>2, <2>3
<1>3. CASE RestoreGetFails(e)
  BY <1>3 DEF RestoreGetFails, Solo, Restored, NextReset, Goto, TypeOK, account, memory
<1>4. CASE RestoreGetFindsOriginal(e)
  <2>1. /\ UNCHANGED <<live, orig, pristine, clean>> /\ live[sw[e]] = orig[e][sw[e]]
        /\ pc[e] = "restoreGet" /\ orig[e][sw[e]] # Nil /\ NextReset(e)
        /\ \A s \in Switches : cur'[e][s] = IF s = sw[e] THEN orig[e][s] ELSE cur[e][s]
    BY <1>4 DEF RestoreGetFindsOriginal, Believe, TypeOK, EnvelopeInv, account
  <2>2. \A s \in Switches \ {sw[e]} : unsure'[e][s] = unsure[e][s]
    BY <1>4 DEF RestoreGetFindsOriginal, Believe, TypeOK
  <2>3. live'[sw[e]] = pristine'[sw[e]]
    BY <2>1
  <2>4. QED
    BY <2>1, <2>2, <2>3 DEF Solo, Restored, NextReset, Goto, TypeOK, Switches
<1>5. CASE RestoreGetFindsOther(e)
  <2>1. live[sw[e]] # Nil
    BY <1>5 DEF RestoreGetFindsOther, EnvelopeInv
  <2>2. UNCHANGED <<live, orig, cur, unsure, pristine, clean, sw>>
        /\ pc[e] = "restoreGet" /\ pc'[e] = "restoreUpdate"
    BY <1>5, <2>1 DEF RestoreGetFindsOther, Goto, TypeOK, account, memory, history
  <2>3. QED
    BY <2>2 DEF Solo, Restored
<1>6. CASE UpdateToOriginal(e)
  <2>1. /\ UNCHANGED <<orig, pristine>> /\ orig[e][sw[e]] = pristine[sw[e]]
        /\ orig[e][sw[e]] # Nil /\ pc[e] = "restoreUpdate" /\ NextReset(e)
    BY <1>6 DEF UpdateToOriginal, EnvelopeInv
  <2>2. CASE Acknowledged(e, orig[e][sw[e]])
    <3>1. /\ \A s \in Switches : live'[s] = IF s = sw[e] THEN pristine[s] ELSE live[s]
          /\ \A s \in Switches : cur'[e][s] = IF s = sw[e] THEN pristine[s] ELSE cur[e][s]
          /\ clean' = clean
      BY <2>1, <2>2 DEF Acknowledged, Believe, TypeOK
    <3>2. \A s \in Switches \ {sw[e]} : unsure'[e][s] = unsure[e][s]
      BY <2>2 DEF Acknowledged, Believe, TypeOK
    <3>3. QED
      BY <2>1, <3>1, <3>2 DEF Solo, Restored, NextReset, Goto, TypeOK, Switches
  <2>3. CASE Rejected(e)
    BY <2>1, <2>3 DEF Rejected, Solo, NextReset, Goto, TypeOK
  <2>4. CASE ResponseLost(e, orig[e][sw[e]])
    <3>1. /\ \A s \in Switches : live'[s] = IF s = sw[e] THEN pristine[s] ELSE live[s]
          /\ ~clean'[e] /\ cur' = cur
      BY <2>1, <2>4 DEF ResponseLost, TypeOK
    <3>2. \A s \in Switches \ {sw[e]} : unsure'[e][s] = unsure[e][s]
      BY <2>4, LossElsewhere
    <3>3. cur[e][sw[e]] # Nil => unsure'[e][sw[e]]
      BY <2>4, LossOfKnown
    <3>4. pc'[e] # "update" /\ clean'[e] = FALSE
      BY <2>1, <3>1 DEF NextReset, Goto, TypeOK
    <3>5. \A s \in Switches : /\ orig'[e][s] \in {Nil, pristine'[s]}
                              /\ orig'[e][s] = Nil => live'[s] = pristine'[s] /\ cur'[e][s] = Nil
      BY <2>1, <3>1 DEF Solo
    <3>6. \A s \in Switches : cur'[e][s] \in {Nil, live'[s]} \/ unsure'[e][s]
      BY <3>1, <3>2, <3>3 DEF Solo
    <3>7. QED
      BY <3>4, <3>5, <3>6 DEF Solo
  <2>5. QED
    BY <1>6, <2>2, <2>3, <2>4 DEF UpdateToOriginal
<1>7. QED
  BY <1>1, <1>2, <1>3, <1>4, <1>5, <1>6 DEF Reset, BeginReset

(* A step of an elevator leaves the others' memory and control alone.      *)
LEMMA StepOnOthers ==
    ASSUME TypeOK, NEW e \in Elevators, Elevate(e) \/ Reset(e),
           NEW f \in Elevators \ {e}, Untouched(f)
    PROVE  Untouched(f)'
<1>1. pc'[f] = pc[f] /\ clean'[f] = clean[f]
  BY DEF Elevate, Reset, TypeOK, NextElevation, NextReset, Goto, history, account, memory,
      Acknowledged, Rejected, ResponseLost,
      BeginElevate, GetFails, GetFindsNoProperty, GetFindsOpen, GetFindsClosed, UpdateToOpen,
      ResolveIdentity, ListFindsAssignment, ListFindsNothing, CreateSucceeds, CreateFails,
      CreateResponseLost, BeginReset, DeleteAssignment, DecideRestore, RestoreGetFails,
      RestoreGetFindsOriginal, RestoreGetFindsOther, UpdateToOriginal
<1>2. orig'[f] = orig[f] /\ cur'[f] = cur[f]
  BY DEF Elevate, Reset, TypeOK, Believe, history, account, memory,
      Acknowledged, Rejected, ResponseLost,
      BeginElevate, GetFails, GetFindsNoProperty, GetFindsOpen, GetFindsClosed, UpdateToOpen,
      ResolveIdentity, ListFindsAssignment, ListFindsNothing, CreateSucceeds, CreateFails,
      CreateResponseLost, BeginReset, DeleteAssignment, DecideRestore, RestoreGetFails,
      RestoreGetFindsOriginal, RestoreGetFindsOther, UpdateToOriginal
<1>3. QED
  BY <1>1, <1>2 DEF Untouched

(* Every step keeps what holds of a lone elevator, and of one untouched. *)
LEMMA SoloInductive ==
    ASSUME TypeOK, TypeOK', EnvelopeInv, SoloInv, NEW e \in Elevators, Elevate(e) \/ Reset(e)
    PROVE  SoloInv'
<1>1. CASE BeginElevate(e) \/ BeginReset(e)
  <2>1. /\ touched' = touched \cup {e}
        /\ UNCHANGED <<live, orig, cur, unsure, pristine>>
        /\ \/ ~clean'[e] /\ pc'[e] = "get"
           \/ /\ pc'[e] \in {"restore", "delete"}
              /\ sw'[e] = "networkDefaultAction"
    BY <1>1 DEF BeginElevate, BeginReset, TypeOK, account, memory
  <2>2. ASSUME touched \subseteq {e}
        PROVE  Solo(e)'
    <3>1. CASE touched = {}
      BY <2>1, <3>1 DEF SoloInv, Untouched, Solo
    <3>2. CASE touched = {e}
      BY <2>1, <3>2 DEF SoloInv, Solo
    <3>3. QED
      BY <2>2, <3>1, <3>2
  <2>3. QED
    BY <2>1, <2>2, StepOnOthers DEF SoloInv
<1>2. CASE ~BeginElevate(e) /\ ~BeginReset(e)
  <2>1. touched' = touched /\ pc[e] # "idle"
    BY <1>2 DEF Elevate, Reset, history,
        GetFails, GetFindsNoProperty, GetFindsOpen, GetFindsClosed, UpdateToOpen,
        ResolveIdentity, ListFindsAssignment, ListFindsNothing, CreateSucceeds, CreateFails,
        CreateResponseLost, DeleteAssignment, DecideRestore, RestoreGetFails,
        RestoreGetFindsOriginal, RestoreGetFindsOther, UpdateToOriginal
  <2>2. e \in touched
    BY <2>1 DEF SoloInv, Untouched
  <2>3. \A f \in Elevators : touched' = {f} => f = e
    BY <2>1, <2>2
  <2>4. QED
    BY <2>1, <2>2, <2>3, StepOnOthers, SoloElevates, SoloResets DEF SoloInv
<1>3. QED
  BY <1>1, <1>2

(* A lone elevator's reset restores the account, whatever failed before.   *)
THEOREM ResetRestoresAccount == Spec => []ResetRestores
<1>1. TypeOK /\ TypeOK' /\ EnvelopeInv /\ [Next]_vars => EnvelopeInv'
  <2>1. TypeOK /\ EnvelopeInv /\ UNCHANGED vars => EnvelopeInv'
    BY DEF EnvelopeInv, vars, account, memory, control, history
  <2>2. QED
    BY <2>1, EnvelopeInductive DEF Next
<1>2. TypeOK /\ TypeOK' /\ EnvelopeInv /\ SoloInv /\ [Next]_vars => SoloInv'
  <2>1. SoloInv /\ UNCHANGED vars => SoloInv'
    BY DEF SoloInv, Solo, Untouched, Restored, vars, account, memory, control, history
  <2>2. QED
    BY <2>1, SoloInductive DEF Next
<1>3. QED
  BY <1>1, <1>2, EnvelopeInitial, SoloInitial, SoloImpliesRestores, TypeCorrect, PTL DEF Spec
=============================================================================
