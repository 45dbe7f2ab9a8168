----------------------- MODULE VpcTestResourceProofs -----------------------
(***************************************************************************)
(* Theorems about VpcTestResource, for any number of jobs, subnets and     *)
(* instances.  Most actions change one instance, the one their job holds;  *)
(* the first part shows that once for every action (HeldSteps, CreateSteps,*)
(* CloudSteps), and the invariants argue about these kinds of step.        *)
(***************************************************************************)
EXTENDS VpcTestResource, FiniteSetTheorems, SequenceTheorems, TLAPS

(* What an instance may be. *)
States == {"none", "pending", "running", "deleting", "gone"}

(* Replacing one element of a sequence of instances. *)
LEMMA Changed ==
    ASSUME NEW s \in Seq(Instance), NEW i \in 1..Len(s), NEW e \in Instance,
           NEW t, t = [s EXCEPT ![i] = e]
    PROVE  /\ t \in Seq(Instance) /\ Len(t) = Len(s)
           /\ t[i] = e /\ \A k \in 1..Len(s) : k # i => t[k] = s[k]
BY ExceptSeq

(* An instance changes its state, and nothing else does. *)
LEMMA StateChanged ==
    ASSUME TypeOK, NEW i \in Ids, NEW state \in States,
           vm' = [vm EXCEPT ![i].state = state]
    PROVE  /\ vm' \in Seq(Instance) /\ Len(vm') = Len(vm) /\ Ids' = Ids
           /\ vm'[i].state = state
           /\ vm'[i].nic = vm[i].nic /\ vm'[i].subnet = vm[i].subnet
           /\ \A k \in Ids : k # i => vm'[k] = vm[k]
<1> DEFINE e == [vm[i] EXCEPT !.state = state]
<1>1. vm[i] \in Instance
  BY DEF TypeOK, Ids
<1>2. e \in Instance /\ e.state = state /\ e.nic = vm[i].nic /\ e.subnet = vm[i].subnet
  BY <1>1 DEF Instance, States
<1>3. vm' = [vm EXCEPT ![i] = e]
  OBVIOUS
<1> HIDE DEF e
<1>4. QED
  <2>1. vm \in Seq(Instance) /\ i \in 1..Len(vm)
    BY DEF TypeOK, Ids
  <2>2. /\ vm' \in Seq(Instance) /\ Len(vm') = Len(vm)
        /\ vm'[i] = e /\ \A k \in 1..Len(vm) : k # i => vm'[k] = vm[k]
    BY <1>2, <1>3, <2>1, Changed
  <2>3. QED
    BY <1>2, <2>2 DEF Ids

(* An instance's NIC appears or is deleted, and nothing else changes. *)
LEMMA NicChanged ==
    ASSUME TypeOK, NEW i \in Ids, NEW nic \in BOOLEAN,
           vm' = [vm EXCEPT ![i].nic = nic]
    PROVE  /\ vm' \in Seq(Instance) /\ Len(vm') = Len(vm) /\ Ids' = Ids
           /\ vm'[i].nic = nic
           /\ vm'[i].state = vm[i].state /\ vm'[i].subnet = vm[i].subnet
           /\ \A k \in Ids : k # i => vm'[k] = vm[k]
<1> DEFINE e == [vm[i] EXCEPT !.nic = nic]
<1>1. vm[i] \in Instance
  BY DEF TypeOK, Ids
<1>2. e \in Instance /\ e.nic = nic /\ e.state = vm[i].state /\ e.subnet = vm[i].subnet
  BY <1>1 DEF Instance
<1>3. vm' = [vm EXCEPT ![i] = e]
  OBVIOUS
<1> HIDE DEF e
<1>4. QED
  <2>1. vm \in Seq(Instance) /\ i \in 1..Len(vm)
    BY DEF TypeOK, Ids
  <2>2. /\ vm' \in Seq(Instance) /\ Len(vm') = Len(vm)
        /\ vm'[i] = e /\ \A k \in 1..Len(vm) : k # i => vm'[k] = vm[k]
    BY <1>2, <1>3, <2>1, Changed
  <2>3. QED
    BY <1>2, <2>2 DEF Ids

(* What there is after an instance was made. *)
LEMMA Made ==
    ASSUME TypeOK, NEW j \in Jobs, NEW state \in States, NEW nic \in BOOLEAN, NEW what \in Tellings,
           pc[j] = "create",
           vm' = Append(vm, [subnet |-> chosen[j], state |-> state, nic |-> nic]),
           told' = Append(told, what)
    PROVE  LET new == Len(vm) + 1 IN
           /\ vm' \in Seq(Instance) /\ Len(vm') = new /\ new \notin Ids /\ Ids' = Ids \cup {new}
           /\ vm'[new].state = state /\ vm'[new].nic = nic
           /\ \A k \in Ids : vm'[k] = vm[k]
           /\ told' \in [Ids' -> Tellings] /\ told'[new] = what
           /\ \A k \in Ids : told'[k] = told[k]
<1> DEFINE e == [subnet |-> chosen[j], state |-> state, nic |-> nic]
<1>1. e \in Instance /\ e.state = state /\ e.nic = nic
  BY DEF TypeOK, Instance, States
<1> HIDE DEF e
<1>2. vm \in Seq(Instance) /\ vm' = Append(vm, e)
  BY DEF TypeOK, e
<1>3. /\ vm' \in Seq(Instance) /\ Len(vm') = Len(vm) + 1 /\ vm'[Len(vm) + 1] = e
      /\ \A k \in 1..Len(vm) : vm'[k] = vm[k]
  BY <1>1, <1>2, AppendProperties
<1>4. Len(vm) \in Nat /\ Ids = 1..Len(vm) /\ Ids' = 1..(Len(vm) + 1)
  BY <1>2, <1>3 DEF Ids
<1>5. told \in Seq(Tellings) /\ Len(told) = Len(vm)
  <2>1. told \in [1..Len(vm) -> Tellings]
    BY <1>4 DEF TypeOK, Tellings
  <2>2. QED
    BY <1>4, <2>1
<1>6. /\ told' \in Seq(Tellings) /\ Len(told') = Len(vm) + 1 /\ told'[Len(vm) + 1] = what
      /\ \A k \in 1..Len(vm) : told'[k] = told[k]
  BY <1>5, AppendProperties
<1>7. told' \in [1..(Len(vm) + 1) -> Tellings]
  BY <1>6, LenProperties
<1>8. QED
  BY <1>1, <1>3, <1>4, <1>6, <1>7

-----------------------------------------------------------------------------
(* What a job does to the instance it holds *)

(* Nothing happens to any other instance, and none is made. *)
Alters(i) ==
    /\ vm' \in Seq(Instance) /\ Len(vm') = Len(vm) /\ Ids' = Ids
    /\ vm'[i].subnet = vm[i].subnet
    /\ vm'[i].nic => provider = "azure"
    /\ \A k \in Ids : k # i => vm'[k] = vm[k]

(* Where a job stands that has an instance. *)
Places == {"nic", "begin", "vm", "created", "checked", "deleting"}

(* Where a job stands. *)
Counters == Places \cup {"idle", "create"}

(* What a report of deletion says of the state of the instance. *)
Reported(what, state) ==
    /\ what = "deleted" => state = "gone"
    /\ what = "requested" => state \in {"deleting", "gone"}

(* How the state of the instance may change by a step of its job. *)
Moves(i) ==
    \/ vm'[i].state = vm[i].state
    \/ vm'[i].state = (IF vm[i].state = "gone" THEN "gone" ELSE "deleting")
    \/ provider = "azure" /\ vm'[i].state = "pending"

(* A step of a job with the instance it holds.  It goes on, or ends with a  *)
(* report; a report of deletion is true, and the NIC left then is known.    *)
HeldStep(j) ==
    /\ pc[j] \in Places
    /\ Alters(inst[j]) /\ Moves(inst[j])
    /\ \/ \E where \in Places :
            /\ Keep(j, where) /\ UNCHANGED nicKept
            /\ where = "vm" => provider = "azure"
            /\ where = "created" /\ provider = "aws" =>
                 /\ pc[j] = "vm" /\ UNCHANGED vm
                 /\ vm[inst[j]].state # "pending" \/ inst[j] \in gaveUp'
       \/ \E what \in Tellings \ {"nothing"} :
            /\ End(j, inst[j], what)
            /\ Reported(what, vm'[inst[j]].state)
            /\ what \in {"deleted", "requested"} => (vm'[inst[j]].nic => inst[j] \in nicKept')
    /\ \/ UNCHANGED passed
       \/ /\ passed' = passed \cup {inst[j]}
          /\ pc[j] = "created" /\ ~HasExternalIp(inst[j]) /\ UNCHANGED vm
    /\ gaveUp' \in {gaveUp, gaveUp \cup {inst[j]}}
    /\ nicKept' \in {nicKept, nicKept \cup {inst[j]}}
    /\ UNCHANGED <<network, chosen, check, killed>>

(* A job past its creation holds an instance. *)
LEMMA Holding ==
    ASSUME TypeOK, NEW j \in Jobs, pc[j] \in Places
    PROVE  inst[j] \in Ids /\ vm[inst[j]] \in Instance /\ inst[j] # 0
           /\ (vm[inst[j]].nic => provider = "azure")
BY DEF TypeOK, Ids, Places

(* A step that leaves the cloud alone. *)
LEMMA Unaltered ==
    ASSUME TypeOK, NEW i \in Ids, UNCHANGED vm
    PROVE  Alters(i) /\ Moves(i)
BY DEF TypeOK, Ids, Alters, Moves

(* An accepted deletion. *)
LEMMA DeletionAlters ==
    ASSUME TypeOK, NEW i \in Ids, DeletionAccepted(i)
    PROVE  /\ Alters(i) /\ Moves(i) /\ vm'[i].nic = vm[i].nic
           /\ vm'[i].state = (IF vm[i].state = "gone" THEN "gone" ELSE "deleting")
<1> DEFINE state == IF vm[i].state = "gone" THEN "gone" ELSE "deleting"
<1>1. state \in States
  BY DEF States
<1>2. vm' = [vm EXCEPT ![i].state = state]
  BY DEF DeletionAccepted
<1> HIDE DEF state
<1>3. /\ vm' \in Seq(Instance) /\ Len(vm') = Len(vm) /\ Ids' = Ids
      /\ vm'[i].state = state
      /\ vm'[i].nic = vm[i].nic /\ vm'[i].subnet = vm[i].subnet
      /\ \A k \in Ids : k # i => vm'[k] = vm[k]
  BY <1>1, <1>2, StateChanged
<1>4. vm[i].nic => provider = "azure"
  BY DEF TypeOK
<1>5. QED
  BY <1>3, <1>4 DEF Alters, Moves, state

(* Azure accepts the creation of a VM. *)
LEMMA PendingAlters ==
    ASSUME TypeOK, NEW i \in Ids, provider = "azure", vm' = [vm EXCEPT ![i].state = "pending"]
    PROVE  Alters(i) /\ Moves(i)
<1>1. "pending" \in States
  BY DEF States
<1>2. QED
  BY <1>1, StateChanged DEF Alters, Moves

(* Azure makes or deletes a NIC. *)
LEMMA NicAlters ==
    ASSUME TypeOK, NEW i \in Ids, provider = "azure", NEW nic \in BOOLEAN,
           vm' = [vm EXCEPT ![i].nic = nic]
    PROVE  Alters(i) /\ Moves(i) /\ vm'[i].nic = nic /\ vm'[i].state = vm[i].state
BY NicChanged DEF Alters, Moves

(* The deletion of a NIC, successful or not, leaves the VM as it is. *)
LEMMA DeleteNICAlters ==
    ASSUME TypeOK, NEW i \in Ids, provider = "azure", AzureDeleteNIC(i)
    PROVE  /\ Alters(i) /\ Moves(i) /\ vm'[i].state = vm[i].state
           /\ vm'[i].nic => i \in nicKept'
           /\ nicKept' \in {nicKept, nicKept \cup {i}}
<1>1. CASE ~Attached(i) /\ vm' = [vm EXCEPT ![i].nic = FALSE] /\ UNCHANGED nicKept
  BY <1>1, NicAlters
<1>2. CASE nicKept' = nicKept \cup {i} /\ UNCHANGED vm
  BY <1>2, Unaltered
<1>3. QED
  BY <1>1, <1>2 DEF AzureDeleteNIC

(* Every step of a job that has an instance is of this kind. *)
LEMMA HeldSteps ==
    ASSUME TypeOK, NEW j \in Jobs,
           \/ WaitForInstanceTerminalOrRunning(j)
           \/ AzureNICReady(j) \/ AzureNICWaitFails(j)
           \/ AzureVMAccepted(j) \/ AzureVMBeginFails(j) \/ AzureVMReady(j) \/ AzureVMWaitFails(j)
           \/ GCPCreateWaits(j)
           \/ CheckExternalIp(j) \/ CheckFails(j)
           \/ DeleteFails(j) \/ AWSDelete(j) \/ AzureDelete(j) \/ GCPDelete(j)
           \/ AWSDeleteWaits(j) \/ AzureDeleted(j) \/ AzureDeleteWaitFails(j) \/ GCPDeleteWaits(j)
    PROVE  HeldStep(j)
<1> DEFINE i == inst[j]
<1> USE DEF Quiet, MayDelete, Reported
<1>0. pc[j] \in Places
  BY DEF WaitForInstanceTerminalOrRunning, AzureNICReady, AzureNICWaitFails, AzureVMAccepted,
     AzureVMBeginFails, AzureVMReady, AzureVMWaitFails, GCPCreateWaits, CheckExternalIp,
     CheckFails, DeleteFails, AWSDelete, AzureDelete, GCPDelete, AWSDeleteWaits, AzureDeleted,
     AzureDeleteWaitFails, GCPDeleteWaits, Places
<1>h. i \in Ids /\ vm[i] \in Instance /\ (vm[i].nic => provider = "azure")
  BY <1>0, Holding
<1>u. UNCHANGED vm => Alters(i) /\ Moves(i)
  BY <1>h, Unaltered
<1>1. CASE WaitForInstanceTerminalOrRunning(j)
  BY <1>0, <1>1, <1>u DEF WaitForInstanceTerminalOrRunning, HeldStep, Places
<1>2. CASE AzureNICReady(j)
  BY <1>0, <1>2, <1>u DEF AzureNICReady, HeldStep, Places
<1>3. CASE AzureNICWaitFails(j)
  <2>1. Alters(i) /\ Moves(i)
    BY <1>3, <1>h, NicAlters DEF AzureNICWaitFails
  <2>2. QED
    BY <1>0, <1>3, <2>1 DEF AzureNICWaitFails, HeldStep, Tellings
<1>4. CASE AzureVMAccepted(j)
  <2>1. Alters(i) /\ Moves(i)
    BY <1>4, <1>h, PendingAlters DEF AzureVMAccepted
  <2>2. QED
    BY <1>0, <1>4, <2>1 DEF AzureVMAccepted, HeldStep, Places
<1>5. CASE AzureVMBeginFails(j)
  <2>1. Alters(i) /\ Moves(i) /\ nicKept' \in {nicKept, nicKept \cup {i}}
    BY <1>5, <1>h, DeleteNICAlters, PendingAlters DEF AzureVMBeginFails
  <2>2. QED
    BY <1>0, <1>5, <2>1 DEF AzureVMBeginFails, HeldStep, Tellings
<1>6. CASE AzureVMReady(j)
  BY <1>0, <1>6, <1>u DEF AzureVMReady, HeldStep, Places
<1>7. CASE AzureVMWaitFails(j)
  <2>1. Alters(i) /\ Moves(i) /\ nicKept' \in {nicKept, nicKept \cup {i}}
    BY <1>7, <1>h, DeleteNICAlters DEF AzureVMWaitFails
  <2>2. QED
    BY <1>0, <1>7, <2>1 DEF AzureVMWaitFails, HeldStep, Tellings
<1>8. CASE GCPCreateWaits(j)
  BY <1>0, <1>8, <1>u DEF GCPCreateWaits, HeldStep, Places, Tellings
<1>9. CASE CheckExternalIp(j)
  BY <1>0, <1>9, <1>u DEF CheckExternalIp, HeldStep, Places, Tellings
<1>10. CASE CheckFails(j)
  BY <1>0, <1>10, <1>u DEF CheckFails, HeldStep, Tellings
<1>11. CASE DeleteFails(j)
  <2>1. Alters(i) /\ Moves(i)
    BY <1>11, <1>h, <1>u, DeletionAlters DEF DeleteFails
  <2>2. QED
    BY <1>0, <1>11, <2>1 DEF DeleteFails, HeldStep, Tellings
<1>d. ASSUME DeletionAccepted(i)
      PROVE  /\ Alters(i) /\ Moves(i) /\ vm'[i].nic = vm[i].nic
             /\ vm'[i].state \in {"deleting", "gone"}
  BY <1>d, <1>h, DeletionAlters
<1>a. ASSUME TakenForAbsent(j)
      PROVE  Alters(i) /\ Moves(i) /\ End(j, i, "absent")
  BY <1>a, <1>d, <1>u DEF TakenForAbsent
<1>12. CASE AWSDelete(j)
  <2>1. CASE TakenForAbsent(j)
    BY <1>0, <1>12, <1>a, <2>1 DEF AWSDelete, HeldStep, Tellings
  <2>2. CASE DeletionAccepted(i) /\ Keep(j, "deleting")
    BY <1>0, <1>12, <1>d, <2>2 DEF AWSDelete, HeldStep, Places
  <2>3. CASE DeletionAccepted(i) /\ End(j, i, "requested")
    <3>1. ~vm'[i].nic
      BY <1>12, <1>h, <1>d, <2>3 DEF AWSDelete
    <3>2. QED
      BY <1>0, <1>12, <1>d, <2>3, <3>1 DEF AWSDelete, HeldStep, Tellings
  <2>4. QED
    BY <1>12, <2>1, <2>2, <2>3 DEF AWSDelete
<1>13. CASE AzureDelete(j)
  <2>1. CASE TakenForAbsent(j)
    BY <1>0, <1>13, <1>a, <2>1 DEF AzureDelete, HeldStep, Tellings
  <2>2. CASE DeletionAccepted(i) /\ Keep(j, "deleting")
    BY <1>0, <1>13, <1>d, <2>2 DEF AzureDelete, HeldStep, Places
  <2>3. QED
    BY <1>13, <2>1, <2>2 DEF AzureDelete
<1>14. CASE GCPDelete(j)
  <2>1. CASE TakenForAbsent(j)
    BY <1>0, <1>14, <1>a, <2>1 DEF GCPDelete, HeldStep, Tellings
  <2>2. CASE DeletionAccepted(i) /\ Keep(j, "deleting")
    BY <1>0, <1>14, <1>d, <2>2 DEF GCPDelete, HeldStep, Places
  <2>3. QED
    BY <1>14, <2>1, <2>2 DEF GCPDelete
<1>15. CASE AWSDeleteWaits(j)
  BY <1>0, <1>15, <1>h, <1>u DEF AWSDeleteWaits, HeldStep, Tellings
<1>16. CASE AzureDeleted(j)
  <2>1. /\ Alters(i) /\ Moves(i) /\ vm'[i].state = vm[i].state
        /\ vm'[i].nic => i \in nicKept'
        /\ nicKept' \in {nicKept, nicKept \cup {i}}
    BY <1>16, <1>h, DeleteNICAlters DEF AzureDeleted
  <2>2. QED
    BY <1>0, <1>16, <2>1 DEF AzureDeleted, HeldStep, Tellings
<1>17. CASE AzureDeleteWaitFails(j)
  BY <1>0, <1>17, <1>u DEF AzureDeleteWaitFails, HeldStep, Tellings
<1>18. CASE GCPDeleteWaits(j)
  BY <1>0, <1>18, <1>h, <1>u DEF GCPDeleteWaits, HeldStep, Tellings
<1>19. QED
  BY <1>1, <1>2, <1>3, <1>4, <1>5, <1>6, <1>7, <1>8, <1>9, <1>10, <1>11, <1>12, <1>13, <1>14,
     <1>15, <1>16, <1>17, <1>18

-----------------------------------------------------------------------------
(* The other kinds of step *)

(* One more instance exists, and what was told of it. *)
Grows(what) ==
    LET new == Len(vm) + 1 IN
    /\ vm' \in Seq(Instance) /\ Len(vm') = new /\ new \notin Ids /\ Ids' = Ids \cup {new}
    /\ vm'[new].nic => provider = "azure"
    /\ provider = "aws" => vm'[new].state = "pending"
    /\ \A k \in Ids : vm'[k] = vm[k]
    /\ told' \in [Ids' -> Tellings] /\ told'[new] = what
    /\ \A k \in Ids : told'[k] = told[k]

(* The instance exists and is held, exists and is lost, or does not exist.  *)
CreateStep(j) ==
    /\ pc[j] = "create"
    /\ \/ /\ Grows("nothing")
          /\ inst' = [inst EXCEPT ![j] = Len(vm) + 1]
          /\ \E where \in {"nic", "vm"} : Goto(j, where)
       \/ Grows("error") /\ Goto(j, "idle") /\ UNCHANGED inst
       \/ UNCHANGED <<vm, told, inst>> /\ Goto(j, "idle")
    /\ UNCHANGED <<network, chosen, check, passed, gaveUp, killed, nicKept>>

(* Every outcome of a create call is of this kind. *)
LEMMA CreateSteps ==
    ASSUME TypeOK, NEW j \in Jobs, AWSCreate(j) \/ AzureCreateNIC(j) \/ GCPCreate(j)
    PROVE  CreateStep(j)
<1> USE DEF Quiet
<1>1. ASSUME NEW state \in States, NEW nic \in BOOLEAN, NEW where \in {"nic", "vm"},
             pc[j] = "create", nic => provider = "azure", provider = "aws" => state = "pending",
             Accepted(j, state, nic, where) \/ Lost(j, state, nic) \/ Rejected(j)
      PROVE  \/ /\ Grows("nothing")
                /\ inst' = [inst EXCEPT ![j] = Len(vm) + 1]
                /\ Goto(j, where)
             \/ Grows("error") /\ Goto(j, "idle") /\ UNCHANGED inst
             \/ UNCHANGED <<vm, told, inst>> /\ Goto(j, "idle")
  <2>1. CASE Accepted(j, state, nic, where)
    <3>1. vm' = Append(vm, [subnet |-> chosen[j], state |-> state, nic |-> nic])
          /\ told' = Append(told, "nothing")
      BY <2>1 DEF Accepted
    <3>2. Grows("nothing")
      BY <1>1, <3>1, Made DEF Tellings, Grows
    <3>3. QED
      BY <2>1, <3>2 DEF Accepted, Grows
  <2>2. CASE Lost(j, state, nic)
    <3>1. vm' = Append(vm, [subnet |-> chosen[j], state |-> state, nic |-> nic])
          /\ told' = Append(told, "error")
      BY <2>2 DEF Lost
    <3>2. Grows("error")
      BY <1>1, <3>1, Made DEF Tellings, Grows
    <3>3. QED
      BY <2>2, <3>2 DEF Lost
  <2>3. CASE Rejected(j)
    BY <2>3 DEF Rejected
  <2>4. QED
    BY <1>1, <2>1, <2>2, <2>3
<1>2. "pending" \in States /\ "none" \in States
  BY DEF States
<1>3. CASE AWSCreate(j)
  BY <1>1, <1>2, <1>3 DEF AWSCreate, CreateStep
<1>4. CASE AzureCreateNIC(j)
  BY <1>1, <1>2, <1>4 DEF AzureCreateNIC, CreateStep
<1>5. CASE GCPCreate(j)
  BY <1>1, <1>2, <1>5 DEF GCPCreate, CreateStep
<1>6. QED
  BY <1>3, <1>4, <1>5

(* What the cloud, or another user of it, does to an instance. *)
CloudStep(i) ==
    /\ Alters(i) /\ vm'[i].nic = vm[i].nic
    /\ \/ vm[i].state = "pending" /\ vm'[i].state = "running"
       \/ vm[i].state \in {"pending", "running", "deleting"} /\ vm'[i].state = "gone"
    /\ UNCHANGED <<network, job, history>>

(* Every step of the cloud is of this kind. *)
LEMMA CloudSteps ==
    ASSUME TypeOK, NEW i \in Ids, Starts(i) \/ Disappears(i) \/ TerminatedByOthers(i)
    PROVE  CloudStep(i)
<1>1. ASSUME NEW state \in States, vm' = [vm EXCEPT ![i].state = state]
      PROVE  Alters(i) /\ vm'[i].nic = vm[i].nic /\ vm'[i].state = state
  <2>1. vm[i].nic => provider = "azure"
    BY DEF TypeOK
  <2>2. QED
    BY <1>1, <2>1, StateChanged DEF Alters
<1>2. "running" \in States /\ "gone" \in States
  BY DEF States
<1>3. CASE Starts(i)
  BY <1>1, <1>2, <1>3 DEF Starts, CloudStep
<1>4. CASE Disappears(i)
  BY <1>1, <1>2, <1>4 DEF Disappears, CloudStep
<1>5. CASE TerminatedByOthers(i)
  BY <1>1, <1>2, <1>5 DEF TerminatedByOthers, CloudStep, Alive
<1>6. QED
  BY <1>3, <1>4, <1>5

(* The kinds of step there are. *)
LEMMA NextKinds ==
    ASSUME TypeOK, [Next]_vars
    PROVE  \/ \E j \in Jobs : SelectPublicSubnetForTest(j) \/ CreateStep(j) \/ HeldStep(j) \/ Killed(j)
           \/ \E i \in Ids : CloudStep(i)
           \/ UNCHANGED vars
<1>1. ASSUME NEW j \in Jobs, Proceeds(j)
      PROVE  CreateStep(j) \/ HeldStep(j)
  BY <1>1, CreateSteps, HeldSteps DEF Proceeds
<1>2. ASSUME NEW j \in Jobs,
             AzureNICWaitFails(j) \/ AzureVMBeginFails(j) \/ AzureVMWaitFails(j)
             \/ CheckFails(j) \/ DeleteFails(j) \/ AzureDeleteWaitFails(j)
      PROVE  HeldStep(j)
  BY <1>2, HeldSteps
<1>3. QED
  BY <1>1, <1>2, CloudSteps DEF Next

-----------------------------------------------------------------------------
(* Type correctness *)

(* The jobs that are about to create. *)
Creating == {k \in Jobs : pc[k] = "create"}

(* Every job that is about to create has room for its instance. *)
RoomToCreate == Len(vm) + Cardinality(Creating) <= MaxInstances

(* The types, with the bound as an inductive invariant needs it. *)
Typed == TypeOK /\ RoomToCreate

(* Creating is finite in every state, whatever the program counters. *)
LEMMA CreatingFinite ==
    /\ IsFiniteSet(Creating) /\ Cardinality(Creating) \in Nat
    /\ Cardinality(Creating') \in Nat
<1>1. IsFiniteSet(Creating) /\ IsFiniteSet(Creating')
  BY ResourceAssumption, FS_Subset DEF Creating
<1>2. QED
  BY <1>1, FS_CardinalityType

(* The initial states have room for every job that is about to create: none. *)
LEMMA InitTyped ==
    ASSUME Init
    PROVE  Typed
<1>1. vm = <<>> /\ told = <<>> /\ Len(vm) = 0
  BY DEF Init
<1>2. TypeOK
  BY <1>1, ResourceAssumption DEF Init, TypeOK, Ids
<1>3. Creating = {}
  BY DEF Init, Creating
<1>4. QED
  BY <1>1, <1>2, <1>3, FS_EmptySet, ResourceAssumption DEF Typed, RoomToCreate

(* Selecting a subnet reserves an instance, creating uses the reservation up. *)
LEMMA RoomKept ==
    ASSUME Typed, [Next]_vars
    PROVE  RoomToCreate'
<1> USE DEF Typed
<1>0. Len(vm) \in Nat /\ MaxInstances \in Nat
  BY ResourceAssumption DEF TypeOK
<1>t. \A k \in Jobs : pc[k] # "create" \/ k \in Creating
  BY DEF Creating
<1>1. ASSUME NEW j \in Jobs, SelectPublicSubnetForTest(j)
      PROVE  RoomToCreate'
  <2>1. Creating' = Creating \cup {j} /\ j \notin Creating
    BY <1>1 DEF SelectPublicSubnetForTest, Creating, TypeOK
  <2>2. Cardinality(Creating') = Cardinality(Creating) + 1
    BY <2>1, CreatingFinite, FS_AddElement
  <2>3. Len(vm) + Cardinality(Creating) < MaxInstances /\ vm' = vm
    BY <1>1 DEF SelectPublicSubnetForTest, Creating
  <2>4. QED
    BY <1>0, <2>2, <2>3, CreatingFinite DEF RoomToCreate
<1>2. ASSUME NEW j \in Jobs, CreateStep(j)
      PROVE  RoomToCreate'
  <2>1. Creating' = Creating \ {j} /\ j \in Creating
    BY <1>2 DEF CreateStep, Creating, TypeOK, Goto
  <2>2. Cardinality(Creating') = Cardinality(Creating) - 1
    BY <2>1, CreatingFinite, FS_RemoveElement
  <2>3. Len(vm') \in {Len(vm), Len(vm) + 1}
    BY <1>2 DEF CreateStep, Grows
  <2>4. QED
    BY <1>0, <2>2, <2>3, CreatingFinite DEF RoomToCreate
<1>3. ASSUME NEW j \in Jobs, HeldStep(j)
      PROVE  RoomToCreate'
  <2>1. Len(vm') = Len(vm)
    BY <1>3 DEF HeldStep, Alters
  <2>2. Creating' = Creating
    BY <1>3 DEF HeldStep, Creating, TypeOK, Keep, End, Goto, Places
  <2>3. QED
    BY <2>1, <2>2 DEF RoomToCreate
<1>4. ASSUME NEW j \in Jobs, Killed(j)
      PROVE  RoomToCreate'
  <2>1. Creating' \subseteq Creating /\ vm' = vm
    BY <1>4 DEF Killed, Creating, TypeOK, Goto
  <2>2. Cardinality(Creating') <= Cardinality(Creating) /\ Cardinality(Creating') \in Nat
    BY <2>1, CreatingFinite, FS_Subset, FS_CardinalityType
  <2>3. QED
    BY <1>0, <2>1, <2>2, CreatingFinite DEF RoomToCreate
<1>5. ASSUME NEW i \in Ids, CloudStep(i)
      PROVE  RoomToCreate'
  BY <1>5 DEF CloudStep, Alters, RoomToCreate, Creating, job
<1>6. CASE UNCHANGED vars
  BY <1>6 DEF vars, RoomToCreate, Creating, job
<1>7. QED
  BY <1>1, <1>2, <1>3, <1>4, <1>5, <1>6, NextKinds

(* Every kind of step keeps the types. *)
LEMMA TypeKept ==
    ASSUME Typed, [Next]_vars
    PROVE  TypeOK'
<1> USE ResourceAssumption DEF Typed, network, job, history
<1>0. Len(vm) \in Nat /\ Len(vm') <= MaxInstances
  <2>1. RoomToCreate'
    BY RoomKept
  <2>2. vm' \in Seq(Instance)
    BY NextKinds DEF SelectPublicSubnetForTest, CreateStep, Grows, HeldStep, Alters, Killed,
       CloudStep, vars, TypeOK
  <2>3. Cardinality(Creating') \in Nat
    BY CreatingFinite
  <2>4. QED
    BY <2>1, <2>2, <2>3 DEF RoomToCreate, TypeOK
<1>j. /\ pc \in [Jobs -> Counters] /\ inst \in [Jobs -> 0..Len(vm)]
      /\ \A k \in Jobs : inst[k] = 0 <=> pc[k] \in {"idle", "create"}
      /\ \A k \in Jobs : pc[k] = "create" => chosen[k] # NoSubnet
  BY DEF TypeOK, Counters, Places
<1>1. ASSUME NEW j \in Jobs, SelectPublicSubnetForTest(j)
      PROVE  TypeOK'
  <2>1. ListPublicSubnets \subseteq Subnets
    BY DEF ListPublicSubnets, TypeOK
  <2>2. /\ chosen' \in [Jobs -> Subnets \cup {NoSubnet}] /\ chosen'[j] # NoSubnet
        /\ \A k \in Jobs : k # j => chosen'[k] = chosen[k]
    BY <1>1, <2>1 DEF SelectPublicSubnetForTest, TypeOK
  <2>3. /\ check' \in [Jobs -> BOOLEAN]
        /\ pc[j] = "idle" /\ pc' = [pc EXCEPT ![j] = "create"]
        /\ UNCHANGED <<network, vm, inst, history>>
    BY <1>1 DEF SelectPublicSubnetForTest, TypeOK
  <2>4. Ids' = Ids
    BY <2>3 DEF Ids
  <2>5. QED
    BY <2>2, <2>3, <2>4 DEF TypeOK
<1>2. ASSUME NEW j \in Jobs, CreateStep(j)
      PROVE  TypeOK'
  <2>1. CASE Grows("nothing") \/ Grows("error")
    <3> DEFINE new == Len(vm) + 1
    <3>0. /\ Len(vm') = new
          /\ \/ inst' = [inst EXCEPT ![j] = new] /\ \E where \in {"nic", "vm"} : pc' = [pc EXCEPT ![j] = where]
             \/ inst' = inst /\ pc' = [pc EXCEPT ![j] = "idle"]
      BY <1>2, <2>1 DEF CreateStep, Grows, Goto
    <3>1. inst' \in [Jobs -> 0..Len(vm')]
      BY <1>0, <1>j, <3>0
    <3>2. \A k \in Jobs : inst'[k] = 0 <=> pc'[k] \in {"idle", "create"}
      <4>1. pc[j] = "create"
        BY <1>2 DEF CreateStep
      <4>2. QED
        BY <1>0, <1>j, <3>0, <4>1
    <3>3. /\ pc' \in [Jobs -> Counters]
          /\ \A k \in Jobs : pc'[k] = "create" => chosen'[k] # NoSubnet
      <4>1. chosen' = chosen
        BY <1>2 DEF CreateStep
      <4>2. QED
        BY <1>j, <3>0, <4>1 DEF Counters, Places
    <3>4. /\ UNCHANGED <<network, chosen, check, passed, gaveUp, killed, nicKept>>
          /\ vm' \in Seq(Instance) /\ told' \in [Ids' -> Tellings] /\ Ids \subseteq Ids'
      BY <1>2, <2>1 DEF CreateStep, Grows
    <3>5. \A i \in Ids' : vm'[i].nic => provider' = "azure"
      <4>1. Ids' = Ids \cup {new} /\ (vm'[new].nic => provider = "azure")
            /\ \A k \in Ids : vm'[k] = vm[k]
        BY <2>1 DEF Grows
      <4>2. \A k \in Ids : vm[k].nic => provider = "azure"
        BY DEF TypeOK
      <4>3. provider' = provider
        BY <3>4
      <4>4. QED
        BY <4>1, <4>2, <4>3
    <3>6. QED
      BY <1>0, <3>1, <3>2, <3>3, <3>4, <3>5 DEF TypeOK, Tellings, Counters, Places
  <2>2. CASE UNCHANGED <<vm, told, inst>> /\ Goto(j, "idle")
    BY <1>2, <2>2 DEF CreateStep, Goto, TypeOK, Ids
  <2>3. QED
    BY <1>2, <2>1, <2>2 DEF CreateStep
<1>3. ASSUME NEW j \in Jobs, HeldStep(j)
      PROVE  TypeOK'
  <2>1. inst[j] \in Ids /\ pc[j] \in Places
    BY <1>3, Holding DEF HeldStep
  <2>2. /\ vm' \in Seq(Instance) /\ Len(vm') = Len(vm) /\ Ids' = Ids
        /\ UNCHANGED <<network, chosen, check, killed>>
    BY <1>3 DEF HeldStep, Alters
  <2>3. \A i \in Ids : vm'[i].nic => provider = "azure"
    BY <1>3 DEF HeldStep, Alters, TypeOK
  <2>4. /\ pc' \in [Jobs -> Counters]
        /\ \A k \in Jobs : pc'[k] = "create" => pc[k] = "create"
        /\ inst' \in [Jobs -> 0..Len(vm)]
        /\ \A k \in Jobs : inst'[k] = 0 <=> pc'[k] \in {"idle", "create"}
    <3>1. \/ inst' = inst /\ \E where \in Places : pc' = [pc EXCEPT ![j] = where]
          \/ inst' = [inst EXCEPT ![j] = 0] /\ pc' = [pc EXCEPT ![j] = "idle"]
      BY <1>3 DEF HeldStep, Keep, End, Goto
    <3>2. QED
      BY <1>0, <1>j, <2>1, <3>1 DEF Places, Counters
  <2>5. told' \in [Ids -> Tellings]
    BY <1>3, <2>1 DEF HeldStep, Keep, End, TypeOK, Tellings
  <2>6. passed' \subseteq Ids /\ gaveUp' \subseteq Ids /\ nicKept' \subseteq Ids
    BY <1>3, <2>1 DEF HeldStep, TypeOK
  <2>7. QED
    BY <1>0, <2>2, <2>3, <2>4, <2>5, <2>6 DEF TypeOK, Tellings, Counters, Places
<1>4. ASSUME NEW j \in Jobs, Killed(j)
      PROVE  TypeOK'
  <2>1. killed' \subseteq Ids /\ UNCHANGED <<network, vm, chosen, check, told, passed, gaveUp, nicKept>>
    <3>1. inst[j] # 0 => inst[j] \in Ids
      BY <1>0, <1>j DEF Ids
    <3>2. QED
      BY <1>4, <3>1 DEF Killed, TypeOK
  <2>2. /\ pc' \in [Jobs -> Counters]
        /\ \A k \in Jobs : pc'[k] = "create" => pc[k] = "create"
        /\ inst' \in [Jobs -> 0..Len(vm)]
        /\ \A k \in Jobs : inst'[k] = 0 <=> pc'[k] \in {"idle", "create"}
    BY <1>0, <1>4, <1>j DEF Killed, Goto, Counters, Places
  <2>3. Ids' = Ids
    BY <2>1 DEF Ids
  <2>4. QED
    BY <2>1, <2>2, <2>3 DEF TypeOK, Counters, Places
<1>5. ASSUME NEW i \in Ids, CloudStep(i)
      PROVE  TypeOK'
  <2>1. /\ vm' \in Seq(Instance) /\ Len(vm') = Len(vm) /\ Ids' = Ids
        /\ UNCHANGED <<network, job, history>>
    BY <1>5 DEF CloudStep, Alters
  <2>2. \A k \in Ids : vm'[k].nic => provider = "azure"
    BY <1>5 DEF CloudStep, Alters, TypeOK
  <2>3. QED
    BY <1>0, <2>1, <2>2 DEF TypeOK
<1>6. CASE UNCHANGED vars
  BY <1>6 DEF vars, TypeOK, Ids
<1>7. QED
  BY <1>1, <1>2, <1>3, <1>4, <1>5, <1>6, NextKinds

(* Every state is well-typed, and no run makes more instances than the bound. *)
LEMMA AlwaysTyped == Spec => []Typed
<1>1. Init => Typed
  BY InitTyped
<1>2. Typed /\ [Next]_vars => Typed'
  BY RoomKept, TypeKept DEF Typed
<1>3. QED
  BY <1>1, <1>2, PTL DEF Spec

(* Type correctness of the test instances. *)
THEOREM TestResourceTypes == Spec => []TypeOK
<1>1. Typed => TypeOK
  BY DEF Typed
<1>2. QED
  BY <1>1, AlwaysTyped, PTL

-----------------------------------------------------------------------------
(* Who holds an instance *)

(* Two jobs never hold the same instance. *)
OneHolder == \A j, k \in Jobs : inst[j] = inst[k] /\ inst[j] # 0 => j = k

(* As long as it is held, nothing has been reported of it. *)
HeldUntold == \A j \in Jobs : inst[j] # 0 => told[inst[j]] = "nothing"

(* Both. *)
Alone == OneHolder /\ HeldUntold

(* What every step needs to know of the types of jobs and reports. *)
LEMMA JobTypes ==
    ASSUME TypeOK
    PROVE  /\ pc \in [Jobs -> Counters] /\ inst \in [Jobs -> 0..Len(vm)] /\ Len(vm) \in Nat
           /\ told \in [Ids -> Tellings]
           /\ \A k \in Jobs : inst[k] = 0 <=> pc[k] \in {"idle", "create"}
           /\ \A k \in Jobs : inst[k] # 0 => inst[k] \in Ids
BY DEF TypeOK, Counters, Places, Tellings, Ids

(* A new instance is held by its maker alone; a report ends the hold. *)
LEMMA AloneKept ==
    ASSUME TypeOK, Alone, [Next]_vars
    PROVE  Alone'
<1>j. /\ pc \in [Jobs -> Counters] /\ inst \in [Jobs -> 0..Len(vm)] /\ Len(vm) \in Nat
      /\ told \in [Ids -> Tellings]
      /\ \A k \in Jobs : inst[k] = 0 <=> pc[k] \in {"idle", "create"}
      /\ \A k \in Jobs : inst[k] # 0 => inst[k] \in Ids
  BY JobTypes
<1>1. ASSUME NEW j \in Jobs, SelectPublicSubnetForTest(j)
      PROVE  Alone'
  BY <1>1 DEF SelectPublicSubnetForTest, Alone, OneHolder, HeldUntold, history
<1>2. ASSUME NEW j \in Jobs, CreateStep(j)
      PROVE  Alone'
  <2> DEFINE new == Len(vm) + 1
  <2>1. CASE Grows("nothing") /\ inst' = [inst EXCEPT ![j] = new]
    <3>1. new \notin Ids /\ told'[new] = "nothing" /\ \A k \in Ids : told'[k] = told[k]
      BY <2>1 DEF Grows
    <3>2. QED
      BY <1>j, <2>1, <3>1 DEF Alone, OneHolder, HeldUntold
  <2>2. CASE Grows("error") /\ UNCHANGED inst
    <3>1. \A k \in Ids : told'[k] = told[k]
      BY <2>2 DEF Grows
    <3>2. QED
      BY <1>j, <2>2, <3>1 DEF Alone, OneHolder, HeldUntold
  <2>3. CASE UNCHANGED <<vm, told, inst>>
    BY <2>3 DEF Alone, OneHolder, HeldUntold
  <2>4. QED
    BY <1>2, <2>1, <2>2, <2>3 DEF CreateStep
<1>3. ASSUME NEW j \in Jobs, HeldStep(j)
      PROVE  Alone'
  <2>1. inst[j] \in Ids /\ inst[j] # 0
    BY <1>3, Holding DEF HeldStep
  <2>2. CASE UNCHANGED <<inst, told>>
    BY <2>2 DEF Alone, OneHolder, HeldUntold
  <2>3. CASE \E what \in Tellings : End(j, inst[j], what)
    BY <1>j, <2>1, <2>3 DEF End, Alone, OneHolder, HeldUntold
  <2>4. QED
    BY <1>3, <2>2, <2>3 DEF HeldStep, Keep
<1>4. ASSUME NEW j \in Jobs, Killed(j)
      PROVE  Alone'
  BY <1>4, <1>j DEF Killed, Alone, OneHolder, HeldUntold
<1>5. ASSUME NEW i \in Ids, CloudStep(i)
      PROVE  Alone'
  BY <1>5 DEF CloudStep, job, history, Alone, OneHolder, HeldUntold
<1>6. CASE UNCHANGED vars
  BY <1>6 DEF vars, job, history, Alone, OneHolder, HeldUntold
<1>7. QED
  BY <1>1, <1>2, <1>3, <1>4, <1>5, <1>6, NextKinds

-----------------------------------------------------------------------------
(* No silent leak *)

(* The reports that tell of a failure, or of one taken for an absence. *)
Failing == Warnings \cup {"absent"}

(* Letting go of an instance leaves a report, a kill or a dying instance. *)
LEMMA NoSilentLeakKept ==
    ASSUME TypeOK, NoSilentLeak, [Next]_vars
    PROVE  NoSilentLeak'
<1> USE DEF Failing, Warnings
<1>j. /\ pc \in [Jobs -> Counters] /\ inst \in [Jobs -> 0..Len(vm)] /\ Len(vm) \in Nat
      /\ told \in [Ids -> Tellings]
      /\ \A k \in Jobs : inst[k] = 0 <=> pc[k] \in {"idle", "create"}
      /\ \A k \in Jobs : inst[k] # 0 => inst[k] \in Ids
  BY JobTypes
<1> SUFFICES ASSUME NEW i \in Ids', Alive(i)', ~Held(i)'
             PROVE  told'[i] \in Failing \/ i \in killed'
  BY DEF NoSilentLeak
<1>o. i \in Ids /\ Alive(i) /\ ~Held(i) => told[i] \in Failing \/ i \in killed
  BY DEF NoSilentLeak
<1>1. ASSUME NEW j \in Jobs, SelectPublicSubnetForTest(j)
      PROVE  told'[i] \in Failing \/ i \in killed'
  BY <1>1, <1>o DEF SelectPublicSubnetForTest, history, Ids, Alive, Held
<1>2. ASSUME NEW j \in Jobs, CreateStep(j)
      PROVE  told'[i] \in Failing \/ i \in killed'
  <2> DEFINE new == Len(vm) + 1
  <2>1. CASE Grows("nothing") /\ inst' = [inst EXCEPT ![j] = new]
    <3>1. inst'[j] = new /\ \A k \in Jobs : k # j => inst'[k] = inst[k]
      BY <1>j, <2>1
    <3>2. i # new
      BY <3>1 DEF Held
    <3>3. i \in Ids /\ vm'[i] = vm[i] /\ told'[i] = told[i]
      BY <2>1, <3>2 DEF Grows
    <3>4. inst[j] = 0
      BY <1>2, <1>j DEF CreateStep
    <3>5. ~Held(i) /\ Alive(i)
      BY <1>j, <3>1, <3>3, <3>4 DEF Held, Alive, Ids
    <3>6. QED
      BY <1>2, <1>o, <3>3, <3>5 DEF CreateStep
  <2>2. CASE Grows("error") /\ UNCHANGED inst
    <3>1. CASE i = new
      BY <2>2, <3>1 DEF Grows
    <3>2. CASE i # new
      BY <1>2, <1>o, <2>2, <3>2 DEF Grows, CreateStep, Held, Alive
    <3>3. QED
      BY <3>1, <3>2
  <2>3. CASE UNCHANGED <<vm, told, inst>>
    BY <1>2, <1>o, <2>3 DEF CreateStep, Ids, Alive, Held
  <2>4. QED
    BY <1>2, <2>1, <2>2, <2>3 DEF CreateStep
<1>3. ASSUME NEW j \in Jobs, HeldStep(j)
      PROVE  told'[i] \in Failing \/ i \in killed'
  <2>1. inst[j] \in Ids /\ Ids' = Ids /\ killed' = killed
    BY <1>3, Holding DEF HeldStep, Alters
  <2>2. CASE i = inst[j]
    <3>1. PICK what \in Tellings \ {"nothing"} :
            /\ End(j, inst[j], what)
            /\ Reported(what, vm'[i].state)
      BY <1>3, <2>2 DEF HeldStep, Keep, Held
    <3>2. what \notin {"deleted", "requested"}
      BY <3>1 DEF Reported, Alive
    <3>3. told'[i] = what
      BY <1>j, <2>1, <2>2, <3>1 DEF End
    <3>4. QED
      BY <3>2, <3>3 DEF Tellings
  <2>3. CASE i # inst[j]
    <3>1. vm'[i] = vm[i] /\ told'[i] = told[i]
      BY <1>3, <1>j, <2>1, <2>3 DEF HeldStep, Alters, Keep, End
    <3>2. \A k \in Jobs : inst[k] = i => inst'[k] = i
      BY <1>3, <1>j, <2>3 DEF HeldStep, Keep, End
    <3>3. QED
      BY <1>o, <2>1, <3>1, <3>2 DEF Alive, Held
  <2>4. QED
    BY <2>2, <2>3
<1>4. ASSUME NEW j \in Jobs, Killed(j)
      PROVE  told'[i] \in Failing \/ i \in killed'
  <2>1. UNCHANGED <<vm, told>> /\ killed' = killed \cup ({inst[j]} \ {0}) /\ i \in Ids /\ Alive(i)
    BY <1>4 DEF Killed, Ids, Alive
  <2>2. i # inst[j] => (\A k \in Jobs : inst[k] = i => inst'[k] = i)
    BY <1>4, <1>j DEF Killed
  <2>3. i # 0
    BY <2>1 DEF Ids
  <2>4. QED
    BY <1>o, <2>1, <2>2, <2>3 DEF Held
<1>5. ASSUME NEW k \in Ids, CloudStep(k)
      PROVE  told'[i] \in Failing \/ i \in killed'
  <2>1. Ids' = Ids /\ (k # i => vm'[i] = vm[i]) /\ (k = i => vm[i].state = "pending" \/ ~Alive(i)')
    BY <1>5 DEF CloudStep, Alters, Alive
  <2>2. QED
    BY <1>5, <1>o, <2>1 DEF CloudStep, job, history, Alive, Held
<1>6. CASE UNCHANGED vars
  BY <1>6, <1>o DEF vars, job, history, Ids, Alive, Held
<1>7. QED
  BY <1>1, <1>2, <1>3, <1>4, <1>5, <1>6, NextKinds

(* An instance that runs, or will, and that no job will come back to has    *)
(* cost somebody an error, a failed assertion or a killed job, or an error  *)
(* of its deletion was taken for its absence.                               *)
THEOREM NothingLeaksSilently == Spec => []NoSilentLeak
<1>1. Init => NoSilentLeak
  BY DEF Init, NoSilentLeak, Ids
<1>2. Typed /\ NoSilentLeak /\ [Next]_vars => NoSilentLeak'
  BY NoSilentLeakKept DEF Typed
<1>3. QED
  BY <1>1, <1>2, AlwaysTyped, PTL DEF Spec

-----------------------------------------------------------------------------
(* NICs *)

(* NicAccountedFor, but also while the NIC is still attached: an instance   *)
(* that is deleted later takes no report with it.                           *)
NicOwned ==
    \A i \in Ids :
        vm[i].nic /\ ~Held(i) => told[i] \in Failing \/ i \in killed \cup nicKept

(* Letting go of a NIC leaves a report, a kill or a known leftover. *)
LEMMA NicOwnedKept ==
    ASSUME TypeOK, NicOwned, [Next]_vars
    PROVE  NicOwned'
<1> USE DEF Failing, Warnings
<1>j. /\ pc \in [Jobs -> Counters] /\ inst \in [Jobs -> 0..Len(vm)] /\ Len(vm) \in Nat
      /\ told \in [Ids -> Tellings]
      /\ \A k \in Jobs : inst[k] = 0 <=> pc[k] \in {"idle", "create"}
      /\ \A k \in Jobs : inst[k] # 0 => inst[k] \in Ids
  BY JobTypes
<1> SUFFICES ASSUME NEW i \in Ids', vm'[i].nic, ~Held(i)'
             PROVE  told'[i] \in Failing \/ i \in killed' \cup nicKept'
  BY DEF NicOwned
<1>o. i \in Ids /\ vm[i].nic /\ ~Held(i) => told[i] \in Failing \/ i \in killed \cup nicKept
  BY DEF NicOwned
<1>1. ASSUME NEW j \in Jobs, SelectPublicSubnetForTest(j)
      PROVE  told'[i] \in Failing \/ i \in killed' \cup nicKept'
  BY <1>1, <1>o DEF SelectPublicSubnetForTest, history, Ids, Held
<1>2. ASSUME NEW j \in Jobs, CreateStep(j)
      PROVE  told'[i] \in Failing \/ i \in killed' \cup nicKept'
  <2> DEFINE new == Len(vm) + 1
  <2>1. CASE Grows("nothing") /\ inst' = [inst EXCEPT ![j] = new]
    <3>1. inst'[j] = new /\ \A k \in Jobs : k # j => inst'[k] = inst[k]
      BY <1>j, <2>1
    <3>2. i # new
      BY <3>1 DEF Held
    <3>3. i \in Ids /\ vm'[i] = vm[i] /\ told'[i] = told[i]
      BY <2>1, <3>2 DEF Grows
    <3>4. inst[j] = 0
      BY <1>2, <1>j DEF CreateStep
    <3>5. ~Held(i) /\ vm[i].nic
      BY <1>j, <3>1, <3>3, <3>4 DEF Held, Ids
    <3>6. QED
      BY <1>2, <1>o, <3>3, <3>5 DEF CreateStep
  <2>2. CASE Grows("error") /\ UNCHANGED inst
    <3>1. CASE i = new
      BY <2>2, <3>1 DEF Grows
    <3>2. CASE i # new
      BY <1>2, <1>o, <2>2, <3>2 DEF Grows, CreateStep, Held
    <3>3. QED
      BY <3>1, <3>2
  <2>3. CASE UNCHANGED <<vm, told, inst>>
    BY <1>2, <1>o, <2>3 DEF CreateStep, Ids, Held
  <2>4. QED
    BY <1>2, <2>1, <2>2, <2>3 DEF CreateStep
<1>3. ASSUME NEW j \in Jobs, HeldStep(j)
      PROVE  told'[i] \in Failing \/ i \in killed' \cup nicKept'
  <2>1. inst[j] \in Ids /\ Ids' = Ids /\ killed' = killed /\ nicKept \subseteq nicKept'
    BY <1>3, Holding DEF HeldStep, Alters
  <2>2. CASE i = inst[j]
    <3>1. PICK what \in Tellings \ {"nothing"} :
            /\ End(j, inst[j], what)
            /\ what \in {"deleted", "requested"} => (vm'[i].nic => i \in nicKept')
      BY <1>3, <2>2 DEF HeldStep, Keep, Held
    <3>2. told'[i] = what
      BY <1>j, <2>1, <2>2, <3>1 DEF End
    <3>3. QED
      BY <3>1, <3>2 DEF Tellings
  <2>3. CASE i # inst[j]
    <3>1. vm'[i] = vm[i] /\ told'[i] = told[i]
      BY <1>3, <1>j, <2>1, <2>3 DEF HeldStep, Alters, Keep, End
    <3>2. \A k \in Jobs : inst[k] = i => inst'[k] = i
      BY <1>3, <1>j, <2>3 DEF HeldStep, Keep, End
    <3>3. QED
      BY <1>o, <2>1, <3>1, <3>2 DEF Held
  <2>4. QED
    BY <2>2, <2>3
<1>4. ASSUME NEW j \in Jobs, Killed(j)
      PROVE  told'[i] \in Failing \/ i \in killed' \cup nicKept'
  <2>1. UNCHANGED <<vm, told, nicKept>> /\ killed' = killed \cup ({inst[j]} \ {0}) /\ i \in Ids
    BY <1>4 DEF Killed, Ids
  <2>2. i # inst[j] => (\A k \in Jobs : inst[k] = i => inst'[k] = i)
    BY <1>4, <1>j DEF Killed
  <2>3. i # 0
    BY <2>1 DEF Ids
  <2>4. QED
    BY <1>o, <2>1, <2>2, <2>3 DEF Held
<1>5. ASSUME NEW k \in Ids, CloudStep(k)
      PROVE  told'[i] \in Failing \/ i \in killed' \cup nicKept'
  <2>1. Ids' = Ids /\ vm'[i].nic = vm[i].nic
    BY <1>5 DEF CloudStep, Alters
  <2>2. QED
    BY <1>5, <1>o, <2>1 DEF CloudStep, job, history, Held
<1>6. CASE UNCHANGED vars
  BY <1>6, <1>o DEF vars, job, history, Ids, Held
<1>7. QED
  BY <1>1, <1>2, <1>3, <1>4, <1>5, <1>6, NextKinds

(* A NIC without a VM has cost somebody an error or a killed job, or is one *)
(* whose deletion failed unheard, or was never tried since an error of the  *)
(* VM's deletion was taken for its absence.                                 *)
THEOREM NicsAreAccountedFor == Spec => []NicAccountedFor
<1>1. Init => NicOwned
  BY DEF Init, NicOwned, Ids
<1>2. Typed /\ NicOwned /\ [Next]_vars => NicOwned'
  BY NicOwnedKept DEF Typed
<1>3. NicOwned => NicAccountedFor
  BY DEF NicOwned, NicAccountedFor, Failing
<1>4. QED
  BY <1>1, <1>2, <1>3, AlwaysTyped, PTL DEF Spec

-----------------------------------------------------------------------------
(* Reports of deletion *)

(* Nothing brings an instance back that was reported deleted: nobody holds it. *)
LEMMA DeletedMeansGoneKept ==
    ASSUME TypeOK, Alone, DeletedMeansGone, [Next]_vars
    PROVE  DeletedMeansGone'
<1>j. /\ pc \in [Jobs -> Counters] /\ inst \in [Jobs -> 0..Len(vm)] /\ Len(vm) \in Nat
      /\ told \in [Ids -> Tellings]
      /\ \A k \in Jobs : inst[k] = 0 <=> pc[k] \in {"idle", "create"}
      /\ \A k \in Jobs : inst[k] # 0 => inst[k] \in Ids
  BY JobTypes
<1> SUFFICES ASSUME NEW i \in Ids'
             PROVE  Reported(told'[i], vm'[i].state)
  BY DEF DeletedMeansGone, Reported
<1>o. i \in Ids => Reported(told[i], vm[i].state)
  BY DEF DeletedMeansGone, Reported
<1>1. ASSUME NEW j \in Jobs, SelectPublicSubnetForTest(j)
      PROVE  Reported(told'[i], vm'[i].state)
  BY <1>1, <1>o DEF SelectPublicSubnetForTest, history, Ids
<1>2. ASSUME NEW j \in Jobs, CreateStep(j)
      PROVE  Reported(told'[i], vm'[i].state)
  <2>1. CASE Grows("nothing") \/ Grows("error")
    <3>1. CASE i = Len(vm) + 1
      BY <2>1, <3>1 DEF Grows, Reported
    <3>2. CASE i # Len(vm) + 1
      <4>1. i \in Ids /\ vm'[i] = vm[i] /\ told'[i] = told[i]
        BY <2>1, <3>2 DEF Grows
      <4>2. QED
        BY <1>o, <4>1
    <3>3. QED
      BY <3>1, <3>2
  <2>2. CASE UNCHANGED <<vm, told>>
    BY <1>o, <2>2 DEF Ids
  <2>3. QED
    BY <1>2, <2>1, <2>2 DEF CreateStep
<1>3. ASSUME NEW j \in Jobs, HeldStep(j)
      PROVE  Reported(told'[i], vm'[i].state)
  <2>1. inst[j] \in Ids /\ Ids' = Ids /\ inst[j] # 0
    BY <1>3, Holding DEF HeldStep, Alters
  <2>2. CASE i = inst[j]
    <3>1. CASE told' = told
      <4>1. told[i] = "nothing"
        BY <2>1, <2>2 DEF Alone, HeldUntold
      <4>2. QED
        BY <3>1, <4>1 DEF Reported
    <3>2. CASE told' # told
      <4>1. PICK what \in Tellings \ {"nothing"} :
              End(j, inst[j], what) /\ Reported(what, vm'[i].state)
        BY <1>3, <2>2, <3>2 DEF HeldStep, Keep
      <4>2. told'[i] = what
        BY <1>j, <2>1, <2>2, <4>1 DEF End
      <4>3. QED
        BY <4>1, <4>2
    <3>3. QED
      BY <3>1, <3>2
  <2>3. CASE i # inst[j]
    BY <1>3, <1>j, <1>o, <2>1, <2>3 DEF HeldStep, Alters, Keep, End
  <2>4. QED
    BY <2>2, <2>3
<1>4. ASSUME NEW j \in Jobs, Killed(j)
      PROVE  Reported(told'[i], vm'[i].state)
  BY <1>4, <1>o DEF Killed, Ids
<1>5. ASSUME NEW k \in Ids, CloudStep(k)
      PROVE  Reported(told'[i], vm'[i].state)
  <2>1. Ids' = Ids /\ told' = told
    BY <1>5 DEF CloudStep, Alters, history
  <2>2. Reported(told[i], vm[i].state)
    BY <1>o, <2>1
  <2>3. QED
    BY <1>5, <2>1, <2>2 DEF CloudStep, Alters, Reported
<1>6. CASE UNCHANGED vars
  BY <1>6, <1>o DEF vars, history, Ids
<1>7. QED
  BY <1>1, <1>2, <1>3, <1>4, <1>5, <1>6, NextKinds

(* An instance reported deleted is gone, and one whose termination was     *)
(* reported as requested is going or gone, when told and ever after.       *)
THEOREM DeletionReportsHold == Spec => []DeletedMeansGone
<1>1. Init => Alone /\ DeletedMeansGone
  BY DEF Init, Alone, OneHolder, HeldUntold, DeletedMeansGone, Ids
<1>2. Typed /\ Alone /\ [Next]_vars => Alone'
  BY AloneKept DEF Typed
<1>3. Typed /\ Alone /\ DeletedMeansGone /\ [Next]_vars => DeletedMeansGone'
  BY DeletedMeansGoneKept DEF Typed
<1>4. QED
  BY <1>1, <1>2, <1>3, AlwaysTyped, PTL DEF Spec

-----------------------------------------------------------------------------
(* The verdict of CN02 *)

(* EC2: an instance waited for is on its way up or gone; one looked at is   *)
(* running or gone, unless the wait was cut short.                          *)
AwsSettles ==
    provider = "aws" => \A j \in Jobs :
        /\ pc[j] = "vm" => vm[inst[j]].state \in {"pending", "running", "gone"}
        /\ pc[j] = "created" => vm[inst[j]].state \in {"running", "gone"} \/ inst[j] \in gaveUp

(* EC2 lets go of "pending" before the job looks, or the wait was cut short. *)
LEMMA AwsSettlesKept ==
    ASSUME TypeOK, Alone, AwsSettles, [Next]_vars
    PROVE  AwsSettles'
<1>j. /\ pc \in [Jobs -> Counters] /\ inst \in [Jobs -> 0..Len(vm)] /\ Len(vm) \in Nat
      /\ told \in [Ids -> Tellings]
      /\ \A k \in Jobs : inst[k] = 0 <=> pc[k] \in {"idle", "create"}
      /\ \A k \in Jobs : inst[k] # 0 => inst[k] \in Ids
  BY JobTypes
<1>n. provider' = provider
  BY NextKinds DEF SelectPublicSubnetForTest, CreateStep, HeldStep, Killed, CloudStep, vars, network
<1> DEFINE Settled(j) ==
        /\ pc[j] = "vm" => vm[inst[j]].state \in {"pending", "running", "gone"}
        /\ pc[j] = "created" => vm[inst[j]].state \in {"running", "gone"} \/ inst[j] \in gaveUp
<1> SUFFICES ASSUME NEW k \in Jobs, provider = "aws"
             PROVE  Settled(k)'
  BY <1>n DEF AwsSettles
<1>o. Settled(k)
  BY DEF AwsSettles
<1>1. ASSUME NEW j \in Jobs, SelectPublicSubnetForTest(j)
      PROVE  Settled(k)'
  BY <1>1, <1>o, <1>j DEF SelectPublicSubnetForTest, history
<1>2. ASSUME NEW j \in Jobs, CreateStep(j)
      PROVE  Settled(k)'
  <2>1. CASE k = j
    BY <1>2, <1>j, <2>1 DEF CreateStep, Grows, Goto
  <2>2. CASE k # j
    <3>1. pc'[k] = pc[k] /\ inst'[k] = inst[k] /\ gaveUp' = gaveUp
      BY <1>2, <1>j, <2>2 DEF CreateStep, Goto
    <3>2. inst[k] \in Ids => vm'[inst[k]] = vm[inst[k]]
      BY <1>2 DEF CreateStep, Grows
    <3>3. QED
      BY <1>o, <1>j, <3>1, <3>2
  <2>3. QED
    BY <2>1, <2>2
<1>3. ASSUME NEW j \in Jobs, HeldStep(j)
      PROVE  Settled(k)'
  <2>1. inst[j] \in Ids /\ inst[j] # 0
    BY <1>3, Holding DEF HeldStep
  <2>2. CASE k = j
    <3>1. CASE pc'[j] = "created"
      <4>1. /\ inst' = inst /\ pc[j] = "vm" /\ UNCHANGED vm
            /\ vm[inst[j]].state # "pending" \/ inst[j] \in gaveUp'
        BY <1>3, <1>j, <3>1 DEF HeldStep, Keep, End, Goto
      <4>2. QED
        BY <1>o, <2>2, <3>1, <4>1
    <3>2. pc'[j] # "vm"
      BY <1>3, <1>j DEF HeldStep, Keep, End, Goto
    <3>3. QED
      BY <2>2, <3>1, <3>2
  <2>3. CASE k # j
    <3>1. pc'[k] = pc[k] /\ inst'[k] = inst[k] /\ gaveUp \subseteq gaveUp'
      BY <1>3, <1>j, <2>3 DEF HeldStep, Keep, End, Goto
    <3>2. inst[k] \in Ids => vm'[inst[k]] = vm[inst[k]]
      BY <1>3, <2>1, <2>3 DEF HeldStep, Alters, Alone, OneHolder
    <3>3. QED
      BY <1>o, <1>j, <3>1, <3>2
  <2>4. QED
    BY <2>2, <2>3
<1>4. ASSUME NEW j \in Jobs, Killed(j)
      PROVE  Settled(k)'
  BY <1>4, <1>o, <1>j DEF Killed, Goto
<1>5. ASSUME NEW i \in Ids, CloudStep(i)
      PROVE  Settled(k)'
  <2>1. pc' = pc /\ inst' = inst /\ gaveUp' = gaveUp
    BY <1>5 DEF CloudStep, job, history
  <2>2. inst[k] \in Ids =>
          \/ vm'[inst[k]] = vm[inst[k]]
          \/ vm'[inst[k]].state \in {"running", "gone"}
    BY <1>5 DEF CloudStep, Alters
  <2>3. QED
    BY <1>o, <1>j, <2>1, <2>2
<1>6. CASE UNCHANGED vars
  BY <1>6, <1>o DEF vars, job, history
<1>7. QED
  BY <1>1, <1>2, <1>3, <1>4, <1>5, <1>6, NextKinds

(* What CN02 concluded stays explained. *)
LEMMA PassedMeansPrivateKept ==
    ASSUME TypeOK, AwsSettles, PassedMeansPrivate, [Next]_vars
    PROVE  PassedMeansPrivate'
<1>n. UNCHANGED <<provider, assigns>>
  BY NextKinds DEF SelectPublicSubnetForTest, CreateStep, HeldStep, Killed, CloudStep, vars, network
<1> SUFFICES ASSUME NEW i \in passed', provider = "aws", vm'[i].subnet \in assigns
             PROVE  i \in gaveUp' \/ vm'[i].state = "gone"
  BY <1>n DEF PassedMeansPrivate
<1>o. i \in passed /\ vm[i].subnet \in assigns => i \in Ids /\ (i \in gaveUp \/ vm[i].state = "gone")
  BY DEF PassedMeansPrivate, TypeOK
<1>p. passed \subseteq Ids
  BY DEF TypeOK
<1>1. ASSUME NEW j \in Jobs, SelectPublicSubnetForTest(j)
      PROVE  i \in gaveUp' \/ vm'[i].state = "gone"
  BY <1>1, <1>o DEF SelectPublicSubnetForTest, history
<1>2. ASSUME NEW j \in Jobs, CreateStep(j)
      PROVE  i \in gaveUp' \/ vm'[i].state = "gone"
  BY <1>2, <1>o, <1>p DEF CreateStep, Grows
<1>3. ASSUME NEW j \in Jobs, HeldStep(j)
      PROVE  i \in gaveUp' \/ vm'[i].state = "gone"
  <2>1. inst[j] \in Ids /\ gaveUp \subseteq gaveUp'
    BY <1>3, Holding DEF HeldStep
  <2>2. CASE i \in passed
    <3>1. vm'[i].subnet = vm[i].subnet
      BY <1>3, <1>p, <2>2 DEF HeldStep, Alters
    <3>2. vm[i].state = "gone" => vm'[i].state = "gone"
      BY <1>3, <1>p, <2>2 DEF HeldStep, Alters, Moves
    <3>3. QED
      BY <1>o, <2>1, <2>2, <3>1, <3>2
  <2>3. CASE i \notin passed
    <3>1. i = inst[j] /\ pc[j] = "created" /\ ~HasExternalIp(i) /\ UNCHANGED vm
      BY <1>3, <2>3 DEF HeldStep
    <3>2. vm[i].state \in {"running", "gone"} \/ i \in gaveUp
      BY <3>1 DEF AwsSettles
    <3>3. QED
      BY <2>1, <3>1, <3>2 DEF HasExternalIp
  <2>4. QED
    BY <2>2, <2>3
<1>4. ASSUME NEW j \in Jobs, Killed(j)
      PROVE  i \in gaveUp' \/ vm'[i].state = "gone"
  BY <1>4, <1>o DEF Killed
<1>5. ASSUME NEW k \in Ids, CloudStep(k)
      PROVE  i \in gaveUp' \/ vm'[i].state = "gone"
  BY <1>5, <1>o, <1>p DEF CloudStep, Alters, history
<1>6. CASE UNCHANGED vars
  BY <1>6, <1>o DEF vars, history
<1>7. QED
  BY <1>1, <1>2, <1>3, <1>4, <1>5, <1>6, NextKinds

(* CN02 passes on a subnet that assigns addresses only after a wait that    *)
(* was cut short, or on an instance that is gone.                           *)
THEOREM PassedMeansPrivateHolds == Spec => []PassedMeansPrivate
<1>1. Init => Alone /\ AwsSettles /\ PassedMeansPrivate
  BY DEF Init, Alone, OneHolder, HeldUntold, AwsSettles, PassedMeansPrivate
<1>2. Typed /\ Alone /\ [Next]_vars => Alone'
  BY AloneKept DEF Typed
<1>3. Typed /\ Alone /\ AwsSettles /\ [Next]_vars => AwsSettles'
  BY AwsSettlesKept DEF Typed
<1>4. Typed /\ AwsSettles /\ PassedMeansPrivate /\ [Next]_vars => PassedMeansPrivate'
  BY PassedMeansPrivateKept DEF Typed
<1>5. QED
  BY <1>1, <1>2, <1>3, <1>4, AlwaysTyped, PTL DEF Spec
=============================================================================
