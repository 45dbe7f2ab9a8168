--------------------------- MODULE VpcTestResource ---------------------------
(***************************************************************************)
(* The short-lived instances of the VPC checks                             *)
(* (modules/cloud-api/vpc/*-vpc-test-resource.go, cn02_shared.go,          *)
(* cn04_shared.go, and the CN02 and CN04 features that call them).         *)
(*                                                                         *)
(* A job selects a public subnet, creates an instance in it, looks whether *)
(* the instance has an external address (CN02) or lets it run for a while  *)
(* (CN04), and deletes it.  Jobs of other runs do the same on the account. *)
(* The cloud starts and deletes instances in its own time.  A call that    *)
(* changes the cloud is accepted, rejected, or accepted while its response *)
(* is lost; a job may be killed between any two calls, and nothing but the *)
(* job's own memory knows the instance it made.                            *)
(***************************************************************************)
EXTENDS Naturals, Sequences, FiniteSets

CONSTANTS
    Providers,    \* the clouds to look at
    Jobs,         \* test processes on one account
    Subnets,      \* subnets of the VPC: numbers, in the order of their ids
    NoSubnet,     \* no subnet
    MaxInstances  \* bound: instances made

ASSUME ResourceAssumption ==
    /\ Providers \subseteq {"aws", "azure", "gcp"}
    /\ Subnets \subseteq Nat
    /\ NoSubnet \notin Subnets
    /\ MaxInstances \in Nat
    /\ IsFiniteSet(Jobs)

VARIABLES
    provider,  \* the cloud under test
    table,     \* AWS: the route table of a subnet's own, or "none"
    main,      \* AWS: the main route table of the VPC
    named,     \* Azure, GCP: the subnets whose name says they are public
    assigns,   \* AWS: the subnets with MapPublicIpOnLaunch
    waits,     \* AWS: CN_TEST_DELETE_WAIT_SECONDS is positive
    vm,        \* the instances made, each with its subnet, state and NIC
    pc,        \* where each job is
    inst,      \* the instance it made, 0 when it has none
    chosen,    \* the subnet it selected
    check,     \* it runs CN02, not CN04
    told,      \* history: what the job was last told of an instance
    passed,    \* history: CN02 found no external address on these instances
    gaveUp,    \* history: the wait for the instance to run was cut short
    killed,    \* history: the job that held the instance was killed
    nicKept    \* history: deleting its NIC failed

network == <<provider, table, main, named, assigns, waits>>
job == <<pc, inst, chosen, check>>
history == <<told, passed, gaveUp, killed, nicKept>>
vars == <<network, vm, job, history>>

Ids == 1..Len(vm)

Instance == [subnet : Subnets, state : {"none", "pending", "running", "deleting", "gone"},
             nic : BOOLEAN]

Alive(i) == vm[i].state \in {"pending", "running"}

Attached(i) == vm[i].state \in {"pending", "running", "deleting"}

(* What a job may have been told of its instance.  Three of them say        *)
(* Deleted: true, each with its own Reason: "deleted", that the cloud was   *)
(* seen to have ended it; "requested", that the termination was asked for;  *)
(* "absent", that an error of a call looked like "not found".               *)
Tellings ==
    {"nothing", "error", "kept", "failed", "deleted", "requested", "absent"}

(* Some job will still come back to the instance. *)
Held(i) == \E j \in Jobs : inst[j] = i

TypeOK ==
    /\ provider \in Providers
    /\ table \in [Subnets -> {"internet", "local", "none"}]
    /\ main \in {"internet", "local"}
    /\ named \subseteq Subnets /\ assigns \subseteq Subnets
    /\ waits \in BOOLEAN
    /\ vm \in Seq(Instance) /\ Len(vm) <= MaxInstances
    /\ \A i \in Ids : vm[i].nic => provider = "azure"
    /\ pc \in [Jobs -> {"idle", "create", "nic", "begin", "vm", "created", "checked", "deleting"}]
    /\ inst \in [Jobs -> 0..Len(vm)]
    /\ \A j \in Jobs : inst[j] = 0 <=> pc[j] \in {"idle", "create"}
    /\ chosen \in [Jobs -> Subnets \cup {NoSubnet}]
    /\ \A j \in Jobs : pc[j] = "create" => chosen[j] # NoSubnet
    /\ check \in [Jobs -> BOOLEAN]
    /\ told \in [Ids -> Tellings]
    /\ passed \subseteq Ids /\ gaveUp \subseteq Ids
    /\ killed \subseteq Ids /\ nicKept \subseteq Ids

Init ==
    /\ provider \in Providers
    /\ table \in [Subnets -> {"internet", "local", "none"}]
    /\ main \in {"internet", "local"}
    /\ named \in SUBSET Subnets /\ assigns \in SUBSET Subnets
    /\ waits \in BOOLEAN
    /\ vm = <<>>
    /\ pc = [j \in Jobs |-> "idle"] /\ inst = [j \in Jobs |-> 0]
    /\ chosen = [j \in Jobs |-> NoSubnet] /\ check = [j \in Jobs |-> FALSE]
    /\ told = <<>> /\ passed = {} /\ gaveUp = {} /\ killed = {} /\ nicKept = {}

-----------------------------------------------------------------------------
(* Selecting a subnet *)

(* A subnet without a route table of its own uses the main one. *)
IsSubnetPublic(s) ==
    IF table[s] = "none" THEN main = "internet" ELSE table[s] = "internet"

ListPublicSubnets ==
    IF provider = "aws" THEN {s \in Subnets : IsSubnetPublic(s)} ELSE named

(* The first of them by id. *)
SelectPublicSubnetForTest(j) ==
    /\ pc[j] = "idle"
    /\ Len(vm) + Cardinality({k \in Jobs : pc[k] = "create"}) < MaxInstances
    /\ \E s \in ListPublicSubnets :
        /\ \A t \in ListPublicSubnets : s <= t
        /\ chosen' = [chosen EXCEPT ![j] = s]
    /\ \E cn02 \in BOOLEAN : check' = [check EXCEPT ![j] = cn02]
    /\ pc' = [pc EXCEPT ![j] = "create"]
    /\ UNCHANGED <<network, vm, inst, history>>

-----------------------------------------------------------------------------
(* How a step of a job ends *)

Goto(j, where) == pc' = [pc EXCEPT ![j] = where]

(* The job goes on with the instance. *)
Keep(j, where) ==
    /\ Goto(j, where)
    /\ UNCHANGED <<inst, told>>

(* Mutant: the ended scenario's instance is taken for the next one's. *)
EndKeepsInstance(j, i, what) ==
    /\ Goto(j, "idle")
    /\ told' = [told EXCEPT ![i] = what]
    /\ UNCHANGED inst

(* The scenario ends, and this is what it was told of its instance i. *)
End(j, i, what) ==
    /\ Goto(j, "idle")
    /\ inst' = [inst EXCEPT ![j] = 0]
    /\ told' = [told EXCEPT ![i] = what]

(* A new instance exists in the cloud, the create call was acknowledged. *)
Accepted(j, state, nic, where) ==
    /\ vm' = Append(vm, [subnet |-> chosen[j], state |-> state, nic |-> nic])
    /\ inst' = [inst EXCEPT ![j] = Len(vm')]
    /\ told' = Append(told, "nothing")
    /\ Goto(j, where)

(* It exists, but all the caller gets is an error. *)
Lost(j, state, nic) ==
    /\ vm' = Append(vm, [subnet |-> chosen[j], state |-> state, nic |-> nic])
    /\ told' = Append(told, "error")
    /\ Goto(j, "idle")
    /\ UNCHANGED inst

Rejected(j) ==
    /\ Goto(j, "idle")
    /\ UNCHANGED <<vm, inst, told>>

Quiet == UNCHANGED <<passed, gaveUp, killed, nicKept>>

(* The cloud refuses to delete a NIC that is attached, and may fail else. *)
AzureDeleteNIC(i) ==
    \/ /\ ~Attached(i)
       /\ vm' = [vm EXCEPT ![i].nic = FALSE]
       /\ UNCHANGED nicKept
    \/ /\ nicKept' = nicKept \cup {i}
       /\ UNCHANGED vm

-----------------------------------------------------------------------------
(* CreateTestResourceInSubnet *)

AWSCreate(j) ==
    /\ provider = "aws" /\ pc[j] = "create"
    /\ \/ Accepted(j, "pending", FALSE, "vm")
       \/ Lost(j, "pending", FALSE)
       \/ Rejected(j)
    /\ UNCHANGED <<network, chosen, check>> /\ Quiet

(* Mutant: pending counts as a stable state. *)
WaitAcceptsPending(j) ==
    /\ provider = "aws" /\ pc[j] = "vm"
    /\ Keep(j, "created")
    /\ UNCHANGED <<network, vm, chosen, check>> /\ Quiet

(* Mutant: the wait knows no terminal state and no deadline. *)
WaitForRunningOnly(j) ==
    /\ provider = "aws" /\ pc[j] = "vm"
    /\ vm[inst[j]].state = "running"
    /\ Keep(j, "created")
    /\ UNCHANGED <<network, vm, chosen, check>> /\ Quiet

(* A stable state, or any error and the deadline: the result is ignored. *)
WaitForInstanceTerminalOrRunning(j) ==
    /\ provider = "aws" /\ pc[j] = "vm"
    /\ \/ vm[inst[j]].state # "pending" /\ UNCHANGED gaveUp
       \/ gaveUp' = gaveUp \cup {inst[j]}
    /\ Keep(j, "created")
    /\ UNCHANGED <<network, vm, chosen, check, passed, killed, nicKept>>

AzureCreateNIC(j) ==
    /\ provider = "azure" /\ pc[j] = "create"
    /\ \/ Accepted(j, "none", TRUE, "nic")
       \/ Lost(j, "none", TRUE)
       \/ Rejected(j)
    /\ UNCHANGED <<network, chosen, check>> /\ Quiet

AzureNICReady(j) ==
    /\ provider = "azure" /\ pc[j] = "nic"
    /\ Keep(j, "begin")
    /\ UNCHANGED <<network, vm, chosen, check>> /\ Quiet

(* The NIC stays, or was never made. *)
AzureNICWaitFails(j) ==
    /\ provider = "azure" /\ pc[j] = "nic"
    /\ \E there \in BOOLEAN : vm' = [vm EXCEPT ![inst[j]].nic = there]
    /\ End(j, inst[j], "error")
    /\ UNCHANGED <<network, chosen, check>> /\ Quiet

AzureVMAccepted(j) ==
    /\ provider = "azure" /\ pc[j] = "begin"
    /\ vm' = [vm EXCEPT ![inst[j]].state = "pending"]
    /\ Keep(j, "vm")
    /\ UNCHANGED <<network, chosen, check>> /\ Quiet

(* Rejected, then the NIC is deleted; or lost, and the NIC is in use. *)
AzureVMBeginFails(j) ==
    LET i == inst[j] IN
    /\ provider = "azure" /\ pc[j] = "begin"
    /\ \/ AzureDeleteNIC(i)
       \/ vm' = [vm EXCEPT ![i].state = "pending"] /\ nicKept' = nicKept \cup {i}
    /\ End(j, i, "error")
    /\ UNCHANGED <<network, chosen, check, passed, gaveUp, killed>>

AzureVMReady(j) ==
    /\ provider = "azure" /\ pc[j] = "vm"
    /\ vm[inst[j]].state = "running"
    /\ Keep(j, "created")
    /\ UNCHANGED <<network, vm, chosen, check>> /\ Quiet

(* The VM may be coming up all the same: its NIC is in use then. *)
AzureVMWaitFails(j) ==
    /\ provider = "azure" /\ pc[j] = "vm"
    /\ AzureDeleteNIC(inst[j])
    /\ End(j, inst[j], "error")
    /\ UNCHANGED <<network, chosen, check, passed, gaveUp, killed>>

GCPCreate(j) ==
    /\ provider = "gcp" /\ pc[j] = "create"
    /\ \/ Accepted(j, "pending", FALSE, "vm")
       \/ Lost(j, "pending", FALSE)
       \/ Rejected(j)
    /\ UNCHANGED <<network, chosen, check>> /\ Quiet

(* gcpWaitZoneOperation: done, or an error of the operation or of a poll, or *)
(* the deadline.                                                             *)
GCPCreateWaits(j) ==
    /\ provider = "gcp" /\ pc[j] = "vm"
    /\ \/ vm[inst[j]].state # "pending" /\ Keep(j, "created")
       \/ End(j, inst[j], "error")
    /\ UNCHANGED <<network, vm, chosen, check>> /\ Quiet

-----------------------------------------------------------------------------
(* GetResourceExternalIpAssignment, and what the CN02 feature does with it *)

(* Only EC2 gives an instance an address by default, once it runs.  The NIC *)
(* and the network interface of the other two are made without one.         *)
HasExternalIp(i) ==
    /\ provider = "aws"
    /\ vm[i].state = "running"
    /\ vm[i].subnet \in assigns

(* A failed assertion, like an error, ends the scenario before its Delete. *)
(* EC2 still describes an instance that is gone.                           *)
CheckExternalIp(j) ==
    /\ pc[j] = "created" /\ check[j]
    /\ provider = "aws" \/ vm[inst[j]].state # "gone"
    /\ IF HasExternalIp(inst[j])
       THEN End(j, inst[j], "failed") /\ UNCHANGED passed
       ELSE Keep(j, "checked") /\ passed' = passed \cup {inst[j]}
    /\ UNCHANGED <<network, vm, chosen, check, gaveUp, killed, nicKept>>

CheckFails(j) ==
    /\ pc[j] = "created" /\ check[j]
    /\ End(j, inst[j], "failed")
    /\ UNCHANGED <<network, vm, chosen, check>> /\ Quiet

-----------------------------------------------------------------------------
(* DeleteTestResource, of the feature or of generateTestTraffic *)

MayDelete(j) ==
    \/ pc[j] = "checked"
    \/ pc[j] = "created" /\ ~check[j]

(* The delete call: nothing to delete, or accepted. *)
DeletionAccepted(i) == vm' = [vm EXCEPT ![i].state = IF @ = "gone" THEN "gone" ELSE "deleting"]

(* The delete call returns any other error, whether it was applied or not. *)
DeleteFails(j) ==
    /\ MayDelete(j)
    /\ UNCHANGED vm \/ DeletionAccepted(inst[j])
    /\ End(j, inst[j], "error")
    /\ UNCHANGED <<network, chosen, check>> /\ Quiet

(* The call, applied or not, comes back with an error that is taken for     *)
(* "not found": by its status, its code or, for Azure and GCP, its text     *)
(* ("not found" is also what a missing command or credential says).  The    *)
(* instance is not looked at: it may be gone, and it may live.              *)
TakenForAbsent(j) ==
    /\ UNCHANGED vm \/ DeletionAccepted(inst[j])
    /\ End(j, inst[j], "absent")

(* Mutant: the termination is not sent when nobody waits for it. *)
TerminationNotSent(j) ==
    /\ provider = "aws" /\ MayDelete(j)
    /\ UNCHANGED vm
    /\ IF waits THEN Keep(j, "deleting") ELSE End(j, inst[j], "requested")
    /\ UNCHANGED <<network, chosen, check>> /\ Quiet

(* Without a time to wait, a requested termination counts as deleted. *)
AWSDelete(j) ==
    /\ provider = "aws" /\ MayDelete(j)
    /\ \/ TakenForAbsent(j)
       \/ /\ DeletionAccepted(inst[j])
          /\ IF waits THEN Keep(j, "deleting") ELSE End(j, inst[j], "requested")
    /\ UNCHANGED <<network, chosen, check>> /\ Quiet

(* Get, then BeginDelete.  The NICs of a VM taken for absent are left. *)
AzureDelete(j) ==
    /\ provider = "azure" /\ MayDelete(j)
    /\ \/ TakenForAbsent(j)
       \/ /\ vm[inst[j]].state # "gone"
          /\ DeletionAccepted(inst[j])
          /\ Keep(j, "deleting")
    /\ UNCHANGED <<network, chosen, check>> /\ Quiet

GCPDelete(j) ==
    /\ provider = "gcp" /\ MayDelete(j)
    /\ \/ TakenForAbsent(j)
       \/ /\ vm[inst[j]].state # "gone"
          /\ DeletionAccepted(inst[j])
          /\ Keep(j, "deleting")
    /\ UNCHANGED <<network, chosen, check>> /\ Quiet

(* Mutant: the result of the wait is ignored. *)
TerminationAssumed(j) ==
    /\ provider = "aws" /\ pc[j] = "deleting"
    /\ End(j, inst[j], "deleted")
    /\ UNCHANGED <<network, vm, chosen, check>> /\ Quiet

(* waitForInstanceTermination: terminated, or an error or the deadline; or  *)
(* an error, or an empty description, that says "not found".                *)
AWSDeleteWaits(j) ==
    /\ provider = "aws" /\ pc[j] = "deleting"
    /\ \/ vm[inst[j]].state = "gone" /\ End(j, inst[j], "deleted")
       \/ End(j, inst[j], "absent")
       \/ End(j, inst[j], "kept")
    /\ UNCHANGED <<network, vm, chosen, check>> /\ Quiet

(* Mutant: the NIC is left to the cloud. *)
NICLeftToTheCloud(j) ==
    /\ provider = "azure" /\ pc[j] = "deleting"
    /\ vm[inst[j]].state = "gone"
    /\ End(j, inst[j], "deleted")
    /\ UNCHANGED <<network, vm, chosen, check>> /\ Quiet

(* The error of the NIC's deletion is dropped. *)
AzureDeleted(j) ==
    /\ provider = "azure" /\ pc[j] = "deleting"
    /\ vm[inst[j]].state = "gone"
    /\ AzureDeleteNIC(inst[j])
    /\ End(j, inst[j], "deleted")
    /\ UNCHANGED <<network, chosen, check, passed, gaveUp, killed>>

(* The NIC is not deleted then. *)
AzureDeleteWaitFails(j) ==
    /\ provider = "azure" /\ pc[j] = "deleting"
    /\ End(j, inst[j], "kept")
    /\ UNCHANGED <<network, vm, chosen, check>> /\ Quiet

GCPDeleteWaits(j) ==
    /\ provider = "gcp" /\ pc[j] = "deleting"
    /\ \/ vm[inst[j]].state = "gone" /\ End(j, inst[j], "deleted")
       \/ End(j, inst[j], "kept")
    /\ UNCHANGED <<network, vm, chosen, check>> /\ Quiet

-----------------------------------------------------------------------------
(* The cloud, and what may happen at any time (external) *)

Starts(i) ==
    /\ vm[i].state = "pending"
    /\ vm' = [vm EXCEPT ![i].state = "running"]
    /\ UNCHANGED <<network, job, history>>

Disappears(i) ==
    /\ vm[i].state = "deleting"
    /\ vm' = [vm EXCEPT ![i].state = "gone"]
    /\ UNCHANGED <<network, job, history>>

(* The account's owner, or a spot market, terminates an instance. *)
TerminatedByOthers(i) ==
    /\ Alive(i)
    /\ vm' = [vm EXCEPT ![i].state = "gone"]
    /\ UNCHANGED <<network, job, history>>

(* The job is cancelled or its runner dies. *)
Killed(j) ==
    /\ pc[j] # "idle"
    /\ Goto(j, "idle")
    /\ inst' = [inst EXCEPT ![j] = 0]
    /\ killed' = killed \cup ({inst[j]} \ {0})
    /\ UNCHANGED <<network, vm, chosen, check, told, passed, gaveUp, nicKept>>

(* What a job does by itself.  Azure's pollers have no deadline: they wait  *)
(* for the cloud, or fail when the VM is gone.                              *)
Proceeds(j) ==
    \/ AWSCreate(j) \/ AzureCreateNIC(j) \/ GCPCreate(j)
    \/ WaitForInstanceTerminalOrRunning(j)
    \/ AzureNICReady(j) \/ AzureVMAccepted(j) \/ AzureVMReady(j)
    \/ pc[j] = "vm" /\ vm[inst[j]].state = "gone" /\ AzureVMWaitFails(j)
    \/ GCPCreateWaits(j)
    \/ CheckExternalIp(j)
    \/ pc[j] = "created" /\ vm[inst[j]].state = "gone" /\ CheckFails(j)
    \/ AWSDelete(j) \/ AzureDelete(j) \/ GCPDelete(j)
    \/ AWSDeleteWaits(j) \/ AzureDeleted(j) \/ GCPDeleteWaits(j)

Next ==
    \/ \E j \in Jobs :
        \/ SelectPublicSubnetForTest(j)
        \/ Proceeds(j)
        \/ AzureNICWaitFails(j) \/ AzureVMBeginFails(j) \/ AzureVMWaitFails(j)
        \/ CheckFails(j)
        \/ DeleteFails(j)
        \/ AzureDeleteWaitFails(j)
        \/ Killed(j)
    \/ \E i \in Ids : Starts(i) \/ Disappears(i) \/ TerminatedByOthers(i)

(* A job goes on unless it is killed; the cloud does what it accepted. *)
Fairness ==
    /\ \A j \in Jobs : WF_vars(Proceeds(j))
    /\ \A i \in 1..MaxInstances :
        WF_vars(i \in Ids /\ (Starts(i) \/ Disappears(i)))

Spec == Init /\ [][Next]_vars /\ Fairness

-----------------------------------------------------------------------------
(* Properties *)

(* What a step reports when it failed for the sake of an instance: an      *)
(* error, a false Deleted, or the failed assertion that kept the feature    *)
(* from its Delete.                                                         *)
Warnings == {"error", "kept", "failed"}

(* A leak is silent in one case only.  An instance that nobody will come    *)
(* back to is being deleted, or a step warned of it, or the job was killed, *)
(* or else its deletion failed with an error that was taken for "not found" *)
(* (azure-vpc-resolve.go:55-65, gcp-vpc-resolve.go:62-71,                   *)
(* aws-vpc-test-resource.go:368-376).                                       *)
NoSilentLeak ==
    \A i \in Ids :
        Alive(i) /\ ~Held(i) => told[i] \in Warnings \cup {"absent"} \/ i \in killed

(* A NIC outlives its VM only where a step warned of it, the job was        *)
(* killed, the deletion of the VM was taken for needless (the NICs of a VM  *)
(* that is absent, or said to be, are not looked for), or the deletion of   *)
(* the NIC, whose error is dropped, failed.                                 *)
NicAccountedFor ==
    \A i \in Ids :
        vm[i].nic /\ ~Attached(i) /\ ~Held(i) =>
            told[i] \in Warnings \cup {"absent"} \/ i \in killed \cup nicKept

(* What a report of deletion is worth when it is made, and ever after: an   *)
(* instance "deleted" is gone, one whose termination was "requested" is     *)
(* going or gone; one that is "absent" may be in any state.                 *)
DeletedMeansGone ==
    \A i \in Ids :
        /\ told[i] = "deleted" => vm[i].state = "gone"
        /\ told[i] = "requested" => vm[i].state \in {"deleting", "gone"}

(* "The instance is terminated before returning" (aws-vpc-cn04.go:4-5):     *)
(* a deletion that was accepted, and is reported as Deleted, is complete.   *)
TerminatedBeforeReturning ==
    \A i \in Ids : told[i] \in {"deleted", "requested"} => vm[i].state = "gone"

(* CN02 passes on a subnet that assigns addresses only if the wait for the  *)
(* instance to run was cut short, or somebody else ended the instance.      *)
PassedMeansPrivate ==
    \A i \in passed :
        provider = "aws" /\ vm[i].subnet \in assigns =>
            i \in gaveUp \/ vm[i].state = "gone"

(* What was reported as deleted, or as on its way out, disappears, even if  *)
(* the job that asked for it is over; nothing is said of the "absent".      *)
DeletedDisappears ==
    \A i \in 1..MaxInstances :
        (i \in Ids /\ told[i] \in {"deleted", "requested"})
            ~> (i \in Ids /\ vm[i].state = "gone")

(* No wait of a job lasts for ever, whatever others do to its instance.     *)
JobsEnd == \A j \in Jobs : pc[j] # "idle" ~> pc[j] = "idle"
=============================================================================
