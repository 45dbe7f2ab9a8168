---------------------------- MODULE ObjectStorage ----------------------------
(***************************************************************************)
(* The object-storage services (modules/cloud-api/object-storage) of AWS,  *)
(* Azure and GCP.  A service object belongs to one identity of one test    *)
(* process; several of them, of one process or of parallel jobs, work on   *)
(* the same buckets.  A service remembers the objects it created and       *)
(* deletes them in TearDown.                                               *)
(*                                                                         *)
(* An action is one operation of a service.  A call that fails before it   *)
(* changes the bucket changes nothing and has no action; one that fails    *)
(* after it did is the operation's second outcome.  Reads change nothing   *)
(* and are operators.                                                      *)
(***************************************************************************)
EXTENDS Naturals, Sequences

CONSTANTS
    Providers,  \* the clouds to look at
    Services,   \* AWSS3Service / AzureBlobService / GCPStorageService objects
    Buckets,    \* bucket names, of fixtures and of buckets the tests create
    Keys,       \* object keys
    Probe,      \* TriggerDataReadProbeObjectKey
    MaxWrites,  \* bound: uploads applied, and calls that return no error
    Owner,      \* whoever filled the buckets before the tests
    Nowhere     \* no bucket

ASSUME StorageAssumption ==
    /\ Providers \subseteq {"aws", "azure", "gcp"}
    /\ Probe \in Keys
    /\ MaxWrites \in Nat
    /\ Owner \notin Services
    /\ Nowhere \notin Buckets

VARIABLES
    provider,    \* the cloud under test
    softDelete,  \* Azure: the account keeps deleted containers
    buckets,     \* the buckets that exist
    mode,        \* of each bucket: plain, versioned or under a retention policy
    locked,      \* the buckets whose retention policy is locked
    objects,     \* the authors of each object's versions, oldest first
    trash,       \* Azure: the contents of soft-deleted containers
    created,     \* createdObjs of each service
    pc,          \* where each service is
    at,          \* the bucket of a TriggerDataRead that found no probe
    stored,      \* history: the uploads that were applied
    owned,       \* history: the owner's objects no test step wrote or deleted
    lost         \* history: the objects of a service whose upload failed after it
                 \* was applied, and those its TearDown missed or never came to

cloud == <<provider, softDelete, locked>>
content == <<buckets, mode, objects, trash>>
harness == <<created, pc, at>>
history == <<stored, owned, lost>>
vars == <<cloud, content, harness, history>>

Object ==
    {o \in [versions : Seq(Services \cup {Owner}), current : BOOLEAN] :
        o.current => o.versions # <<>>}

Missing == [versions |-> <<>>, current |-> FALSE]

OwnersObject == [versions |-> <<Owner>>, current |-> TRUE]

Tracked(s) == {created[s][i] : i \in DOMAIN created[s]}

(* The latest version exists and is s's. *)
Holds(object, s) ==
    /\ object.current
    /\ object.versions[Len(object.versions)] = s

TypeOK ==
    /\ provider \in Providers
    /\ softDelete \in BOOLEAN
    /\ buckets \subseteq Buckets
    /\ mode \in [Buckets -> {"plain", "versioned", "retained"}]
    /\ locked \subseteq Buckets
    /\ objects \in [Buckets -> [Keys -> Object]]
    /\ trash \in [Buckets -> SUBSET [Keys -> Object]]
    /\ created \in [Services -> Seq(Buckets \X Keys)]
    /\ pc \in [Services -> {"idle", "probe", "tearing", "done"}]
    /\ at \in [Services -> Buckets \cup {Nowhere}]
    /\ \A s \in Services : pc[s] = "probe" => at[s] # Nowhere
    /\ stored \in 0..MaxWrites
    /\ owned \subseteq Buckets \X Keys
    /\ lost \in [Services -> SUBSET (Buckets \X Keys)]

(* S3 has no policy that refuses a new version: its buckets are versioned. *)
Init ==
    /\ provider \in Providers
    /\ softDelete \in {FALSE, provider = "azure"}
    /\ buckets \in SUBSET Buckets
    /\ mode \in [Buckets -> {"plain", "versioned", "retained"}]
    /\ \A b \in Buckets :
        /\ b \notin buckets => mode[b] # "retained"
        /\ provider = "aws" => mode[b] # "retained"
    /\ locked \in SUBSET {b \in buckets : mode[b] = "retained"}
    /\ owned \in SUBSET (buckets \X Keys)
    /\ objects = [b \in Buckets |-> [k \in Keys |->
                    IF <<b, k>> \in owned THEN OwnersObject ELSE Missing]]
    /\ trash = [b \in Buckets |-> {}]
    /\ created = [s \in Services |-> <<>>]
    /\ pc = [s \in Services |-> "idle"]
    /\ at = [s \in Services |-> Nowhere]
    /\ stored = 0
    /\ lost = [s \in Services |-> {}]

-----------------------------------------------------------------------------
(* What the storage service does with an object (external).                *)

(* A retention policy refuses to overwrite or delete what is there. *)
Protected(b, k) == mode[b] = "retained" /\ objects[b][k].current

Written(b, k, s) ==
    [versions |-> IF mode[b] = "versioned"
                  THEN Append(objects[b][k].versions, s) ELSE <<s>>,
     current |-> TRUE]

Removed(b, k) ==
    [versions |-> IF mode[b] = "versioned" THEN objects[b][k].versions ELSE <<>>,
     current |-> FALSE]

CanDelete(b, k) == b \in buckets /\ objects[b][k].current /\ ~Protected(b, k)

Delete(b, k) ==
    /\ CanDelete(b, k)
    /\ objects' = [objects EXCEPT ![b][k] = Removed(b, k)]

-----------------------------------------------------------------------------
(* CreateObject.  Only an upload that is acknowledged, and on GCP followed *)
(* by a successful read of the attributes, is tracked for TearDown.        *)

Store(s, b, k) ==
    /\ stored < MaxWrites
    /\ b \in buckets
    /\ ~Protected(b, k)
    /\ stored' = stored + 1
    /\ objects' = [objects EXCEPT ![b][k] = Written(b, k, s)]
    /\ owned' = owned \ {<<b, k>>}
    /\ UNCHANGED <<cloud, buckets, mode, trash>>

Track(s, entry) == created' = [created EXCEPT ![s] = Append(@, entry)]

(* Mutant: the key is tracked without its bucket. *)
TracksKeyOnly(s, b, k) ==
    /\ Store(s, b, k)
    /\ Track(s, k)
    /\ UNCHANGED lost

(* Mutant: only objects that were not there before are tracked. *)
TracksNewOnly(s, b, k) ==
    /\ Store(s, b, k)
    /\ IF objects[b][k].current THEN UNCHANGED created ELSE Track(s, <<b, k>>)
    /\ UNCHANGED lost

UploadAcknowledged(s, b, k) ==
    /\ Store(s, b, k)
    /\ Track(s, <<b, k>>)
    /\ UNCHANGED lost

UploadFailsAfterwards(s, b, k) ==
    /\ Store(s, b, k)
    /\ lost' = [lost EXCEPT ![s] = @ \cup {<<b, k>>}]
    /\ UNCHANGED created

(* Mutant: the object that was there is tracked as if it had been created. *)
ReturnsExistingTracked(s, b, k) ==
    /\ b \in buckets
    /\ Protected(b, k)
    /\ Track(s, <<b, k>>)
    /\ UNCHANGED <<cloud, content, history>>

(* Azure and GCP: an upload refused by a retention policy returns the      *)
(* object that is there, untracked and without an error.                   *)
ReturnsExisting(s, b, k) ==
    /\ b \in buckets
    /\ Protected(b, k)
    /\ UNCHANGED <<cloud, content, created, history>>

CreateObjectAws(s, b, k) ==
    /\ provider = "aws"
    /\ UploadAcknowledged(s, b, k) \/ UploadFailsAfterwards(s, b, k)

CreateObjectAzure(s, b, k) ==
    /\ provider = "azure"
    /\ \/ UploadAcknowledged(s, b, k)
       \/ UploadFailsAfterwards(s, b, k)
       \/ ReturnsExisting(s, b, k)

CreateObjectGcp(s, b, k) ==
    /\ provider = "gcp"
    /\ \/ UploadAcknowledged(s, b, k)
       \/ UploadFailsAfterwards(s, b, k)
       \/ ReturnsExisting(s, b, k)

Create(s, b, k) ==
    CreateObjectAws(s, b, k) \/ CreateObjectAzure(s, b, k) \/ CreateObjectGcp(s, b, k)

(* A test step, or TriggerDataWrite: on the probe key for AWS, on a key of *)
(* its own for Azure and GCP.                                              *)
CreateObject(s, b, k) ==
    /\ pc[s] = "idle"
    /\ Create(s, b, k)
    /\ UNCHANGED <<pc, at>>

(* TriggerDataRead: a read that finds no probe creates it before it reads  *)
(* again; a read that fails for another reason is returned.                *)
ProbeNotFound(s, b) ==
    /\ pc[s] = "idle"
    /\ b \in buckets
    /\ ~objects[b][Probe].current
    /\ pc' = [pc EXCEPT ![s] = "probe"]
    /\ at' = [at EXCEPT ![s] = b]
    /\ UNCHANGED <<cloud, content, created, history>>

ProbeEnds(s) ==
    /\ pc' = [pc EXCEPT ![s] = "idle"]
    /\ at' = [at EXCEPT ![s] = Nowhere]

ProbeCreated(s) ==
    /\ pc[s] = "probe"
    /\ Create(s, at[s], Probe)
    /\ ProbeEnds(s)

ProbeNotCreated(s) ==
    /\ pc[s] = "probe"
    /\ ProbeEnds(s)
    /\ UNCHANGED <<cloud, content, created, history>>

DeleteObject(s, b, k) ==
    /\ pc[s] = "idle"
    /\ Delete(b, k)
    /\ owned' = owned \ {<<b, k>>}
    /\ UNCHANGED <<cloud, buckets, mode, trash, harness, stored, lost>>

-----------------------------------------------------------------------------
(* Buckets.  CreateBucket of a bucket that exists changes nothing; a new   *)
(* one has no retention policy.                                            *)

CreateBucket(s, b) ==
    /\ pc[s] = "idle"
    /\ b \notin buckets
    /\ buckets' = buckets \cup {b}
    /\ mode' = [mode EXCEPT ![b] = IF @ = "retained" THEN "plain" ELSE @]
    /\ objects' = [objects EXCEPT ![b] = [k \in Keys |-> Missing]]
    /\ UNCHANGED <<cloud, trash, harness, history>>

Empty(contents) == \A k \in Keys : contents[k].versions = <<>>

AsksToDelete(b) ==
    /\ owned' = owned \ ({b} \X Keys)
    /\ UNCHANGED <<cloud, mode, harness, stored, lost>>

(* S3: emptyBucket deletes the current objects one by one and may fail     *)
(* after some of them; DeleteBucket then fails unless no version is left.  *)
DeleteBucketAws(s, b) ==
    /\ provider = "aws"
    /\ pc[s] = "idle"
    /\ b \in buckets
    /\ \E emptied \in SUBSET {k \in Keys : objects[b][k].current} :
        LET rest == [k \in Keys |->
                        IF k \in emptied THEN Removed(b, k) ELSE objects[b][k]]
        IN  /\ objects' = [objects EXCEPT ![b] = rest]
            /\ \/ Empty(rest) /\ buckets' = buckets \ {b}
               \/ UNCHANGED buckets
    /\ UNCHANGED trash
    /\ AsksToDelete(b)

(* A container under a retention policy can only be deleted when empty. *)
DeleteBucketAzure(s, b) ==
    /\ provider = "azure"
    /\ pc[s] = "idle"
    /\ b \in buckets
    /\ mode[b] = "retained" => Empty(objects[b])
    /\ buckets' = buckets \ {b}
    /\ trash' = IF softDelete THEN [trash EXCEPT ![b] = @ \cup {objects[b]}] ELSE trash
    /\ objects' = [objects EXCEPT ![b] = [k \in Keys |-> Missing]]
    /\ AsksToDelete(b)

DeleteBucketGcp(s, b) ==
    /\ provider = "gcp"
    /\ pc[s] = "idle"
    /\ b \in buckets
    /\ Empty(objects[b])
    /\ buckets' = buckets \ {b}
    /\ UNCHANGED <<objects, trash>>
    /\ AsksToDelete(b)

(* Azure: one of the deleted containers of that name comes back, with what *)
(* it held, also what a TearDown did not find because it was deleted.      *)
RestoreBucket(s, b) ==
    /\ pc[s] = "idle"
    /\ b \notin buckets
    /\ \E snapshot \in trash[b] :
        /\ objects' = [objects EXCEPT ![b] = snapshot]
        /\ trash' = [trash EXCEPT ![b] = @ \ {snapshot}]
        /\ lost' = [x \in Services |->
                      lost[x] \cup ({<<b, k>> : k \in {i \in Keys : Holds(snapshot[i], x)}}
                                     \ Tracked(x))]
    /\ buckets' = buckets \cup {b}
    /\ UNCHANGED <<cloud, mode, harness, stored, owned>>

(* Azure accepts a period of at least one day, GCP also removes the policy; *)
(* neither changes a locked one.                                            *)
SetBucketRetentionDurationDays(s, b) ==
    /\ pc[s] = "idle"
    /\ b \in buckets \ locked
    /\ \/ provider \in {"azure", "gcp"} /\ mode[b] = "plain" /\ mode' = [mode EXCEPT ![b] = "retained"]
       \/ provider = "gcp" /\ mode[b] = "retained" /\ mode' = [mode EXCEPT ![b] = "plain"]
    /\ UNCHANGED <<cloud, buckets, objects, trash, harness, history>>

-----------------------------------------------------------------------------
(* TearDown copies and clears createdObjs under the lock and deletes them  *)
(* one by one, printing what fails.  The service does nothing else then,   *)
(* so the copy is what is left of created.                                 *)

TearDown(s) ==
    /\ pc[s] = "idle"
    /\ pc' = [pc EXCEPT ![s] = "tearing"]
    /\ UNCHANGED <<cloud, content, created, at, history>>

Untrack(s) == created' = [created EXCEPT ![s] = Tail(@)]

TearDownDeletes(s) ==
    /\ pc[s] = "tearing"
    /\ created[s] # <<>>
    /\ Delete(Head(created[s])[1], Head(created[s])[2])
    /\ Untrack(s)
    /\ UNCHANGED <<cloud, buckets, mode, trash, pc, at, history>>

(* S3 reports no error for an object or bucket that is not there. *)
TearDownFindsNothing(s) ==
    /\ pc[s] = "tearing"
    /\ created[s] # <<>>
    /\ provider = "aws"
    /\ \/ Head(created[s])[1] \notin buckets
       \/ ~objects[Head(created[s])[1]][Head(created[s])[2]].current
    /\ Untrack(s)
    /\ UNCHANGED <<cloud, content, pc, at, history>>

(* Mutant: the loop ends at the first deletion that fails. *)
TearDownGivesUp(s) ==
    /\ pc[s] = "tearing"
    /\ created[s] # <<>>
    /\ lost' = [lost EXCEPT ![s] = @ \cup {Head(created[s])}]
    /\ created' = [created EXCEPT ![s] = <<>>]
    /\ UNCHANGED <<cloud, content, pc, at, stored, owned>>

TearDownFails(s) ==
    /\ pc[s] = "tearing"
    /\ created[s] # <<>>
    /\ lost' = [lost EXCEPT ![s] = @ \cup {Head(created[s])}]
    /\ Untrack(s)
    /\ UNCHANGED <<cloud, content, pc, at, stored, owned>>

TearDownEnds(s) ==
    /\ pc[s] = "tearing"
    /\ created[s] = <<>>
    /\ pc' = [pc EXCEPT ![s] = "done"]
    /\ UNCHANGED <<cloud, content, created, at, history>>

(* log.Fatalf in the runner, or a killed job: deferred calls do not run. *)
Abandon(s) ==
    /\ pc[s] \in {"idle", "probe", "tearing"}
    /\ pc' = [pc EXCEPT ![s] = "done"]
    /\ lost' = [lost EXCEPT ![s] = @ \cup Tracked(s)]
    /\ UNCHANGED <<cloud, content, created, at, stored, owned>>

-----------------------------------------------------------------------------
ObjectStep(s, b, k) == CreateObject(s, b, k) \/ DeleteObject(s, b, k)

BucketStep(s, b) ==
    \/ ProbeNotFound(s, b)
    \/ CreateBucket(s, b)
    \/ DeleteBucketAws(s, b)
    \/ DeleteBucketAzure(s, b)
    \/ DeleteBucketGcp(s, b)
    \/ RestoreBucket(s, b)
    \/ SetBucketRetentionDurationDays(s, b)

ServiceStep(s) ==
    \/ ProbeCreated(s)
    \/ ProbeNotCreated(s)
    \/ TearDown(s)
    \/ TearDownDeletes(s)
    \/ TearDownFindsNothing(s)
    \/ TearDownFails(s)
    \/ TearDownEnds(s)
    \/ Abandon(s)

Next ==
    \E s \in Services :
        \/ ServiceStep(s)
        \/ \E b \in Buckets : BucketStep(s, b) \/ \E k \in Keys : ObjectStep(s, b, k)

Spec == Init /\ [][Next]_vars

-----------------------------------------------------------------------------
(* Properties *)

(* A service keeps track of every object it still has in a bucket, however *)
(* often keys are overwritten by others, deleted, or brought back by the   *)
(* restore of a container.  It loses track only of the very objects whose  *)
(* upload failed after it was applied, and of those its TearDown has tried *)
(* or that were away then (aws-object-storage.go:273-276).                 *)
ObjectsTracked ==
    \A s \in Services, b \in buckets, k \in Keys :
        Holds(objects[b][k], s) => <<b, k>> \in Tracked(s) \cup lost[s]

(* After TearDown nothing the service wrote is current in any bucket but   *)
(* what its upload or its deletion failed for, or a restore brought back:  *)
(* no failure keeps the loop from the objects after it.  A process that    *)
(* ends without it leaves what was tracked                                 *)
(* (generic/service.go:78-80, azure-object-storage.go:1123-1138).          *)
TearDownLeavesNothing ==
    \A s \in Services, b \in buckets, k \in Keys :
        pc[s] = "done" /\ Holds(objects[b][k], s) => <<b, k>> \in lost[s]

(* What was in the buckets before the tests stays as it was, except what a *)
(* test step itself overwrote or deleted: no TearDown takes it, also when  *)
(* a retention policy that made CreateObject return it is later removed    *)
(* (azure-object-storage.go:303-308, gcp-object-storage.go:186-194).       *)
OwnersObjectsKept ==
    \A b \in Buckets, k \in Keys :
        <<b, k>> \in owned => b \in buckets /\ objects[b][k] = OwnersObject
=============================================================================
