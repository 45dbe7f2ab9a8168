------------------------ MODULE ObjectStorageProofs -------------------------
(* Theorems about ObjectStorage, for any number of services, buckets, keys *)
(* and uploads.                                                            *)
EXTENDS ObjectStorage, TLAPS

(***************************************************************************)
(* Type correctness                                                        *)
(***************************************************************************)

(* What is not there, and what the owner put there, are objects. *)
LEMMA UsualForms == Missing \in Object /\ OwnersObject \in Object
<1>1. <<>> \in Seq(Services \cup {Owner})
  OBVIOUS
<1>2. <<Owner>> \in Seq(Services \cup {Owner}) /\ <<Owner>> # <<>>
  OBVIOUS
<1>3. Missing \in Object
  BY <1>1 DEF Missing, Object
<1>4. OwnersObject \in Object
  BY <1>2 DEF OwnersObject, Object
<1>5. QED
  BY <1>3, <1>4

(* The forms an upload and a deletion give an object are objects. *)
LEMMA ObjectForms ==
    ASSUME TypeOK, NEW s \in Services, NEW b \in Buckets, NEW k \in Keys
    PROVE  /\ objects[b][k] \in Object
           /\ Missing \in Object
           /\ OwnersObject \in Object
           /\ Written(b, k, s) \in Object
           /\ Removed(b, k) \in Object
<1>1. objects[b][k] \in Object
  BY DEF TypeOK
<1> DEFINE Authors == Services \cup {Owner}
<1>2. Missing \in Object /\ OwnersObject \in Object
  BY UsualForms
<1>3. objects[b][k].versions \in Seq(Authors)
  BY <1>1 DEF Object
<1>4. Written(b, k, s) \in Object
  <2> DEFINE appended == Append(objects[b][k].versions, s)
  <2>1. appended \in Seq(Authors) /\ appended # <<>>
    BY <1>3
  <2>2. <<s>> \in Seq(Authors) /\ <<s>> # <<>>
    OBVIOUS
  <2>3. ASSUME NEW versions \in Seq(Authors), versions # <<>>
        PROVE  [versions |-> versions, current |-> TRUE] \in Object
    BY <2>3 DEF Object
  <2>4. [versions |-> appended, current |-> TRUE] \in Object
    BY <2>1, <2>3
  <2>5. [versions |-> <<s>>, current |-> TRUE] \in Object
    BY <2>2, <2>3
  <2>6. QED
    BY <2>4, <2>5 DEF Written
<1>5. Removed(b, k) \in Object
  BY <1>3 DEF Removed, Object
<1>6. QED
  BY <1>1, <1>2, <1>4, <1>5

(* An upload that is applied keeps the types of what it changes. *)
LEMMA StoreType ==
    ASSUME TypeOK, NEW s \in Services, NEW b \in Buckets, NEW k \in Keys, Store(s, b, k)
    PROVE  /\ objects' \in [Buckets -> [Keys -> Object]]
           /\ stored' \in 0..MaxWrites
           /\ owned' \subseteq Buckets \X Keys
           /\ UNCHANGED <<cloud, buckets, mode, trash>>
<1> USE StorageAssumption
<1>1. Written(b, k, s) \in Object
  BY ObjectForms
<1>2. QED
  BY <1>1 DEF Store, TypeOK

(* Every outcome of CreateObject keeps the types of what it changes. *)
LEMMA CreateType ==
    ASSUME TypeOK, NEW s \in Services, NEW b \in Buckets, NEW k \in Keys, Create(s, b, k)
    PROVE  /\ UNCHANGED <<cloud, buckets, mode, trash>>
           /\ objects' \in [Buckets -> [Keys -> Object]]
           /\ created' \in [Services -> Seq(Buckets \X Keys)]
           /\ stored' \in 0..MaxWrites
           /\ owned' \subseteq Buckets \X Keys
           /\ lost' \in [Services -> SUBSET (Buckets \X Keys)]
<1> USE StorageAssumption
<1>1. CASE UploadAcknowledged(s, b, k)
  <2>1. Append(created[s], <<b, k>>) \in Seq(Buckets \X Keys)
    BY DEF TypeOK
  <2>2. created' \in [Services -> Seq(Buckets \X Keys)]
    BY <1>1, <2>1 DEF UploadAcknowledged, Track, TypeOK
  <2>3. QED
    BY <1>1, <2>2, StoreType DEF UploadAcknowledged, TypeOK
<1>2. CASE UploadFailsAfterwards(s, b, k)
  BY <1>2, StoreType DEF UploadFailsAfterwards, TypeOK
<1>3. CASE ReturnsExisting(s, b, k)
  BY <1>3 DEF ReturnsExisting, TypeOK, content, history
<1>4. QED
  BY <1>1, <1>2, <1>3 DEF Create, CreateObjectAws, CreateObjectAzure, CreateObjectGcp

(* Every operation on buckets keeps the types. *)
LEMMA BucketStepType ==
    ASSUME TypeOK, NEW s \in Services, NEW b \in Buckets, BucketStep(s, b)
    PROVE  TypeOK'
<1> USE StorageAssumption DEF cloud, content, harness, history
<1>0. [k \in Keys |-> Missing] \in [Keys -> Object]
  BY ObjectForms
<1>1. CASE ProbeNotFound(s, b)
  BY <1>1 DEF ProbeNotFound, TypeOK
<1>2. CASE CreateBucket(s, b)
  BY <1>0, <1>2 DEF CreateBucket, TypeOK
<1>3. CASE DeleteBucketAws(s, b)
  <2>1. PICK emptied \in SUBSET {k \in Keys : objects[b][k].current} :
            objects' = [objects EXCEPT ![b] =
                [k \in Keys |-> IF k \in emptied THEN Removed(b, k) ELSE objects[b][k]]]
    BY <1>3 DEF DeleteBucketAws
  <2>2. [k \in Keys |-> IF k \in emptied THEN Removed(b, k) ELSE objects[b][k]]
            \in [Keys -> Object]
    BY ObjectForms
  <2>3. objects' \in [Buckets -> [Keys -> Object]]
    BY <2>1, <2>2 DEF TypeOK
  <2>4. buckets' \subseteq Buckets
    BY <1>3 DEF DeleteBucketAws, TypeOK
  <2>5. QED
    BY <1>3, <2>3, <2>4 DEF DeleteBucketAws, AsksToDelete, TypeOK
<1>4. CASE DeleteBucketAzure(s, b)
  <2>1. objects' \in [Buckets -> [Keys -> Object]]
    BY <1>0, <1>4 DEF DeleteBucketAzure, TypeOK
  <2>2. trash' \in [Buckets -> SUBSET [Keys -> Object]]
    BY <1>4 DEF DeleteBucketAzure, TypeOK
  <2>3. QED
    BY <1>4, <2>1, <2>2 DEF DeleteBucketAzure, AsksToDelete, TypeOK
<1>5. CASE DeleteBucketGcp(s, b)
  BY <1>5 DEF DeleteBucketGcp, AsksToDelete, TypeOK
<1>6. CASE RestoreBucket(s, b)
  <2>1. PICK snapshot \in trash[b] :
            /\ objects' = [objects EXCEPT ![b] = snapshot]
            /\ trash' = [trash EXCEPT ![b] = @ \ {snapshot}]
            /\ lost' = [x \in Services |->
                          lost[x] \cup ({<<b, k>> : k \in {i \in Keys : Holds(snapshot[i], x)}}
                                         \ Tracked(x))]
    BY <1>6 DEF RestoreBucket
  <2>2. snapshot \in [Keys -> Object]
    BY DEF TypeOK
  <2>3. /\ objects' \in [Buckets -> [Keys -> Object]]
        /\ trash' \in [Buckets -> SUBSET [Keys -> Object]]
    BY <2>1, <2>2 DEF TypeOK
  <2>4. lost' \in [Services -> SUBSET (Buckets \X Keys)]
    BY <2>1 DEF TypeOK
  <2>5. QED
    BY <1>6, <2>3, <2>4 DEF RestoreBucket, TypeOK
<1>7. CASE SetBucketRetentionDurationDays(s, b)
  BY <1>7 DEF SetBucketRetentionDurationDays, TypeOK
<1>8. QED
  BY <1>1, <1>2, <1>3, <1>4, <1>5, <1>6, <1>7 DEF BucketStep

(* Forgetting the first entry of createdObjs leaves a list of entries. *)
LEMMA UntrackType ==
    ASSUME TypeOK, NEW s \in Services, created[s] # <<>>, Untrack(s)
    PROVE  created' \in [Services -> Seq(Buckets \X Keys)]
<1>1. Tail(created[s]) \in Seq(Buckets \X Keys)
  BY DEF TypeOK
<1>2. QED
  BY <1>1 DEF Untrack, TypeOK

(* The end of a TriggerDataRead and each step of TearDown keep the types. *)
LEMMA ServiceStepType ==
    ASSUME TypeOK, NEW s \in Services, ServiceStep(s)
    PROVE  TypeOK'
<1> USE StorageAssumption DEF cloud, content, harness, history
<1>1. CASE ProbeCreated(s)
  <2>1. at[s] \in Buckets
    BY <1>1 DEF ProbeCreated, TypeOK
  <2>2. QED
    BY <1>1, <2>1, CreateType DEF ProbeCreated, ProbeEnds, TypeOK
<1>2. CASE ProbeNotCreated(s)
  BY <1>2 DEF ProbeNotCreated, ProbeEnds, TypeOK
<1>3. CASE TearDown(s)
  BY <1>3 DEF TearDown, TypeOK
<1>4. CASE TearDownDeletes(s)
  <2> DEFINE b == Head(created[s])[1]
             k == Head(created[s])[2]
  <2>1. b \in Buckets /\ k \in Keys
    BY <1>4 DEF TearDownDeletes, TypeOK
  <2>2. objects' \in [Buckets -> [Keys -> Object]]
    BY <1>4, <2>1, ObjectForms DEF TearDownDeletes, Delete, TypeOK
  <2>3. created' \in [Services -> Seq(Buckets \X Keys)]
    BY <1>4, UntrackType DEF TearDownDeletes
  <2>4. QED
    BY <1>4, <2>2, <2>3 DEF TearDownDeletes, TypeOK
<1>5. CASE TearDownFindsNothing(s)
  BY <1>5, UntrackType DEF TearDownFindsNothing, TypeOK
<1>6. CASE TearDownFails(s)
  <2>1. Head(created[s]) \in Buckets \X Keys
    BY <1>6 DEF TearDownFails, TypeOK
  <2>2. lost' \in [Services -> SUBSET (Buckets \X Keys)]
    BY <1>6, <2>1 DEF TearDownFails, TypeOK
  <2>3. QED
    BY <1>6, <2>2, UntrackType DEF TearDownFails, TypeOK
<1>7. CASE TearDownEnds(s)
  BY <1>7 DEF TearDownEnds, TypeOK
<1>8. CASE Abandon(s)
  <2>1. Tracked(s) \subseteq Buckets \X Keys
    BY DEF Tracked, TypeOK
  <2>2. lost' \in [Services -> SUBSET (Buckets \X Keys)]
    BY <1>8, <2>1 DEF Abandon, TypeOK
  <2>3. QED
    BY <1>8, <2>2 DEF Abandon, TypeOK
<1>9. QED
  BY <1>1, <1>2, <1>3, <1>4, <1>5, <1>6, <1>7, <1>8 DEF ServiceStep

(* CreateObject and DeleteObject keep the types. *)
LEMMA ObjectStepType ==
    ASSUME TypeOK, NEW s \in Services, NEW b \in Buckets, NEW k \in Keys, ObjectStep(s, b, k)
    PROVE  TypeOK'
<1> USE StorageAssumption DEF cloud, harness
<1>1. CASE CreateObject(s, b, k)
  BY <1>1, CreateType DEF CreateObject, TypeOK
<1>2. CASE DeleteObject(s, b, k)
  <2>1. objects' \in [Buckets -> [Keys -> Object]]
    BY <1>2, ObjectForms DEF DeleteObject, Delete, TypeOK
  <2>2. QED
    BY <1>2, <2>1 DEF DeleteObject, TypeOK
<1>3. QED
  BY <1>1, <1>2 DEF ObjectStep

(* The initial states have the declared types. *)
LEMMA InitType == Init => TypeOK
<1> SUFFICES ASSUME Init PROVE TypeOK
  OBVIOUS
<1> USE StorageAssumption
<1>1. objects \in [Buckets -> [Keys -> Object]]
  BY UsualForms DEF Init
<1>2. created \in [Services -> Seq(Buckets \X Keys)]
  BY DEF Init
<1>3. softDelete \in BOOLEAN
  <2>1. (provider = "azure") \in BOOLEAN
    OBVIOUS
  <2>2. QED
    BY <2>1 DEF Init
<1>4. stored \in 0..MaxWrites
  BY DEF Init
<1>5. QED
  BY <1>1, <1>2, <1>3, <1>4 DEF Init, TypeOK

(* Every step of any service keeps the types. *)
LEMMA NextType ==
    ASSUME TypeOK, [Next]_vars
    PROVE  TypeOK'
<1>1. CASE Next
  BY <1>1, ServiceStepType, BucketStepType, ObjectStepType DEF Next
<1>2. CASE UNCHANGED vars
  BY <1>2 DEF vars, cloud, content, harness, history, TypeOK
<1>3. QED
  BY <1>1, <1>2

(* Every reachable state of every set of services has the declared types. *)
THEOREM TypeCorrect == Spec => []TypeOK
<1>1. Init => TypeOK
  BY InitType
<1>2. TypeOK /\ [Next]_vars => TypeOK'
  BY NextType
<1>3. QED
  BY <1>1, <1>2, PTL DEF Spec

(***************************************************************************)
(* Every object of a service is tracked until TearDown deletes it          *)
(***************************************************************************)

(* What a service that is done still has in its list counts as lost. *)
Finished == \A s \in Services : pc[s] = "done" => Tracked(s) \subseteq lost[s]

(* The inductive invariant. *)
TrackingInv == TypeOK /\ ObjectsTracked /\ Finished

(* The latest version of an uploaded object is its uploader's. *)
LEMMA WrittenIsUploaders ==
    ASSUME TypeOK, NEW s \in Services, NEW x \in Services,
           NEW b \in Buckets, NEW k \in Keys, Holds(Written(b, k, s), x)
    PROVE  x = s
<1>1. objects[b][k].versions \in Seq(Services \cup {Owner})
  BY DEF TypeOK, Object
<1>2. CASE mode[b] = "versioned"
  <2> DEFINE appended == Append(objects[b][k].versions, s)
  <2>1. appended[Len(appended)] = s
    BY <1>1
  <2>2. Written(b, k, s).versions = appended
    BY <1>2 DEF Written
  <2>3. QED
    BY <2>1, <2>2 DEF Holds
<1>3. CASE mode[b] # "versioned"
  BY <1>3 DEF Written, Holds
<1>4. QED
  BY <1>2, <1>3

(* A deleted object has no latest version. *)
LEMMA RemovedIsNobodys ==
    ASSUME NEW b, NEW k, NEW x
    PROVE  ~Holds(Removed(b, k), x) /\ ~Holds(Missing, x)
BY DEF Removed, Missing, Holds

(* Track adds its entry to those of its service and changes no other's. *)
LEMMA TrackAdds ==
    ASSUME TypeOK, NEW s \in Services, NEW entry \in Buckets \X Keys, Track(s, entry)
    PROVE  /\ entry \in Tracked(s)'
           /\ \A x \in Services : Tracked(x) \subseteq Tracked(x)'
<1>1. created[s] \in Seq(Buckets \X Keys)
  BY DEF TypeOK
<1>2. created' = [created EXCEPT ![s] = Append(created[s], entry)]
  BY DEF Track
<1>3. /\ created'[s] = Append(created[s], entry)
      /\ \A x \in Services \ {s} : created'[x] = created[x]
  BY <1>2 DEF TypeOK
<1>4. entry \in Tracked(s)'
  <2>1. Len(created[s]) + 1 \in DOMAIN created'[s] /\ created'[s][Len(created[s]) + 1] = entry
    BY <1>1, <1>3
  <2>2. QED
    BY <2>1 DEF Tracked
<1>5. ASSUME NEW x \in Services PROVE Tracked(x) \subseteq Tracked(x)'
  <2>1. CASE x = s
    <3>1. \A i \in DOMAIN created[s] : i \in DOMAIN created'[s] /\ created'[s][i] = created[s][i]
      BY <1>1, <1>3
    <3>2. QED
      BY <2>1, <3>1 DEF Tracked
  <2>2. CASE x # s
    BY <1>3, <2>2 DEF Tracked
  <2>3. QED
    BY <2>1, <2>2
<1>6. QED
  BY <1>4, <1>5

(* Untrack forgets at most the entry at the head of its service's list. *)
LEMMA UntrackForgetsHead ==
    ASSUME TypeOK, NEW s \in Services, created[s] # <<>>, Untrack(s)
    PROVE  \A x \in Services : \A entry \in Tracked(x) :
               entry \in Tracked(x)' \/ (x = s /\ entry = Head(created[s]))
<1>1. created[s] \in Seq(Buckets \X Keys)
  BY DEF TypeOK
<1>2. created' = [created EXCEPT ![s] = Tail(created[s])]
  BY DEF Untrack
<1>3. /\ created'[s] = Tail(created[s])
      /\ \A x \in Services \ {s} : created'[x] = created[x]
  BY <1>2 DEF TypeOK
<1>4. ASSUME NEW i \in DOMAIN created[s], i # 1
      PROVE  created[s][i] \in Tracked(s)'
  <2>1. i - 1 \in DOMAIN Tail(created[s]) /\ Tail(created[s])[i - 1] = created[s][i]
    BY <1>1, <1>4
  <2>2. QED
    BY <1>3, <2>1 DEF Tracked
<1>5. Head(created[s]) = created[s][1]
  BY <1>1
<1>6. ASSUME NEW x \in Services, NEW entry \in Tracked(x)
      PROVE  entry \in Tracked(x)' \/ (x = s /\ entry = Head(created[s]))
  <2>1. CASE x = s
    <3>1. PICK i \in DOMAIN created[s] : entry = created[s][i]
      BY <2>1 DEF Tracked
    <3>2. QED
      BY <1>4, <1>5, <2>1, <3>1
  <2>2. CASE x # s
    BY <1>3, <2>2 DEF Tracked
  <2>3. QED
    BY <2>1, <2>2
<1>7. QED
  BY <1>6

(* The initial objects are the owner's or not there. *)
LEMMA TrackingInitial == Init => TrackingInv
<1> SUFFICES ASSUME Init PROVE TrackingInv
  OBVIOUS
<1>1. TypeOK
  BY InitType
<1>2. ASSUME NEW s \in Services, NEW b \in Buckets, NEW k \in Keys
      PROVE  ~Holds(objects[b][k], s)
  <2>1. objects[b][k] \in {OwnersObject, Missing}
    BY DEF Init
  <2>2. ~Holds(OwnersObject, s)
    <3>1. OwnersObject.versions[Len(OwnersObject.versions)] = Owner
      BY DEF OwnersObject
    <3>2. QED
      BY <3>1, StorageAssumption DEF Holds
  <2>3. QED
    BY <2>1, <2>2, RemovedIsNobodys
<1>3. ObjectsTracked
  BY <1>1, <1>2 DEF ObjectsTracked, TypeOK
<1>4. Finished
  BY DEF Init, Finished
<1>5. QED
  BY <1>1, <1>3, <1>4 DEF TrackingInv

(* CreateObject tracks what it stores, or loses that very object. *)
LEMMA CreateKeepsTracking ==
    ASSUME TypeOK, ObjectsTracked,
           NEW s \in Services, NEW b \in Buckets, NEW k \in Keys, Create(s, b, k)
    PROVE  ObjectsTracked'
<1> SUFFICES ASSUME NEW x \in Services, NEW c \in buckets', NEW j \in Keys,
                    Holds(objects'[c][j], x), <<c, j>> \notin lost'[x]
             PROVE  <<c, j>> \in Tracked(x)'
  BY DEF ObjectsTracked, Holds
<1>1. buckets' = buckets /\ c \in Buckets
  BY CreateType DEF TypeOK
<1>2. ASSUME Store(s, b, k), <<c, j>> \notin lost[x]
      PROVE  <<c, j>> \in Tracked(x) \/ (x = s /\ <<c, j>> = <<b, k>>)
  <2>1. CASE <<c, j>> = <<b, k>>
    <3>1. objects'[b][k] = Written(b, k, s)
      BY <1>2 DEF Store, TypeOK
    <3>2. QED
      BY <2>1, <3>1, WrittenIsUploaders
  <2>2. CASE <<c, j>> # <<b, k>>
    <3>1. objects'[c][j] = objects[c][j]
      BY <1>1, <1>2, <2>2 DEF Store, TypeOK
    <3>2. QED
      BY <1>1, <1>2, <3>1 DEF ObjectsTracked
  <2>3. QED
    BY <2>1, <2>2
<1>3. CASE UploadAcknowledged(s, b, k)
  <2>1. <<c, j>> \notin lost[x] /\ Store(s, b, k) /\ Track(s, <<b, k>>)
    BY <1>3 DEF UploadAcknowledged
  <2>2. QED
    BY <1>2, <2>1, TrackAdds
<1>4. CASE UploadFailsAfterwards(s, b, k)
  <2>1. /\ Store(s, b, k)
        /\ lost' = [lost EXCEPT ![s] = @ \cup {<<b, k>>}]
        /\ Tracked(x)' = Tracked(x)
    BY <1>4 DEF UploadFailsAfterwards, Tracked
  <2>2. <<c, j>> \notin lost[x] /\ ~(x = s /\ <<c, j>> = <<b, k>>)
    BY <2>1 DEF TypeOK
  <2>3. QED
    BY <1>2, <2>1, <2>2
<1>5. CASE ReturnsExisting(s, b, k)
  BY <1>1, <1>5 DEF ReturnsExisting, content, history, ObjectsTracked, Tracked
<1>6. QED
  BY <1>3, <1>4, <1>5 DEF Create, CreateObjectAws, CreateObjectAzure, CreateObjectGcp

(* A step that changes neither lists nor losses, and brings no object a    *)
(* service holds into a bucket, keeps every object tracked.                *)
LEMMA QuietKeepsTracking ==
    ASSUME ObjectsTracked, UNCHANGED <<created, lost>>,
           \A b \in buckets', k \in Keys, s \in Services :
               Holds(objects'[b][k], s) => b \in buckets /\ Holds(objects[b][k], s)
    PROVE  ObjectsTracked'
<1>1. \A s \in Services : Tracked(s)' = Tracked(s) /\ lost'[s] = lost[s]
  BY DEF Tracked
<1>2. ASSUME NEW s \in Services, NEW b \in buckets', NEW k \in Keys, Holds(objects'[b][k], s)
      PROVE  <<b, k>> \in Tracked(s)' \cup lost'[s]
  BY <1>1, <1>2 DEF ObjectsTracked
<1>3. QED
  BY <1>2 DEF ObjectsTracked, Holds

(* No operation on buckets makes a service lose track of an object. *)
LEMMA BucketStepKeepsTracking ==
    ASSUME TypeOK, ObjectsTracked, NEW s \in Services, NEW b \in Buckets, BucketStep(s, b)
    PROVE  ObjectsTracked'
<1> USE DEF content, harness, history
<1>1. CASE ProbeNotFound(s, b)
  BY <1>1, QuietKeepsTracking DEF ProbeNotFound
<1>2. CASE CreateBucket(s, b)
  <2>1. \A k \in Keys : objects'[b][k] = Missing
    BY <1>2 DEF CreateBucket, TypeOK
  <2>2. \A c \in Buckets \ {b} : objects'[c] = objects[c]
    BY <1>2 DEF CreateBucket, TypeOK
  <2>3. buckets' = buckets \cup {b} /\ UNCHANGED <<created, lost>> /\ buckets \subseteq Buckets
    BY <1>2 DEF CreateBucket, TypeOK
  <2>4. QED
    BY <2>1, <2>2, <2>3, RemovedIsNobodys, QuietKeepsTracking
<1>3. CASE DeleteBucketAws(s, b)
  <2>1. PICK emptied \in SUBSET {k \in Keys : objects[b][k].current} :
            objects' = [objects EXCEPT ![b] =
                [k \in Keys |-> IF k \in emptied THEN Removed(b, k) ELSE objects[b][k]]]
    BY <1>3 DEF DeleteBucketAws
  <2>2. \A k \in Keys : objects'[b][k] \in {Removed(b, k), objects[b][k]}
    BY <2>1 DEF TypeOK
  <2>3. \A c \in Buckets \ {b} : objects'[c] = objects[c]
    BY <2>1 DEF TypeOK
  <2>4. buckets' \subseteq buckets /\ UNCHANGED <<created, lost>> /\ buckets \subseteq Buckets
    BY <1>3 DEF DeleteBucketAws, AsksToDelete, TypeOK
  <2>5. QED
    BY <2>2, <2>3, <2>4, RemovedIsNobodys, QuietKeepsTracking
<1>4. CASE DeleteBucketAzure(s, b)
  <2>1. \A c \in Buckets \ {b} : objects'[c] = objects[c]
    BY <1>4 DEF DeleteBucketAzure, TypeOK
  <2>2. buckets' = buckets \ {b} /\ UNCHANGED <<created, lost>> /\ buckets \subseteq Buckets
    BY <1>4 DEF DeleteBucketAzure, AsksToDelete, TypeOK
  <2>3. QED
    BY <2>1, <2>2, QuietKeepsTracking
<1>5. CASE DeleteBucketGcp(s, b)
  BY <1>5, QuietKeepsTracking DEF DeleteBucketGcp, AsksToDelete
<1>6. CASE RestoreBucket(s, b)
  <2>1. PICK snapshot \in trash[b] :
            /\ objects' = [objects EXCEPT ![b] = snapshot]
            /\ lost' = [x \in Services |->
                          lost[x] \cup ({<<b, k>> : k \in {i \in Keys : Holds(snapshot[i], x)}}
                                         \ Tracked(x))]
    BY <1>6 DEF RestoreBucket
  <2>2. buckets' = buckets \cup {b} /\ UNCHANGED created /\ buckets \subseteq Buckets
    BY <1>6 DEF RestoreBucket, TypeOK
  <2>3. \A x \in Services : Tracked(x)' = Tracked(x)
    BY <2>2 DEF Tracked
  <2>4. SUFFICES ASSUME NEW x \in Services, NEW c \in buckets', NEW j \in Keys,
                        Holds(objects'[c][j], x), <<c, j>> \notin lost'[x]
                 PROVE  <<c, j>> \in Tracked(x)
    BY <2>3 DEF ObjectsTracked, Holds
  <2>5. lost'[x] = lost[x] \cup ({<<b, k>> : k \in {i \in Keys : Holds(snapshot[i], x)}}
                                   \ Tracked(x))
    BY <2>1
  <2>6. CASE c = b
    <3>1. objects'[c] = snapshot
      BY <2>1, <2>6 DEF TypeOK
    <3>2. <<c, j>> \in {<<b, k>> : k \in {i \in Keys : Holds(snapshot[i], x)}}
      BY <2>4, <2>6, <3>1
    <3>3. QED
      BY <2>4, <2>5, <3>2
  <2>7. CASE c # b
    <3>1. c \in buckets /\ objects'[c] = objects[c]
      BY <2>1, <2>2, <2>7 DEF TypeOK
    <3>2. QED
      BY <2>4, <2>5, <3>1 DEF ObjectsTracked
  <2>8. QED
    BY <2>6, <2>7
<1>7. CASE SetBucketRetentionDurationDays(s, b)
  BY <1>7, QuietKeepsTracking DEF SetBucketRetentionDurationDays
<1>8. QED
  BY <1>1, <1>2, <1>3, <1>4, <1>5, <1>6, <1>7 DEF BucketStep

(* Whatever a deletion leaves behind, the object it deleted is nobody's. *)
LEMMA DeleteRemoves ==
    ASSUME TypeOK, NEW b \in Buckets, NEW k \in Keys, Delete(b, k)
    PROVE  \A x \in Services, c \in Buckets, j \in Keys :
               Holds(objects'[c][j], x) => Holds(objects[c][j], x) /\ <<c, j>> # <<b, k>>
<1>1. \A c \in Buckets, j \in Keys :
          objects'[c][j] = IF <<c, j>> = <<b, k>> THEN Removed(b, k) ELSE objects[c][j]
  BY DEF Delete, TypeOK
<1>2. QED
  BY <1>1, RemovedIsNobodys

(* TearDown forgets an object when it is deleted, when it was not there,   *)
(* or when that object counts as lost.                                     *)
LEMMA ServiceStepKeepsTracking ==
    ASSUME TypeOK, ObjectsTracked, NEW s \in Services, ServiceStep(s)
    PROVE  ObjectsTracked'
<1> USE DEF content, harness, history
<1> DEFINE b == Head(created[s])[1]
           k == Head(created[s])[2]
<1>0. ASSUME created[s] # <<>>
      PROVE  b \in Buckets /\ k \in Keys /\ Head(created[s]) = <<b, k>>
  BY <1>0 DEF TypeOK
<1>1. CASE ProbeCreated(s)
  <2>1. at[s] \in Buckets /\ Probe \in Keys
    BY <1>1, StorageAssumption DEF ProbeCreated, TypeOK
  <2>2. Create(s, at[s], Probe)
    BY <1>1 DEF ProbeCreated
  <2>3. QED
    BY <2>1, <2>2, CreateKeepsTracking
<1>2. CASE ProbeNotCreated(s)
  BY <1>2, QuietKeepsTracking DEF ProbeNotCreated
<1>3. CASE TearDown(s)
  BY <1>3, QuietKeepsTracking DEF TearDown
<1>4. CASE TearDownDeletes(s)
  <2>1. created[s] # <<>> /\ Untrack(s) /\ Delete(b, k) /\ UNCHANGED <<buckets, lost>>
    BY <1>4 DEF TearDownDeletes
  <2>2. SUFFICES ASSUME NEW x \in Services, NEW c \in buckets', NEW j \in Keys,
                        Holds(objects'[c][j], x), <<c, j>> \notin lost'[x]
                 PROVE  <<c, j>> \in Tracked(x)'
    BY DEF ObjectsTracked, Holds
  <2>3. c \in buckets /\ c \in Buckets
    BY <2>1 DEF TypeOK
  <2>4. Holds(objects[c][j], x) /\ <<c, j>> # <<b, k>>
    BY <1>0, <2>1, <2>2, <2>3, DeleteRemoves
  <2>5. <<c, j>> \in Tracked(x)
    BY <2>1, <2>2, <2>3, <2>4 DEF ObjectsTracked
  <2>6. QED
    BY <1>0, <2>1, <2>4, <2>5, UntrackForgetsHead
<1>5. CASE TearDownFindsNothing(s)
  <2>1. /\ created[s] # <<>> /\ Untrack(s)
        /\ b \notin buckets \/ ~objects[b][k].current
        /\ UNCHANGED <<buckets, objects, lost>>
    BY <1>5 DEF TearDownFindsNothing
  <2>2. SUFFICES ASSUME NEW x \in Services, NEW c \in buckets', NEW j \in Keys,
                        Holds(objects'[c][j], x), <<c, j>> \notin lost'[x]
                 PROVE  <<c, j>> \in Tracked(x)'
    BY DEF ObjectsTracked, Holds
  <2>3. c \in buckets /\ Holds(objects[c][j], x) /\ objects[c][j].current
    BY <2>1, <2>2 DEF Holds
  <2>4. <<c, j>> # <<b, k>>
    BY <2>1, <2>3
  <2>5. <<c, j>> \in Tracked(x)
    BY <2>1, <2>2, <2>3 DEF ObjectsTracked
  <2>6. QED
    BY <1>0, <2>1, <2>4, <2>5, UntrackForgetsHead
<1>6. CASE TearDownFails(s)
  <2>1. /\ created[s] # <<>> /\ Untrack(s)
        /\ lost' = [lost EXCEPT ![s] = @ \cup {Head(created[s])}]
        /\ UNCHANGED <<buckets, objects>>
    BY <1>6 DEF TearDownFails
  <2>2. SUFFICES ASSUME NEW x \in Services, NEW c \in buckets', NEW j \in Keys,
                        Holds(objects'[c][j], x), <<c, j>> \notin lost'[x]
                 PROVE  <<c, j>> \in Tracked(x)'
    BY DEF ObjectsTracked, Holds
  <2>3. <<c, j>> \notin lost[x] /\ ~(x = s /\ <<c, j>> = Head(created[s]))
    BY <2>1, <2>2 DEF TypeOK
  <2>4. <<c, j>> \in Tracked(x)
    BY <2>1, <2>2, <2>3 DEF ObjectsTracked
  <2>5. QED
    BY <2>1, <2>3, <2>4, UntrackForgetsHead
<1>7. CASE TearDownEnds(s)
  BY <1>7, QuietKeepsTracking DEF TearDownEnds
<1>8. CASE Abandon(s)
  <2>1. /\ lost' = [lost EXCEPT ![s] = @ \cup Tracked(s)]
        /\ UNCHANGED <<buckets, objects, created>>
    BY <1>8 DEF Abandon
  <2>2. \A x \in Services : lost[x] \subseteq lost'[x] /\ Tracked(x)' = Tracked(x)
    BY <2>1 DEF Tracked, TypeOK
  <2>3. QED
    BY <2>1, <2>2 DEF ObjectsTracked, Holds
<1>9. QED
  BY <1>1, <1>2, <1>3, <1>4, <1>5, <1>6, <1>7, <1>8 DEF ServiceStep

(* CreateObject and DeleteObject keep every object tracked. *)
LEMMA ObjectStepKeepsTracking ==
    ASSUME TypeOK, ObjectsTracked,
           NEW s \in Services, NEW b \in Buckets, NEW k \in Keys, ObjectStep(s, b, k)
    PROVE  ObjectsTracked'
<1>1. CASE CreateObject(s, b, k)
  BY <1>1, CreateKeepsTracking DEF CreateObject
<1>2. CASE DeleteObject(s, b, k)
  <2>1. Delete(b, k) /\ UNCHANGED <<buckets, created, lost>> /\ buckets \subseteq Buckets
    BY <1>2 DEF DeleteObject, harness, TypeOK
  <2>2. QED
    BY <2>1, DeleteRemoves, QuietKeepsTracking
<1>3. QED
  BY <1>1, <1>2 DEF ObjectStep

(* Every step of any service keeps every object tracked. *)
LEMMA NextKeepsTracking ==
    ASSUME TypeOK, ObjectsTracked, [Next]_vars
    PROVE  ObjectsTracked'
<1>1. CASE Next
  BY <1>1, ServiceStepKeepsTracking, BucketStepKeepsTracking, ObjectStepKeepsTracking DEF Next
<1>2. CASE UNCHANGED vars
  BY <1>2, QuietKeepsTracking DEF vars, content, harness, history
<1>3. QED
  BY <1>1, <1>2

(* A step of a service that is not done, and that leaves the losses of the *)
(* others as they were or adds to them, keeps the lists of the finished.   *)
LEMMA StepKeepsFinished ==
    ASSUME TypeOK, Finished, [Next]_vars
    PROVE  Finished'
<1> USE DEF content, harness, history
<1>0. ASSUME \A x \in Services : pc'[x] = "done" =>
                 pc[x] = "done" /\ created'[x] = created[x] /\ lost[x] \subseteq lost'[x]
      PROVE  Finished'
  BY <1>0 DEF Finished, Tracked
<1>1. ASSUME NEW s \in Services, ServiceStep(s)
      PROVE  Finished'
  <2>1. CASE ProbeCreated(s)
    <3>1. /\ pc' = [pc EXCEPT ![s] = "idle"]
          /\ \A x \in Services \ {s} : created'[x] = created[x] /\ lost'[x] = lost[x]
      BY <2>1 DEF ProbeCreated, ProbeEnds, Create, CreateObjectAws, CreateObjectAzure,
                  CreateObjectGcp, UploadAcknowledged, UploadFailsAfterwards, ReturnsExisting,
                  Track, TypeOK
    <3>2. QED
      BY <1>0, <3>1 DEF TypeOK
  <2>2. CASE ProbeNotCreated(s)
    BY <1>0, <2>2 DEF ProbeNotCreated, ProbeEnds, TypeOK
  <2>3. CASE TearDown(s)
    BY <1>0, <2>3 DEF TearDown, TypeOK
  <2>4. CASE TearDownDeletes(s)
    BY <1>0, <2>4 DEF TearDownDeletes, Untrack, TypeOK
  <2>5. CASE TearDownFindsNothing(s)
    BY <1>0, <2>5 DEF TearDownFindsNothing, Untrack, TypeOK
  <2>6. CASE TearDownFails(s)
    BY <1>0, <2>6 DEF TearDownFails, Untrack, TypeOK
  <2>7. CASE TearDownEnds(s)
    <3>1. created[s] = <<>> /\ UNCHANGED <<created, lost>> /\ pc' = [pc EXCEPT ![s] = "done"]
      BY <2>7 DEF TearDownEnds
    <3>2. Tracked(s)' = {} /\ \A x \in Services : Tracked(x)' = Tracked(x)
      BY <3>1 DEF Tracked
    <3>3. QED
      BY <3>1, <3>2 DEF Finished, TypeOK
  <2>8. CASE Abandon(s)
    <3>1. /\ lost' = [lost EXCEPT ![s] = @ \cup Tracked(s)]
          /\ pc' = [pc EXCEPT ![s] = "done"]
          /\ UNCHANGED created
      BY <2>8 DEF Abandon
    <3>2. \A x \in Services : Tracked(x)' = Tracked(x)
      BY <3>1 DEF Tracked
    <3>3. QED
      BY <3>1, <3>2 DEF Finished, TypeOK
  <2>9. QED
    BY <1>1, <2>1, <2>2, <2>3, <2>4, <2>5, <2>6, <2>7, <2>8 DEF ServiceStep
<1>2. ASSUME NEW s \in Services, NEW b \in Buckets, BucketStep(s, b)
      PROVE  Finished'
  <2>1. CASE RestoreBucket(s, b)
    <3>1. \A x \in Services : lost[x] \subseteq lost'[x]
      BY <2>1 DEF RestoreBucket
    <3>2. QED
      BY <1>0, <2>1, <3>1 DEF RestoreBucket
  <2>2. CASE ProbeNotFound(s, b)
    BY <1>0, <2>2 DEF ProbeNotFound, TypeOK
  <2>3. CASE ~RestoreBucket(s, b) /\ ~ProbeNotFound(s, b)
    <3>1. UNCHANGED <<pc, created, lost>>
      BY <1>2, <2>3 DEF BucketStep, CreateBucket, DeleteBucketAws, DeleteBucketAzure,
                        DeleteBucketGcp, AsksToDelete, SetBucketRetentionDurationDays
    <3>2. QED
      BY <1>0, <3>1
  <2>4. QED
    BY <2>1, <2>2, <2>3
<1>3. ASSUME NEW s \in Services, NEW b \in Buckets, NEW k \in Keys, ObjectStep(s, b, k)
      PROVE  Finished'
  <2>1. CASE CreateObject(s, b, k)
    <3>1. /\ pc' = pc /\ pc[s] = "idle"
          /\ \A x \in Services \ {s} : created'[x] = created[x] /\ lost'[x] = lost[x]
      BY <2>1 DEF CreateObject, Create, CreateObjectAws, CreateObjectAzure,
                  CreateObjectGcp, UploadAcknowledged, UploadFailsAfterwards, ReturnsExisting,
                  Track, TypeOK
    <3>2. QED
      BY <1>0, <3>1
  <2>2. CASE DeleteObject(s, b, k)
    BY <1>0, <2>2 DEF DeleteObject
  <2>3. QED
    BY <1>3, <2>1, <2>2 DEF ObjectStep
<1>4. CASE UNCHANGED vars
  BY <1>0, <1>4 DEF vars
<1>5. QED
  BY <1>1, <1>2, <1>3, <1>4 DEF Next

(* TrackingInv is inductive. *)
LEMMA TrackingInductive == TrackingInv /\ [Next]_vars => TrackingInv'
BY NextType, NextKeepsTracking, StepKeepsFinished DEF TrackingInv

(* A service loses track only of the very objects whose upload failed, or  *)
(* that its TearDown tried to delete or could not find.                    *)
THEOREM ObjectsAreTracked == Spec => []ObjectsTracked
<1>1. TrackingInv => ObjectsTracked
  BY DEF TrackingInv
<1>2. QED
  BY <1>1, TrackingInitial, TrackingInductive, PTL DEF Spec

(* A TearDown leaves of its service only the very objects whose upload or  *)
(* deletion failed or that a restore brought back: no failure takes        *)
(* another object with it.                                                 *)
THEOREM TearDownIsComplete == Spec => []TearDownLeavesNothing
<1>1. TrackingInv => TearDownLeavesNothing
  <2> SUFFICES ASSUME TrackingInv, NEW s \in Services, NEW b \in buckets, NEW k \in Keys,
                      pc[s] = "done", Holds(objects[b][k], s)
               PROVE  <<b, k>> \in lost[s]
    BY DEF TearDownLeavesNothing
  <2>1. Tracked(s) \subseteq lost[s]
    BY DEF TrackingInv, Finished
  <2>2. QED
    BY <2>1 DEF TrackingInv, ObjectsTracked
<1>2. QED
  BY <1>1, TrackingInitial, TrackingInductive, PTL DEF Spec

(***************************************************************************)
(* What the owner put there                                                *)
(***************************************************************************)

(* No service would delete an object of the owner that no test asked for. *)
Untargeted == \A s \in Services : Tracked(s) \cap owned = {}

(* The inductive invariant. *)
OwnersInv == TypeOK /\ OwnersObjectsKept /\ Untargeted

(* Nothing is tracked at first. *)
LEMMA OwnersInitial == Init => OwnersInv
<1> SUFFICES ASSUME Init PROVE OwnersInv
  OBVIOUS
<1>1. OwnersObjectsKept
  BY DEF Init, OwnersObjectsKept
<1>2. Untargeted
  BY DEF Init, Untargeted, Tracked
<1>3. QED
  BY <1>1, <1>2, InitType DEF OwnersInv

(* A step that tracks nothing new, takes nothing into owned, and leaves    *)
(* the buckets and objects that are still the owner's alone, keeps both.   *)
LEMMA AloofKeepsOwners ==
    ASSUME OwnersInv, owned' \subseteq owned,
           \A s \in Services : Tracked(s)' \subseteq Tracked(s),
           \A b \in Buckets, k \in Keys : <<b, k>> \in owned' /\ b \in buckets =>
               b \in buckets' /\ objects'[b][k] = objects[b][k]
    PROVE  OwnersObjectsKept' /\ Untargeted'
BY DEF OwnersInv, OwnersObjectsKept, Untargeted

(* CreateObject takes what it stores out of owned before it tracks it. *)
LEMMA CreateKeepsOwners ==
    ASSUME OwnersInv, NEW s \in Services, NEW b \in Buckets, NEW k \in Keys, Create(s, b, k)
    PROVE  OwnersObjectsKept' /\ Untargeted'
<1> USE DEF content
<1>1. ASSUME Store(s, b, k)
      PROVE  /\ owned' = owned \ {<<b, k>>}
             /\ buckets' = buckets
             /\ \A c \in Buckets, j \in Keys :
                    <<c, j>> \in owned' => objects'[c][j] = objects[c][j]
  BY <1>1 DEF Store, OwnersInv, TypeOK
<1>2. CASE UploadAcknowledged(s, b, k)
  <2>1. Store(s, b, k) /\ Track(s, <<b, k>>)
    BY <1>2 DEF UploadAcknowledged
  <2>2. OwnersObjectsKept'
    BY <1>1, <2>1 DEF OwnersInv, OwnersObjectsKept
  <2>3. \A x \in Services : Tracked(x)' \subseteq Tracked(x) \cup {<<b, k>>}
    <3>1. \A x \in Services \ {s} : created'[x] = created[x]
      BY <2>1 DEF Track, OwnersInv, TypeOK
    <3>2. \A i \in DOMAIN created'[s] : created'[s][i] \in Tracked(s) \cup {<<b, k>>}
      BY <2>1 DEF Track, Tracked, OwnersInv, TypeOK
    <3>3. QED
      BY <3>1, <3>2 DEF Tracked
  <2>4. Untargeted'
    BY <1>1, <2>1, <2>3 DEF OwnersInv, Untargeted
  <2>5. QED
    BY <2>2, <2>4
<1>3. CASE UploadFailsAfterwards(s, b, k)
  <2>1. Store(s, b, k) /\ \A x \in Services : Tracked(x)' = Tracked(x)
    BY <1>3 DEF UploadFailsAfterwards, Tracked
  <2>2. QED
    BY <1>1, <2>1, AloofKeepsOwners
<1>4. CASE ReturnsExisting(s, b, k)
  <2>1. UNCHANGED <<buckets, objects, owned, created>>
    BY <1>4 DEF ReturnsExisting, content, history
  <2>2. \A x \in Services : Tracked(x)' = Tracked(x)
    BY <2>1 DEF Tracked
  <2>3. QED
    BY <2>1, <2>2, AloofKeepsOwners
<1>5. QED
  BY <1>2, <1>3, <1>4 DEF Create, CreateObjectAws, CreateObjectAzure, CreateObjectGcp

(* Operations on a bucket touch no other bucket, and those that take       *)
(* objects away take them out of owned.                                    *)
LEMMA BucketStepKeepsOwners ==
    ASSUME OwnersInv, NEW s \in Services, NEW b \in Buckets, BucketStep(s, b)
    PROVE  OwnersObjectsKept' /\ Untargeted'
<1> USE DEF content, harness, history
<1>1. \A x \in Services : Tracked(x)' = Tracked(x)
  <2>1. UNCHANGED created
    BY DEF BucketStep, ProbeNotFound, CreateBucket, DeleteBucketAws, DeleteBucketAzure,
           DeleteBucketGcp, AsksToDelete, RestoreBucket, SetBucketRetentionDurationDays
  <2>2. QED
    BY <2>1 DEF Tracked
<1>2. CASE CreateBucket(s, b) \/ RestoreBucket(s, b)
  <2>1. b \notin buckets /\ buckets' = buckets \cup {b} /\ owned' = owned
    BY <1>2 DEF CreateBucket, RestoreBucket
  <2>2. \A c \in Buckets \ {b} : objects'[c] = objects[c]
    BY <1>2 DEF CreateBucket, RestoreBucket, OwnersInv, TypeOK
  <2>3. QED
    BY <1>1, <2>1, <2>2, AloofKeepsOwners
<1>3. CASE DeleteBucketAws(s, b) \/ DeleteBucketAzure(s, b) \/ DeleteBucketGcp(s, b)
  <2>1. owned' = owned \ ({b} \X Keys) /\ buckets \ {b} \subseteq buckets'
    BY <1>3 DEF DeleteBucketAws, DeleteBucketAzure, DeleteBucketGcp, AsksToDelete
  <2>2. \A c \in Buckets \ {b} : objects'[c] = objects[c]
    BY <1>3 DEF DeleteBucketAws, DeleteBucketAzure, DeleteBucketGcp, OwnersInv, TypeOK
  <2>3. QED
    BY <1>1, <2>1, <2>2, AloofKeepsOwners
<1>4. CASE ProbeNotFound(s, b) \/ SetBucketRetentionDurationDays(s, b)
  <2>1. UNCHANGED <<buckets, objects, owned>>
    BY <1>4 DEF ProbeNotFound, SetBucketRetentionDurationDays
  <2>2. QED
    BY <1>1, <2>1, AloofKeepsOwners
<1>5. QED
  BY <1>2, <1>3, <1>4 DEF BucketStep

(* TearDown deletes what it tracked, which is nothing of the owner's. *)
LEMMA ServiceStepKeepsOwners ==
    ASSUME OwnersInv, NEW s \in Services, ServiceStep(s)
    PROVE  OwnersObjectsKept' /\ Untargeted'
<1> USE DEF content, harness, history
<1>1. CASE ProbeCreated(s)
  <2>1. at[s] \in Buckets /\ Probe \in Keys
    BY <1>1, StorageAssumption DEF ProbeCreated, OwnersInv, TypeOK
  <2>2. QED
    BY <1>1, <2>1, CreateKeepsOwners DEF ProbeCreated
<1>2. ASSUME created[s] # <<>>, Untrack(s)
      PROVE  \A x \in Services : Tracked(x)' \subseteq Tracked(x)
  <2>1. created[s] \in Seq(Buckets \X Keys)
    BY DEF OwnersInv, TypeOK
  <2>2. created'[s] = Tail(created[s]) /\ \A x \in Services \ {s} : created'[x] = created[x]
    BY <1>2 DEF Untrack, OwnersInv, TypeOK
  <2>3. \A i \in DOMAIN created'[s] :
            i + 1 \in DOMAIN created[s] /\ created'[s][i] = created[s][i + 1]
    BY <1>2, <2>1, <2>2
  <2>4. QED
    BY <2>2, <2>3 DEF Tracked
<1>3. CASE TearDownDeletes(s)
  <2> DEFINE b == Head(created[s])[1]
             k == Head(created[s])[2]
  <2>1. created[s] # <<>> /\ Untrack(s) /\ Delete(b, k) /\ UNCHANGED <<buckets, owned>>
    BY <1>3 DEF TearDownDeletes
  <2>2. Head(created[s]) = <<b, k>> /\ b \in Buckets /\ k \in Keys
    BY <2>1 DEF OwnersInv, TypeOK
  <2>3. <<b, k>> \in Tracked(s)
    BY <2>1, <2>2 DEF Tracked, OwnersInv, TypeOK
  <2>4. <<b, k>> \notin owned
    BY <2>3 DEF OwnersInv, Untargeted
  <2>5. \A c \in Buckets, j \in Keys :
            <<c, j>> # <<b, k>> => objects'[c][j] = objects[c][j]
    BY <2>1, <2>2 DEF Delete, OwnersInv, TypeOK
  <2>6. QED
    BY <1>2, <2>1, <2>4, <2>5, AloofKeepsOwners
<1>4. CASE TearDownFindsNothing(s) \/ TearDownFails(s)
  <2>1. created[s] # <<>> /\ Untrack(s) /\ UNCHANGED <<buckets, objects, owned>>
    BY <1>4 DEF TearDownFindsNothing, TearDownFails
  <2>2. QED
    BY <1>2, <2>1, AloofKeepsOwners
<1>5. CASE ProbeNotCreated(s) \/ TearDown(s) \/ TearDownEnds(s) \/ Abandon(s)
  <2>1. UNCHANGED <<buckets, objects, owned, created>>
    BY <1>5 DEF ProbeNotCreated, TearDown, TearDownEnds, Abandon
  <2>2. \A x \in Services : Tracked(x)' = Tracked(x)
    BY <2>1 DEF Tracked
  <2>3. QED
    BY <2>1, <2>2, AloofKeepsOwners
<1>6. QED
  BY <1>1, <1>3, <1>4, <1>5 DEF ServiceStep

(* OwnersInv is inductive. *)
LEMMA OwnersInductive == OwnersInv /\ [Next]_vars => OwnersInv'
<1> SUFFICES ASSUME OwnersInv, [Next]_vars PROVE OwnersInv'
  OBVIOUS
<1>1. TypeOK'
  BY NextType DEF OwnersInv
<1>2. ASSUME NEW s \in Services, NEW b \in Buckets, NEW k \in Keys, ObjectStep(s, b, k)
      PROVE  OwnersObjectsKept' /\ Untargeted'
  <2>1. CASE CreateObject(s, b, k)
    BY <2>1, CreateKeepsOwners DEF CreateObject
  <2>2. CASE DeleteObject(s, b, k)
    <3>1. owned' = owned \ {<<b, k>>} /\ UNCHANGED <<buckets, created>>
      BY <2>2 DEF DeleteObject, harness
    <3>2. \A c \in Buckets, j \in Keys :
              <<c, j>> # <<b, k>> => objects'[c][j] = objects[c][j]
      BY <2>2 DEF DeleteObject, Delete, OwnersInv, TypeOK
    <3>3. \A x \in Services : Tracked(x)' = Tracked(x)
      BY <3>1 DEF Tracked
    <3>4. QED
      BY <3>1, <3>2, <3>3, AloofKeepsOwners
  <2>3. QED
    BY <1>2, <2>1, <2>2 DEF ObjectStep
<1>3. CASE UNCHANGED vars
  <2>1. UNCHANGED <<buckets, objects, owned, created>>
    BY <1>3 DEF vars, content, harness, history
  <2>2. \A x \in Services : Tracked(x)' = Tracked(x)
    BY <2>1 DEF Tracked
  <2>3. QED
    BY <1>1, <2>1, <2>2, AloofKeepsOwners DEF OwnersInv
<1>4. QED
  BY <1>1, <1>2, <1>3, ServiceStepKeepsOwners, BucketStepKeepsOwners DEF Next, OwnersInv

(* No TearDown takes away or changes what was in the buckets before the    *)
(* tests, unless a test step asked for it.                                 *)
THEOREM OwnersObjectsAreKept == Spec => []OwnersObjectsKept
<1>1. OwnersInv => OwnersObjectsKept
  BY DEF OwnersInv
<1>2. QED
  BY <1>1, OwnersInitial, OwnersInductive, PTL DEF Spec
=============================================================================
