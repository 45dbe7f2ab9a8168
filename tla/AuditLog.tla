------------------------------ MODULE AuditLog ------------------------------
(***************************************************************************)
(* What the logging services return of an account's log                    *)
(* (modules/cloud-api/logging/*.go): which entries each type of query      *)
(* keeps, and the result it shows for an entry.                            *)
(*                                                                         *)
(* An entry says which action was taken, for which of the checks it is the *)
(* evidence (its kind), who took it, on which resource, how it ended and   *)
(* whether the cloud has delivered it to the log, which comes later.  The  *)
(* resource is told by what the entry says of it:                          *)
(*                                                                         *)
(*   this    it has the name or id that the query has                      *)
(*   id      it is about the same resource, and has another of its ids     *)
(*   alike   it is about another one, in whose name that name is contained *)
(*   other   it is about another one                                       *)
(*   none    it names no resource                                          *)
(***************************************************************************)
EXTENDS FiniteSets

LogTypes == {"admin", "data-write", "data-read", "flow"}

(* The actions, and the verb the name of each begins with. *)
Verb == [UpdateFunctionConfiguration |-> "Update", Invoke |-> "Invoke",
         CreateTags |-> "Create", DescribeInstances |-> "Describe",
         AddPermission |-> "Add", PutConcurrency |-> "Put", GetObject |-> "GetObject",
         Patch |-> "Patch", Restart |-> "Restart", Blob |-> "Blob", Packets |-> "Packets"]

Results == {"Succeeded", "Failed", "Started", "OK", "NODATA", "short"}

Entry(by) == [action : DOMAIN Verb, kind : LogTypes, by : by,
              resource : {"this", "id", "alike", "other", "none"}, result : Results,
              state : {"recorded", "delivered"}]

(* Mutant of IsDataPlaneEventName: invocations are forgotten. *)
StorageNamesOnly(a) ==
    Verb[a] \in {"Put", "Delete", "Create", "Update", "Upload", "Copy", "Complete",
                 "Abort", "Restore", "Select", "GetObject", "HeadObject"}

IsDataPlaneEventName(a) ==
    Verb[a] \in {"Put", "Delete", "Create", "Update", "Upload", "Copy", "Invoke", "Complete",
                 "Abort", "Restore", "Select", "GetObject", "HeadObject"}

IsReadOnlyEventName(a) ==
    Verb[a] \in {"Get", "GetObject", "List", "Describe", "Head", "HeadObject", "Select", "BatchGet"}

-----------------------------------------------------------------------------
(* One operator per sink: the entries of the log that a query of it keeps.   *)

(* What contains the name that is asked for, somewhere. *)
Contains(e) == e.resource \in {"this", "alike"}

(* CloudTrail is filtered by the name of the event and by whether its text    *)
(* contains the name of the resource.                                         *)
QueryCloudTrail(log, type) ==
    {e \in log :
        /\ e.kind # "flow"
        /\ IF type = "admin"
             THEN ~IsDataPlaneEventName(e.action)
             ELSE /\ IsDataPlaneEventName(e.action)
                  /\ IsReadOnlyEventName(e.action) <=> type = "data-read"
        /\ Contains(e)}

(* CloudWatch filters the flow records by the id of the resource. *)
AWSQueryFlowLogs(log) == {e \in log : e.kind = "flow" /\ e.resource = "this"}

(* Mutant of QueryActivityLog: the entries are not matched with the resource. *)
WholeResourceGroup(log) == {e \in log : e.kind = "admin"}

(* An activity that names no resource is kept whatever resource is asked for. *)
QueryActivityLog(log) ==
    {e \in log : e.kind = "admin" /\ (Contains(e) \/ e.resource = "none")}

(* The category says whether the storage account was written or read. *)
QueryStorageLogs(log, type) == {e \in log : e.kind = type /\ e.resource = "this"}

AzureQueryFlowLogs(log) == {e \in log : e.kind = "flow" /\ Contains(e)}

(* The log's name tells activity, data access and flow apart, not the two    *)
(* kinds of data access.                                                     *)
LogNameForType(type) ==
    IF type \in {"data-write", "data-read"} THEN {"data-write", "data-read"} ELSE {type}

GCPQueryLogs(log, type) ==
    {e \in log : e.kind \in LogNameForType(type) /\ Contains(e)}

AWSQueryLogs(log, type) ==
    IF type = "flow" THEN AWSQueryFlowLogs(log) ELSE QueryCloudTrail(log, type)

AzureQueryLogs(log, type) ==
    CASE type = "admin" -> QueryActivityLog(log)
      [] type = "flow"  -> AzureQueryFlowLogs(log)
      [] OTHER          -> QueryStorageLogs(log, type)

QueryLogs(provider, log, type) ==
    CASE provider = "aws"   -> AWSQueryLogs(log, type)
      [] provider = "azure" -> AzureQueryLogs(log, type)
      [] provider = "gcp"   -> GCPQueryLogs(log, type)

-----------------------------------------------------------------------------
(* The result shown for an entry.                                            *)

(* A record of fewer than 14 fields is kept as a raw line, without result. *)
ParseFlowLogMessage(e) == IF e.result = "short" THEN "" ELSE e.result

(* Every event of CloudTrail is shown as succeeded, the refused ones too. *)
AWSResult(e) == IF e.kind = "flow" THEN ParseFlowLogMessage(e) ELSE "Succeeded"

(* The column StatusText is the result; the flow tables have no such column. *)
RunKQL(e) == IF e.kind = "flow" THEN "" ELSE e.result

AzureResult(e) == IF e.kind = "admin" THEN e.result ELSE RunKQL(e)

(* Cloud Logging shows the severity of the entry. *)
GCPResult(e) == IF e.result = "Failed" THEN "ERROR" ELSE "NOTICE"

ResultOf(provider, e) ==
    CASE provider = "aws"   -> AWSResult(e)
      [] provider = "azure" -> AzureResult(e)
      [] provider = "gcp"   -> GCPResult(e)

-----------------------------------------------------------------------------
(* The actions that CloudTrail's names file under another type than the      *)
(* check they are the evidence of.                                           *)
Misfiled(provider, e) ==
    /\ provider = "aws"
    /\ \/ e.kind = "admin" /\ e.action \in {"UpdateFunctionConfiguration", "CreateTags",
                                            "PutConcurrency"}
       \/ e.kind = "data-read" /\ e.action \in {"Invoke", "DescribeInstances"}
=============================================================================
