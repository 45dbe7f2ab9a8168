------------------------- MODULE ServiceProbesProofs -------------------------
(***************************************************************************)
(* Theorems about ServiceProbes, for any number of jobs on one account, any*)
(* configuration, lists and limits.  A job is affected by its own steps    *)
(* and, through the few things it watches (the endpoint, the calls left    *)
(* until the refill), by everybody else's; the invariants are about one    *)
(* job at a time.                                                          *)
(***************************************************************************)
EXTENDS ServiceProbes, FiniteSetTheorems, TLAPS

-----------------------------------------------------------------------------
(* One job at a time *)

(* The job record after a step of j, and nobody else's is touched. *)
OnlyChanges(j) == \A i \in Jobs : i # j => job'[i] = job[i]

(* A verdict, with the rest of the record left alone. *)
Same(i) ==
    /\ job'[i].scenario = job[i].scenario /\ job'[i].pc = job[i].pc
    /\ job'[i].verdict = job[i].verdict
    /\ job'[i].read = job[i].read /\ job'[i].readAt = job[i].readAt
    /\ job'[i].own = job[i].own /\ job'[i].clean = job[i].clean
    /\ job'[i].count = job[i].count /\ job'[i].left = job[i].left
    /\ job'[i].violations = job[i].violations /\ job'[i].permitted = job[i].permitted
    /\ job'[i].basis = job[i].basis /\ job'[i].missed = job[i].missed
    /\ job'[i].heard = job[i].heard
    /\ job[i].disturbed => job'[i].disturbed

(* What a job sees of a step that is not its own: its record stays, and     *)
(* when the endpoint or the limiter it looks at changes it is disturbed.    *)
Watches(i) ==
    /\ UNCHANGED settings
    /\ Same(i)
    /\ job[i].scenario \in {"surface", "public", "inbound"} /\ ~job'[i].disturbed => fn' = fn
    /\ job[i].scenario = "rate" /\ ~job'[i].disturbed => tokens' = tokens

(* A step of another job. *)
LEMMA OthersWatch ==
    ASSUME job \in [Jobs -> Job], NEW j \in Jobs, JobStep(j), NEW i \in Jobs, i # j
    PROVE  Watches(i)
<1> USE DEF Concludes, ConcludesDisturbed, Moves, settings, cloud
<1>1. CASE InvokeBurst(j)
  <2>1. PICK answer : job' = [k \in Jobs |->
              IF k = j
                THEN [job[k] EXCEPT !.count[Counted(answer)] = @ + 1,
                                    !.disturbed = @ \/ answer = "no answer"]
                ELSE [job[k] EXCEPT !.disturbed = @ \/ Doing(k, "rate")]]
    BY <1>1 DEF InvokeBurst
  <2>2. job'[i] = [job[i] EXCEPT !.disturbed = @ \/ Doing(i, "rate")] /\ job[i] \in Job
    BY <2>1
  <2>3. Same(i) /\ (job[i].scenario = "rate" => job'[i].disturbed)
    BY <2>2 DEF Same, Job, Doing
  <2>4. UNCHANGED <<settings, fn>>
    BY <1>1 DEF InvokeBurst
  <2>5. QED
    BY <2>3, <2>4 DEF Watches
<1>2. CASE ~InvokeBurst(j)
  <2>1. job'[i] = job[i]
    <3>1. CASE AWSTrigger(j)
      <4>1. PICK action, asserted : AWSCall(j, action, asserted)
        BY <3>1 DEF AWSTrigger, AWSFunctionUpdateResourcePolicy, AWSFunctionTriggerDataWrite,
           AWSFunctionTriggerDataRead, AWSMachineUpdateResourcePolicy, AWSMachineTriggerDataWrite,
           AWSMachineTriggerDataRead
      <4>2. QED
        BY <4>1 DEF AWSCall
    <3>2. CASE SilentTrigger(j) \/ GenerateTestTraffic(j)
      BY <3>2 DEF SilentTrigger, AzureFunctionTrigger, GCPFunctionTrigger, AzureMachineTrigger,
         GCPMachineTrigger, GenerateTestTraffic
    <3>3. CASE GCPReadLabels(j) \/ GCPPatchAccepted(j) \/ GCPPatchConflicts(j) \/ GCPPatchFails(j)
      BY <3>3 DEF GCPReadLabels, GCPPatchAccepted, GCPPatchConflicts, GCPPatchFails
    <3>4. CASE Query(j) \/ QueryFails(j)
      BY <3>4 DEF Query, QueryFails
    <3>5. CASE GetInvokeEndpointExposure(j) \/ FindsPublicURL(j) \/ AttemptPublicInternetInvoke(j)
      BY <3>5 DEF GetInvokeEndpointExposure, FindsPublicURL, AttemptPublicInternetInvoke
    <3>6. CASE AttemptPrivateInvoke(j)
      BY <3>6 DEF AttemptPrivateInvoke
    <3>7. CASE AttemptInboundConnection(j) \/ BurstFails(j)
      BY <3>7 DEF AttemptInboundConnection, BurstFails
    <3>8. CASE BurstEnds(j)
      BY <3>8 DEF BurstEnds, Bursting, At
    <3>9. CASE BatchStarts(j) \/ TryEntry(j) \/ BatchEnds(j)
      BY <3>9 DEF BatchStarts, TryEntry, Tried, BatchEnds
    <3>10. CASE Evaluate(j) \/ AttemptVpcPeeringDryRun(j)
      BY <3>10 DEF Evaluate, AttemptVpcPeeringDryRun
    <3>11. QED
      BY <1>2, <3>1, <3>2, <3>3, <3>4, <3>5, <3>6, <3>7, <3>8, <3>9, <3>10 DEF JobStep
  <2>2. UNCHANGED <<settings, fn, tokens>>
    BY <1>2 DEF JobStep, AWSTrigger, SilentTrigger, GenerateTestTraffic, GCPReadLabels, GCPPatchAccepted,
       GCPPatchConflicts, GCPPatchFails, Query, QueryFails, GetInvokeEndpointExposure, FindsPublicURL,
       AttemptPublicInternetInvoke, AttemptPrivateInvoke, AttemptInboundConnection, BurstFails, BurstEnds,
       BatchStarts, TryEntry, BatchEnds, Evaluate, AttemptVpcPeeringDryRun
  <2>3. QED
    BY <2>1, <2>2 DEF Watches, Same
<1>3. QED
  BY <1>1, <1>2

(* A step of the cloud or of other people. *)
LEMMA CloudWatch ==
    ASSUME job \in [Jobs -> Job], CloudStep, NEW i \in Jobs
    PROVE  Watches(i)
<1>1. job[i] \in Job
  OBVIOUS
<1>2. CASE Refill \/ Reconfigure
  <2>1. PICK s \in {{"rate"}, {"surface", "public", "inbound"}} :
            /\ Disturbs(s)
            /\ UNCHANGED settings
            /\ fn' # fn => s = {"surface", "public", "inbound"}
            /\ tokens' # tokens => s = {"rate"}
    BY <1>2 DEF Refill, Reconfigure
  <2>2. job'[i] = [job[i] EXCEPT !.disturbed = @ \/ job[i].scenario \in s]
    BY <2>1 DEF Disturbs
  <2>3. Same(i) /\ (job[i].scenario \in s => job'[i].disturbed)
    BY <1>1, <2>2 DEF Same, Job
  <2>4. QED
    BY <2>1, <2>3 DEF Watches
<1>3. CASE ~(Refill \/ Reconfigure)
  <2>1. UNCHANGED <<settings, fn, tokens, job>>
    BY <1>3 DEF CloudStep, Deliver, Expire, OthersAct, OthersLabel, OperationDone, OperationFails
  <2>2. QED
    BY <2>1 DEF Watches, Same
<1>4. QED
  BY <1>2, <1>3

(* Every step is a step of a job, or one that it watches. *)
LEMMA StepOrWatch ==
    ASSUME job \in [Jobs -> Job], [Next]_vars, NEW i \in Jobs
    PROVE  JobStep(i) \/ Watches(i)
<1>1. CASE UNCHANGED vars
  BY <1>1 DEF vars, cloud, Watches, Same
<1>2. QED
  BY <1>1, OthersWatch, CloudWatch DEF Next

-----------------------------------------------------------------------------
(* How a scenario goes on *)

(* A step of a job: the scenario stays, only the query can miss an entry,   *)
(* and it ends with a verdict or goes on to a step its scenario has.        *)
Advances(j) ==
    /\ UNCHANGED settings
    /\ job'[j].scenario = job[j].scenario /\ job[j].pc # "done"
    /\ job'[j].missed = job[j].missed \/ Query(j)
    /\ \/ job'[j].pc = "done" /\ job'[j].verdict \in {"pass", "fail"}
       \/ /\ job'[j].verdict = job[j].verdict
          /\ \/ job[j].pc = "trigger" /\ job'[j].pc = "query"
             \/ /\ job[j].pc = "trigger" /\ job'[j].pc = "patch" /\ GCPReadLabels(j)
                /\ provider = "gcp" /\ job[j].scenario = "admin"
             \/ job[j].pc = "patch" /\ job'[j].pc \in {"patch", "query"}
             \/ job[j].pc = "look" /\ job[j].scenario = "public" /\ job'[j].pc = "call"
             \/ /\ job[j].scenario = "rate" /\ job[j].pc \in {"burst", "overrun"}
                /\ job'[j].pc \in {job[j].pc, "overrun"}
             \/ job[j].pc \in {"batch", "peer"} /\ job'[j].pc = "peer"
             \/ job[j].pc = "evaluate" /\ job'[j].pc = "dryrun"

(* Every step of a job is such a step. *)
LEMMA JobsAdvance ==
    ASSUME job \in [Jobs -> Job], NEW j \in Jobs, JobStep(j)
    PROVE  Advances(j)
<1>0. job[j] \in Job
  OBVIOUS
<1>u. UNCHANGED settings
  BY DEF JobStep, AWSTrigger, SilentTrigger, GenerateTestTraffic, GCPReadLabels, GCPPatchAccepted,
       GCPPatchConflicts, GCPPatchFails, Query, QueryFails, GetInvokeEndpointExposure, FindsPublicURL,
       AttemptPublicInternetInvoke, AttemptPrivateInvoke, AttemptInboundConnection, BurstFails, InvokeBurst,
       BurstEnds, BatchStarts, TryEntry, BatchEnds, Evaluate, AttemptVpcPeeringDryRun
<1>c. ASSUME NEW passed, Concludes(j, passed) \/ ConcludesDisturbed(j, passed), job[j].pc # "done"
      PROVE  Advances(j)
  BY <1>0, <1>c, <1>u DEF Concludes, ConcludesDisturbed, Advances, Job
<1>m. ASSUME NEW pc, Moves(j, pc)
      PROVE  /\ job'[j].scenario = job[j].scenario /\ job'[j].verdict = job[j].verdict
             /\ job'[j].missed = job[j].missed /\ job'[j].pc = pc
  BY <1>0, <1>m DEF Moves, Job
<1>1. CASE AWSTrigger(j)
  <2>1. PICK action, asserted : AWSCall(j, action, asserted)
    BY <1>1 DEF AWSTrigger, AWSFunctionUpdateResourcePolicy, AWSFunctionTriggerDataWrite,
       AWSFunctionTriggerDataRead, AWSMachineUpdateResourcePolicy, AWSMachineTriggerDataWrite,
       AWSMachineTriggerDataRead
  <2>2. job[j].pc = "trigger" /\ (Concludes(j, FALSE) \/ Moves(j, "query"))
    BY <1>1, <2>1 DEF AWSTrigger, AWSCall, At
  <2>3. QED
    BY <1>u, <1>c, <1>m, <2>2 DEF Advances
<1>2. CASE SilentTrigger(j)
  BY <1>u, <1>m, <1>2 DEF SilentTrigger, AzureFunctionTrigger, GCPFunctionTrigger, AzureMachineTrigger,
     GCPMachineTrigger, At, Advances
<1>3. CASE GenerateTestTraffic(j)
  <2>1. PICK clean \in BOOLEAN : job' = [job EXCEPT ![j].pc = "query", ![j].clean = clean]
    BY <1>3 DEF GenerateTestTraffic
  <2>2. QED
    BY <1>0, <1>u, <1>3, <2>1 DEF GenerateTestTraffic, At, Advances, Job
<1>4. CASE GCPReadLabels(j)
  <2>1. CASE Concludes(j, FALSE)
    BY <1>c, <1>4, <2>1 DEF GCPReadLabels, At
  <2>2. CASE job' = [job EXCEPT ![j].pc = "patch", ![j].read = labels, ![j].readAt = version]
    BY <1>0, <1>u, <1>4, <2>2 DEF GCPReadLabels, At, Doing, Advances, Job
  <2>3. QED
    BY <1>4, <2>1, <2>2 DEF GCPReadLabels
<1>5. CASE GCPPatchAccepted(j) \/ GCPPatchFails(j)
  BY <1>u, <1>c, <1>m, <1>5 DEF GCPPatchAccepted, GCPPatchFails, At, Advances
<1>6. CASE GCPPatchConflicts(j)
  <2>1. CASE job' = [job EXCEPT ![j].attempt = @ + 1]
    BY <1>0, <1>u, <1>6, <2>1 DEF GCPPatchConflicts, At, Advances, Job
  <2>2. QED
    BY <1>c, <1>6, <2>1 DEF GCPPatchConflicts, At
<1>7. CASE Query(j)
  <2>1. PICK verdict \in {"pass", "fail"} : \E basis, missed :
            job' = [job EXCEPT ![j].pc = "done", ![j].verdict = verdict,
                               ![j].basis = basis, ![j].missed = missed]
    BY <1>7 DEF Query
  <2>2. QED
    BY <1>0, <1>u, <1>7, <2>1 DEF Query, At, Advances, Job
<1>8. CASE QueryFails(j)
  BY <1>c, <1>8 DEF QueryFails, At
<1>9. CASE GetInvokeEndpointExposure(j)
  BY <1>c, <1>9 DEF GetInvokeEndpointExposure, At
<1>10. CASE FindsPublicURL(j)
  <2>1. CASE job' = [job EXCEPT ![j].pc = "call", ![j].own = TRUE]
    BY <1>0, <1>u, <1>10, <2>1 DEF FindsPublicURL, At, Doing, Advances, Job
  <2>2. CASE Moves(j, "call")
    BY <1>u, <1>m, <1>10, <2>2 DEF FindsPublicURL, At, Doing, Advances
  <2>3. QED
    BY <1>c, <1>10, <2>1, <2>2 DEF FindsPublicURL, At
<1>11. CASE AttemptPublicInternetInvoke(j)
  <2>1. PICK verdict \in {"pass", "fail"} : \E heard :
            job' = [job EXCEPT ![j].pc = "done", ![j].verdict = verdict, ![j].heard = heard]
    BY <1>11 DEF AttemptPublicInternetInvoke
  <2>2. QED
    BY <1>0, <1>u, <1>11, <2>1 DEF AttemptPublicInternetInvoke, At, Advances, Job
<1>12. CASE AttemptPrivateInvoke(j)
  BY <1>c, <1>12 DEF AttemptPrivateInvoke, At
<1>13. CASE AttemptInboundConnection(j)
  BY <1>c, <1>13 DEF AttemptInboundConnection, At
<1>14. CASE BurstFails(j)
  BY <1>c, <1>14 DEF BurstFails, Bursting
<1>15. CASE InvokeBurst(j)
  <2>1. PICK answer : job'[j] = [job[j] EXCEPT !.count[Counted(answer)] = @ + 1,
                                               !.disturbed = @ \/ answer = "no answer"]
    BY <1>15 DEF InvokeBurst
  <2>2. QED
    BY <1>0, <1>u, <1>15, <2>1 DEF InvokeBurst, Bursting, Doing, Advances, Job
<1>16. CASE BurstEnds(j)
  <2>1. CASE job' = [job EXCEPT ![j].pc = "overrun", ![j].count = [c \in DOMAIN @ |-> 0]]
    BY <1>0, <1>u, <1>16, <2>1 DEF BurstEnds, Bursting, Doing, Advances, Job
  <2>2. QED
    BY <1>c, <1>16, <2>1 DEF BurstEnds, Bursting, At
<1>17. CASE BatchStarts(j)
  <2>1. CASE job' = [job EXCEPT ![j].pc = "peer", ![j].left = ListOf(job[j].scenario)]
    BY <1>0, <1>u, <1>17, <2>1 DEF BatchStarts, At, Advances, Job
  <2>2. QED
    BY <1>c, <1>17, <2>1 DEF BatchStarts, At
<1>18. CASE TryEntry(j)
  <2>1. CASE Concludes(j, FALSE)
    BY <1>c, <1>18, <2>1 DEF TryEntry, At
  <2>2. ASSUME NEW entry, NEW permitted, NEW mismatch, NEW disturbed, Tried(j, entry, permitted, mismatch, disturbed)
        PROVE  /\ job'[j].scenario = job[j].scenario /\ job'[j].verdict = job[j].verdict
               /\ job'[j].missed = job[j].missed /\ job'[j].pc = job[j].pc
    BY <1>0, <2>2 DEF Tried, Job
  <2>3. QED
    BY <1>u, <1>18, <2>1, <2>2 DEF TryEntry, At, Advances
<1>19. CASE BatchEnds(j)
  BY <1>c, <1>19 DEF BatchEnds, At
<1>20. CASE Evaluate(j)
  BY <1>u, <1>c, <1>m, <1>20 DEF Evaluate, At, Advances
<1>21. CASE AttemptVpcPeeringDryRun(j)
  <2>1. CASE Concludes(j, FALSE)
    BY <1>c, <1>21, <2>1 DEF AttemptVpcPeeringDryRun, At
  <2>2. ASSUME NEW verdict \in {"pass", "fail"}, NEW permitted, NEW disturbed,
               job' = [job EXCEPT ![j].pc = "done", ![j].verdict = verdict,
                                  ![j].permitted = permitted, ![j].disturbed = disturbed]
        PROVE  Advances(j)
    BY <1>0, <1>u, <1>21, <2>2 DEF AttemptVpcPeeringDryRun, At, Advances, Job
  <2>3. QED
    BY <1>21, <2>1, <2>2 DEF AttemptVpcPeeringDryRun
<1>22. QED
  BY <1>1, <1>2, <1>3, <1>4, <1>5, <1>6, <1>7, <1>8, <1>9, <1>10, <1>11, <1>12, <1>13, <1>14, <1>15,
     <1>16, <1>17, <1>18, <1>19, <1>20, <1>21 DEF JobStep

-----------------------------------------------------------------------------
(* Types *)

(* The part of TypeOK that is about the cloud. *)
CloudTyped ==
    /\ provider \in Providers
    /\ service \in Services
    /\ config \in Config
    /\ denied \subseteq Networks
    /\ fn \in [exposed : BOOLEAN, open : BOOLEAN]
    /\ limit \in Limits /\ tokens \in Nat /\ (limit # None => tokens <= limit)
    /\ labels \subseteq Jobs \cup {Other}
    /\ operation = None \/ operation \in [labels : SUBSET (Jobs \cup {Other}), by : Jobs \cup {Other}]
    /\ version \in Nat
    /\ log \subseteq Entry(Jobs \cup {Other})
    /\ changes \in 0..MaxChanges

(* An entry is of one of the providers this model knows. *)
LEMMA KnownProvider ==
    ASSUME CloudTyped
    PROVE  provider \in {"aws", "azure", "gcp"}
BY ProbesAssumption DEF CloudTyped

(* The kinds of log each logged scenario asks for. *)
LEMMA LogTypesOf ==
    /\ \A s : Logged(s) <=> s \in {"admin", "write", "read", "flow"}
    /\ LogTypeOf["admin"] = "admin" /\ LogTypeOf["write"] = "data-write"
    /\ LogTypeOf["read"] = "data-read" /\ LogTypeOf["flow"] = "flow"
BY DEF Logged, LogTypeOf

(* A query returns entries of the log. *)
LEMMA QueriesSelect ==
    ASSUME CloudTyped, NEW j
    PROVE  Matching(j) \subseteq Visible /\ Visible \subseteq log
BY KnownProvider DEF Matching, Found, QueryLogs, AWSQueryLogs, AzureQueryLogs, GCPQueryLogs, QueryCloudTrail,
   AWSQueryFlowLogs, QueryActivityLog, QueryStorageLogs, AzureQueryFlowLogs, Visible

(* Others can only disturb a job. *)
LEMMA DisturbedTyped ==
    ASSUME NEW x \in Job, NEW b \in BOOLEAN
    PROVE  [x EXCEPT !.disturbed = @ \/ b] \in Job
<1>1. (x.disturbed \/ b) \in BOOLEAN
  BY DEF Job
<1>2. QED
  BY <1>1 DEF Job

(* A dry run is permitted or denied, on AWS as the guardrail says, and its  *)
(* evidence compares that with the allow-list.                              *)
LEMMA DryRuns ==
    ASSUME CloudTyped, NEW requester, NEW evidence \in DryRun(provider, config.lists, denied, requester)
    PROVE  \E permitted \in BOOLEAN :
             /\ evidence = EnrichEvidence(config.lists, requester, permitted)
             /\ provider = "aws" /\ permitted => requester \notin denied
<1>1. CASE provider = "aws"
  <2>1. DryRun(provider, config.lists, denied, requester) = AWSDryRun(config.lists, denied, requester)
    BY <1>1 DEF DryRun
  <2>2. PICK permitted \in {requester \notin denied, FALSE} :
            evidence = EnrichEvidence(config.lists, requester, permitted)
    BY <2>1 DEF AWSDryRun
  <2>3. permitted \in BOOLEAN /\ (permitted => requester \notin denied)
    BY <2>2
  <2>4. QED
    BY <2>2, <2>3
<1>2. CASE provider # "aws"
  <2>1. evidence = EnrichEvidence(config.lists, requester, SimulatedGuardrail(config.lists, requester))
    BY <1>2, KnownProvider DEF DryRun, AzureDryRun, GCPDryRun
  <2>2. SimulatedGuardrail(config.lists, requester) \in BOOLEAN
    BY DEF SimulatedGuardrail
  <2>3. QED
    BY <1>2, <2>1, <2>2
<1>3. QED
  BY <1>1, <1>2

(* Every step of a job leaves well-typed jobs. *)
LEMMA JobsTypedKept ==
    ASSUME CloudTyped, job \in [Jobs -> Job], NEW j \in Jobs, JobStep(j)
    PROVE  job' \in [Jobs -> Job]
<1>0. job[j] \in Job
  OBVIOUS
<1>c. ASSUME NEW passed, Concludes(j, passed) \/ ConcludesDisturbed(j, passed)
      PROVE  job' \in [Jobs -> Job]
  <2>1. CASE Concludes(j, passed)
    <3>1. PICK v \in {"pass", "fail"} : job' = [job EXCEPT ![j].pc = "done", ![j].verdict = v]
      BY <2>1 DEF Concludes
    <3>2. QED
      BY <1>0, <3>1 DEF Job, Steps
  <2>2. CASE ConcludesDisturbed(j, passed)
    <3>1. PICK v \in {"pass", "fail"} :
            job' = [job EXCEPT ![j].pc = "done", ![j].verdict = v, ![j].disturbed = TRUE]
      BY <2>2 DEF ConcludesDisturbed
    <3>2. QED
      BY <1>0, <3>1 DEF Job, Steps
  <2>3. QED
    BY <1>c, <2>1, <2>2
<1>m. ASSUME NEW pc \in Steps, Moves(j, pc)
      PROVE  job' \in [Jobs -> Job]
  BY <1>0, <1>m DEF Moves, Job
<1>1. CASE AWSTrigger(j)
  <2>1. PICK action, asserted : AWSCall(j, action, asserted)
    BY <1>1 DEF AWSTrigger, AWSFunctionUpdateResourcePolicy, AWSFunctionTriggerDataWrite,
       AWSFunctionTriggerDataRead, AWSMachineUpdateResourcePolicy, AWSMachineTriggerDataWrite,
       AWSMachineTriggerDataRead
  <2>2. Concludes(j, FALSE) \/ Moves(j, "query")
    BY <2>1 DEF AWSCall
  <2>3. QED
    BY <1>c, <1>m, <2>2 DEF Steps
<1>2. CASE SilentTrigger(j)
  BY <1>m, <1>2 DEF SilentTrigger, AzureFunctionTrigger, GCPFunctionTrigger, AzureMachineTrigger,
     GCPMachineTrigger, Steps
<1>3. CASE GenerateTestTraffic(j)
  <2>1. PICK clean \in BOOLEAN : job' = [job EXCEPT ![j].pc = "query", ![j].clean = clean]
    BY <1>3 DEF GenerateTestTraffic
  <2>2. QED
    BY <1>0, <2>1 DEF Job, Steps
<1>4. CASE GCPReadLabels(j)
  <2>1. CASE job' = [job EXCEPT ![j].pc = "patch", ![j].read = labels, ![j].readAt = version]
    BY <1>0, <2>1 DEF Job, Steps, CloudTyped
  <2>2. QED
    BY <1>c, <1>4, <2>1 DEF GCPReadLabels
<1>5. CASE GCPPatchAccepted(j) \/ GCPPatchFails(j)
  BY <1>c, <1>m, <1>5 DEF GCPPatchAccepted, GCPPatchFails, Steps
<1>6. CASE GCPPatchConflicts(j)
  <2>1. CASE job[j].attempt + 1 < MaxAttempts /\ job' = [job EXCEPT ![j].attempt = @ + 1]
    <3>1. job[j].attempt + 1 \in 0..MaxAttempts
      BY <1>0, <2>1, ProbesAssumption DEF Job
    <3>2. QED
      BY <1>0, <2>1, <3>1 DEF Job
  <2>2. QED
    BY <1>c, <1>6, <2>1 DEF GCPPatchConflicts
<1>7. CASE Query(j)
  <2>1. Matching(j) \subseteq Entry(Jobs \cup {Other})
    BY QueriesSelect DEF CloudTyped
  <2>0. OwnEvidence(j) \subseteq Entry(Jobs \cup {Other})
    BY QueriesSelect DEF CloudTyped, OwnEvidence
  <2> HIDE DEF Matching, OwnEvidence
  <2>2. PICK verdict \in {"pass", "fail"}, basis \in {Matching(j), {}}, missed \in {{}, OwnEvidence(j)} :
            job' = [job EXCEPT ![j].pc = "done", ![j].verdict = verdict,
                               ![j].basis = basis, ![j].missed = missed]
    BY <1>7 DEF Query
  <2>3. basis \in SUBSET Entry(Jobs \cup {Other}) /\ missed \in SUBSET Entry(Jobs \cup {Other})
    BY <2>0, <2>1, <2>2
  <2>4. QED
    BY <1>0, <2>2, <2>3 DEF Job, Steps
<1>8. CASE QueryFails(j)
  BY <1>c, <1>8 DEF QueryFails
<1>9. CASE GetInvokeEndpointExposure(j)
  BY <1>c, <1>9 DEF GetInvokeEndpointExposure
<1>10. CASE FindsPublicURL(j)
  <2>1. CASE job' = [job EXCEPT ![j].pc = "call", ![j].own = TRUE]
    BY <1>0, <2>1 DEF Job, Steps
  <2>2. QED
    BY <1>c, <1>m, <1>10, <2>1 DEF FindsPublicURL, Steps
<1>p. CASE AttemptPublicInternetInvoke(j)
  <2>1. PICK answer, verdict : /\ verdict \in {"pass", "fail"}
            /\ job' = [job EXCEPT ![j].pc = "done", ![j].verdict = verdict,
                                  ![j].heard = HeardFrom(answer, Served(job[j].own))]
    BY <1>p DEF AttemptPublicInternetInvoke
  <2>2. HeardFrom(answer, Served(job[j].own)) \in {"nothing", "function", "cloud"}
    BY DEF HeardFrom, Served
  <2> HIDE DEF HeardFrom, Served
  <2>3. QED
    BY <1>0, <2>1, <2>2 DEF Job, Steps
<1>11. CASE AttemptPrivateInvoke(j) \/ AttemptInboundConnection(j)
  BY <1>c, <1>11 DEF AttemptPrivateInvoke, AttemptInboundConnection
<1>12. CASE BurstFails(j)
  BY <1>c, <1>12 DEF BurstFails
<1>13. CASE InvokeBurst(j)
  <2>1. PICK answer : job' = [k \in Jobs |->
              IF k = j
                THEN [job[k] EXCEPT !.count[Counted(answer)] = @ + 1,
                                    !.disturbed = @ \/ answer = "no answer"]
                ELSE [job[k] EXCEPT !.disturbed = @ \/ Doing(k, "rate")]]
    BY <1>13 DEF InvokeBurst
  <2>2. Counted(answer) \in {"ok", "throttled", "failed"}
    BY KnownProvider DEF Counted, AWSInvokeFunctionBurst, AzureInvokeFunctionBurst, GCPInvokeFunctionBurst,
       AWSCounted, HTTPCounted
  <2>3. [job[j].count EXCEPT ![Counted(answer)] = @ + 1] \in [ok : Nat, throttled : Nat, failed : Nat]
    BY <1>0, <2>2 DEF Job
  <2>4. [job[j] EXCEPT !.count[Counted(answer)] = @ + 1] \in Job
    BY <1>0, <2>3 DEF Job
  <2>5. (answer = "no answer") \in BOOLEAN
    OBVIOUS
  <2>6. [[job[j] EXCEPT !.count[Counted(answer)] = @ + 1] EXCEPT !.disturbed = @ \/ answer = "no answer"] \in Job
    BY <2>4, <2>5, DisturbedTyped
  <2>7. ASSUME NEW i \in Jobs
        PROVE  [job[i] EXCEPT !.disturbed = @ \/ Doing(i, "rate")] \in Job
    <3>1. Doing(i, "rate") \in BOOLEAN /\ job[i] \in Job
      BY DEF Doing
    <3>2. QED
      BY <3>1, DisturbedTyped
  <2>8. QED
    BY <2>1, <2>6, <2>7
<1>14. CASE BurstEnds(j)
  <2>1. CASE job' = [job EXCEPT ![j].pc = "overrun", ![j].count = [c \in DOMAIN @ |-> 0]]
    <3>1. [c \in DOMAIN job[j].count |-> 0] \in [ok : Nat, throttled : Nat, failed : Nat]
      BY <1>0 DEF Job
    <3>2. QED
      BY <1>0, <2>1, <3>1 DEF Job, Steps
  <2>2. QED
    BY <1>c, <1>14, <2>1 DEF BurstEnds, Bursting, At
<1>15. CASE BatchStarts(j)
  <2>1. CASE job' = [job EXCEPT ![j].pc = "peer", ![j].left = ListOf(job[j].scenario)]
    <3>1. ListOf(job[j].scenario) \subseteq Spellings
      BY DEF ListOf, AllowedEntries, DisallowedEntries, ResolveVpcEntries, CloudTyped, Config
    <3>2. QED
      BY <1>0, <2>1, <3>1 DEF Job, Steps
  <2>2. QED
    BY <1>c, <1>15, <2>1 DEF BatchStarts
<1>16. CASE TryEntry(j)
  <2>1. ASSUME NEW entry \in job[j].left, NEW permitted \in BOOLEAN, NEW mismatch \in BOOLEAN,
               NEW disturbed \in BOOLEAN, Tried(j, entry, permitted, mismatch, disturbed)
        PROVE  job' \in [Jobs -> Job]
    <3>1. /\ job[j].left \ {entry} \subseteq Spellings
          /\ (IF permitted THEN job[j].permitted \cup {entry} ELSE job[j].permitted) \subseteq Spellings
          /\ (IF mismatch THEN job[j].violations \cup {entry} ELSE job[j].violations) \subseteq Spellings
          /\ (job[j].disturbed \/ disturbed) \in BOOLEAN
      BY <1>0 DEF Job
    <3>2. QED
      BY <1>0, <2>1, <3>1 DEF Tried, Job
  <2>2. ASSUME NEW requester, NEW evidence \in DryRun(provider, config.lists, denied, requester)
        PROVE  evidence.permitted \in BOOLEAN /\ evidence.mismatch \in BOOLEAN
               /\ Mistaken(requester, evidence) \in BOOLEAN
    <3>1. PICK permitted \in BOOLEAN : evidence = EnrichEvidence(config.lists, requester, permitted)
      BY <2>2, DryRuns
    <3>2. Mistaken(requester, evidence) \in BOOLEAN
      BY DEF Mistaken
    <3>3. QED
      BY <3>1, <3>2 DEF EnrichEvidence
  <2>3. QED
    BY <1>c, <1>16, <2>1, <2>2 DEF TryEntry
<1>17. CASE BatchEnds(j)
  BY <1>c, <1>17 DEF BatchEnds
<1>18. CASE Evaluate(j)
  BY <1>c, <1>m, <1>18 DEF Evaluate, Steps
<1>19. CASE AttemptVpcPeeringDryRun(j)
  <2>1. ASSUME NEW verdict \in {"pass", "fail"}, NEW permitted \in SUBSET Spellings, NEW b \in BOOLEAN,
               job' = [job EXCEPT ![j].pc = "done", ![j].verdict = verdict,
                                  ![j].permitted = permitted, ![j].disturbed = @ \/ b]
        PROVE  job' \in [Jobs -> Job]
    <3>1. (job[j].disturbed \/ b) \in BOOLEAN
      BY <1>0 DEF Job
    <3>2. QED
      BY <1>0, <2>1, <3>1 DEF Job, Steps
  <2>2. ASSUME NEW evidence
        PROVE  (IF evidence.permitted THEN {config.requester} ELSE {}) \in SUBSET Spellings
    BY DEF CloudTyped, Config
  <2>3. \A evidence : Mistaken(Resolved[config.requester], evidence) \in BOOLEAN
    BY DEF Mistaken
  <2>4. QED
    BY <1>c, <1>19, <2>1, <2>2, <2>3 DEF AttemptVpcPeeringDryRun
<1>20. QED
  BY <1>1, <1>2, <1>3, <1>4, <1>5, <1>6, <1>7, <1>8, <1>9, <1>10, <1>11, <1>12, <1>13, <1>14, <1>15,
     <1>16, <1>17, <1>18, <1>19, <1>p DEF JobStep

(* The steps a kind of scenario has, and the verdict it has when it is over. *)
InStage(j) ==
    LET s == job[j].scenario
        pc == job[j].pc
    IN  /\ s \in ScenariosOf(service)
        /\ s \in {"admin", "write", "read", "flow"} => pc \in {"trigger", "patch", "query", "done"}
        /\ s \in {"surface", "private", "inbound"} => pc \in {"look", "done"}
        /\ s = "public" => pc \in {"look", "call", "done"}
        /\ s = "rate" => pc \in {"burst", "overrun", "done"}
        /\ s \in {"disallow", "allow"} => pc \in {"batch", "peer", "done"}
        /\ s = "unlisted" => pc \in {"evaluate", "dryrun", "done"}
        /\ s = "none" => pc = "done"
        /\ pc = "patch" => provider = "gcp" /\ s = "admin"
        /\ job[j].verdict = "none" <=> (pc # "done" \/ s = "none")

(* No step takes a job to a step that its scenario does not have. *)
LEMMA InStageKept ==
    ASSUME job \in [Jobs -> Job], [Next]_vars, NEW j \in Jobs, InStage(j)
    PROVE  InStage(j)'
<1>1. CASE Watches(j)
  BY <1>1 DEF Watches, Same, InStage, settings, ScenariosOf
<1>2. CASE Advances(j)
  <2>1. UNCHANGED <<provider, service>> /\ job'[j].scenario = job[j].scenario
    BY <1>2 DEF Advances, settings
  <2>2. ScenariosOf(service)' = ScenariosOf(service)
    BY <2>1 DEF ScenariosOf
  <2>3. CASE job'[j].pc = "done" /\ job'[j].verdict \in {"pass", "fail"}
    BY <1>2, <2>1, <2>2, <2>3 DEF Advances, InStage
  <2>4. CASE job'[j].verdict = job[j].verdict
    BY <1>2, <2>1, <2>2, <2>4 DEF Advances, InStage
  <2>5. QED
    BY <1>2, <2>3, <2>4 DEF Advances
<1>3. QED
  BY <1>1, <1>2, StepOrWatch, JobsAdvance

(* What CloudTrail calls the actions taken, and the checks they are the     *)
(* evidence of.                                                             *)
AWSEvidence ==
    {<<"UpdateFunctionConfiguration", "admin">>, <<"Invoke", "data-write">>, <<"Invoke", "data-read">>,
     <<"CreateTags", "admin">>, <<"CreateTags", "data-write">>, <<"DescribeInstances", "data-read">>,
     <<"AddPermission", "admin">>, <<"PutConcurrency", "admin">>, <<"Packets", "flow">>}

(* Where AWS names the resource under test by another id than the query. *)
ByOtherId(e) == e.resource = "id" /\ provider = "aws" /\ (config.byName \/ e.kind = "flow")

(* Who can have caused an entry, and what it can be about. *)
TrueEntry(e) ==
    /\ e \in Entry(Jobs \cup {Other})
    /\ e.by \in Jobs => e.resource = "this" \/ ByOtherId(e)
    /\ provider = "aws" => <<e.action, e.kind>> \in AWSEvidence
    /\ provider = "azure" /\ e.kind # "flow" => e.by = Other

(* The log holds such entries only. *)
LogTrue == \A e \in log : TrueEntry(e)

(* The names of the actions. *)
LEMMA Actions ==
    DOMAIN Verb = {"UpdateFunctionConfiguration", "Invoke", "CreateTags", "DescribeInstances",
                   "AddPermission", "PutConcurrency", "GetObject", "Patch", "Restart", "Blob", "Packets"}
BY DEF Verb

(* What a job causes is about the resource under test, and what AWS logs is *)
(* one of the actions above.                                                *)
LEMMA JobsLog ==
    ASSUME CloudTyped, LogTrue, NEW j \in Jobs, InStage(j), JobStep(j)
    PROVE  LogTrue'
<1>0. UNCHANGED <<provider, service, config>>
  <2>1. UNCHANGED settings
    BY DEF JobStep, AWSTrigger, SilentTrigger, GenerateTestTraffic, GCPReadLabels, GCPPatchAccepted,
       GCPPatchConflicts, GCPPatchFails, Query, QueryFails, GetInvokeEndpointExposure, FindsPublicURL,
       AttemptPublicInternetInvoke, AttemptPrivateInvoke, AttemptInboundConnection, BurstFails, InvokeBurst,
       BurstEnds, BatchStarts, TryEntry, BatchEnds, Evaluate, AttemptVpcPeeringDryRun
  <2>2. QED
    BY <2>1 DEF settings
<1>l. \A e \in log : TrueEntry(e)'
  BY <1>0 DEF LogTrue, TrueEntry, ByOtherId
<1>1. CASE log' = log
  BY <1>l, <1>1 DEF LogTrue
<1>2. ASSUME NEW action \in DOMAIN Verb, NEW kind \in LogTypes, NEW result \in Results,
             provider = "aws" => <<action, kind>> \in AWSEvidence,
             provider = "azure" => kind = "flow"
      PROVE  TrueEntry(Happened(j, action, kind, result))'
  <2>1. NamedAs' \in {"this", "id"} /\ (NamedAs' = "id" => provider' = "aws" /\ config'.byName)
    BY DEF NamedAs
  <2> HIDE DEF NamedAs
  <2>2. QED
    BY <1>0, <1>2, <2>1, ProbesAssumption DEF Happened, TrueEntry, ByOtherId, Entry
<1>h. \A action, kind, result :
          Happened(j, action, kind, result)' = Happened(j, action, kind, result)
  BY <1>0 DEF Happened, NamedAs
<1>n. ASSUME NEW e, NEW resource \in {"this", "id"}, TrueEntry(e)', resource = "id" => provider = "aws" /\ e.kind = "flow"
      PROVE  TrueEntry([e EXCEPT !.resource = resource])'
  BY <1>0, <1>n DEF TrueEntry, ByOtherId, Entry
<1>3. CASE AWSTrigger(j)
  <2>0. provider = "aws"
    BY <1>3 DEF AWSTrigger
  <2>a. \E action, asserted :
            /\ AWSCall(j, action, asserted)
            /\ action \in DOMAIN Verb /\ LogTypeOf[job[j].scenario] \in LogTypes
            /\ <<action, LogTypeOf[job[j].scenario]>> \in AWSEvidence
    <3> USE Actions, LogTypesOf DEF Doing, LogTypes, AWSEvidence
    <3>1. CASE AWSFunctionUpdateResourcePolicy(j)
      BY <3>1 DEF AWSFunctionUpdateResourcePolicy
    <3>2. CASE AWSFunctionTriggerDataWrite(j)
      BY <3>2 DEF AWSFunctionTriggerDataWrite
    <3>3. CASE AWSFunctionTriggerDataRead(j)
      BY <3>3 DEF AWSFunctionTriggerDataRead
    <3>4. CASE AWSMachineUpdateResourcePolicy(j)
      BY <3>4 DEF AWSMachineUpdateResourcePolicy
    <3>5. CASE AWSMachineTriggerDataWrite(j)
      BY <3>5 DEF AWSMachineTriggerDataWrite
    <3>6. CASE AWSMachineTriggerDataRead(j)
      BY <3>6 DEF AWSMachineTriggerDataRead
    <3>7. QED
      BY <1>3, <3>1, <3>2, <3>3, <3>4, <3>5, <3>6 DEF AWSTrigger
  <2>1. PICK action \in DOMAIN Verb, kind \in LogTypes :
            (\E asserted : AWSCall(j, action, asserted)) /\ kind = LogTypeOf[job[j].scenario] /\ <<action, kind>> \in AWSEvidence
    BY <2>a
  <2>p. PICK asserted : AWSCall(j, action, asserted)
    BY <2>1
  <2>2. PICK outcome \in {"done", "refused", "lost", "unsent"}, resolved \in SUBSET ResolveInstanceID(j) : log' = log \cup resolved \cup
                  (IF outcome = "unsent" THEN {}
                   ELSE {Happened(j, action, kind, IF outcome = "refused" THEN "Failed" ELSE "Succeeded")})
    BY <2>1, <2>p DEF AWSCall
  <2>3. ASSUME NEW result \in Results, NEW e, e = Happened(j, action, kind, result)
        PROVE  TrueEntry(e)'
    <3>1. TrueEntry(Happened(j, action, kind, result))'
      BY <1>2, <2>0, <2>1
    <3>2. e = Happened(j, action, kind, result)'
      BY <1>h, <2>3
    <3> HIDE DEF Happened
    <3>3. QED
      BY <3>1, <3>2
  <2>4. \A e \in ResolveInstanceID(j) : TrueEntry(e)'
    <3>1. TrueEntry(Happened(j, "DescribeInstances", "data-read", "Succeeded"))'
      BY <1>2, <2>0, Actions DEF LogTypes, Results, AWSEvidence
    <3>2. PICK e : e = Happened(j, "DescribeInstances", "data-read", "Succeeded")
      OBVIOUS
    <3>3. e = Happened(j, "DescribeInstances", "data-read", "Succeeded")'
      BY <1>h, <3>2
    <3> HIDE DEF Happened
    <3>4. TrueEntry(e)'
      BY <3>1, <3>3
    <3>5. TrueEntry([e EXCEPT !.resource = "this"])'
      BY <1>n, <3>4
    <3>6. QED
      BY <3>2, <3>5 DEF ResolveInstanceID
  <2>5. "Failed" \in Results /\ "Succeeded" \in Results
    BY DEF Results
  <2>6. \A e \in log : TrueEntry(e)'
    BY <1>l
  <2>7. ASSUME NEW e \in log' PROVE TrueEntry(e)'
    <3>1. CASE e \in log \/ e \in ResolveInstanceID(j)
      BY <2>4, <2>6, <3>1
    <3>2. CASE e = Happened(j, action, kind, "Failed") \/ e = Happened(j, action, kind, "Succeeded")
      BY <2>3, <2>5, <3>2
    <3>3. QED
      BY <2>2, <2>7, <3>1, <3>2
  <2>8. QED
    BY <2>7 DEF LogTrue
<1>4. CASE GenerateTestTraffic(j)
  <2>1. ASSUME NEW result \in {"OK", "NODATA", "short"}, NEW resource \in {"this", "id"},
               resource = "id" => provider = "aws",
               log' = log \cup {[Happened(j, "Packets", "flow", result) EXCEPT !.resource = resource]}
        PROVE  LogTrue'
    <3>1. TrueEntry(Happened(j, "Packets", "flow", result))'
      BY <1>2, Actions DEF LogTypes, Results, AWSEvidence
    <3>2. PICK e : e = Happened(j, "Packets", "flow", result)
      OBVIOUS
    <3>3. e.kind = "flow" /\ e = Happened(j, "Packets", "flow", result)'
      BY <1>h, <3>2 DEF Happened
    <3> HIDE DEF Happened
    <3>4. TrueEntry([e EXCEPT !.resource = resource])'
      BY <1>n, <2>1, <3>1, <3>3
    <3>5. QED
      BY <1>l, <2>1, <3>2, <3>4 DEF LogTrue
  <2>2. QED
    BY <1>1, <1>4, <2>1 DEF GenerateTestTraffic
<1>5. CASE GCPPatchAccepted(j)
  <2>1. log' = log \cup {Happened(j, "Patch", "admin", "Succeeded")} /\ provider = "gcp"
    BY <1>5 DEF GCPPatchAccepted, Records, At, InStage
  <2>2. TrueEntry(Happened(j, "Patch", "admin", "Succeeded"))'
    BY <1>2, <2>1, Actions DEF LogTypes, Results
  <2>3. Happened(j, "Patch", "admin", "Succeeded")' = Happened(j, "Patch", "admin", "Succeeded")
    BY <1>h
  <2> HIDE DEF Happened
  <2>4. QED
    BY <1>l, <2>1, <2>2, <2>3 DEF LogTrue
<1>6. QED
  BY <1>1, <1>3, <1>4, <1>5 DEF JobStep, SilentTrigger, GCPReadLabels, GCPPatchConflicts, GCPPatchFails, Query,
     QueryFails, GetInvokeEndpointExposure, FindsPublicURL, AttemptPublicInternetInvoke, AttemptPrivateInvoke,
     AttemptInboundConnection, BurstFails, InvokeBurst, BurstEnds, BatchStarts, TryEntry, BatchEnds, Evaluate,
     AttemptVpcPeeringDryRun, cloud

(* Delivery changes nothing but the state of an entry; what others do is    *)
(* theirs.                                                                  *)
LEMMA CloudLogs ==
    ASSUME CloudTyped, LogTrue, CloudStep
    PROVE  LogTrue'
<1>0. UNCHANGED <<provider, service, config>>
  BY DEF CloudStep, Deliver, Expire, OthersAct, OthersLabel, OperationDone, OperationFails, Refill,
     Reconfigure, settings
<1>1. \A e \in log : TrueEntry(e)'
  BY <1>0 DEF LogTrue, TrueEntry, ByOtherId
<1>2. CASE log' \subseteq log
  BY <1>1, <1>2 DEF LogTrue
<1>3. ASSUME NEW e \in log, Deliver(e)
      PROVE  LogTrue'
  <2>1. TrueEntry([e EXCEPT !.state = "delivered"])'
    BY <1>1 DEF TrueEntry, ByOtherId, Entry
  <2>2. QED
    BY <1>1, <1>3, <2>1 DEF Deliver, LogTrue
<1>4. CASE OthersAct
  <2>1. PICK a \in OthersAction, resource \in {NamedAs, "alike", "other", "none"}, result \in {"Succeeded", "Failed"} :
         log' = log \cup {[Happened(Other, a[1], a[2], result) EXCEPT !.resource = resource]}
    BY <1>4 DEF OthersAct
  <2>2. /\ a[1] \in DOMAIN Verb /\ a[2] \in LogTypes
        /\ provider = "aws" => <<a[1], a[2]>> \in AWSEvidence
    BY KnownProvider, Actions DEF OthersAction, LogTypes, AWSEvidence
  <2>3. resource \in {"this", "id", "alike", "other", "none"}
    BY <2>1 DEF NamedAs
  <2>4. PICK e : e = [Happened(Other, a[1], a[2], result) EXCEPT !.resource = resource]
    OBVIOUS
  <2>5. e = [action |-> a[1], kind |-> a[2], by |-> Other, resource |-> resource, result |-> result,
             state |-> "recorded"]
    BY <2>4 DEF Happened
  <2>6. TrueEntry(e)'
    BY <1>0, <2>1, <2>2, <2>3, <2>5, ProbesAssumption DEF TrueEntry, Entry, Results
  <2>7. QED
    BY <1>1, <2>1, <2>4, <2>6 DEF LogTrue
<1>5. QED
  BY <1>2, <1>3, <1>4 DEF CloudStep, Expire, OthersLabel, OperationDone, OperationFails, Refill, Reconfigure

-----------------------------------------------------------------------------
(* The type invariant *)

(* The cloud and the jobs are well-typed, every job is at a step of its     *)
(* scenario, the log says what happened, and only GCP has operations.       *)
Typed ==
    /\ CloudTyped
    /\ operation # None => provider = "gcp"
    /\ job \in [Jobs -> Job]
    /\ \A j \in Jobs : InStage(j)
    /\ LogTrue

(* A call that is let through takes one of the calls left. *)
LEMMA TokensSpent ==
    ASSUME NEW l, NEW t \in Nat, NEW through \in BOOLEAN,
           l \in Nat \cup {None}, l # None => t <= l, through => (l = None \/ t > 0)
    PROVE  /\ (IF through /\ l # None THEN t - 1 ELSE t) \in Nat
           /\ l # None => (IF through /\ l # None THEN t - 1 ELSE t) <= l
BY ProbesAssumption

(* A job changes nothing of the cloud but the log, the calls left and, on   *)
(* GCP, the operation in progress.                                          *)
LEMMA JobsCloud ==
    ASSUME Typed, NEW j \in Jobs, JobStep(j)
    PROVE  /\ UNCHANGED <<settings, fn, labels, version, changes>>
           /\ UNCHANGED tokens \/ InvokeBurst(j)
           /\ UNCHANGED operation \/ GCPPatchAccepted(j)
BY DEF JobStep, AWSTrigger, SilentTrigger, GenerateTestTraffic, GCPReadLabels, GCPPatchAccepted,
   GCPPatchConflicts, GCPPatchFails, Query, QueryFails, GetInvokeEndpointExposure, FindsPublicURL,
   AttemptPublicInternetInvoke, AttemptPrivateInvoke, AttemptInboundConnection, BurstFails, InvokeBurst,
   BurstEnds, BatchStarts, TryEntry, BatchEnds, Evaluate, AttemptVpcPeeringDryRun, cloud, function

(* The steps of the jobs keep the cloud well-typed. *)
LEMMA JobsKeepCloud ==
    ASSUME Typed, NEW j \in Jobs, JobStep(j), LogTrue'
    PROVE  CloudTyped' /\ (operation # None => provider = "gcp")'
<1> USE DEF Typed
<1>0. UNCHANGED settings /\ UNCHANGED <<fn, labels, version, changes>>
  BY JobsCloud
<1>u. /\ UNCHANGED <<provider, service, config, denied, limit>>
      /\ CloudTyped /\ InStage(j) /\ job[j] \in Job
  BY <1>0 DEF settings
<1>1. log' \subseteq Entry(Jobs \cup {Other})
  BY DEF LogTrue, TrueEntry
<1>2. tokens' \in Nat /\ (limit' # None => tokens' <= limit')
  <2>1. CASE UNCHANGED tokens
    BY <1>u, <2>1 DEF CloudTyped
  <2>2. CASE InvokeBurst(j)
    <3>1. PICK answer \in {IF limit = None \/ tokens > 0 THEN "2xx" ELSE "429", "no answer"} :
            tokens' = IF answer = "2xx" /\ limit # None THEN tokens - 1 ELSE tokens
      BY <2>2 DEF InvokeBurst
    <3>2. (answer = "2xx") \in BOOLEAN /\ (answer = "2xx" => limit = None \/ tokens > 0)
      BY <3>1
    <3>3. limit \in Nat \cup {None} /\ tokens \in Nat /\ (limit # None => tokens <= limit)
      BY ProbesAssumption DEF CloudTyped
    <3>4. QED
      BY <1>u, <3>1, <3>2, <3>3, TokensSpent
  <2>3. QED
    BY <2>1, <2>2, JobsCloud
<1>3. /\ operation' = None \/ operation' \in [labels : SUBSET (Jobs \cup {Other}), by : Jobs \cup {Other}]
      /\ operation' # None => provider = "gcp"
  <2>1. CASE UNCHANGED operation
    BY <2>1 DEF CloudTyped
  <2>2. CASE GCPPatchAccepted(j)
    <3>1. operation' = [labels |-> job[j].read \cup {j}, by |-> j] /\ provider = "gcp"
      BY <1>u, <2>2 DEF GCPPatchAccepted, PatchedLabels, At, InStage
    <3>2. job[j].read \in SUBSET (Jobs \cup {Other})
      BY <1>u DEF Job
    <3>3. QED
      BY <3>1, <3>2
  <2>3. QED
    BY <2>1, <2>2, JobsCloud
<1>4. QED
  BY <1>0, <1>u, <1>1, <1>2, <1>3 DEF CloudTyped

(* So do those of the cloud and of the others. *)
LEMMA CloudKeepsCloud ==
    ASSUME Typed, CloudStep, LogTrue'
    PROVE  CloudTyped' /\ (operation # None => provider = "gcp")'
<1> USE DEF Typed
<1>0. UNCHANGED settings
  BY DEF CloudStep, Deliver, Expire, OthersAct, OthersLabel, OperationDone, OperationFails, Refill,
     Reconfigure
<1>u. UNCHANGED <<provider, service, config, denied, limit>> /\ CloudTyped
  BY <1>0 DEF settings
<1>1. log' \subseteq Entry(Jobs \cup {Other})
  BY DEF LogTrue, TrueEntry
<1>2. changes' \in 0..MaxChanges
  <2>1. changes' = changes \/ Changes
    BY DEF CloudStep, Deliver, Expire, OthersAct, OthersLabel, OperationDone, OperationFails, Refill,
       Reconfigure
  <2>2. changes \in 0..MaxChanges /\ MaxChanges \in Nat
    BY ProbesAssumption DEF CloudTyped
  <2>3. QED
    BY <2>1, <2>2 DEF Changes
<1>3. fn' \in [exposed : BOOLEAN, open : BOOLEAN]
  BY DEF CloudStep, Deliver, Expire, OthersAct, OthersLabel, OperationDone, OperationFails, Refill,
     Reconfigure, CloudTyped
<1>4. tokens' \in Nat /\ (limit # None => tokens' <= limit)
  <2>1. tokens' = tokens \/ (limit # None /\ tokens' = limit)
    BY DEF CloudStep, Deliver, Expire, OthersAct, OthersLabel, OperationDone, OperationFails, Refill,
       Reconfigure
  <2>2. tokens \in Nat /\ (limit # None => limit \in Nat /\ tokens <= limit)
    BY ProbesAssumption DEF CloudTyped
  <2>3. QED
    BY <2>1, <2>2
<1>5. /\ labels' \subseteq Jobs \cup {Other} /\ version' \in Nat
      /\ operation' = None \/ operation' \in [labels : SUBSET (Jobs \cup {Other}), by : Jobs \cup {Other}]
      /\ operation' # None => provider = "gcp"
  <2>1. CASE OthersLabel
    BY <2>1 DEF OthersLabel, CloudTyped
  <2>2. CASE OperationDone \/ OperationFails
    BY <2>2 DEF OperationDone, OperationFails, CloudTyped
  <2>3. CASE UNCHANGED function
    BY <2>3 DEF function, CloudTyped
  <2>4. QED
    BY <2>1, <2>2, <2>3 DEF CloudStep, Deliver, Expire, OthersAct, Refill, Reconfigure
<1>6. QED
  BY <1>u, <1>1, <1>2, <1>3, <1>4, <1>5 DEF CloudTyped

(* The cloud and the others can disturb a job, nothing else. *)
LEMMA CloudKeepsJobs ==
    ASSUME Typed, CloudStep
    PROVE  job' \in [Jobs -> Job]
<1>1. job \in [Jobs -> Job]
  BY DEF Typed
<1>2. ASSUME NEW scenarios, Disturbs(scenarios)
      PROVE  job' \in [Jobs -> Job]
  <2>1. ASSUME NEW i \in Jobs
        PROVE  [job[i] EXCEPT !.disturbed = @ \/ job[i].scenario \in scenarios] \in Job
    BY <1>1, DisturbedTyped
  <2>2. QED
    BY <1>2, <2>1 DEF Disturbs
<1>3. QED
  BY <1>1, <1>2 DEF CloudStep, Deliver, Expire, OthersAct, OthersLabel, OperationDone, OperationFails,
     Refill, Reconfigure

(* It holds at first, when no job has called yet. *)
LEMMA TypedInit ==
    ASSUME Init
    PROVE  Typed
<1>1. PICK s \in Services : Begins(s, Config, [Jobs -> ScenariosOf(s)])
  BY DEF Init
<1>2. PICK plan \in [Jobs -> ScenariosOf(s)] : job = [j \in Jobs |-> NewJob(plan[j])]
  BY <1>1 DEF Begins
<1>3. service = s /\ ScenariosOf(s) \subseteq Scenarios
  BY <1>1 DEF Begins, Services, ScenariosOf, Scenarios
<1>4. ASSUME NEW k \in Scenarios
      PROVE  NewJob(k) \in Job
  <2>1. FirstStep(k) \in Steps
    BY LogTypesOf DEF FirstStep, Steps, Scenarios
  <2>2. 0 \in 0..MaxAttempts
    BY ProbesAssumption
  <2>3. QED
    BY <2>1, <2>2 DEF NewJob, Job
<1>5. ASSUME NEW j \in Jobs
      PROVE  InStage(j)
  <2>1. plan[j] \in ScenariosOf(service) /\ plan[j] \in Scenarios /\ job[j] = NewJob(plan[j])
    BY <1>2, <1>3
  <2>2. /\ job[j].scenario = plan[j] /\ job[j].verdict = "none" /\ job[j].pc = FirstStep(plan[j])
    BY <2>1 DEF NewJob
  <2>3. QED
    BY <2>1, <2>2, LogTypesOf DEF InStage, FirstStep, Scenarios
<1>6. CloudTyped
  <2>1. limit \in Limits /\ tokens = IF limit = None THEN 0 ELSE limit
    BY <1>1 DEF Begins
  <2>2. tokens \in Nat /\ (limit # None => tokens <= limit)
    BY <2>1, ProbesAssumption
  <2>3. QED
    BY <1>1, <2>2, ProbesAssumption DEF Begins, CloudTyped
<1>7. QED
  BY <1>1, <1>2, <1>3, <1>4, <1>5, <1>6 DEF Begins, Typed, LogTrue

(* Every step keeps it. *)
LEMMA TypedKept ==
    ASSUME Typed, [Next]_vars
    PROVE  Typed'
<1>1. CASE UNCHANGED vars
  BY <1>1 DEF vars, cloud, function, settings, Typed, CloudTyped, InStage, LogTrue, TrueEntry, ByOtherId, ScenariosOf
<1>2. \A j \in Jobs : InStage(j)'
  BY InStageKept DEF Typed
<1>3. CASE CloudStep
  BY <1>2, <1>3, CloudLogs, CloudKeepsCloud, CloudKeepsJobs DEF Typed
<1>4. ASSUME NEW j \in Jobs, JobStep(j)
      PROVE  Typed'
  BY <1>2, <1>4, JobsLog, JobsKeepCloud, JobsTypedKept DEF Typed
<1>5. QED
  BY <1>1, <1>3, <1>4 DEF Next

(* Every state is well-typed, and the log is about what happened. *)
LEMMA AlwaysTyped == Spec => []Typed
BY TypedInit, TypedKept, PTL DEF Spec

(* Every reachable state is well-typed: an operation is in progress on GCP  *)
(* only, a limit bounds the calls left, and a job has a verdict exactly when*)
(* it is over.                                                              *)
THEOREM ProbesTypes == Spec => []TypeOK
<1>1. Typed => TypeOK
  BY DEF Typed, TypeOK, CloudTyped, InStage, At
<1>2. QED
  BY <1>1, AlwaysTyped, PTL

-----------------------------------------------------------------------------
(* Which steps a scenario takes *)

(* The steps of the peering scenarios. *)
PeeringStep(j) ==
    BatchStarts(j) \/ TryEntry(j) \/ BatchEnds(j) \/ Evaluate(j) \/ AttemptVpcPeeringDryRun(j)

(* The steps of the logging scenarios, the query aside. *)
BeforeQuery(j) ==
    \/ AWSTrigger(j) \/ SilentTrigger(j) \/ GenerateTestTraffic(j)
    \/ GCPReadLabels(j) \/ GCPPatchAccepted(j) \/ GCPPatchConflicts(j) \/ GCPPatchFails(j)

(* Every step belongs to the scenarios it is written for. *)
LEMMA StepsOfScenario ==
    ASSUME NEW j \in Jobs, InStage(j), JobStep(j)
    PROVE  /\ job[j].scenario \in {"admin", "write", "read", "flow"} =>
                BeforeQuery(j) \/ Query(j) \/ QueryFails(j)
           /\ job[j].scenario \in {"surface", "public", "inbound"} =>
                \/ GetInvokeEndpointExposure(j) \/ FindsPublicURL(j)
                \/ AttemptPublicInternetInvoke(j) \/ AttemptInboundConnection(j)
           /\ job[j].scenario = "rate" => BurstFails(j) \/ InvokeBurst(j) \/ BurstEnds(j)
           /\ job[j].scenario \in {"disallow", "allow", "unlisted"} => PeeringStep(j)
<1> DEFINE s == job[j].scenario
           pc == job[j].pc
<1>1. BeforeQuery(j) \/ Query(j) \/ QueryFails(j) => pc \in {"trigger", "patch", "query"}
  BY DEF BeforeQuery, AWSTrigger, SilentTrigger, GenerateTestTraffic, GCPReadLabels, GCPPatchAccepted,
     GCPPatchConflicts, GCPPatchFails, Query, QueryFails, At
<1>2. GetInvokeEndpointExposure(j) => s = "surface"
  BY DEF GetInvokeEndpointExposure, Doing
<1>3. FindsPublicURL(j) => s = "public"
  BY DEF FindsPublicURL, Doing
<1>4. AttemptPublicInternetInvoke(j) => pc = "call"
  BY DEF AttemptPublicInternetInvoke, At
<1>5. AttemptPrivateInvoke(j) => s = "private"
  BY DEF AttemptPrivateInvoke, Doing
<1>6. AttemptInboundConnection(j) => s = "inbound"
  BY DEF AttemptInboundConnection, Doing
<1>7. BurstFails(j) \/ InvokeBurst(j) \/ BurstEnds(j) => s = "rate"
  BY DEF BurstFails, InvokeBurst, BurstEnds, Bursting, Doing
<1>8. PeeringStep(j) => pc \in {"batch", "peer", "evaluate", "dryrun"}
  BY DEF PeeringStep, BatchStarts, TryEntry, BatchEnds, Evaluate, AttemptVpcPeeringDryRun, At
<1>9. QED
  BY <1>1, <1>2, <1>3, <1>4, <1>5, <1>6, <1>7, <1>8 DEF JobStep, BeforeQuery, PeeringStep, InStage

(* A scenario that is not over has not passed. *)
LEMMA NotYetPassed ==
    ASSUME NEW j \in Jobs, InStage(j), job[j].pc # "done"
    PROVE  ~Passed(j)
BY DEF InStage, Passed

(* What an assertion leaves of the record of a job. *)
LEMMA Concluded ==
    ASSUME job \in [Jobs -> Job], NEW j \in Jobs, NEW passed, Concludes(j, passed)
    PROVE  /\ job'[j] = [job[j] EXCEPT !.pc = "done", !.verdict = IF passed THEN "pass" ELSE "fail"]
           /\ Passed(j)' <=> passed
           /\ job'[j].disturbed = job[j].disturbed /\ job'[j].scenario = job[j].scenario
           /\ job'[j].violations = job[j].violations /\ job'[j].permitted = job[j].permitted
           /\ job'[j].pc = "done"
<1>1. job[j] \in Job
  OBVIOUS
<1>2. job'[j] = [job[j] EXCEPT !.pc = "done", !.verdict = IF passed THEN "pass" ELSE "fail"]
  BY DEF Concludes
<1>3. QED
  BY <1>1, <1>2 DEF Job, Passed

(* And what an assertion that something else decided leaves of it. *)
LEMMA ConcludedDisturbed ==
    ASSUME job \in [Jobs -> Job], NEW j \in Jobs, NEW passed, ConcludesDisturbed(j, passed)
    PROVE  job'[j].disturbed = TRUE /\ job'[j].pc = "done" /\ (Passed(j)' <=> passed)
<1>1. job[j] \in Job
  OBVIOUS
<1>2. job'[j] = [job[j] EXCEPT !.pc = "done", !.verdict = IF passed THEN "pass" ELSE "fail",
                               !.disturbed = TRUE]
  BY DEF ConcludesDisturbed
<1>3. QED
  BY <1>1, <1>2 DEF Job, Passed

-----------------------------------------------------------------------------
(* No public endpoint, denied, not connected *)

(* What ClosedMeansClosed says of one job. *)
Closed(j) ==
    /\ Passed(j) /\ job[j].scenario \in {"surface", "public", "inbound"}
    /\ ~job[j].disturbed
    /\ ~(provider = "azure" /\ Doing(j, "surface"))
    => \/ ~Served(service = "serverless-computing")
       \/ Doing(j, "public") /\ job[j].heard \in {"nothing", "function"}

(* A step of the job: it looks at the endpoint when it concludes. *)
LEMMA ClosedByJob ==
    ASSUME Typed, NEW j \in Jobs, JobStep(j)
    PROVE  Closed(j)'
<1>1. /\ job \in [Jobs -> Job] /\ job[j] \in Job /\ InStage(j) /\ Advances(j) /\ ~Passed(j)
      /\ provider \in {"aws", "azure", "gcp"}
  BY JobsAdvance, NotYetPassed, KnownProvider DEF Typed, Advances
<1>2. /\ UNCHANGED <<provider, service, fn>> /\ job'[j].scenario = job[j].scenario
      /\ (Served(service = "serverless-computing"))' <=> Served(service = "serverless-computing")
  BY <1>1, JobsCloud DEF settings, Advances, Served
<1>3. SUFFICES ASSUME job[j].scenario \in {"surface", "public", "inbound"},
                      Passed(j)', ~job'[j].disturbed,
                      ~(provider = "azure" /\ job[j].scenario = "surface")
               PROVE  \/ ~Served(service = "serverless-computing")
                      \/ job[j].scenario = "public" /\ job'[j].heard \in {"nothing", "function"}
  BY <1>2 DEF Closed, Doing
<1>4. CASE GetInvokeEndpointExposure(j)
  <2>1. Concludes(j, ~PublicEndpointConfigured) \/ Concludes(j, FALSE)
    BY <1>4 DEF GetInvokeEndpointExposure
  <2>2. ~PublicEndpointConfigured /\ job[j].scenario = "surface"
    BY <1>1, <1>3, <1>4, <2>1, Concluded DEF GetInvokeEndpointExposure, Doing
  <2>3. service = "serverless-computing"
    BY <1>1, <2>2 DEF InStage, ScenariosOf, Typed, CloudTyped, Services
  <2>4. ~fn.exposed
    BY <1>1, <1>3, <2>2 DEF PublicEndpointConfigured, AWSExposure, GCPExposure
  <2>5. QED
    BY <2>3, <2>4 DEF Served
<1>5. CASE FindsPublicURL(j)
  <2>1. CASE Concludes(j, FALSE)
    BY <1>1, <1>3, <2>1, Concluded
  <2>2. CASE job'[j].verdict = job[j].verdict
    BY <1>1, <1>3, <2>2 DEF Passed
  <2>3. CASE Moves(j, "call") \/ job' = [job EXCEPT ![j].pc = "call", ![j].own = TRUE]
    BY <1>1, <2>2, <2>3 DEF Moves, Job
  <2>4. QED
    BY <1>5, <2>1, <2>3 DEF FindsPublicURL
<1>6. CASE AttemptPublicInternetInvoke(j)
  <2>1. PICK answer, verdict :
            job' = [job EXCEPT ![j].pc = "done", ![j].verdict = verdict,
                               ![j].heard = HeardFrom(answer, Served(job[j].own))]
    BY <1>6 DEF AttemptPublicInternetInvoke
  <2>2. job'[j].heard = HeardFrom(answer, Served(job[j].own))
    BY <1>1, <2>1 DEF Job
  <2>3. /\ job[j].scenario = "public" /\ service = "serverless-computing"
    BY <1>1, <1>6 DEF AttemptPublicInternetInvoke, At, InStage, Typed, CloudTyped, Services, ScenariosOf
  <2>4. CASE Served(job[j].own)
    BY <2>2, <2>3, <2>4 DEF HeardFrom
  <2>5. CASE ~Served(job[j].own)
    BY <2>3, <2>5 DEF Served
  <2>6. QED
    BY <2>4, <2>5
<1>7. CASE AttemptInboundConnection(j)
  <2>1. Concludes(j, ~fn.open) \/ ConcludesDisturbed(j, TRUE) \/ Concludes(j, FALSE)
    BY <1>7 DEF AttemptInboundConnection
  <2>2. ~fn.open
    BY <1>1, <1>3, <2>1, Concluded, ConcludedDisturbed
  <2>3. QED
    BY <2>2 DEF Served
<1>8. QED
  BY <1>1, <1>3, <1>4, <1>5, <1>6, <1>7, StepsOfScenario

(* Any other step: who reconfigures the endpoint disturbs the job. *)
LEMMA ClosedWatched ==
    ASSUME Typed, NEW j \in Jobs, Watches(j), Closed(j)
    PROVE  Closed(j)'
<1>1. UNCHANGED <<provider, service>>
  BY DEF Watches, settings
<1>2. /\ job'[j].scenario = job[j].scenario /\ job'[j].verdict = job[j].verdict
      /\ job[j].disturbed => job'[j].disturbed
      /\ job'[j].heard = job[j].heard
      /\ job[j].scenario \in {"surface", "public", "inbound"} /\ ~job'[j].disturbed => fn' = fn
  BY DEF Watches, Same
<1>3. QED
  BY <1>1, <1>2 DEF Closed, Passed, Doing, Served

(* Whatever the interleaving: when nothing was reconfigured and no dial      *)
(* failed on the way, a check that passed because there is no public         *)
(* endpoint, because the cloud denied the public call or because the machine *)
(* could not be reached is right about it.  A "denial" that is silence or the*)
(* function's own error says nothing.                                        *)
THEOREM ClosedHolds == Spec => []ClosedMeansClosed
<1> DEFINE AllClosed == \A j \in Jobs : Closed(j)
<1>1. Init => AllClosed
  <2> SUFFICES ASSUME Init, NEW j \in Jobs PROVE Closed(j)
    OBVIOUS
  <2>1. job[j].verdict = "none"
    BY DEF Init, Begins, NewJob
  <2>2. QED
    BY <2>1 DEF Closed, Passed
<1>2. Typed /\ AllClosed /\ [Next]_vars => AllClosed'
  <2> SUFFICES ASSUME Typed, AllClosed, [Next]_vars, NEW j \in Jobs
               PROVE  Closed(j)'
    OBVIOUS
  <2>1. QED
    BY StepOrWatch, ClosedByJob, ClosedWatched DEF Typed
<1>3. AllClosed => ClosedMeansClosed
  BY DEF ClosedMeansClosed, Closed
<1> HIDE DEF AllClosed
<1>4. QED
  BY <1>1, <1>2, <1>3, AlwaysTyped, PTL DEF Spec

-----------------------------------------------------------------------------
(* The peering guardrail *)

(* What has been tried of the list of a batch. *)
TriedOf(j) == ListOf(job[j].scenario) \ job[j].left

(* What the entries tried so far show, when none was in conflict: the       *)
(* disallowed ones were denied, the allowed ones permitted.                 *)
Judged(j) ==
    LET allow == AllowedEntries(config.lists)
    IN  /\ Doing(j, "disallow") /\ allow # {} /\ (\A e \in DisallowedEntries(config.lists) : Resolved[e] \notin allow) =>
             /\ job[j].permitted = {}
             /\ provider = "aws" /\ ~job[j].disturbed => \A e \in TriedOf(j) : Resolved[e] \in denied
        /\ Doing(j, "allow") =>
             \A e \in TriedOf(j) : Resolved[e] \in allow =>
                 /\ e \in job[j].permitted
                 /\ provider = "aws" => Resolved[e] \notin denied

(* What a peering scenario knows at each of its steps. *)
Peering(j) ==
    /\ job[j].pc \in {"batch", "evaluate", "dryrun"} => job[j].violations = {} /\ job[j].permitted = {}
    /\ job[j].pc = "dryrun" => config.requester \notin AllowedEntries(config.lists)
    /\ job[j].pc = "peer" => job[j].left \subseteq ListOf(job[j].scenario)
    /\ job[j].pc = "peer" /\ job[j].violations = {} => Judged(j)

(* What GuardrailVerdict says of one job. *)
Guarded(j) ==
    Passed(j) =>
        LET allow == AllowedEntries(config.lists)
            disallow == DisallowedEntries(config.lists)
            asked == provider = "aws" /\ ~job[j].disturbed
        IN  /\ Doing(j, "disallow") /\ allow # {} /\ (\A e \in disallow : Resolved[e] \notin allow) =>
                 /\ disallow # {} /\ job[j].permitted = {}
                 /\ asked => \A e \in disallow : Resolved[e] \in denied
            /\ Doing(j, "allow") =>
                 /\ allow # {}
                 /\ \A e \in allow : Resolved[e] \in allow =>
                      /\ e \in job[j].permitted
                      /\ provider = "aws" => Resolved[e] \notin denied
            /\ Doing(j, "unlisted") =>
                 /\ job[j].permitted = {}
                 /\ {config.requester, Resolved[config.requester]} \cap allow = {}
                 /\ asked => Resolved[config.requester] \in denied

(* One entry is tried: unless it is in conflict with the allow-list, it is  *)
(* permitted when it is on that list and denied when it is not; on AWS the  *)
(* guardrail lets it through, or it denies it, or the call has failed.      *)
LEMMA EntryJudged ==
    ASSUME CloudTyped, NEW requester, NEW evidence \in DryRun(provider, config.lists, denied, requester)
    PROVE  /\ evidence.permitted \in BOOLEAN /\ evidence.mismatch \in BOOLEAN
           /\ evidence.listed <=> requester \in AllowedEntries(config.lists)
           /\ evidence.defined <=> AllowedEntries(config.lists) # {}
           /\ ~evidence.mismatch /\ AllowedEntries(config.lists) # {} =>
                (evidence.permitted <=> requester \in AllowedEntries(config.lists))
           /\ provider = "aws" /\ evidence.permitted => requester \notin denied
           /\ provider = "aws" /\ ~evidence.permitted /\ ~Mistaken(requester, evidence) => requester \in denied
           /\ Mistaken(requester, evidence) \in BOOLEAN
<1>1. PICK permitted \in BOOLEAN :
          /\ evidence = EnrichEvidence(config.lists, requester, permitted)
          /\ provider = "aws" /\ permitted => requester \notin denied
  BY DryRuns
<1>2. /\ evidence.permitted = permitted
      /\ evidence.listed = (requester \in AllowedEntries(config.lists))
      /\ evidence.defined = (AllowedEntries(config.lists) # {})
      /\ evidence.mismatch = (AllowedEntries(config.lists) # {} /\ permitted # (requester \in AllowedEntries(config.lists)))
  BY <1>1 DEF EnrichEvidence
<1>3. QED
  BY <1>1, <1>2 DEF Mistaken

(* One entry more is tried. *)
LEMMA TryJudged ==
    ASSUME Typed, NEW j \in Jobs, Peering(j), job[j].pc = "peer",
           UNCHANGED settings, NEW entry \in job[j].left,
           NEW evidence \in DryRun(provider, config.lists, denied, Resolved[entry]),
           Tried(j, entry, evidence.permitted, evidence.mismatch, Mistaken(Resolved[entry], evidence))
    PROVE  Peering(j)' /\ job'[j].pc = "peer"
<1> DEFINE allow == AllowedEntries(config.lists)
           mistaken == Mistaken(Resolved[entry], evidence)
<1>1. /\ CloudTyped /\ job[j] \in Job /\ job \in [Jobs -> Job] /\ UNCHANGED <<provider, config, denied>>
  BY DEF Typed, settings
<1>2. /\ job'[j].scenario = job[j].scenario /\ job'[j].pc = "peer"
      /\ job'[j].left = job[j].left \ {entry}
      /\ job'[j].permitted = IF evidence.permitted THEN job[j].permitted \cup {entry} ELSE job[j].permitted
      /\ job'[j].violations = IF evidence.mismatch THEN job[j].violations \cup {entry} ELSE job[j].violations
      /\ job'[j].disturbed = (job[j].disturbed \/ mistaken)
  BY <1>1 DEF Tried, Job
<1>3. SUFFICES ASSUME job'[j].violations = {}
               PROVE  Judged(j)'
  <2>1. ListOf(job[j].scenario)' = ListOf(job[j].scenario)
    BY <1>1, <1>2 DEF ListOf
  <2>2. job'[j].left \subseteq ListOf(job[j].scenario)'
    BY <1>2, <2>1 DEF Peering
  <2>3. QED
    BY <1>2, <2>2 DEF Peering
<1>4. ~evidence.mismatch /\ job[j].violations = {} /\ Judged(j)
  BY <1>2, <1>3, <1>1, EntryJudged DEF Peering
<1>5. /\ evidence.permitted \in BOOLEAN /\ mistaken \in BOOLEAN
      /\ allow # {} => (evidence.permitted <=> Resolved[entry] \in allow)
      /\ provider = "aws" /\ evidence.permitted => Resolved[entry] \notin denied
      /\ provider = "aws" /\ ~evidence.permitted /\ ~mistaken => Resolved[entry] \in denied
  BY <1>1, <1>4, EntryJudged
<1>6. \A e \in TriedOf(j)' : e \in TriedOf(j) \/ e = entry
  BY <1>1, <1>2 DEF TriedOf, ListOf
<1>7. ASSUME Doing(j, "disallow"), allow # {}, \A e \in DisallowedEntries(config.lists) : Resolved[e] \notin allow
      PROVE  /\ job'[j].permitted = {}
             /\ provider = "aws" /\ ~job'[j].disturbed => \A e \in TriedOf(j)' : Resolved[e] \in denied
  <2>1. entry \in DisallowedEntries(config.lists)
    BY <1>7 DEF Peering, ListOf, Doing
  <2>2. ~evidence.permitted
    BY <1>5, <1>7, <2>1
  <2>3. QED
    BY <1>2, <1>4, <1>5, <1>6, <1>7, <2>2 DEF Judged
<1>8. ASSUME Doing(j, "allow"), NEW e \in TriedOf(j)', Resolved[e] \in allow
      PROVE  e \in job'[j].permitted /\ (provider = "aws" => Resolved[e] \notin denied)
  BY <1>2, <1>4, <1>5, <1>6, <1>8 DEF Judged
<1>9. QED
  BY <1>1, <1>2, <1>7, <1>8 DEF Judged, Doing

(* A peering step keeps what the scenario knows, and its verdict says so.   *)
LEMMA PeeringByJob ==
    ASSUME Typed, NEW j \in Jobs, JobStep(j), Peering(j)
    PROVE  Peering(j)' /\ Guarded(j)'
<1> DEFINE allow == AllowedEntries(config.lists)
           s == job[j].scenario
<1>1. /\ job \in [Jobs -> Job] /\ job[j] \in Job /\ InStage(j) /\ Advances(j) /\ ~Passed(j)
      /\ CloudTyped /\ UNCHANGED settings /\ UNCHANGED <<provider, config, denied>>
      /\ job'[j].scenario = s
  BY JobsAdvance, NotYetPassed DEF Typed, Advances, settings
<1>2. CASE s \notin {"disallow", "allow", "unlisted"}
  <2>1. job'[j].pc \notin {"batch", "evaluate", "dryrun", "peer"}
    BY <1>1, <1>2 DEF InStage, Advances, Scenarios, Job
  <2>2. QED
    BY <1>1, <1>2, <2>1 DEF Peering, Guarded, Doing
<1>3. ASSUME Concludes(j, FALSE)
      PROVE  Peering(j)' /\ Guarded(j)'
  BY <1>1, <1>3, Concluded DEF Peering, Guarded
<1>4. ASSUME job'[j].verdict = job[j].verdict
      PROVE  Guarded(j)'
  BY <1>1, <1>4 DEF Guarded, Passed
<1>5. CASE BatchStarts(j)
  <2>1. CASE job' = [job EXCEPT ![j].pc = "peer", ![j].left = ListOf(job[j].scenario)]
    <3>1. /\ job'[j].pc = "peer" /\ job'[j].left = ListOf(s) /\ job'[j].verdict = job[j].verdict
          /\ job'[j].permitted = job[j].permitted /\ job[j].pc = "batch"
      BY <1>1, <1>5, <2>1 DEF BatchStarts, At, Job
    <3>2. job'[j].permitted = {}
      BY <3>1 DEF Peering
    <3>3. ListOf(job[j].scenario)' = ListOf(job[j].scenario)
      BY <1>1 DEF ListOf
    <3>4. TriedOf(j)' = {}
      BY <1>1, <3>1 DEF TriedOf, ListOf
    <3>5. Judged(j)'
      BY <3>2, <3>4 DEF Judged
    <3>6. QED
      BY <1>1, <1>4, <3>1, <3>3, <3>5 DEF Peering, ListOf
  <2>2. QED
    BY <1>3, <1>5, <2>1 DEF BatchStarts
<1>6. CASE TryEntry(j)
  <2>1. CASE Concludes(j, FALSE)
    BY <1>3, <2>1
  <2>2. ASSUME NEW entry \in job[j].left,
               NEW evidence \in DryRun(provider, config.lists, denied, Resolved[entry]),
               Tried(j, entry, evidence.permitted, evidence.mismatch, Mistaken(Resolved[entry], evidence))
        PROVE  Peering(j)' /\ Guarded(j)'
    <3>1. Peering(j)'
      BY <1>1, <1>6, <2>2, TryJudged DEF TryEntry, At
    <3>2. job'[j].verdict = job[j].verdict
      BY <1>1, <2>2 DEF Tried, Job
    <3>3. QED
      BY <1>4, <3>1, <3>2
  <2>3. QED
    BY <1>6, <2>1, <2>2 DEF TryEntry
<1>7. CASE BatchEnds(j)
  <2>1. /\ job[j].pc = "peer" /\ job[j].left = {}
        /\ Concludes(j, ListOf(s) # {} /\ job[j].violations = {})
    BY <1>7 DEF BatchEnds, At
  <2>2. /\ job'[j].pc = "done" /\ job'[j].permitted = job[j].permitted
        /\ job'[j].disturbed = job[j].disturbed
        /\ Passed(j)' => ListOf(s) # {} /\ job[j].violations = {}
    BY <1>1, <2>1, Concluded
  <2>3. ASSUME Passed(j)'
        PROVE  Judged(j) /\ TriedOf(j) = ListOf(s) /\ ListOf(s) # {}
    BY <2>1, <2>2, <2>3 DEF Peering, TriedOf
  <2>4. s # "unlisted"
    BY <1>1, <2>1 DEF InStage
  <2>5. Guarded(j)'
    <3>1. SUFFICES ASSUME Passed(j)'
                   PROVE  Guarded(j)'
      BY DEF Guarded
    <3>2. Judged(j) /\ TriedOf(j) = ListOf(s) /\ ListOf(s) # {}
      BY <2>3, <3>1
    <3>3. QED
      BY <1>1, <2>2, <2>4, <3>2 DEF Judged, Guarded, Doing, ListOf
  <2>6. QED
    BY <2>2, <2>5 DEF Peering
<1>8. CASE Evaluate(j)
  <2>1. CASE Moves(j, "dryrun") /\ config.requester \notin allow
    <3>1. /\ job'[j].pc = "dryrun" /\ job'[j].verdict = job[j].verdict
          /\ job'[j].violations = job[j].violations /\ job'[j].permitted = job[j].permitted
      BY <1>1, <2>1 DEF Moves, Job
    <3>2. job'[j].violations = {} /\ job'[j].permitted = {}
      BY <1>8, <3>1 DEF Evaluate, At, Peering
    <3>3. QED
      BY <1>1, <1>4, <2>1, <3>1, <3>2 DEF Peering
  <2>2. QED
    BY <1>3, <1>8, <2>1 DEF Evaluate, EvaluatePeerAgainstAllowList
<1>9. CASE AttemptVpcPeeringDryRun(j)
  <2>1. CASE Concludes(j, FALSE)
    BY <1>3, <2>1
  <2>2. ASSUME NEW evidence \in DryRun(provider, config.lists, denied, Resolved[config.requester]),
               job' = [job EXCEPT
                        ![j].pc = "done",
                        ![j].verdict = IF ~evidence.permitted /\ evidence.defined
                                          /\ ~evidence.listed /\ ~evidence.mismatch
                                         THEN "pass" ELSE "fail",
                        ![j].permitted = IF evidence.permitted THEN {config.requester} ELSE {},
                        ![j].disturbed = @ \/ Mistaken(Resolved[config.requester], evidence)]
        PROVE  Peering(j)' /\ Guarded(j)'
    <3>1. /\ job'[j].pc = "done"
          /\ job'[j].verdict = "pass" => ~evidence.permitted /\ ~evidence.listed
          /\ job'[j].permitted = IF evidence.permitted THEN {config.requester} ELSE {}
          /\ job'[j].disturbed = (job[j].disturbed \/ Mistaken(Resolved[config.requester], evidence))
      BY <1>1, <2>2 DEF Job
    <3>2. job[j].pc = "dryrun"
      BY <1>9 DEF AttemptVpcPeeringDryRun, At
    <3>3. s = "unlisted" /\ config.requester \notin allow
      BY <1>1, <3>2 DEF InStage, Peering, Job, Scenarios
    <3>4. Guarded(j)'
      <4>1. SUFFICES ASSUME job'[j].verdict = "pass"
                     PROVE  Guarded(j)'
        BY DEF Guarded, Passed
      <4>2. /\ ~evidence.permitted /\ Resolved[config.requester] \notin allow
            /\ job'[j].permitted = {}
        BY <1>1, <3>1, <4>1, EntryJudged
      <4>3. provider = "aws" /\ ~job'[j].disturbed => Resolved[config.requester] \in denied
        BY <1>1, <3>1, <4>2, EntryJudged
      <4>4. QED
        BY <1>1, <3>3, <4>2, <4>3 DEF Guarded, Doing
    <3>5. QED
      BY <3>1, <3>4 DEF Peering
  <2>3. QED
    BY <1>9, <2>1, <2>2 DEF AttemptVpcPeeringDryRun
<1>10. QED
  BY <1>1, <1>2, <1>5, <1>6, <1>7, <1>8, <1>9, StepsOfScenario DEF PeeringStep

(* Nothing else touches what the guardrail said: the lists and the guardrail*)
(* do not change while the scenario runs.                                   *)
LEMMA PeeringWatched ==
    ASSUME NEW j \in Jobs, Watches(j), Peering(j), Guarded(j)
    PROVE  Peering(j)' /\ Guarded(j)'
<1>1. UNCHANGED <<provider, config, denied>>
  BY DEF Watches, settings
<1>2. /\ job'[j].scenario = job[j].scenario /\ job'[j].pc = job[j].pc
      /\ job'[j].verdict = job[j].verdict /\ job'[j].left = job[j].left
      /\ job'[j].violations = job[j].violations /\ job'[j].permitted = job[j].permitted
      /\ job[j].disturbed => job'[j].disturbed
  BY DEF Watches, Same
<1>3. Judged(j) => Judged(j)'
  BY <1>1, <1>2 DEF Judged, TriedOf, ListOf, Doing
<1>4. Peering(j)'
  BY <1>1, <1>2, <1>3 DEF Peering, ListOf
<1>5. QED
  BY <1>1, <1>2, <1>4 DEF Guarded, Passed, Doing

(* A passed peering check means what it says, for any lists of networks:    *)
(* what TryEntry and EnrichEvidence collect one entry at a time is what the *)
(* scenario asserts of the whole list at the end.                           *)
THEOREM GuardrailHolds == Spec => []GuardrailVerdict
<1> DEFINE AllGuarded == \A j \in Jobs : Peering(j) /\ Guarded(j)
<1>1. Init => AllGuarded
  <2> SUFFICES ASSUME Init, NEW j \in Jobs PROVE Peering(j) /\ Guarded(j)
    OBVIOUS
  <2>1. PICK s : job[j] = NewJob(s)
    BY DEF Init, Begins
  <2>2. /\ job[j].verdict = "none" /\ job[j].violations = {} /\ job[j].permitted = {}
        /\ job[j].pc \notin {"dryrun", "peer"}
    BY <2>1, LogTypesOf DEF NewJob, FirstStep
  <2>3. QED
    BY <2>2 DEF Peering, Guarded, Passed
<1>2. Typed /\ AllGuarded /\ [Next]_vars => AllGuarded'
  <2> SUFFICES ASSUME Typed, AllGuarded, [Next]_vars, NEW j \in Jobs
               PROVE  Peering(j)' /\ Guarded(j)'
    OBVIOUS
  <2>1. QED
    BY StepOrWatch, PeeringByJob, PeeringWatched DEF Typed
<1>3. AllGuarded => GuardrailVerdict
  BY DEF GuardrailVerdict, Guarded
<1> HIDE DEF AllGuarded
<1>4. QED
  BY <1>1, <1>2, <1>3, AlwaysTyped, PTL DEF Spec

-----------------------------------------------------------------------------
(* The two bursts *)

(* The calls of both bursts that were let through so far. *)
Accepted(j) == IF job[j].pc = "burst" THEN job[j].count.ok ELSE config.threshold + job[j].count.ok

(* As long as nobody interferes, the calls let through and the calls left   *)
(* make up the limit, and a call is throttled when none is left.            *)
Burst(j) ==
    Bursting(j) =>
        /\ job[j].count.throttled > 0 => limit # None
        /\ ~job[j].disturbed =>
             /\ job[j].count.failed = 0
             /\ limit # None => Accepted(j) + tokens = limit
             /\ job[j].count.throttled > 0 => tokens = 0

(* What RateVerdict says of one job. *)
Rated(j) ==
    Doing(j, "rate") /\ At(j, "done") =>
        /\ Passed(j) => limit # None
        /\ ~job[j].disturbed =>
             (Passed(j) <=> /\ limit # None
                            /\ config.threshold <= limit
                            /\ limit < config.threshold + config.overrun)

(* A burst that called as often as it should, none failing: by how many     *)
(* were let through it is known where the limit is.                         *)
LEMMA BurstsTell ==
    ASSUME NEW l \in Nat, NEW t \in Nat, NEW first \in Nat, NEW second \in Nat,
           NEW ok \in Nat, NEW throttled \in Nat, throttled > 0 => t = 0
    PROVE  /\ ok + t = l /\ ok + throttled + 0 = first /\ ok # first => l < first
           /\ first + ok + t = l /\ ok + throttled + 0 = second =>
                (throttled > 0 <=> first <= l /\ l < first + second)
OBVIOUS

(* One call is counted under one heading. *)
LEMMA CountedOnce ==
    ASSUME NEW c \in [ok : Nat, throttled : Nat, failed : Nat], NEW k \in {"ok", "throttled", "failed"},
           NEW d, d = [c EXCEPT ![k] = @ + 1]
    PROVE  /\ d.ok = IF k = "ok" THEN c.ok + 1 ELSE c.ok
           /\ d.throttled = IF k = "throttled" THEN c.throttled + 1 ELSE c.throttled
           /\ d.failed = IF k = "failed" THEN c.failed + 1 ELSE c.failed
           /\ c.ok \in Nat /\ c.throttled \in Nat /\ c.failed \in Nat
OBVIOUS

(* A call of the burst. *)
LEMMA BurstCalls ==
    ASSUME Typed, NEW j \in Jobs, InvokeBurst(j), Burst(j)
    PROVE  Burst(j)' /\ job'[j].pc # "done"
<1>1. /\ job[j] \in Job /\ CloudTyped /\ UNCHANGED <<config, limit>>
      /\ limit \in Nat \cup {None} /\ tokens \in Nat /\ config.threshold \in Nat
      /\ provider \in {"aws", "azure", "gcp"} /\ Bursting(j)
  BY ProbesAssumption, KnownProvider DEF Typed, CloudTyped, Config, InvokeBurst, settings
<1>2. PICK answer :
          /\ answer \in {"2xx", "429", "no answer"}
          /\ answer = "2xx" => limit = None \/ tokens > 0
          /\ answer = "429" => limit # None /\ ~(tokens > 0)
          /\ tokens' = IF answer = "2xx" /\ limit # None THEN tokens - 1 ELSE tokens
          /\ job'[j] = [job[j] EXCEPT !.count[Counted(answer)] = @ + 1,
                                      !.disturbed = @ \/ answer = "no answer"]
  BY DEF InvokeBurst
<1>t. tokens \in Nat
  BY <1>1
<1>3. job'[j].scenario = job[j].scenario /\ job'[j].pc = job[j].pc
  BY <1>1, <1>2 DEF Job
<1>4. job'[j].count = [job[j].count EXCEPT ![Counted(answer)] = @ + 1]
  BY <1>1, <1>2 DEF Job
<1>5. job'[j].disturbed = (job[j].disturbed \/ answer = "no answer")
  BY <1>1, <1>2 DEF Job
<1>c. job[j].count \in [ok : Nat, throttled : Nat, failed : Nat]
  BY <1>1 DEF Job
<1>6. PICK ok \in Nat, throttled \in Nat, failed \in Nat :
          job[j].count.ok = ok /\ job[j].count.throttled = throttled /\ job[j].count.failed = failed
  BY <1>c
<1>7. CASE answer = "no answer"
  <2>1. Counted(answer) = "failed"
    BY <1>1, <1>7 DEF Counted, AWSInvokeFunctionBurst, AzureInvokeFunctionBurst, GCPInvokeFunctionBurst,
       AWSCounted, HTTPCounted, InvokeHTTP
  <2>2. job'[j].disturbed /\ job'[j].count.throttled = job[j].count.throttled
    BY <1>c, <1>4, <1>5, <1>7, <2>1, CountedOnce
  <2>3. QED
    BY <1>1, <1>3, <2>2 DEF Burst, Bursting, Doing
<1>8. CASE answer = "2xx"
  <2>1. Counted(answer) = "ok"
    BY <1>1, <1>8 DEF Counted, AWSInvokeFunctionBurst, AzureInvokeFunctionBurst, GCPInvokeFunctionBurst,
       AWSCounted, HTTPCounted, InvokeHTTP
  <2>2. job'[j].count.ok = ok + 1 /\ job'[j].count.throttled = throttled /\ job'[j].count.failed = failed
    BY <1>c, <1>4, <1>6, <2>1, CountedOnce
  <2>3. (limit = None \/ tokens > 0) /\ tokens' = IF limit # None THEN tokens - 1 ELSE tokens
    BY <1>2, <1>8
  <2>4. throttled > 0 => limit # None
    BY <1>1, <1>6 DEF Burst
  <2>5. ASSUME ~job'[j].disturbed
        PROVE  /\ failed = 0 /\ (throttled > 0 => tokens' = 0)
               /\ limit # None => Accepted(j)' + tokens' = limit
    <3>1. ~job[j].disturbed
      BY <1>5, <2>5
    <3>2. failed = 0 /\ (throttled > 0 => tokens = 0)
      BY <1>1, <1>6, <3>1 DEF Burst
    <3>3. ~(throttled > 0)
      <4>1. CASE limit = None
        BY <2>4, <4>1
      <4>2. CASE tokens > 0
        BY <1>t, <3>2, <4>2
      <4>3. QED
        BY <2>3, <4>1, <4>2
    <3>4. Accepted(j) = (IF job[j].pc = "burst" THEN ok ELSE config.threshold + ok)
      BY <1>6 DEF Accepted
    <3>5. Accepted(j)' = (IF job[j].pc = "burst" THEN ok + 1 ELSE config.threshold + (ok + 1))
      BY <1>1, <1>3, <2>2 DEF Accepted
    <3>6. limit # None => Accepted(j) + tokens = limit
      BY <1>1, <3>1 DEF Burst
    <3>7. limit # None => Accepted(j)' + tokens' = limit
      <4>1. SUFFICES ASSUME limit # None
                     PROVE  Accepted(j)' + tokens' = limit
        OBVIOUS
      <4>2. tokens' = tokens - 1
        BY <2>3, <4>1
      <4>3. PICK a \in Nat : Accepted(j) = a /\ Accepted(j)' = a + 1
        <5>1. config.threshold \in Nat
          BY <1>1
        <5>2. QED
          BY <3>4, <3>5, <5>1
      <4>4. a + tokens = limit
        BY <3>6, <4>1, <4>3
      <4>5. QED
        BY <1>t, <4>2, <4>3, <4>4
    <3>8. QED
      BY <3>2, <3>3, <3>7
  <2>6. QED
    BY <1>1, <1>3, <2>2, <2>4, <2>5 DEF Burst, Bursting
<1>9. CASE answer = "429"
  <2>1. Counted(answer) = "throttled" /\ limit # None /\ ~(tokens > 0)
    BY <1>1, <1>2, <1>9 DEF Counted, AWSInvokeFunctionBurst, AzureInvokeFunctionBurst,
       GCPInvokeFunctionBurst, AWSCounted, HTTPCounted, InvokeHTTP
  <2>2. job'[j].count.ok = ok /\ job'[j].count.throttled = throttled + 1 /\ job'[j].count.failed = failed
    BY <1>c, <1>4, <1>6, <2>1, CountedOnce
  <2>3. tokens' = tokens /\ tokens = 0
    BY <1>1, <1>2, <1>9, <2>1
  <2>4. Accepted(j)' = Accepted(j)
    BY <1>1, <1>3, <1>6, <2>2 DEF Accepted
  <2>5. ~job'[j].disturbed => failed = 0 /\ Accepted(j) + tokens = limit
    BY <1>1, <1>5, <1>6, <2>1 DEF Burst
  <2>6. QED
    BY <1>1, <1>3, <2>1, <2>2, <2>3, <2>4, <2>5 DEF Burst, Bursting
<1>10. QED
  BY <1>1, <1>2, <1>3, <1>7, <1>8, <1>9 DEF Bursting

(* The end of a burst: the second one begins, or there is a verdict. *)
LEMMA BurstOver ==
    ASSUME Typed, NEW j \in Jobs, BurstEnds(j), Burst(j)
    PROVE  Burst(j)' /\ Rated(j)'
<1>1. /\ job \in [Jobs -> Job] /\ job[j] \in Job /\ CloudTyped /\ UNCHANGED <<config, limit, tokens>>
      /\ Bursting(j) /\ Made(job[j].count) = Size(j) /\ ~Passed(j)
  BY NotYetPassed DEF Typed, BurstEnds, settings, cloud, Bursting
<1>2. /\ limit \in Nat \cup {None} /\ tokens \in Nat
      /\ config.threshold \in Nat /\ config.overrun \in Nat
      /\ job[j].count \in [ok : Nat, throttled : Nat, failed : Nat]
  BY <1>1, ProbesAssumption DEF CloudTyped, Config, Job
<1>3. PICK ok \in Nat, throttled \in Nat, failed \in Nat, first \in Nat, second \in Nat, rest \in Nat :
          /\ job[j].count.ok = ok /\ job[j].count.throttled = throttled /\ job[j].count.failed = failed
          /\ config.threshold = first /\ config.overrun = second /\ tokens = rest
  BY <1>2
<1>4. /\ job[j].pc = "burst" => ok + throttled + failed = first
      /\ job[j].pc # "burst" => ok + throttled + failed = second
  BY <1>1, <1>3 DEF Made, Size, SizeKey, Bursting
<1>5. throttled > 0 => limit # None
  BY <1>1, <1>3 DEF Burst
<1>6. ASSUME ~job[j].disturbed
      PROVE  /\ failed = 0
             /\ throttled > 0 => rest = 0
             /\ limit # None => Accepted(j) + tokens = limit
  BY <1>1, <1>3, <1>6 DEF Burst
<1>7. CASE job[j].pc = "burst" /\ AllSucceeded(j)
  <2>1. job' = [job EXCEPT ![j].pc = "overrun", ![j].count = [c \in DOMAIN @ |-> 0]]
    BY <1>7 DEF BurstEnds, At
  <2>2. /\ job'[j].pc = "overrun" /\ job'[j].scenario = job[j].scenario
        /\ job'[j].disturbed = job[j].disturbed
        /\ job'[j].count = [c \in DOMAIN job[j].count |-> 0]
    BY <1>1, <2>1 DEF Job
  <2>3. job'[j].count.ok = 0 /\ job'[j].count.throttled = 0 /\ job'[j].count.failed = 0
    BY <1>2, <2>2
  <2>4. ok = first
    BY <1>3, <1>7 DEF AllSucceeded, Size, SizeKey
  <2>5. Accepted(j)' = Accepted(j)
    BY <1>1, <1>3, <1>7, <2>2, <2>3, <2>4 DEF Accepted
  <2>6. Burst(j)'
    BY <1>1, <1>6, <2>2, <2>3, <2>5 DEF Burst
  <2>7. QED
    BY <2>2, <2>6 DEF Rated, At
<1>8. ASSUME NEW passed \in BOOLEAN, Concludes(j, passed),
             passed => limit # None,
             ~job[j].disturbed =>
               (passed <=> limit # None /\ first <= limit /\ limit < first + second)
      PROVE  Burst(j)' /\ Rated(j)'
  <2>1. job'[j].pc = "done" /\ (Passed(j)' <=> passed) /\ job'[j].disturbed = job[j].disturbed
    BY <1>1, <1>8, Concluded
  <2>2. QED
    BY <1>1, <1>3, <1>8, <2>1 DEF Burst, Bursting, Rated
<1>9. CASE job[j].pc = "burst" /\ ~AllSucceeded(j)
  <2>1. Concludes(j, FALSE)
    BY <1>9 DEF BurstEnds, At
  <2>2. ok # first
    BY <1>3, <1>9 DEF AllSucceeded, Size, SizeKey
  <2>3. ASSUME ~job[j].disturbed
        PROVE  ~(limit # None /\ first <= limit)
    <3>1. SUFFICES ASSUME limit # None
                   PROVE  ~(first <= limit)
      OBVIOUS
    <3>2. PICK l \in Nat : l = limit /\ ok + rest = l
      BY <1>2, <1>3, <1>6, <1>9, <2>3, <3>1 DEF Accepted
    <3>3. failed = 0 /\ ok + throttled + 0 = first /\ (throttled > 0 => rest = 0)
      BY <1>4, <1>6, <1>9, <2>3
    <3>4. l < first
      BY <2>2, <3>2, <3>3, BurstsTell
    <3>5. QED
      BY <3>2, <3>4
  <2>4. QED
    BY <1>8, <2>1, <2>3
<1>10. CASE job[j].pc # "burst"
  <2>1. job[j].pc = "overrun" /\ Concludes(j, throttled > 0)
    BY <1>1, <1>3, <1>10 DEF BurstEnds, At, Bursting
  <2>2. ASSUME ~job[j].disturbed
        PROVE  throttled > 0 <=> limit # None /\ first <= limit /\ limit < first + second
    <3>1. CASE limit = None
      BY <1>5, <3>1
    <3>2. CASE limit # None
      <4>1. PICK l \in Nat : l = limit /\ first + ok + rest = l
        BY <1>2, <1>3, <1>6, <1>10, <2>2, <3>2 DEF Accepted
      <4>2. failed = 0 /\ ok + throttled + 0 = second /\ (throttled > 0 => rest = 0)
        BY <1>4, <1>6, <1>10, <2>2
      <4>3. throttled > 0 <=> first <= l /\ l < first + second
        BY <4>1, <4>2, BurstsTell
      <4>4. QED
        BY <3>2, <4>1, <4>3
    <3>3. QED
      BY <3>1, <3>2
  <2>3. (throttled > 0) \in BOOLEAN
    OBVIOUS
  <2>4. QED
    BY <1>5, <1>8, <2>1, <2>2, <2>3
<1>11. QED
  BY <1>7, <1>9, <1>10

(* A step of the job itself. *)
LEMMA RateByJob ==
    ASSUME Typed, NEW j \in Jobs, JobStep(j), Burst(j)
    PROVE  Burst(j)' /\ Rated(j)'
<1>1. /\ job \in [Jobs -> Job] /\ InStage(j) /\ Advances(j) /\ ~Passed(j)
      /\ job'[j].scenario = job[j].scenario
  BY JobsAdvance, NotYetPassed DEF Typed, Advances
<1>2. CASE job[j].scenario # "rate"
  BY <1>1, <1>2 DEF Burst, Bursting, Rated, Doing
<1>3. CASE BurstFails(j)
  <2>1. job'[j].disturbed = TRUE /\ job'[j].pc = "done" /\ ~Passed(j)'
    BY <1>1, <1>3, ConcludedDisturbed DEF BurstFails
  <2>2. QED
    BY <2>1 DEF Burst, Bursting, Rated
<1>4. CASE InvokeBurst(j)
  BY <1>4, BurstCalls DEF Rated, At
<1>5. CASE BurstEnds(j)
  BY <1>5, BurstOver
<1>6. QED
  BY <1>1, <1>2, <1>3, <1>4, <1>5, StepsOfScenario

(* Any other step: who spends or refills the calls left disturbs the job. *)
LEMMA RateWatched ==
    ASSUME NEW j \in Jobs, Watches(j), Burst(j), Rated(j)
    PROVE  Burst(j)' /\ Rated(j)'
<1>1. UNCHANGED <<config, limit>>
  BY DEF Watches, settings
<1>2. /\ job'[j].scenario = job[j].scenario /\ job'[j].pc = job[j].pc
      /\ job'[j].verdict = job[j].verdict /\ job'[j].count = job[j].count
      /\ job[j].disturbed => job'[j].disturbed
      /\ job[j].scenario = "rate" /\ ~job'[j].disturbed => tokens' = tokens
  BY DEF Watches, Same
<1>3. Accepted(j)' = Accepted(j)
  BY <1>1, <1>2 DEF Accepted
<1>4. Burst(j)'
  BY <1>1, <1>2, <1>3 DEF Burst, Bursting, Doing
<1>5. QED
  BY <1>1, <1>2, <1>4 DEF Rated, Passed, Doing, At

(* For every size of the two bursts and every limit: the rate check never   *)
(* passes on a function without a limit, and if nobody interferes it passes *)
(* exactly when the limit lies between the first burst and both together.   *)
THEOREM RateHolds == Spec => []RateVerdict
<1> DEFINE AllRated == \A j \in Jobs : Burst(j) /\ Rated(j)
<1>1. Init => AllRated
  <2> SUFFICES ASSUME Init, NEW j \in Jobs PROVE Burst(j) /\ Rated(j)
    OBVIOUS
  <2>1. PICK s : job[j] = NewJob(s)
    BY DEF Init, Begins
  <2>2. /\ job[j].count.ok = 0 /\ job[j].count.throttled = 0 /\ job[j].count.failed = 0
        /\ job[j].scenario = s /\ job[j].pc = FirstStep(s)
    BY <2>1 DEF NewJob
  <2>3. s = "rate" => job[j].pc = "burst"
    BY <2>2, LogTypesOf DEF FirstStep
  <2>4. limit \in Nat \cup {None} /\ tokens = IF limit = None THEN 0 ELSE limit
    BY ProbesAssumption DEF Init, Begins
  <2>5. Bursting(j) => Accepted(j) = 0
    BY <2>2, <2>3 DEF Bursting, Doing, Accepted
  <2>6. QED
    BY <2>2, <2>3, <2>4, <2>5 DEF Burst, Rated, Bursting, Doing, At
<1>2. Typed /\ AllRated /\ [Next]_vars => AllRated'
  <2> SUFFICES ASSUME Typed, AllRated, [Next]_vars, NEW j \in Jobs
               PROVE  Burst(j)' /\ Rated(j)'
    OBVIOUS
  <2>1. QED
    BY StepOrWatch, RateByJob, RateWatched DEF Typed
<1>3. AllRated => RateVerdict
  BY DEF RateVerdict, Rated
<1> HIDE DEF AllRated
<1>4. QED
  BY <1>1, <1>2, <1>3, AlwaysTyped, PTL DEF Spec

-----------------------------------------------------------------------------
(* What a check passes on, and what it misses *)

(* How an entry that a query keeps can be about the resource. *)
About(e, s) ==
    \/ e.resource = "this"
    \/ e.resource = "alike" /\ (provider = "aws" => s # "flow") /\ (provider = "azure" => s = "admin")
    \/ e.resource = "none" /\ provider = "azure" /\ s = "admin"

(* What PassedOnEvidence says of one job. *)
Evident(j) ==
    Passed(j) /\ Logged(job[j].scenario) =>
        /\ job[j].basis # {}
        /\ \A e \in job[j].basis :
             /\ e.state = "delivered"
             /\ About(e, job[j].scenario)
             /\ e.kind = LogTypeOf[job[j].scenario] \/ Misfiled(provider, e)
             /\ provider = "azure" => e.by = Other /\ e.result = "Succeeded"
        /\ provider # "gcp"
        /\ Doing(j, "flow") => provider = "aws" /\ job[j].clean

(* What DeliveredIsFound says of one job. *)
Fair(j) ==
    \A e \in job[j].missed :
        \/ Misfiled(provider, e)
        \/ e.resource = "id" /\ provider = "aws" /\ (config.byName \/ Doing(j, "flow"))
        \/ provider = "gcp"
        \/ provider = "azure" /\ Doing(j, "flow")

(* What CloudTrail's names make of the actions it logs. *)
LEMMA NamesFiled ==
    ASSUME NEW e \in Entry(Jobs \cup {Other}), <<e.action, e.kind>> \in AWSEvidence, e.kind # "flow"
    PROVE  /\ ~IsDataPlaneEventName(e.action) => e.kind = "admin" \/ Misfiled("aws", e)
           /\ IsDataPlaneEventName(e.action) => ~IsReadOnlyEventName(e.action)
           /\ IsDataPlaneEventName(e.action) => e.kind = "data-write" \/ Misfiled("aws", e)
           /\ e.kind = "admin" /\ ~Misfiled("aws", e) => ~IsDataPlaneEventName(e.action)
           /\ e.kind = "data-write" => IsDataPlaneEventName(e.action)
           /\ e.kind = "data-read" => Misfiled("aws", e)
<1>1. \A x \in AWSEvidence :
          \/ x[1] \in {"UpdateFunctionConfiguration", "CreateTags", "PutConcurrency"} /\ x[2] = "admin"
          \/ x[1] \in {"Invoke", "CreateTags"} /\ x[2] = "data-write"
          \/ x[1] \in {"Invoke", "DescribeInstances"} /\ x[2] = "data-read"
          \/ x[1] = "AddPermission" /\ x[2] = "admin"
          \/ x[1] = "Packets" /\ x[2] = "flow"
  BY DEF AWSEvidence
<1>2. \/ e.action \in {"UpdateFunctionConfiguration", "CreateTags", "PutConcurrency"} /\ e.kind = "admin"
      \/ e.action \in {"Invoke", "CreateTags"} /\ e.kind = "data-write"
      \/ e.action \in {"Invoke", "DescribeInstances"} /\ e.kind = "data-read"
      \/ e.action = "AddPermission" /\ e.kind = "admin"
  BY <1>1
<1>3. /\ Verb["UpdateFunctionConfiguration"] = "Update" /\ Verb["CreateTags"] = "Create"
      /\ Verb["PutConcurrency"] = "Put" /\ Verb["Invoke"] = "Invoke"
      /\ Verb["DescribeInstances"] = "Describe" /\ Verb["AddPermission"] = "Add"
  BY DEF Verb
<1>4. QED
  BY <1>2, <1>3 DEF IsDataPlaneEventName, IsReadOnlyEventName, Misfiled

(* On AWS a matching entry is of the kind asked for, unless it is misfiled. *)
LEMMA AWSMatches ==
    ASSUME Typed, provider = "aws", NEW j \in Jobs, Logged(job[j].scenario), NEW e \in Matching(j)
    PROVE  /\ e.kind = LogTypeOf[job[j].scenario] \/ Misfiled(provider, e)
           /\ e.state = "delivered" /\ About(e, job[j].scenario)
<1> DEFINE type == LogTypeOf[job[j].scenario]
<1>1. e \in AWSQueryLogs(Visible, type)
  BY DEF Matching, Found, QueryLogs
<1>2. e \in log /\ e \in Visible /\ e.state = "delivered"
  <2>1. e \in Visible
    BY QueriesSelect DEF Typed
  <2>2. QED
    BY <2>1 DEF Visible
<1>3. e \in Entry(Jobs \cup {Other}) /\ <<e.action, e.kind>> \in AWSEvidence
  BY <1>2 DEF Typed, LogTrue, TrueEntry
<1>4. /\ type \in {"admin", "data-write", "data-read", "flow"}
      /\ type = "flow" <=> job[j].scenario = "flow"
  BY LogTypesOf
<1> HIDE DEF type
<1>5. CASE type = "flow"
  BY <1>1, <1>2, <1>5 DEF AWSQueryLogs, AWSQueryFlowLogs, About, type
<1>6. CASE type # "flow"
  <2>1. /\ e.kind # "flow" /\ e.resource \in {"this", "alike"}
        /\ type = "admin" => ~IsDataPlaneEventName(e.action)
        /\ type # "admin" => /\ IsDataPlaneEventName(e.action)
                             /\ IsReadOnlyEventName(e.action) <=> type = "data-read"
    BY <1>1, <1>6 DEF AWSQueryLogs, QueryCloudTrail, Contains
  <2>2. e.kind = type \/ Misfiled("aws", e)
    BY <1>3, <1>4, <1>6, <2>1, NamesFiled
  <2>3. About(e, job[j].scenario)
    BY <1>4, <1>6, <2>1 DEF About
  <2>4. QED
    BY <1>2, <2>2, <2>3 DEF type
<1>7. QED
  BY <1>5, <1>6

(* On Azure it is of the kind asked for, of a resource that the query cannot*)
(* tell from the one asked for, and it succeeded; the flow tables show no result, and no job causes any  *)
(* other entry.                                                             *)
LEMMA AzureMatches ==
    ASSUME Typed, provider = "azure", NEW j \in Jobs, Logged(job[j].scenario), NEW e \in Matching(j)
    PROVE  /\ e.kind = LogTypeOf[job[j].scenario] /\ About(e, job[j].scenario)
           /\ e.state = "delivered"
           /\ e.by = Other /\ e.result = "Succeeded" /\ job[j].scenario # "flow"
<1> DEFINE type == LogTypeOf[job[j].scenario]
<1>1. e \in AzureQueryLogs(Visible, type) /\ AzureResult(e) = Wanted(job[j].scenario)
  BY DEF Matching, Found, QueryLogs, ResultOf
<1>2. e \in log /\ e.state = "delivered"
  <2>1. e \in Visible
    BY QueriesSelect DEF Typed
  <2>2. QED
    BY <2>1 DEF Visible
<1>3. e.kind # "flow" => e.by = Other
  BY <1>2 DEF Typed, LogTrue, TrueEntry
<1>4. /\ job[j].scenario \in {"admin", "write", "read", "flow"}
      /\ type \in {"admin", "data-write", "data-read", "flow"}
      /\ type = "flow" <=> job[j].scenario = "flow"
      /\ type = "admin" <=> job[j].scenario = "admin"
  BY LogTypesOf
<1> HIDE DEF type
<1>5. /\ e.kind = type
      /\ type = "admin" => e.resource \in {"this", "alike", "none"}
      /\ type \notin {"admin", "flow"} => e.resource = "this"
  BY <1>1, <1>4 DEF AzureQueryLogs, QueryActivityLog, AzureQueryFlowLogs, QueryStorageLogs, Contains
<1>6. type # "flow"
  BY <1>1, <1>4, <1>5 DEF AzureResult, RunKQL, Wanted
<1>7. e.result = "Succeeded"
  BY <1>1, <1>4, <1>5, <1>6 DEF AzureResult, RunKQL, Wanted
<1>8. About(e, job[j].scenario)
  BY <1>4, <1>5, <1>6 DEF About
<1>9. QED
  BY <1>2, <1>3, <1>4, <1>5, <1>6, <1>7, <1>8 DEF type

(* On GCP nothing matches: no severity is a result the scenarios ask for.   *)
LEMMA GCPMatches ==
    ASSUME provider = "gcp", NEW j \in Jobs
    PROVE  Matching(j) = {}
BY DEF Matching, ResultOf, GCPResult, Wanted

(* An entry of one's own that should be found matches on AWS, when it is    *)
(* not misfiled and has the name asked for; on Azure there is none but for  *)
(* flows.                                                                   *)
LEMMA OwnIsFound ==
    ASSUME Typed, NEW j \in Jobs, Logged(job[j].scenario), NEW e \in OwnEvidence(j), ~Misfiled(provider, e)
    PROVE  /\ provider = "aws" => \/ e \in Matching(j)
                                  \/ e.resource = "id" /\ (config.byName \/ Doing(j, "flow"))
           /\ provider = "azure" => Doing(j, "flow")
<1> DEFINE type == LogTypeOf[job[j].scenario]
<1>1. /\ e \in Visible /\ e \in log /\ e.by = j /\ e.kind = type /\ e.result = Wanted(job[j].scenario)
  BY DEF OwnEvidence, Visible
<1>2. TrueEntry(e)
  BY <1>1 DEF Typed, LogTrue
<1>3. /\ job[j].scenario \in {"admin", "write", "read", "flow"}
      /\ type \in {"admin", "data-write", "data-read", "flow"}
      /\ type = "flow" <=> job[j].scenario = "flow"
  BY LogTypesOf
<1>b. CASE ByOtherId(e)
  BY <1>1, <1>3, <1>b DEF ByOtherId, Doing
<1>4. CASE provider = "aws" /\ ~ByOtherId(e)
  <2>1. e \in Entry(Jobs \cup {Other}) /\ <<e.action, e.kind>> \in AWSEvidence /\ e.resource = "this"
    BY <1>1, <1>2, <1>4 DEF TrueEntry
  <2> HIDE DEF type
  <2>2. e \in AWSQueryLogs(Visible, type)
    <3>1. CASE type = "flow"
      BY <1>1, <2>1, <3>1 DEF AWSQueryLogs, AWSQueryFlowLogs
    <3>2. CASE type # "flow"
      <4>1. /\ type = "admin" => ~IsDataPlaneEventName(e.action)
            /\ type # "admin" => /\ IsDataPlaneEventName(e.action)
                                 /\ ~IsReadOnlyEventName(e.action) /\ type = "data-write"
        BY <1>1, <1>3, <1>4, <2>1, <3>2, NamesFiled
      <4>2. QED
        BY <1>1, <2>1, <3>2, <4>1 DEF AWSQueryLogs, QueryCloudTrail, Contains
    <3>3. QED
      BY <3>1, <3>2
  <2>3. AWSResult(e) = Wanted(job[j].scenario)
    <3>1. CASE type = "flow"
      BY <1>1, <1>3, <3>1 DEF AWSResult, ParseFlowLogMessage, Wanted
    <3>2. CASE type # "flow"
      BY <1>1, <1>3, <3>2 DEF AWSResult, Wanted
    <3>3. QED
      BY <3>1, <3>2
  <2>4. e \in QueryLogs(provider, Visible, type)
    BY <1>4, <2>2 DEF QueryLogs
  <2>5. ResultOf(provider, e) = Wanted(job[j].scenario)
    BY <1>4, <2>3 DEF ResultOf
  <2>6. e \in Matching(j)
    BY <2>4, <2>5 DEF Matching, Found, type
  <2>7. QED
    BY <1>4, <2>6
<1>5. CASE provider = "azure"
  <2>1. e.kind # "flow" => e.by = Other
    BY <1>2, <1>5 DEF TrueEntry
  <2>2. j # Other
    BY ProbesAssumption
  <2>3. QED
    BY <1>1, <1>3, <1>5, <2>1, <2>2 DEF Doing
<1>6. QED
  BY <1>b, <1>4, <1>5 DEF ByOtherId

(* Before the query no logging check passes. *)
LEMMA OnlyQueriesPass ==
    ASSUME Typed, NEW j \in Jobs, JobStep(j), Logged(job[j].scenario), ~Query(j)
    PROVE  ~Passed(j)'
<1>1. /\ job \in [Jobs -> Job] /\ job[j] \in Job /\ InStage(j) /\ Advances(j) /\ ~Passed(j)
      /\ job[j].scenario \in {"admin", "write", "read", "flow"}
  BY JobsAdvance, NotYetPassed, LogTypesOf DEF Typed, Advances
<1>2. Concludes(j, FALSE) => ~Passed(j)'
  BY <1>1, Concluded
<1>3. job'[j].verdict = job[j].verdict => ~Passed(j)'
  BY <1>1 DEF Passed
<1>4. \A pc : Moves(j, pc) => job'[j].verdict = job[j].verdict
  BY <1>1 DEF Moves, Job
<1>5. CASE AWSTrigger(j)
  <2>1. PICK action, asserted : AWSCall(j, action, asserted)
    BY <1>5 DEF AWSTrigger, AWSFunctionUpdateResourcePolicy, AWSFunctionTriggerDataWrite,
       AWSFunctionTriggerDataRead, AWSMachineUpdateResourcePolicy, AWSMachineTriggerDataWrite,
       AWSMachineTriggerDataRead
  <2>2. QED
    BY <1>2, <1>3, <1>4, <2>1 DEF AWSCall
<1>6. CASE SilentTrigger(j)
  BY <1>3, <1>4, <1>6 DEF SilentTrigger, AzureFunctionTrigger, GCPFunctionTrigger, AzureMachineTrigger,
     GCPMachineTrigger
<1>7. CASE GenerateTestTraffic(j)
  <2>1. PICK clean \in BOOLEAN : job' = [job EXCEPT ![j].pc = "query", ![j].clean = clean]
    BY <1>7 DEF GenerateTestTraffic
  <2>2. QED
    BY <1>1, <1>3, <2>1 DEF Job
<1>8. CASE GCPReadLabels(j)
  <2>1. CASE job' = [job EXCEPT ![j].pc = "patch", ![j].read = labels, ![j].readAt = version]
    BY <1>1, <1>3, <2>1 DEF Job
  <2>2. QED
    BY <1>2, <1>8, <2>1 DEF GCPReadLabels
<1>9. CASE GCPPatchAccepted(j) \/ GCPPatchFails(j) \/ QueryFails(j)
  BY <1>2, <1>3, <1>4, <1>9 DEF GCPPatchAccepted, GCPPatchFails, QueryFails
<1>10. CASE GCPPatchConflicts(j)
  <2>1. CASE job' = [job EXCEPT ![j].attempt = @ + 1]
    BY <1>1, <1>3, <2>1 DEF Job
  <2>2. QED
    BY <1>2, <1>10, <2>1 DEF GCPPatchConflicts
<1>11. QED
  BY <1>1, <1>5, <1>6, <1>7, <1>8, <1>9, <1>10, StepsOfScenario DEF BeforeQuery

(* The query: it passes on what matches, and on nothing else. *)
LEMMA QueryTells ==
    ASSUME Typed, NEW j \in Jobs, Query(j)
    PROVE  /\ Passed(j)' => /\ job'[j].basis = Matching(j) /\ Matching(j) # {}
                            /\ Doing(j, "flow") => job[j].clean
           /\ job'[j].missed \subseteq OwnEvidence(j)
           /\ job'[j].missed # {} => Matching(j) = {}
           /\ job'[j].scenario = job[j].scenario /\ job'[j].clean = job[j].clean
           /\ Logged(job[j].scenario)
<1> DEFINE passed == Matching(j) # {} /\ (Doing(j, "flow") => job[j].clean)
           missed == IF passed \/ (Doing(j, "flow") /\ ~job[j].clean) THEN {} ELSE OwnEvidence(j)
<1>1. job[j] \in Job /\ job \in [Jobs -> Job]
  BY DEF Typed
<1>2. job' = [job EXCEPT
                     ![j].pc = "done",
                     ![j].verdict = IF passed THEN "pass" ELSE "fail",
                     ![j].basis = IF passed THEN Matching(j) ELSE {},
                     ![j].missed = missed]
  BY DEF Query
<1> HIDE DEF passed, missed
<1>3. /\ job'[j].verdict = IF passed THEN "pass" ELSE "fail"
      /\ job'[j].basis = IF passed THEN Matching(j) ELSE {}
      /\ job'[j].missed = missed
      /\ job'[j].scenario = job[j].scenario /\ job'[j].clean = job[j].clean
  BY <1>1, <1>2 DEF Job
<1>4. Logged(job[j].scenario)
  <2>1. InStage(j) /\ job[j].pc = "query" /\ job[j].scenario \in Scenarios
    BY <1>1 DEF Typed, Query, At, Job
  <2>2. QED
    BY <2>1, LogTypesOf DEF InStage, Scenarios
<1>5. QED
  BY <1>3, <1>4 DEF passed, missed, Passed

(* A step of the job itself. *)
LEMMA EvidenceByJob ==
    ASSUME Typed, NEW j \in Jobs, JobStep(j), Evident(j), Fair(j)
    PROVE  Evident(j)' /\ Fair(j)'
<1>1. /\ Advances(j) /\ UNCHANGED <<provider, config>> /\ job'[j].scenario = job[j].scenario
      /\ provider \in {"aws", "azure", "gcp"}
  BY JobsAdvance, KnownProvider DEF Typed, Advances, settings
<1>2. CASE ~Query(j)
  <2>1. Logged(job[j].scenario) => ~Passed(j)'
    BY <1>2, OnlyQueriesPass
  <2>2. Evident(j)'
    BY <1>1, <2>1 DEF Evident
  <2>3. Fair(j)'
    BY <1>1, <1>2 DEF Advances, Fair, Doing, Misfiled
  <2>4. QED
    BY <2>2, <2>3
<1>3. CASE Query(j)
  <2>1. Logged(job[j].scenario) /\ job'[j].clean = job[j].clean
    BY <1>3, QueryTells
  <2>2. Evident(j)'
    <3>1. SUFFICES ASSUME Passed(j)'
                   PROVE  Evident(j)'
      BY DEF Evident
    <3>2. /\ job'[j].basis = Matching(j) /\ Matching(j) # {}
          /\ Doing(j, "flow") => job[j].clean
      BY <1>3, <3>1, QueryTells
    <3>3. provider # "gcp"
      BY <3>2, GCPMatches
    <3>4. \A e \in Matching(j) :
             /\ e.state = "delivered"
             /\ About(e, job[j].scenario)
             /\ e.kind = LogTypeOf[job[j].scenario] \/ Misfiled(provider, e)
             /\ provider = "azure" => e.by = Other /\ e.result = "Succeeded"
      BY <1>1, <2>1, <3>3, AWSMatches, AzureMatches
    <3>5. Doing(j, "flow") => provider = "aws" /\ job'[j].clean
      BY <1>1, <2>1, <3>2, <3>3, AzureMatches DEF Doing
    <3>6. QED
      BY <1>1, <3>2, <3>3, <3>4, <3>5 DEF Evident, Doing, Misfiled, About
  <2>3. Fair(j)'
    <3>1. SUFFICES ASSUME NEW e \in job'[j].missed, ~Misfiled(provider, e)
                   PROVE  \/ e.resource = "id" /\ provider = "aws" /\ (config.byName \/ Doing(j, "flow"))
                          \/ provider = "gcp"
                          \/ provider = "azure" /\ Doing(j, "flow")
      BY <1>1 DEF Fair, Doing, Misfiled
    <3>2. e \in OwnEvidence(j) /\ Matching(j) = {}
      BY <1>3, QueryTells
    <3>3. QED
      BY <1>1, <2>1, <3>1, <3>2, OwnIsFound
  <2>4. QED
    BY <2>2, <2>3
<1>4. QED
  BY <1>2, <1>3

(* Any other step leaves what the job found. *)
LEMMA EvidenceWatched ==
    ASSUME NEW j \in Jobs, Watches(j), Evident(j), Fair(j)
    PROVE  Evident(j)' /\ Fair(j)'
<1>1. UNCHANGED <<provider, config>>
  BY DEF Watches, settings
<1>2. /\ job'[j].scenario = job[j].scenario /\ job'[j].verdict = job[j].verdict
      /\ job'[j].basis = job[j].basis /\ job'[j].missed = job[j].missed
      /\ job'[j].clean = job[j].clean
  BY DEF Watches, Same
<1>3. QED
  BY <1>1, <1>2 DEF Evident, Fair, Passed, Doing, Misfiled, About

(* Both hold in every reachable state. *)
LEMMA AlwaysEvident == Spec => [](\A j \in Jobs : Evident(j) /\ Fair(j))
<1> DEFINE AllEvident == \A j \in Jobs : Evident(j) /\ Fair(j)
<1>1. Init => AllEvident
  <2> SUFFICES ASSUME Init, NEW j \in Jobs PROVE Evident(j) /\ Fair(j)
    OBVIOUS
  <2>1. job[j].verdict = "none" /\ job[j].missed = {}
    BY DEF Init, Begins, NewJob
  <2>2. QED
    BY <2>1 DEF Evident, Fair, Passed
<1>2. Typed /\ AllEvident /\ [Next]_vars => AllEvident'
  <2> SUFFICES ASSUME Typed, AllEvident, [Next]_vars, NEW j \in Jobs
               PROVE  Evident(j)' /\ Fair(j)'
    OBVIOUS
  <2>1. QED
    BY StepOrWatch, EvidenceByJob, EvidenceWatched DEF Typed
<1> HIDE DEF AllEvident
<1>3. Spec => []AllEvident
  BY <1>1, <1>2, AlwaysTyped, PTL DEF Spec
<1>4. QED
  BY <1>3 DEF AllEvident

(* Whatever else is logged, delivered late or expired meanwhile, what a      *)
(* logging check passes on had been delivered, and its provider's query      *)
(* cannot tell it from evidence about the resource; it is of the kind asked  *)
(* for or of one that CloudTrail's names take for it, on Azure somebody      *)
(* else's, and on GCP no check passes.                                       *)
THEOREM EvidenceHolds == Spec => []PassedOnEvidence
<1>1. (\A j \in Jobs : Evident(j) /\ Fair(j)) => PassedOnEvidence
  BY DEF PassedOnEvidence, Evident, About, Doing
<1>2. QED
  BY <1>1, AlwaysEvident, PTL

(* An action that succeeded and was delivered before the query is found: a   *)
(* check misses its own only where CloudTrail's names file it elsewhere, AWS *)
(* names the resource by another id, or GCP and Azure's flow tables show     *)
(* another result.                                                           *)
THEOREM DeliveredHolds == Spec => []DeliveredIsFound
<1>1. (\A j \in Jobs : Evident(j) /\ Fair(j)) => DeliveredIsFound
  BY DEF DeliveredIsFound, Fair
<1>2. QED
  BY <1>1, AlwaysEvident, PTL

-----------------------------------------------------------------------------
(* The labels of a function on GCP *)

(* The update in progress is the job's. *)
Sends(j) == operation # None /\ operation.by = j

(* A job that is about to send the labels it read, or has sent them: as long*)
(* as no update took effect since, it read all that are there, and it sends *)
(* all it read.                                                             *)
ReadAll(j) ==
    /\ job[j].pc = "patch" \/ Sends(j) =>
         /\ job[j].readAt <= version
         /\ job[j].readAt = version => labels \subseteq job[j].read
    /\ Sends(j) => job[j].read \subseteq operation.labels /\ job[j].pc # "trigger"

(* Somebody else keeps the labels that are there. *)
OthersKeep == operation # None /\ operation.by = Other => labels \subseteq operation.labels

(* A job reads the labels before it patches them, and never again. *)
LEMMA ReadsOnce ==
    ASSUME Typed, NEW j \in Jobs, JobStep(j)
    PROVE  \/ /\ job'[j].read = labels /\ job'[j].readAt = version
              /\ job[j].pc = "trigger" /\ job'[j].pc = "patch" /\ UNCHANGED function
           \/ /\ job'[j].read = job[j].read /\ job'[j].readAt = job[j].readAt
              /\ job'[j].pc = "patch" => job[j].pc = "patch"
              /\ job'[j].pc # "trigger"
<1>1. job \in [Jobs -> Job] /\ job[j] \in Job /\ InStage(j) /\ Advances(j)
  BY JobsAdvance DEF Typed
<1>2. job'[j].pc # "trigger"
  BY <1>1 DEF Advances
<1>3. CASE GCPReadLabels(j)
  <2>1. CASE job' = [job EXCEPT ![j].pc = "patch", ![j].read = labels, ![j].readAt = version]
    BY <1>1, <1>3, <2>1 DEF Job, GCPReadLabels, At, cloud
  <2>2. CASE Concludes(j, FALSE)
    BY <1>1, <2>2 DEF Concludes, Job
  <2>3. QED
    BY <1>3, <2>1, <2>2 DEF GCPReadLabels
<1>4. CASE ~GCPReadLabels(j)
  <2>1. job'[j].read = job[j].read /\ job'[j].readAt = job[j].readAt
    <3>c. ASSUME NEW passed, Concludes(j, passed) \/ ConcludesDisturbed(j, passed)
          PROVE  job'[j].read = job[j].read /\ job'[j].readAt = job[j].readAt
      BY <1>1, <3>c DEF Concludes, ConcludesDisturbed, Job
    <3>m. ASSUME NEW pc, Moves(j, pc)
          PROVE  job'[j].read = job[j].read /\ job'[j].readAt = job[j].readAt
      BY <1>1, <3>m DEF Moves, Job
    <3>1. CASE AWSTrigger(j)
      <4>1. PICK action, asserted : AWSCall(j, action, asserted)
        BY <3>1 DEF AWSTrigger, AWSFunctionUpdateResourcePolicy, AWSFunctionTriggerDataWrite,
           AWSFunctionTriggerDataRead, AWSMachineUpdateResourcePolicy, AWSMachineTriggerDataWrite,
           AWSMachineTriggerDataRead
      <4>2. Concludes(j, FALSE) \/ Moves(j, "query")
        BY <4>1 DEF AWSCall
      <4>3. QED
        BY <3>c, <3>m, <4>2
    <3>2. CASE SilentTrigger(j)
      BY <3>m, <3>2 DEF SilentTrigger, AzureFunctionTrigger, GCPFunctionTrigger, AzureMachineTrigger,
         GCPMachineTrigger
    <3>3. CASE GenerateTestTraffic(j)
      <4>1. PICK clean \in BOOLEAN : job' = [job EXCEPT ![j].pc = "query", ![j].clean = clean]
        BY <3>3 DEF GenerateTestTraffic
      <4>2. QED
        BY <1>1, <4>1 DEF Job
    <3>4. CASE GCPPatchAccepted(j) \/ GCPPatchFails(j) \/ QueryFails(j)
      BY <3>c, <3>m, <3>4 DEF GCPPatchAccepted, GCPPatchFails, QueryFails
    <3>5. CASE GCPPatchConflicts(j)
      <4>1. CASE job' = [job EXCEPT ![j].attempt = @ + 1]
        BY <1>1, <4>1 DEF Job
      <4>2. QED
        BY <3>c, <3>5, <4>1 DEF GCPPatchConflicts
    <3>6. CASE Query(j)
      <4>1. PICK verdict, basis, missed :
                job' = [job EXCEPT ![j].pc = "done", ![j].verdict = verdict,
                                   ![j].basis = basis, ![j].missed = missed]
        BY <3>6 DEF Query
      <4>2. QED
        BY <1>1, <4>1 DEF Job
    <3>7. CASE FindsPublicURL(j)
      <4>1. CASE job' = [job EXCEPT ![j].pc = "call", ![j].own = TRUE]
        BY <1>1, <4>1 DEF Job
      <4>2. QED
        BY <3>c, <3>m, <3>7, <4>1 DEF FindsPublicURL
    <3>8. CASE \/ GetInvokeEndpointExposure(j) \/ AttemptPrivateInvoke(j)
               \/ AttemptInboundConnection(j)
      BY <3>c, <3>8 DEF GetInvokeEndpointExposure, AttemptPrivateInvoke, AttemptInboundConnection
    <3>p. CASE AttemptPublicInternetInvoke(j)
      <4>1. PICK verdict, heard :
                job' = [job EXCEPT ![j].pc = "done", ![j].verdict = verdict, ![j].heard = heard]
        BY <3>p DEF AttemptPublicInternetInvoke
      <4>2. QED
        BY <1>1, <4>1 DEF Job
    <3>9. CASE InvokeBurst(j)
      <4>1. PICK answer : job'[j] = [job[j] EXCEPT !.count[Counted(answer)] = @ + 1,
                                                  !.disturbed = @ \/ answer = "no answer"]
        BY <3>9 DEF InvokeBurst
      <4>2. QED
        BY <1>1, <4>1 DEF Job
    <3>10. CASE BurstFails(j) \/ BurstEnds(j)
      <4>1. CASE job' = [job EXCEPT ![j].pc = "overrun", ![j].count = [c \in DOMAIN @ |-> 0]]
        BY <1>1, <4>1 DEF Job
      <4>2. QED
        BY <3>c, <3>10, <4>1 DEF BurstFails, BurstEnds, Bursting, At
    <3>11. CASE PeeringStep(j)
      <4>1. CASE job' = [job EXCEPT ![j].pc = "peer", ![j].left = ListOf(job[j].scenario)]
        BY <1>1, <4>1 DEF Job
      <4>2. ASSUME NEW entry, NEW permitted, NEW mismatch, NEW disturbed,
                   Tried(j, entry, permitted, mismatch, disturbed)
            PROVE  job'[j].read = job[j].read /\ job'[j].readAt = job[j].readAt
        BY <1>1, <4>2 DEF Tried, Job
      <4>3. ASSUME NEW verdict, NEW permitted, NEW disturbed,
                   job' = [job EXCEPT ![j].pc = "done", ![j].verdict = verdict,
                                      ![j].permitted = permitted, ![j].disturbed = disturbed]
            PROVE  job'[j].read = job[j].read /\ job'[j].readAt = job[j].readAt
        BY <1>1, <4>3 DEF Job
      <4>4. CASE BatchStarts(j)
        BY <3>c, <4>1, <4>4 DEF BatchStarts
      <4>5. CASE TryEntry(j)
        BY <3>c, <4>2, <4>5 DEF TryEntry
      <4>6. CASE BatchEnds(j) \/ Evaluate(j)
        BY <3>c, <3>m, <4>6 DEF BatchEnds, Evaluate
      <4>7. CASE AttemptVpcPeeringDryRun(j)
        BY <3>c, <4>3, <4>7 DEF AttemptVpcPeeringDryRun
      <4>8. QED
        BY <3>11, <4>4, <4>5, <4>6, <4>7 DEF PeeringStep
    <3>12. QED
      BY <1>4, <3>1, <3>2, <3>3, <3>4, <3>5, <3>6, <3>7, <3>8, <3>p, <3>9, <3>10, <3>11
         DEF JobStep, PeeringStep
  <2>2. job'[j].pc = "patch" => job[j].pc = "patch"
    BY <1>1, <1>4 DEF Advances
  <2>3. QED
    BY <1>2, <2>1, <2>2
<1>5. QED
  BY <1>3, <1>4

(* The steps that change the labels, their version or the update in         *)
(* progress.                                                                *)
LEMMA FunctionSteps ==
    ASSUME Typed, [Next]_vars
    PROVE  \/ UNCHANGED function
           \/ \E i \in Jobs : GCPPatchAccepted(i)
           \/ OthersLabel \/ OperationDone \/ OperationFails
<1>1. CASE UNCHANGED vars
  BY <1>1 DEF vars, cloud
<1>2. CASE CloudStep
  BY <1>2 DEF CloudStep, Deliver, Expire, OthersAct, Refill, Reconfigure
<1>3. ASSUME NEW i \in Jobs, JobStep(i)
      PROVE  UNCHANGED function \/ GCPPatchAccepted(i)
  BY <1>3, JobsCloud DEF function
<1>4. QED
  BY <1>1, <1>2, <1>3 DEF Next

(* A job either reads the labels now, or remembers what it read. *)
LEMMA Remembers ==
    ASSUME Typed, [Next]_vars, NEW j \in Jobs
    PROVE  \/ /\ job'[j].read = labels /\ job'[j].readAt = version
              /\ job[j].pc = "trigger" /\ UNCHANGED function
           \/ /\ job'[j].read = job[j].read /\ job'[j].readAt = job[j].readAt
              /\ job'[j].pc = "patch" => job[j].pc = "patch"
              /\ job'[j].pc = "trigger" => job[j].pc = "trigger"
<1>1. CASE Watches(j)
  BY <1>1 DEF Watches, Same
<1>2. CASE JobStep(j)
  BY <1>2, ReadsOnce
<1>3. QED
  BY <1>1, <1>2, StepOrWatch DEF Typed

(* Nobody forgets a label, but to an update that took effect meanwhile. *)
LEMMA ReadAllKept ==
    ASSUME Typed, [Next]_vars, NEW j \in Jobs, ReadAll(j)
    PROVE  ReadAll(j)'
<1>1. version \in Nat /\ job[j].readAt \in Nat
  BY DEF Typed, CloudTyped, Job
<1>2. Other # j /\ None # Other
  BY ProbesAssumption
<1>3. CASE /\ job'[j].read = labels /\ job'[j].readAt = version
           /\ job[j].pc = "trigger" /\ UNCHANGED function
  <2>1. ~Sends(j) /\ ~Sends(j)'
    BY <1>3 DEF ReadAll, Sends, function
  <2>2. QED
    BY <1>1, <1>3, <2>1 DEF ReadAll, function
<1>4. CASE /\ job'[j].read = job[j].read /\ job'[j].readAt = job[j].readAt
           /\ job'[j].pc = "patch" => job[j].pc = "patch"
           /\ job'[j].pc = "trigger" => job[j].pc = "trigger"
  <2>1. CASE UNCHANGED function
    BY <1>4, <2>1 DEF ReadAll, Sends, function
  <2>2. ASSUME NEW i \in Jobs, GCPPatchAccepted(i)
        PROVE  ReadAll(j)'
    <3>1. /\ UNCHANGED <<labels, version>> /\ job[i].pc = "patch"
          /\ operation'.by = i /\ operation'.labels = job[i].read \cup {i}
      BY <2>2 DEF GCPPatchAccepted, PatchedLabels, At
    <3>2. Sends(j)' => i = j
      BY <3>1 DEF Sends
    <3>3. QED
      BY <1>4, <3>1, <3>2 DEF ReadAll
  <2>3. CASE OthersLabel
    <3>1. UNCHANGED <<labels, version>> /\ ~Sends(j)'
      BY <1>2, <2>3 DEF OthersLabel, Sends
    <3>2. QED
      BY <1>4, <3>1 DEF ReadAll
  <2>4. CASE OperationDone
    <3>1. version' = version + 1 /\ ~Sends(j)'
      BY <2>4 DEF OperationDone, Sends
    <3>2. ASSUME job[j].pc = "patch"
          PROVE  job'[j].readAt <= version' /\ job'[j].readAt # version'
      <4>1. job[j].readAt <= version
        BY <3>2 DEF ReadAll
      <4>2. QED
        BY <1>1, <1>4, <3>1, <4>1
    <3>3. QED
      BY <1>4, <3>1, <3>2 DEF ReadAll
  <2>5. CASE OperationFails
    <3>1. UNCHANGED <<labels, version>> /\ ~Sends(j)'
      BY <2>5 DEF OperationFails, Sends
    <3>2. QED
      BY <1>4, <3>1 DEF ReadAll
  <2>6. QED
    BY <2>1, <2>2, <2>3, <2>4, <2>5, FunctionSteps
<1>5. QED
  BY <1>3, <1>4, Remembers

(* An update of the labels takes away only what another update, that took   *)
(* effect after the job had read them, had set, and nothing that the job    *)
(* has read: GCPPatchAccepted sends the labels as they were read.           *)
THEOREM LabelsKept == Spec => TouchKeepsLabels
<1> DEFINE Kept == OthersKeep /\ \A j \in Jobs : ReadAll(j)
           Takes == \A l \in labels \ labels' :
                      /\ operation.by \in Jobs
                      /\ job[operation.by].readAt < version /\ l \notin job[operation.by].read
<1>1. Init => Kept
  <2> SUFFICES ASSUME Init PROVE Kept
    OBVIOUS
  <2>1. operation = None
    BY DEF Init, Begins
  <2>2. ASSUME NEW j \in Jobs
        PROVE  ReadAll(j)
    <3>1. PICK s : job[j].pc = FirstStep(s)
      BY DEF Init, Begins, NewJob
    <3>2. job[j].pc # "patch"
      BY <3>1, LogTypesOf DEF FirstStep
    <3>3. QED
      BY <2>1, <3>2 DEF ReadAll, Sends
  <2>3. QED
    BY <2>1, <2>2 DEF OthersKeep
<1>2. Typed /\ Kept /\ [Next]_vars => Kept'
  <2> SUFFICES ASSUME Typed, Kept, [Next]_vars
               PROVE  Kept'
    OBVIOUS
  <2>1. \A j \in Jobs : ReadAll(j)'
    BY ReadAllKept
  <2>2. OthersKeep'
    <3>1. CASE UNCHANGED function
      BY <3>1 DEF function, OthersKeep
    <3>2. ASSUME NEW i \in Jobs, GCPPatchAccepted(i)
          PROVE  OthersKeep'
      BY <3>2, ProbesAssumption DEF GCPPatchAccepted, OthersKeep
    <3>3. CASE OthersLabel
      BY <3>3 DEF OthersLabel, OthersKeep
    <3>4. CASE OperationDone \/ OperationFails
      BY <3>4 DEF OperationDone, OperationFails, OthersKeep
    <3>5. QED
      BY <3>1, <3>2, <3>3, <3>4, FunctionSteps
  <2>3. QED
    BY <2>1, <2>2
<1>3. Typed /\ Kept /\ [Next]_vars => [Takes]_vars
  <2> SUFFICES ASSUME Typed, Kept, [Next]_vars, NEW l \in labels \ labels'
               PROVE  /\ operation.by \in Jobs
                      /\ job[operation.by].readAt < version /\ l \notin job[operation.by].read
    OBVIOUS
  <2>1. OperationDone
    BY FunctionSteps DEF function, GCPPatchAccepted, OthersLabel, OperationFails
  <2>2. operation # None /\ ~(labels \subseteq operation.labels) /\ l \notin operation.labels
    BY <2>1 DEF OperationDone
  <2>3. operation.by \in Jobs
    BY <2>2 DEF Typed, CloudTyped, OthersKeep
  <2>4. PICK j \in Jobs : j = operation.by
    BY <2>3
  <2>5. /\ job[j].readAt <= version /\ job[j].readAt # version
    BY <2>2, <2>4 DEF ReadAll, Sends
  <2>6. version \in Nat /\ job[j].readAt \in Nat
    BY DEF Typed, CloudTyped, Job
  <2>7. job[j].readAt < version
    BY <2>5, <2>6
  <2>8. l \notin job[j].read
    BY <2>2, <2>4 DEF ReadAll, Sends
  <2>9. QED
    BY <2>3, <2>4, <2>7, <2>8
<1> HIDE DEF Kept
<1>4. QED
  BY <1>1, <1>2, <1>3, AlwaysTyped, PTL DEF Spec, TouchKeepsLabels
=============================================================================
