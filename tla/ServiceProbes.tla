----------------------------- MODULE ServiceProbes -----------------------------
(***************************************************************************)
(* What the behavioural scenarios conclude of a function, a virtual machine*)
(* or a network, while other jobs and other people use and change it       *)
(* (modules/cloud-api/serverless-computing/*.go, virtual-machines/*.go,    *)
(* logging/*.go, vpc/*-vpc-cn03.go; the scenarios are those of             *)
(* modules/features).                                                      *)
(*                                                                         *)
(*   admin, write, read   CCC.Core.CN04: trigger an action, wait once, and *)
(*   and flow             look for it in the log (flow: CCC.VPC.CN04)      *)
(*   surface, public      CCC.SvlsComp.CN01: no public endpoint, and the   *)
(*   and private          public call is denied; the private one is not    *)
(*   rate                 CCC.SvlsComp.CN02: a burst is throttled          *)
(*   inbound              CCC.Core.CN12: no connection to the machine      *)
(*   disallow, allow      CCC.VPC.CN03: peering requests are denied, or    *)
(*   and unlisted         permitted, as the lists say                      *)
(*                                                                         *)
(* Each job runs one scenario, or none.  A call to the cloud is a step; between two *)
(* calls of a job the other jobs and the cloud go on.                      *)
(***************************************************************************)
EXTENDS Integers, AuditLog, PeeringGuardrail

CONSTANTS
    Providers,    \* the clouds to look at
    Jobs,         \* test processes on one account
    Other,        \* everybody else
    None,         \* no operation, no limit
    MaxAttempts,  \* patches of the labels before giving up (5 in the code)
    Limits,       \* the calls a function may accept between two refills
    Bursts,       \* the sizes of a burst to look at
    MaxEntries,   \* bound: entries of the log
    MaxChanges    \* bound: things others do, and refills

ASSUME ProbesAssumption ==
    /\ Providers \subseteq {"aws", "azure", "gcp"}
    /\ Other \notin Jobs /\ None \notin Jobs /\ None # Other
    /\ MaxAttempts \in Nat \ {0}
    /\ Limits \subseteq Nat \cup {None}
    /\ Bursts \subseteq Nat
    /\ MaxEntries \in Nat /\ MaxChanges \in Nat

VARIABLES
    provider,   \* the cloud under test
    service,    \* the kind of the resource under test
    config,     \* what the configuration says of it
    denied,     \* AWS: the networks whose peering requests the guardrail denies
    fn,         \* the resource: has a public endpoint, answers anonymous callers
    limit,      \* the rate limit of the function
    tokens,     \* the calls left until the next refill
    labels,     \* GCP: who has set a label on the function
    operation,  \* GCP: the update of the function in progress
    version,    \* history: updates of the labels that took effect
    log,        \* the log of the account
    changes,    \* counter for the bound
    job         \* where each job is, and what it has found

settings == <<provider, service, config, denied, limit>>
function == <<labels, operation, version>>
cloud == <<fn, tokens, function, log>>
vars == <<settings, cloud, changes, job>>

Scenarios == {"admin", "write", "read", "flow", "surface", "public", "private", "rate",
              "inbound", "disallow", "allow", "unlisted", "none"}

LogTypeOf == [admin |-> "admin", write |-> "data-write", read |-> "data-read", flow |-> "flow"]

Logged(s) == s \in DOMAIN LogTypeOf

Services == {"serverless-computing", "virtual-machines", "vpc"}

ScenariosOf(s) ==
    {"none"} \cup
    CASE s = "serverless-computing" -> {"admin", "write", "read", "surface", "public", "private", "rate"}
      [] s = "virtual-machines"     -> {"admin", "write", "read", "inbound"}
      [] s = "vpc"                  -> {"flow", "disallow", "allow", "unlisted"}

Config ==
    [private : {"none", "internal-only", "url"}, \* private-endpoint-url
     public : BOOLEAN,                           \* public-invoke-url is set
     host : BOOLEAN,                             \* host-name is set
     sinks : BOOLEAN,                            \* the log destinations are set
     byName : BOOLEAN,                           \* AWS: the machine has a Name tag, its resource-name
     threshold : Bursts, overrun : Bursts,       \* the two bursts of the rate check
     requester : Spellings,                      \* non-allowlisted-requester-vpc-id
     lists : [{"allow", "disallow"} -> [yaml : SUBSET Spellings, csv : SUBSET Spellings]]]

Steps == {"trigger", "patch", "query", "look", "call", "burst", "overrun", "batch", "peer",
          "evaluate", "dryrun", "done"}

Job ==
    [scenario : Scenarios, pc : Steps, verdict : {"none", "pass", "fail"},
     read : SUBSET (Jobs \cup {Other}), readAt : Nat, attempt : 0..MaxAttempts,
     own : BOOLEAN,              \* public: the address is the function's own
     clean : BOOLEAN,            \* flow: CleanupDeleted
     count : [ok : Nat, throttled : Nat, failed : Nat],
     left : SUBSET Spellings,    \* entries still to try
     violations : SUBSET Spellings,
     permitted : SUBSET Spellings, \* history: entries whose dry run was permitted
     basis : SUBSET Entry(Jobs \cup {Other}), \* history: the entries it passed on
     missed : SUBSET Entry(Jobs \cup {Other}), \* history: its own delivered entries, when it failed
     heard : {"nothing", "function", "cloud"}, \* history: who answered the public call
     disturbed : BOOLEAN]        \* history: a call failed on the way, or others interfered

TypeOK ==
    /\ provider \in Providers
    /\ service \in Services
    /\ config \in Config
    /\ denied \subseteq Networks
    /\ fn \in [exposed : BOOLEAN, open : BOOLEAN]
    /\ limit \in Limits /\ tokens \in Nat /\ (limit # None => tokens <= limit)
    /\ labels \subseteq Jobs \cup {Other}
    /\ operation = None \/ operation \in [labels : SUBSET (Jobs \cup {Other}), by : Jobs \cup {Other}]
    /\ operation # None => provider = "gcp"
    /\ version \in Nat
    /\ log \subseteq Entry(Jobs \cup {Other})
    /\ changes \in 0..MaxChanges
    /\ job \in [Jobs -> Job]
    /\ \A j \in Jobs : job[j].verdict = "none" <=> (job[j].pc # "done" \/ job[j].scenario = "none")

-----------------------------------------------------------------------------
(* Helpers                                                                   *)

SizeKey(phase) == IF phase = "burst" THEN "threshold" ELSE "overrun"

At(j, step) == job[j].pc = step

Doing(j, s) == job[j].scenario = s

Moves(j, step) == job' = [job EXCEPT ![j].pc = step]

(* The scenario is over: it passed, or an assertion failed. *)
Concludes(j, passed) ==
    job' = [job EXCEPT ![j].pc = "done", ![j].verdict = IF passed THEN "pass" ELSE "fail"]

(* It is over although something else than the resource decided it. *)
ConcludesDisturbed(j, passed) ==
    job' = [job EXCEPT ![j].pc = "done", ![j].verdict = IF passed THEN "pass" ELSE "fail",
                       ![j].disturbed = TRUE]

(* The events of EC2 name a machine by its id, the queries by resource-name. *)
NamedAs ==
    IF provider = "aws" /\ service = "virtual-machines" /\ config.byName THEN "id" ELSE "this"

Happened(by, action, kind, result) ==
    [action |-> action, kind |-> kind, by |-> by, resource |-> NamedAs, result |-> result,
     state |-> "recorded"]

Records(by, action, kind, result) == log' = log \cup {Happened(by, action, kind, result)}

(* An endpoint of one's own answers when there is one and callers are let in;*)
(* an address of the configuration is always there.                          *)
Served(own) == fn.open /\ (own => fn.exposed)

(* What a POST to an address can come back with: a function that is reached  *)
(* may itself answer with an error, or be throttled.                         *)
Answers(served) == (IF served THEN {"2xx", "4xx", "429"} ELSE {"4xx"}) \cup {"no answer"}

(* The AWS and Azure services share this function, the GCP service has its   *)
(* own two: any answer of at least 400, and no answer at all, is a denial.   *)
InvokeHTTP(answer) ==
    [invoked |-> answer = "2xx", accessDenied |-> answer \in {"4xx", "429", "no answer"}]

GCPInvokeHTTPUnauthenticated(answer) == InvokeHTTP(answer)

ListOf(key) == IF key = "allow" THEN AllowedEntries(config.lists) ELSE DisallowedEntries(config.lists)

-----------------------------------------------------------------------------
(* Initially the job is about to call; nothing has been logged yet.          *)

FirstStep(s) ==
    CASE Logged(s)                  -> "trigger"
      [] s = "rate"                 -> "burst"
      [] s \in {"disallow", "allow"} -> "batch"
      [] s = "unlisted"             -> "evaluate"
      [] s = "none"                 -> "done"
      [] OTHER                      -> "look"

NewJob(s) ==
    [scenario |-> s, pc |-> FirstStep(s), verdict |-> "none", read |-> {}, readAt |-> 0,
     attempt |-> 0, own |-> FALSE, clean |-> FALSE,
     count |-> [ok |-> 0, throttled |-> 0, failed |-> 0],
     left |-> {}, violations |-> {}, permitted |-> {}, basis |-> {},
     missed |-> {}, heard |-> "nothing", disturbed |-> FALSE]

Begins(s, configs, plans) ==
    /\ provider \in Providers
    /\ service = s
    /\ config \in configs
    /\ denied \in SUBSET Networks
    /\ fn \in [exposed : BOOLEAN, open : BOOLEAN]
    /\ limit \in Limits
    /\ tokens = IF limit = None THEN 0 ELSE limit
    /\ labels = {} /\ operation = None /\ version = 0
    /\ log = {}
    /\ changes = 0
    /\ \E plan \in plans : job = [j \in Jobs |-> NewJob(plan[j])]

Init == \E s \in Services : Begins(s, Config, [Jobs -> ScenariosOf(s)])

-----------------------------------------------------------------------------
(* Triggers.  The AWS calls are logged whether they are let through or not;  *)
(* a call may fail before it reaches the cloud, and its response may be lost.*)
(* Only UpdateResourcePolicy is asserted not to be an error.                 *)

(* Resolving the Name tag of a machine is an action of its own in the log,   *)
(* and the one that has the tag.                                             *)
ResolveInstanceID(j) ==
    IF service = "virtual-machines" /\ config.byName
      THEN {[Happened(j, "DescribeInstances", "data-read", "Succeeded") EXCEPT !.resource = "this"]}
      ELSE {}

(* UpdateResourcePolicy takes the machine from the configuration, which may  *)
(* have its id: then there is nothing to resolve.                            *)
AWSCall(j, action, asserted) ==
    \E outcome \in {"done", "refused", "lost", "unsent"}, resolved \in SUBSET ResolveInstanceID(j) :
        /\ Doing(j, "admin") \/ outcome = "unsent" \/ resolved = ResolveInstanceID(j)
        /\ log' = log \cup resolved \cup
                  (IF outcome = "unsent" THEN {}
                   ELSE {Happened(j, action, LogTypeOf[job[j].scenario],
                                  IF outcome = "refused" THEN "Failed" ELSE "Succeeded")})
        /\ IF asserted /\ outcome # "done" THEN Concludes(j, FALSE) ELSE Moves(j, "query")

AWSFunctionUpdateResourcePolicy(j) ==
    /\ service = "serverless-computing" /\ Doing(j, "admin")
    /\ AWSCall(j, "UpdateFunctionConfiguration", TRUE)

AWSFunctionTriggerDataWrite(j) ==
    /\ service = "serverless-computing" /\ Doing(j, "write")
    /\ AWSCall(j, "Invoke", FALSE)

AWSFunctionTriggerDataRead(j) ==
    /\ service = "serverless-computing" /\ Doing(j, "read")
    /\ AWSCall(j, "Invoke", FALSE)

AWSMachineUpdateResourcePolicy(j) ==
    /\ service = "virtual-machines" /\ Doing(j, "admin")
    /\ AWSCall(j, "CreateTags", TRUE)

AWSMachineTriggerDataWrite(j) ==
    /\ service = "virtual-machines" /\ Doing(j, "write")
    /\ AWSCall(j, "CreateTags", FALSE)

AWSMachineTriggerDataRead(j) ==
    /\ service = "virtual-machines" /\ Doing(j, "read")
    /\ AWSCall(j, "DescribeInstances", FALSE)

AWSTrigger(j) ==
    /\ provider = "aws" /\ At(j, "trigger")
    /\ \/ AWSFunctionUpdateResourcePolicy(j)
       \/ AWSFunctionTriggerDataWrite(j)
       \/ AWSFunctionTriggerDataRead(j)
       \/ AWSMachineUpdateResourcePolicy(j)
       \/ AWSMachineTriggerDataWrite(j)
       \/ AWSMachineTriggerDataRead(j)
    /\ UNCHANGED <<settings, fn, tokens, function, changes>>

(* Elsewhere the touch of a policy is none, except for GCP's functions; an   *)
(* invocation and a connection leave nothing in the logs that are queried.   *)
AzureFunctionTrigger(j) == service = "serverless-computing" /\ Moves(j, "query")

GCPFunctionTrigger(j) ==
    service = "serverless-computing" /\ ~Doing(j, "admin") /\ Moves(j, "query")

(* To connect without the address of the host is an error, which nobody      *)
(* looks at; not to be let in is none.                                       *)
AzureMachineTrigger(j) == service = "virtual-machines" /\ Moves(j, "query")

GCPMachineTrigger(j) == service = "virtual-machines" /\ Moves(j, "query")

SilentTrigger(j) ==
    /\ At(j, "trigger")
    /\ \/ provider = "azure" /\ (AzureFunctionTrigger(j) \/ AzureMachineTrigger(j))
       \/ provider = "gcp" /\ (GCPFunctionTrigger(j) \/ GCPMachineTrigger(j))
    /\ UNCHANGED <<settings, cloud, changes>>

(* The traffic of a test instance (VpcTestResource): it may show up in the   *)
(* flow log, in the standard format or not, and the instance may be left.    *)
(* The standard format of AWS has the id of the interface, not the network's.*)
GenerateTestTraffic(j) ==
    /\ At(j, "trigger") /\ Doing(j, "flow")
    /\ \/ \E result \in {"OK", "NODATA", "short"}, resource \in {"this", "id"} :
            /\ resource = "id" => provider = "aws"
            /\ log' = log \cup {[Happened(j, "Packets", "flow", result) EXCEPT !.resource = resource]}
       \/ UNCHANGED log
    /\ \E clean \in BOOLEAN : job' = [job EXCEPT ![j].pc = "query", ![j].clean = clean]
    /\ UNCHANGED <<settings, fn, tokens, function, changes>>

-----------------------------------------------------------------------------
(* GCP: the labels of a function are read, then written as a whole.  The     *)
(* call returns when the cloud has accepted the update, which takes effect   *)
(* later; while one is in progress another is a conflict.                    *)

GCPReadLabels(j) ==
    /\ provider = "gcp" /\ service = "serverless-computing" /\ At(j, "trigger") /\ Doing(j, "admin")
    /\ \/ job' = [job EXCEPT ![j].pc = "patch", ![j].read = labels, ![j].readAt = version]
       \/ Concludes(j, FALSE)
    /\ UNCHANGED <<settings, cloud, changes>>

(* Mutant of PatchedLabels: the labels that were read are not sent along. *)
TouchAlone(j) == {j}

(* The labels a patch sends: those read before, and the touch. *)
PatchedLabels(j) == job[j].read \cup {j}

GCPPatchAccepted(j) ==
    /\ At(j, "patch") /\ operation = None
    /\ operation' = [labels |-> PatchedLabels(j), by |-> j]
    /\ Records(j, "Patch", "admin", "Succeeded")
    /\ Moves(j, "query") \/ Concludes(j, FALSE)  \* the response may be lost
    /\ UNCHANGED <<settings, fn, tokens, labels, version, changes>>

(* Mutant of GCPPatchConflicts: it retries for ever. *)
RetriesForEver(j) ==
    /\ At(j, "patch") /\ operation # None
    /\ job[j].attempt <= MaxAttempts
    /\ job' = [job EXCEPT ![j].attempt = @ + 1]
    /\ UNCHANGED <<settings, cloud, changes>>

GCPPatchConflicts(j) ==
    /\ At(j, "patch") /\ operation # None
    /\ IF job[j].attempt + 1 < MaxAttempts
         THEN job' = [job EXCEPT ![j].attempt = @ + 1]
         ELSE Concludes(j, FALSE)
    /\ UNCHANGED <<settings, cloud, changes>>

GCPPatchFails(j) ==
    /\ At(j, "patch")
    /\ Concludes(j, FALSE)
    /\ UNCHANGED <<settings, cloud, changes>>

-----------------------------------------------------------------------------
(* The query, once, after a fixed wait: the entries delivered until then, of *)
(* the last twenty minutes.  The scenario wants one with the right result.   *)

Visible == {e \in log : e.state = "delivered"}

Found(j) == QueryLogs(provider, Visible, LogTypeOf[job[j].scenario])

Wanted(s) == IF s = "flow" THEN "OK" ELSE "Succeeded"

Matching(j) == {e \in Found(j) : ResultOf(provider, e) = Wanted(job[j].scenario)}

(* Its own entries that should have made it pass. *)
OwnEvidence(j) ==
    {e \in Visible : e.by = j /\ e.kind = LogTypeOf[job[j].scenario]
                     /\ e.result = Wanted(job[j].scenario)}

(* The destinations a query needs: those of GCP are the project's own. *)
SinksNeeded(s) == IF provider = "aws" THEN s = "flow" ELSE provider = "azure"

Query(j) ==
    /\ At(j, "query")
    /\ SinksNeeded(job[j].scenario) => config.sinks
    /\ LET passed == Matching(j) # {} /\ (Doing(j, "flow") => job[j].clean)
       IN  job' = [job EXCEPT
                     ![j].pc = "done",
                     ![j].verdict = IF passed THEN "pass" ELSE "fail",
                     ![j].basis = IF passed THEN Matching(j) ELSE {},
                     ![j].missed = IF passed \/ (Doing(j, "flow") /\ ~job[j].clean)
                                     THEN {} ELSE OwnEvidence(j)]
    /\ UNCHANGED <<settings, cloud, changes>>

(* The destination is not configured, or the query is an error. *)
QueryFails(j) ==
    /\ At(j, "query")
    /\ Concludes(j, FALSE)
    /\ UNCHANGED <<settings, cloud, changes>>

-----------------------------------------------------------------------------
(* The endpoints of a function                                               *)

AWSExposure == fn.exposed

(* Azure's is what the configuration says, whatever the function has. *)
AzureExposure == config.public

(* A URL whose ingress settings allow everyone. *)
GCPExposure == fn.exposed

PublicEndpointConfigured ==
    CASE provider = "aws"   -> AWSExposure
      [] provider = "azure" -> AzureExposure
      [] provider = "gcp"   -> GCPExposure

(* Mutant of GetInvokeEndpointExposure: every error means that there is none. *)
ErrorMeansNoEndpoint(j) ==
    /\ At(j, "look") /\ Doing(j, "surface")
    /\ Concludes(j, ~PublicEndpointConfigured) \/ (provider # "azure" /\ Concludes(j, TRUE))
    /\ UNCHANGED <<settings, cloud, changes>>

GetInvokeEndpointExposure(j) ==
    /\ At(j, "look") /\ Doing(j, "surface")
    /\ Concludes(j, ~PublicEndpointConfigured) \/ (provider # "azure" /\ Concludes(j, FALSE))
    /\ UNCHANGED <<settings, cloud, changes>>

(* The address to call: the configured one, or else the function's own,      *)
(* which the service looks up first.  Azure knows only the configured one.   *)
FindsPublicURL(j) ==
    /\ At(j, "look") /\ Doing(j, "public")
    /\ \/ config.public /\ Moves(j, "call")
       \/ /\ ~config.public /\ fn.exposed /\ provider # "azure"
          /\ job' = [job EXCEPT ![j].pc = "call", ![j].own = TRUE]
       \/ ~config.public /\ Concludes(j, FALSE)  \* none, or the look-up is an error
    /\ UNCHANGED <<settings, cloud, changes>>

AWSAttemptPublicInternetInvoke(answer) == provider = "aws" /\ InvokeHTTP(answer).accessDenied

AzureAttemptPublicInternetInvoke(answer) == provider = "azure" /\ InvokeHTTP(answer).accessDenied

GCPAttemptPublicInternetInvoke(answer) ==
    provider = "gcp" /\ GCPInvokeHTTPUnauthenticated(answer).accessDenied

HeardFrom(answer, served) ==
    CASE answer = "no answer" -> "nothing" [] served -> "function" [] OTHER -> "cloud"

AttemptPublicInternetInvoke(j) ==
    /\ At(j, "call")
    /\ \E answer \in Answers(Served(job[j].own)) :
         LET isDenied == \/ AWSAttemptPublicInternetInvoke(answer)
                         \/ AzureAttemptPublicInternetInvoke(answer)
                         \/ GCPAttemptPublicInternetInvoke(answer)
         IN  job' = [job EXCEPT ![j].pc = "done",
                                ![j].verdict = IF isDenied THEN "pass" ELSE "fail",
                                ![j].heard = HeardFrom(answer, Served(job[j].own))]
    /\ UNCHANGED <<settings, cloud, changes>>

(* Azure and GCP take "internal-only" for an address that answers. *)
AttemptPrivateInvoke(j) ==
    /\ At(j, "look") /\ Doing(j, "private")
    /\ CASE config.private = "none" -> Concludes(j, FALSE)
         [] config.private = "internal-only" /\ provider # "aws" -> Concludes(j, TRUE)
         [] OTHER -> \E answer \in {"2xx", "4xx", "no answer"} :
                        Concludes(j, InvokeHTTP(answer).invoked)
    /\ UNCHANGED <<settings, cloud, changes>>

(* A connection to the machine: every error of the dial is "not connected".  *)
(* AWS looks the address up when it is not configured, the others do not.    *)
AttemptInboundConnection(j) ==
    /\ At(j, "look") /\ Doing(j, "inbound")
    /\ \/ (config.host \/ provider = "aws") /\ Concludes(j, ~fn.open)
       \/ (config.host \/ provider = "aws") /\ ConcludesDisturbed(j, TRUE)
       \/ (~config.host \/ provider = "aws") /\ Concludes(j, FALSE)
    /\ UNCHANGED <<settings, cloud, changes>>

-----------------------------------------------------------------------------
(* A burst: one call after the other, each let through, throttled or failed. *)

(* Mutant of AWSCounted: every error is counted as throttling. *)
ErrorsAreThrottling(answer) == IF answer = "2xx" THEN "ok" ELSE "throttled"

AWSCounted(answer) ==
    CASE answer = "2xx" -> "ok" [] answer = "429" -> "throttled" [] OTHER -> "failed"

HTTPCounted(answer) ==
    CASE answer = "429"              -> "throttled"
      [] InvokeHTTP(answer).invoked  -> "ok"
      [] OTHER                       -> "failed"

AWSInvokeFunctionBurst(answer) == AWSCounted(answer)

AzureInvokeFunctionBurst(answer) == HTTPCounted(answer)

GCPInvokeFunctionBurst(answer) == HTTPCounted(answer)

Counted(answer) ==
    CASE provider = "aws"   -> AWSInvokeFunctionBurst(answer)
      [] provider = "azure" -> AzureInvokeFunctionBurst(answer)
      [] provider = "gcp"   -> GCPInvokeFunctionBurst(answer)

Bursting(j) == Doing(j, "rate") /\ job[j].pc \in {"burst", "overrun"}

Size(j) == config[SizeKey(job[j].pc)]

Made(c) == c.ok + c.throttled + c.failed

(* A burst of no calls is an error, and so is one without an address: Azure  *)
(* needs a configured one.                                                   *)
BurstRejected(j) ==
    Size(j) = 0 \/ (provider = "azure" /\ ~config.public /\ config.private # "url")

BurstFails(j) ==
    /\ Bursting(j) /\ Made(job[j].count) = 0
    /\ BurstRejected(j) \/ provider = "gcp"  \* GCP's looks the function up
    /\ ConcludesDisturbed(j, FALSE)
    /\ UNCHANGED <<settings, cloud, changes>>

(* The answer spends a call of the limit; the others' jobs feel it.  "No      *)
(* answer" stands for every other failure.                                   *)
InvokeBurst(j) ==
    /\ Bursting(j) /\ ~BurstRejected(j) /\ Made(job[j].count) < Size(j)
    /\ \E answer \in {IF limit = None \/ tokens > 0 THEN "2xx" ELSE "429", "no answer"} :
         /\ tokens' = IF answer = "2xx" /\ limit # None THEN tokens - 1 ELSE tokens
         /\ job' = [i \in Jobs |->
              IF i = j
                THEN [job[i] EXCEPT !.count[Counted(answer)] = @ + 1,
                                    !.disturbed = @ \/ answer = "no answer"]
                ELSE [job[i] EXCEPT !.disturbed = @ \/ Doing(i, "rate")]]
    /\ UNCHANGED <<settings, fn, function, log, changes>>

AllSucceeded(j) == job[j].count.ok = Size(j)

(* Within the threshold every call succeeds; beyond it some are throttled. *)
BurstEnds(j) ==
    /\ Bursting(j) /\ ~BurstRejected(j) /\ Made(job[j].count) = Size(j)
    /\ CASE At(j, "burst") /\ AllSucceeded(j) ->
              job' = [job EXCEPT ![j].pc = "overrun", ![j].count = [c \in DOMAIN @ |-> 0]]
         [] At(j, "burst") /\ ~AllSucceeded(j) -> Concludes(j, FALSE)
         [] At(j, "overrun") -> Concludes(j, job[j].count.throttled > 0)
    /\ UNCHANGED <<settings, cloud, changes>>

-----------------------------------------------------------------------------
(* Peering: a batch tries the entries of a list one by one                   *)

(* The receiver is resolved first; an entry that resolves to nothing ends    *)
(* the batch with an error.                                                  *)
BatchStarts(j) ==
    /\ At(j, "batch")
    /\ \/ job' = [job EXCEPT ![j].pc = "peer", ![j].left = ListOf(job[j].scenario)]
       \/ Concludes(j, FALSE)
    /\ UNCHANGED <<settings, cloud, changes>>

Tried(j, entry, permitted, mismatch, disturbed) ==
    job' = [job EXCEPT ![j].left = @ \ {entry},
                       ![j].permitted = IF permitted THEN @ \cup {entry} ELSE @,
                       ![j].violations = IF mismatch THEN @ \cup {entry} ELSE @,
                       ![j].disturbed = @ \/ disturbed]

(* A denial the guardrail did not ask for is an error of the call. *)
Mistaken(requester, evidence) ==
    provider = "aws" /\ ~evidence.permitted /\ requester \notin denied

TryEntry(j) ==
    /\ At(j, "peer")
    /\ \E entry \in job[j].left :
         \/ Concludes(j, FALSE)  \* it is not there, or cannot be looked up
         \/ /\ Resolved[entry] # NoNetwork
            /\ \E evidence \in DryRun(provider, config.lists, denied, Resolved[entry]) :
                 Tried(j, entry, evidence.permitted, evidence.mismatch,
                       Mistaken(Resolved[entry], evidence))
    /\ UNCHANGED <<settings, cloud, changes>>

(* ListDefined, TestedCount > 0 and AllCorrect. *)
BatchEnds(j) ==
    /\ At(j, "peer") /\ job[j].left = {}
    /\ Concludes(j, ListOf(job[j].scenario) # {} /\ job[j].violations = {})
    /\ UNCHANGED <<settings, cloud, changes>>

(* A requester outside both lists: classified as it is spelled, then tried. *)
Evaluate(j) ==
    /\ At(j, "evaluate")
    /\ LET found == EvaluatePeerAgainstAllowList(config.lists, config.requester)
       IN  IF found.defined /\ ~found.allowed THEN Moves(j, "dryrun") ELSE Concludes(j, FALSE)
    /\ UNCHANGED <<settings, cloud, changes>>

AttemptVpcPeeringDryRun(j) ==
    /\ At(j, "dryrun")
    /\ LET requester == Resolved[config.requester]
       IN  \/ Concludes(j, FALSE)
           \/ /\ requester # NoNetwork
              /\ \E evidence \in DryRun(provider, config.lists, denied, requester) :
                     job' = [job EXCEPT
                        ![j].pc = "done",
                        ![j].verdict = IF ~evidence.permitted /\ evidence.defined
                                          /\ ~evidence.listed /\ ~evidence.mismatch
                                         THEN "pass" ELSE "fail",
                        ![j].permitted = IF evidence.permitted THEN {config.requester} ELSE {},
                        ![j].disturbed = @ \/ Mistaken(requester, evidence)]
    /\ UNCHANGED <<settings, cloud, changes>>

-----------------------------------------------------------------------------
(* The cloud and everybody else                                              *)

Changes == changes < MaxChanges /\ changes' = changes + 1

Disturbs(scenarios) ==
    job' = [j \in Jobs |-> [job[j] EXCEPT !.disturbed = @ \/ job[j].scenario \in scenarios]]

Deliver(e) ==
    /\ e \in log /\ e.state = "recorded"
    /\ log' = (log \ {e}) \cup {[e EXCEPT !.state = "delivered"]}
    /\ UNCHANGED <<settings, fn, tokens, function, changes, job>>

(* Twenty minutes pass: no query looks back as far. *)
Expire(e) ==
    /\ e \in log /\ e.state = "delivered"
    /\ log' = log \ {e}
    /\ UNCHANGED <<settings, fn, tokens, function, changes, job>>

(* Somebody else works on the resource, on another, or on none in particular.*)
OthersAction ==
    CASE provider = "aws"   -> {<<"AddPermission", "admin">>, <<"PutConcurrency", "admin">>,
                                <<"Invoke", "data-write">>}
      [] provider = "azure" -> {<<"Restart", "admin">>, <<"Blob", "data-write">>}
      [] provider = "gcp"   -> {<<"AddPermission", "admin">>, <<"GetObject", "data-read">>}

OthersAct ==
    /\ \E j \in Jobs : Logged(job[j].scenario) /\ ~At(j, "done")
    /\ Changes /\ Cardinality(log) < MaxEntries
    /\ \E a \in OthersAction, resource \in {NamedAs, "alike", "other", "none"},
          result \in {"Succeeded", "Failed"} :
         log' = log \cup {[Happened(Other, a[1], a[2], result) EXCEPT !.resource = resource]}
    /\ UNCHANGED <<settings, fn, tokens, function, job>>

(* Somebody else sets a label, keeping those that are there. *)
OthersLabel ==
    /\ provider = "gcp" /\ \E j \in Jobs : Doing(j, "admin") /\ ~At(j, "done")
    /\ Changes /\ operation = None /\ Other \notin labels
    /\ operation' = [labels |-> labels \cup {Other}, by |-> Other]
    /\ UNCHANGED <<settings, fn, tokens, labels, version, log, job>>

OperationDone ==
    /\ operation # None
    /\ labels' = operation.labels /\ version' = version + 1 /\ operation' = None
    /\ UNCHANGED <<settings, fn, tokens, log, changes, job>>

OperationFails ==
    /\ operation # None
    /\ operation' = None
    /\ UNCHANGED <<settings, fn, tokens, labels, version, log, changes, job>>

Refill ==
    /\ limit # None /\ tokens < limit /\ Changes
    /\ tokens' = limit
    /\ Disturbs({"rate"})
    /\ UNCHANGED <<settings, fn, function, log>>

Reconfigure ==
    /\ \E j \in Jobs : job[j].scenario \in {"surface", "public", "inbound"}
    /\ Changes
    /\ fn' \in [exposed : BOOLEAN, open : BOOLEAN] \ {fn}
    /\ Disturbs({"surface", "public", "inbound"})
    /\ UNCHANGED <<settings, tokens, function, log>>

JobStep(j) ==
    \/ AWSTrigger(j) \/ SilentTrigger(j) \/ GenerateTestTraffic(j)
    \/ GCPReadLabels(j) \/ GCPPatchAccepted(j) \/ GCPPatchConflicts(j) \/ GCPPatchFails(j)
    \/ Query(j) \/ QueryFails(j)
    \/ GetInvokeEndpointExposure(j) \/ FindsPublicURL(j) \/ AttemptPublicInternetInvoke(j)
    \/ AttemptPrivateInvoke(j) \/ AttemptInboundConnection(j)
    \/ BurstFails(j) \/ InvokeBurst(j) \/ BurstEnds(j)
    \/ BatchStarts(j) \/ TryEntry(j) \/ BatchEnds(j)
    \/ Evaluate(j) \/ AttemptVpcPeeringDryRun(j)

CloudStep ==
    \/ \E e \in log : Deliver(e) \/ Expire(e)
    \/ OthersAct \/ OthersLabel \/ OperationDone \/ OperationFails \/ Refill \/ Reconfigure

Next == CloudStep \/ \E j \in Jobs : JobStep(j)

Spec == Init /\ [][Next]_vars

-----------------------------------------------------------------------------
(* Properties                                                                *)

Passed(j) == job[j].verdict = "pass"

(* What a logging check passes on are entries that were delivered, and that   *)
(* its provider's query can tell to be about the resource: Azure's storage    *)
(* log and the flow log of AWS have its name or id, other logs may have a     *)
(* name that contains it, and Azure's activities may have none.  They are of  *)
(* the kind the check asks for, or of one that CloudTrail's names take for    *)
(* it.  On Azure they are what somebody else caused, and succeeded; on GCP,   *)
(* where the result is a severity, no check passes, and the flow check passes *)
(* on AWS alone, when its test instance is gone.                              *)
PassedOnEvidence ==
    \A j \in Jobs : Passed(j) /\ Logged(job[j].scenario) =>
        /\ job[j].basis # {}
        /\ \A e \in job[j].basis :
             /\ e.state = "delivered"
             /\ \/ e.resource = "this"
                \/ e.resource = "alike" /\ (provider = "aws" => ~Doing(j, "flow"))
                                        /\ (provider = "azure" => Doing(j, "admin"))
                \/ e.resource = "none" /\ provider = "azure" /\ Doing(j, "admin")
             /\ e.kind = LogTypeOf[job[j].scenario] \/ Misfiled(provider, e)
             /\ provider = "azure" => e.by = Other /\ e.result = "Succeeded"
        /\ provider # "gcp"
        /\ Doing(j, "flow") => provider = "aws" /\ job[j].clean

(* An action that succeeded, and that was delivered to the log before the     *)
(* one query, makes its check pass, except where the log files it elsewhere   *)
(* (CloudTrail's names), names the resource by another id than the query (the *)
(* events of EC2, whose machine has a Name tag, and AWS flow records), or     *)
(* shows another result (GCP, and the flows of Azure).                        *)
DeliveredIsFound ==
    \A j \in Jobs : \A e \in job[j].missed :
        \/ Misfiled(provider, e)
        \/ e.resource = "id" /\ provider = "aws" /\ (config.byName \/ Doing(j, "flow"))
        \/ provider = "gcp"
        \/ provider = "azure" /\ Doing(j, "flow")

(* When nothing was reconfigured, "no public endpoint", "denied" and "not     *)
(* connected" mean that an anonymous caller is not served, except that        *)
(* "denied" is also said of a call that got no answer and of a function that  *)
(* answered an anonymous caller with an error, and "not connected" of a       *)
(* connection that failed on the way.  (features/serverless-computing/        *)
(* analysis.md:63, 99 would not have a 403 count: AccessDenied does not tell  *)
(* one from a refusal of the cloud.)  What Azure says of a function's surface *)
(* is not about the function.                                                 *)
ClosedMeansClosed ==
    \A j \in Jobs :
        /\ Passed(j) /\ job[j].scenario \in {"surface", "public", "inbound"}
        /\ ~job[j].disturbed
        /\ ~(provider = "azure" /\ Doing(j, "surface"))
        => \/ ~Served(service = "serverless-computing")
           \/ Doing(j, "public") /\ job[j].heard \in {"nothing", "function"}

(* The rate check never passes on a function without a limit.  With nobody   *)
(* else calling, no refill and no failed call, it passes exactly when the    *)
(* limit is at least the threshold and below the calls of both bursts.       *)
RateVerdict ==
    \A j \in Jobs : Doing(j, "rate") /\ At(j, "done") =>
        /\ Passed(j) => limit # None
        /\ ~job[j].disturbed =>
             (Passed(j) <=> /\ limit # None
                            /\ config.threshold <= limit
                            /\ limit < config.threshold + config.overrun)

(* A passed peering check means what it says, for lists that name networks   *)
(* by id: with an allow-list that holds none of them, every disallowed       *)
(* requester was denied; every allowed one was permitted; the requester      *)
(* outside the lists was denied.  On AWS, calls that failed aside, it is the *)
(* guardrail of the account that did so.                                     *)
GuardrailVerdict ==
    \A j \in Jobs : Passed(j) =>
        LET allow == AllowedEntries(config.lists)
            disallow == DisallowedEntries(config.lists)
            asked == provider = "aws" /\ ~job[j].disturbed
        IN  /\ Doing(j, "disallow") /\ allow # {} /\ (\A e \in disallow : Resolved[e] \notin allow) =>
                 /\ disallow # {} /\ job[j].permitted = {}
                 /\ asked => \A e \in disallow : Resolved[e] \in denied
            /\ Doing(j, "allow") =>
                 /\ allow # {}
                 /\ \A e \in allow : Resolved[e] \in allow =>
                      /\ e \in job[j].permitted
                      /\ provider = "aws" => Resolved[e] \notin denied
            /\ Doing(j, "unlisted") =>
                 /\ job[j].permitted = {}
                 /\ {config.requester, Resolved[config.requester]} \cap allow = {}
                 /\ asked => Resolved[config.requester] \in denied

(* An update of the labels takes away at most those that another update has  *)
(* set since the job read the labels it sends: none that the job has read,   *)
(* and none at all unless an update took effect in between.                  *)
TouchKeepsLabels ==
    [][\A l \in labels \ labels' :
         /\ operation.by \in Jobs
         /\ job[operation.by].readAt < version /\ l \notin job[operation.by].read]_vars
=============================================================================
