# Verification of the CCC compliance harness

This directory models the Go core of the repository, `modules/`: the harness that runs
the behavioural compliance tests of the Common Cloud Controls against a cloud account and
reports the result. TLC checks the models on small instances, TLAPS proves the theorems
of the `*Proofs` modules for every value of the constants. Paths below are relative to
`modules/` unless they say otherwise.

```text
cd tla
tlc -workers 2 -config ObjectStorage.cfg MCObjectStorage.tla
tlapm ObjectStorageProofs.tla
```

## The system

| Component | State it keeps | Operations | Hard behaviour |
| --- | --- | --- | --- |
| Behavioural plugin (`ccc-behavioural-plugin`) | exit code, evaluation steps | run once, configure the suite, mobilise | verdicts are looked up by name in results of many resources |
| Runner (`runner`) | options, statistics, output directory | clean, discover, one godog suite per resource, combine, exit | fatal exits skip the tear-down, stale and shared files, a time limit nobody reads |
| Reporters (`reporters`) | the open scenario of four formatters, two global collectors | callbacks per feature, scenario, step; summary | a result is recorded only when the next scenario starts |
| Testing DSL (`cloud-testing-dsl`) | properties, attachments, connections | call a service, open, transmit on and close connections, attach | goroutines per connection, a monitor, a second close |
| Factories (`cloud-api/factory`) | cache of factories and services | get a service with or without identity, tear down, reset the cache | what tear-down does not reach, a factory that ignores a second configuration |
| Object storage (`cloud-api/object-storage`) | created objects of each service | create, read, delete objects and buckets, retention, restore, tear down | lost track of objects, shared probe, retention, versions |
| Azure elevation (`cloud-api/object-storage/elevation`) | original and current levels, granted roles | elevate, reset | lost responses, overlapping elevations |
| VPC (`cloud-api/vpc`) | test instances, NICs, peerings in the account | create, look at, delete test resources; peering attempts | asynchronous deletion, orphans |
| Login (`cloud-api/generic/login`) | CLI session, token expiry | ensure, refresh | expiry in the middle of a run |
| Serverless, virtual machines (`cloud-api/serverless-computing`, `virtual-machines`) | next to none; labels in the account | triggers, invocations, bursts, connection attempts | read-modify-write with retries, error taken for refusal, a shared limit |
| Logging (`cloud-api/logging`) | none; the account's log | one query per type | late delivery, entries of others, filing by name |
| Peering guardrail (`cloud-api/vpc/*cn03*`) | allow- and disallow-list | evaluate, dry run, batch | two lists, ids and names |
| Secrets, IAM | none | single calls turned into result records | none |
| Catalogue versions, delivery toolkit, website, catalogues | files | copy, resolve groups and imports, write | none |

The plugin calls the runner once; the runner asks a factory for the service under test,
discovers its resources and runs one godog suite per resource, one scenario at a time.
Steps of the DSL call services through the factory, by reflection, and attach what they
get; godog calls the four formatters; they append to global collectors, which the plugin
reads when the run is over. One process therefore has no concurrent scenarios. What is
concurrent is the goroutines of a connection, and several CI jobs (three at a time,
`.github/workflows/cfi-test.yml:112`) on one account, bucket or VPC.

What makes the components correct: nothing of the owner's is changed that a test did not
ask for, what the run adds to the account is known and removed, levels that were opened
are closed again, a connection's output and state are those of its process, every
scenario is reported once with its own outcome, and exit code and verdicts follow from
the outcomes.

## Modules

### AzureElevation, AccountPromise

`AzureElevation` is `elevation/azure_elevation.go`: a set of elevators (CI jobs), each of
a principal, that elevate and reset one storage account. Its switches are public network
access and the firewall's default action. `orig` and `cur` are the two fields of
`AzureStorageElevationState` for each switch, `granted` its list of role assignments.
Each cloud call is one action with the outcomes the code distinguishes: answered,
rejected, and applied with the response lost, the deletion of a role assignment
included. So another elevator can act between the Get and the Update of a call.

`AccountPromise` says what an account owner may expect of all elevators together: a
switch only moves between the owner's level and the open one, an assignment the owner
made is never revoked. `AzureElevation` implements it, with the account's state as it is.

| Run | Question |
| --- | --- |
| `azure_elevation` | Two elevators, one principal: types, `RolesAccountedFor`, `ResetRestores`, and refinement of `AccountPromise`, over 1.5 million states |
| `azure_reset_stale` | Does every reset without error restore the account? No: `ResetPublicNetworkAccess` trusts `Current`, which a lost response leaves stale |

`ResetRestores` names that case and excludes it. Interleaved elevators, the second of
which records the opened level as the original, are not excluded from the promise, only
from restoration. Bounds: two elevators and three assignment ids. The number of elevations and resets is
not bounded: the state space is finite without it, as `orig` is written once.

### Connection

`cloud_steps.go:25-413`. Actions are the steps a scenario takes (connect, transmit,
close, the latter cut at its three statements) and those of the goroutines: a reader of
each stream, cut between Read and the append under the lock, the monitor around
`cmd.Wait`, the `os/exec` copier of the openssl buffer, and the child process, which is
external: it writes, accepts or refuses a handshake, and ends, before a handshake or after.

| Run | Question |
| --- | --- |
| `connection` | `OutputFaithful` (of each stream the output is a prefix of what the process wrote, and all of it once its reader has ended, unless the step closed the connection or `cmd.Wait` closed the pipes first), `ClosedMeansGone`, and, under fairness, `CloseReleases` and `ExitNoticed` |
| `connection_output` | Is `Output` all that was received? No: `cmd.Wait` closes the pipes of a process that has exited, with chunks in them that no reader has taken |
| `connection_verdict` | Does `closed` mean that the service refused, as the TLS feature reads it? No: an openssl client with an empty buffer for standard input ends right after an accepted handshake |

Fairness is weak for each goroutine and for the death of a killed process, which the Go
scheduler and the kernel provide. None is assumed of the service, the child or the steps.
Bounds: two chunks per stream, one transmission, two closes: a chunk for a reader to lose
after one it took, a transmission on either side of the copier's end, a close that meets a
second one.

### ObjectStorage

The three services behind one interface, with `provider` chosen in `Init` and the places
where they differ as disjuncts. `created[s]` is `createdObjs` of service s, the rest is
the state of the account: buckets, versions by author, retention and locks, Azure's soft
delete. Calls may fail, and for uploads also after they were done (`GCP
CreateObject:197`). `TearDown` is a loop with one action per deletion, `Abandon` the fatal
exit that skips it.

| Run | Question |
| --- | --- |
| `object_storage` | Two services on one bucket with two keys, two writes: `ObjectsTracked`, `TearDownLeavesNothing`, `OwnersObjectsKept` |

An upload that a retention policy refuses on Azure or GCP returns the object that is there
without an error (`ReturnsExisting`); what matters here is that it is not tracked. Reads
are not modelled. `lost[s]` holds the very objects the properties excuse: those whose upload
failed after it was applied, whose deletion failed in the tear-down, that were in a deleted
container then and came back with it, or that were tracked when the process ended without a
tear-down. A failed call excuses its own object and no other, so the properties see a tear-down
that stops at its first error.

Bounds: two services are enough for one to delete what the other created, two keys for a
key that is the shared probe and one that is not, two writes for an overwrite.

### ComplianceRun

One process from start to exit and the next one in the same output directory. A resource
is one entry of the discovery; `Plan[r]` the scenarios its tag filter selects, in order.
`ScenarioStarts` is Feature and Pickle of the four formatters and the Before hook,
`StepPasses`, `StepAttaches`, `StepFails` (error, panic or undefined step, all failures
under `Strict`) and `StepSkipped` the callbacks of a step, `SuiteEnds` the four
Summary callbacks and the resource's result, `Finish` the combination of the OCSF files,
the summary report and the exit code. Faults of the file system and the account are
actions of their own; `Killed` may strike at any time and leaves the report of the current
suite created and empty. `ran` is a history variable: what started, and its true outcome.
`Verdict` is what the plugin's steps say of a requirement.

godog keeps formatters by name and takes the first of a name (`registered`, `Provider`). Two
resources whose names `sanitizeFilename` maps to one report name therefore share the first
one's formatter factory: the later suite writes its findings with the earlier resource's
parameters, and its HTML report reads the earlier `CloudWorld`, so it shows no attachment
at all. `FindingsAgree` and `AttachmentsPlaced` state this case. Reading, parsing or
writing a report may fail when the reports are combined; the log then warns of the files that
are not in the combined one (`warned`), and the run goes on.

| Run | Question |
| --- | --- |
| `compliance_run` | `CollectorsAgree`, `FindingsAgree` and `AttachmentsPlaced` (up to a shared report name), `CombinedComplete` (up to reports the log warns of), `ExitTellsFailure`, `VerdictFaithful` |
| `compliance_verdict` | Does a requirement with a failed scenario fail? No, when the scenario passed on an earlier resource |

Bounds: three resources, two of which share a report name; three scenarios, one run by
all resources, one not testable, one not tested, two with the same name in different
requirements; two processes, one fault, two attachments. The second process is what
stale files need, the third resource what a result hidden by an earlier one needs.

### ServiceFactory, ServicePromise

`cloud-api/factory` and `cloud-api/generic/login`, as the runner and the integration
tests use them: one caller, so no calls overlap. `factories` and `services` are the objects
made so far, `factory` is the entry of `factoryCache` for the provider, and the
`serviceCache` of a factory maps a kind and a user name to a service. `GetServiceAPI` and
`GetServiceAPIWithIdentity` are written per provider, as the code is, from the same few
steps: `FromCache`, `Create`, `CreateElevated` (object storage on Azure), `CreateUncached`
(vpc on AWS, which returns before the service is stored). The session of the CLI and the
federated assertion of a GitHub job run out in `Tick`, which may come between any two
steps. A service keeps the credential it was made with: one made while the assertion was in
the environment (`assertion`) goes on using it, also after the refresh for clean-up has
dropped it from there. `EndRun` is the deferred function of the runner with its refresh, `EndCase` that of
the integration tests without one; `TearDown` visits one service of the cache at a time, in
any order, as a Go map does. `EnsureLoginToken` is in the model although no production
code calls it: it is the module's exported entry, and the refresh shares its parts.

`ServicePromise` is what a caller relies on: a name stands for one service until the
factory is forgotten, and what a service leaves in the cloud is left by, and removed
through, a service that still has a name. `ServiceFactory` implements it with the cached
services as the directory. Only object storage creates what its `TearDown` knows, so the
promise is about objects, and says nothing of what other kinds of service leave.

| Run | Question |
| --- | --- |
| `service_factory` | `TearDownReaches`, `OriginalRemembered`, `IdentityServed`, `LoginHolds`, and refinement of `ServicePromise` |

The uncached vpc service of AWS breaks none of these, since it creates nothing that its
`TearDown` would remove; the mutant of `TearDownReaches` is the same early return in the
object-storage case. `OriginalRemembered` holds until a factory is dropped
(`ResetFactoryCache`, a new process): from then on a new elevator takes the opened
level for the owner's. Bounds: two configurations alike (hence the symmetry), two identities
with one user name and one that is missing, two kinds, two factories and two services, tokens
of life 2 with a skew of 1: enough for a second factory after a reset, a second elevation of an
account, a shared user name, and a token that is valid but stale. More services repeat what two
do, since a service meets another only through its name or its account.

### VpcTestResource

`vpc/*-vpc-test-resource.go` and the CN02 and CN04 scenarios around them. A job selects a
public subnet, creates an instance in it, looks at its address (CN02) or lets it run (CN04),
and deletes it. Each call of the cloud is one action with the outcomes accepted, rejected,
and accepted with the response lost; the cloud starts and deletes in its own time, others may
terminate an instance, and a job may be killed between any two calls. An error is taken for "not found" by its
status, its code or its text, whatever the state of the instance (`TakenForAbsent`), and the
deletion is then reported as done. The NIC of Azure has a life of its own. `inst` is all a job knows; `told` is a history variable with what it was
last told of each instance.

| Run | Question |
| --- | --- |
| `vpc_test_resource` | `NoSilentLeak`, `NicAccountedFor`, `DeletedMeansGone`, `PassedMeansPrivate`, and, under fairness, `DeletedDisappears` and `JobsEnd` |
| `vpc_deleted` | Is an instance terminated before the call returns, as `aws-vpc-cn04.go:4-5` says? No: without a time to wait, the deletion is reported when it was requested |

Fairness is weak for the own steps of a job, which it takes unless it is killed, and for
the operations the cloud has accepted. Waits on AWS and GCP have a deadline; the pollers
of Azure have none, so `JobsEnd` there rests on the cloud's finishing what it accepted, or
failing it when the VM is gone. `told` tells the three reports of a
deletion apart, as the `Reason` in the code's result does: `deleted` (the cloud was seen to have ended it),
`requested` (AWS without `CN_TEST_DELETE_WAIT_SECONDS`) and `absent`. `NoSilentLeak` and
`NicAccountedFor` say that an `absent` that was none is the only silent leak;
`DeletedMeansGone` that a `deleted` instance is gone and a `requested` one going or gone;
`DeletedDisappears` that both are gone in the end. Of `absent` they say nothing. The OS disk of an Azure VM is never
deleted by the code and is not in the model. Bounds: two jobs, three subnets (one private, one public by its own route
table or not, one public by the main table), two instances:
a job's instance and the other's, or one left behind.

### ServiceProbes, AuditLog, PeeringGuardrail

`ServiceProbes` is the scenarios of the functions, virtual machines and networks: each job
runs one of them, call by call, while the other job, other users and the cloud go on.
`AuditLog` holds what the queries of the logging services return (an operator per sink)
and show as result; `PeeringGuardrail` the lists of CN03 and the evidence of a dry run.
Both are pure and composed into `ServiceProbes`.

| Run | Question |
| --- | --- |
| `service_probes` | `PassedOnEvidence`, `DeliveredIsFound`, `ClosedMeansClosed`, `RateVerdict`, `GuardrailVerdict`, `TouchKeepsLabels` |

Most of these properties name the cases in which the code's verdict is not what its
scenario says; the runs show that there are no others:

- What a logging check passes on was delivered, and is about the resource as far as the query can
  tell. CloudTrail, the activity log and Cloud Logging are searched for the text of the name,
  so an entry about `fn-2` is taken for one about `fn` (`alike`); an activity that names
  no resource is kept for all (`none`).
- On AWS a check may also rest on entries CloudTrail's event names file elsewhere: changes
  of a function or of tags count as data writes (`Misfiled`), so an administrative check
  does not pass on its own trigger. On Azure it always rests on what somebody else did, as
  the triggers leave no entry in the logs that are queried. On GCP, whose result is a
  severity, no check passes; the flow check passes on AWS alone, whose records say `OK`.
- A check misses its own delivered action where the log files it elsewhere or shows another
  result, and where the entry has another id: the events of EC2 name a machine by its `i-` id,
  the queries by its Name tag if it has one (`NamedAs`), and flow records the interface.
- "No public endpoint" on Azure is read off the configuration, not the function. A public
  call counts as denied when it got no answer (`gcp-serverless-computing.go:341`) and when the
  answer is an error or a throttling of the function itself, which did let the caller in
  (`aws-serverless-computing.go:244`).
- The rate verdict follows from the limit only if nobody else calls, nothing refills
  and no call fails.
- A batch of disallowed requesters is judged by the allow-list alone. Without one, or with an
  entry that is in both, or is given by a name, it says nothing of the guardrail.
- The labels of a GCP function are read and written as a whole. A conflict is retried
  with the labels read before it, so a label that another update has set since is taken away;
  those that were read are kept.

A property that excepts a case does not rule the case out: the hazards of that kind are listed
without a property.

Bounds: two jobs with every pair of scenarios of one service, two log entries of others,
one change by others, bursts of up to two calls against limits of up to four, two networks
with a name for one and a spelling that resolves to nothing. `MCServiceProbes` restricts
each initial state to the configuration its scenarios read.

## What is proved

For every value of the constants, under the assumptions named below: every state invariant
that a passing run checks, the action property `TouchKeepsLabels`, and the refinements of
`AccountPromise` and `ServicePromise`. Nothing of liveness is proved. Each component has a
module of theorems; `ComplianceReportsProofs` extends `ComplianceRunProofs`.

| Theorem | Statement |
| --- | --- |
| `AzureElevationProofs!TypeCorrect` | `TypeOK` |
| `RolesAreAccountedFor` | an elevator holds for deletion exactly the assignments it made, as long as no Create was lost and no deletion failed |
| `ResetRestoresAccount` | a reset whose calls all succeeded restores the account, outside the lost-response case |
| `ElevationKeepsPromise` | the elevators implement `AccountPromise` |
| `ObjectStorageProofs!TypeCorrect` | `TypeOK` |
| `ObjectsAreTracked` | no order of calls makes a service lose track of an object it has in a bucket, other than the very objects a call failed for |
| `TearDownIsComplete` | a tear-down leaves only the objects whose own upload or deletion failed, or that a restore brought back |
| `OwnersObjectsAreKept` | no tear-down takes away or changes an object of the owner that no test wrote or deleted |
| `ComplianceRunProofs!CollectorsAreFaithful` | the collectors hold every scenario that ran, once, in order, with its own outcome |
| `ExitCodeTellsFailure` | exit code 0 means that no scenario failed, and 1, without a fault, that one did |
| `ComplianceReportsProofs!ComplianceTypes` | `TypeOK`, the reports included |
| `FindingsAreTrue` | the OCSF findings of a suite are what ran in it, with the outcome the other reports give, under its resource or the one that registered its report name |
| `AttachmentsAreInPlace` | the HTML report shows every attachment once, under the scenario that made it, or none under a report name registered before |
| `CombinedIsComplete` | the combined file of a finished run has each scenario of a resource with a report of its own exactly once, or at most once if the log warns of the report |
| `VerdictsAreFaithful` | a verdict of the plugin is drawn from the requirement's own scenarios |
| `ServiceFactoryProofs!FactoryTypes` | `TypeOK` |
| `TearDownReachesAll` | a service with objects to remove is one `TearDown` visits; what is left is what a deletion failed for |
| `OriginalsRemembered` | while no factory was dropped, the level of an account before the tests is known to a service that can still be asked for |
| `IdentitiesServed` | a service is handed out with the kind, factory and identity asked for |
| `LoginsHold` | a login that returned without an error lasts for the refresh skew, and after the one for clean-up serves credentials made from then on or without an assertion |
| `FactoryKeepsPromise` | the factories implement `ServicePromise` |
| `VpcTestResourceProofs!TestResourceTypes` | `TypeOK` |
| `NothingLeaksSilently` | an instance nobody will come back to cost somebody an error, a failed assertion or a killed job, or was taken for absent |
| `NicsAreAccountedFor` | the same of a NIC without a VM, or its own deletion failed and nobody heard |
| `DeletionReportsHold` | an instance whose end was confirmed is gone, one whose termination was requested going or gone |
| `PassedMeansPrivateHolds` | CN02 passes on a subnet that assigns addresses only after a wait cut short, or on an instance that is gone |
| `ConnectionProofs!ConnectionTypes` | `TypeOK` |
| `OutputIsFaithful` | of each stream the output is a prefix of what the process wrote, and all of it after its reader, unless a close or `cmd.Wait` came first |
| `ClosedIsGone` | before the scenario closes it, a connection is `closed` only once its process is gone |
| `ServiceProbesProofs!ProbesTypes` | `TypeOK` |
| `EvidenceHolds` | what a passed logging check rests on: delivered entries, about the resource as far as its query can tell |
| `DeliveredHolds` | where a logging check may miss its own delivered action, and nowhere else |
| `ClosedHolds` | not reconfigured, a passed check of a closed endpoint is right, or the call got no answer or the function's own error |
| `RateHolds` | undisturbed, the rate check passes exactly when the limit lies between one burst and two |
| `GuardrailHolds` | what the batch collects entry by entry is what the scenario asserts of the list |
| `LabelsKept` | an update takes away only labels set since it read them (an action property) |

Each proof follows the same line: Init implies the invariant, one lemma per action, or per
kind of action, shows that it is kept, and the temporal step puts them together. Few of the
properties are inductive alone; what they need, component by component:

- **Azure elevation.** `RolesAccountedFor` needs that what an elevator is about to record is
  its own; `ResetRestores` that `cur` and the account agree wherever no response was lost, at
  each place in the program.
- **Object storage.** `TearDownLeavesNothing` needs `ObjectsTracked` and that what a service
  that is done still has in its list counts as lost.
- **Run and collectors.** `CollectorsAgree` speaks of what a collector would hold if it
  finished its open scenario now; the invariant says what it does hold: all that ran, or all
  but the last, which is open with the outcome so far, and nothing is open between two
  suites. `ExitTellsFailure` needs that a failure is known to its suite at once and to the
  run when the suite ends, and that nothing but a failed scenario or a fault makes the run fail.
- **Reports.** `ReportsInv` adds that a resource is tested once and a suite runs a scenario
  once (`OnceEach`), what the formatter has written and what it still holds open
  (`FindingsInv`, `PagesInv`), and for the directory that every report of this process tells
  exactly what ran on its resource, that findings of this process are in no other file, and
  that stale files hold older ones (`FilesInv`). The combined list is a recursive function over
  a set of files (`Concatenation`). An induction rule with an operator as parameter cannot be
  used here, so `SmallestSubset` takes a smallest counterexample among the subsets of a finite
  set, by well-foundedness (`WFMin`), and `JoinsExists` and `ConcatenationTells` argue about
  that one: the function is defined, and holds a finding once that one file holds once and no
  other does.
- **Factory and login.** Every request, of any provider, is one kind of step (`Asks`). What
  is cached is cached by one name, under the kind and user it was made for, and in the
  current factory; what is handed out is cached, except the vpc service of AWS, which creates
  nothing (`HandsFaithful`, `PendingCached`). `Remembered`: there is one factory, and an
  account is opened by the object-storage service nobody asked for under an identity.
  `SessionLasts`: every unit of time costs a login one of the units it made sure of.
- **Test resources.** Two jobs never hold one instance, and there is room for every job that
  is about to create one, which bounds the history. `NicOwned` is `NicAccountedFor` while the NIC is
  still attached too; `AwsSettles` that EC2 lets go of `pending` before the job looks.
- **Connection.** `Taken` and what a reader is about to store; `Unclosed`: before a close
  nobody kills the process and only the monitor marks the connection closed.
- **Probes.** A job is touched by its own steps and by what it watches (`Same`, the kinds of
  step of others), so the invariants are about one job: what it read, from when, what it
  triggered, the calls left of its limit. `TrueEntry` says who can have caused an entry of
  the log, and of which kind its action is.

The assumptions are those named in the modules (`ElevationAssumption`, `StorageAssumption`,
`ComplianceAssumption`, `FactoryAssumption`, `ResourceAssumption`, `ConnectionAssumption`,
`ProbesAssumption`, `GuardrailAssumption`), which the runs evaluate. They are types of the
constants, and where the code gives a reason, a little more: a feature file has a scenario
once, resources and jobs are finitely many (`GetOrProvisionTestableResources` returns a
slice), a login lasts longer than the refresh skew.

Only checked by TLC: the liveness properties `CloseReleases` and `ExitNoticed` of
`Connection` and `DeletedDisappears` and `JobsEnd` of `VpcTestResource`, since ENABLED, and
with it fairness, is out of reach of TLAPS; and the runs that expect a violation.

## Findings

1. `azure_elevation.go:233`: a reset can report success and leave the account open
   (`azure_reset_stale`).
2. `cloud_steps.go:242`: an accepted TLS connection is reported closed (`connection_verdict`).
3. `cloud_steps.go:269`: `cmd.Wait` discards what the readers have not taken
   (`connection_output`).
4. `behavioural_steps.go:48`: a failure on a later resource is hidden by the first one's result
   (`compliance_verdict`).
5. `aws-vpc-test-resource.go:168`: a requested termination is reported as a deletion
   (`vpc_deleted`).

What the models show besides, without a run of its own:

- `BasicServiceRunner.go:289`: a suite whose report name an earlier one has registered reports
  with the earlier one's parameters, although `reporters/factory.go:31-32` asks to "ensure
  formatters use the correct params".
- `azure-vpc-resolve.go:64`, `gcp-vpc-resolve.go:71`: an error whose text contains "not found" is
  taken for an absent resource, and a deletion that failed reported as done.
- `aws-serverless-computing.go:244`: any status of 400 or more is a denial, while
  `features/serverless-computing/analysis.md:41,63,99` says that a 403 of a public URL is not
  what the control asks for.
- `aws-logging.go:231`: names such as `CreateTags` or `UpdateFunctionConfiguration` are data-plane
  by their prefix, which the comment at 230 sets against "management".
- `aws-logging.go:145`: the query by the Name tag does not find the events of EC2, which have the
  `i-` id.
- `login/azure.go:150-151` says that "subsequent SDK calls use the CLI session above"; a service
  made before goes on with the credential it was made with.
- `azure-object-storage.go:304`, `gcp-object-storage.go:188`: a refused upload is answered without
  an error, where `CCC-ObjStor-CN04-AR02.feature:44-45` expects one.
- `aws-object-storage.go:301`: `latest` is the last version listed, and S3 lists the newest first.

## Not modelled

Secrets and IAM turn single calls into records and classify their errors. Reads of objects, encryption
queries of functions and volumes, read-only queries of object storage and listings of
resources to test are single reads. HTML layout, SSL reports, tag expressions, configuration
expansion, catalogue files, website, delivery toolkit and CI scripts hold no state that
several steps share. `ResetAccess` has no caller in production code: `AzureElevation`
models the pair of calls the interface promises. The interface promises that `TearDown`
removes buckets and users too (`cloud-api/generic/service.go:78`); no service tracks them, so
there is no state to state a property over. The factory takes a lock to look into its
cache and another to fill it: with one caller nothing comes in between.

## Plan

1. Done: `AzureElevation`, `ObjectStorage` and `ComplianceRun` with proofs, `Connection`.
2. Done: `ServiceFactory` with `ServicePromise`; `VpcTestResource`; `ServiceProbes` with
   `AuditLog` and `PeeringGuardrail`.
3. Done: theorems for every state invariant of the passing runs, `TouchKeepsLabels` and the
   refinements of `AccountPromise` and `ServicePromise`.
4. Done: shared report names and failing combination, errors taken for "not found", entries
   named by other ids, endpoints that answer with errors, output the readers have not taken,
   credentials bound when a service is made.
5. A run of `BasicServiceRunner` with a step that blocks: the time limit
   (`BasicServiceRunner.go:128`) is passed on and never used.
6. A reset after overlapping elevations (`azure_elevation.go:193`): the second elevator
   records the opened level as the original. The interleaving is in `AzureElevation`, a
   property that speaks of it is not.
