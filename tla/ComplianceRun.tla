---------------------------- MODULE ComplianceRun ----------------------------
(***************************************************************************)
(* One run of the compliance harness, and the next one in the same output  *)
(* directory: runner.Run and BasicServiceRunner (modules/runner), the four *)
(* godog formatters and the collectors (modules/reporters), and the        *)
(* verdicts the Privateer plugin draws from them                           *)
(* (modules/ccc-behavioural-plugin).                                       *)
(*                                                                         *)
(* A resource is one entry of GetOrProvisionTestableResources that matches *)
(* the resource filter; Plan[r] is the sequence of scenarios its tag       *)
(* filter selects.  godog calls the formatters one after the other for     *)
(* every feature, scenario and step, so the four callbacks of one event    *)
(* are one step here.                                                      *)
(***************************************************************************)
EXTENDS Naturals, Sequences, FiniteSets

CONSTANTS
    Resources,    \* resources under test
    Scenarios,    \* scenarios of the feature files
    Requirements, \* assessment requirements of the catalogs
    Plan,         \* the scenarios godog runs for a resource, in order
    Steps,        \* number of steps of a scenario
    Requirement,  \* requirement id of the feature a scenario is in
    Name,         \* name of a scenario
    Badge,        \* "none", "NotTested", "NotTestable" or "Duplicate"
    Report,       \* base name of a resource's report files
    Combined,     \* base name of combined.ocsf.json
    MaxRuns,      \* bound: processes started
    MaxFaults,    \* bound: faults of the file system and of the cloud account
    MaxAttached,  \* bound: attachments of one scenario
    Nobody        \* no resource

Badges == {"none", "NotTested", "NotTestable", "Duplicate"}
ReportNames == {Report[r] : r \in Resources}
Files == ReportNames \cup {Combined}

ASSUME ComplianceAssumption ==
    /\ Plan \in [Resources -> Seq(Scenarios)]
    /\ Steps \in [Scenarios -> Nat \ {0}]
    /\ Requirement \in [Scenarios -> Requirements]
    /\ Badge \in [Scenarios -> Badges]
    /\ DOMAIN Name = Scenarios /\ DOMAIN Report = Resources
    /\ MaxRuns \in Nat /\ MaxFaults \in Nat /\ MaxAttached \in Nat
    /\ Nobody \notin Resources /\ IsFiniteSet(Resources)
    \* a feature file has a scenario once
    /\ \A r \in Resources : \A i, j \in DOMAIN Plan[r] :
         Plan[r][i] = Plan[r][j] => i = j

VARIABLES
    \* the process
    phase,     \* "off", "resources", "suite" or "exited"
    exit,      \* what Run returned: "0", "1", or "none" before
    todo,      \* resources runTests has not come to
    res,       \* the resource of the last suite
    queue,     \* scenarios its suite has not started
    left,      \* steps of the current scenario that have not run
    failing,   \* TestStats.Failed > 0
    suiteFails,\* the suite will report a failure
    registered,\* the resource whose formatters godog has under a report name
    attached,  \* Attachments of each suite's CloudWorld: the scenarios that made them
    html,      \* HTMLFormatter
    ocsf,      \* OCSFFormatter
    summary,   \* SummaryFormatter and summaryCollector
    privateer, \* PrivateerFormatter and privateerCollector
    \* the output directory
    files,     \* content of the OCSF files
    cleaned,   \* the last cleaning left no OCSF file
    warned,    \* files the log says are not in the combined one
    \* history and bounds
    runs,      \* processes started
    ran,       \* scenarios this process has started, with their true outcome
    faults     \* faults so far

progress == <<phase, exit, todo, res, queue, left, failing, suiteFails>>
reporters == <<registered, attached, html, ocsf, summary, privateer>>
directory == <<files, cleaned, warned>>
vars == <<progress, reporters, directory, runs, ran, faults>>

-----------------------------------------------------------------------------
(* A formatter holds at most one scenario it has not finished: << >> or    *)
(* <<entry>>.                                                              *)

(* finalizeResult, finalize, applyExclusionStatusOverride: a badge decides *)
(* before the steps do.                                                    *)
Passing(s, ok) ==
    \/ Badge[s] \in {"NotTestable", "Duplicate"}
    \/ Badge[s] = "none" /\ ok

Outcome(entry) == [scen |-> entry.scen, passing |-> Passing(entry.scen, entry.ok)]

Finalized(current) == IF current = << >> THEN << >> ELSE <<Outcome(current[1])>>

Collected(formatter) == formatter.results \o Finalized(formatter.current)

FinalCode(entry) ==
    CASE Badge[entry.scen] = "NotTested" -> "FAIL"
      [] Badge[entry.scen] \in {"NotTestable", "Duplicate"} -> "PASS"
      [] OTHER -> entry.code

(* godog.Format adds to a list, and FindFmt takes the first formatter of a  *)
(* name: of two suites with one report name, the later one reports with    *)
(* the parameters and the CloudWorld of the earlier one's factory.         *)
Provider == registered[Report[res]]

Registers(r) ==
    registered' = [registered EXCEPT ![Report[r]] = IF @ = Nobody THEN r ELSE @]

Finding(entry) ==
    [run |-> runs, res |-> Provider, scen |-> entry.scen, code |-> FinalCode(entry)]

FindingsNow ==
    ocsf.results \o (IF ocsf.current = << >> THEN << >> ELSE <<Finding(ocsf.current[1])>>)

(* Feature, Pickle and Summary of the HTML formatter show what was         *)
(* attached so far under the scenario that is open.                        *)
BodyNow ==
    IF html.opened = << >> THEN html.body
    ELSE html.body \o [i \in DOMAIN attached[Provider] |->
                         [under |-> html.opened[1], made |-> attached[Provider][i]]]

(* What the file system holds under the name of an OCSF report.            *)
None == [is |-> "absent", holds |-> << >>]
Torn == [is |-> "torn", holds |-> << >>]  \* made by os.Create, never written
Json(list) == [is |-> "json", holds |-> list]

NewCollector == [results |-> << >>, current |-> << >>]

NewReporters ==
    /\ html' = [body |-> << >>, opened |-> << >>]
    /\ ocsf' = NewCollector

-----------------------------------------------------------------------------
(* The process starts.  Cleaning removes the html and ocsf directories; a  *)
(* failure is a warning and leaves some of the files.                      *)
Start ==
    /\ phase \in {"off", "exited"} /\ runs < MaxRuns
    /\ runs' = runs + 1
    /\ exit' = "none" /\ ran' = << >> /\ res' = Nobody /\ queue' = << >> /\ left' = 0
    /\ failing' = FALSE /\ suiteFails' = FALSE
    /\ summary' = NewCollector /\ privateer' = NewCollector
    /\ registered' = [n \in ReportNames |-> Nobody]
    /\ attached' = [r \in Resources |-> << >>]
    /\ NewReporters

Clean ==
    \E kept \in SUBSET {f \in Files : files[f] # None} :
      /\ kept # {} => faults < MaxFaults
      /\ faults' = IF kept = {} THEN faults ELSE faults + 1
      /\ files' = [f \in Files |-> IF f \in kept THEN files[f] ELSE None]
      /\ cleaned' = (kept = {}) /\ warned' = {}

Run == Start /\ Clean /\ phase' = "resources" /\ todo' = Resources

(* Run: a configuration error, or no service, resources or feature files:  *)
(* log.Fatal.                                                              *)
RunIsFatal ==
    /\ phase = "resources" /\ todo = Resources
    /\ exit' = "1" /\ phase' = "exited"
    /\ faults < MaxFaults /\ faults' = faults + 1
    /\ UNCHANGED <<todo, res, queue, left, failing, suiteFails, reporters, directory, runs, ran>>

(* runResourceTest: a directory cannot be made.                            *)
ResourceHasNoDirectory(r) ==
    /\ phase = "resources" /\ r \in todo
    /\ faults < MaxFaults /\ faults' = faults + 1
    /\ todo' = todo \ {r} /\ failing' = TRUE
    /\ UNCHANGED <<phase, exit, res, queue, left, suiteFails, reporters, directory, runs, ran>>

(* The formatters are registered, and godog ends with an option error (2), *)
(* before or after it has created the report's file: the resource counts   *)
(* as skipped.                                                             *)
ResourceSkipped(r) ==
    /\ phase = "resources" /\ r \in todo
    /\ faults < MaxFaults /\ faults' = faults + 1
    /\ todo' = todo \ {r}
    /\ files' \in {files, [files EXCEPT ![Report[r]] = Torn]}
    /\ Registers(r)
    /\ UNCHANGED <<phase, exit, res, queue, left, failing, suiteFails, attached, html, ocsf, summary, privateer, cleaned, warned, runs, ran>>

(* The formatters are registered; godog creates the files and, with the    *)
(* functions it finds under their names, the formatters.  The unfinished   *)
(* entries of the last suite's formatters are gone with them.              *)
SuiteBegins(r) ==
    /\ phase = "resources" /\ r \in todo
    /\ phase' = "suite" /\ todo' = todo \ {r}
    /\ res' = r /\ queue' = Plan[r] /\ left' = 0 /\ suiteFails' = FALSE
    /\ files' = [files EXCEPT ![Report[r]] = Torn]
    /\ Registers(r) /\ NewReporters
    /\ summary' = [summary EXCEPT !.current = << >>]
    /\ privateer' = [privateer EXCEPT !.current = << >>]
    /\ attached' = [attached EXCEPT ![r] = << >>]
    /\ UNCHANGED <<exit, failing, cleaned, warned, runs, ran, faults>>

-----------------------------------------------------------------------------
(* Pickle of the four formatters, after Feature when the scenario is the   *)
(* first of its file.                                                      *)
SummaryPickle(s) ==
    summary' = [results |-> Collected(summary), current |-> <<[scen |-> s, ok |-> TRUE]>>]

(* Mutant: the open scenario is replaced, not finished. *)
PrivateerPickleForgets(s) ==
    privateer' = [privateer EXCEPT !.current = <<[scen |-> s, ok |-> TRUE]>>]

PrivateerPickle(s) ==
    privateer' = [results |-> Collected(privateer), current |-> <<[scen |-> s, ok |-> TRUE]>>]

OcsfPickle(s) ==
    ocsf' = [results |-> FindingsNow, current |-> <<[scen |-> s, code |-> "PASS"]>>]

(* Mutant: the next scenario opens before the attachments are shown. *)
HtmlPickleForgets(s) ==
    html' = [body |-> html.body, opened |-> <<s>>]

HtmlPickle(s) ==
    html' = [body |-> BodyNow, opened |-> <<s>>]

(* Then the Before hook clears the attachments of the suite's own world.   *)
ScenarioStarts ==
    /\ phase = "suite" /\ left = 0 /\ queue # << >>
    /\ LET s == Head(queue) IN
         /\ SummaryPickle(s) /\ PrivateerPickle(s) /\ OcsfPickle(s) /\ HtmlPickle(s)
         /\ left' = Steps[s]
         /\ ran' = Append(ran, [res |-> res, scen |-> s, ok |-> TRUE, attached |-> 0])
    /\ queue' = Tail(queue)
    /\ attached' = [attached EXCEPT ![res] = << >>]
    /\ UNCHANGED <<phase, exit, todo, res, failing, suiteFails, registered, directory, runs, faults>>

(* The scenario whose steps run, and whether a step of it has failed.      *)
Current == ran[Len(ran)]
Record(ok, made) ==
    ran' = [ran EXCEPT ![Len(ran)].ok = ok, ![Len(ran)].attached = @ + made]

StepPasses ==
    /\ phase = "suite" /\ left > 0 /\ Current.ok
    /\ left' = left - 1
    /\ UNCHANGED <<phase, exit, todo, res, queue, failing, suiteFails, reporters, directory, runs, ran, faults>>

(* iAttachToTestOutput.                                                    *)
StepAttaches ==
    /\ phase = "suite" /\ left > 0 /\ Current.ok
    /\ Len(attached[res]) < MaxAttached
    /\ left' = left - 1
    /\ attached' = [attached EXCEPT ![res] = Append(@, Current.scen)]
    /\ Record(TRUE, 1)
    /\ UNCHANGED <<phase, exit, todo, res, queue, failing, suiteFails, registered, html, ocsf, summary, privateer, directory, runs, faults>>

(* Failed, Undefined and Skipped of the summary and Privateer formatters.  *)
Broken(formatter) ==
    IF formatter.current = << >> THEN formatter
    ELSE [formatter EXCEPT !.current = <<[scen |-> @[1].scen, ok |-> FALSE]>>]

OcsfCoded(code) ==
    IF ocsf.current = << >> THEN ocsf
    ELSE [ocsf EXCEPT !.current = <<[scen |-> @[1].scen, code |-> code]>>]

(* A step returns an error, panics or is undefined: Strict makes each of   *)
(* them a failure of the suite.                                            *)
StepFails ==
    /\ phase = "suite" /\ left > 0 /\ Current.ok
    /\ left' = left - 1
    /\ summary' = Broken(summary) /\ privateer' = Broken(privateer)
    /\ ocsf' = OcsfCoded("FAIL")
    /\ suiteFails' = TRUE
    /\ Record(FALSE, 0)
    /\ UNCHANGED <<phase, exit, todo, res, queue, failing, registered, attached, html, directory, runs, faults>>

(* Mutant: a skipped step overwrites the code of the failed one. *)
SkippedOverwrites == "SKIP"

(* godog skips the steps after a failed one.                               *)
SkippedCode == IF ocsf.current[1].code = "PASS" THEN "SKIP" ELSE ocsf.current[1].code

StepSkipped ==
    /\ phase = "suite" /\ left > 0 /\ ~Current.ok
    /\ left' = left - 1
    /\ summary' = Broken(summary) /\ privateer' = Broken(privateer)
    /\ ocsf' = OcsfCoded(SkippedCode)
    /\ UNCHANGED <<phase, exit, todo, res, queue, failing, suiteFails, registered, attached, html, directory, runs, ran, faults>>

(* Mutant: only the last suite counts. *)
LastFails == suiteFails

(* TestStats.Failed > 0 after the suite.                                   *)
SomeFailed == failing \/ suiteFails

(* Summary of the four formatters, and the result of the resource.         *)
SuiteEnds ==
    /\ phase = "suite" /\ left = 0 /\ queue = << >>
    /\ phase' = "resources"
    /\ summary' = [results |-> Collected(summary), current |-> << >>]
    /\ privateer' = [results |-> Collected(privateer), current |-> << >>]
    /\ ocsf' = [results |-> FindingsNow, current |-> << >>]
    /\ html' = [html EXCEPT !.body = BodyNow]
    /\ attached' = IF html.opened = << >> THEN attached
                   ELSE [attached EXCEPT ![Provider] = << >>]
    /\ files' = [files EXCEPT ![Report[res]] = Json(FindingsNow)]
    /\ failing' = SomeFailed
    /\ UNCHANGED <<exit, todo, res, queue, left, suiteFails, registered, cleaned, warned, runs, ran, faults>>

-----------------------------------------------------------------------------
(* combineOCSFFiles: every file of the directory that is read and holds    *)
(* JSON, the combined one of an earlier run included, in one list.  Of a   *)
(* file it cannot read or parse, and of a list it cannot write, the log    *)
(* has a warning.                                                          *)
Concatenation(S, content) ==
    LET all[T \in SUBSET S] ==
          IF T = {} THEN << >>
          ELSE LET f == CHOOSE f \in T : TRUE IN content[f].holds \o all[T \ {f}]
    IN  all[S]

Readable == {f \in Files : files[f].is = "json"}
Present == {f \in Files : files[f] # None}

CombinedWritten ==
    \E read \in SUBSET Readable :
      /\ read # Readable => faults < MaxFaults
      /\ faults' = IF read = Readable THEN faults ELSE faults + 1
      /\ files' = [files EXCEPT ![Combined] = Json(Concatenation(read, files))]
      /\ warned' = Present \ read

(* Mutant: the error of the write is dropped. *)
WriteErrorDropped ==
    /\ faults < MaxFaults /\ faults' = faults + 1
    /\ files' \in {files, [files EXCEPT ![Combined] = Torn]}
    /\ warned' = {}

CombinedNotWritten ==
    /\ faults < MaxFaults /\ faults' = faults + 1
    /\ files' \in {files, [files EXCEPT ![Combined] = Torn]}
    /\ warned' = Files

CombineOCSFFiles ==
    \/ Present = {} /\ UNCHANGED <<files, warned, faults>>
    \/ Present # {} /\ (CombinedWritten \/ CombinedNotWritten)

(* Mutant: another failing status. *)
GodogStatus == IF failing THEN "2" ELSE "0"

(* The exit code of Run.                                                   *)
ExitCode == IF failing THEN "1" ELSE "0"

(* GenerateSummaryReport empties its collector.                            *)
Finish ==
    /\ phase = "resources" /\ todo = {}
    /\ CombineOCSFFiles
    /\ summary' = [summary EXCEPT !.results = << >>]
    /\ exit' = ExitCode
    /\ phase' = "exited"
    /\ UNCHANGED <<todo, res, queue, left, failing, suiteFails, registered, attached, html, ocsf, privateer, cleaned, runs, ran>>

(* The job is cancelled, or its time is over.                              *)
Killed ==
    /\ phase \in {"resources", "suite"}
    /\ phase' = "off"
    /\ UNCHANGED <<exit, todo, res, queue, left, failing, suiteFails, reporters, directory, runs, ran, faults>>

Resource ==
    \E r \in Resources :
      ResourceHasNoDirectory(r) \/ ResourceSkipped(r) \/ SuiteBegins(r)

Scenario ==
    ScenarioStarts \/ StepPasses \/ StepAttaches \/ StepFails \/ StepSkipped \/ SuiteEnds

Init ==
    /\ phase = "off" /\ exit = "none" /\ todo = {} /\ res = Nobody
    /\ queue = << >> /\ left = 0 /\ failing = FALSE /\ suiteFails = FALSE
    /\ registered = [n \in ReportNames |-> Nobody]
    /\ attached = [r \in Resources |-> << >>]
    /\ html = [body |-> << >>, opened |-> << >>]
    /\ ocsf = NewCollector /\ summary = NewCollector /\ privateer = NewCollector
    /\ files = [f \in Files |-> None] /\ cleaned = TRUE /\ warned = {}
    /\ runs = 0 /\ ran = << >> /\ faults = 0

Next == Run \/ RunIsFatal \/ Resource \/ Scenario \/ Finish \/ Killed

Spec == Init /\ [][Next]_vars

-----------------------------------------------------------------------------
(* What the plugin makes of the collector, once Run has returned.          *)
Of(ar) == {i \in DOMAIN privateer.results : Requirement[privateer.results[i].scen] = ar}

Result(passing) == IF passing THEN "Passed" ELSE "Failed"

(* Mutant: the lookup forgets the requirement. *)
ResultByName(ar, name) ==
    LET match == {i \in DOMAIN privateer.results : Name[privateer.results[i].scen] = name}
        first == CHOOSE i \in match : \A j \in match : i <= j
    IN  IF match = {} THEN "NotRun" ELSE Result(privateer.results[first].passing)

(* The first collected result with this requirement and scenario name.     *)
ResultForScenario(ar, name) ==
    LET match == {i \in Of(ar) : Name[privateer.results[i].scen] = name}
        first == CHOOSE i \in match : \A j \in match : i <= j
    IN  IF match = {} THEN "NotRun" ELSE Result(privateer.results[first].passing)

ResultForRequirement(ar) ==
    IF Of(ar) = {} THEN "NotRun"
    ELSE Result(\A i \in Of(ar) : privateer.results[i].passing)

(* behaviouralStepsFromCollector: one step for each collected result; the  *)
(* requirement fails when one of its steps does.                           *)
Verdict(ar) ==
    LET steps == {ResultForScenario(ar, Name[privateer.results[i].scen]) : i \in Of(ar)}
    IN  IF steps = {} THEN "NotRun" ELSE Result("Failed" \notin steps)

-----------------------------------------------------------------------------
CodeSet == {"PASS", "SKIP", "FAIL"}
FindingSet == [run : 1..MaxRuns, res : Resources, scen : Scenarios, code : CodeSet]
CollectorSet ==
    [results : Seq([scen : Scenarios, passing : BOOLEAN]),
     current : Seq([scen : Scenarios, ok : BOOLEAN])]

(* The variables keep their types: files and reports hold findings, and    *)
(* the collectors hold results of scenarios.                               *)
TypeOK ==
    /\ phase \in {"off", "resources", "suite", "exited"} /\ exit \in {"none", "0", "1"}
    /\ todo \subseteq Resources /\ res \in Resources \cup {Nobody}
    /\ queue \in Seq(Scenarios) /\ left \in Nat
    /\ failing \in BOOLEAN /\ suiteFails \in BOOLEAN
    /\ registered \in [ReportNames -> Resources \cup {Nobody}]
    /\ attached \in [Resources -> Seq(Scenarios)]
    /\ html \in [body : Seq([under : Scenarios, made : Scenarios]), opened : Seq(Scenarios)]
    /\ ocsf \in [results : Seq(FindingSet), current : Seq([scen : Scenarios, code : CodeSet])]
    /\ summary \in CollectorSet /\ privateer \in CollectorSet
    /\ files \in [Files -> [is : {"absent", "torn", "json"}, holds : Seq(FindingSet)]]
    /\ cleaned \in BOOLEAN /\ warned \subseteq Files
    /\ runs \in 0..MaxRuns /\ faults \in 0..MaxFaults
    /\ ran \in Seq([res : Resources, scen : Scenarios, ok : BOOLEAN, attached : 0..MaxAttached])

(* The true outcome of what ran, as a collector should hold it.            *)
Truth == [i \in DOMAIN ran |-> Outcome(ran[i])]

(* The collectors never lose a scenario, count one twice, or give it the   *)
(* outcome of a neighbour: at every moment the Privateer collector and,    *)
(* until its report is made, the summary's, were they to finish their open *)
(* scenario now, hold what ran, in order.                                  *)
CollectorsAgree ==
    /\ Collected(privateer) = Truth
    /\ exit = "none" => Collected(summary) = Truth

OwnReport(r) == \A q \in Resources \ {r} : Report[q] # Report[r]

(* The OCSF findings of the suite are the last part of what ran, with its  *)
(* outcomes, and nothing that ran on the resource is missing.  Each names  *)
(* its own resource, or, where several resources have its report name, one *)
(* of those, for which the run has come to register formatters.            *)
FindingsAgree ==
    LET before == Len(ran) - Len(FindingsNow) IN
    /\ before \in Nat
    /\ \A i \in DOMAIN ran : i <= before => ran[i].res # res
    /\ \A i \in DOMAIN FindingsNow :
         LET found == FindingsNow[i]
             truth == ran[before + i]
         IN /\ found.scen = truth.scen
            /\ found.code = (IF Outcome(truth).passing THEN "PASS" ELSE "FAIL")
            /\ Report[found.res] = Report[truth.res] /\ found.res \notin todo

(* The HTML report shows each attachment under the scenario that made it,  *)
(* once, although it collects them only when the next scenario, feature or *)
(* the summary comes and every scenario starts by clearing them.  The      *)
(* report of a suite whose name an earlier one has registered shows none:  *)
(* not its own, nor those of the earlier suite.                            *)
AttachmentsPlaced ==
    /\ \A k \in DOMAIN BodyNow : BodyNow[k].under = BodyNow[k].made
    /\ \A i \in DOMAIN ran : ran[i].res = res =>
         IF Provider = res
         THEN ran[i].attached = Cardinality({k \in DOMAIN html.body : html.body[k].made = ran[i].scen})
                              + Cardinality({k \in DOMAIN attached[res] : attached[res][k] = ran[i].scen})
         ELSE BodyNow = << >>

Lists(file, i) ==
    {k \in DOMAIN file : /\ file[k].run = runs
                         /\ file[k].res = ran[i].res /\ file[k].scen = ran[i].scen}

(* combined.ocsf.json of a run that finished has every scenario of every   *)
(* resource whose report file is its own exactly once, or, if the log      *)
(* warned of that file, at most once; whatever an earlier run left behind, *)
(* and with nothing of earlier runs if the cleaning worked.                *)
CombinedComplete ==
    phase = "exited" /\ todo = {} =>
      LET all == files[Combined].holds IN
      /\ \A i \in DOMAIN ran : OwnReport(ran[i].res) =>
           /\ Cardinality(Lists(all, i)) <= 1
           /\ Report[ran[i].res] \notin warned => Cardinality(Lists(all, i)) = 1
      /\ cleaned => \A k \in DOMAIN all : all[k].run = runs

(* Exit code 0 means that no scenario failed on any resource; without a    *)
(* fault, 1 means that one did.                                            *)
ExitTellsFailure ==
    /\ exit = "0" => \A i \in DOMAIN ran : ran[i].ok
    /\ exit = "1" /\ faults = 0 => \E i \in DOMAIN ran : ~ran[i].ok

Scenes(ar) == {i \in DOMAIN ran : Requirement[ran[i].scen] = ar}

(* The plugin's verdict on a requirement is drawn from its own scenarios:  *)
(* NotRun if and only if none ran, Failed only if one failed, and, when no *)
(* two of them share a name, Failed whenever one failed.                   *)
VerdictFaithful ==
    exit # "none" => \A ar \in Requirements :
      LET bad == {i \in Scenes(ar) : ~Truth[i].passing} IN
      /\ Verdict(ar) = "NotRun" <=> Scenes(ar) = {}
      /\ Verdict(ar) = "Failed" => bad # {}
      /\ (\A i, j \in Scenes(ar) : Name[ran[i].scen] = Name[ran[j].scen] => i = j)
           => (bad # {} => Verdict(ar) = "Failed")

(* A requirement with a failed scenario fails, as ResultForRequirement     *)
(* says (privateer_results.go:46, 76).  The code draws its verdict from    *)
(* steps that look a result up by requirement and scenario name and find   *)
(* the first resource's.                                                   *)
VerdictIsRequirementsResult ==
    exit # "none" => \A ar \in Requirements : Verdict(ar) = ResultForRequirement(ar)
=============================================================================
