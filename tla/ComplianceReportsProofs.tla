----------------------- MODULE ComplianceReportsProofs -----------------------
(***************************************************************************)
(* What the reports of a compliance run tell, for every plan, every number *)
(* of resources and every bound: the verdicts of the plugin, the OCSF      *)
(* findings, the attachments of the HTML report and the combined file.     *)
(*                                                                         *)
(* ComplianceRunProofs has the invariant of the process and of the two     *)
(* collectors; this module adds an invariant for each of the reports.      *)
(***************************************************************************)
EXTENDS ComplianceRunProofs, FiniteSetTheorems, WellFoundedInduction

(* A verdict is drawn when no scenario is open.                            *)
NoneOpen == exit # "none" => privateer.current = << >>

(* A resource is tested once, and a suite runs each of its scenarios once: *)
(* what is still to run has not run.                                       *)
OnceEach ==
    /\ \A i \in DOMAIN ran : ran[i].res \notin todo
    /\ res \notin todo
    /\ \A i, j \in DOMAIN queue : queue[i] = queue[j] => i = j
    /\ \A i \in DOMAIN ran : ran[i].res = res =>
         /\ \A j \in DOMAIN queue : ran[i].scen # queue[j]
         /\ \A j \in DOMAIN ran : ran[j].res = res /\ ran[i].scen = ran[j].scen => i = j

(* A report name has the formatters of a resource of that name that the    *)
(* run has come to.                                                        *)
Registered ==
    /\ registered \in [ReportNames -> Resources \cup {Nobody}]
    /\ \A n \in ReportNames : registered[n] # Nobody =>
         Report[registered[n]] = n /\ registered[n] \notin todo
    /\ res # Nobody => Provider # Nobody
    /\ res = Nobody => /\ ran = << >> /\ ocsf = NewCollector
                       /\ html = [body |-> << >>, opened |-> << >>]

(* What process n says, with w's parameters, of a scenario that ran.       *)
FindingOf(e, w, n) ==
    [run |-> n, res |-> w, scen |-> e.scen,
     code |-> IF Outcome(e).passing THEN "PASS" ELSE "FAIL"]

(* The findings of process n.                                             *)
FoundSet(n) == [run : {n}, res : Resources, scen : Scenarios, code : CodeSet]

(* What the report should list of all but the first b scenarios of h.      *)
FindingsOf(h, b, w, n) == [i \in 1..(Len(h) - b) |-> FindingOf(h[b + i], w, n)]

(* A report with all but the first b scenarios of h, each finished.        *)
FindingsSettled(f, h, b, w, n) ==
    /\ f.current = << >>
    /\ f.results = FindingsOf(h, b, w, n)

(* ... or with the last scenario still open.                               *)
FindingsTrailing(f, h, b, w, n) ==
    /\ b < Len(h)
    /\ f.current = <<[scen |-> h[Len(h)].scen,
                      code |-> IF h[Len(h)].ok THEN "PASS" ELSE "FAIL"]>>
    /\ f.results = [i \in 1..(Len(h) - b - 1) |-> FindingOf(h[b + i], w, n)]

(* The suite on r is the last part of h, and f has its findings.           *)
FindingsHold(f, h, r, w, n) ==
    \E b \in 0..Len(h) :
      /\ \A i \in 1..b : h[i].res # r
      /\ \A i \in (b + 1)..Len(h) : h[i].res = r
      /\ FindingsSettled(f, h, b, w, n) \/ FindingsTrailing(f, h, b, w, n)

(* FindingsAgree, made inductive.                                          *)
FindingsInv ==
    /\ ocsf = [results |-> ocsf.results, current |-> ocsf.current]
    /\ FindingsHold(ocsf, ran, res, Provider, runs)
    /\ phase = "suite" /\ left > 0 => ocsf.current # << >>

(* How many attachments that a scenario made are shown.                    *)
Shown(body, s) == Cardinality({k \in DOMAIN body : body[k].made = s})

(* How many attachments that it made wait to be shown.                     *)
Pending(made, s) == Cardinality({k \in DOMAIN made : made[k] = s})

(* Attachments wait only for the scenario that is open.                    *)
PagesHold(page, made, h, r) ==
    /\ \/ page.opened = << >> /\ made = << >>
       \/ /\ h # << >> /\ h[Len(h)].res = r /\ page.opened = <<h[Len(h)].scen>>
          /\ \A k \in DOMAIN made : made[k] = h[Len(h)].scen
    /\ \A k \in DOMAIN page.body :
         /\ page.body[k].under = page.body[k].made
         /\ \E i \in DOMAIN h : h[i].res = r /\ h[i].scen = page.body[k].made
    /\ \A i \in DOMAIN h : h[i].res = r =>
         h[i].attached = Shown(page.body, h[i].scen) + Pending(made, h[i].scen)

(* Attachments wait only in the world of the suite that runs, and where no *)
(* formatter reads them.                                                   *)
WorldsHold ==
    \A r \in Resources : attached[r] # << >> =>
      /\ r \notin todo
      /\ registered[Report[r]] = r => r = res /\ phase # "resources"

(* The pages the HTML formatter can have built. *)
PageSet == [body : Seq([under : Scenarios, made : Scenarios]), opened : Seq(Scenarios)]

(* The page of a suite whose formatter reads its own world, or of another. *)
PageHolds ==
    IF Provider = res THEN PagesHold(html, attached[res], ran, res)
    ELSE html.body = << >>

(* AttachmentsPlaced, made inductive.                                      *)
PagesInv ==
    /\ html \in PageSet
    /\ attached \in [Resources -> Seq(Scenarios)]
    /\ WorldsHold
    /\ res \in Resources => PageHolds
    /\ phase = "suite" /\ left > 0 =>
         html.opened # << >> /\ ran[Len(ran)].attached = Len(attached[res])
    /\ \A i \in DOMAIN ran : ran[i].attached <= MaxAttached

(* x is a finding of process n about the scenario e.                       *)
Tells(x, n, e) == x.run = n /\ x.res = e.res /\ x.scen = e.scen

(* A list with exactly one.                                                *)
TellsOnce(list, n, e) ==
    \E k \in DOMAIN list :
      /\ Tells(list[k], n, e)
      /\ \A j \in DOMAIN list : Tells(list[j], n, e) => j = k

(* What a file can be.                                                     *)
FileSet == [is : {"absent", "torn", "json"}, holds : Seq(FindingSet)]

(* The part of TypeOK about the output directory and the bounds.           *)
FileTypes ==
    /\ files \in [Files -> FileSet]
    /\ runs \in 0..MaxRuns /\ faults \in 0..MaxFaults /\ cleaned \in BOOLEAN
    /\ warned \subseteq Files
    /\ ran # << >> \/ phase # "off" => runs # 0

(* No file holds a finding of a later process, nor, after a cleaning that  *)
(* worked, one of an earlier process.                                      *)
FindingsAreNew ==
    \A f \in Files : \A k \in DOMAIN files[f].holds :
      /\ files[f].holds[k].run <= runs
      /\ cleaned => files[f].holds[k].run = runs

(* While the process runs, what it says of a resource is in the report of  *)
(* that name only.                                                         *)
FindingsInPlace ==
    \A f \in Files : \A k \in DOMAIN files[f].holds :
      files[f].holds[k].run = runs => f = Report[files[f].holds[k].res]

(* The report of a resource whose suite has ended tells of each scenario   *)
(* that ran.                                                               *)
ReportsTell ==
    \A i \in DOMAIN ran :
      OwnReport(ran[i].res) /\ (phase = "suite" => ran[i].res # res) =>
        /\ files[Report[ran[i].res]].is = "json"
        /\ TellsOnce(files[Report[ran[i].res]].holds, runs, ran[i])

(* CombinedComplete, made inductive.                                       *)
FilesInv ==
    /\ FileTypes
    /\ FindingsAreNew
    /\ phase \in {"resources", "suite"} => FindingsInPlace /\ ReportsTell
    /\ CombinedComplete

-----------------------------------------------------------------------------
(* Verdicts.                                                               *)

(* A minimal element of a set, for a relation without endless descent.     *)
LEMMA MinimalExists ==
  ASSUME NEW R, NEW N, IsWellFoundedOn(R, N), NEW S \in SUBSET N, S # {}
  PROVE  \E x \in S : \A y \in S : ~(<<y, x>> \in R)
BY WFMin

(* A set of numbers has a least one: the lookup of a result by name finds  *)
(* a first match.                                                          *)
LEMMA LeastExists ==
  ASSUME NEW S \in SUBSET Nat, S # {}
  PROVE  \E n \in S : \A m \in S : n <= m
<1>1. \E R : IsWellFoundedOn(R, Nat) /\ \A m, n \in Nat : m < n => <<m, n>> \in R
  <2>1. \A m, n \in Nat : m < n => <<m, n>> \in OpToRel(<, Nat)
    BY DEF OpToRel
  <2> QED
    BY <2>1, NatLessThanWellFounded, Zenon
<1>2. PICK R : IsWellFoundedOn(R, Nat) /\ \A m, n \in Nat : m < n => <<m, n>> \in R
  BY <1>1
<1>3. PICK n \in S : \A m \in S : ~(<<m, n>> \in R)
  BY <1>2, MinimalExists
<1>4. \A m \in S : m \in Nat /\ n \in Nat /\ ~(m < n)
  BY <1>2, <1>3
<1>5. \A m \in Nat : n \in Nat /\ ~(m < n) => n <= m
  OBVIOUS
<1> QED
  BY <1>3, <1>4, <1>5

(* Run returns between two suites, when the collector's last scenario is   *)
(* finished, and a new process starts with an empty collector.             *)
LEMMA StepKeepsNoneOpen ==
  ASSUME Places, NoneOpen, [Next]_vars
  PROVE  NoneOpen'
<1> USE DEF NoneOpen
<1>1. CASE Run
  BY <1>1 DEF Run, Start
<1>2. CASE RunIsFatal
  BY <1>2 DEF RunIsFatal, reporters, Places
<1>3. CASE Resource \/ Scenario
  <2>1. exit' = exit /\ phase \in {"resources", "suite"}
    BY <1>3 DEF Resource, ResourceHasNoDirectory, ResourceSkipped, SuiteBegins, Scenario,
         ScenarioStarts, StepPasses, StepAttaches, StepFails, StepSkipped, SuiteEnds
  <2> QED
    BY <2>1 DEF Places
<1>4. CASE Finish
  BY <1>4 DEF Finish, Places
<1>5. CASE Killed
  BY <1>5 DEF Killed, reporters
<1>6. CASE UNCHANGED vars
  BY <1>6 DEF vars, progress, reporters
<1> QED
  BY <1>1, <1>2, <1>3, <1>4, <1>5, <1>6 DEF Next

(* Once Run has returned the collector holds the truth.                    *)
LEMMA CollectorIsTruth ==
  ASSUME Inv, NoneOpen, exit # "none"
  PROVE  /\ ran \in Seq(RanSet)
         /\ privateer.results = TruthOf(ran)
         /\ \A i \in DOMAIN ran : /\ TruthOf(ran)[i] = Outcome(ran[i])
                                  /\ TruthOf(ran)[i].scen = ran[i].scen
                                  /\ TruthOf(ran)[i].passing \in BOOLEAN
<1>1. ran \in Seq(RanSet) /\ Holds(privateer, ran) /\ privateer.current = << >>
  BY DEF Inv, ProcessTypes, CollectorsInv, NoneOpen
<1>2. privateer.results = TruthOf(ran)
  BY <1>1 DEF Holds, Settled, Trailing
<1>3. ASSUME NEW i \in DOMAIN ran
      PROVE  /\ TruthOf(ran)[i] = Outcome(ran[i])
             /\ TruthOf(ran)[i].scen = ran[i].scen
             /\ TruthOf(ran)[i].passing \in BOOLEAN
  <2>1. ran[i] \in RanSet
    BY <1>1
  <2>2. Outcome(ran[i]) \in ResultSet
    BY <2>1, OutcomeType DEF RanSet
  <2>3. TruthOf(ran)[i] = Outcome(ran[i])
    BY DEF TruthOf
  <2> QED
    BY <2>2, <2>3 DEF Outcome, ResultSet
<1> QED
  BY <1>1, <1>2, <1>3

(* The lookup by requirement and scenario name returns the outcome of a    *)
(* scenario with that name.                                                *)
LEMMA LookupFinds ==
  ASSUME NEW ar, NEW name, NEW i \in Of(ar), Name[privateer.results[i].scen] = name,
         DOMAIN privateer.results \subseteq Nat
  PROVE  \E k \in Of(ar) : /\ Name[privateer.results[k].scen] = name
                           /\ ResultForScenario(ar, name) = Result(privateer.results[k].passing)
<1> DEFINE match == {j \in Of(ar) : Name[privateer.results[j].scen] = name}
           first == CHOOSE k \in match : \A j \in match : k <= j
<1>1. i \in match /\ match \in SUBSET Nat
  BY DEF Of
<1>2. \E k \in match : \A j \in match : k <= j
  <2> HIDE DEF match
  <2> QED
    BY <1>1, LeastExists
<1>3. first \in match
  <2> HIDE DEF match
  <2> QED
    BY <1>2
<1>4. ResultForScenario(ar, name) = Result(privateer.results[first].passing)
  <2>1. match # {}
    BY <1>1
  <2> QED
    BY <2>1 DEF ResultForScenario
<1> HIDE DEF first
<1> QED
  BY <1>3, <1>4

(* The verdicts of the plugin are drawn from what ran.                     *)
LEMMA VerdictsFollow ==
  ASSUME Inv, NoneOpen
  PROVE  VerdictFaithful
<1> SUFFICES ASSUME exit # "none", NEW ar \in Requirements
             PROVE  LET bad == {i \in Scenes(ar) : ~Truth[i].passing} IN
                    /\ Verdict(ar) = "NotRun" <=> Scenes(ar) = {}
                    /\ Verdict(ar) = "Failed" => bad # {}
                    /\ (\A i, j \in Scenes(ar) : Name[ran[i].scen] = Name[ran[j].scen] => i = j)
                         => (bad # {} => Verdict(ar) = "Failed")
  BY DEF VerdictFaithful
<1> DEFINE bad == {i \in Scenes(ar) : ~Truth[i].passing}
           results == privateer.results
           steps == {ResultForScenario(ar, Name[results[i].scen]) : i \in Of(ar)}
<1>1. /\ ran \in Seq(RanSet) /\ results = TruthOf(ran) /\ Truth = TruthOf(ran)
      /\ \A i \in DOMAIN ran : results[i].scen = ran[i].scen /\ results[i].passing \in BOOLEAN
  BY CollectorIsTruth DEF Truth, TruthOf
<1>2. DOMAIN results = DOMAIN ran /\ DOMAIN ran \subseteq Nat
  BY <1>1 DEF TruthOf
<1>3. Of(ar) = Scenes(ar) /\ Of(ar) \subseteq DOMAIN ran
  BY <1>1, <1>2 DEF Of, Scenes
<1>4. ASSUME NEW i \in Of(ar)
      PROVE  \E k \in Of(ar) : /\ Name[results[k].scen] = Name[results[i].scen]
                               /\ ResultForScenario(ar, Name[results[i].scen]) = Result(results[k].passing)
  BY <1>2, LookupFinds
<1>5. Verdict(ar) = IF steps = {} THEN "NotRun" ELSE Result("Failed" \notin steps)
  BY DEF Verdict
<1>6. steps = {} <=> Scenes(ar) = {}
  BY <1>3
<1>7. \A ok \in BOOLEAN : Result(ok) = IF ok THEN "Passed" ELSE "Failed"
  BY DEF Result
<1>8. Verdict(ar) = "NotRun" <=> Scenes(ar) = {}
  BY <1>5, <1>6 DEF Result
<1>9. ASSUME Verdict(ar) = "Failed"
      PROVE  bad # {}
  <2>1. "Failed" \in steps
    BY <1>5, <1>9 DEF Result
  <2>2. PICK i \in Of(ar) : ResultForScenario(ar, Name[results[i].scen]) = "Failed"
    BY <2>1
  <2>3. PICK k \in Of(ar) : Result(results[k].passing) = "Failed"
    BY <1>4, <2>2
  <2>4. ~results[k].passing
    BY <2>3 DEF Result
  <2> QED
    BY <1>1, <1>3, <2>4
<1>10. ASSUME \A i, j \in Scenes(ar) : Name[ran[i].scen] = Name[ran[j].scen] => i = j,
              bad # {}
       PROVE  Verdict(ar) = "Failed"
  <2>1. PICK i \in Of(ar) : ~results[i].passing
    BY <1>1, <1>3, <1>10
  <2>2. PICK k \in Of(ar) : /\ Name[results[k].scen] = Name[results[i].scen]
                            /\ ResultForScenario(ar, Name[results[i].scen]) = Result(results[k].passing)
    BY <1>4
  <2>3. Name[ran[k].scen] = Name[ran[i].scen]
    BY <1>1, <1>3, <2>2
  <2>4. k = i
    BY <1>3, <1>10, <2>3
  <2>5. ResultForScenario(ar, Name[results[i].scen]) = "Failed"
    BY <2>1, <2>2, <2>4 DEF Result
  <2>6. "Failed" \in steps
    BY <2>5
  <2> QED
    BY <1>5, <2>6 DEF Result
<1> QED
  BY <1>8, <1>9, <1>10

-----------------------------------------------------------------------------
(* What has run and what is still to run.                                  *)

(* Recording a step changes no scenario's name or resource.                *)
LEMMA RecordKeepsScenes ==
  ASSUME ran \in Seq(RanSet), ran # << >>,
         NEW ok \in BOOLEAN, NEW made \in Nat, Record(ok, made)
  PROVE  /\ DOMAIN ran' = DOMAIN ran
         /\ \A i \in DOMAIN ran : ran'[i].res = ran[i].res /\ ran'[i].scen = ran[i].scen
<1>1. DOMAIN ran = 1..Len(ran)
  OBVIOUS
<1> QED
  BY <1>1, RecordChanges

(* Starting a scenario moves it from the queue to the history.             *)
LEMMA StartMoves ==
  ASSUME ProcessTypes, ScenarioStarts
  PROVE  LET new == [res |-> res, scen |-> Head(queue), ok |-> TRUE, attached |-> 0] IN
         /\ Len(ran) \in Nat /\ Len(queue) \in Nat \ {0}
         /\ DOMAIN ran = 1..Len(ran) /\ DOMAIN ran' = 1..(Len(ran) + 1)
         /\ \A i \in 1..Len(ran) : ran'[i] = ran[i]
         /\ ran'[Len(ran) + 1] = new /\ new \in RanSet /\ Head(queue) = queue[1]
         /\ ran' = Append(ran, new) /\ ran' \in Seq(RanSet) /\ Len(ran') = Len(ran) + 1
         /\ DOMAIN queue = 1..Len(queue) /\ DOMAIN queue' = 1..(Len(queue) - 1)
         /\ \A j \in DOMAIN queue' : queue'[j] = queue[j + 1]
<1> DEFINE new == [res |-> res, scen |-> Head(queue), ok |-> TRUE, attached |-> 0]
<1>1. /\ ran \in Seq(RanSet) /\ queue \in Seq(Scenarios) /\ queue # << >>
      /\ res \in Resources /\ queue' = Tail(queue) /\ ran' = Append(ran, new)
  BY DEF ProcessTypes, ScenarioStarts
<1>2. /\ Len(queue) \in Nat \ {0} /\ Head(queue) = queue[1] /\ Head(queue) \in Scenarios
      /\ DOMAIN queue = 1..Len(queue) /\ DOMAIN queue' = 1..(Len(queue) - 1)
      /\ \A j \in DOMAIN queue' : queue'[j] = queue[j + 1]
  BY <1>1
<1>3. new \in RanSet
  BY <1>1, <1>2 DEF RanSet
<1> HIDE DEF new
<1>4. /\ Len(ran) \in Nat /\ DOMAIN ran = 1..Len(ran) /\ DOMAIN ran' = 1..(Len(ran) + 1)
      /\ \A i \in 1..Len(ran) : ran'[i] = ran[i]
      /\ ran'[Len(ran) + 1] = new /\ ran' \in Seq(RanSet) /\ Len(ran') = Len(ran) + 1
  BY <1>1, <1>3
<1> QED
  BY <1>1, <1>2, <1>3, <1>4 DEF new

(* A step that leaves the history, the queue and the resource alone.       *)
LEMMA QuietKeepsOnceEach ==
  ASSUME OnceEach, UNCHANGED <<queue, res>>, todo' \subseteq todo,
         DOMAIN ran' = DOMAIN ran,
         \A i \in DOMAIN ran : ran'[i].res = ran[i].res /\ ran'[i].scen = ran[i].scen,
         phase' = "suite" => phase = "suite"
  PROVE  OnceEach'
BY DEF OnceEach

(* No step tests a resource twice or runs a scenario twice in a suite.     *)
LEMMA StepKeepsOnceEach ==
  ASSUME ProcessTypes, Places, OnceEach, [Next]_vars
  PROVE  OnceEach'
<1>0. ran \in Seq(RanSet)
  BY DEF ProcessTypes
<1>1. CASE Run
  BY <1>1, ComplianceAssumption DEF Run, Start, OnceEach
<1>2. CASE RunIsFatal \/ Killed \/ Finish \/ UNCHANGED vars \/ StepPasses \/ StepSkipped \/ SuiteEnds
  BY <1>2, QuietKeepsOnceEach DEF RunIsFatal, Killed, Finish, vars, progress, StepPasses,
     StepSkipped, SuiteEnds
<1>3. ASSUME NEW r \in Resources, ResourceHasNoDirectory(r) \/ ResourceSkipped(r)
      PROVE  OnceEach'
  BY <1>3, QuietKeepsOnceEach DEF ResourceHasNoDirectory, ResourceSkipped
<1>4. ASSUME NEW r \in Resources, SuiteBegins(r)
      PROVE  OnceEach'
  <2>1. /\ phase' = "suite" /\ r \in todo /\ todo' = todo \ {r} /\ res' = r
        /\ queue' = Plan[r] /\ ran' = ran
    BY <1>4 DEF SuiteBegins
  <2>2. \A i \in DOMAIN ran : ran[i].res # r /\ ran[i].res \notin todo
    BY <2>1 DEF OnceEach
  <2>3. \A i, j \in DOMAIN Plan[r] : Plan[r][i] = Plan[r][j] => i = j
    BY ComplianceAssumption
  <2> QED
    BY <2>1, <2>2, <2>3 DEF OnceEach
<1>5. CASE ScenarioStarts
  <2> DEFINE n == Len(ran)
             new == [res |-> res, scen |-> Head(queue), ok |-> TRUE, attached |-> 0]
  <2>1. phase = "suite" /\ phase' = "suite" /\ todo' = todo /\ res' = res
    BY <1>5 DEF ScenarioStarts
  <2>2. /\ n \in Nat /\ Len(queue) \in Nat \ {0}
        /\ DOMAIN ran = 1..n /\ DOMAIN ran' = 1..(n + 1)
        /\ \A i \in 1..n : ran'[i] = ran[i]
        /\ ran'[n + 1] = new /\ new.res = res /\ new.scen = queue[1]
        /\ DOMAIN queue = 1..Len(queue) /\ DOMAIN queue' = 1..(Len(queue) - 1)
        /\ \A j \in DOMAIN queue' : queue'[j] = queue[j + 1]
    BY <1>5, StartMoves
  <2> HIDE DEF n, new
  <2>3. \A i \in DOMAIN ran' : i \in DOMAIN ran \/ i = n + 1
    BY <2>2
  <2>4. \A j \in DOMAIN queue' : j + 1 \in DOMAIN queue /\ j + 1 # 1
    BY <2>2
  <2>5. 1 \in DOMAIN queue
    BY <2>2
  <2>6. \A i \in DOMAIN ran : ran[i].res = res => ran[i].scen # queue[1]
    BY <2>5 DEF OnceEach
  <2>7. \A i \in DOMAIN ran' : ran'[i].res \notin todo'
    BY <2>1, <2>2, <2>3 DEF OnceEach
  <2>8. \A i, j \in DOMAIN queue' : queue'[i] = queue'[j] => i = j
    <3>1. ASSUME NEW i \in DOMAIN queue', NEW j \in DOMAIN queue', queue'[i] = queue'[j]
          PROVE  i = j
      <4>1. i + 1 = j + 1
        BY <2>2, <2>4, <3>1 DEF OnceEach
      <4>2. i \in Nat /\ j \in Nat
        BY <2>2
      <4> QED
        BY <4>1, <4>2
    <3> QED
      BY <3>1
  <2>9. ASSUME NEW i \in DOMAIN ran', ran'[i].res = res'
        PROVE  /\ \A j \in DOMAIN queue' : ran'[i].scen # queue'[j]
               /\ \A j \in DOMAIN ran' : ran'[j].res = res' /\ ran'[i].scen = ran'[j].scen => i = j
    <3>1. CASE i \in DOMAIN ran
      BY <2>1, <2>2, <2>3, <2>4, <2>6, <2>9, <3>1 DEF OnceEach
    <3>2. CASE i = n + 1
      <4>1. \A j \in DOMAIN queue' : queue[1] # queue[j + 1]
        BY <2>4, <2>5 DEF OnceEach
      <4>2. ran'[i].scen = queue[1]
        BY <2>2, <3>2
      <4>3. \A j \in DOMAIN queue' : ran'[i].scen # queue'[j]
        BY <2>2, <4>1, <4>2
      <4>4. \A j \in DOMAIN ran' : ran'[j].res = res' /\ ran'[i].scen = ran'[j].scen => i = j
        BY <2>1, <2>2, <2>3, <2>6, <3>2, <4>2
      <4> QED
        BY <4>3, <4>4
    <3> QED
      BY <2>3, <3>1, <3>2
  <2> QED
    BY <2>1, <2>7, <2>8, <2>9, Zenon DEF OnceEach
<1>6. CASE StepAttaches
  <2>1. ran # << >> /\ Record(TRUE, 1) /\ UNCHANGED <<queue, res, todo, phase>>
    BY <1>6 DEF StepAttaches, Places
  <2> QED
    BY <1>0, <2>1, RecordKeepsScenes, QuietKeepsOnceEach
<1>7. CASE StepFails
  <2>1. ran # << >> /\ Record(FALSE, 0) /\ UNCHANGED <<queue, res, todo, phase>>
    BY <1>7 DEF StepFails, Places
  <2> QED
    BY <1>0, <2>1, RecordKeepsScenes, QuietKeepsOnceEach
<1> QED
  BY <1>1, <1>2, <1>3, <1>4, <1>5, <1>6, <1>7 DEF Next, Resource, Scenario

-----------------------------------------------------------------------------
(* Findings.                                                               *)

(* A list with one more element at its end.                                *)
LEMMA OneMore ==
  ASSUME NEW S, NEW m \in Nat, NEW list \in [1..(m + 1) -> S]
  PROVE  [i \in 1..m |-> list[i]] \o <<list[m + 1]>> = list
<1> DEFINE front == [i \in 1..m |-> list[i]]
<1>1. front \in Seq(S) /\ Len(front) = m /\ \A i \in 1..m : front[i] = list[i]
  OBVIOUS
<1>2. list \in Seq(S) /\ Len(list) = m + 1 /\ list[m + 1] \in S
  OBVIOUS
<1> HIDE DEF front
<1>3. /\ front \o <<list[m + 1]>> \in Seq(S) /\ Len(front \o <<list[m + 1]>>) = m + 1
      /\ \A i \in 1..m : (front \o <<list[m + 1]>>)[i] = list[i]
      /\ (front \o <<list[m + 1]>>)[m + 1] = list[m + 1]
  BY <1>1, <1>2
<1>4. front \o <<list[m + 1]>> = list
  BY <1>2, <1>3
<1> QED
  BY <1>4 DEF front

(* Registering keeps the first resource of a name, and adds only r.        *)
LEMMA RegisteredIs ==
  ASSUME registered \in [ReportNames -> Resources \cup {Nobody}], NEW r \in Resources, Registers(r)
  PROVE  /\ registered' \in [ReportNames -> Resources \cup {Nobody}]
         /\ registered'[Report[r]] # Nobody
         /\ \A n \in ReportNames :
              \/ registered'[n] = registered[n]
              \/ registered[n] = Nobody /\ registered'[n] = r /\ n = Report[r]
<1>1. Report[r] \in ReportNames /\ r # Nobody
  BY ComplianceAssumption DEF ReportNames
<1> QED
  BY <1>1 DEF Registers

(* The formatters of the last suite are those of a resource with the name  *)
(* of its report.                                                          *)
LEMMA ProviderIs ==
  ASSUME ProcessTypes, Registered
  PROVE  /\ res \in Resources => /\ Provider \in Resources
                                 /\ Report[Provider] = Report[res] /\ Provider \notin todo
                                 /\ registered[Report[Provider]] = Provider
         /\ ran # << >> => res \in Resources
<1>1. Nobody \notin Resources
  BY ComplianceAssumption
<1>2. ASSUME res \in Resources
      PROVE  /\ Provider \in Resources
             /\ Report[Provider] = Report[res] /\ Provider \notin todo
             /\ registered[Report[Provider]] = Provider
  <2>1. Report[res] \in ReportNames
    BY <1>2 DEF ReportNames
  <2>2. Provider # Nobody
    BY <1>1, <1>2 DEF Registered
  <2> QED
    BY <2>1, <2>2 DEF Registered, Provider
<1>3. ran # << >> => res \in Resources
  BY DEF Registered, ProcessTypes
<1> QED
  BY <1>2, <1>3

(* A skipped resource takes no name from the last suite's formatters.      *)
LEMMA SkippedKeepsProvider ==
  ASSUME Registered, res \in Resources, NEW r \in Resources, Registers(r), res' = res
  PROVE  Provider' = Provider
<1>1. Report[res] \in ReportNames
  BY DEF ReportNames
<1>2. registered[Report[res]] # Nobody
  BY ComplianceAssumption DEF Registered, Provider
<1>3. registered'[Report[res]] = registered[Report[res]]
  BY <1>1, <1>2, RegisteredIs DEF Registered
<1> QED
  BY <1>3 DEF Provider

(* A step that leaves the registered formatters, the resource and what it  *)
(* reported alone.                                                         *)
LEMMA QuietKeepsRegistered ==
  ASSUME Registered, UNCHANGED <<registered, res>>, todo' \subseteq todo,
         res = Nobody => UNCHANGED <<ran, ocsf, html>>
  PROVE  Registered'
BY DEF Registered, Provider

(* No step gives a report name to a resource that does not have it.        *)
LEMMA StepKeepsRegistered ==
  ASSUME ProcessTypes, OnceEach, Registered, [Next]_vars
  PROVE  Registered'
<1>0. Nobody \notin Resources
  BY ComplianceAssumption
<1>1. CASE Run
  <2>1. /\ registered' = [n \in ReportNames |-> Nobody] /\ res' = Nobody /\ ran' = << >>
        /\ ocsf' = NewCollector /\ html' = [body |-> << >>, opened |-> << >>]
    BY <1>1 DEF Run, Start, NewReporters
  <2>2. NewCollector' = NewCollector
    BY DEF NewCollector
  <2>3. registered' \in [ReportNames -> Resources \cup {Nobody}] /\ \A n \in ReportNames : registered'[n] = Nobody
    BY <2>1
  <2> QED
    BY <2>1, <2>2, <2>3 DEF Registered
<1>2. CASE RunIsFatal \/ Killed \/ Finish \/ UNCHANGED vars
  <2>1. UNCHANGED <<registered, res, todo, ran, ocsf, html>>
    BY <1>2 DEF RunIsFatal, Killed, Finish, vars, progress, reporters
  <2> QED
    BY <2>1, QuietKeepsRegistered
<1>3. CASE Scenario
  <2>1. UNCHANGED <<registered, res, todo>> /\ phase = "suite"
    BY <1>3 DEF Scenario, ScenarioStarts, StepPasses, StepAttaches, StepFails, StepSkipped,
         SuiteEnds, reporters
  <2> QED
    BY <1>0, <2>1, QuietKeepsRegistered DEF ProcessTypes
<1>4. ASSUME NEW r \in Resources, ResourceHasNoDirectory(r)
      PROVE  Registered'
  <2>1. UNCHANGED <<registered, res, ran, ocsf, html>> /\ todo' \subseteq todo
    BY <1>4 DEF ResourceHasNoDirectory, reporters
  <2> QED
    BY <2>1, QuietKeepsRegistered
<1>5. ASSUME NEW r \in Resources, ResourceSkipped(r) \/ SuiteBegins(r)
      PROVE  Registered'
  <2>1. Registers(r) /\ r \in todo /\ todo' = todo \ {r}
    BY <1>5 DEF ResourceSkipped, SuiteBegins
  <2>2. /\ registered' \in [ReportNames -> Resources \cup {Nobody}]
        /\ registered'[Report[r]] # Nobody
        /\ \A n \in ReportNames :
             \/ registered'[n] = registered[n]
             \/ registered'[n] = r /\ n = Report[r]
    BY <2>1, RegisteredIs DEF Registered
  <2>3. \A n \in ReportNames : registered'[n] # Nobody =>
          Report[registered'[n]] = n /\ registered'[n] \notin todo'
    BY <2>1, <2>2 DEF Registered
  <2>4. CASE SuiteBegins(r)
    <3>1. res' = r
      BY <2>4 DEF SuiteBegins
    <3> QED
      BY <1>0, <2>2, <2>3, <3>1 DEF Registered, Provider
  <2>5. CASE ResourceSkipped(r)
    <3>1. UNCHANGED <<res, ran, ocsf, html>>
      BY <2>5 DEF ResourceSkipped
    <3>2. res # Nobody => Provider' # Nobody
      BY <2>1, <3>1, SkippedKeepsProvider DEF Registered, ProcessTypes
    <3> QED
      BY <2>2, <2>3, <3>1, <3>2 DEF Registered, NewCollector
  <2> QED
    BY <1>5, <2>4, <2>5
<1> QED
  BY <1>1, <1>2, <1>3, <1>4, <1>5 DEF Next, Resource

(* A finding has the type the report lists.                                *)
LEMMA FindingType ==
  ASSUME NEW e \in RanSet, NEW w \in Resources, NEW n
  PROVE  FindingOf(e, w, n) \in FoundSet(n)
<1>1. Outcome(e) \in ResultSet
  BY OutcomeType DEF RanSet
<1>2. Outcome(e).passing \in BOOLEAN
  BY <1>1 DEF ResultSet
<1> QED
  BY <1>2 DEF FindingOf, FoundSet, RanSet, CodeSet

(* So has the list of findings a report should have.                       *)
LEMMA FindingsType ==
  ASSUME NEW h \in Seq(RanSet), NEW b \in 0..Len(h), NEW w, NEW n,
         h # << >> => w \in Resources
  PROVE  /\ Len(h) - b \in Nat
         /\ FindingsOf(h, b, w, n) \in [1..(Len(h) - b) -> FoundSet(n)]
         /\ FindingsOf(h, b, w, n) \in Seq(FoundSet(n))
         /\ Len(FindingsOf(h, b, w, n)) = Len(h) - b
<1>1. Len(h) \in Nat /\ b \in Nat /\ Len(h) - b \in Nat
  OBVIOUS
<1>2. \A i \in 1..(Len(h) - b) : h[b + i] \in RanSet /\ w \in Resources
  BY <1>1
<1>3. FindingsOf(h, b, w, n) \in [1..(Len(h) - b) -> FoundSet(n)]
  BY <1>2, FindingType DEF FindingsOf
<1> QED
  BY <1>1, <1>3

(* A badge decides on the finding of an open scenario as it does on the    *)
(* outcome: finalizeResult and applyExclusionStatusOverride agree.         *)
LEMMA FinalCodeIs ==
  ASSUME NEW e \in RanSet, NEW entry,
         entry.scen = e.scen, entry.code = (IF e.ok THEN "PASS" ELSE "FAIL")
  PROVE  Finding(entry) = FindingOf(e, Provider, runs)
<1>1. e.scen \in Scenarios /\ e.ok \in BOOLEAN
  BY DEF RanSet
<1>2. Badge[e.scen] \in {"none", "NotTested", "NotTestable", "Duplicate"}
  BY <1>1, ComplianceAssumption DEF Badges
<1>3. FinalCode(entry) = IF Passing(e.scen, e.ok) THEN "PASS" ELSE "FAIL"
  BY <1>1, <1>2 DEF FinalCode, Passing
<1>4. Outcome(e).passing = Passing(e.scen, e.ok)
  BY DEF Outcome
<1> QED
  BY <1>3, <1>4 DEF Finding, FindingOf

(* The findings, were the open scenario finished now.                      *)
LEMMA FindingsNowAre ==
  ASSUME ProcessTypes, Registered, NEW b \in 0..Len(ran),
         \A i \in (b + 1)..Len(ran) : ran[i].res = res,
         FindingsSettled(ocsf, ran, b, Provider, runs) \/ FindingsTrailing(ocsf, ran, b, Provider, runs)
  PROVE  FindingsNow = FindingsOf(ran, b, Provider, runs)
<1>0. ran \in Seq(RanSet) /\ (ran # << >> => Provider \in Resources)
  BY ProviderIs DEF ProcessTypes
<1> DEFINE list == FindingsOf(ran, b, Provider, runs)
<1>1. CASE FindingsSettled(ocsf, ran, b, Provider, runs)
  BY <1>0, <1>1, FindingsType DEF FindingsSettled, FindingsNow
<1>2. CASE FindingsTrailing(ocsf, ran, b, Provider, runs)
  <2> DEFINE m == Len(ran) - b - 1
             last == ran[Len(ran)]
  <2>1. m \in Nat /\ m + 1 = Len(ran) - b /\ b + (m + 1) = Len(ran)
    BY <1>0, <1>2 DEF FindingsTrailing
  <2>2. last \in RanSet /\ last.res = res
    BY <1>0, <1>2 DEF FindingsTrailing
  <2>3. list \in [1..(m + 1) -> FoundSet(runs)]
    BY <1>0, <2>1, FindingsType
  <2>4. /\ ocsf.results = [i \in 1..m |-> FindingOf(ran[b + i], Provider, runs)]
        /\ ocsf.current = <<[scen |-> last.scen, code |-> IF last.ok THEN "PASS" ELSE "FAIL"]>>
    BY <1>2 DEF FindingsTrailing
  <2>5. ocsf.results = [i \in 1..m |-> list[i]]
    <3>1. \A i \in 1..m : list[i] = FindingOf(ran[b + i], Provider, runs)
      BY <2>1 DEF FindingsOf
    <3> QED
      BY <2>4, <3>1
  <2>6. list[m + 1] = FindingOf(last, Provider, runs)
    BY <2>1 DEF FindingsOf
  <2>7. Finding(ocsf.current[1]) = FindingOf(last, Provider, runs)
    <3>1. /\ ocsf.current[1].scen = last.scen
          /\ ocsf.current[1].code = IF last.ok THEN "PASS" ELSE "FAIL"
      BY <2>4
    <3> QED
      BY <2>2, <3>1, FinalCodeIs
  <2>8. FindingsNow = ocsf.results \o <<Finding(ocsf.current[1])>>
    <3>1. ocsf.current # << >>
      BY <2>4
    <3> QED
      BY <3>1 DEF FindingsNow
  <2> HIDE DEF list, last, m
  <2> QED
    BY <2>1, <2>3, <2>5, <2>6, <2>7, <2>8, OneMore DEF list
<1> QED
  BY <1>1, <1>2

(* The report reads names, resources and outcomes of the history only.     *)
LEMMA SameFindings ==
  ASSUME NEW h, NEW g, Len(g) = Len(h), Len(h) \in Nat,
         \A i \in 1..Len(h) : g[i].res = h[i].res /\ g[i].scen = h[i].scen /\ g[i].ok = h[i].ok,
         NEW f, NEW r, NEW w, NEW n, FindingsHold(f, h, r, w, n)
  PROVE  FindingsHold(f, g, r, w, n)
<1>1. PICK b \in 0..Len(h) :
        /\ \A i \in 1..b : h[i].res # r
        /\ \A i \in (b + 1)..Len(h) : h[i].res = r
        /\ FindingsSettled(f, h, b, w, n) \/ FindingsTrailing(f, h, b, w, n)
  BY DEF FindingsHold
<1>2. \A i \in 1..Len(h) : FindingOf(g[i], w, n) = FindingOf(h[i], w, n)
  BY DEF FindingOf, Outcome
<1>3. \A i \in 1..(Len(h) - b) : b + i \in 1..Len(h)
  OBVIOUS
<1>4. CASE FindingsSettled(f, h, b, w, n)
  <2>1. FindingsOf(g, b, w, n) = FindingsOf(h, b, w, n)
    BY <1>2, <1>3 DEF FindingsOf
  <2>2. FindingsSettled(f, g, b, w, n)
    BY <1>4, <2>1 DEF FindingsSettled
  <2> QED
    BY <1>1, <2>2 DEF FindingsHold
<1>5. CASE FindingsTrailing(f, h, b, w, n)
  <2>1. [i \in 1..(Len(h) - b - 1) |-> FindingOf(h[b + i], w, n)]
          = [i \in 1..(Len(g) - b - 1) |-> FindingOf(g[b + i], w, n)]
    BY <1>2, <1>3
  <2>2. b < Len(h) /\ Len(h) \in 1..Len(h)
    BY <1>5 DEF FindingsTrailing
  <2>3. FindingsTrailing(f, g, b, w, n)
    BY <1>5, <2>1, <2>2 DEF FindingsTrailing
  <2> QED
    BY <1>1, <2>3 DEF FindingsHold
<1> QED
  BY <1>1, <1>4, <1>5

(* When a scenario starts, all before it are finished and it is open.      *)
LEMMA FindingsStart ==
  ASSUME NEW h \in Seq(RanSet), NEW new \in RanSet, new.ok = TRUE, NEW w, NEW n,
         NEW b \in 0..Len(h),
         \A i \in 1..b : h[i].res # new.res,
         \A i \in (b + 1)..Len(h) : h[i].res = new.res,
         NEW f, f.results = FindingsOf(h, b, w, n),
         f.current = <<[scen |-> new.scen, code |-> "PASS"]>>
  PROVE  FindingsHold(f, Append(h, new), new.res, w, n)
<1> DEFINE g == Append(h, new)
<1>1. /\ Len(h) \in Nat /\ Len(g) = Len(h) + 1 /\ g[Len(g)] = new
      /\ \A i \in 1..Len(h) : g[i] = h[i]
  OBVIOUS
<1> HIDE DEF g
<1>2. b \in 0..Len(g) /\ b < Len(g) /\ Len(g) - b - 1 = Len(h) - b
  BY <1>1
<1>3. \A i \in 1..b : g[i].res # new.res
  BY <1>1
<1>4. \A i \in (b + 1)..Len(g) : g[i].res = new.res
  BY <1>1
<1>5. f.results = [i \in 1..(Len(g) - b - 1) |-> FindingOf(g[b + i], w, n)]
  <2>1. \A i \in 1..(Len(h) - b) : g[b + i] = h[b + i]
    BY <1>1
  <2> QED
    BY <1>2, <2>1 DEF FindingsOf
<1>6. FindingsTrailing(f, g, b, w, n)
  BY <1>1, <1>2, <1>5 DEF FindingsTrailing
<1> QED
  BY <1>2, <1>3, <1>4, <1>6 DEF FindingsHold, g

(* A failed step marks the open finding as it marks the history.           *)
LEMMA FindingsFail ==
  ASSUME NEW h \in Seq(RanSet), NEW g \in Seq(RanSet), Len(g) = Len(h),
         \A i \in 1..Len(h) : i # Len(h) => g[i] = h[i],
         g[Len(h)].scen = h[Len(h)].scen, g[Len(h)].res = h[Len(h)].res,
         g[Len(h)].ok = FALSE,
         NEW f, f.current # << >>, NEW r, NEW w, NEW n, FindingsHold(f, h, r, w, n),
         NEW e, e.results = f.results,
         e.current = <<[scen |-> f.current[1].scen, code |-> "FAIL"]>>
  PROVE  FindingsHold(e, g, r, w, n)
<1>1. PICK b \in 0..Len(h) :
        /\ \A i \in 1..b : h[i].res # r
        /\ \A i \in (b + 1)..Len(h) : h[i].res = r
        /\ FindingsSettled(f, h, b, w, n) \/ FindingsTrailing(f, h, b, w, n)
  BY DEF FindingsHold
<1>2. FindingsTrailing(f, h, b, w, n)
  BY <1>1 DEF FindingsSettled
<1>3. Len(h) \in Nat /\ b < Len(h) /\ f.current[1].scen = h[Len(h)].scen
  BY <1>2 DEF FindingsTrailing
<1>4. \A i \in 1..Len(h) : g[i].res = h[i].res
  BY <1>3
<1>5. e.current = <<[scen |-> g[Len(g)].scen,
                     code |-> IF g[Len(g)].ok THEN "PASS" ELSE "FAIL"]>>
  BY <1>3
<1>6. e.results = [i \in 1..(Len(g) - b - 1) |-> FindingOf(g[b + i], w, n)]
  <2>1. \A i \in 1..(Len(h) - b - 1) : g[b + i] = h[b + i]
    BY <1>3
  <2>2. f.results = [i \in 1..(Len(h) - b - 1) |-> FindingOf(h[b + i], w, n)]
    BY <1>2 DEF FindingsTrailing
  <2> QED
    BY <2>1, <2>2
<1>7. FindingsTrailing(e, g, b, w, n)
  BY <1>3, <1>5, <1>6 DEF FindingsTrailing
<1>8. /\ b \in 0..Len(g)
      /\ \A i \in 1..b : g[i].res # r
      /\ \A i \in (b + 1)..Len(g) : g[i].res = r
  BY <1>1, <1>3, <1>4
<1> QED
  BY <1>7, <1>8 DEF FindingsHold

(* A step after which the report and what it reads of the history are as   *)
(* they were.                                                              *)
LEMMA QuietKeepsFindings ==
  ASSUME FindingsInv, UNCHANGED <<ocsf, ran, res, runs, registered>>,
         phase' = "suite" /\ left' > 0 => phase = "suite" /\ left > 0
  PROVE  FindingsInv'
BY DEF FindingsInv, Provider

(* A failed or skipped step gives the open finding a code.                 *)
LEMMA CodedIs ==
  ASSUME ocsf = [results |-> ocsf.results, current |-> ocsf.current], ocsf.current # << >>,
         NEW code, ocsf' = OcsfCoded(code)
  PROVE  /\ ocsf' = [results |-> ocsf'.results, current |-> ocsf'.current]
         /\ ocsf'.results = ocsf.results /\ ocsf'.current # << >>
         /\ ocsf'.current = <<[scen |-> ocsf.current[1].scen, code |-> code]>>
<1> DEFINE new == <<[scen |-> ocsf.current[1].scen, code |-> code]>>
           a == ocsf.results
           b == ocsf.current
<1>1. ocsf' = [ocsf EXCEPT !.current = new] /\ ocsf = [results |-> a, current |-> b]
  BY DEF OcsfCoded
<1>2. new # << >>
  OBVIOUS
<1> HIDE DEF new, a, b
<1>3. ocsf' = [results |-> a, current |-> new]
  BY <1>1
<1>4. ocsf'.results = a /\ ocsf'.current = new
  BY <1>3
<1> QED
  BY <1>2, <1>3, <1>4 DEF new, a

(* A report of nothing, when nothing ran.                                  *)
LEMMA NothingFound ==
  ASSUME NEW f, f = [results |-> << >>, current |-> << >>], NEW r, NEW w, NEW n
  PROVE  FindingsHold(f, << >>, r, w, n)
<1>1. FindingsOf(<< >>, 0, w, n) = << >> /\ 0 \in 0..Len(<< >>) /\ Len(<< >>) = 0
  BY DEF FindingsOf
<1>2. FindingsSettled(f, << >>, 0, w, n)
  BY <1>1 DEF FindingsSettled
<1> QED
  BY <1>1, <1>2 DEF FindingsHold

(* No step makes the report of a suite differ from what ran in it.         *)
LEMMA StepKeepsFindings ==
  ASSUME ProcessTypes, Places, OnceEach, Registered, FindingsInv, [Next]_vars
  PROVE  FindingsInv'
<1>0. /\ ran \in Seq(RanSet) /\ FindingsHold(ocsf, ran, res, Provider, runs)
      /\ ocsf = [results |-> ocsf.results, current |-> ocsf.current]
      /\ Len(ran) \in Nat
  BY DEF ProcessTypes, FindingsInv
<1>1. CASE Run
  <2>1. ran' = << >> /\ ocsf' = [results |-> << >>, current |-> << >>] /\ phase' = "resources"
    BY <1>1 DEF Run, Start, NewReporters, NewCollector
  <2> QED
    BY <2>1, NothingFound DEF FindingsInv
<1>2. CASE RunIsFatal \/ Killed \/ Finish \/ UNCHANGED vars \/ StepPasses
  <2>1. /\ UNCHANGED <<ocsf, ran, res, runs, registered>>
        /\ phase' = "suite" /\ left' > 0 => phase = "suite" /\ left > 0
    BY <1>2 DEF RunIsFatal, Killed, Finish, vars, progress, reporters, StepPasses
  <2> QED
    BY <2>1, QuietKeepsFindings
<1>3. ASSUME NEW r \in Resources, ResourceHasNoDirectory(r) \/ ResourceSkipped(r)
      PROVE  FindingsInv'
  <2>1. CASE ResourceHasNoDirectory(r)
    BY <2>1, QuietKeepsFindings DEF ResourceHasNoDirectory, reporters
  <2>2. CASE ResourceSkipped(r)
    <3>1. UNCHANGED <<ocsf, ran, res, runs>> /\ phase' = "resources" /\ Registers(r)
      BY <2>2 DEF ResourceSkipped
    <3>2. FindingsHold(ocsf, ran, res, Provider', runs)
      <4>1. CASE res = Nobody
        BY <4>1, NothingFound DEF Registered, NewCollector
      <4>2. CASE res # Nobody
        BY <1>0, <3>1, <4>2, SkippedKeepsProvider DEF ProcessTypes
      <4> QED
        BY <4>1, <4>2
    <3> QED
      BY <1>0, <3>1, <3>2 DEF FindingsInv
  <2> QED
    BY <1>3, <2>1, <2>2
<1>4. ASSUME NEW r \in Resources, SuiteBegins(r)
      PROVE  FindingsInv'
  <2>1. /\ r \in todo /\ res' = r /\ ran' = ran /\ runs' = runs /\ left' = 0
        /\ ocsf' = [results |-> << >>, current |-> << >>]
    BY <1>4 DEF SuiteBegins, NewReporters, NewCollector
  <2>2. \A i \in 1..Len(ran) : ran[i].res # r
    BY <1>0, <2>1 DEF OnceEach
  <2>3. ASSUME NEW w, NEW n, NEW f, f = [results |-> << >>, current |-> << >>]
        PROVE  FindingsHold(f, ran, r, w, n)
    <3>1. /\ FindingsOf(ran, Len(ran), w, n) = << >> /\ Len(ran) \in 0..Len(ran)
          /\ \A i \in (Len(ran) + 1)..Len(ran) : ran[i].res = r
      BY <1>0 DEF FindingsOf
    <3>2. FindingsSettled(f, ran, Len(ran), w, n)
      BY <2>3, <3>1 DEF FindingsSettled
    <3> QED
      BY <2>2, <3>1, <3>2 DEF FindingsHold
  <2> QED
    BY <2>1, <2>3 DEF FindingsInv
<1>5. CASE ScenarioStarts
  <2> DEFINE new == [res |-> res, scen |-> Head(queue), ok |-> TRUE, attached |-> 0]
  <2>1. /\ new \in RanSet /\ ran' = Append(ran, new) /\ new.res = res
        /\ new.scen = Head(queue) /\ new.ok = TRUE
    BY <1>5, StartMoves
  <2>2. /\ res' = res /\ runs' = runs /\ Provider' = Provider
        /\ ocsf' = [results |-> FindingsNow, current |-> <<[scen |-> Head(queue), code |-> "PASS"]>>]
    BY <1>5 DEF ScenarioStarts, OcsfPickle, Provider
  <2> HIDE DEF new
  <2>3. PICK b \in 0..Len(ran) :
          /\ \A i \in 1..b : ran[i].res # res
          /\ \A i \in (b + 1)..Len(ran) : ran[i].res = res
          /\ FindingsSettled(ocsf, ran, b, Provider, runs) \/ FindingsTrailing(ocsf, ran, b, Provider, runs)
    BY <1>0 DEF FindingsHold
  <2>4. FindingsNow = FindingsOf(ran, b, Provider, runs)
    BY <2>3, FindingsNowAre
  <2>5. FindingsHold(ocsf', Append(ran, new), new.res, Provider, runs)
    BY <1>0, <2>1, <2>2, <2>3, <2>4, FindingsStart
  <2>6. ocsf' = [results |-> ocsf'.results, current |-> ocsf'.current] /\ ocsf'.current # << >>
    BY <2>2
  <2> QED
    BY <2>1, <2>2, <2>5, <2>6 DEF FindingsInv
<1>6. CASE StepAttaches
  <2>1. /\ ran # << >> /\ Record(TRUE, 1) /\ UNCHANGED <<ocsf, res, runs, phase, Provider>>
        /\ phase = "suite" /\ left > 0 /\ Current.ok
    BY <1>6 DEF StepAttaches, Places, Provider
  <2>2. /\ Len(ran') = Len(ran)
        /\ \A i \in 1..Len(ran) : i # Len(ran) => ran'[i] = ran[i]
        /\ ran'[Len(ran)].scen = ran[Len(ran)].scen
        /\ ran'[Len(ran)].res = ran[Len(ran)].res
        /\ ran'[Len(ran)].ok = TRUE /\ ran[Len(ran)].ok = TRUE
    BY <1>0, <2>1, RecordChanges DEF Current, RanSet
  <2>3. \A i \in 1..Len(ran) :
          /\ ran'[i].res = ran[i].res /\ ran'[i].scen = ran[i].scen /\ ran'[i].ok = ran[i].ok
    BY <2>2
  <2>4. FindingsHold(ocsf, ran', res, Provider, runs)
    BY <1>0, <2>2, <2>3, SameFindings
  <2>5. ocsf.current # << >>
    BY <2>1 DEF FindingsInv
  <2> QED
    BY <1>0, <2>1, <2>4, <2>5 DEF FindingsInv
<1>7. CASE StepFails
  <2>1. /\ ran # << >> /\ Record(FALSE, 0) /\ UNCHANGED <<res, runs, phase, Provider>>
        /\ phase = "suite" /\ left > 0 /\ ocsf' = OcsfCoded("FAIL")
    BY <1>7 DEF StepFails, Places, Provider
  <2>2. ocsf.current # << >>
    BY <2>1 DEF FindingsInv
  <2>3. /\ ran' \in Seq(RanSet) /\ Len(ran') = Len(ran)
        /\ \A i \in 1..Len(ran) : i # Len(ran) => ran'[i] = ran[i]
        /\ ran'[Len(ran)].scen = ran[Len(ran)].scen
        /\ ran'[Len(ran)].res = ran[Len(ran)].res
        /\ ran'[Len(ran)].ok = FALSE
    BY <1>0, <2>1, RecordChanges
  <2>4. /\ ocsf' = [results |-> ocsf'.results, current |-> ocsf'.current]
        /\ ocsf'.results = ocsf.results /\ ocsf'.current # << >>
        /\ ocsf'.current = <<[scen |-> ocsf.current[1].scen, code |-> "FAIL"]>>
    BY <1>0, <2>1, <2>2, CodedIs
  <2>5. FindingsHold(ocsf', ran', res, Provider, runs)
    BY <1>0, <2>2, <2>3, <2>4, FindingsFail
  <2> QED
    BY <2>1, <2>4, <2>5 DEF FindingsInv
<1>8. CASE StepSkipped
  <2>1. /\ ran # << >> /\ UNCHANGED <<ran, res, runs, phase, Provider>>
        /\ phase = "suite" /\ left > 0 /\ ~Current.ok /\ ocsf' = OcsfCoded(SkippedCode)
    BY <1>8 DEF StepSkipped, Places, Provider
  <2>2. ocsf.current # << >>
    BY <2>1 DEF FindingsInv
  <2>3. ran[Len(ran)].ok = FALSE
    BY <1>0, <2>1 DEF Current, RanSet
  <2>4. ocsf.current[1].code = "FAIL"
    BY <1>0, <2>2, <2>3 DEF FindingsHold, FindingsSettled, FindingsTrailing
  <2>5. SkippedCode = "FAIL"
    BY <2>4 DEF SkippedCode
  <2>6. /\ ocsf' = [results |-> ocsf'.results, current |-> ocsf'.current]
        /\ ocsf'.results = ocsf.results /\ ocsf'.current # << >>
        /\ ocsf'.current = <<[scen |-> ocsf.current[1].scen, code |-> "FAIL"]>>
    BY <1>0, <2>1, <2>2, <2>5, CodedIs
  <2>7. FindingsHold(ocsf', ran, res, Provider, runs)
    BY <1>0, <2>2, <2>3, <2>6, FindingsFail
  <2> QED
    BY <2>1, <2>6, <2>7 DEF FindingsInv
<1>9. CASE SuiteEnds
  <2>1. /\ UNCHANGED <<ran, res, runs, Provider>> /\ phase' = "resources"
        /\ ocsf' = [results |-> FindingsNow, current |-> << >>]
    BY <1>9 DEF SuiteEnds, Provider
  <2>2. PICK b \in 0..Len(ran) :
          /\ \A i \in 1..b : ran[i].res # res
          /\ \A i \in (b + 1)..Len(ran) : ran[i].res = res
          /\ FindingsSettled(ocsf, ran, b, Provider, runs) \/ FindingsTrailing(ocsf, ran, b, Provider, runs)
    BY <1>0 DEF FindingsHold
  <2>3. FindingsNow = FindingsOf(ran, b, Provider, runs)
    BY <2>2, FindingsNowAre
  <2>4. FindingsSettled(ocsf', ran, b, Provider, runs)
    BY <2>1, <2>3 DEF FindingsSettled
  <2>5. FindingsHold(ocsf', ran, res, Provider, runs)
    BY <2>2, <2>4 DEF FindingsHold
  <2>6. ocsf' = [results |-> ocsf'.results, current |-> ocsf'.current]
    BY <2>1
  <2> QED
    BY <2>1, <2>5, <2>6 DEF FindingsInv
<1> QED
  BY <1>1, <1>2, <1>3, <1>4, <1>5, <1>6, <1>7, <1>8, <1>9 DEF Next, Resource, Scenario

(* The invariant gives the property the run checks.                        *)
LEMMA FindingsFollow ==
  ASSUME ProcessTypes, Registered, FindingsInv
  PROVE  FindingsAgree
<1>0. /\ ran \in Seq(RanSet) /\ Len(ran) \in Nat /\ DOMAIN ran = 1..Len(ran)
      /\ ran # << >> => res \in Resources /\ Provider \in Resources
                        /\ Report[Provider] = Report[res] /\ Provider \notin todo
  BY ProviderIs DEF ProcessTypes
<1>1. PICK b \in 0..Len(ran) :
        /\ \A i \in 1..b : ran[i].res # res
        /\ \A i \in (b + 1)..Len(ran) : ran[i].res = res
        /\ FindingsSettled(ocsf, ran, b, Provider, runs) \/ FindingsTrailing(ocsf, ran, b, Provider, runs)
  BY DEF FindingsInv, FindingsHold
<1>2. FindingsNow = FindingsOf(ran, b, Provider, runs)
  BY <1>1, FindingsNowAre
<1>3. /\ DOMAIN FindingsNow = 1..(Len(ran) - b) /\ Len(FindingsNow) = Len(ran) - b
      /\ \A i \in 1..(Len(ran) - b) : FindingsNow[i] = FindingOf(ran[b + i], Provider, runs)
  BY <1>0, <1>2, FindingsType DEF FindingsOf
<1>4. Len(ran) - Len(FindingsNow) = b
  BY <1>0, <1>3
<1>5. \A i \in DOMAIN ran : i <= b => ran[i].res # res
  BY <1>0, <1>1
<1>6. ASSUME NEW i \in DOMAIN FindingsNow
      PROVE  /\ FindingsNow[i].scen = ran[b + i].scen
             /\ FindingsNow[i].code = (IF Outcome(ran[b + i]).passing THEN "PASS" ELSE "FAIL")
             /\ Report[FindingsNow[i].res] = Report[ran[b + i].res]
             /\ FindingsNow[i].res \notin todo
  <2>1. FindingsNow[i] = FindingOf(ran[b + i], Provider, runs) /\ b + i \in (b + 1)..Len(ran)
    BY <1>0, <1>3
  <2>2. ran[b + i].res = res /\ ran # << >>
    BY <1>0, <1>1, <2>1
  <2> QED
    BY <1>0, <2>1, <2>2 DEF FindingOf
<1> QED
  BY <1>0, <1>1, <1>4, <1>5, <1>6 DEF FindingsAgree

-----------------------------------------------------------------------------
(* Attachments.                                                            *)

(* An attachment shown: where it is, and which scenario made it.           *)
AttachmentSet == [under : Scenarios, made : Scenarios]

(* Sets of positions of a sequence are finite.                             *)
LEMMA PositionsFinite ==
  ASSUME NEW A, NEW q \in Seq(A), NEW P, P \subseteq DOMAIN q
  PROVE  IsFiniteSet(P) /\ Cardinality(P) \in Nat
<1>1. DOMAIN q = 1..Len(q) /\ Len(q) \in Nat
  OBVIOUS
<1>2. IsFiniteSet(1..Len(q))
  BY <1>1, FS_Interval
<1>3. P \in SUBSET (1..Len(q))
  BY <1>1
<1>4. IsFiniteSet(P)
  BY <1>2, <1>3, FS_Subset
<1> QED
  BY <1>4, FS_CardinalityType

(* The counts of attachments are numbers.                                  *)
LEMMA CountTypes ==
  ASSUME NEW body \in Seq(AttachmentSet), NEW made \in Seq(Scenarios), NEW s
  PROVE  Shown(body, s) \in Nat /\ Pending(made, s) \in Nat
<1>1. {k \in DOMAIN body : body[k].made = s} \subseteq DOMAIN body
  OBVIOUS
<1>2. {k \in DOMAIN made : made[k] = s} \subseteq DOMAIN made
  OBVIOUS
<1> QED
  BY <1>1, <1>2, PositionsFinite DEF Shown, Pending

(* Nothing waits in an empty list.                                         *)
LEMMA NothingPending ==
  ASSUME NEW s
  PROVE  Pending(<< >>, s) = 0
<1>1. {k \in DOMAIN << >> : << >>[k] = s} = {}
  OBVIOUS
<1> QED
  BY <1>1, FS_EmptySet DEF Pending

(* One more attachment waits for the scenario that made it.                *)
LEMMA OneMorePending ==
  ASSUME NEW made \in Seq(Scenarios), NEW x \in Scenarios, NEW s
  PROVE  Pending(Append(made, x), s) = Pending(made, s) + (IF x = s THEN 1 ELSE 0)
<1> DEFINE n == Len(made) + 1
           longer == Append(made, x)
           old == {k \in DOMAIN made : made[k] = s}
           new == {k \in DOMAIN longer : longer[k] = s}
<1>1. /\ Len(made) \in Nat /\ DOMAIN made = 1..Len(made) /\ DOMAIN longer = 1..n
      /\ longer[n] = x /\ \A k \in 1..Len(made) : longer[k] = made[k]
  OBVIOUS
<1>2. IsFiniteSet(old) /\ Cardinality(old) \in Nat
  <2>1. old \subseteq DOMAIN made
    OBVIOUS
  <2> QED
    BY <2>1, PositionsFinite
<1> HIDE DEF longer
<1>3. new = IF x = s THEN old \cup {n} ELSE old
  BY <1>1
<1>4. n \notin old
  BY <1>1
<1> HIDE DEF old, new, n
<1>5. Cardinality(old \cup {n}) = Cardinality(old) + 1
  BY <1>2, <1>4, FS_AddElement
<1>6. Cardinality(new) = Cardinality(old) + (IF x = s THEN 1 ELSE 0)
  BY <1>2, <1>3, <1>5
<1> QED
  BY <1>6 DEF Pending, old, new, longer

(* What is shown by two bodies, one after the other.                       *)
LEMMA ShownJoined ==
  ASSUME NEW a \in Seq(AttachmentSet), NEW b \in Seq(AttachmentSet), NEW s
  PROVE  Shown(a \o b, s) = Shown(a, s) + Shown(b, s)
<1> DEFINE n == Len(a)
           A == {k \in DOMAIN a : a[k].made = s}
           B == {k \in DOMAIN b : b[k].made = s}
           C == {k \in DOMAIN (a \o b) : (a \o b)[k].made = s}
           Moved == {n + k : k \in B}
           move == [k \in B |-> n + k]
<1>1. /\ n \in Nat /\ Len(b) \in Nat /\ DOMAIN a = 1..n /\ DOMAIN b = 1..Len(b)
      /\ DOMAIN (a \o b) = 1..(n + Len(b))
      /\ \A k \in 1..n : (a \o b)[k] = a[k]
      /\ \A k \in 1..Len(b) : (a \o b)[n + k] = b[k]
  OBVIOUS
<1>2. C = A \cup Moved
  <2>1. C \subseteq A \cup Moved
    <3> SUFFICES ASSUME NEW k \in C
                 PROVE  k \in A \cup Moved
      OBVIOUS
    <3>1. k \in 1..(n + Len(b)) /\ (a \o b)[k].made = s
      BY <1>1
    <3>2. CASE k \in 1..n
      BY <1>1, <3>1, <3>2
    <3>3. CASE k \notin 1..n
      <4>1. k - n \in 1..Len(b) /\ k = n + (k - n)
        BY <1>1, <3>1, <3>3
      <4>2. k - n \in B
        BY <1>1, <3>1, <4>1
      <4> QED
        BY <4>1, <4>2
    <3> QED
      BY <3>2, <3>3
  <2>2. A \subseteq C
    BY <1>1
  <2>3. Moved \subseteq C
    <3> SUFFICES ASSUME NEW k \in B
                 PROVE  n + k \in C
      OBVIOUS
    <3>1. k \in 1..Len(b) /\ b[k].made = s /\ n + k \in 1..(n + Len(b))
      BY <1>1
    <3> QED
      BY <1>1, <3>1
  <2> QED
    BY <2>1, <2>2, <2>3
<1>3. /\ IsFiniteSet(A) /\ Cardinality(A) \in Nat
      /\ IsFiniteSet(B) /\ Cardinality(B) \in Nat
  <2>1. A \subseteq DOMAIN a /\ B \subseteq DOMAIN b
    OBVIOUS
  <2> QED
    BY <2>1, PositionsFinite
<1>4. B \subseteq 1..Len(b) /\ A \subseteq 1..n
  BY <1>1
<1> HIDE DEF A, B, C, n
<1>5. A \cap Moved = {}
  <2>1. ASSUME NEW k \in B
        PROVE  n + k \notin 1..n
    <3>1. k \in 1..Len(b) /\ Len(b) \in Nat /\ n \in Nat
      BY <1>1, <1>4
    <3> QED
      BY <3>1
  <2>2. \A m \in Moved : m \notin A
    BY <1>4, <2>1
  <2> QED
    BY <2>2
<1>6. move \in Bijection(B, Moved)
  <2>1. move \in [B -> Moved] /\ \A m \in Moved : \E k \in B : move[k] = m
    OBVIOUS
  <2>2. \A i, j \in B : move[i] = move[j] => i = j
    BY <1>1, <1>4
  <2> QED
    BY <2>1, <2>2 DEF Bijection, Injection, Surjection, IsInjective
<1>7. IsFiniteSet(Moved) /\ Cardinality(Moved) = Cardinality(B)
  <2>1. ExistsBijection(B, Moved)
    BY <1>6 DEF ExistsBijection
  <2> QED
    BY <1>3, <2>1, FS_Bijection
<1> HIDE DEF Moved, move
<1>8. Cardinality(A \cup Moved) = Cardinality(A) + Cardinality(Moved) - Cardinality({})
  BY <1>3, <1>5, <1>7, FS_Union
<1>9. Cardinality(C) = Cardinality(A) + Cardinality(B)
  BY <1>2, <1>3, <1>7, <1>8, FS_EmptySet
<1> QED
  BY <1>9 DEF Shown, A, B, C

(* The body, with what waits for the open scenario added to it.            *)
LEMMA BodyNowIs ==
  ASSUME ran \in Seq(RanSet), html \in PageSet, Provider = res,
         NEW made \in Seq(Scenarios), made = attached[res], PagesHold(html, made, ran, res)
  PROVE  /\ BodyNow \in Seq(AttachmentSet)
         /\ \A k \in DOMAIN BodyNow :
              /\ BodyNow[k].under = BodyNow[k].made
              /\ \E i \in DOMAIN ran : ran[i].res = res /\ ran[i].scen = BodyNow[k].made
         /\ \A s : Shown(BodyNow, s) = Shown(html.body, s) + Pending(made, s)
<1>0. /\ html.body \in Seq(AttachmentSet) /\ made \in Seq(Scenarios)
      /\ \/ html.opened = << >> /\ made = << >>
         \/ /\ ran # << >> /\ ran[Len(ran)].res = res /\ html.opened = <<ran[Len(ran)].scen>>
            /\ \A k \in DOMAIN made : made[k] = ran[Len(ran)].scen
      /\ \A k \in DOMAIN html.body :
           /\ html.body[k].under = html.body[k].made
           /\ \E i \in DOMAIN ran : ran[i].res = res /\ ran[i].scen = html.body[k].made
  BY DEF PagesHold, PageSet, AttachmentSet
<1>1. CASE html.opened = << >>
  <2>1. made = << >> /\ BodyNow = html.body
    BY <1>0, <1>1 DEF BodyNow
  <2>2. \A s : Shown(BodyNow, s) = Shown(html.body, s) + Pending(made, s)
    <3> TAKE s
    <3>1. Pending(made, s) = 0 /\ Shown(html.body, s) \in Nat
      BY <1>0, <2>1, NothingPending, CountTypes
    <3> QED
      BY <2>1, <3>1
  <2> QED
    BY <1>0, <2>1, <2>2
<1>2. CASE html.opened # << >>
  <2> DEFINE cur == ran[Len(ran)].scen
             tail == [i \in DOMAIN made |-> [under |-> html.opened[1], made |-> made[i]]]
             body == html.body
             n == Len(body)
  <2>1. /\ ran # << >> /\ ran[Len(ran)].res = res /\ html.opened[1] = cur
        /\ \A k \in DOMAIN made : made[k] = cur
    BY <1>0, <1>2
  <2>2. Len(ran) \in DOMAIN ran /\ cur \in Scenarios
    <3>1. Len(ran) \in DOMAIN ran /\ ran[Len(ran)] \in RanSet
      BY <2>1
    <3> QED
      BY <3>1 DEF RanSet
  <2>3. /\ DOMAIN tail = DOMAIN made
        /\ \A k \in DOMAIN tail : tail[k] = [under |-> cur, made |-> made[k]] /\ made[k] = cur
    BY <2>1
  <2>4. tail \in Seq(AttachmentSet)
    <3>1. \A k \in DOMAIN made : tail[k] \in AttachmentSet
      BY <2>2, <2>3 DEF AttachmentSet
    <3>2. DOMAIN made = 1..Len(made) /\ Len(made) \in Nat
      BY <1>0
    <3>3. tail \in [1..Len(made) -> AttachmentSet]
      BY <3>1, <3>2
    <3> QED
      BY <3>2, <3>3
  <2>5. BodyNow = body \o tail
    BY <1>2 DEF BodyNow
  <2> HIDE DEF tail, body, cur
  <2>6. /\ n \in Nat /\ DOMAIN body = 1..n
        /\ DOMAIN (body \o tail) = 1..(n + Len(tail))
        /\ Len(tail) \in Nat /\ DOMAIN tail = 1..Len(tail)
        /\ \A k \in 1..n : (body \o tail)[k] = body[k]
        /\ \A k \in 1..Len(tail) : (body \o tail)[n + k] = tail[k]
        /\ body \o tail \in Seq(AttachmentSet)
    BY <1>0, <2>4 DEF body
  <2>7. ASSUME NEW k \in DOMAIN (body \o tail)
        PROVE  /\ (body \o tail)[k].under = (body \o tail)[k].made
               /\ \E i \in DOMAIN ran : ran[i].res = res /\ ran[i].scen = (body \o tail)[k].made
    <3>1. CASE k \in 1..n
      BY <1>0, <2>6, <3>1 DEF body
    <3>2. CASE k \notin 1..n
      <4>1. k - n \in 1..Len(tail) /\ k = n + (k - n)
        BY <2>6, <3>2
      <4>2. (body \o tail)[k] = tail[k - n]
        BY <2>6, <4>1
      <4>3. tail[k - n].under = cur /\ tail[k - n].made = cur
        BY <2>3, <2>6, <4>1
      <4> QED
        BY <2>1, <2>2, <4>2, <4>3 DEF cur
    <3> QED
      BY <3>1, <3>2
  <2>8. \A s : Shown(body \o tail, s) = Shown(body, s) + Pending(made, s)
    <3> TAKE s
    <3>1. {k \in DOMAIN tail : tail[k].made = s} = {k \in DOMAIN made : made[k] = s}
      <4>1. ASSUME NEW k \in DOMAIN tail
            PROVE  tail[k].made = made[k]
        <5>1. tail[k] = [under |-> cur, made |-> made[k]]
          BY <2>3
        <5> QED
          BY <5>1
      <4> QED
        BY <2>3, <4>1
    <3>2. Shown(tail, s) = Pending(made, s)
      BY <3>1 DEF Shown, Pending
    <3>3. body \in Seq(AttachmentSet)
      BY <1>0 DEF body
    <3> QED
      BY <2>4, <3>2, <3>3, ShownJoined
  <2> QED
    BY <2>5, <2>6, <2>7, <2>8 DEF body
<1> QED
  BY <1>1, <1>2

(* A suite whose report an earlier one has named shows nothing: the world  *)
(* its formatter reads has been emptied.                                   *)
LEMMA NothingShown ==
  ASSUME ProcessTypes, Registered, WorldsHold, res \in Resources, Provider # res,
         html.body = << >>
  PROVE  BodyNow = << >> /\ attached[Provider] = << >>
<1>1. attached[Provider] = << >>
  BY ProviderIs DEF WorldsHold
<1>2. html.body \o [i \in DOMAIN << >> |-> [under |-> html.opened[1], made |-> << >>[i]]] = << >>
  OBVIOUS
<1> QED
  BY <1>1, <1>2 DEF BodyNow

(* A step after which the page and the history are as they were.           *)
LEMMA QuietKeepsPages ==
  ASSUME PagesInv, UNCHANGED <<html, attached, ran, res, registered>>, todo' \subseteq todo,
         phase' = "resources" => phase = "resources",
         phase' = "suite" /\ left' > 0 => phase = "suite" /\ left > 0
  PROVE  PagesInv'
<1>1. WorldsHold'
  BY DEF PagesInv, WorldsHold
<1>2. (res \in Resources => PageHolds)'
  BY DEF PagesInv, PageHolds, Provider
<1> QED
  BY <1>1, <1>2 DEF PagesInv

(* A page that is empty, for a resource of which nothing ran.              *)
LEMMA NewPage ==
  ASSUME NEW h, NEW r, \A i \in DOMAIN h : h[i].res # r,
         NEW page, page = [body |-> << >>, opened |-> << >>]
  PROVE  /\ PagesHold(page, << >>, h, r)
         /\ page \in PageSet /\ page.body = << >>
<1>1. page.body = << >> /\ page.opened = << >>
  OBVIOUS
<1>2. page \in PageSet
  BY DEF PageSet
<1> QED
  BY <1>1, <1>2 DEF PagesHold

(* A step recorded in the history without an attachment.                   *)
LEMMA SamePages ==
  ASSUME NEW page, NEW made, NEW h \in Seq(RanSet), h # << >>, NEW g, NEW r,
         DOMAIN g = DOMAIN h, Len(g) = Len(h),
         \A i \in DOMAIN h : /\ g[i].res = h[i].res /\ g[i].scen = h[i].scen
                             /\ g[i].attached = h[i].attached,
         PagesHold(page, made, h, r)
  PROVE  PagesHold(page, made, g, r)
<1>1. Len(h) \in DOMAIN h /\ g # << >>
  <2>1. Len(h) \in DOMAIN h
    OBVIOUS
  <2> QED
    BY <2>1
<1>2. /\ \/ page.opened = << >> /\ made = << >>
         \/ /\ g # << >> /\ g[Len(g)].res = r /\ page.opened = <<g[Len(g)].scen>>
            /\ \A k \in DOMAIN made : made[k] = g[Len(g)].scen
  BY <1>1 DEF PagesHold
<1>3. \A k \in DOMAIN page.body :
        /\ page.body[k].under = page.body[k].made
        /\ \E i \in DOMAIN g : g[i].res = r /\ g[i].scen = page.body[k].made
  BY DEF PagesHold
<1>4. \A i \in DOMAIN g : g[i].res = r =>
        g[i].attached = Shown(page.body, g[i].scen) + Pending(made, g[i].scen)
  BY DEF PagesHold
<1> QED
  BY <1>2, <1>3, <1>4 DEF PagesHold

(* An attachment waits for its scenario, and is counted there only.        *)
LEMMA AttachmentWaits ==
  ASSUME NEW page, page.body \in Seq(AttachmentSet), page.opened # << >>,
         NEW made \in Seq(Scenarios), NEW h \in Seq(RanSet), h # << >>, NEW g, NEW r,
         DOMAIN g = DOMAIN h, Len(g) = Len(h),
         \A i \in DOMAIN h : i # Len(h) => g[i] = h[i],
         g[Len(h)].scen = h[Len(h)].scen, g[Len(h)].res = h[Len(h)].res,
         g[Len(h)].attached = h[Len(h)].attached + 1,
         \A i, j \in DOMAIN h : h[i].res = r /\ h[j].res = r /\ h[i].scen = h[j].scen => i = j,
         PagesHold(page, made, h, r)
  PROVE  PagesHold(page, Append(made, h[Len(h)].scen), g, r)
<1> DEFINE n == Len(h)
           s == h[n].scen
           more == Append(made, s)
<1>1. n \in DOMAIN h /\ h[n] \in RanSet /\ s \in Scenarios
  <2>1. n \in DOMAIN h /\ h[n] \in RanSet
    OBVIOUS
  <2> QED
    BY <2>1 DEF RanSet
<1>2. g # << >>
  BY <1>1
<1>3. h[n].res = r /\ page.opened = <<s>> /\ \A k \in DOMAIN made : made[k] = s
  BY DEF PagesHold
<1>4. \A k \in DOMAIN more : more[k] = s
  <2>1. /\ DOMAIN more = 1..(Len(made) + 1) /\ more[Len(made) + 1] = s /\ Len(made) \in Nat
        /\ DOMAIN made = 1..Len(made) /\ \A k \in 1..Len(made) : more[k] = made[k]
    BY <1>1
  <2> HIDE DEF more
  <2> QED
    BY <1>3, <2>1
<1>5. \A k \in DOMAIN page.body :
        /\ page.body[k].under = page.body[k].made
        /\ \E i \in DOMAIN g : g[i].res = r /\ g[i].scen = page.body[k].made
  <2>1. \A i \in DOMAIN h : g[i].res = h[i].res /\ g[i].scen = h[i].scen
    BY <1>1
  <2> QED
    BY <2>1 DEF PagesHold
<1>6. ASSUME NEW i \in DOMAIN g, g[i].res = r
      PROVE  g[i].attached = Shown(page.body, g[i].scen) + Pending(more, g[i].scen)
  <2>1. /\ Shown(page.body, h[i].scen) \in Nat /\ Pending(made, h[i].scen) \in Nat
        /\ Pending(more, h[i].scen) = Pending(made, h[i].scen) + (IF s = h[i].scen THEN 1 ELSE 0)
    BY <1>1, CountTypes, OneMorePending
  <2>2. h[i].res = r /\ g[i].scen = h[i].scen
    BY <1>1, <1>3, <1>6
  <2>3. h[i].attached = Shown(page.body, h[i].scen) + Pending(made, h[i].scen)
    BY <1>6, <2>2 DEF PagesHold
  <2>4. CASE i = n
    <3>1. g[i].attached = h[i].attached + 1 /\ s = h[i].scen
      BY <2>4
    <3> HIDE DEF more, s, n
    <3> QED
      BY <2>1, <2>2, <2>3, <3>1
  <2>5. CASE i # n
    <3>1. s # h[i].scen
      BY <1>1, <1>3, <1>6, <2>2, <2>5
    <3>2. g[i] = h[i]
      BY <1>6, <2>5
    <3> HIDE DEF more, s, n
    <3> QED
      BY <2>1, <2>3, <3>1, <3>2
  <2> QED
    BY <2>4, <2>5
<1>7. g[Len(g)].res = r /\ page.opened = <<g[Len(g)].scen>> /\ \A k \in DOMAIN more : more[k] = g[Len(g)].scen
  BY <1>3, <1>4
<1> HIDE DEF more
<1>8. PagesHold(page, more, g, r)
  BY <1>2, <1>5, <1>6, <1>7 DEF PagesHold
<1> QED
  BY <1>8 DEF more

(* When a scenario starts, or the suite ends, what waited is in the body.  *)
LEMMA PageTurns ==
  ASSUME ProcessTypes, OnceEach, html \in PageSet, Provider = res,
         NEW made \in Seq(Scenarios), made = attached[res], PagesHold(html, made, ran, res),
         ScenarioStarts
  PROVE  PagesHold(html', << >>, ran', res)
<1> DEFINE n == Len(ran)
           new == [res |-> res, scen |-> Head(queue), ok |-> TRUE, attached |-> 0]
<1>1. /\ n \in Nat /\ DOMAIN ran = 1..n /\ DOMAIN ran' = 1..(n + 1)
      /\ \A i \in 1..n : ran'[i] = ran[i]
      /\ ran'[n + 1] = new /\ Head(queue) = queue[1]
      /\ ran' \in Seq(RanSet) /\ Len(ran') = n + 1
      /\ DOMAIN queue = 1..Len(queue) /\ Len(queue) \in Nat \ {0}
  BY StartMoves
<1>2. new.res = res /\ new.scen = queue[1] /\ new.attached = 0
  BY <1>1
<1> HIDE DEF new
<1>3. ran \in Seq(RanSet)
  BY DEF ProcessTypes
<1>4. /\ BodyNow \in Seq(AttachmentSet)
      /\ \A k \in DOMAIN BodyNow :
           /\ BodyNow[k].under = BodyNow[k].made
           /\ \E i \in DOMAIN ran : ran[i].res = res /\ ran[i].scen = BodyNow[k].made
      /\ \A s : Shown(BodyNow, s) = Shown(html.body, s) + Pending(made, s)
  BY <1>3, BodyNowIs
<1>5. html'.body = BodyNow /\ html'.opened = <<queue[1]>>
  BY <1>1 DEF ScenarioStarts, HtmlPickle
<1> DEFINE body == BodyNow
<1>6. PICK page : page = html' /\ page.body = body /\ page.opened = <<queue[1]>>
  BY <1>5
<1>7. PICK h : h = ran' /\ DOMAIN h = 1..(n + 1) /\ Len(h) = n + 1 /\ h[n + 1] = new
               /\ \A i \in 1..n : h[i] = ran[i]
  BY <1>1
<1>8. h # << >>
  BY <1>1, <1>7
<1>9. \A k \in DOMAIN page.body :
        /\ page.body[k].under = page.body[k].made
        /\ \E i \in DOMAIN h : h[i].res = res /\ h[i].scen = page.body[k].made
  <2>1. \A i \in DOMAIN ran : i \in DOMAIN h /\ h[i] = ran[i]
    BY <1>1, <1>7
  <2> QED
    BY <1>4, <1>6, <2>1
<1>10. ASSUME NEW i \in DOMAIN h, h[i].res = res
       PROVE  h[i].attached = Shown(page.body, h[i].scen) + Pending(<< >>, h[i].scen)
  <2>1. Pending(<< >>, h[i].scen) = 0 /\ Shown(page.body, h[i].scen) \in Nat
    <3>1. page.body \in Seq(AttachmentSet) /\ << >> \in Seq(Scenarios)
      BY <1>4, <1>6
    <3> QED
      BY <3>1, NothingPending, CountTypes
  <2>2. CASE i \in 1..n
    <3>1. h[i] = ran[i] /\ i \in DOMAIN ran
      BY <1>1, <1>7, <2>2
    <3>2. ran[i].attached = Shown(html.body, ran[i].scen) + Pending(made, ran[i].scen)
      BY <1>10, <3>1 DEF PagesHold
    <3>3. ran[i].attached = Shown(page.body, h[i].scen)
      BY <1>4, <1>6, <3>1, <3>2
    <3> QED
      BY <2>1, <3>1, <3>3
  <2>3. CASE i = n + 1
    <3>1. h[i].attached = 0 /\ h[i].scen = queue[1]
      BY <1>2, <1>7, <2>3
    <3>2. \A j \in DOMAIN ran : ran[j].res = res => ran[j].scen # queue[1]
      BY <1>1 DEF OnceEach
    <3>3. {k \in DOMAIN page.body : page.body[k].made = queue[1]} = {}
      BY <1>4, <1>6, <3>2
    <3>4. Shown(page.body, queue[1]) = 0
      BY <3>3, FS_EmptySet DEF Shown
    <3> QED
      BY <2>1, <3>1, <3>4
  <2> QED
    BY <1>7, <2>2, <2>3
<1>11. h[Len(h)].res = res /\ page.opened = <<h[Len(h)].scen>>
  BY <1>2, <1>6, <1>7
<1>12. PagesHold(page, << >>, h, res)
  BY <1>8, <1>9, <1>10, <1>11 DEF PagesHold
<1> QED
  BY <1>6, <1>7, <1>12

(* The suite ends: what waited is in the body.                             *)
LEMMA PageCloses ==
  ASSUME ProcessTypes, html \in PageSet, Provider = res,
         NEW made \in Seq(Scenarios), made = attached[res], PagesHold(html, made, ran, res),
         SuiteEnds
  PROVE  PagesHold(html', << >>, ran, res) /\ html' \in PageSet
<1>0. ran \in Seq(RanSet)
  BY DEF ProcessTypes
<1>1. html' = [html EXCEPT !.body = BodyNow]
  BY DEF SuiteEnds
<1>2. /\ BodyNow \in Seq(AttachmentSet)
      /\ \A k \in DOMAIN BodyNow :
           /\ BodyNow[k].under = BodyNow[k].made
           /\ \E i \in DOMAIN ran : ran[i].res = res /\ ran[i].scen = BodyNow[k].made
      /\ \A s : Shown(BodyNow, s) = Shown(html.body, s) + Pending(made, s)
  BY <1>0, BodyNowIs
<1>3. PICK page, body : page = html' /\ body = BodyNow /\ page = [html EXCEPT !.body = body]
  BY <1>1
<1>4. page.body = body /\ page.opened = html.opened /\ page \in PageSet
  BY <1>2, <1>3 DEF AttachmentSet, PageSet
<1>5. \/ page.opened = << >> /\ << >> = << >>
      \/ /\ ran # << >> /\ ran[Len(ran)].res = res /\ page.opened = <<ran[Len(ran)].scen>>
         /\ \A k \in DOMAIN << >> : << >>[k] = ran[Len(ran)].scen
  BY <1>4 DEF PagesHold
<1>6. ASSUME NEW i \in DOMAIN ran, ran[i].res = res
      PROVE  ran[i].attached = Shown(page.body, ran[i].scen) + Pending(<< >>, ran[i].scen)
  <2>1. ran[i].attached = Shown(html.body, ran[i].scen) + Pending(made, ran[i].scen)
    BY <1>6 DEF PagesHold
  <2>2. Pending(<< >>, ran[i].scen) = 0 /\ Shown(page.body, ran[i].scen) \in Nat
    <3>1. page.body \in Seq(AttachmentSet) /\ << >> \in Seq(Scenarios)
      BY <1>2, <1>3, <1>4
    <3> QED
      BY <3>1, NothingPending, CountTypes
  <2>3. ran[i].attached = Shown(page.body, ran[i].scen)
    BY <1>2, <1>3, <1>4, <2>1
  <2> QED
    BY <2>2, <2>3
<1>7. PagesHold(page, << >>, ran, res)
  BY <1>2, <1>3, <1>4, <1>5, <1>6 DEF PagesHold
<1> QED
  BY <1>3, <1>4, <1>7

(* A world with attachments is the running suite's, or is not read.        *)
LEMMA StepKeepsWorlds ==
  ASSUME ProcessTypes, Places, OnceEach, Registered, PagesInv, [Next]_vars
  PROVE  WorldsHold' /\ attached' \in [Resources -> Seq(Scenarios)]
<1>0. attached \in [Resources -> Seq(Scenarios)] /\ WorldsHold /\ ran \in Seq(RanSet)
  BY DEF PagesInv, ProcessTypes
<1>1. CASE Run
  BY <1>1 DEF Run, Start, WorldsHold
<1>2. CASE RunIsFatal \/ Killed \/ Finish \/ UNCHANGED vars \/ StepPasses \/ StepSkipped \/ StepFails
  <2>1. /\ UNCHANGED <<attached, registered, todo, res>>
        /\ phase' = "resources" => phase = "resources"
    BY <1>2 DEF RunIsFatal, Killed, Finish, vars, progress, reporters, StepPasses, StepSkipped, StepFails
  <2> QED
    BY <1>0, <2>1 DEF WorldsHold
<1>3. ASSUME NEW r \in Resources, ResourceHasNoDirectory(r)
      PROVE  WorldsHold' /\ attached' \in [Resources -> Seq(Scenarios)]
  <2>1. /\ UNCHANGED <<attached, registered, res, phase>> /\ todo' \subseteq todo
    BY <1>3 DEF ResourceHasNoDirectory, reporters
  <2> QED
    BY <1>0, <2>1 DEF WorldsHold
<1>4. ASSUME NEW r \in Resources, ResourceSkipped(r) \/ SuiteBegins(r)
      PROVE  WorldsHold' /\ attached' \in [Resources -> Seq(Scenarios)]
  <2>1. /\ Registers(r) /\ r \in todo /\ todo' = todo \ {r} /\ phase = "resources"
        /\ attached' = attached \/ attached' = [attached EXCEPT ![r] = << >>]
    BY <1>4 DEF ResourceSkipped, SuiteBegins
  <2>2. /\ attached' \in [Resources -> Seq(Scenarios)] /\ attached[r] = << >>
        /\ \A q \in Resources : attached'[q] = attached[q]
    BY <1>0, <2>1 DEF WorldsHold
  <2>3. ASSUME NEW q \in Resources, attached'[q] # << >>
        PROVE  q \notin todo' /\ registered'[Report[q]] # q
    <3>1. attached[q] # << >> /\ q # r
      BY <2>2, <2>3
    <3>2. q \notin todo /\ registered[Report[q]] # q
      BY <1>0, <2>1, <3>1 DEF WorldsHold
    <3>3. Report[q] \in ReportNames
      BY DEF ReportNames
    <3>4. registered'[Report[q]] = registered[Report[q]] \/ registered'[Report[q]] = r
      BY <2>1, <3>3, RegisteredIs DEF Registered
    <3> QED
      BY <2>1, <3>1, <3>2, <3>4
  <2> QED
    BY <2>2, <2>3 DEF WorldsHold
<1>5. CASE ScenarioStarts
  <2>1. /\ UNCHANGED <<registered, res, todo, phase>> /\ attached' = [attached EXCEPT ![res] = << >>]
        /\ res \in Resources
    BY <1>5 DEF ScenarioStarts, ProcessTypes
  <2> QED
    BY <1>0, <2>1 DEF WorldsHold
<1>6. CASE StepAttaches
  <2>1. /\ UNCHANGED <<registered, res, todo, phase>> /\ phase = "suite" /\ ran # << >>
        /\ attached' = [attached EXCEPT ![res] = Append(attached[res], ran[Len(ran)].scen)]
        /\ res \in Resources /\ res \notin todo
    BY <1>6 DEF StepAttaches, ProcessTypes, Places, Current, OnceEach
  <2>2. ran[Len(ran)].scen \in Scenarios
    <3>1. ran[Len(ran)] \in RanSet
      BY <1>0, <2>1
    <3> QED
      BY <3>1 DEF RanSet
  <2>3. Append(attached[res], ran[Len(ran)].scen) \in Seq(Scenarios)
    BY <1>0, <2>1, <2>2
  <2>4. attached' \in [Resources -> Seq(Scenarios)] /\ \A q \in Resources : q # res => attached'[q] = attached[q]
    BY <1>0, <2>1, <2>3
  <2> QED
    BY <1>0, <2>1, <2>4 DEF WorldsHold
<1>7. CASE SuiteEnds
  <2>1. /\ UNCHANGED <<registered, res, todo>> /\ res \in Resources /\ phase = "suite"
        /\ attached' = IF html.opened = << >> THEN attached
                       ELSE [attached EXCEPT ![Provider] = << >>]
    BY <1>7 DEF SuiteEnds, ProcessTypes
  <2>2. /\ attached' \in [Resources -> Seq(Scenarios)]
        /\ \A q \in Resources : attached'[q] # << >> => attached[q] # << >>
    <3>1. Provider \in Resources \cup {Nobody}
      BY <2>1 DEF Provider, Registered, ReportNames, ProcessTypes
    <3>2. CASE html.opened = << >>
      BY <1>0, <2>1, <3>2
    <3>3. CASE html.opened # << >>
      <4>1. attached' = [attached EXCEPT ![Provider] = << >>]
        BY <2>1, <3>3
      <4>2. attached' = [q \in Resources |-> IF q = Provider THEN << >> ELSE attached[q]]
        BY <1>0, <4>1
      <4> QED
        BY <1>0, <4>2
    <3> QED
      BY <3>2, <3>3
  <2>3. ASSUME NEW q \in Resources, attached'[q] # << >>
        PROVE  registered'[Report[q]] # q
    <3>1. SUFFICES ASSUME q = res, Provider = res
                   PROVE  FALSE
      BY <1>0, <2>1, <2>2, <2>3 DEF WorldsHold, Provider
    <3>2. PagesHold(html, attached[res], ran, res)
      BY <2>1, <3>1 DEF PagesInv, PageHolds
    <3>3. html.opened = << >> => attached[res] = << >>
      BY <3>2 DEF PagesHold
    <3> QED
      BY <1>0, <2>1, <2>3, <3>1, <3>3
  <2> QED
    BY <1>0, <2>1, <2>2, <2>3 DEF WorldsHold
<1> QED
  BY <1>1, <1>2, <1>3, <1>4, <1>5, <1>6, <1>7 DEF Next, Resource, Scenario

(* A scenario starts on a new page.                                        *)
LEMMA StartKeepsPages ==
  ASSUME ProcessTypes, OnceEach, Registered, PagesInv, ScenarioStarts,
         attached' \in [Resources -> Seq(Scenarios)], WorldsHold'
  PROVE  PagesInv'
<1> DEFINE new == [res |-> res, scen |-> Head(queue), ok |-> TRUE, attached |-> 0]
           n == Len(ran)
<1>1. /\ DOMAIN ran' = 1..(n + 1) /\ DOMAIN ran = 1..n /\ \A i \in 1..n : ran'[i] = ran[i]
      /\ ran'[n + 1] = new /\ Len(ran') = n + 1 /\ Head(queue) \in Scenarios
      /\ ran \in Seq(RanSet) /\ n \in Nat
  <2>1. new \in RanSet
    BY StartMoves
  <2> QED
    BY <2>1, StartMoves DEF RanSet, ProcessTypes
<1>2. /\ attached' = [attached EXCEPT ![res] = << >>] /\ res' = res /\ registered' = registered
      /\ html' = [body |-> BodyNow, opened |-> <<Head(queue)>>] /\ res \in Resources
  BY DEF ScenarioStarts, HtmlPickle, ProcessTypes
<1>3. attached \in [Resources -> Seq(Scenarios)] /\ attached'[res] = << >> /\ Provider' = Provider
  BY <1>2 DEF PagesInv, Provider
<1>4. new.attached = 0
  OBVIOUS
<1> HIDE DEF new
<1>5. PageHolds' /\ html' \in PageSet
  <2>1. CASE Provider = res
    <3>1. PICK made \in Seq(Scenarios) : made = attached[res]
      BY <1>2, <1>3
    <3>2. html \in PageSet /\ PagesHold(html, made, ran, res)
      BY <1>2, <2>1, <3>1 DEF PagesInv, PageHolds
    <3>3. PagesHold(html', << >>, ran', res)
      BY <2>1, <3>1, <3>2, PageTurns
    <3>4. BodyNow \in Seq(AttachmentSet)
      BY <1>1, <2>1, <3>1, <3>2, BodyNowIs
    <3>5. html' \in PageSet
      BY <1>1, <1>2, <3>4 DEF PageSet, AttachmentSet
    <3> QED
      BY <1>2, <1>3, <2>1, <3>3, <3>5 DEF PageHolds
  <2>2. CASE Provider # res
    <3>1. BodyNow = << >>
      BY <1>2, <2>2, NothingShown DEF PagesInv, PageHolds
    <3>2. html'.body = << >> /\ html' \in PageSet
      BY <1>1, <1>2, <3>1 DEF PageSet
    <3> QED
      BY <1>2, <1>3, <2>2, <3>2 DEF PageHolds
  <2> QED
    BY <2>1, <2>2
<1>6. html'.opened # << >> /\ ran'[Len(ran')].attached = Len(attached'[res'])
  BY <1>1, <1>2, <1>3, <1>4
<1>7. \A i \in DOMAIN ran' : ran'[i].attached <= MaxAttached
  <2>1. MaxAttached \in Nat /\ \A i \in DOMAIN ran : ran[i].attached <= MaxAttached
    BY ComplianceAssumption DEF PagesInv
  <2> QED
    BY <1>1, <1>4, <2>1
<1> QED
  BY <1>5, <1>6, <1>7 DEF PagesInv

(* An attachment is made.                                                  *)
LEMMA AttachingKeepsPages ==
  ASSUME ProcessTypes, Places, OnceEach, PagesInv, StepAttaches,
         attached' \in [Resources -> Seq(Scenarios)], WorldsHold'
  PROVE  PagesInv'
<1> DEFINE n == Len(ran)
<1>0. /\ ran \in Seq(RanSet) /\ MaxAttached \in Nat /\ html \in PageSet
      /\ attached \in [Resources -> Seq(Scenarios)] /\ res \in Resources
      /\ html.body \in Seq(AttachmentSet) /\ n \in Nat
      /\ \A i \in DOMAIN ran : ran[i].attached <= MaxAttached
  BY ComplianceAssumption DEF ProcessTypes, PagesInv, PageSet, AttachmentSet, StepAttaches
<1>1. PICK made \in Seq(Scenarios) : made = attached[res]
  BY <1>0
<1>2. /\ ran # << >> /\ Record(TRUE, 1) /\ UNCHANGED <<html, res, phase, registered>>
      /\ phase = "suite" /\ left > 0 /\ Len(made) < MaxAttached
      /\ attached' = [attached EXCEPT ![res] = Append(made, ran[n].scen)]
  BY <1>1 DEF StepAttaches, Places, Current
<1>3. /\ ran' # << >> /\ Len(ran') = n /\ DOMAIN ran' = DOMAIN ran
      /\ \A i \in 1..n : i # n => ran'[i] = ran[i]
      /\ ran'[n].scen = ran[n].scen /\ ran'[n].res = ran[n].res
      /\ ran'[n].attached = ran[n].attached + 1
  BY <1>0, <1>2, RecordChanges
<1>4. html.opened # << >> /\ ran[n].attached = Len(made)
  BY <1>1, <1>2 DEF PagesInv
<1>5. \A i, j \in DOMAIN ran : ran[i].res = res /\ ran[j].res = res /\ ran[i].scen = ran[j].scen => i = j
  BY DEF OnceEach
<1>6. DOMAIN ran = 1..n /\ ran[n] \in RanSet
  BY <1>0, <1>2
<1>7. attached'[res] = Append(made, ran[n].scen) /\ Provider' = Provider
  BY <1>0, <1>2 DEF Provider
<1>8. PageHolds'
  <2>1. CASE Provider = res
    <3>1. PagesHold(html, made, ran, res)
      BY <1>0, <1>1, <2>1 DEF PagesInv, PageHolds
    <3>2. PagesHold(html, Append(made, ran[n].scen), ran', res)
      BY <1>0, <1>2, <1>3, <1>4, <1>5, <1>6, <3>1, AttachmentWaits
    <3> QED
      BY <1>2, <1>7, <2>1, <3>2 DEF PageHolds
  <2>2. CASE Provider # res
    BY <1>0, <1>2, <1>7, <2>2 DEF PagesInv, PageHolds
  <2> QED
    BY <2>1, <2>2
<1>9. Len(attached'[res]) = Len(made) + 1 /\ Len(made) \in Nat
  <2>1. ran[n].scen \in Scenarios
    BY <1>6 DEF RanSet
  <2> QED
    BY <1>7, <2>1
<1>10. \A i \in DOMAIN ran' : ran'[i].attached <= MaxAttached
  <2>1. ran'[n].attached <= MaxAttached
    <3>1. \A v, m \in Nat : v < m => v + 1 <= m
      OBVIOUS
    <3>2. Len(made) + 1 <= MaxAttached
      BY <1>0, <1>2, <1>9, <3>1
    <3> QED
      BY <1>3, <1>4, <3>2
  <2> QED
    BY <1>0, <1>3, <1>6, <2>1
<1>11. ran'[Len(ran')].attached = Len(attached'[res'])
  BY <1>2, <1>3, <1>4, <1>9
<1> QED
  BY <1>0, <1>2, <1>4, <1>8, <1>10, <1>11 DEF PagesInv

(* A step fails: it makes no attachment.                                   *)
LEMMA FailingKeepsPages ==
  ASSUME ProcessTypes, Places, PagesInv, StepFails,
         attached' \in [Resources -> Seq(Scenarios)], WorldsHold'
  PROVE  PagesInv'
<1> DEFINE n == Len(ran)
<1>0. /\ ran \in Seq(RanSet) /\ html \in PageSet /\ n \in Nat
      /\ \A i \in DOMAIN ran : ran[i].attached <= MaxAttached
  BY DEF ProcessTypes, PagesInv
<1>1. /\ ran # << >> /\ Record(FALSE, 0) /\ UNCHANGED <<html, attached, res, phase, registered>>
      /\ phase = "suite" /\ left > 0 /\ Provider' = Provider
  BY DEF StepFails, Places, Provider
<1>2. /\ ran' # << >> /\ Len(ran') = n /\ DOMAIN ran' = DOMAIN ran
      /\ \A i \in 1..n : i # n => ran'[i] = ran[i]
      /\ ran'[n].scen = ran[n].scen /\ ran'[n].res = ran[n].res
      /\ ran'[n].attached = ran[n].attached + 0
  BY <1>0, <1>1, RecordChanges
<1>3. DOMAIN ran = 1..n /\ n \in DOMAIN ran /\ ran[n] \in RanSet
  BY <1>0, <1>1
<1>4. ran'[n].attached = ran[n].attached
  <2>1. \A v \in Nat : v + 0 = v
    OBVIOUS
  <2>2. ran[n].attached \in Nat
    BY <1>3 DEF RanSet
  <2> QED
    BY <1>2, <2>1, <2>2
<1>5. \A i \in DOMAIN ran : /\ ran'[i].res = ran[i].res /\ ran'[i].scen = ran[i].scen
                            /\ ran'[i].attached = ran[i].attached
  BY <1>2, <1>3, <1>4
<1>6. ASSUME PagesHold(html, attached[res], ran, res)
      PROVE  PagesHold(html, attached[res], ran', res)
  BY <1>0, <1>1, <1>2, <1>5, <1>6, SamePages
<1>7. (res \in Resources => PageHolds)'
  BY <1>1, <1>6 DEF PagesInv, PageHolds
<1> QED
  BY <1>0, <1>1, <1>2, <1>3, <1>5, <1>7 DEF PagesInv

(* The page stays in step with what ran, whatever step is taken.           *)
LEMMA StepKeepsPages ==
  ASSUME ProcessTypes, Places, OnceEach, Registered, PagesInv, [Next]_vars
  PROVE  PagesInv'
<1>0. WorldsHold' /\ attached' \in [Resources -> Seq(Scenarios)]
  BY StepKeepsWorlds
<1>1. CASE Run
  <2>1. /\ ran' = << >> /\ html' = [body |-> << >>, opened |-> << >>]
        /\ phase' = "resources" /\ res' = Nobody
    BY <1>1 DEF Run, Start, NewReporters
  <2>2. \A i \in DOMAIN << >> : << >>[i].res # res'
    OBVIOUS
  <2>3. html' \in PageSet
    BY <2>1, <2>2, NewPage
  <2> QED
    BY <1>0, <2>1, <2>3, ComplianceAssumption DEF PagesInv
<1>2. CASE RunIsFatal \/ Killed \/ Finish \/ UNCHANGED vars \/ StepPasses \/ StepSkipped
  <2>1. /\ UNCHANGED <<html, attached, ran, res, registered, todo>>
        /\ phase' = "resources" => phase = "resources"
        /\ phase' = "suite" /\ left' > 0 => phase = "suite" /\ left > 0
    BY <1>2 DEF RunIsFatal, Killed, Finish, vars, progress, reporters, StepPasses, StepSkipped
  <2> QED
    BY <2>1, QuietKeepsPages
<1>3. ASSUME NEW r \in Resources, ResourceHasNoDirectory(r) \/ ResourceSkipped(r)
      PROVE  PagesInv'
  <2>1. UNCHANGED <<html, attached, ran, res, phase>> /\ phase = "resources"
    BY <1>3 DEF ResourceHasNoDirectory, ResourceSkipped, reporters
  <2>2. res \in Resources => Provider' = Provider
    <3>1. CASE ResourceHasNoDirectory(r)
      BY <3>1 DEF ResourceHasNoDirectory, reporters, Provider
    <3>2. CASE ResourceSkipped(r)
      BY <2>1, <3>2, SkippedKeepsProvider DEF ResourceSkipped
    <3> QED
      BY <1>3, <3>1, <3>2
  <2>3. (res \in Resources => PageHolds)'
    BY <2>1, <2>2 DEF PagesInv, PageHolds
  <2> QED
    BY <1>0, <2>1, <2>3 DEF PagesInv
<1>4. ASSUME NEW r \in Resources, SuiteBegins(r)
      PROVE  PagesInv'
  <2>1. /\ r \in todo /\ res' = r /\ ran' = ran /\ left' = 0
        /\ html' = [body |-> << >>, opened |-> << >>] /\ attached' = [attached EXCEPT ![r] = << >>]
    BY <1>4 DEF SuiteBegins, NewReporters
  <2>2. \A i \in DOMAIN ran : ran[i].res # r
    BY <2>1 DEF OnceEach
  <2>3. PagesHold(html', << >>, ran, r) /\ html' \in PageSet /\ html'.body = << >>
    BY <2>1, <2>2, NewPage
  <2>4. attached'[r] = << >>
    BY <2>1 DEF PagesInv
  <2>5. PageHolds'
    BY <2>1, <2>3, <2>4 DEF PageHolds
  <2> QED
    BY <1>0, <2>1, <2>3, <2>5 DEF PagesInv
<1>5. CASE ScenarioStarts
  BY <1>0, <1>5, StartKeepsPages
<1>6. CASE StepAttaches
  BY <1>0, <1>6, AttachingKeepsPages
<1>7. CASE StepFails
  BY <1>0, <1>7, FailingKeepsPages
<1>8. CASE SuiteEnds
  <2>1. /\ UNCHANGED <<ran, res, registered>> /\ phase' = "resources" /\ res \in Resources
        /\ html' = [html EXCEPT !.body = BodyNow] /\ Provider' = Provider
        /\ attached' = IF html.opened = << >> THEN attached
                       ELSE [attached EXCEPT ![Provider] = << >>]
    BY <1>8 DEF SuiteEnds, ProcessTypes, Provider
  <2>2. attached \in [Resources -> Seq(Scenarios)] /\ html \in PageSet
    BY DEF PagesInv
  <2>3. CASE Provider = res
    <3>1. PICK made \in Seq(Scenarios) : made = attached[res]
      BY <2>1, <2>2
    <3>2. PagesHold(html, made, ran, res)
      BY <2>1, <2>3, <3>1 DEF PagesInv, PageHolds
    <3>3. html.opened = << >> => made = << >>
      BY <3>2 DEF PagesHold
    <3>4. attached'[res] = << >>
      BY <2>1, <2>2, <2>3, <3>1, <3>3
    <3>5. PagesHold(html', << >>, ran, res) /\ html' \in PageSet
      BY <1>8, <2>2, <2>3, <3>1, <3>2, PageCloses
    <3>6. PageHolds'
      BY <2>1, <2>3, <3>4, <3>5 DEF PageHolds
    <3> QED
      BY <1>0, <2>1, <3>5, <3>6 DEF PagesInv
  <2>4. CASE Provider # res
    <3>1. html.body = << >> /\ BodyNow = << >>
      BY <2>1, <2>4, NothingShown DEF PagesInv, PageHolds
    <3>2. html' = [html EXCEPT !.body = << >>]
      BY <2>1, <3>1
    <3>3. html' \in PageSet /\ html'.body = << >>
      <4>1. html = [body |-> html.body, opened |-> html.opened]
        BY <2>2 DEF PageSet
      <4>2. html' = [body |-> << >>, opened |-> html.opened]
        BY <3>2, <4>1
      <4> QED
        BY <2>2, <4>2 DEF PageSet
    <3>4. PageHolds'
      BY <2>1, <2>4, <3>3 DEF PageHolds
    <3> QED
      BY <1>0, <2>1, <3>3, <3>4 DEF PagesInv
  <2> QED
    BY <2>3, <2>4
<1> QED
  BY <1>1, <1>2, <1>3, <1>4, <1>5, <1>6, <1>7, <1>8 DEF Next, Resource, Scenario

(* The invariant gives the property the run checks.                        *)
LEMMA PagesFollow ==
  ASSUME ProcessTypes, Registered, PagesInv
  PROVE  AttachmentsPlaced
<1>0. ran \in Seq(RanSet) /\ html \in PageSet /\ attached \in [Resources -> Seq(Scenarios)]
  BY DEF ProcessTypes, PagesInv
<1>1. CASE res \notin Resources
  <2>1. ran = << >> /\ html = [body |-> << >>, opened |-> << >>]
    BY <1>1 DEF ProcessTypes, Registered
  <2>2. BodyNow = << >>
    BY <2>1 DEF BodyNow
  <2> QED
    BY <2>1, <2>2 DEF AttachmentsPlaced
<1>2. CASE res \in Resources /\ Provider = res
  <2>1. PICK made \in Seq(Scenarios) : made = attached[res]
    BY <1>0, <1>2
  <2>2. PagesHold(html, made, ran, res)
    BY <1>2, <2>1 DEF PagesInv, PageHolds
  <2>3. \A k \in DOMAIN BodyNow : BodyNow[k].under = BodyNow[k].made
    BY <1>0, <1>2, <2>1, <2>2, BodyNowIs
  <2> QED
    BY <1>2, <2>1, <2>2, <2>3 DEF AttachmentsPlaced, PagesHold, Shown, Pending
<1>3. CASE res \in Resources /\ Provider # res
  <2>1. BodyNow = << >>
    BY <1>3, NothingShown DEF PagesInv, PageHolds
  <2> QED
    BY <1>3, <2>1 DEF AttachmentsPlaced
<1> QED
  BY <1>1, <1>2, <1>3

-----------------------------------------------------------------------------
(* The combined file.                                                      *)

(* Induction over the sets of files: a set of subsets of a finite set that *)
(* is not empty has a minimal one.                                         *)
LEMMA SmallestSubset ==
  ASSUME NEW S, IsFiniteSet(S), NEW Bad \in SUBSET SUBSET S, Bad # {}
  PROVE  \E T \in Bad : \A U \in Bad : U \subseteq T => U = T
<1>1. IsWellFoundedOn(StrictSubsetOrdering(S), SUBSET S)
  BY FS_StrictSubsetOrderingWellFounded, FS_FiniteSubsetsOfFinite
<1>2. PICK T \in Bad : \A U \in Bad : ~(<<U, T>> \in StrictSubsetOrdering(S))
  BY <1>1, WFMin
<1> QED
  BY <1>2 DEF StrictSubsetOrdering

(* The file that Concatenation takes first.                                *)
Chosen(T) == CHOOSE f \in T : TRUE

(* The equation of Concatenation, on a set D of sets of files.             *)
Joins(all, content, D) ==
    all = [T \in D |-> IF T = {} THEN << >>
                       ELSE content[Chosen(T)].holds \o all[T \ {Chosen(T)}]]

(* The chosen file leaves a smaller set.                                   *)
LEMMA ChosenLeaves ==
  ASSUME NEW T, IsFiniteSet(T), T # {}
  PROVE  /\ Chosen(T) \in T
         /\ IsFiniteSet(T \ {Chosen(T)})
         /\ Cardinality(T) \in Nat /\ Cardinality(T) > 0
         /\ Cardinality(T \ {Chosen(T)}) = Cardinality(T) - 1
<1>1. Chosen(T) \in T
  BY DEF Chosen
<1>2. Cardinality(T) \in Nat /\ Cardinality(T) # 0
  BY FS_CardinalityType, FS_EmptySet
<1> QED
  BY <1>1, <1>2, FS_RemoveElement

(* The equation has a solution: solve it for the sets of at most n files,  *)
(* one n after the other.                                                  *)
LEMMA JoinsExists ==
  ASSUME NEW S, IsFiniteSet(S), NEW content
  PROVE  \E all : Joins(all, content, SUBSET S)
<1> DEFINE Level(n) == {T \in SUBSET S : Cardinality(T) <= n}
           Solved(n) == \E all : Joins(all, content, Level(n))
           Bad == {n \in Nat : ~Solved(n)}
<1>1. \A T \in SUBSET S : IsFiniteSet(T) /\ Cardinality(T) \in Nat /\ Cardinality(T) <= Cardinality(S)
  BY FS_Subset, FS_CardinalityType
<1>2. Cardinality(S) \in Nat /\ Level(Cardinality(S)) = SUBSET S
  BY <1>1, FS_CardinalityType
<1>3. Solved(0)
  <2>1. Level(0) = {{}}
    <3>1. \A T \in SUBSET S : Cardinality(T) <= 0 <=> T = {}
      <4> TAKE T \in SUBSET S
      <4>1. Cardinality(T) = 0 <=> T = {}
        BY <1>1, FS_EmptySet
      <4> QED
        BY <1>1, <4>1
    <3> QED
      BY <3>1
  <2> DEFINE all == [T \in {{}} |-> << >>]
  <2>2. Joins(all, content, {{}})
    BY DEF Joins
  <2> QED
    BY <2>1, <2>2
<1>4. ASSUME NEW n \in Nat, Solved(n)
      PROVE  Solved(n + 1)
  <2>1. PICK g : Joins(g, content, Level(n))
    BY <1>4
  <2> DEFINE step(T) == IF T = {} THEN << >> ELSE content[Chosen(T)].holds \o g[T \ {Chosen(T)}]
             all == [T \in Level(n + 1) |-> step(T)]
  <2>2. \A T \in Level(n) : g[T] = step(T)
    BY <2>1 DEF Joins
  <2>3. ASSUME NEW T \in Level(n + 1), T # {}
        PROVE  T \ {Chosen(T)} \in Level(n) /\ T \ {Chosen(T)} \in Level(n + 1)
    <3>1. Cardinality(T \ {Chosen(T)}) = Cardinality(T) - 1 /\ Cardinality(T) \in Nat
          /\ T \ {Chosen(T)} \in SUBSET S /\ Cardinality(T) <= n + 1
      BY <1>1, <2>3, ChosenLeaves
    <3>2. \A c \in Nat : c <= n + 1 => c - 1 <= n /\ c - 1 <= n + 1
      OBVIOUS
    <3> QED
      BY <3>1, <3>2
  <2>4. \A T \in Level(n + 1) : T # {} => all[T \ {Chosen(T)}] = g[T \ {Chosen(T)}]
    <3> TAKE T \in Level(n + 1)
    <3> HAVE T # {}
    <3> DEFINE U == T \ {Chosen(T)}
    <3>1. U \in Level(n) /\ U \in Level(n + 1)
      BY <2>3
    <3> HIDE DEF U, Level
    <3>2. all[U] = step(U)
      BY <3>1
    <3>3. g[U] = step(U)
      BY <2>2, <3>1
    <3> HIDE DEF all, step
    <3>4. all[U] = g[U]
      BY <3>2, <3>3
    <3> QED
      BY <3>4 DEF U
  <2>5. Joins(all, content, Level(n + 1))
    <3> DEFINE right == [T \in Level(n + 1) |->
                           IF T = {} THEN << >> ELSE content[Chosen(T)].holds \o all[T \ {Chosen(T)}]]
    <3>1. \A T \in Level(n + 1) : step(T) = IF T = {} THEN << >> ELSE content[Chosen(T)].holds \o all[T \ {Chosen(T)}]
      <4> HIDE DEF all
      <4> QED
        BY <2>4
    <3>2. all = right
      <4> HIDE DEF Level
      <4>1. [T \in Level(n + 1) |-> step(T)] = right
        BY <3>1, Zenon
      <4> QED
        BY <4>1
    <3> QED
      BY <3>2 DEF Joins
  <2> QED
    BY <2>5
<1> HIDE DEF Solved
<1>5. Bad = {}
  <2> SUFFICES ASSUME Bad # {}
               PROVE  FALSE
    OBVIOUS
  <2>1. PICK n \in Bad : \A m \in Bad : n <= m
    BY LeastExists
  <2>2. n # 0
    BY <1>3, <2>1
  <2>3. n - 1 \in Nat /\ n - 1 \notin Bad /\ n = (n - 1) + 1
    BY <2>1, <2>2
  <2>4. Solved(n - 1)
    BY <2>3
  <2> QED
    BY <1>4, <2>1, <2>3, <2>4
<1>6. Solved(Cardinality(S))
  BY <1>2, <1>5
<1> QED
  BY <1>2, <1>6 DEF Solved

(* A list with no finding of process n about the scenario e.               *)
TellsNone(list, n, e) == \A k \in DOMAIN list : ~Tells(list[k], n, e)

(* Of two lists, one after the other, one tells of e once and the other    *)
(* does not: so do they together.                                          *)
LEMMA TellsJoined ==
  ASSUME NEW A, NEW a \in Seq(A), NEW b \in Seq(A), NEW n, NEW e,
         \/ TellsOnce(a, n, e) /\ TellsNone(b, n, e)
         \/ TellsNone(a, n, e) /\ TellsOnce(b, n, e)
  PROVE  TellsOnce(a \o b, n, e)
<1> DEFINE l == Len(a)
           c == a \o b
<1>1. /\ l \in Nat /\ Len(b) \in Nat /\ DOMAIN a = 1..l /\ DOMAIN b = 1..Len(b)
      /\ DOMAIN c = 1..(l + Len(b))
      /\ \A k \in 1..l : c[k] = a[k]
      /\ \A k \in 1..Len(b) : c[l + k] = b[k]
  OBVIOUS
<1> HIDE DEF l, c
<1>2. \A j \in DOMAIN c : \/ j \in DOMAIN a /\ c[j] = a[j]
                          \/ j - l \in DOMAIN b /\ c[j] = b[j - l] /\ j = l + (j - l)
  <2> TAKE j \in DOMAIN c
  <2>1. CASE j \in 1..l
    BY <1>1, <2>1
  <2>2. CASE j \notin 1..l
    <3>1. j - l \in 1..Len(b) /\ j = l + (j - l)
      BY <1>1, <2>2
    <3> QED
      BY <1>1, <3>1
  <2> QED
    BY <2>1, <2>2
<1>3. CASE TellsOnce(a, n, e) /\ TellsNone(b, n, e)
  <2>1. PICK k \in DOMAIN a : Tells(a[k], n, e) /\ \A j \in DOMAIN a : Tells(a[j], n, e) => j = k
    BY <1>3 DEF TellsOnce
  <2>2. k \in DOMAIN c /\ c[k] = a[k]
    BY <1>1, <2>1
  <2>3. \A j \in DOMAIN c : Tells(c[j], n, e) => j = k
    BY <1>2, <1>3, <2>1 DEF TellsNone
  <2>4. TellsOnce(c, n, e)
    BY <2>1, <2>2, <2>3 DEF TellsOnce
  <2> QED
    BY <2>4 DEF c
<1>4. CASE TellsNone(a, n, e) /\ TellsOnce(b, n, e)
  <2>1. PICK k \in DOMAIN b : Tells(b[k], n, e) /\ \A j \in DOMAIN b : Tells(b[j], n, e) => j = k
    BY <1>4 DEF TellsOnce
  <2>2. l + k \in DOMAIN c /\ c[l + k] = b[k]
    BY <1>1, <2>1
  <2>3. \A j \in DOMAIN c : Tells(c[j], n, e) => j = l + k
    BY <1>2, <1>4, <2>1 DEF TellsNone
  <2>4. TellsOnce(c, n, e)
    BY <2>1, <2>2, <2>3 DEF TellsOnce
  <2> QED
    BY <2>4 DEF c
<1> QED
  BY <1>3, <1>4

(* Every element of two lists, one after the other, is in one of them.     *)
LEMMA JoinedFrom ==
  ASSUME NEW A, NEW a \in Seq(A), NEW b \in Seq(A), NEW k \in DOMAIN (a \o b)
  PROVE  \/ \E j \in DOMAIN a : (a \o b)[k] = a[j]
         \/ \E j \in DOMAIN b : (a \o b)[k] = b[j]
<1>1. /\ Len(a) \in Nat /\ Len(b) \in Nat /\ DOMAIN a = 1..Len(a) /\ DOMAIN b = 1..Len(b)
      /\ DOMAIN (a \o b) = 1..(Len(a) + Len(b))
  OBVIOUS
<1>2. CASE k \in 1..Len(a)
  <2>1. (a \o b)[k] = a[k]
    BY <1>2
  <2> QED
    BY <1>1, <1>2, <2>1
<1>3. CASE k \notin 1..Len(a)
  <2>1. k - Len(a) \in 1..Len(b)
    BY <1>1, <1>3
  <2>2. (a \o b)[k] = b[k - Len(a)]
    BY <1>1, <1>3, <2>1
  <2> QED
    BY <1>1, <2>1, <2>2
<1> QED
  BY <1>2, <1>3

(* What the combined list has come from its files, and a scenario that one *)
(* file tells of once and no other file tells of is in it once.            *)
LEMMA ConcatenationTells ==
  ASSUME NEW S, IsFiniteSet(S), NEW content, NEW A,
         \A f \in S : content[f].holds \in Seq(A)
  PROVE  LET list == Concatenation(S, content) IN
         /\ list \in Seq(A)
         /\ \A k \in DOMAIN list :
              \E f \in S : \E j \in DOMAIN content[f].holds : list[k] = content[f].holds[j]
         /\ \A n, e : \A own \in S :
              /\ TellsOnce(content[own].holds, n, e)
              /\ \A f \in S \ {own} : TellsNone(content[f].holds, n, e)
              => TellsOnce(list, n, e)
<1> DEFINE all == CHOOSE all : Joins(all, content, SUBSET S)
<1>1. Joins(all, content, SUBSET S)
  BY JoinsExists
<1>2. Concatenation(S, content) = all[S]
  BY DEF Concatenation, Joins, Chosen
<1> HIDE DEF all
<1>3. /\ all[{}] = << >>
      /\ \A T \in SUBSET S : T # {} =>
           all[T] = content[Chosen(T)].holds \o all[T \ {Chosen(T)}]
  BY <1>1 DEF Joins
<1> DEFINE From(T) == /\ all[T] \in Seq(A)
                      /\ \A k \in DOMAIN all[T] : \E f \in T : \E j \in DOMAIN content[f].holds :
                           all[T][k] = content[f].holds[j]
<1>4. ASSUME NEW T \in SUBSET S, T # {}
      PROVE  /\ Chosen(T) \in T /\ T \ {Chosen(T)} \in SUBSET S /\ T \ {Chosen(T)} # T
             /\ T \ {Chosen(T)} \subseteq T
             /\ content[Chosen(T)].holds \in Seq(A)
  <2>1. Chosen(T) \in T
    BY <1>4 DEF Chosen
  <2> QED
    BY <2>1
<1>5. \A T \in SUBSET S : From(T)
  <2> DEFINE Bad == {T \in SUBSET S : ~From(T)}
  <2> SUFFICES ASSUME Bad # {}
               PROVE  FALSE
    OBVIOUS
  <2>1. PICK T \in Bad : \A U \in Bad : U \subseteq T => U = T
    <3>1. Bad \in SUBSET SUBSET S
      OBVIOUS
    <3> HIDE DEF Bad
    <3> QED
      BY <3>1, SmallestSubset
  <2>2. T # {}
    <3>1. From({})
      BY <1>3
    <3> QED
      BY <2>1, <3>1
  <2> DEFINE f == Chosen(T)
             U == T \ {f}
  <2>3. f \in T /\ U \in SUBSET S /\ U # T /\ U \subseteq T /\ content[f].holds \in Seq(A)
    BY <1>4, <2>1, <2>2
  <2>4. From(U)
    BY <2>1, <2>3
  <2>5. all[T] = content[f].holds \o all[U]
    BY <1>3, <2>1, <2>2
  <2> DEFINE a == content[f].holds
             b == all[U]
  <2>6. a \in Seq(A) /\ b \in Seq(A) /\ all[T] \in Seq(A)
    BY <2>3, <2>4, <2>5
  <2>7. \A k \in DOMAIN (a \o b) : \E g \in T : \E j \in DOMAIN content[g].holds :
          (a \o b)[k] = content[g].holds[j]
    <3> TAKE k \in DOMAIN (a \o b)
    <3>1. CASE \E j \in DOMAIN a : (a \o b)[k] = a[j]
      BY <2>3, <3>1
    <3>2. CASE \E j \in DOMAIN b : (a \o b)[k] = b[j]
      <4>1. PICK j \in DOMAIN b : (a \o b)[k] = b[j]
        BY <3>2
      <4>2. PICK g \in U : \E i \in DOMAIN content[g].holds : b[j] = content[g].holds[i]
        BY <2>4
      <4> QED
        BY <2>3, <4>1, <4>2
    <3> HIDE DEF a, b
    <3> QED
      BY <2>6, <3>1, <3>2, JoinedFrom
  <2>8. From(T)
    <3> DEFINE c == a \o b
    <3>1. all[T] = c /\ all[T] \in Seq(A)
      BY <2>5, <2>6
    <3>2. \A k \in DOMAIN c : \E g \in T : \E j \in DOMAIN content[g].holds :
            c[k] = content[g].holds[j]
      BY <2>7
    <3> HIDE DEF a, b, c
    <3> QED
      BY <3>1, <3>2
  <2> QED
    BY <2>1, <2>8
<1>6. ASSUME NEW n, NEW e, NEW own \in S, TellsOnce(content[own].holds, n, e),
             \A f \in S \ {own} : TellsNone(content[f].holds, n, e)
      PROVE  TellsOnce(all[S], n, e)
  <2> DEFINE Bad == {T \in SUBSET S : own \in T /\ ~TellsOnce(all[T], n, e)}
  <2> SUFFICES ASSUME Bad # {}
               PROVE  FALSE
    OBVIOUS
  <2>1. PICK T \in Bad : \A U \in Bad : U \subseteq T => U = T
    <3>1. Bad \in SUBSET SUBSET S
      OBVIOUS
    <3> HIDE DEF Bad
    <3> QED
      BY <3>1, SmallestSubset
  <2>2. T # {} /\ own \in T /\ T \in SUBSET S
    BY <2>1
  <2> DEFINE f == Chosen(T)
             U == T \ {f}
             a == content[f].holds
             b == all[U]
  <2>3. f \in T /\ U \in SUBSET S /\ U # T /\ U \subseteq T /\ a \in Seq(A)
    BY <1>4, <2>2
  <2>4. From(U)
    BY <1>5, <2>3
  <2>5. b \in Seq(A) /\ all[T] = a \o b
    BY <1>3, <2>2, <2>4
  <2>6. CASE f = own
    <3>1. TellsOnce(a, n, e)
      BY <1>6, <2>6
    <3>2. TellsNone(b, n, e)
      <4> SUFFICES ASSUME NEW k \in DOMAIN b
                   PROVE  ~Tells(b[k], n, e)
        BY DEF TellsNone
      <4>1. PICK g \in U : \E j \in DOMAIN content[g].holds : b[k] = content[g].holds[j]
        BY <2>4
      <4>2. g \in S \ {own}
        BY <2>3, <2>6, <4>1
      <4> QED
        BY <1>6, <4>1, <4>2 DEF TellsNone
    <3>3. TellsOnce(all[T], n, e)
      <4> HIDE DEF a, b
      <4> QED
        BY <2>3, <2>5, <3>1, <3>2, TellsJoined
    <3> QED
      BY <2>1, <3>3
  <2>7. CASE f # own
    <3>1. TellsNone(a, n, e)
      BY <1>6, <2>3, <2>7
    <3>2. TellsOnce(b, n, e)
      BY <2>1, <2>2, <2>3, <2>7
    <3>3. TellsOnce(all[T], n, e)
      <4> HIDE DEF a, b
      <4> QED
        BY <2>3, <2>5, <3>1, <3>2, TellsJoined
    <3> QED
      BY <2>1, <3>3
  <2> QED
    BY <2>6, <2>7
<1>7. From(S)
  BY <1>5
<1> QED
  BY <1>2, <1>6, <1>7

-----------------------------------------------------------------------------
(* The output directory.                                                   *)

(* Every report has a file, and what the code puts into one is content.    *)
LEMMA FileKinds ==
  /\ \A r \in Resources : Report[r] \in Files
  /\ Combined \in Files /\ IsFiniteSet(Files)
  /\ None \in FileSet /\ Torn \in FileSet
  /\ \A list \in Seq(FindingSet) : Json(list) \in FileSet
  /\ None.holds = << >> /\ Torn.holds = << >> /\ None.is = "absent"
  /\ \A list : Json(list).holds = list /\ Json(list).is = "json"
<1>1. (\A r \in Resources : Report[r] \in Files) /\ Combined \in Files
  BY DEF Files, ReportNames
<1>2. IsFiniteSet(Files)
  <2> DEFINE names == {Report[r] : r \in Resources}
             report == [r \in Resources |-> Report[r]]
  <2>1. report \in Surjection(Resources, names)
    BY DEF Surjection
  <2>2. IsFiniteSet(names)
    BY <2>1, ComplianceAssumption, FS_Surjection
  <2> HIDE DEF names
  <2>3. IsFiniteSet(names \cup {Combined})
    BY <2>2, FS_AddElement
  <2> QED
    BY <2>3 DEF Files, ReportNames, names
<1>3. None \in FileSet /\ Torn \in FileSet
  BY DEF None, Torn, FileSet
<1>4. \A list \in Seq(FindingSet) : Json(list) \in FileSet
  BY DEF Json, FileSet
<1> QED
  BY <1>1, <1>2, <1>3, <1>4 DEF None, Torn, Json

(* The files while a suite runs stay as they are; the history grows or the *)
(* step leaves names and resources alone.                                  *)
LEMMA QuietKeepsFiles ==
  ASSUME FilesInv, UNCHANGED <<files, runs, cleaned, warned>>,
         faults' \in 0..MaxFaults, ran' # << >> => ran # << >>,
         DOMAIN ran' = DOMAIN ran,
         \A i \in DOMAIN ran : ran'[i].res = ran[i].res /\ ran'[i].scen = ran[i].scen,
         res' = res,
         phase' \in {"resources", "suite"} => phase' = phase,
         phase' # "off" => phase # "off",
         phase' = "exited" => phase = "exited" /\ todo' = todo
  PROVE  FilesInv'
<1>1. FileTypes' /\ FindingsAreNew'
  BY DEF FilesInv, FileTypes, FindingsAreNew
<1>2. ASSUME phase' \in {"resources", "suite"}
      PROVE  FindingsInPlace' /\ ReportsTell'
  <2>1. FindingsInPlace /\ ReportsTell /\ phase' = phase
    BY <1>2 DEF FilesInv
  <2>2. FindingsInPlace'
    BY <2>1 DEF FindingsInPlace
  <2>3. ReportsTell'
    <3> SUFFICES ASSUME NEW i \in DOMAIN ran', OwnReport(ran'[i].res),
                        phase' = "suite" => ran'[i].res # res'
                 PROVE  /\ files'[Report[ran'[i].res]].is = "json"
                        /\ TellsOnce(files'[Report[ran'[i].res]].holds, runs', ran'[i])
      BY DEF ReportsTell
    <3>1. ran'[i].res = ran[i].res /\ ran'[i].scen = ran[i].scen /\ i \in DOMAIN ran
      OBVIOUS
    <3>2. /\ files[Report[ran[i].res]].is = "json"
          /\ TellsOnce(files[Report[ran[i].res]].holds, runs, ran[i])
      BY <2>1, <3>1 DEF ReportsTell
    <3>3. TellsOnce(files[Report[ran[i].res]].holds, runs, ran'[i])
      BY <3>1, <3>2 DEF TellsOnce, Tells
    <3> QED
      BY <3>1, <3>2, <3>3
  <2> QED
    BY <2>2, <2>3
<1>3. CombinedComplete'
  <2> SUFFICES ASSUME phase' = "exited", todo' = {}
               PROVE  CombinedComplete'
    BY DEF CombinedComplete
  <2>1. phase = "exited" /\ todo = {} /\ CombinedComplete
    BY DEF FilesInv
  <2>2. \A i \in DOMAIN ran : Lists(files[Combined].holds, i)' = Lists(files[Combined].holds, i)
    BY DEF Lists
  <2> QED
    BY <2>1, <2>2 DEF CombinedComplete
<1> QED
  BY <1>1, <1>2, <1>3 DEF FilesInv

(* One file, not the report of a resource that must tell, is written anew: *)
(* it then holds nothing, or this process's findings on its resource.      *)
LEMMA WrittenKeepsNew ==
  ASSUME FileTypes, FindingsAreNew, NEW f \in Files, NEW new \in FileSet,
         files' = [files EXCEPT ![f] = new], UNCHANGED <<runs, cleaned>>,
         \A k \in DOMAIN new.holds : new.holds[k].run <= runs
                                     /\ (cleaned => new.holds[k].run = runs)
  PROVE  FindingsAreNew' /\ files' \in [Files -> FileSet]
BY DEF FileTypes, FindingsAreNew

(* The same for the place of the findings in it.                           *)
LEMMA WrittenInPlace ==
  ASSUME FileTypes, FindingsInPlace, NEW f \in Files, NEW new \in FileSet,
         files' = [files EXCEPT ![f] = new], UNCHANGED runs,
         \A k \in DOMAIN new.holds : new.holds[k].run = runs => f = Report[new.holds[k].res]
  PROVE  FindingsInPlace'
BY DEF FileTypes, FindingsInPlace

(* A list that tells of a scenario once has one entry on it.               *)
LEMMA OnceIsOne ==
  ASSUME NEW list, NEW i, TellsOnce(list, runs, ran[i])
  PROVE  Cardinality(Lists(list, i)) = 1
<1>1. PICK k \in DOMAIN list : /\ Tells(list[k], runs, ran[i])
                               /\ \A j \in DOMAIN list : Tells(list[j], runs, ran[i]) => j = k
  BY DEF TellsOnce
<1>2. Lists(list, i) = {k}
  BY <1>1 DEF Lists, Tells
<1> QED
  BY <1>2, FS_Singleton

(* While a process runs its number is one of 1..MaxRuns, and what it finds *)
(* has the type of the files.                                              *)
LEMMA FoundIsTyped ==
  ASSUME FileTypes, ran # << >> \/ phase # "off"
  PROVE  /\ runs \in 1..MaxRuns /\ runs \in Nat
         /\ FoundSet(runs) \subseteq FindingSet
         /\ Seq(FoundSet(runs)) \subseteq Seq(FindingSet)
<1>1. runs \in 1..MaxRuns /\ runs \in Nat
  BY ComplianceAssumption DEF FileTypes
<1>2. FoundSet(runs) \subseteq FindingSet
  BY <1>1 DEF FoundSet, FindingSet
<1> QED
  BY <1>1, <1>2

(* A process starts: what the cleaning leaves is of earlier processes.     *)
LEMMA RunKeepsFiles ==
  ASSUME FilesInv, Run
  PROVE  FilesInv'
<1>1. /\ FileTypes /\ FindingsAreNew
  BY DEF FilesInv
<1>2. /\ runs' = runs + 1 /\ runs < MaxRuns /\ ran' = << >> /\ phase' = "resources"
  BY DEF Run, Start
<1>3. PICK kept \in SUBSET {f \in Files : files[f] # None} :
        /\ kept # {} => faults < MaxFaults
        /\ faults' = IF kept = {} THEN faults ELSE faults + 1
        /\ files' = [f \in Files |-> IF f \in kept THEN files[f] ELSE None]
        /\ cleaned' = (kept = {}) /\ warned' = {}
  BY DEF Run, Clean
<1>4. runs \in Nat /\ runs' \in 0..MaxRuns /\ runs' # 0 /\ faults' \in 0..MaxFaults
  BY <1>1, <1>2, <1>3, ComplianceAssumption DEF FileTypes
<1>5. files' \in [Files -> FileSet]
  BY <1>1, <1>3, FileKinds DEF FileTypes
<1>6. FileTypes'
  BY <1>2, <1>3, <1>4, <1>5 DEF FileTypes
<1>7. ASSUME NEW f \in Files, NEW k \in DOMAIN files'[f].holds
      PROVE  /\ files'[f].holds[k].run \in Nat /\ files'[f].holds[k].run <= runs
             /\ ~cleaned'
  <2>1. f \in kept /\ files'[f] = files[f]
    BY <1>3, <1>7, FileKinds
  <2>2. files[f].holds \in Seq(FindingSet)
    BY <1>1 DEF FileTypes, FileSet
  <2>3. files[f].holds[k].run \in 1..MaxRuns
    <3>1. files[f].holds[k] \in FindingSet
      BY <1>7, <2>1, <2>2
    <3> QED
      BY <3>1 DEF FindingSet
  <2>4. files'[f].holds[k].run \in Nat
    BY <2>1, <2>3
  <2>5. files[f].holds[k].run <= runs
    BY <1>1, <1>7, <2>1 DEF FindingsAreNew
  <2>6. ~cleaned'
    BY <1>3, <2>1
  <2> QED
    BY <2>1, <2>4, <2>5, <2>6
<1>8. \A v \in Nat : v <= runs => v <= runs + 1 /\ v # runs + 1
  BY <1>4
<1>9. FindingsAreNew' /\ FindingsInPlace'
  BY <1>2, <1>7, <1>8 DEF FindingsAreNew, FindingsInPlace
<1>10. ReportsTell' /\ CombinedComplete'
  BY <1>2 DEF ReportsTell, CombinedComplete
<1> QED
  BY <1>6, <1>9, <1>10 DEF FilesInv

(* The process ends before its first resource.                             *)
LEMMA FatalKeepsFiles ==
  ASSUME ProcessTypes, FilesInv, RunIsFatal
  PROVE  FilesInv'
<1>1. /\ UNCHANGED <<files, cleaned, warned, runs, ran, todo>> /\ todo = Resources
      /\ phase' = "exited" /\ phase = "resources" /\ faults < MaxFaults /\ faults' = faults + 1
  BY DEF RunIsFatal, directory
<1>2. FileTypes' /\ FindingsAreNew'
  BY <1>1, ComplianceAssumption DEF FilesInv, FileTypes, FindingsAreNew
<1>3. CombinedComplete'
  <2> SUFFICES ASSUME todo = {}
               PROVE  CombinedComplete'
    BY <1>1 DEF CombinedComplete
  <2>1. \A i \in DOMAIN ran : FALSE
    <3> SUFFICES ASSUME NEW i \in DOMAIN ran
                 PROVE  FALSE
      OBVIOUS
    <3>1. ran[i] \in RanSet
      BY DEF ProcessTypes
    <3> QED
      BY <1>1, <3>1 DEF RanSet
  <2>2. cleaned => \A k \in DOMAIN files[Combined].holds : files[Combined].holds[k].run = runs
    BY FileKinds DEF FilesInv, FindingsAreNew
  <2> QED
    BY <1>1, <2>1, <2>2 DEF CombinedComplete
<1> QED
  BY <1>1, <1>2, <1>3 DEF FilesInv

(* A resource that is still to be tested has its report torn: no other     *)
(* resource's own report is.                                               *)
LEMMA TornKeepsFiles ==
  ASSUME ProcessTypes, OnceEach, FilesInv, phase = "resources", NEW r \in todo,
         files' = [files EXCEPT ![Report[r]] = Torn],
         UNCHANGED <<runs, cleaned, warned, ran>>, faults' \in 0..MaxFaults,
         phase' \in {"resources", "suite"}
  PROVE  FilesInv'
<1>1. r \in Resources /\ Report[r] \in Files /\ Torn \in FileSet /\ Torn.holds = << >>
  BY FileKinds DEF ProcessTypes
<1>2. FileTypes /\ FindingsAreNew /\ FindingsInPlace /\ ReportsTell
  BY DEF FilesInv
<1>3. FindingsAreNew' /\ files' \in [Files -> FileSet]
  <2>1. \A k \in DOMAIN Torn.holds : Torn.holds[k].run <= runs
                                    /\ (cleaned => Torn.holds[k].run = runs)
    BY <1>1
  <2> QED
    BY <1>1, <1>2, <2>1, WrittenKeepsNew
<1>4. FindingsInPlace'
  <2>1. \A k \in DOMAIN Torn.holds :
          Torn.holds[k].run = runs => Report[r] = Report[Torn.holds[k].res]
    BY <1>1
  <2> QED
    BY <1>1, <1>2, <2>1, WrittenInPlace
<1>5. FileTypes'
  BY <1>2, <1>3 DEF FileTypes
<1>6. ReportsTell'
  <2> SUFFICES ASSUME NEW i \in DOMAIN ran, OwnReport(ran[i].res)
               PROVE  /\ files'[Report[ran[i].res]].is = "json"
                      /\ TellsOnce(files'[Report[ran[i].res]].holds, runs, ran[i])
    BY DEF ReportsTell
  <2>1. ran[i].res \in Resources /\ ran[i].res # r
    <3>1. ran[i] \in RanSet /\ ran[i].res \notin todo
      BY DEF ProcessTypes, OnceEach
    <3> QED
      BY <3>1 DEF RanSet
  <2>2. Report[ran[i].res] # Report[r]
    BY <1>1, <2>1 DEF OwnReport
  <2>3. files'[Report[ran[i].res]] = files[Report[ran[i].res]]
    BY <1>2, <2>1, <2>2, FileKinds DEF FileTypes
  <2> QED
    BY <1>2, <2>3 DEF ReportsTell
<1> QED
  BY <1>3, <1>4, <1>5, <1>6 DEF FilesInv, CombinedComplete

(* The report of a suite that ends tells of each of its scenarios.         *)
LEMMA SuiteEndTells ==
  ASSUME ProcessTypes, OnceEach, Registered, FindingsInv,
         NEW i \in DOMAIN ran, ran[i].res = res, OwnReport(res)
  PROVE  TellsOnce(FindingsNow, runs, ran[i])
<1>0. ran \in Seq(RanSet) /\ Len(ran) \in Nat /\ DOMAIN ran = 1..Len(ran)
  BY DEF ProcessTypes
<1>1. PICK b \in 0..Len(ran) :
        /\ \A j \in 1..b : ran[j].res # res
        /\ \A j \in (b + 1)..Len(ran) : ran[j].res = res
        /\ FindingsSettled(ocsf, ran, b, Provider, runs) \/ FindingsTrailing(ocsf, ran, b, Provider, runs)
  BY DEF FindingsInv, FindingsHold
<1>2. FindingsNow = FindingsOf(ran, b, Provider, runs)
  BY <1>1, FindingsNowAre
<1>9. Provider = res
  <2>1. ran # << >>
    BY <1>0
  <2> QED
    BY <2>1, ProviderIs DEF OwnReport
<1> DEFINE m == Len(ran) - b
           list == FindingsOf(ran, b, Provider, runs)
<1>3. /\ m \in Nat /\ DOMAIN list = 1..m
      /\ \A j \in 1..m : list[j] = FindingOf(ran[b + j], Provider, runs)
  BY <1>0, <1>1, FindingsType DEF FindingsOf
<1>4. i - b \in 1..m /\ b + (i - b) = i
  BY <1>0, <1>1
<1>5. \A j \in 1..m : b + j \in DOMAIN ran /\ ran[b + j].res = res /\ j = (b + j) - b
  BY <1>0, <1>1
<1> HIDE DEF list, m
<1>6. Tells(list[i - b], runs, ran[i])
  BY <1>3, <1>4, <1>9 DEF Tells, FindingOf
<1>7. ASSUME NEW j \in DOMAIN list, Tells(list[j], runs, ran[i])
      PROVE  j = i - b
  <2>1. ran[b + j].scen = ran[i].scen
    BY <1>3, <1>7 DEF Tells, FindingOf
  <2>2. b + j = i
    BY <1>3, <1>5, <1>7, <2>1 DEF OnceEach
  <2> QED
    BY <1>3, <1>5, <1>7, <2>2
<1>8. TellsOnce(list, runs, ran[i])
  BY <1>3, <1>4, <1>6, <1>7 DEF TellsOnce
<1> QED
  BY <1>2, <1>8 DEF list

(* The suite's report is written.                                          *)
LEMMA SuiteEndKeepsFiles ==
  ASSUME ProcessTypes, OnceEach, Registered, FindingsInv, FilesInv, SuiteEnds
  PROVE  FilesInv'
<1>0. ran \in Seq(RanSet)
  BY DEF ProcessTypes
<1>1. /\ phase = "suite" /\ phase' = "resources" /\ UNCHANGED <<runs, cleaned, warned, ran, faults>>
      /\ res \in Resources /\ Report[res] \in Files
      /\ files' = [files EXCEPT ![Report[res]] = Json(FindingsNow)]
  BY FileKinds DEF SuiteEnds, ProcessTypes
<1>2. FileTypes /\ FindingsAreNew /\ FindingsInPlace /\ ReportsTell
  BY <1>1 DEF FilesInv
<1>3. PICK b \in 0..Len(ran) :
        /\ \A j \in (b + 1)..Len(ran) : ran[j].res = res
        /\ FindingsNow = FindingsOf(ran, b, Provider, runs)
  <2>1. PICK b \in 0..Len(ran) :
          /\ \A j \in 1..b : ran[j].res # res
          /\ \A j \in (b + 1)..Len(ran) : ran[j].res = res
          /\ FindingsSettled(ocsf, ran, b, Provider, runs) \/ FindingsTrailing(ocsf, ran, b, Provider, runs)
    BY DEF FindingsInv, FindingsHold
  <2> QED
    BY <2>1, FindingsNowAre
<1> DEFINE list == FindingsOf(ran, b, Provider, runs)
           new == Json(list)
<1>4. /\ list \in Seq(FoundSet(runs)) /\ list \in Seq(FindingSet) /\ runs \in Nat
      /\ Report[Provider] = Report[res]
  BY <1>0, <1>1, <1>2, FindingsType, FoundIsTyped, ProviderIs
<1>5. new \in FileSet /\ new.holds = list /\ new.is = "json"
  BY <1>4, FileKinds
<1>6. \A k \in DOMAIN list : list[k].run = runs /\ list[k].res = Provider
  <2>1. /\ Len(ran) \in Nat
        /\ \A k \in DOMAIN list : k \in 1..(Len(ran) - b) /\ list[k] = FindingOf(ran[b + k], Provider, runs)
    BY <1>0 DEF FindingsOf
  <2>2. \A k \in 1..(Len(ran) - b) : b + k \in (b + 1)..Len(ran)
    BY <2>1
  <2> QED
    BY <1>3, <2>1, <2>2 DEF FindingOf
<1> HIDE DEF list, new
<1>7. files' = [files EXCEPT ![Report[res]] = new]
  BY <1>1, <1>3 DEF new, list
<1>8. FindingsAreNew' /\ files' \in [Files -> FileSet]
  <2>1. \A k \in DOMAIN new.holds : new.holds[k].run <= runs /\ (cleaned => new.holds[k].run = runs)
    BY <1>4, <1>5, <1>6
  <2> QED
    BY <1>1, <1>2, <1>5, <1>7, <2>1, WrittenKeepsNew
<1>9. FindingsInPlace'
  <2>1. \A k \in DOMAIN new.holds :
          new.holds[k].run = runs => Report[res] = Report[new.holds[k].res]
    BY <1>4, <1>5, <1>6
  <2> QED
    BY <1>1, <1>2, <1>5, <1>7, <2>1, WrittenInPlace
<1>10. FileTypes'
  BY <1>1, <1>2, <1>8 DEF FileTypes
<1>11. ReportsTell'
  <2> SUFFICES ASSUME NEW i \in DOMAIN ran, OwnReport(ran[i].res)
               PROVE  /\ files'[Report[ran[i].res]].is = "json"
                      /\ TellsOnce(files'[Report[ran[i].res]].holds, runs, ran[i])
    BY <1>1 DEF ReportsTell
  <2>1. CASE ran[i].res = res
    <3>1. files'[Report[ran[i].res]] = new
      BY <1>1, <1>2, <1>7, <2>1 DEF FileTypes
    <3>2. TellsOnce(list, runs, ran[i])
      BY <1>3, <2>1, SuiteEndTells DEF list
    <3> QED
      BY <1>5, <3>1, <3>2
  <2>2. CASE ran[i].res # res
    <3>1. ran[i].res \in Resources
      <4>1. ran[i] \in RanSet
        BY <1>0
      <4> QED
        BY <4>1 DEF RanSet
    <3>2. Report[ran[i].res] # Report[res]
      BY <1>1, <2>2, <3>1 DEF OwnReport
    <3>3. files'[Report[ran[i].res]] = files[Report[ran[i].res]]
      BY <1>2, <1>7, <3>1, <3>2, FileKinds DEF FileTypes
    <3> QED
      BY <1>2, <2>2, <3>3 DEF ReportsTell
  <2> QED
    BY <2>1, <2>2
<1> QED
  BY <1>1, <1>8, <1>9, <1>10, <1>11 DEF FilesInv, CombinedComplete

(* A list that does not tell of a scenario has no entry on it.             *)
LEMMA NoneIsZero ==
  ASSUME NEW list, NEW i, TellsNone(list, runs, ran[i])
  PROVE  Cardinality(Lists(list, i)) = 0
<1>1. Lists(list, i) = {}
  BY DEF TellsNone, Lists, Tells
<1> QED
  BY <1>1, FS_EmptySet

(* When the run has come to its end, only the report of a scenario's       *)
(* resource tells of the scenario, once, if that report is its own.        *)
LEMMA OwnReportTells ==
  ASSUME ProcessTypes, FilesInv, phase = "resources", NEW i \in DOMAIN ran,
         OwnReport(ran[i].res)
  PROVE  /\ Report[ran[i].res] \in Readable \cap Present
         /\ TellsOnce(files[Report[ran[i].res]].holds, runs, ran[i])
         /\ \A f \in Files \ {Report[ran[i].res]} : TellsNone(files[f].holds, runs, ran[i])
<1>1. FindingsInPlace /\ ReportsTell
  BY DEF FilesInv
<1>2. ran[i].res \in Resources /\ Report[ran[i].res] \in Files
  <2>1. ran[i] \in RanSet
    BY DEF ProcessTypes
  <2> QED
    BY <2>1, FileKinds DEF RanSet
<1>3. /\ files[Report[ran[i].res]].is = "json"
      /\ TellsOnce(files[Report[ran[i].res]].holds, runs, ran[i])
  BY <1>1 DEF ReportsTell
<1>4. Report[ran[i].res] \in Readable /\ Report[ran[i].res] \in Present
  BY <1>2, <1>3, FileKinds DEF Readable, Present
<1>5. ASSUME NEW f \in Files, f # Report[ran[i].res],
             NEW k \in DOMAIN files[f].holds, Tells(files[f].holds[k], runs, ran[i])
      PROVE  FALSE
  <2>1. files[f].holds[k].run = runs /\ files[f].holds[k].res = ran[i].res
    BY <1>5 DEF Tells
  <2> QED
    BY <1>1, <1>5, <2>1 DEF FindingsInPlace
<1> QED
  BY <1>3, <1>4, <1>5 DEF TellsNone

(* The reports are combined: each that tells of a scenario, once, unless   *)
(* it was not read.                                                        *)
LEMMA WritingKeepsFiles ==
  ASSUME ProcessTypes, FilesInv, phase = "resources", CombinedWritten,
         UNCHANGED <<runs, cleaned, ran>>
  PROVE  /\ FileTypes' /\ FindingsAreNew'
         /\ \A i \in DOMAIN ran : OwnReport(ran[i].res) =>
              \/ TellsOnce(files'[Combined].holds, runs, ran[i])
              \/ /\ TellsNone(files'[Combined].holds, runs, ran[i])
                 /\ Report[ran[i].res] \in warned'
<1>1. FileTypes /\ FindingsAreNew
  BY DEF FilesInv
<1>2. PICK read \in SUBSET Readable :
        /\ read # Readable => faults < MaxFaults
        /\ faults' = IF read = Readable THEN faults ELSE faults + 1
        /\ files' = [files EXCEPT ![Combined] = Json(Concatenation(read, files))]
        /\ warned' = Present \ read
  BY DEF CombinedWritten
<1> DEFINE list == Concatenation(read, files)
           new == Json(list)
<1>3. /\ IsFiniteSet(read) /\ read \subseteq Files
      /\ \A f \in read : files[f].holds \in Seq(FindingSet)
  <2>1. read \in SUBSET Files
    BY <1>2 DEF Readable
  <2>2. IsFiniteSet(read)
    BY <2>1, FileKinds, FS_Subset
  <2> QED
    BY <1>1, <2>1, <2>2 DEF FileTypes, FileSet
<1>4. /\ list \in Seq(FindingSet)
      /\ \A k \in DOMAIN list :
           \E f \in read : \E j \in DOMAIN files[f].holds : list[k] = files[f].holds[j]
      /\ \A n, e : \A own \in read :
           /\ TellsOnce(files[own].holds, n, e)
           /\ \A f \in read \ {own} : TellsNone(files[f].holds, n, e)
           => TellsOnce(list, n, e)
  BY <1>3, ConcatenationTells
<1>5. files' = [files EXCEPT ![Combined] = new]
  BY <1>2
<1> HIDE DEF list
<1>6. \A k \in DOMAIN list : list[k].run <= runs /\ (cleaned => list[k].run = runs)
  BY <1>1, <1>3, <1>4 DEF FindingsAreNew
<1>7. new \in FileSet /\ new.holds = list /\ Combined \in Files
  BY <1>4, FileKinds
<1> HIDE DEF new
<1>8. FindingsAreNew' /\ files' \in [Files -> FileSet]
  BY <1>1, <1>5, <1>6, <1>7, WrittenKeepsNew
<1>9. faults' \in 0..MaxFaults /\ warned' \subseteq Files
  BY <1>1, <1>2, ComplianceAssumption DEF FileTypes, Present
<1>10. files'[Combined].holds = list
  BY <1>1, <1>5, <1>7 DEF FileTypes
<1>11. ASSUME NEW i \in DOMAIN ran, OwnReport(ran[i].res)
       PROVE  \/ TellsOnce(list, runs, ran[i])
              \/ TellsNone(list, runs, ran[i]) /\ Report[ran[i].res] \in warned'
  <2>1. PICK own : own = Report[ran[i].res]
    OBVIOUS
  <2>2. /\ own \in Readable \cap Present /\ TellsOnce(files[own].holds, runs, ran[i])
        /\ \A f \in Files \ {own} : TellsNone(files[f].holds, runs, ran[i])
    BY <1>11, <2>1, OwnReportTells
  <2>3. CASE own \in read
    BY <1>3, <1>4, <2>2, <2>3
  <2>4. CASE own \notin read
    <3>1. own \in warned'
      BY <1>2, <2>2, <2>4
    <3>2. ASSUME NEW k \in DOMAIN list
          PROVE  ~Tells(list[k], runs, ran[i])
      <4>1. PICK f \in read : \E j \in DOMAIN files[f].holds : list[k] = files[f].holds[j]
        BY <1>4, <3>2
      <4>2. TellsNone(files[f].holds, runs, ran[i])
        BY <1>3, <2>2, <2>4, <4>1
      <4> QED
        BY <4>1, <4>2 DEF TellsNone
    <3> QED
      BY <2>1, <3>1, <3>2 DEF TellsNone
  <2> QED
    BY <2>3, <2>4
<1> QED
  BY <1>1, <1>8, <1>9, <1>10, <1>11 DEF FileTypes

(* The combined file is not written: it is as it was, or torn.             *)
LEMMA NotWritingKeepsFiles ==
  ASSUME ProcessTypes, FilesInv, phase = "resources", CombinedNotWritten,
         UNCHANGED <<runs, cleaned, ran>>
  PROVE  /\ FileTypes' /\ FindingsAreNew'
         /\ \A i \in DOMAIN ran : OwnReport(ran[i].res) =>
              /\ \/ TellsOnce(files'[Combined].holds, runs, ran[i])
                 \/ TellsNone(files'[Combined].holds, runs, ran[i])
              /\ Report[ran[i].res] \in warned'
<1>1. FileTypes /\ FindingsAreNew
  BY DEF FilesInv
<1>2. /\ faults < MaxFaults /\ faults' = faults + 1 /\ warned' = Files
      /\ files' = files \/ files' = [files EXCEPT ![Combined] = Torn]
  BY DEF CombinedNotWritten
<1>3. Torn \in FileSet /\ Torn.holds = << >> /\ Combined \in Files
  BY FileKinds
<1>4. FindingsAreNew' /\ files' \in [Files -> FileSet]
  <2>1. CASE files' = files
    BY <1>1, <2>1 DEF FindingsAreNew, FileTypes
  <2>2. CASE files' = [files EXCEPT ![Combined] = Torn]
    <3>1. \A k \in DOMAIN Torn.holds : Torn.holds[k].run <= runs
                                      /\ (cleaned => Torn.holds[k].run = runs)
      BY <1>3
    <3> QED
      BY <1>1, <1>3, <2>2, <3>1, WrittenKeepsNew
  <2> QED
    BY <1>2, <2>1, <2>2
<1>5. FileTypes'
  BY <1>1, <1>2, <1>4, ComplianceAssumption DEF FileTypes
<1>6. ASSUME NEW i \in DOMAIN ran, OwnReport(ran[i].res)
      PROVE  /\ \/ TellsOnce(files'[Combined].holds, runs, ran[i])
                \/ TellsNone(files'[Combined].holds, runs, ran[i])
             /\ Report[ran[i].res] \in warned'
  <2>1. PICK own : own = Report[ran[i].res]
    OBVIOUS
  <2>2. /\ own \in Readable \cap Present /\ TellsOnce(files[own].holds, runs, ran[i])
        /\ \A f \in Files \ {own} : TellsNone(files[f].holds, runs, ran[i])
    BY <1>6, <2>1, OwnReportTells
  <2>3. Report[ran[i].res] \in warned'
    BY <1>2, <2>1, <2>2 DEF Readable
  <2>4. CASE files' = files
    BY <1>3, <2>2, <2>3, <2>4
  <2>5. CASE files' = [files EXCEPT ![Combined] = Torn]
    <3>1. files'[Combined].holds = << >>
      BY <1>1, <1>3, <2>5 DEF FileTypes
    <3> QED
      BY <2>3, <3>1 DEF TellsNone
  <2> QED
    BY <1>2, <2>4, <2>5
<1> QED
  BY <1>4, <1>5, <1>6

(* The run ends with the combined file written, or not written and warned  *)
(* of, or with nothing to combine.                                         *)
LEMMA FinishKeepsFiles ==
  ASSUME ProcessTypes, FilesInv, Finish
  PROVE  FilesInv'
<1>1. /\ phase = "resources" /\ phase' = "exited" /\ UNCHANGED <<runs, cleaned, ran>>
      /\ \/ Present = {} /\ UNCHANGED <<files, warned, faults>>
         \/ CombinedWritten
         \/ CombinedNotWritten
  BY DEF Finish, CombineOCSFFiles
<1>2. /\ FileTypes' /\ FindingsAreNew'
      /\ \A i \in DOMAIN ran : OwnReport(ran[i].res) =>
           \/ TellsOnce(files'[Combined].holds, runs, ran[i])
           \/ /\ TellsNone(files'[Combined].holds, runs, ran[i])
              /\ Report[ran[i].res] \in warned'
  <2>1. CASE Present = {} /\ UNCHANGED <<files, warned, faults>>
    <3>1. FileTypes' /\ FindingsAreNew'
      BY <1>1, <2>1 DEF FilesInv, FileTypes, FindingsAreNew
    <3>2. \A i \in DOMAIN ran : ~OwnReport(ran[i].res)
      BY <1>1, <2>1, OwnReportTells
    <3> QED
      BY <3>1, <3>2
  <2>2. CASE CombinedWritten
    BY <1>1, <2>2, WritingKeepsFiles
  <2>3. CASE CombinedNotWritten
    BY <1>1, <2>3, NotWritingKeepsFiles
  <2> QED
    BY <1>1, <2>1, <2>2, <2>3
<1>3. CombinedComplete'
  <2>1. PICK all : all = files'[Combined].holds
    OBVIOUS
  <2>2. ASSUME NEW i \in DOMAIN ran, OwnReport(ran[i].res)
        PROVE  /\ Cardinality(Lists(all, i)) <= 1
               /\ Report[ran[i].res] \notin warned' => Cardinality(Lists(all, i)) = 1
    <3>1. CASE TellsOnce(all, runs, ran[i])
      BY <3>1, OnceIsOne
    <3>2. CASE TellsNone(all, runs, ran[i]) /\ Report[ran[i].res] \in warned'
      BY <3>2, NoneIsZero
    <3> QED
      BY <1>2, <2>1, <2>2, <3>1, <3>2
  <2>3. \A i \in DOMAIN ran : Lists(files[Combined].holds, i)' = Lists(all, i)
    BY <1>1, <2>1 DEF Lists
  <2>4. cleaned' => \A k \in DOMAIN files'[Combined].holds : files'[Combined].holds[k].run = runs'
    BY <1>2, FileKinds DEF FindingsAreNew
  <2> QED
    BY <1>1, <2>2, <2>3, <2>4 DEF CombinedComplete, OwnReport
<1> QED
  BY <1>1, <1>2, <1>3 DEF FilesInv

(* The files stay in step with what ran, whatever step is taken.           *)
LEMMA StepKeepsFiles ==
  ASSUME ProcessTypes, Places, OnceEach, Registered, FindingsInv, FilesInv, [Next]_vars
  PROVE  FilesInv'
<1>0. /\ ran \in Seq(RanSet) /\ faults \in 0..MaxFaults /\ MaxFaults \in Nat
      /\ phase \in {"off", "resources", "suite", "exited"}
  BY ComplianceAssumption DEF ProcessTypes, FilesInv, FileTypes
<1>1. CASE Run
  BY <1>1, RunKeepsFiles
<1>2. CASE RunIsFatal
  BY <1>2, FatalKeepsFiles
<1>3. ASSUME NEW r \in Resources, ResourceHasNoDirectory(r)
      PROVE  FilesInv'
  <2>1. /\ UNCHANGED <<files, runs, cleaned, warned, ran, res, phase>> /\ phase = "resources"
        /\ faults' \in 0..MaxFaults
    BY <1>0, <1>3 DEF ResourceHasNoDirectory, directory
  <2> QED
    BY <2>1, QuietKeepsFiles
<1>4. ASSUME NEW r \in Resources, ResourceSkipped(r)
      PROVE  FilesInv'
  <2>1. /\ UNCHANGED <<runs, cleaned, warned, ran, res, phase>> /\ phase = "resources" /\ r \in todo
        /\ faults' \in 0..MaxFaults
        /\ files' = files \/ files' = [files EXCEPT ![Report[r]] = Torn]
    BY <1>0, <1>4 DEF ResourceSkipped
  <2>2. CASE files' = files
    BY <2>1, <2>2, QuietKeepsFiles
  <2>3. CASE files' = [files EXCEPT ![Report[r]] = Torn]
    BY <2>1, <2>3, TornKeepsFiles
  <2> QED
    BY <2>1, <2>2, <2>3
<1>5. ASSUME NEW r \in Resources, SuiteBegins(r)
      PROVE  FilesInv'
  <2>1. /\ UNCHANGED <<runs, cleaned, warned, ran>> /\ phase = "resources" /\ phase' = "suite" /\ r \in todo
        /\ faults' = faults /\ files' = [files EXCEPT ![Report[r]] = Torn]
    BY <1>5 DEF SuiteBegins
  <2> QED
    BY <1>0, <2>1, TornKeepsFiles
<1>6. CASE ScenarioStarts
  <2> DEFINE n == Len(ran)
             new == [res |-> res, scen |-> Head(queue), ok |-> TRUE, attached |-> 0]
  <2>1. /\ UNCHANGED <<files, runs, cleaned, warned, res, phase, faults>> /\ phase = "suite"
    BY <1>6 DEF ScenarioStarts, directory
  <2>2. /\ n \in Nat /\ DOMAIN ran = 1..n /\ DOMAIN ran' = 1..(n + 1)
        /\ \A i \in 1..n : ran'[i] = ran[i]
        /\ ran'[n + 1] = new
    BY <1>6, StartMoves
  <2>3. new.res = res
    OBVIOUS
  <2> HIDE DEF new
  <2>4. FileTypes /\ FindingsAreNew /\ FindingsInPlace /\ ReportsTell
    BY <2>1 DEF FilesInv
  <2>5. FileTypes' /\ FindingsAreNew' /\ FindingsInPlace'
    BY <2>1, <2>4 DEF FileTypes, FindingsAreNew, FindingsInPlace
  <2>6. ReportsTell'
    <3> SUFFICES ASSUME NEW i \in DOMAIN ran', OwnReport(ran'[i].res), ran'[i].res # res
                 PROVE  /\ files[Report[ran'[i].res]].is = "json"
                        /\ TellsOnce(files[Report[ran'[i].res]].holds, runs, ran'[i])
      BY <2>1 DEF ReportsTell
    <3>1. i \in DOMAIN ran /\ ran'[i] = ran[i]
      BY <2>2, <2>3
    <3> QED
      BY <2>4, <3>1 DEF ReportsTell
  <2> QED
    BY <2>1, <2>5, <2>6 DEF FilesInv, CombinedComplete
<1>7. CASE StepPasses \/ StepSkipped \/ Killed \/ UNCHANGED vars
  <2>1. /\ UNCHANGED <<files, runs, cleaned, warned, ran, res, faults, todo>>
        /\ phase' = phase \/ phase' = "off"
    BY <1>7 DEF StepPasses, StepSkipped, Killed, directory, vars, progress
  <2> QED
    BY <1>0, <2>1, QuietKeepsFiles
<1>8. CASE StepAttaches
  <2>1. /\ ran # << >> /\ Record(TRUE, 1)
        /\ UNCHANGED <<files, runs, cleaned, warned, res, phase, faults, todo>>
    BY <1>8 DEF StepAttaches, Places, directory
  <2>2. /\ DOMAIN ran' = DOMAIN ran
        /\ \A i \in DOMAIN ran : ran'[i].res = ran[i].res /\ ran'[i].scen = ran[i].scen
    BY <1>0, <2>1, RecordKeepsScenes
  <2> QED
    BY <1>0, <2>1, <2>2, QuietKeepsFiles
<1>9. CASE StepFails
  <2>1. /\ ran # << >> /\ Record(FALSE, 0)
        /\ UNCHANGED <<files, runs, cleaned, warned, res, phase, faults, todo>>
    BY <1>9 DEF StepFails, Places, directory
  <2>2. /\ DOMAIN ran' = DOMAIN ran
        /\ \A i \in DOMAIN ran : ran'[i].res = ran[i].res /\ ran'[i].scen = ran[i].scen
    BY <1>0, <2>1, RecordKeepsScenes
  <2> QED
    BY <1>0, <2>1, <2>2, QuietKeepsFiles
<1>10. CASE SuiteEnds
  BY <1>10, SuiteEndKeepsFiles
<1>11. CASE Finish
  BY <1>11, FinishKeepsFiles
<1> QED
  BY <1>1, <1>2, <1>3, <1>4, <1>5, <1>6, <1>7, <1>8, <1>9, <1>10, <1>11
     DEF Next, Resource, Scenario

-----------------------------------------------------------------------------
(* The theorems.                                                           *)

(* The invariant of the process and of all the reports.                    *)
ReportsInv == Inv /\ NoneOpen /\ OnceEach /\ Registered /\ FindingsInv /\ PagesInv /\ FilesInv

(* A harness that has not started has reported nothing.                    *)
LEMMA InitReports == Init => ReportsInv
<1> SUFFICES ASSUME Init
             PROVE  ReportsInv
  OBVIOUS
<1>1. /\ ran = << >> /\ exit = "none" /\ phase = "off" /\ queue = << >> /\ res = Nobody
      /\ attached = [r \in Resources |-> << >>]
      /\ registered = [n \in ReportNames |-> Nobody]
      /\ html = [body |-> << >>, opened |-> << >>] /\ ocsf = [results |-> << >>, current |-> << >>]
      /\ files = [f \in Files |-> None] /\ cleaned = TRUE /\ warned = {} /\ runs = 0 /\ faults = 0
      /\ todo = {} /\ Nobody \notin Resources
  BY ComplianceAssumption DEF Init, NewCollector
<1>2. NoneOpen /\ OnceEach /\ Registered
  BY <1>1 DEF NoneOpen, OnceEach, Registered, NewCollector
<1>3. FindingsInv
  <2>1. FindingsOf(<< >>, 0, Provider, runs) = << >> /\ 0 \in 0..Len(<< >>) /\ Len(<< >>) = 0
    BY DEF FindingsOf
  <2>2. FindingsSettled(ocsf, << >>, 0, Provider, runs)
    BY <1>1, <2>1 DEF FindingsSettled
  <2>3. FindingsHold(ocsf, << >>, res, Provider, runs)
    BY <2>1, <2>2 DEF FindingsHold
  <2> QED
    BY <1>1, <2>3 DEF FindingsInv
<1>4. PagesInv
  <2>1. html \in PageSet
    BY <1>1 DEF PageSet
  <2>2. attached \in [Resources -> Seq(Scenarios)] /\ WorldsHold
    BY <1>1 DEF WorldsHold
  <2> QED
    BY <1>1, <2>1, <2>2 DEF PagesInv
<1>5. FilesInv
  <2>1. FileTypes
    BY <1>1, FileKinds, ComplianceAssumption DEF FileTypes
  <2>2. FindingsAreNew
    BY <1>1, FileKinds DEF FindingsAreNew
  <2> QED
    BY <1>1, <2>1, <2>2 DEF FilesInv, CombinedComplete
<1> QED
  BY <1>2, <1>3, <1>4, <1>5, InitKeeps DEF ReportsInv

(* The invariant of the reports holds in every reachable state.            *)
THEOREM ReportsInvariant == Spec => []ReportsInv
<1>1. Init => ReportsInv
  BY InitReports
<1>2. ReportsInv /\ [Next]_vars => ReportsInv'
  <2> SUFFICES ASSUME ReportsInv, [Next]_vars
               PROVE  ReportsInv'
    OBVIOUS
  <2>1. ProcessTypes /\ Places /\ CollectorsInv /\ FailureInv
    BY DEF ReportsInv, Inv
  <2>2. NoneOpen /\ OnceEach /\ Registered /\ FindingsInv /\ PagesInv /\ FilesInv
    BY DEF ReportsInv
  <2>3. Inv'
    BY <2>1, StepKeepsTypes, StepKeepsPlaces, StepKeepsCollectors, StepKeepsFailure DEF Inv
  <2>4. NoneOpen' /\ OnceEach' /\ Registered' /\ FindingsInv'
    BY <2>1, <2>2, StepKeepsNoneOpen, StepKeepsOnceEach, StepKeepsRegistered, StepKeepsFindings
  <2>5. PagesInv' /\ FilesInv'
    BY <2>1, <2>2, StepKeepsPages, StepKeepsFiles
  <2> QED
    BY <2>3, <2>4, <2>5 DEF ReportsInv
<1> QED
  BY <1>1, <1>2, PTL DEF Spec

(* A sequence of elements of another set is a sequence over that set.      *)
LEMMA Retyped ==
  ASSUME NEW A, NEW B, NEW q \in Seq(A), \A i \in DOMAIN q : q[i] \in B
  PROVE  q \in Seq(B)
<1>1. Len(q) \in Nat /\ DOMAIN q = 1..Len(q) /\ q = [i \in 1..Len(q) |-> q[i]]
  OBVIOUS
<1>2. q \in [1..Len(q) -> B]
  BY <1>1
<1> QED
  BY <1>1, <1>2

(* The findings reported have the type of the report.                      *)
LEMMA OcsfTyped ==
  ASSUME ReportsInv
  PROVE  ocsf \in [results : Seq(FindingSet), current : Seq([scen : Scenarios, code : CodeSet])]
<1>1. /\ ran \in Seq(RanSet) /\ Len(ran) \in Nat /\ FileTypes
      /\ ocsf = [results |-> ocsf.results, current |-> ocsf.current]
      /\ ran # << >> => Provider \in Resources
  BY ProviderIs DEF ReportsInv, Inv, ProcessTypes, FindingsInv, FilesInv
<1>2. PICK b \in 0..Len(ran) :
        FindingsSettled(ocsf, ran, b, Provider, runs) \/ FindingsTrailing(ocsf, ran, b, Provider, runs)
  BY DEF ReportsInv, FindingsInv, FindingsHold
<1>3. FindingsOf(ran, b, Provider, runs) \in Seq(FindingSet)
  <2>1. CASE ran = << >>
    <3>1. b = 0 /\ Len(ran) - b = 0
      BY <2>1
    <3> QED
      BY <3>1 DEF FindingsOf
  <2>2. CASE ran # << >>
    BY <1>1, <2>2, FindingsType, FoundIsTyped
  <2> QED
    BY <2>1, <2>2
<1>4. CASE FindingsSettled(ocsf, ran, b, Provider, runs)
  <2>1. ocsf.results \in Seq(FindingSet)
    BY <1>3, <1>4 DEF FindingsSettled
  <2>2. ocsf.current \in Seq([scen : Scenarios, code : CodeSet])
    BY <1>4 DEF FindingsSettled
  <2> QED
    BY <1>1, <2>1, <2>2
<1>5. CASE FindingsTrailing(ocsf, ran, b, Provider, runs)
  <2> DEFINE m == Len(ran) - b - 1
             last == ran[Len(ran)]
             code == IF last.ok THEN "PASS" ELSE "FAIL"
             list == FindingsOf(ran, b, Provider, runs)
  <2>1. /\ m \in Nat /\ Len(ran) - b = m + 1 /\ ran # << >>
        /\ ocsf.current = <<[scen |-> last.scen, code |-> code]>>
        /\ ocsf.results = [i \in 1..m |-> FindingOf(ran[b + i], Provider, runs)]
    BY <1>1, <1>5 DEF FindingsTrailing
  <2>2. last \in RanSet
    BY <1>1, <2>1
  <2>3. [scen |-> last.scen, code |-> code] \in [scen : Scenarios, code : CodeSet]
    BY <2>2 DEF RanSet, CodeSet
  <2>4. \A i \in 1..m : FindingOf(ran[b + i], Provider, runs) \in FindingSet
    <3>1. \A i \in 1..m : b + i \in 1..Len(ran)
      BY <1>1, <2>1
    <3>2. \A i \in 1..m : ran[b + i] \in RanSet
      BY <1>1, <3>1
    <3>3. FoundSet(runs) \subseteq FindingSet
      BY <1>1, <2>1, FoundIsTyped
    <3> QED
      BY <1>1, <2>1, <3>2, <3>3, FindingType
  <2>5. ocsf.results \in [1..m -> FindingSet]
    BY <2>1, <2>4
  <2>6. ocsf.results \in Seq(FindingSet)
    BY <2>1, <2>5
  <2> HIDE DEF last, code
  <2>7. ocsf.current \in Seq([scen : Scenarios, code : CodeSet])
    BY <2>1, <2>3
  <2> QED
    BY <1>1, <2>6, <2>7
<1> QED
  BY <1>2, <1>4, <1>5

(* Every variable keeps its type: the reports, the collectors and the      *)
(* files of the output directory hold findings and results of scenarios,   *)
(* and every count keeps its bound (modules/reporters,                     *)
(* BasicServiceRunner.go:60-250).                                          *)
THEOREM ComplianceTypes == Spec => []TypeOK
<1>1. ReportsInv => TypeOK
  <2> SUFFICES ASSUME ReportsInv
               PROVE  TypeOK
    OBVIOUS
  <2>1. ProcessTypes /\ Registered /\ PagesInv /\ FileTypes
    BY DEF ReportsInv, Inv, FilesInv
  <2>2. ran \in Seq([res : Resources, scen : Scenarios, ok : BOOLEAN, attached : 0..MaxAttached])
    <3>1. /\ ran \in Seq(RanSet) /\ MaxAttached \in Nat
          /\ \A i \in DOMAIN ran : ran[i].attached <= MaxAttached
      BY <2>1, ComplianceAssumption DEF ProcessTypes, PagesInv
    <3>2. \A i \in DOMAIN ran :
            ran[i] \in [res : Resources, scen : Scenarios, ok : BOOLEAN, attached : 0..MaxAttached]
      <4> TAKE i \in DOMAIN ran
      <4>1. ran[i] \in RanSet /\ ran[i].attached <= MaxAttached
        BY <3>1
      <4>2. ran[i].attached \in 0..MaxAttached
        BY <3>1, <4>1 DEF RanSet
      <4> QED
        BY <4>1, <4>2 DEF RanSet
    <3> QED
      BY <3>1, <3>2, Retyped
  <2>3. ocsf \in [results : Seq(FindingSet), current : Seq([scen : Scenarios, code : CodeSet])]
    BY OcsfTyped
  <2> QED
    BY <2>1, <2>2, <2>3 DEF TypeOK, ProcessTypes, Registered, PagesInv, PageSet, FileTypes, FileSet
<1> QED
  BY <1>1, ReportsInvariant, PTL

(* The OCSF findings of a suite are exactly what ran in it, each with the  *)
(* outcome the other reports give it, and name its resource or one that    *)
(* shares its report name (ocsf-formatter.go, factory.go:36-48).           *)
THEOREM FindingsAreTrue == Spec => []FindingsAgree
<1>1. ReportsInv => FindingsAgree
  BY FindingsFollow DEF ReportsInv, Inv
<1> QED
  BY <1>1, ReportsInvariant, PTL

(* The HTML report shows every attachment once, under the scenario that    *)
(* made it, however many scenarios and suites follow, or, of a suite whose *)
(* report name was registered before, shows none (html-formatter.go,       *)
(* factory.go:18-34).                                                      *)
THEOREM AttachmentsAreInPlace == Spec => []AttachmentsPlaced
<1>1. ReportsInv => AttachmentsPlaced
  BY PagesFollow DEF ReportsInv, Inv
<1> QED
  BY <1>1, ReportsInvariant, PTL

(* The combined file of a run that finished has every scenario of every    *)
(* resource with a report of its own exactly once, or at most once if the  *)
(* log warned of that report, whatever earlier runs left, for any number   *)
(* of report files and any faults in reading and writing them              *)
(* (run.go:175-218).                                                       *)
THEOREM CombinedIsComplete == Spec => []CombinedComplete
<1>1. ReportsInv => CombinedComplete
  BY DEF ReportsInv, FilesInv
<1> QED
  BY <1>1, ReportsInvariant, PTL

(* The plugin's verdict on a requirement is drawn from its own scenarios   *)
(* (privateer_results.go, the behavioural plugin's evaluation steps).      *)
THEOREM VerdictsAreFaithful == Spec => []VerdictFaithful
<1>1. ReportsInv => VerdictFaithful
  BY VerdictsFollow DEF ReportsInv
<1> QED
  BY <1>1, ReportsInvariant, PTL
=============================================================================
