------------------------ MODULE ComplianceRunProofs ------------------------
(***************************************************************************)
(* What ComplianceRun keeps for every plan, every number of resources and  *)
(* scenarios and every bound: the collectors hold what ran, and the exit   *)
(* code tells of a failure.                                                *)
(*                                                                         *)
(* Neither depends on the files of the output directory, so the invariant  *)
(* speaks of the process alone: where it is, what it has run and what the  *)
(* two collectors hold.                                                    *)
(***************************************************************************)
EXTENDS ComplianceRun, TLAPS

RanSet == [res : Resources, scen : Scenarios, ok : BOOLEAN, attached : Nat]
ResultSet == [scen : Scenarios, passing : BOOLEAN]
OpenSet == [scen : Scenarios, ok : BOOLEAN]

(* The part of TypeOK that the two invariants rest on.                     *)
ProcessTypes ==
    /\ phase \in {"off", "resources", "suite", "exited"}
    /\ exit \in {"none", "0", "1"}
    /\ todo \subseteq Resources
    /\ res \in Resources \cup {Nobody}
    /\ phase = "suite" => res \in Resources
    /\ queue \in Seq(Scenarios)
    /\ left \in Nat
    /\ failing \in BOOLEAN
    /\ suiteFails \in BOOLEAN
    /\ faults \in Nat
    /\ ran \in Seq(RanSet)
    /\ summary \in CollectorSet
    /\ privateer \in CollectorSet

(* Only a process that has ended has an exit code; a scenario is open      *)
(* while steps are left, and none is open between two suites.              *)
Places ==
    /\ exit # "none" => phase = "exited"
    /\ phase = "suite" /\ left > 0 =>
         ran # << >> /\ summary.current # << >> /\ privateer.current # << >>
    /\ phase = "resources" => summary.current = << >> /\ privateer.current = << >>

(* What a collector should hold of a history h of scenarios.               *)
TruthOf(h) == [i \in DOMAIN h |-> Outcome(h[i])]

(* A formatter has either finished everything that ran, or all but the     *)
(* last scenario, which it holds with the outcome so far.                  *)
Settled(formatter, h) ==
    /\ formatter.current = << >>
    /\ formatter.results = TruthOf(h)

Trailing(formatter, h) ==
    /\ h # << >>
    /\ formatter.current = <<[scen |-> h[Len(h)].scen, ok |-> h[Len(h)].ok]>>
    /\ formatter.results = [i \in 1..(Len(h) - 1) |-> Outcome(h[i])]

Holds(formatter, h) == Settled(formatter, h) \/ Trailing(formatter, h)

(* CollectorsAgree, made inductive.                                        *)
CollectorsInv ==
    /\ Holds(privateer, ran)
    /\ exit = "none" => Holds(summary, ran)

SomethingFailed == \E i \in DOMAIN ran : ~ran[i].ok

(* ExitTellsFailure, made inductive: the failure of a scenario is known to *)
(* its suite at once and to the run when the suite ends; without a fault   *)
(* nothing else makes the run fail.                                        *)
FailureInv ==
    /\ phase = "suite" /\ SomethingFailed => failing \/ suiteFails
    /\ phase = "resources" /\ SomethingFailed => failing
    /\ suiteFails => SomethingFailed
    /\ failing /\ faults = 0 => SomethingFailed
    /\ ExitTellsFailure

Inv == ProcessTypes /\ Places /\ CollectorsInv /\ FailureInv

-----------------------------------------------------------------------------
(* Lemmas about the operators of the model.                                *)

(* A scenario's result has the type the collectors store.                  *)
LEMMA OutcomeType ==
  ASSUME NEW entry, entry.scen \in Scenarios, entry.ok \in BOOLEAN
  PROVE  Outcome(entry) \in ResultSet
<1>1. Passing(entry.scen, entry.ok) \in BOOLEAN
  BY DEF Passing
<1> QED
  BY <1>1 DEF Outcome, ResultSet

(* What a collector should hold is a sequence of results.                  *)
LEMMA TruthType ==
  ASSUME NEW h \in Seq(RanSet)
  PROVE  TruthOf(h) \in Seq(ResultSet) /\ Len(TruthOf(h)) = Len(h)
<1>1. \A i \in 1..Len(h) : Outcome(h[i]) \in ResultSet
  <2> TAKE i \in 1..Len(h)
  <2>1. h[i] \in RanSet
    OBVIOUS
  <2> QED
    BY <2>1, OutcomeType DEF RanSet
<1>2. DOMAIN h = 1..Len(h) /\ Len(h) \in Nat
  OBVIOUS
<1>3. TruthOf(h) \in [1..Len(h) -> ResultSet]
  BY <1>1, <1>2 DEF TruthOf
<1> QED
  BY <1>2, <1>3

(* A formatter that finishes its open scenario then holds all that ran.    *)
LEMMA HoldsCollects ==
  ASSUME NEW f, NEW h \in Seq(RanSet), Holds(f, h)
  PROVE  Collected(f) = TruthOf(h)
<1>0. TruthOf(h) \in Seq(ResultSet) /\ Len(TruthOf(h)) = Len(h)
  BY TruthType
<1>1. CASE Settled(f, h)
  BY <1>0, <1>1 DEF Settled, Collected, Finalized
<1>2. CASE Trailing(f, h)
  <2> DEFINE n == Len(h) - 1
             front == [i \in 1..n |-> Outcome(h[i])]
  <2>1. n \in Nat /\ Len(h) = n + 1 /\ h[n + 1] \in RanSet
    BY <1>2 DEF Trailing
  <2>2. f.current[1] = [scen |-> h[n + 1].scen, ok |-> h[n + 1].ok] /\ f.current # << >>
    BY <1>2, <2>1 DEF Trailing
  <2>3. Outcome(f.current[1]) = Outcome(h[n + 1])
    BY <2>2 DEF Outcome
  <2>4. Finalized(f.current) = <<Outcome(h[n + 1])>>
    BY <2>2, <2>3 DEF Finalized
  <2>5. front \in Seq(ResultSet) /\ Len(front) = n
    <3>1. \A i \in 1..n : Outcome(h[i]) \in ResultSet
      <4> TAKE i \in 1..n
      <4>1. h[i] \in RanSet
        BY <2>1
      <4> QED
        BY <4>1, OutcomeType DEF RanSet
    <3>2. front \in [1..n -> ResultSet]
      BY <3>1
    <3> QED
      BY <3>2, <2>1
  <2>6. Outcome(h[n + 1]) \in ResultSet
    BY <2>1, OutcomeType DEF RanSet
  <2>7. Collected(f) = front \o <<Outcome(h[n + 1])>>
    BY <1>2, <2>4 DEF Collected, Trailing
  <2>8. \A i \in 1..n : TruthOf(h)[i] = front[i]
    BY <2>1 DEF TruthOf
  <2>9. TruthOf(h)[n + 1] = Outcome(h[n + 1])
    BY <2>1 DEF TruthOf
  <2> HIDE DEF front, n
  <2>10. Collected(f) = TruthOf(h)
    <3> DEFINE last == Outcome(h[n + 1])
               all == TruthOf(h)
    <3>1. all \in Seq(ResultSet) /\ Len(all) = n + 1
      BY <1>0, <2>1
    <3>2. (\A i \in 1..n : all[i] = front[i]) /\ all[n + 1] = last
      BY <2>8, <2>9
    <3> HIDE DEF last, all
    <3>3. all = front \o <<last>>
      BY <2>1, <2>5, <3>1, <3>2
    <3> QED
      BY <2>7, <3>3 DEF last, all
  <2> QED
    BY <2>10
<1> QED
  BY <1>1, <1>2 DEF Holds

(* Finishing keeps the type of the results.                                *)
LEMMA CollectedType ==
  ASSUME NEW f \in CollectorSet
  PROVE  Collected(f) \in Seq(ResultSet)
<1>1. f.results \in Seq(ResultSet) /\ f.current \in Seq(OpenSet)
  BY DEF CollectorSet, ResultSet, OpenSet
<1>2. CASE f.current = << >>
  BY <1>1, <1>2 DEF Collected, Finalized
<1>3. CASE f.current # << >>
  <2>1. f.current[1] \in OpenSet
    BY <1>1, <1>3
  <2>2. Outcome(f.current[1]) \in ResultSet
    BY <2>1, OutcomeType DEF OpenSet
  <2> QED
    BY <1>1, <1>3, <2>2 DEF Collected, Finalized
<1> QED
  BY <1>2, <1>3

(* Recording a step changes the last scenario that ran and nothing else.   *)
LEMMA RecordChanges ==
  ASSUME ran \in Seq(RanSet), ran # << >>,
         NEW ok \in BOOLEAN, NEW made \in Nat, Record(ok, made)
  PROVE  /\ ran' \in Seq(RanSet) /\ ran' # << >>
         /\ Len(ran') = Len(ran)
         /\ DOMAIN ran' = DOMAIN ran
         /\ \A i \in 1..Len(ran) : i # Len(ran) => ran'[i] = ran[i]
         /\ ran'[Len(ran)].scen = ran[Len(ran)].scen
         /\ ran'[Len(ran)].res = ran[Len(ran)].res
         /\ ran'[Len(ran)].ok = ok
         /\ ran'[Len(ran)].attached = ran[Len(ran)].attached + made
<1> DEFINE n == Len(ran)
           last == [ran[n] EXCEPT !.ok = ok, !.attached = @ + made]
<1>1. n \in Nat /\ n > 0 /\ n \in 1..n /\ DOMAIN ran = 1..n /\ ran[n] \in RanSet
  OBVIOUS
<1>2. /\ last \in RanSet /\ last.scen = ran[n].scen /\ last.res = ran[n].res
      /\ last.ok = ok /\ last.attached = ran[n].attached + made
  <2> DEFINE decided == [ran[n] EXCEPT !.ok = ok]
  <2>1. /\ decided \in RanSet /\ decided.scen = ran[n].scen /\ decided.res = ran[n].res
        /\ decided.ok = ok /\ decided.attached = ran[n].attached
    BY <1>1 DEF RanSet
  <2>2. last = [decided EXCEPT !.attached = @ + made]
    BY <1>1 DEF RanSet
  <2> HIDE DEF decided, last
  <2> QED
    BY <2>1, <2>2 DEF RanSet
<1>3. ran' = [ran EXCEPT ![n] = last]
  <2> DEFINE mid == [ran EXCEPT ![n].ok = ok]
  <2>1. mid[n] = [ran[n] EXCEPT !.ok = ok] /\ mid[n].attached = ran[n].attached
    BY <1>1 DEF RanSet
  <2>2. ran' = [mid EXCEPT ![n].attached = mid[n].attached + made]
    BY DEF Record
  <2>3. mid = [ran EXCEPT ![n] = [ran[n] EXCEPT !.ok = ok]]
    OBVIOUS
  <2>4. ran' = [mid EXCEPT ![n] = [mid[n] EXCEPT !.attached = mid[n].attached + made]]
    BY <2>2
  <2>5. last = [mid[n] EXCEPT !.attached = mid[n].attached + made]
    BY <1>1, <2>1 DEF RanSet
  <2> HIDE DEF last
  <2> QED
    BY <1>1, <2>3, <2>4, <2>5
<1> HIDE DEF last, n
<1>4. /\ ran' \in Seq(RanSet) /\ Len(ran') = n /\ DOMAIN ran' = 1..n
      /\ ran'[n] = last /\ \A i \in 1..n : i # n => ran'[i] = ran[i]
  BY <1>1, <1>2, <1>3
<1>5. ran' # << >>
  BY <1>1, <1>4
<1> QED
  BY <1>1, <1>2, <1>4, <1>5 DEF n

(* A collector has two fields, so changing one leaves a record of the other. *)
LEMMA FieldsOfCollector ==
  ASSUME NEW f \in CollectorSet
  PROVE  /\ [f EXCEPT !.current = << >>] = [results |-> f.results, current |-> << >>]
         /\ [f EXCEPT !.results = << >>] = [results |-> << >>, current |-> f.current]
<1>1. f = [results |-> f.results, current |-> f.current]
  BY DEF CollectorSet
<1> DEFINE a == f.results
           b == f.current
<1>2. f = [results |-> a, current |-> b]
  BY <1>1
<1> HIDE DEF a, b
<1>3. [f EXCEPT !.current = << >>] = [results |-> a, current |-> << >>]
  BY <1>2
<1>4. [f EXCEPT !.results = << >>] = [results |-> << >>, current |-> b]
  BY <1>2
<1> QED
  BY <1>3, <1>4 DEF a, b

(* What the callbacks do to a collector keeps it a collector.              *)
LEMMA CollectorKept ==
  ASSUME NEW f \in CollectorSet
  PROVE  /\ NewCollector \in CollectorSet
         /\ \A s \in Scenarios :
              [results |-> Collected(f), current |-> <<[scen |-> s, ok |-> TRUE]>>] \in CollectorSet
         /\ [results |-> Collected(f), current |-> << >>] \in CollectorSet
         /\ [f EXCEPT !.current = << >>] \in CollectorSet
         /\ [f EXCEPT !.results = << >>] \in CollectorSet
<1>1. f.results \in Seq(ResultSet) /\ f.current \in Seq(OpenSet)
  BY DEF CollectorSet, ResultSet, OpenSet
<1>2. Collected(f) \in Seq(ResultSet)
  BY CollectedType
<1>4. NewCollector \in CollectorSet
  BY DEF NewCollector, CollectorSet
<1>5. ASSUME NEW s \in Scenarios
      PROVE  [results |-> Collected(f), current |-> <<[scen |-> s, ok |-> TRUE]>>] \in CollectorSet
  <2>1. <<[scen |-> s, ok |-> TRUE]>> \in Seq(OpenSet)
    BY DEF OpenSet
  <2> QED
    BY <1>2, <2>1 DEF CollectorSet, ResultSet, OpenSet
<1>6. [results |-> Collected(f), current |-> << >>] \in CollectorSet
  BY <1>2 DEF CollectorSet, ResultSet
<1>7. [f EXCEPT !.current = << >>] \in CollectorSet
  <2>1. [f EXCEPT !.current = << >>] = [results |-> f.results, current |-> << >>]
    BY FieldsOfCollector
  <2>2. [results |-> f.results, current |-> << >>] \in CollectorSet
    BY <1>1 DEF CollectorSet, ResultSet
  <2> QED
    BY <2>1, <2>2
<1>8. [f EXCEPT !.results = << >>] \in CollectorSet
  <2>1. [f EXCEPT !.results = << >>] = [results |-> << >>, current |-> f.current]
    BY FieldsOfCollector
  <2>2. [results |-> << >>, current |-> f.current] \in CollectorSet
    BY <1>1 DEF CollectorSet, OpenSet
  <2> QED
    BY <2>1, <2>2
<1> QED
  BY <1>4, <1>5, <1>6, <1>7, <1>8

(* A failed or skipped step keeps a collector a collector.                 *)
LEMMA BrokenType ==
  ASSUME NEW f \in CollectorSet
  PROVE  Broken(f) \in CollectorSet
<1>0. f.results \in Seq(ResultSet) /\ f.current \in Seq(OpenSet)
  BY DEF CollectorSet, ResultSet, OpenSet
<1>1. CASE f.current = << >>
  BY <1>1 DEF Broken
<1>2. CASE f.current # << >>
  <2> DEFINE broken == <<[scen |-> f.current[1].scen, ok |-> FALSE]>>
  <2>1. f.current[1] \in OpenSet
    BY <1>0, <1>2
  <2>2. broken \in Seq(OpenSet)
    BY <2>1 DEF OpenSet
  <2>3. Broken(f) = [f EXCEPT !.current = broken]
    BY <1>2 DEF Broken, CollectorSet
  <2> HIDE DEF broken
  <2> QED
    BY <2>2, <2>3 DEF CollectorSet, OpenSet
<1> QED
  BY <1>1, <1>2

-----------------------------------------------------------------------------
(* Types.                                                                  *)

(* Combining the files adds at most one fault.                             *)
LEMMA CombiningCountsFaults ==
  ASSUME CombineOCSFFiles, faults \in Nat
  PROVE  faults' \in {faults, faults + 1}
BY DEF CombineOCSFFiles, CombinedWritten, CombinedNotWritten

LEMMA StepKeepsTypes ==
  ASSUME ProcessTypes, Places, [Next]_vars
  PROVE  ProcessTypes'
<1> USE DEF ProcessTypes
<1>1. CASE Run
  <2>1. summary' \in CollectorSet /\ privateer' \in CollectorSet
    BY <1>1 DEF Run, Start, NewCollector, CollectorSet
  <2>2. faults' \in Nat
    BY <1>1 DEF Run, Clean
  <2>3. ran' \in Seq(RanSet) /\ queue' \in Seq(Scenarios)
    BY <1>1 DEF Run, Start
  <2> QED
    BY <1>1, <2>1, <2>2, <2>3 DEF Run, Start
<1>2. CASE RunIsFatal
  BY <1>2 DEF RunIsFatal, reporters
<1>3. ASSUME NEW r \in Resources, ResourceHasNoDirectory(r)
      PROVE  ProcessTypes'
  BY <1>3 DEF ResourceHasNoDirectory, reporters
<1>4. ASSUME NEW r \in Resources, ResourceSkipped(r)
      PROVE  ProcessTypes'
  BY <1>4 DEF ResourceSkipped, reporters
<1>5. ASSUME NEW r \in Resources, SuiteBegins(r)
      PROVE  ProcessTypes'
  <2>1. summary' \in CollectorSet /\ privateer' \in CollectorSet
    BY <1>5, CollectorKept DEF SuiteBegins
  <2>2. Plan[r] \in Seq(Scenarios)
    BY ComplianceAssumption
  <2> QED
    BY <1>5, <2>1, <2>2 DEF SuiteBegins
<1>6. CASE ScenarioStarts
  <2> DEFINE s == Head(queue)
             new == [res |-> res, scen |-> s, ok |-> TRUE, attached |-> 0]
  <2>1. s \in Scenarios /\ Tail(queue) \in Seq(Scenarios)
    BY <1>6 DEF ScenarioStarts
  <2>2. summary' \in CollectorSet /\ privateer' \in CollectorSet
    BY <1>6, <2>1, CollectorKept DEF ScenarioStarts, SummaryPickle, PrivateerPickle
  <2>3. new \in RanSet /\ Steps[s] \in Nat
    BY <1>6, <2>1, ComplianceAssumption DEF ScenarioStarts, RanSet
  <2>4. ran' = Append(ran, new) /\ left' = Steps[s]
    BY <1>6 DEF ScenarioStarts
  <2>5. ran' \in Seq(RanSet)
    BY <2>3, <2>4
  <2> QED
    BY <1>6, <2>1, <2>2, <2>3, <2>4, <2>5 DEF ScenarioStarts
<1>7. CASE StepPasses
  BY <1>7 DEF StepPasses, reporters
<1>8. CASE StepAttaches
  <2>1. ran' \in Seq(RanSet)
    BY <1>8, RecordChanges DEF StepAttaches, Places
  <2> QED
    BY <1>8, <2>1 DEF StepAttaches
<1>9. CASE StepFails
  <2>1. ran' \in Seq(RanSet)
    BY <1>9, RecordChanges DEF StepFails, Places
  <2>2. Broken(summary) \in CollectorSet /\ Broken(privateer) \in CollectorSet
    BY BrokenType
  <2> QED
    BY <1>9, <2>1, <2>2 DEF StepFails
<1>10. CASE StepSkipped
  <2>1. Broken(summary) \in CollectorSet /\ Broken(privateer) \in CollectorSet
    BY BrokenType
  <2> QED
    BY <1>10, <2>1 DEF StepSkipped
<1>11. CASE SuiteEnds
  <2>1. summary' \in CollectorSet /\ privateer' \in CollectorSet
    BY <1>11, CollectorKept DEF SuiteEnds
  <2> QED
    BY <1>11, <2>1 DEF SuiteEnds, SomeFailed
<1>12. CASE Finish
  <2>1. summary' \in CollectorSet
    BY <1>12, CollectorKept DEF Finish
  <2>2. faults' \in Nat
    BY <1>12, CombiningCountsFaults DEF Finish
  <2> QED
    BY <1>12, <2>1, <2>2 DEF Finish, ExitCode
<1>13. CASE Killed
  BY <1>13 DEF Killed, reporters
<1>14. CASE UNCHANGED vars
  BY <1>14 DEF vars, progress, reporters
<1> QED
  BY <1>1, <1>2, <1>3, <1>4, <1>5, <1>6, <1>7, <1>8, <1>9, <1>10, <1>11, <1>12, <1>13, <1>14
     DEF Next, Resource, Scenario

-----------------------------------------------------------------------------
(* Places.                                                                 *)

(* A failed or skipped step keeps the open scenario open, and fails it.    *)
LEMMA BrokenOpen ==
  ASSUME NEW f \in CollectorSet, f.current # << >>
  PROVE  /\ Broken(f).results = f.results
         /\ Broken(f).current = <<[scen |-> f.current[1].scen, ok |-> FALSE]>>
         /\ Broken(f).current # << >>
<1> DEFINE broken == <<[scen |-> f.current[1].scen, ok |-> FALSE]>>
<1>1. Broken(f) = [f EXCEPT !.current = broken]
  BY DEF Broken, CollectorSet
<1>2. broken # << >>
  OBVIOUS
<1> HIDE DEF broken
<1>3. Broken(f).results = f.results /\ Broken(f).current = broken
  BY <1>1 DEF CollectorSet
<1> QED
  BY <1>2, <1>3 DEF broken

LEMMA StepKeepsPlaces ==
  ASSUME ProcessTypes, Places, [Next]_vars
  PROVE  Places'
<1> USE DEF Places
<1>1. CASE Run
  BY <1>1 DEF Run, Start, NewCollector
<1>2. CASE RunIsFatal
  BY <1>2 DEF RunIsFatal
<1>3. ASSUME NEW r \in Resources, ResourceHasNoDirectory(r)
      PROVE  Places'
  BY <1>3 DEF ResourceHasNoDirectory, reporters
<1>4. ASSUME NEW r \in Resources, ResourceSkipped(r)
      PROVE  Places'
  BY <1>4 DEF ResourceSkipped, reporters
<1>5. ASSUME NEW r \in Resources, SuiteBegins(r)
      PROVE  Places'
  BY <1>5 DEF SuiteBegins
<1>6. CASE ScenarioStarts
  <2>1. ran' # << >>
    BY <1>6 DEF ScenarioStarts, ProcessTypes
  <2>2. summary'.current # << >> /\ privateer'.current # << >>
    BY <1>6 DEF ScenarioStarts, SummaryPickle, PrivateerPickle
  <2> QED
    BY <1>6, <2>1, <2>2 DEF ScenarioStarts
<1>7. CASE StepPasses
  BY <1>7 DEF StepPasses, reporters
<1>8. CASE StepAttaches
  <2>1. ran' # << >>
    <3>1. ran \in Seq(RanSet) /\ ran # << >> /\ Record(TRUE, 1)
      BY <1>8 DEF StepAttaches, ProcessTypes
    <3> QED
      BY <3>1, RecordChanges
  <2> QED
    BY <1>8, <2>1 DEF StepAttaches
<1>9. CASE StepFails
  <2>1. ran' # << >>
    <3>1. ran \in Seq(RanSet) /\ ran # << >> /\ Record(FALSE, 0)
      BY <1>9 DEF StepFails, ProcessTypes
    <3> QED
      BY <3>1, RecordChanges
  <2>2. summary \in CollectorSet /\ privateer \in CollectorSet
    BY DEF ProcessTypes
  <2>3. /\ summary.current # << >> /\ privateer.current # << >>
        /\ summary' = Broken(summary) /\ privateer' = Broken(privateer)
    BY <1>9 DEF StepFails
  <2>4. summary'.current # << >> /\ privateer'.current # << >>
    BY <2>2, <2>3, BrokenOpen
  <2> QED
    BY <1>9, <2>1, <2>4 DEF StepFails
<1>10. CASE StepSkipped
  <2>1. summary \in CollectorSet /\ privateer \in CollectorSet
    BY DEF ProcessTypes
  <2>2. /\ summary.current # << >> /\ privateer.current # << >>
        /\ summary' = Broken(summary) /\ privateer' = Broken(privateer)
    BY <1>10 DEF StepSkipped
  <2>3. summary'.current # << >> /\ privateer'.current # << >>
    BY <2>1, <2>2, BrokenOpen
  <2> QED
    BY <1>10, <2>3 DEF StepSkipped
<1>11. CASE SuiteEnds
  BY <1>11 DEF SuiteEnds
<1>12. CASE Finish
  BY <1>12 DEF Finish
<1>13. CASE Killed
  BY <1>13 DEF Killed
<1>14. CASE UNCHANGED vars
  BY <1>14 DEF vars, progress, reporters
<1> QED
  BY <1>1, <1>2, <1>3, <1>4, <1>5, <1>6, <1>7, <1>8, <1>9, <1>10, <1>11, <1>12, <1>13, <1>14
     DEF Next, Resource, Scenario

-----------------------------------------------------------------------------
(* The collectors.                                                         *)

(* A step that touches neither the history nor a collector.                *)
LEMMA QuietKeepsHolds ==
  ASSUME CollectorsInv, UNCHANGED <<ran, summary, privateer>>, exit' = "none" => exit = "none"
  PROVE  CollectorsInv'
BY DEF CollectorsInv

(* When a scenario starts, finishing the last one settles it, and the new  *)
(* one is the only one that is missing.                                    *)
LEMMA PickleTrails ==
  ASSUME NEW h \in Seq(RanSet), NEW new \in RanSet, new.ok = TRUE, NEW f,
         f.results = TruthOf(h), f.current = <<[scen |-> new.scen, ok |-> TRUE]>>
  PROVE  Trailing(f, Append(h, new))
<1> DEFINE g == Append(h, new)
<1>1. /\ g # << >> /\ Len(g) = Len(h) + 1 /\ g[Len(g)] = new
      /\ \A i \in 1..Len(h) : g[i] = h[i]
      /\ DOMAIN h = 1..Len(h) /\ Len(h) \in Nat
  OBVIOUS
<1> HIDE DEF g
<1>2. Len(g) - 1 = Len(h)
  BY <1>1
<1>3. TruthOf(h) = [i \in 1..(Len(g) - 1) |-> Outcome(g[i])]
  BY <1>1, <1>2 DEF TruthOf
<1>4. Trailing(f, g)
  BY <1>1, <1>3 DEF Trailing
<1> QED
  BY <1>4 DEF g

(* Recording a step in the history and in the open scenario alike keeps    *)
(* the formatter one scenario behind.                                      *)
LEMMA RecordTrails ==
  ASSUME NEW h \in Seq(RanSet), h # << >>, NEW g \in Seq(RanSet), Len(g) = Len(h),
         \A i \in 1..Len(h) : i # Len(h) => g[i] = h[i],
         g[Len(h)].scen = h[Len(h)].scen,
         NEW f, NEW e, Trailing(f, h),
         e.results = f.results,
         e.current = <<[scen |-> h[Len(h)].scen, ok |-> g[Len(h)].ok]>>
  PROVE  Trailing(e, g)
<1>1. Len(h) \in Nat /\ Len(h) > 0 /\ g # << >>
  OBVIOUS
<1>2. \A i \in 1..(Len(h) - 1) : g[i] = h[i]
  BY <1>1
<1>3. e.results = [i \in 1..(Len(h) - 1) |-> Outcome(h[i])]
  BY DEF Trailing
<1>4. e.results = [i \in 1..(Len(g) - 1) |-> Outcome(g[i])]
  BY <1>2, <1>3
<1> QED
  BY <1>1, <1>4 DEF Trailing

(* A failed or skipped step, recorded in the history.                      *)
LEMMA BrokenTrails ==
  ASSUME NEW h \in Seq(RanSet), h # << >>, NEW g \in Seq(RanSet), Len(g) = Len(h),
         \A i \in 1..Len(h) : i # Len(h) => g[i] = h[i],
         g[Len(h)].scen = h[Len(h)].scen, g[Len(h)].ok = FALSE,
         NEW f \in CollectorSet, Holds(f, h), f.current # << >>
  PROVE  Trailing(Broken(f), g)
<1>1. Trailing(f, h)
  BY DEF Holds, Settled
<1>2. f.current[1].scen = h[Len(h)].scen
  BY <1>1 DEF Trailing
<1>3. /\ Broken(f).results = f.results
      /\ Broken(f).current = <<[scen |-> h[Len(h)].scen, ok |-> g[Len(h)].ok]>>
  BY <1>2, BrokenOpen
<1> QED
  BY <1>1, <1>3, RecordTrails

(* The collectors keep holding what ran, whatever step is taken.           *)
LEMMA StepKeepsCollectors ==
  ASSUME ProcessTypes, Places, CollectorsInv, [Next]_vars
  PROVE  CollectorsInv'
<1>0. /\ ran \in Seq(RanSet) /\ summary \in CollectorSet /\ privateer \in CollectorSet
      /\ Holds(privateer, ran)
      /\ exit = "none" => Holds(summary, ran)
  BY DEF ProcessTypes, CollectorsInv
<1>1. CASE Run
  <2>1. ran' = << >> /\ summary' = NewCollector /\ privateer' = NewCollector
    BY <1>1 DEF Run, Start
  <2>2. TruthOf(<< >>) = << >>
    BY DEF TruthOf
  <2> QED
    BY <2>1, <2>2 DEF CollectorsInv, Holds, Settled, NewCollector
<1>2. CASE RunIsFatal
  BY <1>2, QuietKeepsHolds DEF RunIsFatal, reporters
<1>3. ASSUME NEW r \in Resources, ResourceHasNoDirectory(r)
      PROVE  CollectorsInv'
  BY <1>3, QuietKeepsHolds DEF ResourceHasNoDirectory, reporters
<1>4. ASSUME NEW r \in Resources, ResourceSkipped(r)
      PROVE  CollectorsInv'
  BY <1>4, QuietKeepsHolds DEF ResourceSkipped, reporters
<1>5. ASSUME NEW r \in Resources, SuiteBegins(r)
      PROVE  CollectorsInv'
  <2>1. summary.current = << >> /\ privateer.current = << >>
    BY <1>5 DEF SuiteBegins, Places
  <2>2. summary' = summary /\ privateer' = privateer
    BY <1>0, <1>5, <2>1 DEF SuiteBegins, CollectorSet
  <2> QED
    BY <1>5, <2>2, QuietKeepsHolds DEF SuiteBegins
<1>6. CASE ScenarioStarts
  <2> DEFINE s == Head(queue)
             new == [res |-> res, scen |-> s, ok |-> TRUE, attached |-> 0]
  <2>1. new \in RanSet /\ new.ok = TRUE /\ new.scen = s
    BY <1>6 DEF ScenarioStarts, ProcessTypes, RanSet
  <2>2. /\ ran' = Append(ran, new) /\ exit' = exit
        /\ summary' = [results |-> Collected(summary), current |-> <<[scen |-> s, ok |-> TRUE]>>]
        /\ privateer' = [results |-> Collected(privateer), current |-> <<[scen |-> s, ok |-> TRUE]>>]
    BY <1>6 DEF ScenarioStarts, SummaryPickle, PrivateerPickle
  <2>3. /\ Collected(privateer) = TruthOf(ran)
        /\ exit = "none" => Collected(summary) = TruthOf(ran)
    BY <1>0, HoldsCollects
  <2> HIDE DEF new, s
  <2>4. Trailing(privateer', Append(ran, new))
    BY <1>0, <2>1, <2>2, <2>3, PickleTrails
  <2>5. exit = "none" => Trailing(summary', Append(ran, new))
    BY <1>0, <2>1, <2>2, <2>3, PickleTrails
  <2> QED
    BY <2>2, <2>4, <2>5 DEF CollectorsInv, Holds
<1>7. CASE StepPasses
  BY <1>7, QuietKeepsHolds DEF StepPasses, reporters
<1>8. CASE StepAttaches
  <2>1. /\ phase = "suite" /\ left > 0 /\ Current.ok /\ Record(TRUE, 1)
        /\ summary' = summary /\ privateer' = privateer /\ exit' = exit
    BY <1>8 DEF StepAttaches
  <2>2. ran # << >> /\ summary.current # << >> /\ privateer.current # << >>
    BY <2>1 DEF Places
  <2>3. /\ ran' \in Seq(RanSet) /\ Len(ran') = Len(ran)
        /\ \A i \in 1..Len(ran) : i # Len(ran) => ran'[i] = ran[i]
        /\ ran'[Len(ran)].scen = ran[Len(ran)].scen
        /\ ran'[Len(ran)].ok = TRUE /\ ran[Len(ran)].ok = TRUE
    BY <1>0, <2>1, <2>2, RecordChanges DEF Current, RanSet
  <2>4. ASSUME NEW f, Holds(f, ran), f.current # << >>
        PROVE  Trailing(f, ran')
    <3>1. Trailing(f, ran)
      BY <2>4 DEF Holds, Settled
    <3>2. f.current = <<[scen |-> ran[Len(ran)].scen, ok |-> ran'[Len(ran)].ok]>>
      BY <2>3, <3>1 DEF Trailing
    <3> QED
      BY <1>0, <2>2, <2>3, <3>1, <3>2, RecordTrails
  <2> QED
    BY <1>0, <2>1, <2>2, <2>4 DEF CollectorsInv, Holds
<1>9. CASE StepFails
  <2>1. /\ phase = "suite" /\ left > 0 /\ Record(FALSE, 0) /\ exit' = exit
        /\ summary' = Broken(summary) /\ privateer' = Broken(privateer)
    BY <1>9 DEF StepFails
  <2>2. ran # << >> /\ summary.current # << >> /\ privateer.current # << >>
    BY <2>1 DEF Places
  <2>3. /\ ran' \in Seq(RanSet) /\ Len(ran') = Len(ran)
        /\ \A i \in 1..Len(ran) : i # Len(ran) => ran'[i] = ran[i]
        /\ ran'[Len(ran)].scen = ran[Len(ran)].scen
        /\ ran'[Len(ran)].ok = FALSE
    BY <1>0, <2>1, <2>2, RecordChanges
  <2>4. ASSUME NEW f \in CollectorSet, Holds(f, ran), f.current # << >>
        PROVE  Trailing(Broken(f), ran')
    BY <1>0, <2>2, <2>3, <2>4, BrokenTrails
  <2> QED
    BY <1>0, <2>1, <2>2, <2>4 DEF CollectorsInv, Holds
<1>10. CASE StepSkipped
  <2>1. /\ phase = "suite" /\ left > 0 /\ ~Current.ok /\ ran' = ran /\ exit' = exit
        /\ summary' = Broken(summary) /\ privateer' = Broken(privateer)
    BY <1>10 DEF StepSkipped
  <2>2. ran # << >> /\ summary.current # << >> /\ privateer.current # << >>
    BY <2>1 DEF Places
  <2>3. ran[Len(ran)].ok = FALSE
    BY <1>0, <2>1, <2>2 DEF Current, RanSet
  <2>4. ASSUME NEW f \in CollectorSet, Holds(f, ran), f.current # << >>
        PROVE  Trailing(Broken(f), ran)
    BY <1>0, <2>2, <2>3, <2>4, BrokenTrails
  <2> QED
    BY <1>0, <2>1, <2>2, <2>4 DEF CollectorsInv, Holds
<1>11. CASE SuiteEnds
  <2>1. /\ summary' = [results |-> Collected(summary), current |-> << >>]
        /\ privateer' = [results |-> Collected(privateer), current |-> << >>]
        /\ ran' = ran /\ exit' = exit
    BY <1>11 DEF SuiteEnds
  <2>2. /\ Collected(privateer) = TruthOf(ran)
        /\ exit = "none" => Collected(summary) = TruthOf(ran)
    BY <1>0, HoldsCollects
  <2> QED
    BY <2>1, <2>2 DEF CollectorsInv, Holds, Settled
<1>12. CASE Finish
  BY <1>0, <1>12 DEF Finish, ExitCode, CollectorsInv
<1>13. CASE Killed
  BY <1>13, QuietKeepsHolds DEF Killed, reporters
<1>14. CASE UNCHANGED vars
  BY <1>14, QuietKeepsHolds DEF vars, progress, reporters
<1> QED
  BY <1>1, <1>2, <1>3, <1>4, <1>5, <1>6, <1>7, <1>8, <1>9, <1>10, <1>11, <1>12, <1>13, <1>14
     DEF Next, Resource, Scenario

-----------------------------------------------------------------------------
(* The exit code.                                                          *)

(* A step that changes neither the history nor what is known of failures.  *)
LEMMA QuietKeepsFailure ==
  ASSUME FailureInv, UNCHANGED <<ran, suiteFails, failing, exit, faults>>,
         phase' \in {"suite", "resources"} => phase' = phase
  PROVE  FailureInv'
BY DEF FailureInv, SomethingFailed, ExitTellsFailure

LEMMA StepKeepsFailure ==
  ASSUME ProcessTypes, Places, FailureInv, [Next]_vars
  PROVE  FailureInv'
<1>0. ran \in Seq(RanSet) /\ faults \in Nat
  BY DEF ProcessTypes
<1>1. CASE Run
  <2>1. /\ ran' = << >> /\ exit' = "none" /\ failing' = FALSE /\ suiteFails' = FALSE
    BY <1>1 DEF Run, Start
  <2>2. ~SomethingFailed'
    BY <2>1 DEF SomethingFailed
  <2> QED
    BY <2>1, <2>2 DEF FailureInv, ExitTellsFailure
<1>2. CASE RunIsFatal
  <2>1. /\ UNCHANGED <<ran, suiteFails, failing>> /\ exit' = "1" /\ phase' = "exited"
        /\ faults' # 0
    BY <1>0, <1>2 DEF RunIsFatal
  <2> QED
    BY <2>1 DEF FailureInv, SomethingFailed, ExitTellsFailure
<1>3. ASSUME NEW r \in Resources, ResourceHasNoDirectory(r)
      PROVE  FailureInv'
  <2>1. /\ UNCHANGED <<ran, suiteFails, exit, phase>> /\ failing' = TRUE
        /\ faults' # 0 /\ exit = "none"
    BY <1>0, <1>3 DEF ResourceHasNoDirectory, Places
  <2> QED
    BY <2>1 DEF FailureInv, SomethingFailed, ExitTellsFailure
<1>4. ASSUME NEW r \in Resources, ResourceSkipped(r)
      PROVE  FailureInv'
  <2>1. /\ UNCHANGED <<ran, suiteFails, failing, exit, phase>> /\ faults' # 0 /\ exit = "none"
    BY <1>0, <1>4 DEF ResourceSkipped, Places
  <2> QED
    BY <2>1 DEF FailureInv, SomethingFailed, ExitTellsFailure
<1>5. ASSUME NEW r \in Resources, SuiteBegins(r)
      PROVE  FailureInv'
  <2>1. /\ UNCHANGED <<ran, failing, exit, faults>> /\ suiteFails' = FALSE
        /\ phase = "resources" /\ phase' = "suite" /\ exit = "none"
    BY <1>5 DEF SuiteBegins, Places
  <2> QED
    BY <2>1 DEF FailureInv, SomethingFailed, ExitTellsFailure
<1>6. CASE ScenarioStarts
  <2> DEFINE new == [res |-> res, scen |-> Head(queue), ok |-> TRUE, attached |-> 0]
  <2>1. /\ UNCHANGED <<failing, suiteFails, exit, faults, phase>> /\ ran' = Append(ran, new)
        /\ phase = "suite" /\ exit = "none"
    BY <1>6 DEF ScenarioStarts, Places
  <2>2. /\ DOMAIN ran = 1..Len(ran) /\ DOMAIN ran' = 1..(Len(ran) + 1) /\ Len(ran) \in Nat
        /\ \A i \in 1..Len(ran) : ran'[i] = ran[i]
        /\ ran'[Len(ran) + 1] = new /\ new.ok = TRUE
    BY <1>0, <2>1
  <2> HIDE DEF new
  <2>3. SomethingFailed' <=> SomethingFailed
    BY <2>2 DEF SomethingFailed
  <2> QED
    BY <2>1, <2>3 DEF FailureInv, ExitTellsFailure
<1>7. CASE StepPasses
  BY <1>7, QuietKeepsFailure DEF StepPasses
<1>8. CASE StepAttaches
  <2>1. /\ UNCHANGED <<failing, suiteFails, exit, faults, phase>> /\ Record(TRUE, 1)
        /\ Current.ok /\ ran # << >> /\ exit = "none"
    BY <1>8 DEF StepAttaches, Places
  <2>2. /\ DOMAIN ran' = DOMAIN ran
        /\ \A i \in 1..Len(ran) : i # Len(ran) => ran'[i] = ran[i]
        /\ ran'[Len(ran)].ok = TRUE
    BY <1>0, <2>1, RecordChanges
  <2>3. DOMAIN ran = 1..Len(ran) /\ ran[Len(ran)].ok
    BY <1>0, <2>1 DEF Current
  <2>4. SomethingFailed' <=> SomethingFailed
    BY <2>2, <2>3 DEF SomethingFailed
  <2> QED
    BY <2>1, <2>4 DEF FailureInv, ExitTellsFailure
<1>9. CASE StepFails
  <2>1. /\ UNCHANGED <<failing, exit, faults, phase>> /\ Record(FALSE, 0) /\ suiteFails' = TRUE
        /\ phase = "suite" /\ ran # << >> /\ exit = "none"
    BY <1>9 DEF StepFails, Places
  <2>2. DOMAIN ran' = DOMAIN ran /\ ran'[Len(ran)].ok = FALSE
    BY <1>0, <2>1, RecordChanges
  <2>3. Len(ran) \in DOMAIN ran
    BY <1>0, <2>1
  <2>4. SomethingFailed'
    BY <2>2, <2>3 DEF SomethingFailed
  <2> QED
    BY <2>1, <2>4 DEF FailureInv, ExitTellsFailure
<1>10. CASE StepSkipped
  BY <1>10, QuietKeepsFailure DEF StepSkipped
<1>11. CASE SuiteEnds
  <2>1. /\ UNCHANGED <<ran, suiteFails, exit, faults>> /\ failing' = (failing \/ suiteFails)
        /\ phase = "suite" /\ phase' = "resources" /\ exit = "none"
    BY <1>11 DEF SuiteEnds, SomeFailed, Places
  <2> QED
    BY <2>1 DEF FailureInv, SomethingFailed, ExitTellsFailure
<1>12. CASE Finish
  <2>1. /\ UNCHANGED <<ran, suiteFails, failing>>
        /\ exit' = (IF failing THEN "1" ELSE "0")
        /\ phase = "resources" /\ phase' = "exited"
    BY <1>12 DEF Finish, ExitCode
  <2>2. faults' = 0 => faults = 0
    BY <1>0, <1>12, CombiningCountsFaults DEF Finish
  <2> QED
    BY <2>1, <2>2 DEF FailureInv, SomethingFailed, ExitTellsFailure
<1>13. CASE Killed
  BY <1>13, QuietKeepsFailure DEF Killed
<1>14. CASE UNCHANGED vars
  BY <1>14, QuietKeepsFailure DEF vars, progress
<1> QED
  BY <1>1, <1>2, <1>3, <1>4, <1>5, <1>6, <1>7, <1>8, <1>9, <1>10, <1>11, <1>12, <1>13, <1>14
     DEF Next, Resource, Scenario

-----------------------------------------------------------------------------
(* The theorems.                                                           *)

LEMMA InitKeeps == Init => Inv
<1> SUFFICES ASSUME Init
             PROVE  Inv
  OBVIOUS
<1>1. ran = << >> /\ TruthOf(<< >>) = << >>
  BY DEF Init, TruthOf
<1>2. summary \in CollectorSet /\ privateer \in CollectorSet
  BY DEF Init, NewCollector, CollectorSet
<1>3. ProcessTypes
  <2>1. /\ phase = "off" /\ exit = "none" /\ todo = {} /\ res = Nobody /\ queue = << >>
        /\ left = 0 /\ failing = FALSE /\ suiteFails = FALSE /\ faults = 0
    BY DEF Init
  <2>2. ran \in Seq(RanSet)
    BY <1>1
  <2>3. queue \in Seq(Scenarios)
    BY <2>1
  <2> QED
    BY <1>2, <2>1, <2>2, <2>3 DEF ProcessTypes
<1>4. Places
  BY DEF Init, Places, NewCollector
<1>5. CollectorsInv
  BY <1>1 DEF Init, CollectorsInv, Holds, Settled, NewCollector
<1>6. FailureInv
  BY <1>1 DEF Init, FailureInv, SomethingFailed, ExitTellsFailure
<1> QED
  BY <1>3, <1>4, <1>5, <1>6 DEF Inv

(* The invariant holds in every reachable state.                           *)
THEOREM ProcessInvariant == Spec => []Inv
<1>1. Init => Inv
  BY InitKeeps
<1>2. Inv /\ [Next]_vars => Inv'
  BY StepKeepsTypes, StepKeepsPlaces, StepKeepsCollectors, StepKeepsFailure DEF Inv
<1> QED
  BY <1>1, <1>2, PTL DEF Spec

(* Whatever the plan, the faults and the moment the process is killed, the *)
(* Privateer collector, and the summary's until its report is made, hold   *)
(* every scenario that ran, once, in order and with its own outcome, up to *)
(* the one that is still open (privateer-formatter.go:70-136,              *)
(* summary-formatter.go:46-131).                                           *)
THEOREM CollectorsAreFaithful == Spec => []CollectorsAgree
<1>1. Inv => CollectorsAgree
  <2> SUFFICES ASSUME Inv
               PROVE  CollectorsAgree
    OBVIOUS
  <2>1. /\ ran \in Seq(RanSet) /\ Holds(privateer, ran)
        /\ exit = "none" => Holds(summary, ran)
    BY DEF Inv, ProcessTypes, CollectorsInv
  <2>2. Truth = TruthOf(ran)
    BY DEF Truth, TruthOf
  <2> QED
    BY <2>1, <2>2, HoldsCollects DEF CollectorsAgree
<1> QED
  BY <1>1, ProcessInvariant, PTL

(* A run that exits with 0 ran no scenario that failed, on any resource,   *)
(* and without a fault a run that exits with 1 ran one that did            *)
(* (BasicServiceRunner.go:185-248).                                        *)
THEOREM ExitCodeTellsFailure == Spec => []ExitTellsFailure
<1>1. Inv => ExitTellsFailure
  BY DEF Inv, FailureInv
<1> QED
  BY <1>1, ProcessInvariant, PTL
=============================================================================
