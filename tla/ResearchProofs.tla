--------------------------- MODULE ResearchProofs ---------------------------
(***************************************************************************)
(* What MCResearch checks on small instances holds for any number of       *)
(* experiments, scans, documents, analyses, tasks, processes and runs: a   *)
(* budget runs only under a licence and a waiting experiment shows a       *)
(* request of its own; findings stand, builds are not lost, scores and     *)
(* pages follow their sources; and for all estimates and files of rules, a *)
(* score lies within its range and a worse finding scores no higher, and   *)
(* the rules of a source are applied as written.  Each service has an      *)
(* inductive invariant of its own, and at the end a step of all of them is *)
(* shown to be a step of one of them.                                      *)
(***************************************************************************)
EXTENDS MCResearch, FiniteSetTheorems, FunctionTheorems, SequenceTheorems,
        WellFoundedInduction, TLAPS

-----------------------------------------------------------------------------
(***************************************************************************)
(* The inductive invariant: what a call of start may rely on after each of *)
(* its statements.  Requests never change what they are about, so what the *)
(* call was answered with still holds when it writes the row.              *)
(***************************************************************************)
StartInv(s) ==
  /\ startPhase[s] # "idle" => startOn[s] \in Experiment
  /\ startPhase[s] \in {"asking", "storing"} => startOn[s] \in Budgeted
  /\ startPhase[s] = "storing" => answer[s] \in Approval /\ about[answer[s]] = startOn[s]
  /\ startPhase[s] = "marking" /\ startOn[s] \in Budgeted =>
       SpendDecision \cap {"simulate", "allow"} # {}

LicenceInv ==
  /\ \A s \in Starter : StartInv(s)
  /\ WaitsForOwnRequest

-----------------------------------------------------------------------------
(* Types *)

LEMMA InitTypeOK == Init => TypeOK
BY ExperimentsAssumption
   DEF Init, TypeOK, Status, Ended, StartPhase, Decision, Human!Init, Human!Verdict

LEMMA StartStepTypeOK ==
  ASSUME TypeOK, NEW s \in Starter, StartStep(s)
  PROVE  TypeOK'
<1> USE DEF rowVars, humanVars, startVars, evalVars, TypeOK, StartPhase, Status, Ended
<1>1. ASSUME NEW e \in Experiment, Start(s, e) PROVE TypeOK'
  BY <1>1, ExperimentsAssumption DEF Start
<1>2. ASSUME NEW d \in {"deny", "require_approval", "simulate", "allow"}, PolicyAnswers(s, d)
      PROVE  TypeOK'
  BY <1>2 DEF PolicyAnswers, StartOver, StartGoto
<1>3. ASSUME NEW a \in Approval, AskNew(s, a) PROVE TypeOK'
  BY <1>3 DEF AskNew, StartGoto
<1>4. ASSUME NEW a \in Approval, AskFinds(s, a) PROVE TypeOK'
  BY <1>4 DEF AskFinds, StartGoto
<1>5. CASE StorePending(s)
  BY <1>5 DEF StorePending, StartOver
<1>6. CASE MarkRunning(s)
  BY <1>6 DEF MarkRunning, StartOver
<1>7. CASE StartDies(s)
  BY <1>7 DEF StartDies, StartOver
<1> QED
  BY <1>1, <1>2, <1>3, <1>4, <1>5, <1>6, <1>7 DEF StartStep

LEMMA NextTypeOK == TypeOK /\ [Next]_vars => TypeOK'
<1> SUFFICES ASSUME TypeOK, [Next]_vars PROVE TypeOK'
  OBVIOUS
<1> USE DEF rowVars, humanVars, startVars, evalVars, TypeOK, Status, Ended
<1>1. CASE UNCHANGED vars
  BY <1>1 DEF vars
<1>2. ASSUME NEW e \in Experiment, Create(e) PROVE TypeOK'
  BY <1>2 DEF Create
<1>3. ASSUME NEW e \in Experiment, Stop(e) PROVE TypeOK'
  BY <1>3 DEF Stop
<1>4. ASSUME NEW s \in Starter, StartStep(s) PROVE TypeOK'
  BY <1>4, StartStepTypeOK
<1>5. ASSUME NEW a \in Approval, Execute(a) PROVE TypeOK'
  <2>1. exStatus' \in [Experiment -> Status]
    BY <1>5 DEF Execute
  <2>2. effects' \in [Approval -> 0..1]
    BY <1>5 DEF Execute, Human!Perform
  <2> QED
    BY <1>5, <2>1, <2>2 DEF Execute, Human!Perform
<1>6. ASSUME NEW a \in Approval, NEW v \in Human!Verdict, Decide(a, v) PROVE TypeOK'
  BY <1>6 DEF Decide, Human!Rule
<1>7. ASSUME NEW v \in Evaluator, EvaluateStep(v) PROVE TypeOK'
  <2>1. ASSUME NEW e \in Experiment, NEW d \in Decision, Evaluate(v, e, d) PROVE TypeOK'
    BY <2>1 DEF Evaluate
  <2>2. CASE ApplyDecision(v)
    BY <2>2 DEF ApplyDecision, StatusAfter, Decision
  <2>3. CASE EvaluateDies(v)
    BY <2>3 DEF EvaluateDies, Decision
  <2> QED
    BY <1>7, <2>1, <2>2, <2>3 DEF EvaluateStep
<1> QED
  BY <1>1, <1>2, <1>3, <1>4, <1>5, <1>6, <1>7 DEF Next

\* The rows and calls keep their types.
THEOREM TypeCorrect == Spec => []TypeOK
BY InitTypeOK, NextTypeOK, PTL DEF Spec

-----------------------------------------------------------------------------
(* The invariant *)

LEMMA InitLicenceInv == Init => LicenceInv
BY DEF Init, LicenceInv, StartInv, WaitsForOwnRequest

\* A step of one call touches no other, and the requests keep their subject.
LEMMA OtherStarts ==
  ASSUME TypeOK, LicenceInv, NEW s \in Starter,
         \A a \in Approval : about[a] # NoExperiment => about'[a] = about[a],
         \A t \in Starter \ {s} : /\ startPhase'[t] = startPhase[t]
                                  /\ startOn'[t] = startOn[t]
                                  /\ answer'[t] = answer[t]
  PROVE  \A t \in Starter \ {s} : StartInv(t)'
BY ExperimentsAssumption DEF TypeOK, LicenceInv, StartInv

LEMMA StartStepLicenceInv ==
  ASSUME TypeOK, LicenceInv, NEW s \in Starter, StartStep(s)
  PROVE  LicenceInv'
<1> USE DEF rowVars, humanVars, startVars, evalVars
<1>1. ASSUME NEW e \in Experiment, Start(s, e) PROVE LicenceInv'
  <2>1. StartInv(s)'
    BY <1>1 DEF Start, StartInv, TypeOK
  <2> QED
    BY <1>1, <2>1, OtherStarts DEF Start, LicenceInv, WaitsForOwnRequest, TypeOK
<1>2. ASSUME NEW d \in {"deny", "require_approval", "simulate", "allow"}, PolicyAnswers(s, d)
      PROVE  LicenceInv'
  <2>1. StartInv(s)'
    <3>1. CASE d = "deny"
      BY <1>2, <3>1 DEF PolicyAnswers, StartOver, StartInv, TypeOK
    <3>2. CASE d # "deny"
      BY <1>2, <3>2 DEF PolicyAnswers, StartGoto, StartInv, TypeOK, LicenceInv
    <3> QED
      BY <3>1, <3>2
  <2> QED
    BY <1>2, <2>1, OtherStarts
    DEF PolicyAnswers, StartOver, StartGoto, LicenceInv, WaitsForOwnRequest, TypeOK
<1>3. ASSUME NEW a \in Approval, AskNew(s, a) PROVE LicenceInv'
  <2>1. StartInv(s)'
    BY <1>3 DEF AskNew, StartGoto, StartInv, TypeOK, LicenceInv
  <2>2. \A b \in Approval : about[b] # NoExperiment => about'[b] = about[b]
    BY <1>3 DEF AskNew, TypeOK
  <2>3. WaitsForOwnRequest'
    BY <1>3, <2>2, ExperimentsAssumption DEF AskNew, LicenceInv, WaitsForOwnRequest, TypeOK
  <2> QED
    BY <1>3, <2>1, <2>2, <2>3, OtherStarts DEF AskNew, StartGoto, LicenceInv, TypeOK
<1>4. ASSUME NEW a \in Approval, AskFinds(s, a) PROVE LicenceInv'
  <2>1. StartInv(s)'
    BY <1>4 DEF AskFinds, StartGoto, StartInv, TypeOK, LicenceInv
  <2> QED
    BY <1>4, <2>1, OtherStarts
    DEF AskFinds, StartGoto, LicenceInv, WaitsForOwnRequest, TypeOK
<1>5. CASE StorePending(s)
  <2>1. StartInv(s)'
    BY <1>5 DEF StorePending, StartOver, StartInv, TypeOK
  <2>2. /\ startOn[s] \in Budgeted /\ answer[s] \in Approval
        /\ about[answer[s]] = startOn[s]
    BY <1>5 DEF StorePending, LicenceInv, StartInv
  <2>3. WaitsForOwnRequest'
    BY <1>5, <2>2, ExperimentsAssumption
    DEF StorePending, StartOver, LicenceInv, WaitsForOwnRequest, TypeOK
  <2> QED
    BY <1>5, <2>1, <2>3, OtherStarts DEF StorePending, StartOver, LicenceInv, TypeOK
<1>6. CASE MarkRunning(s)
  <2>1. StartInv(s)'
    BY <1>6 DEF MarkRunning, StartOver, StartInv, TypeOK
  <2>2. WaitsForOwnRequest'
    BY <1>6 DEF MarkRunning, LicenceInv, WaitsForOwnRequest, TypeOK
  <2> QED
    BY <1>6, <2>1, <2>2, OtherStarts DEF MarkRunning, StartOver, LicenceInv, TypeOK
<1>7. CASE StartDies(s)
  <2>1. StartInv(s)'
    BY <1>7 DEF StartDies, StartOver, StartInv, TypeOK
  <2> QED
    BY <1>7, <2>1, OtherStarts
    DEF StartDies, StartOver, LicenceInv, WaitsForOwnRequest, TypeOK
<1> QED
  BY <1>1, <1>2, <1>3, <1>4, <1>5, <1>6, <1>7 DEF StartStep

LEMMA NextLicenceInv == TypeOK /\ LicenceInv /\ [Next]_vars => LicenceInv'
<1> SUFFICES ASSUME TypeOK, LicenceInv, [Next]_vars PROVE LicenceInv'
  OBVIOUS
<1> USE DEF rowVars, humanVars, startVars, evalVars, LicenceInv, StartInv, WaitsForOwnRequest
<1>1. CASE UNCHANGED vars
  BY <1>1 DEF vars
<1>2. ASSUME NEW e \in Experiment, Create(e) PROVE LicenceInv'
  BY <1>2 DEF Create, TypeOK
<1>3. ASSUME NEW e \in Experiment, Stop(e) PROVE LicenceInv'
  BY <1>3 DEF Stop, TypeOK
<1>4. ASSUME NEW s \in Starter, StartStep(s) PROVE LicenceInv'
  BY <1>4, StartStepLicenceInv
<1>5. ASSUME NEW a \in Approval, Execute(a) PROVE LicenceInv'
  BY <1>5 DEF Execute, TypeOK
<1>6. ASSUME NEW a \in Approval, NEW v \in Human!Verdict, Decide(a, v) PROVE LicenceInv'
  BY <1>6 DEF Decide
<1>7. ASSUME NEW v \in Evaluator, EvaluateStep(v) PROVE LicenceInv'
  <2>1. ASSUME NEW e \in Experiment, NEW d \in Decision, Evaluate(v, e, d) PROVE LicenceInv'
    BY <2>1 DEF Evaluate
  <2>2. CASE ApplyDecision(v)
    <3>1. outcome[v] \in Decision
      BY DEF TypeOK
    <3>2. StatusAfter[outcome[v]] # "pending_approval"
      BY <3>1 DEF StatusAfter, Decision
    <3> QED
      BY <2>2, <3>2 DEF ApplyDecision, TypeOK
  <2>3. CASE EvaluateDies(v)
    BY <2>3 DEF EvaluateDies
  <2> QED
    BY <1>7, <2>1, <2>2, <2>3 DEF EvaluateStep
<1> QED
  BY <1>1, <1>2, <1>3, <1>4, <1>5, <1>6, <1>7 DEF Next

\* A waiting experiment has a budget and shows a request of its own.
THEOREM WaitsForItsRequest == Spec => []WaitsForOwnRequest
<1>1. LicenceInv => WaitsForOwnRequest
  BY DEF LicenceInv
<1> QED
  BY <1>1, InitTypeOK, NextTypeOK, InitLicenceInv, NextLicenceInv, PTL DEF Spec

-----------------------------------------------------------------------------
(* Licences *)

\* The step of SpendIsLicensed.
Licensed(e) ==
  exStatus[e] # "running" /\ exStatus'[e] = "running" =>
    \/ \E a \in Approval : /\ about[a] = e /\ verdict[a] = "approved"
                           /\ effects[a] = 0 /\ effects'[a] = 1
    \/ /\ SpendDecision \cap {"simulate", "allow"} # {}
       /\ \E s \in Starter : startPhase[s] = "marking" /\ startOn[s] = e

\* Only markRunning, from start or from the executor, lets anything run.
LEMMA NextIsLicensed ==
  ASSUME TypeOK, LicenceInv, [Next]_vars, NEW e \in Budgeted
  PROVE  Licensed(e)
<1> USE DEF Licensed, rowVars
<1>0. e \in Experiment
  BY ExperimentsAssumption
<1>1. CASE UNCHANGED vars
  BY <1>1 DEF vars
<1>2. ASSUME NEW x \in Experiment, Create(x) \/ Stop(x) PROVE Licensed(e)
  BY <1>0, <1>2 DEF Create, Stop, TypeOK
<1>3. ASSUME NEW s \in Starter, StartStep(s) PROVE Licensed(e)
  <2>1. CASE MarkRunning(s)
    <3>1. CASE startOn[s] = e
      BY <2>1, <3>1 DEF MarkRunning, LicenceInv, StartInv
    <3>2. CASE startOn[s] # e
      BY <1>0, <2>1, <3>2 DEF MarkRunning, TypeOK
    <3> QED
      BY <3>1, <3>2
  <2>2. CASE StorePending(s)
    BY <1>0, <2>2 DEF StorePending, TypeOK
  <2>3. CASE UNCHANGED exStatus
    BY <2>3
  <2> QED
    BY <1>3, <2>1, <2>2, <2>3
    DEF StartStep, Start, PolicyAnswers, AskNew, AskFinds, StartDies
<1>4. ASSUME NEW a \in Approval, Execute(a) PROVE Licensed(e)
  <2>1. CASE about[a] = e
    BY <1>4, <2>1 DEF Execute, Human!Perform, TypeOK
  <2>2. CASE about[a] # e
    BY <1>0, <1>4, <2>2 DEF Execute, TypeOK
  <2> QED
    BY <2>1, <2>2
<1>5. ASSUME NEW a \in Approval, NEW v \in Human!Verdict, Decide(a, v) PROVE Licensed(e)
  BY <1>5 DEF Decide
<1>6. ASSUME NEW v \in Evaluator, EvaluateStep(v) PROVE Licensed(e)
  <2>1. StatusAfter[outcome[v]] # "running"
    BY DEF TypeOK, StatusAfter, Decision
  <2> QED
    BY <1>0, <1>6, <2>1 DEF EvaluateStep, Evaluate, ApplyDecision, EvaluateDies, TypeOK
<1> QED
  BY <1>1, <1>2, <1>3, <1>4, <1>5, <1>6 DEF Next

\* A budget runs only in the one execution of an approved request for it, or
\* where the policy lets it through.
THEOREM SpendNeedsLicence == Spec => SpendIsLicensed
<1>1. TypeOK /\ LicenceInv /\ [Next]_vars => [\A e \in Budgeted : Licensed(e)]_vars
  BY NextIsLicensed
<1>2. Spec => [][\A e \in Budgeted : Licensed(e)]_vars
  BY <1>1, InitTypeOK, NextTypeOK, InitLicenceInv, NextLicenceInv, PTL DEF Spec
<1> QED
  BY <1>2 DEF SpendIsLicensed, Licensed

-----------------------------------------------------------------------------
(***************************************************************************)
(* The analysis of an opportunity.  While the status set last is known,    *)
(* one analysis is at work and knows the status that the opportunity had;  *)
(* while a selection is whole, no other one is at work, and between its    *)
(* two statements the hypothesis is marked already and the opportunity     *)
(* does not name it yet.                                                   *)
(***************************************************************************)
GivenLast(status_) == status_ = settled \/ (settled = "discovered" /\ status_ = "analyzed")
AtWork(w) == analysisWork[w].at # "idle"

WorkInv ==
  settled # "unknown" =>
    /\ \A w \in Worker : AtWork(w) =>
         /\ \A v \in Worker \ {w} : ~AtWork(v)
         /\ GivenLast(analysisWork[w].before)
         /\ analysisWork[w].at = "read" => oppStatus = analysisWork[w].before
         /\ analysisWork[w].at = "completed" => GivenLast(oppStatus)
    /\ (\A w \in Worker : ~AtWork(w)) => GivenLast(oppStatus)

StandsWith(status, sure, p) ==
  /\ \A h \in Hyp : status[h] = "selected" => p = h
  /\ p # NoHyp /\ sure = "sure" => status[p] \in {"selected", "tried"}

ChoiceInv ==
  standing # "unsure" =>
    /\ \A c \in Chooser : choice[c].at # "idle" => \A d \in Chooser \ {c} : choice[d].at = "idle"
    /\ \A c \in Chooser : choice[c].at = "marked" =>
         choice[c].hyp \in Hyp /\ StandsWith(hyps, standing, choice[c].hyp)
    /\ (\A c \in Chooser : choice[c].at # "marked") => StandsWith(hyps, standing, picked)

WorkRecord ==
  [at : {"idle", "read", "working", "replaced", "completed"}, before : Anal!OppStatus]
ChoiceRecord == [at : {"idle", "chosen", "marked"}, hyp : Hyp \cup {NoHyp}]

AnalysisTypes ==
  /\ oppStatus \in Anal!OppStatus /\ settled \in Anal!Settled
  /\ hyps \in [Hyp -> Anal!HypStatus]
  /\ picked \in Hyp \cup {NoHyp}
  /\ analysisWork \in [Worker -> WorkRecord] /\ choice \in [Chooser -> ChoiceRecord]
  /\ standing \in {"sure", "returned", "unsure"}
  /\ \A c \in Chooser : choice[c].at # "idle" => choice[c].hyp \in Hyp

AnalysisInv == AnalysisTypes /\ WorkInv /\ ChoiceInv

LEMMA WorkFields ==
  /\ \A r \in WorkRecord : r.before \in Anal!OppStatus
       /\ r.at \in {"idle", "read", "working", "replaced", "completed"}
  /\ \A r \in WorkRecord : \A at \in {"idle", "read", "working", "replaced", "completed"} :
       [r EXCEPT !.at = at] \in WorkRecord /\ [r EXCEPT !.at = at].at = at
         /\ [r EXCEPT !.at = at].before = r.before
  /\ \A s \in Anal!OppStatus : [at |-> "read", before |-> s] \in WorkRecord
  /\ Anal!IdleWork \in WorkRecord /\ Anal!IdleWork.at = "idle"
BY DEF WorkRecord, Anal!IdleWork, Anal!OppStatus

LEMMA ChoiceFields ==
  /\ \A r \in ChoiceRecord : r.at \in {"idle", "chosen", "marked"} /\ r.hyp \in Hyp \cup {NoHyp}
  /\ \A r \in ChoiceRecord : [r EXCEPT !.at = "marked"] \in ChoiceRecord
       /\ [r EXCEPT !.at = "marked"].at = "marked" /\ [r EXCEPT !.at = "marked"].hyp = r.hyp
  /\ \A h \in Hyp : [at |-> "chosen", hyp |-> h] \in ChoiceRecord
  /\ Anal!IdleChoice \in ChoiceRecord /\ Anal!IdleChoice.at = "idle"
BY DEF ChoiceRecord, Anal!IdleChoice

LEMMA AnalysisStarts == ServicesInit => AnalysisInv
<1> SUFFICES ASSUME Anal!Init PROVE AnalysisInv
  BY DEF ServicesInit
<1>1. /\ oppStatus = "discovered" /\ settled = "discovered" /\ picked = NoHyp
      /\ hyps = [h \in Hyp |-> "unborn"] /\ standing = "sure"
      /\ analysisWork = [w \in Worker |-> Anal!IdleWork]
      /\ choice = [c \in Chooser |-> Anal!IdleChoice]
  BY DEF Anal!Init
<1>2. AnalysisTypes
  BY <1>1, WorkFields, ChoiceFields DEF AnalysisTypes, Anal!OppStatus, Anal!HypStatus,
     Anal!Settled
<1>3. WorkInv
  BY <1>1, WorkFields DEF WorkInv, AtWork, GivenLast
<1>4. ChoiceInv
  BY <1>1, ChoiceFields, AnalysisAssumption DEF ChoiceInv, StandsWith
<1> QED
  BY <1>2, <1>3, <1>4 DEF AnalysisInv

\* What one analysis does to its own place and the status.
LEMMA WorkStep ==
  ASSUME AnalysisInv, NEW w \in Worker, NEW r \in WorkRecord, AtWork(w),
         analysisWork' = [analysisWork EXCEPT ![w] = r],
         oppStatus' \in Anal!OppStatus, settled' \in {settled, "unknown"},
         settled' # "unknown" => \/ /\ r.at # "idle" /\ r.before = analysisWork[w].before /\ r.at # "read"
                                    /\ r.at = "completed" => GivenLast(oppStatus')
                                 \/ r.at = "idle" /\ GivenLast(oppStatus')
  PROVE  WorkInv' /\ analysisWork' \in [Worker -> WorkRecord]
<1>1. /\ analysisWork' \in [Worker -> WorkRecord] /\ analysisWork'[w] = r
      /\ \A v \in Worker \ {w} : analysisWork'[v] = analysisWork[v]
  BY DEF AnalysisInv, AnalysisTypes
<1>2. SUFFICES ASSUME settled' # "unknown" PROVE WorkInv'
  BY <1>1 DEF WorkInv
<1>3. settled # "unknown" /\ settled' = settled /\ WorkInv
  BY <1>2 DEF AnalysisInv
<1>4. \A v \in Worker \ {w} : ~AtWork(v) /\ ~AtWork(v)'
  BY <1>1, <1>3 DEF WorkInv, AtWork
<1>5. GivenLast(analysisWork[w].before)
  BY <1>3 DEF WorkInv
<1>7. CASE r.at # "idle" /\ r.before = analysisWork[w].before /\ r.at # "read"
  BY <1>1, <1>2, <1>4, <1>5, <1>7 DEF WorkInv, AtWork, GivenLast
<1>8. CASE r.at = "idle"
  BY <1>1, <1>2, <1>4, <1>8 DEF WorkInv, AtWork, GivenLast
<1> QED
  BY <1>2, <1>7, <1>8

LEMMA AnalysisWorks ==
  ASSUME AnalysisInv, NEW w \in Worker,
         \/ Anal!Begin(w) \/ Anal!Mark(w) \/ Anal!Complete(w) \/ Anal!Finish(w)
         \/ Anal!Restore(w) \/ Anal!Die(w)
  PROVE  AnalysisInv'
<1> DEFINE m == analysisWork[w]
<1>0. /\ AnalysisTypes /\ m \in WorkRecord /\ m.before \in Anal!OppStatus /\ oppStatus \in Anal!OppStatus
      /\ UNCHANGED <<hyps, picked, choice, standing>>
      /\ "analyzing" \in Anal!OppStatus /\ "analyzed" \in Anal!OppStatus
      /\ settled \in Anal!Settled /\ "unknown" \in Anal!Settled
  <2>1. AnalysisTypes /\ m \in WorkRecord
    BY DEF AnalysisInv, AnalysisTypes
  <2>2. UNCHANGED <<hyps, picked, choice, standing>>
    BY DEF Anal!Begin, Anal!Mark, Anal!Complete, Anal!Finish, Anal!Restore, Anal!Die,
       Anal!row, Anal!history
  <2> QED
    BY <2>1, <2>2, WorkFields DEF AnalysisTypes, Anal!OppStatus, Anal!Settled, Anal!Unknown
<1>1. ChoiceInv'
  BY <1>0 DEF AnalysisInv, ChoiceInv
<1>2. SUFFICES /\ WorkInv' /\ analysisWork' \in [Worker -> WorkRecord]
               /\ oppStatus' \in Anal!OppStatus /\ settled' \in Anal!Settled
  BY <1>0, <1>1 DEF AnalysisInv, AnalysisTypes
<1> DEFINE Kept == /\ WorkInv' /\ analysisWork' \in [Worker -> WorkRecord]
                   /\ oppStatus' \in Anal!OppStatus /\ settled' \in Anal!Settled
<1>3. ASSUME Anal!Begin(w) PROVE Kept
  <2> DEFINE r == [at |-> "read", before |-> oppStatus]
  <2>1. /\ analysisWork[w].at = "idle" /\ analysisWork' = [analysisWork EXCEPT ![w] = r]
        /\ settled' = (IF Anal!Analysing THEN "unknown" ELSE settled) /\ UNCHANGED oppStatus
    BY <1>3 DEF Anal!Begin, Anal!row, Anal!Unknown
  <2>2. r \in WorkRecord /\ r.at = "read" /\ r.before = oppStatus
    BY <1>0, WorkFields
  <2> HIDE DEF r
  <2>3. /\ analysisWork' \in [Worker -> WorkRecord] /\ analysisWork'[w] = r
        /\ \A v \in Worker \ {w} : analysisWork'[v] = analysisWork[v]
    BY <2>1, <2>2 DEF AnalysisInv, AnalysisTypes
  <2>4. ASSUME settled' # "unknown" PROVE WorkInv'
    <3>1. settled # "unknown" /\ settled' = settled /\ \A v \in Worker : ~AtWork(v)
      BY <2>1, <2>4 DEF Anal!Analysing, AtWork
    <3>2. GivenLast(oppStatus)
      BY <3>1 DEF AnalysisInv, WorkInv
    <3>3. \A v \in Worker \ {w} : ~AtWork(v)'
      BY <2>3, <3>1 DEF AtWork
    <3> QED
      BY <1>0, <2>1, <2>2, <2>3, <3>2, <3>3 DEF WorkInv, AtWork, GivenLast
  <2>5. settled' \in Anal!Settled
    BY <1>0, <2>1
  <2> QED
    BY <1>0, <2>1, <2>3, <2>4, <2>5 DEF WorkInv
<1>4. ASSUME Anal!Mark(w) PROVE Kept
  <2> DEFINE r == [m EXCEPT !.at = "working"]
  <2>1. /\ m.at = "read" /\ analysisWork' = [analysisWork EXCEPT ![w] = r]
        /\ oppStatus' = "analyzing" /\ UNCHANGED settled
    BY <1>4 DEF Anal!Mark, Anal!Goto, Anal!history
  <2>2. r \in WorkRecord /\ r.at = "working" /\ r.before = m.before /\ AtWork(w)
    BY <1>0, <2>1, WorkFields DEF AtWork
  <2> HIDE DEF r
  <2> QED
    BY <1>0, <2>1, <2>2, WorkStep
<1>5. ASSUME Anal!Complete(w) PROVE Kept
  <2> DEFINE r == [m EXCEPT !.at = "completed"]
  <2>1. /\ m.at = "replaced" /\ analysisWork' = [analysisWork EXCEPT ![w] = r]
        /\ oppStatus' = (IF m.before \in {"discovered", "analyzing"} THEN "analyzed" ELSE m.before)
        /\ UNCHANGED settled
    BY <1>5 DEF Anal!Complete, Anal!Goto, Anal!history
  <2>2. r \in WorkRecord /\ r.at = "completed" /\ r.before = m.before /\ AtWork(w)
    BY <1>0, <2>1, WorkFields DEF AtWork
  <2>3. settled # "unknown" => GivenLast(m.before)
    BY <2>2 DEF AnalysisInv, WorkInv
  <2>4. settled # "unknown" => GivenLast(oppStatus')
    BY <1>0, <2>1, <2>3 DEF GivenLast, Anal!Settled, Anal!Unknown
  <2> HIDE DEF r
  <2> QED
    BY <1>0, <2>1, <2>2, <2>4, WorkStep
<1>6. ASSUME Anal!Finish(w) PROVE Kept
  <2>1. /\ m.at = "completed" /\ analysisWork' = [analysisWork EXCEPT ![w] = Anal!IdleWork]
        /\ UNCHANGED <<oppStatus, settled>>
    BY <1>6 DEF Anal!Finish, Anal!row, Anal!history
  <2>2. AtWork(w) /\ (settled # "unknown" => GivenLast(oppStatus'))
    BY <2>1 DEF AnalysisInv, WorkInv, AtWork
  <2> QED
    BY <1>0, <2>1, <2>2, WorkFields, WorkStep
<1>8. ASSUME Anal!Restore(w) PROVE Kept
  <2>1. /\ m.at # "idle" /\ analysisWork' = [analysisWork EXCEPT ![w] = Anal!IdleWork]
        /\ oppStatus' = m.before /\ UNCHANGED settled
    BY <1>8 DEF Anal!Restore, Anal!history
  <2>2. AtWork(w) /\ (settled # "unknown" => GivenLast(oppStatus'))
    BY <2>1 DEF AnalysisInv, WorkInv, AtWork
  <2> QED
    BY <1>0, <2>1, <2>2, WorkFields, WorkStep
<1>9. ASSUME Anal!Die(w) PROVE Kept
  <2>1. /\ m.at # "idle" /\ analysisWork' = [analysisWork EXCEPT ![w] = Anal!IdleWork]
        /\ UNCHANGED oppStatus /\ settled' = "unknown"
    BY <1>9 DEF Anal!Die, Anal!row, Anal!Unknown
  <2>2. AtWork(w)
    BY <2>1 DEF AtWork
  <2> QED
    BY <1>0, <2>1, <2>2, WorkFields, WorkStep
<1> HIDE DEF Kept
<1>10. Kept
  BY <1>3, <1>4, <1>5, <1>6, <1>8, <1>9
<1> QED
  BY <1>10 DEF Kept

\* The transaction takes away what is proposed and leaves what is selected.
LEMMA ReplaceKeepsAnalysis ==
  ASSUME AnalysisInv, NEW w \in Worker, Anal!Replace(w)
  PROVE  AnalysisInv'
<1> PICK D \in Anal!Drafts :
      hyps' = [h \in Hyp |-> IF hyps[h] = "proposed" THEN "gone" ELSE Anal!Inserted(D, h)]
  BY DEF Anal!Replace
<1> DEFINE m == analysisWork[w]
           r == [m EXCEPT !.at = "replaced"]
<1>1. /\ m.at = "working" /\ analysisWork' = [analysisWork EXCEPT ![w] = r]
      /\ UNCHANGED <<oppStatus, picked, choice, settled, standing>>
  BY DEF Anal!Replace, Anal!Goto, Anal!history
<1>2. AnalysisTypes /\ m \in WorkRecord
  BY DEF AnalysisInv, AnalysisTypes
<1>3. r \in WorkRecord /\ r.at = "replaced" /\ r.before = m.before /\ AtWork(w)
  BY <1>1, <1>2, WorkFields DEF AtWork
<1> HIDE DEF r
<1>4. WorkInv' /\ analysisWork' \in [Worker -> WorkRecord]
  BY <1>1, <1>2, <1>3, WorkStep DEF AnalysisTypes
<1>5. \A h \in D : hyps[h] = "unborn"
  BY DEF Anal!Drafts, Anal!Unborn
<1>6. /\ hyps' \in [Hyp -> Anal!HypStatus]
      /\ \A h \in Hyp : hyps'[h] = "selected" <=> hyps[h] = "selected"
      /\ \A h \in Hyp : hyps[h] = "tried" => hyps'[h] = "tried"
  BY <1>2, <1>5 DEF Anal!Inserted, AnalysisTypes, Anal!HypStatus
<1>7. AnalysisTypes'
  BY <1>1, <1>2, <1>4, <1>6 DEF AnalysisTypes
<1>8. \A p \in Hyp \cup {NoHyp} : StandsWith(hyps, standing, p) => StandsWith(hyps', standing, p)
  BY <1>6 DEF StandsWith
<1>9. ChoiceInv'
  BY <1>1, <1>2, <1>8 DEF AnalysisInv, ChoiceInv, AnalysisTypes
<1> QED
  BY <1>4, <1>7, <1>9 DEF AnalysisInv

\* The status is set without a look at who is analysing.
LEMMA SetKeepsWork ==
  ASSUME AnalysisInv, NEW s \in Anal!OppStatus \ {"analyzing"}, Anal!SetBy(s), UNCHANGED analysisWork
  PROVE  WorkInv' /\ oppStatus' \in Anal!OppStatus /\ settled' \in Anal!Settled
<1>1. oppStatus' = s /\ settled' = (IF Anal!Analysing THEN "unknown" ELSE s)
  BY DEF Anal!SetBy, Anal!Unknown
<1>2. ASSUME settled' # "unknown" PROVE \A w \in Worker : ~AtWork(w)'
  BY <1>1, <1>2 DEF Anal!Analysing, AtWork
<1>3. settled' \in Anal!Settled
  BY <1>1 DEF Anal!Settled, Anal!Unknown
<1> QED
  BY <1>1, <1>2, <1>3 DEF WorkInv, GivenLast

LEMMA ChoicesKeepAnalysis ==
  ASSUME AnalysisInv, NEW c \in Chooser,
         \/ \E h \in Hyp : Anal!Choose(c, h)
         \/ Anal!MarkHypothesis(c) \/ Anal!MarkOpportunity(c) \/ Anal!ChooserDies(c)
  PROVE  AnalysisInv'
<1>0. /\ AnalysisTypes /\ choice[c] \in ChoiceRecord /\ ChoiceInv
      /\ \A d \in Chooser : choice[d].at \in {"idle", "chosen", "marked"}
      /\ "validated" \in Anal!OppStatus \ {"analyzing"}
  <2>1. AnalysisTypes /\ \A d \in Chooser : choice[d] \in ChoiceRecord
    BY DEF AnalysisInv, AnalysisTypes
  <2> QED
    BY <2>1, ChoiceFields DEF AnalysisInv, AnalysisTypes, Anal!OppStatus
<1>1. UNCHANGED <<oppStatus, analysisWork, settled>> => WorkInv'
  BY DEF AnalysisInv, WorkInv, GivenLast, AtWork
<1> DEFINE Kept == AnalysisInv'
<1>2. ASSUME NEW h \in Hyp, Anal!Choose(c, h) PROVE Kept
  <2> DEFINE r == [at |-> "chosen", hyp |-> h]
  <2>1. /\ choice[c].at = "idle" /\ choice' = [choice EXCEPT ![c] = r]
        /\ standing' = (IF Anal!Alone(c) THEN standing ELSE "unsure")
        /\ UNCHANGED <<oppStatus, hyps, picked, analysisWork, settled>>
    BY <1>2 DEF Anal!Choose, Anal!row
  <2>2. r \in ChoiceRecord /\ r.at = "chosen" /\ r.hyp = h
    BY ChoiceFields
  <2> HIDE DEF r
  <2>3. choice' \in [Chooser -> ChoiceRecord] /\ choice'[c] = r
        /\ \A d \in Chooser \ {c} : choice'[d] = choice[d]
    BY <1>0, <2>1, <2>2 DEF AnalysisTypes
  <2>4. standing' \in {"sure", "returned", "unsure"}
    BY <1>0, <2>1 DEF AnalysisTypes
  <2>5. AnalysisTypes'
    BY <1>0, <2>1, <2>2, <2>3, <2>4 DEF AnalysisTypes
  <2>6. ASSUME standing' # "unsure" PROVE ChoiceInv'
    <3>1. standing' = standing /\ \A d \in Chooser : choice[d].at = "idle"
      BY <2>1, <2>6 DEF Anal!Alone
    <3> QED
      BY <1>0, <2>1, <2>2, <2>3, <3>1 DEF ChoiceInv
  <2> QED
    BY <1>1, <2>1, <2>5, <2>6 DEF ChoiceInv, AnalysisInv
<1>3. ASSUME Anal!MarkHypothesis(c) PROVE Kept
  <2> DEFINE h == choice[c].hyp
             r == [choice[c] EXCEPT !.at = "marked"]
  <2>1. /\ choice[c].at = "chosen" /\ choice' = [choice EXCEPT ![c] = r]
        /\ hyps' = [g \in Hyp |-> IF g = h /\ hyps[g] # "gone" THEN "selected"
                                  ELSE IF hyps[g] = "selected" THEN "proposed" ELSE hyps[g]]
        /\ standing' = (IF Anal!Alone(c) /\ hyps[h] # "gone" THEN "sure" ELSE "unsure")
        /\ UNCHANGED <<oppStatus, picked, analysisWork, settled>>
    BY <1>3 DEF Anal!MarkHypothesis
  <2>2. r \in ChoiceRecord /\ r.at = "marked" /\ r.hyp = h /\ h \in Hyp
    BY <1>0, <2>1, ChoiceFields DEF AnalysisTypes
  <2> HIDE DEF r, h
  <2>3. choice' \in [Chooser -> ChoiceRecord] /\ choice'[c] = r
        /\ \A d \in Chooser \ {c} : choice'[d] = choice[d]
    BY <1>0, <2>1, <2>2 DEF AnalysisTypes
  <2>4. standing' \in {"sure", "returned", "unsure"}
    BY <2>1
  <2>5. hyps' \in [Hyp -> Anal!HypStatus]
    BY <1>0, <2>1 DEF AnalysisTypes, Anal!HypStatus
  <2>6. AnalysisTypes'
    BY <1>0, <2>1, <2>2, <2>3, <2>4, <2>5 DEF AnalysisTypes
  <2>7. ASSUME standing' # "unsure" PROVE ChoiceInv'
    <3>1. standing' = "sure" /\ hyps[h] # "gone" /\ Anal!Alone(c)
      BY <2>1, <2>7
    <3>2. \A d \in Chooser \ {c} : choice'[d].at = "idle"
      BY <2>3, <3>1 DEF Anal!Alone
    <3>3. StandsWith(hyps', standing', h)
      BY <2>1, <2>2, <3>1 DEF StandsWith
    <3> QED
      BY <2>2, <2>3, <3>2, <3>3 DEF ChoiceInv
  <2> QED
    BY <1>1, <2>1, <2>6, <2>7 DEF ChoiceInv, AnalysisInv
<1>4. ASSUME Anal!MarkOpportunity(c) PROVE Kept
  <2>1. /\ choice[c].at = "marked" /\ picked' = choice[c].hyp /\ Anal!SetBy("validated")
        /\ choice' = [choice EXCEPT ![c] = Anal!IdleChoice]
        /\ UNCHANGED <<hyps, analysisWork, standing>>
    BY <1>4 DEF Anal!MarkOpportunity
  <2>2. choice' \in [Chooser -> ChoiceRecord] /\ choice'[c] = Anal!IdleChoice
        /\ \A d \in Chooser \ {c} : choice'[d] = choice[d]
    BY <1>0, <2>1, ChoiceFields DEF AnalysisTypes
  <2>3. /\ WorkInv' /\ oppStatus' \in Anal!OppStatus /\ settled' \in Anal!Settled
    BY <1>0, <2>1, SetKeepsWork
  <2>4. AnalysisTypes'
    BY <1>0, <2>1, <2>2, <2>3, ChoiceFields DEF AnalysisTypes
  <2>5. ASSUME standing' # "unsure" PROVE ChoiceInv'
    <3>1. \A d \in Chooser : choice'[d].at = "idle"
      BY <1>0, <2>1, <2>2, <2>5, ChoiceFields DEF ChoiceInv
    <3>2. StandsWith(hyps, standing, picked')
      BY <1>0, <2>1, <2>5 DEF ChoiceInv
    <3> QED
      BY <2>1, <3>1, <3>2 DEF ChoiceInv
  <2> QED
    BY <2>3, <2>4, <2>5 DEF ChoiceInv, AnalysisInv
<1>5. ASSUME Anal!ChooserDies(c) PROVE Kept
  <2>1. /\ choice' = [choice EXCEPT ![c] = Anal!IdleChoice] /\ standing' = "unsure"
        /\ UNCHANGED <<oppStatus, hyps, picked, analysisWork, settled>>
    BY <1>5 DEF Anal!ChooserDies, Anal!row
  <2>2. choice' \in [Chooser -> ChoiceRecord] /\ choice'[c] = Anal!IdleChoice
        /\ \A d \in Chooser \ {c} : choice'[d] = choice[d]
    BY <1>0, <2>1, ChoiceFields DEF AnalysisTypes
  <2>3. standing' \in {"sure", "returned", "unsure"}
    BY <2>1
  <2>4. AnalysisTypes'
    BY <1>0, <2>1, <2>2, <2>3, ChoiceFields DEF AnalysisTypes
  <2> QED
    BY <1>1, <2>1, <2>4 DEF ChoiceInv, AnalysisInv
<1> HIDE DEF Kept
<1>6. Kept
  BY <1>2, <1>3, <1>4, <1>5
<1> QED
  BY <1>6 DEF Kept

\* An experiment leaves a hypothesis selected or tried, or gives it back.
LEMMA ExperimentsKeepAnalysis ==
  ASSUME AnalysisInv, NEW h \in Tested, Anal!Try(h) \/ Anal!GiveBack(h)
  PROVE  AnalysisInv'
<1>1. AnalysisTypes /\ h \in Hyp /\ h # NoHyp /\ ChoiceInv
  BY AnalysisAssumption DEF AnalysisInv
<1>2. UNCHANGED <<oppStatus, picked, analysisWork, choice, settled>>
  BY DEF Anal!Try, Anal!GiveBack, Anal!history
<1>3. WorkInv'
  BY <1>2 DEF AnalysisInv, WorkInv, GivenLast, AtWork
<1>4. /\ hyps' \in [Hyp -> Anal!HypStatus] /\ standing' \in {"sure", "returned", "unsure"}
      /\ hyps' = [hyps EXCEPT ![h] = hyps'[h]] /\ hyps'[h] \in {"tried", "proposed"}
  BY <1>1 DEF AnalysisTypes, Anal!HypStatus, Anal!Try, Anal!GiveBack, Anal!history
<1>5. AnalysisTypes'
  BY <1>1, <1>2, <1>4 DEF AnalysisTypes
<1>6. ASSUME NEW p \in Hyp \cup {NoHyp}, StandsWith(hyps, standing, p),
             p = h => hyps'[h] = "tried" \/ standing' # "sure", standing' = "sure" => standing = "sure"
      PROVE  StandsWith(hyps', standing', p)
  BY <1>1, <1>4, <1>6 DEF StandsWith, AnalysisTypes
<1>7. ASSUME standing' # "unsure" PROVE ChoiceInv'
  <2>1. standing # "unsure" /\ (standing' = "sure" => standing = "sure")
    BY <1>7 DEF Anal!Try, Anal!GiveBack, Anal!history
  <2>2. ASSUME Anal!Concerns(h) PROVE hyps'[h] = "tried" \/ standing' # "sure"
    BY <1>1, <2>2 DEF AnalysisTypes, Anal!Try, Anal!GiveBack
  <2>3. ASSUME NEW c \in Chooser, choice[c].at = "marked" PROVE StandsWith(hyps', standing', choice[c].hyp)
    BY <1>1, <1>6, <2>1, <2>2, <2>3 DEF ChoiceInv, Anal!Concerns
  <2>4. ASSUME \A c \in Chooser : choice[c].at # "marked" PROVE StandsWith(hyps', standing', picked)
    BY <1>1, <1>6, <2>1, <2>2, <2>4 DEF ChoiceInv, AnalysisTypes, Anal!Concerns
  <2> QED
    BY <1>1, <1>2, <2>1, <2>3, <2>4 DEF ChoiceInv
<1> QED
  BY <1>3, <1>5, <1>7 DEF AnalysisInv, ChoiceInv

LEMMA AnalysisStays == AnalysisInv /\ [Anal!Next]_(Anal!analysisVars) => AnalysisInv'
<1> SUFFICES ASSUME AnalysisInv, [Anal!Next]_(Anal!analysisVars) PROVE AnalysisInv'
  OBVIOUS
<1>1. CASE UNCHANGED Anal!analysisVars
  BY <1>1 DEF Anal!analysisVars, Anal!row, Anal!history, AnalysisInv, AnalysisTypes, WorkInv, ChoiceInv,
     GivenLast, AtWork
<1>2. ASSUME Anal!SetStatus PROVE AnalysisInv'
  <2>1. Anal!SetBy("later") /\ UNCHANGED <<hyps, picked, analysisWork, choice, standing>>
    BY <1>2 DEF Anal!SetStatus, Anal!Later
  <2>2. "later" \in Anal!OppStatus \ {"analyzing"}
    BY DEF Anal!OppStatus, Anal!Later
  <2>3. /\ WorkInv' /\ oppStatus' \in Anal!OppStatus /\ settled' \in Anal!Settled
    BY <2>1, <2>2, SetKeepsWork
  <2>4. AnalysisTypes'
    BY <2>1, <2>3 DEF AnalysisInv, AnalysisTypes
  <2>5. ChoiceInv'
    BY <2>1 DEF AnalysisInv, ChoiceInv
  <2> QED
    BY <2>3, <2>4, <2>5 DEF AnalysisInv
<1> QED
  BY <1>1, <1>2, AnalysisWorks, ReplaceKeepsAnalysis, ChoicesKeepAnalysis,
     ExperimentsKeepAnalysis DEF Anal!Next

LEMMA AnalysisSuffices ==
  AnalysisInv => Anal!TypeOK /\ Anal!StatusSurvivesAnalysis /\ Anal!SelectionStands
<1> SUFFICES ASSUME AnalysisInv
             PROVE  Anal!TypeOK /\ Anal!StatusSurvivesAnalysis /\ Anal!SelectionStands
  OBVIOUS
<1>1. Anal!TypeOK
  <2>1. AnalysisTypes
    BY DEF AnalysisInv
  <2> QED
    BY <2>1 DEF AnalysisTypes, Anal!TypeOK, WorkRecord, ChoiceRecord
<1>2. Anal!StatusSurvivesAnalysis
  BY DEF AnalysisInv, WorkInv, Anal!StatusSurvivesAnalysis, Anal!Analysing, Anal!Unknown, AtWork, GivenLast
<1>3. Anal!SelectionStands
  BY DEF AnalysisInv, ChoiceInv, Anal!SelectionStands, Anal!Stands, StandsWith
<1> QED
  BY <1>1, <1>2, <1>3

-----------------------------------------------------------------------------
(***************************************************************************)
(* Discovery.  A scan that works alone on a fingerprint knows what stands  *)
(* there: what it has seen is still so, and the signals it has inserted    *)
(* are those of a cluster whose evidence stands or has still to be added.  *)
(***************************************************************************)
ScanRecord ==
  [at : {"idle", "storing", "clustering"} \cup Disc!AtCluster, docs : SUBSET Doc,
   stored : SUBSET Doc, for : Fingerprint \cup {"none"}, fresh : BOOLEAN, read : SUBSET Doc]

Grounds(given, f) == {d \in Doc : given[f][d] > 0}

Alone(s) ==
  LET r == scan[s]
      f == scan[s].for
  IN /\ \A q \in Scan \ {s} : scan[q].for # f
     /\ r.at = "inserting" => f \notin opps /\ Disc!OfCluster(r.read, r.docs)
     /\ r.at = "checked" => \A d \in r.read : evidence[f][d] = 0
     /\ r.at \in {"adding", "checked"} /\ r.fresh =>
          f \notin recounted /\ Disc!OfCluster(signals[f], Grounds(evidence, f) \cup r.docs)
     /\ r.at = "updating" => r.read = Grounds(evidence, f)

ClusterInv(s) ==
  /\ scan[s].at \in Disc!AtCluster <=> scan[s].for # "none"
  /\ scan[s].at \in {"adding", "checked", "updating"} => scan[s].for \in opps
  /\ scan[s].at = "checked" => scan[s].read \subseteq scan[s].docs
  /\ scan[s].for # "none" /\ scan[s].for \notin shared => Alone(s)

DiscoveryTypes ==
  /\ documents \subseteq Doc /\ opps \subseteq Fingerprint
  /\ evidence \in [Fingerprint -> [Doc -> Nat]] /\ signals \in [Fingerprint -> SUBSET Doc]
  /\ scan \in [Scan -> ScanRecord]
  /\ \A s \in Scan : scan[s].stored \subseteq documents
  /\ recounted \subseteq opps
  /\ scans \in 0..MaxScans /\ shared \subseteq Fingerprint /\ torn \subseteq Fingerprint

DiscoveryInv ==
  /\ DiscoveryTypes
  /\ \A f \in Fingerprint \ opps, d \in Doc : evidence[f][d] = 0
  /\ \A s \in Scan : ClusterInv(s)
  /\ Disc!SignalsFollowEvidence

EvidenceStep ==
  \A f \in Fingerprint, d \in Doc :
    evidence[f][d] > 0 /\ evidence'[f][d] > evidence[f][d] => f \in shared

LEMMA IdleScan ==
  Disc!Idle \in ScanRecord /\ Disc!Idle.at = "idle" /\ Disc!Idle.for = "none"
  /\ Disc!Idle.stored = {}
<1>1. FALSE \in BOOLEAN
  OBVIOUS
<1> QED
  BY <1>1 DEF ScanRecord, Disc!Idle

\* The fields of the records that the steps make.
LEMMA ScanFields ==
  ASSUME NEW r \in ScanRecord
  PROVE  /\ r.at \in {"idle", "storing", "clustering"} \cup Disc!AtCluster
         /\ r.docs \in SUBSET Doc /\ r.stored \in SUBSET Doc /\ r.read \in SUBSET Doc
         /\ r.for \in Fingerprint \cup {"none"} /\ r.fresh \in BOOLEAN
BY DEF ScanRecord

LEMMA DiscoveryStarts == ServicesInit => DiscoveryInv
<1> SUFFICES ASSUME Disc!Init PROVE DiscoveryInv
  BY DEF ServicesInit
<1>1. /\ documents = {} /\ opps = {} /\ scans = 0 /\ recounted = {} /\ shared = {} /\ torn = {}
      /\ evidence = [f \in Fingerprint |-> [d \in Doc |-> 0]]
      /\ signals = [f \in Fingerprint |-> {}]
      /\ scan = [s \in Scan |-> Disc!Idle]
  BY DEF Disc!Init
<1>2. DiscoveryTypes
  BY <1>1, IdleScan, DiscoveryAssumption DEF DiscoveryTypes
<1>3. \A s \in Scan : ClusterInv(s)
  BY <1>1, IdleScan DEF ClusterInv, Disc!AtCluster
<1>4. Disc!SignalsFollowEvidence
  BY <1>1 DEF Disc!SignalsFollowEvidence
<1> QED
  BY <1>1, <1>2, <1>3, <1>4 DEF DiscoveryInv

\* A step that concerns f alone, and what it leaves of the types.
OnlyOf(f) ==
  \A g \in Fingerprint \ {f} :
    /\ evidence'[g] = evidence[g] /\ signals'[g] = signals[g]
    /\ (g \in opps') = (g \in opps) /\ (g \in shared') = (g \in shared)
    /\ (g \in torn') = (g \in torn) /\ (g \in recounted') = (g \in recounted)
RowsTyped ==
  /\ opps \subseteq opps' /\ opps' \subseteq Fingerprint /\ recounted' \subseteq opps'
  /\ shared' \subseteq Fingerprint /\ torn' \subseteq Fingerprint
  /\ evidence' \in [Fingerprint -> [Doc -> Nat]] /\ signals' \in [Fingerprint -> SUBSET Doc]
  /\ documents \subseteq documents' /\ documents' \subseteq Doc /\ scans' \in 0..MaxScans

\* The signals of one opportunity follow its evidence.
Follows(f, exact, counted, grounds) ==
  IF f \in exact THEN counted = grounds ELSE Disc!OfCluster(counted, grounds)

\* A scan stays alone where others leave its fingerprint alone.
LEMMA AloneStays ==
  ASSUME NEW q \in Scan, Alone(q), scan'[q] = scan[q],
         \A p \in Scan \ {q} : scan'[p].for # scan[q].for,
         LET g == scan[q].for
         IN /\ evidence'[g] = evidence[g] /\ signals'[g] = signals[g]
            /\ (g \in opps') = (g \in opps) /\ (g \in recounted') = (g \in recounted)
            /\ Grounds(evidence', g) = Grounds(evidence, g)
  PROVE  Alone(q)'
<1>1. LET m == scan'[q]
          g == scan'[q].for
      IN /\ \A p \in Scan \ {q} : scan'[p].for # g
         /\ m.at = "inserting" => g \notin opps' /\ Disc!OfCluster(m.read, m.docs)
         /\ m.at = "checked" => \A d \in m.read : evidence'[g][d] = 0
         /\ m.at \in {"adding", "checked"} /\ m.fresh =>
              g \notin recounted' /\ Disc!OfCluster(signals'[g], Grounds(evidence', g) \cup m.docs)
         /\ m.at = "updating" => m.read = Grounds(evidence', g)
  BY DEF Alone
<1> QED
  BY <1>1 DEF Alone, Disc!OfCluster

\* What one scan does to the one fingerprint f that it works on.
LEMMA ScanStep ==
  ASSUME DiscoveryInv, NEW s \in Scan, NEW r \in ScanRecord, NEW f,
         scan' = [scan EXCEPT ![s] = r], scan[s].for \in {"none", f}, r.for \in {"none", f},
         OnlyOf(f), RowsTyped,
         r.stored \subseteq documents',
         \A q \in Scan \ {s} : scan[q].for = f /\ f # "none" => f \in shared',
         f \in Fingerprint \ opps' => \A d \in Doc : evidence'[f][d] = 0,
         ClusterInv(s)',
         f \in opps' \ (shared' \cup torn') /\ r.for # f =>
           Follows(f, recounted', signals'[f], Grounds(evidence', f))
  PROVE  DiscoveryInv'
<1>1. /\ scan' \in [Scan -> ScanRecord] /\ scan'[s] = r
      /\ \A q \in Scan \ {s} : scan'[q] = scan[q]
  BY DEF DiscoveryInv, DiscoveryTypes
<1>2. DiscoveryTypes'
  BY <1>1 DEF DiscoveryInv, DiscoveryTypes, RowsTyped
<1>3. \A g \in Fingerprint \ opps', d \in Doc : evidence'[g][d] = 0
  BY DEF DiscoveryInv, OnlyOf
<1>4. \A g \in Fingerprint \ {f} : Grounds(evidence', g) = Grounds(evidence, g)
  BY DEF Grounds, OnlyOf
<1>5. ASSUME NEW q \in Scan \ {s} PROVE ClusterInv(q)'
  <2>1. ClusterInv(q) /\ scan'[q] = scan[q] /\ scan[q].for \in Fingerprint \cup {"none"}
    BY <1>1, ScanFields DEF DiscoveryInv, DiscoveryTypes
  <2>2. ASSUME scan[q].for # "none", scan[q].for \notin shared' PROVE Alone(q)'
    <3>1. scan[q].for # f /\ scan[q].for \in Fingerprint \ {f} /\ scan[q].for \notin shared
      BY <2>1, <2>2 DEF OnlyOf
    <3>2. Alone(q)
      BY <2>1, <2>2, <3>1 DEF ClusterInv
    <3>3. \A p \in Scan \ {q} : scan'[p].for # scan[q].for
      BY <1>1, <2>2, <3>1, <3>2 DEF Alone
    <3>4. LET g == scan[q].for
          IN /\ evidence'[g] = evidence[g] /\ signals'[g] = signals[g]
             /\ (g \in opps') = (g \in opps) /\ (g \in recounted') = (g \in recounted)
             /\ Grounds(evidence', g) = Grounds(evidence, g)
      BY <1>4, <3>1 DEF OnlyOf
    <3> QED
      BY <2>1, <3>2, <3>3, <3>4, AloneStays
  <2> QED
    BY <2>1, <2>2 DEF ClusterInv, RowsTyped
<1>6. Disc!SignalsFollowEvidence'
  <2> SUFFICES ASSUME NEW g \in opps' \ (shared' \cup torn'), \A q \in Scan : scan'[q].for # g
               PROVE  Follows(g, recounted', signals'[g], Grounds(evidence', g))
    BY DEF Disc!SignalsFollowEvidence, Disc!EvidenceOf, Grounds, Follows
  <2>1. CASE g = f
    BY <1>1, <2>1
  <2>2. CASE g # f
    <3>1. DiscoveryTypes /\ g \in Fingerprint \ {f}
      BY <2>2 DEF DiscoveryInv, RowsTyped
    <3>2. g \in opps \ (shared \cup torn) /\ g # "none"
      BY <3>1, DiscoveryAssumption DEF OnlyOf, DiscoveryTypes
    <3>3. \A q \in Scan : scan[q].for # g
      BY <1>1, <2>2, <3>2
    <3> QED
      <4>1. Follows(g, recounted, signals[g], Grounds(evidence, g))
        BY <3>1, <3>2, <3>3
           DEF DiscoveryInv, Disc!SignalsFollowEvidence, Disc!EvidenceOf, Grounds, Follows
      <4> QED
        BY <1>4, <3>1, <4>1 DEF OnlyOf, Follows
  <2> QED
    BY <2>1, <2>2
<1> QED
  BY <1>1, <1>2, <1>3, <1>5, <1>6 DEF DiscoveryInv

\* Whoever else works on a fingerprint of a scan is known to share it.
LEMMA CompanyIsKnown ==
  ASSUME DiscoveryInv, NEW s \in Scan, NEW q \in Scan \ {s},
         scan[q].for = scan[s].for, scan[s].for # "none"
  PROVE  scan[s].for \in shared
BY DEF DiscoveryInv, ClusterInv, Alone

\* Steps that leave all rows alone but may end the work on a cluster.
LEMMA LeavingKeepsDiscovery ==
  ASSUME DiscoveryInv, NEW s \in Scan, NEW r \in ScanRecord, scan' = [scan EXCEPT ![s] = r],
         r.for = "none", r.at \notin Disc!AtCluster, r.stored \subseteq documents',
         documents \subseteq documents', documents' \subseteq Doc, scans' \in 0..MaxScans,
         UNCHANGED <<opps, evidence, signals, recounted, shared>>,
         \/ scan[s].for = "none" /\ torn' = torn
         \/ scan[s].for # "none" /\ torn' = torn \cup {scan[s].for}
  PROVE  DiscoveryInv'
<1> DEFINE f == scan[s].for
<1>1. DiscoveryTypes /\ scan'[s] = r
  BY DEF DiscoveryInv, DiscoveryTypes
<1>2. ClusterInv(s)'
  BY <1>1 DEF ClusterInv, Disc!AtCluster
<1>3. torn' \subseteq Fingerprint /\ \A g \in Fingerprint \ {f} : (g \in torn') = (g \in torn)
  <2>1. scan[s].for \in Fingerprint \cup {"none"}
    BY <1>1, ScanFields DEF DiscoveryTypes
  <2> QED
    BY <1>1, <2>1 DEF DiscoveryTypes
<1>4. \A q \in Scan \ {s} : scan[q].for = f /\ f # "none" => f \in shared'
  BY CompanyIsKnown
<1>5. f \in Fingerprint \ opps' => \A d \in Doc : evidence'[f][d] = 0
  BY DEF DiscoveryInv
<1>6. f \notin opps' \ (shared' \cup torn')
  BY <1>1, DiscoveryAssumption DEF DiscoveryTypes
<1> HIDE DEF f
<1>7. OnlyOf(f) /\ RowsTyped /\ r.for \in {"none", f} /\ scan[s].for \in {"none", f}
  BY <1>1, <1>3 DEF OnlyOf, RowsTyped, DiscoveryTypes, f
<1> QED
  BY <1>2, <1>4, <1>5, <1>6, <1>7, ScanStep

LEMMA TakesItsCluster ==
  ASSUME DiscoveryInv, NEW s \in Scan, NEW f \in Fingerprint, NEW docs \in SUBSET Doc,
         NEW quoted \in Disc!Quoted(docs), NEW related \in SUBSET Context,
         Disc!TakeCluster(s, f, docs, quoted, related)
  PROVE  DiscoveryInv'
<1> DEFINE r == [scan[s] EXCEPT !.at = IF f \in opps THEN "adding" ELSE "inserting",
                                !.docs = quoted \cup related, !.for = f, !.fresh = f \notin opps,
                                !.stored = @ \ docs,
                                !.read = IF f \in opps THEN {} ELSE docs]
<1>1. /\ scan[s].at = "clustering" /\ scan' = [scan EXCEPT ![s] = r]
      /\ shared' = IF Disc!SharedBy(s, f) THEN shared \cup {f} ELSE shared \ {f}
      /\ UNCHANGED <<documents, opps, evidence, signals, scans, recounted, torn>>
  BY DEF Disc!TakeCluster, Disc!Set, Disc!rows
<1>2. scan[s] \in ScanRecord /\ scan[s].for = "none" /\ f # "none" /\ DiscoveryTypes
  BY <1>1, DiscoveryAssumption DEF DiscoveryInv, DiscoveryTypes, ClusterInv, Disc!AtCluster
<1>3. /\ r \in ScanRecord /\ r.at = (IF f \in opps THEN "adding" ELSE "inserting")
      /\ r.for = f /\ r.fresh = (f \notin opps) /\ r.stored = scan[s].stored \ docs
      /\ f \notin opps => r.read = docs /\ r.docs = quoted \cup related
  <2>1. (f \notin opps) \in BOOLEAN /\ (IF f \in opps THEN {} ELSE docs) \in SUBSET Doc
    OBVIOUS
  <2>2. quoted \cup related \in SUBSET Doc
    BY DiscoveryAssumption DEF Disc!Quoted
  <2>3. scan[s].stored \ docs \in SUBSET Doc
    BY <1>2, ScanFields
  <2> QED
    BY <1>2, <2>1, <2>2, <2>3 DEF ScanRecord, Disc!AtCluster
<1> HIDE DEF r
<1>4. scan'[s] = r /\ \A q \in Scan \ {s} : scan'[q] = scan[q]
  BY <1>1, <1>2 DEF DiscoveryTypes
<1>5. \A q \in Scan \ {s} : scan[q].for = f => f \in shared'
  BY <1>1 DEF Disc!SharedBy
<1>6. ClusterInv(s)'
  <2>1. ASSUME f \notin shared' PROVE Alone(s)'
    <3>1. \A q \in Scan \ {s} : scan'[q].for # f
      BY <1>4, <1>5, <2>1
    <3>2. (r.at = "inserting" => f \notin opps /\ Disc!OfCluster(r.read, r.docs)) /\ r.at # "checked" /\ r.at # "updating"
          /\ ~(r.at = "adding" /\ r.fresh)
      <4>1. docs \cap Context = {} /\ quoted \subseteq docs
        BY DEF Disc!TakeCluster, Disc!Quoted
      <4>2. (quoted \cup related) \ Context = quoted
        BY <4>1
      <4> QED
        BY <1>3, <4>1, <4>2 DEF Disc!OfCluster, Disc!Quoted
    <3> QED
      BY <1>1, <1>3, <1>4, <3>1, <3>2 DEF Alone
  <2> QED
    BY <1>1, <1>2, <1>3, <1>4, <2>1 DEF ClusterInv, Disc!AtCluster
<1>7. shared' \subseteq Fingerprint /\ \A g \in Fingerprint \ {f} : (g \in shared') = (g \in shared)
  BY <1>1, <1>2 DEF DiscoveryTypes
<1>8. OnlyOf(f) /\ RowsTyped
  BY <1>1, <1>2, <1>7 DEF OnlyOf, RowsTyped, DiscoveryTypes
<1>9. /\ r.for = f /\ r.stored \subseteq documents'
      /\ f \in Fingerprint \ opps' => \A d \in Doc : evidence'[f][d] = 0
  BY <1>1, <1>2, <1>3 DEF DiscoveryInv, DiscoveryTypes
<1> QED
  BY <1>1, <1>2, <1>3, <1>5, <1>6, <1>8, <1>9, ScanStep

\* What is common to the steps on the fingerprint that a scan has taken.
LEMMA AtWorkOn ==
  ASSUME DiscoveryInv, NEW s \in Scan, scan[s].at \in Disc!AtCluster
  PROVE  /\ scan[s] \in ScanRecord /\ scan[s].for \in Fingerprint /\ scan[s].for # "none"
         /\ DiscoveryTypes /\ ClusterInv(s)
         /\ \A q \in Scan \ {s} : scan[q].for = scan[s].for => scan[s].for \in shared
         /\ scan[s].stored \in SUBSET Doc /\ scan[s].stored \subseteq documents
<1>1. scan[s] \in ScanRecord /\ DiscoveryTypes /\ ClusterInv(s)
  BY DEF DiscoveryInv, DiscoveryTypes
<1>2. scan[s].for # "none" /\ scan[s].for \in Fingerprint
  BY <1>1, ScanFields DEF ClusterInv
<1> QED
  BY <1>1, <1>2, ScanFields, CompanyIsKnown DEF DiscoveryTypes

LEMMA LeftCluster ==
  ASSUME DiscoveryInv, NEW s \in Scan
  PROVE  LET r == [Disc!Idle EXCEPT !.at = "clustering", !.stored = scan[s].stored]
         IN r \in ScanRecord /\ r.at = "clustering" /\ r.for = "none" /\ r.stored = scan[s].stored
<1>1. scan[s].stored \in SUBSET Doc
  BY ScanFields DEF DiscoveryInv, DiscoveryTypes
<1>2. FALSE \in BOOLEAN
  OBVIOUS
<1> QED
  BY <1>1, <1>2 DEF ScanRecord, Disc!Idle

LEMMA InsertKeepsDiscovery ==
  ASSUME DiscoveryInv, NEW s \in Scan, Disc!Insert(s)
  PROVE  DiscoveryInv'
<1> DEFINE f == scan[s].for
<1>1. scan[s].at = "inserting" /\ UNCHANGED <<documents, evidence, scans, recounted, shared, torn>>
  BY DEF Disc!Insert
<1>2. /\ scan[s] \in ScanRecord /\ f \in Fingerprint /\ f # "none" /\ DiscoveryTypes /\ ClusterInv(s)
      /\ \A q \in Scan \ {s} : scan[q].for = f => f \in shared
      /\ scan[s].stored \in SUBSET Doc /\ scan[s].stored \subseteq documents
  BY <1>1, AtWorkOn DEF Disc!AtCluster
<1>3. CASE f \notin opps
  <2> DEFINE r == [scan[s] EXCEPT !.at = "adding", !.read = {}]
  <2>1. /\ opps' = opps \cup {f} /\ signals' = [signals EXCEPT ![f] = scan[s].read]
        /\ scan' = [scan EXCEPT ![s] = r]
    BY <1>3 DEF Disc!Insert, Disc!Set
  <2>2. /\ r \in ScanRecord /\ r.at = "adding" /\ r.for = f /\ r.fresh = scan[s].fresh
        /\ r.docs = scan[s].docs /\ r.stored = scan[s].stored
    BY <1>2 DEF ScanRecord, Disc!AtCluster
  <2> HIDE DEF r
  <2>3. scan'[s] = r /\ \A q \in Scan \ {s} : scan'[q] = scan[q]
    BY <1>2, <2>1 DEF DiscoveryTypes
  <2>4. scan[s].docs \in SUBSET Doc /\ scan[s].read \in SUBSET Doc
    BY <1>2, ScanFields
  <2>5. /\ signals' \in [Fingerprint -> SUBSET Doc] /\ signals'[f] = scan[s].read
        /\ \A g \in Fingerprint \ {f} : signals'[g] = signals[g]
    BY <1>2, <2>1, <2>4 DEF DiscoveryTypes
  <2>6. Grounds(evidence', f) = {}
    BY <1>1, <1>2, <1>3 DEF DiscoveryInv, Grounds
  <2>7. ClusterInv(s)'
    <3> SUFFICES ASSUME f \notin shared PROVE Alone(s)'
      BY <1>1, <1>2, <2>1, <2>2, <2>3 DEF ClusterInv, Disc!AtCluster
    <3>1. Alone(s)
      BY <1>2 DEF ClusterInv
    <3>2. Disc!OfCluster(signals'[f], Grounds(evidence', f) \cup r.docs) /\ f \notin recounted'
      BY <1>1, <1>2, <1>3, <2>2, <2>5, <2>6, <3>1 DEF Alone, DiscoveryTypes
    <3> QED
      BY <1>2, <2>2, <2>3, <3>1, <3>2 DEF Alone, Disc!OfCluster
  <2>8. opps' \subseteq Fingerprint /\ \A g \in Fingerprint \ {f} : (g \in opps') = (g \in opps)
    BY <1>2, <2>1 DEF DiscoveryTypes
  <2>9. OnlyOf(f) /\ RowsTyped
    BY <1>1, <1>2, <2>1, <2>5, <2>8 DEF OnlyOf, RowsTyped, DiscoveryTypes
  <2>10. r.stored \subseteq documents' /\ f \in opps'
    BY <1>1, <1>2, <2>1, <2>2
  <2> HIDE DEF f
  <2> QED
    BY <1>1, <1>2, <2>1, <2>2, <2>7, <2>9, <2>10, ScanStep DEF f
<1>4. CASE f \in opps
  <2> DEFINE r == [Disc!Idle EXCEPT !.at = "clustering", !.stored = scan[s].stored]
  <2>1. scan' = [scan EXCEPT ![s] = r] /\ UNCHANGED <<opps, signals>>
    BY <1>4 DEF Disc!Insert, Disc!LeaveCluster, Disc!Set
  <2>2. r \in ScanRecord /\ r.at = "clustering" /\ r.for = "none" /\ r.stored = scan[s].stored
    BY LeftCluster
  <2> HIDE DEF r
  <2>3. f \in shared
    BY <1>1, <1>2, <1>4 DEF ClusterInv, Alone
  <2>4. ClusterInv(s)'
    BY <1>2, <2>1, <2>2 DEF ClusterInv, Disc!AtCluster, DiscoveryTypes
  <2>5. OnlyOf(f) /\ RowsTyped /\ r.stored \subseteq documents'
    BY <1>1, <1>2, <2>1, <2>2 DEF OnlyOf, RowsTyped, DiscoveryTypes
  <2> HIDE DEF f
  <2> QED
    BY <1>1, <1>2, <1>4, <2>1, <2>2, <2>3, <2>4, <2>5, ScanStep DEF f
<1> QED
  BY <1>3, <1>4

LEMMA LookingKeepsDiscovery ==
  ASSUME DiscoveryInv, NEW s \in Scan, NEW d \in Doc, Disc!LookForEvidence(s, d)
  PROVE  DiscoveryInv'
<1> DEFINE f == scan[s].for
           r == IF evidence[f][d] = 0 THEN [scan[s] EXCEPT !.at = "checked", !.read = {d}]
                                      ELSE [scan[s] EXCEPT !.docs = @ \ {d}]
<1>1. /\ scan[s].at = "adding" /\ d \in scan[s].docs /\ scan' = [scan EXCEPT ![s] = r]
      /\ UNCHANGED <<documents, opps, evidence, signals, scans, recounted, shared, torn>>
  BY DEF Disc!LookForEvidence, Disc!Set, Disc!rows
<1>2. /\ scan[s] \in ScanRecord /\ f \in Fingerprint /\ f # "none" /\ DiscoveryTypes /\ ClusterInv(s)
      /\ \A q \in Scan \ {s} : scan[q].for = f => f \in shared
      /\ scan[s].stored \in SUBSET Doc /\ scan[s].stored \subseteq documents
  BY <1>1, AtWorkOn DEF Disc!AtCluster
<1>3. /\ r \in ScanRecord /\ r.for = f /\ r.fresh = scan[s].fresh /\ r.stored = scan[s].stored
      /\ evidence[f][d] = 0 => r.at = "checked" /\ r.read = {d} /\ r.docs = scan[s].docs
      /\ evidence[f][d] # 0 => r.at = "adding" /\ r.docs = scan[s].docs \ {d}
  <2>1. scan[s].docs \in SUBSET Doc
    BY <1>2, ScanFields
  <2> QED
    BY <1>1, <1>2, <2>1 DEF ScanRecord, Disc!AtCluster
<1> HIDE DEF r
<1>4. scan'[s] = r /\ \A q \in Scan \ {s} : scan'[q] = scan[q]
  BY <1>1, <1>2 DEF DiscoveryTypes
<1>5. evidence[f][d] # 0 => d \in Grounds(evidence, f)
  <2>1. evidence[f][d] \in Nat
    BY <1>2 DEF DiscoveryTypes
  <2> QED
    BY <2>1 DEF Grounds
<1>6. ClusterInv(s)'
  <2>1. ASSUME f \notin shared PROVE Alone(s)'
    <3>1. Alone(s) /\ Grounds(evidence', f) = Grounds(evidence, f)
      BY <1>1, <1>2, <2>1 DEF ClusterInv, Grounds
    <3>2. r.fresh => Grounds(evidence, f) \cup r.docs = Grounds(evidence, f) \cup scan[s].docs
      BY <1>1, <1>3, <1>5
    <3>3. r.fresh =>
            f \notin recounted' /\ Disc!OfCluster(signals'[f], Grounds(evidence', f) \cup r.docs)
      BY <1>1, <1>3, <3>1, <3>2 DEF Alone
    <3> QED
      BY <1>1, <1>2, <1>3, <1>4, <3>1, <3>3 DEF Alone, Disc!OfCluster
  <2> QED
    BY <1>1, <1>2, <1>3, <1>4, <2>1 DEF ClusterInv, Disc!AtCluster
<1>7. OnlyOf(f) /\ RowsTyped /\ r.stored \subseteq documents'
  BY <1>1, <1>2, <1>3 DEF OnlyOf, RowsTyped, DiscoveryTypes
<1>8. f \in Fingerprint \ opps' => \A d2 \in Doc : evidence'[f][d2] = 0
  BY <1>1 DEF DiscoveryInv
<1> HIDE DEF f
<1> QED
  BY <1>1, <1>2, <1>3, <1>6, <1>7, <1>8, ScanStep DEF f

LEMMA AddingKeepsDiscovery ==
  ASSUME DiscoveryInv, NEW s \in Scan, Disc!InsertEvidence(s)
  PROVE  DiscoveryInv' /\ EvidenceStep
<1> DEFINE f == scan[s].for
           m == scan[s]
           r == [m EXCEPT !.at = "adding", !.docs = @ \ m.read, !.read = {}]
<1>1. /\ m.at = "checked" /\ scan' = [scan EXCEPT ![s] = r]
      /\ evidence' = [evidence EXCEPT ![f] = [d \in Doc |-> IF d \in m.read THEN @[d] + 1 ELSE @[d]]]
      /\ UNCHANGED <<documents, opps, signals, scans, recounted, shared, torn>>
  BY DEF Disc!InsertEvidence, Disc!Set
<1>2. /\ m \in ScanRecord /\ f \in Fingerprint /\ f # "none" /\ DiscoveryTypes /\ ClusterInv(s)
      /\ \A q \in Scan \ {s} : scan[q].for = f => f \in shared
      /\ m.stored \in SUBSET Doc /\ m.stored \subseteq documents
      /\ m.docs \in SUBSET Doc /\ m.read \in SUBSET Doc /\ m.read \subseteq m.docs /\ f \in opps
  BY <1>1, AtWorkOn, ScanFields DEF Disc!AtCluster, ClusterInv
<1>3. /\ r \in ScanRecord /\ r.for = f /\ r.fresh = m.fresh /\ r.stored = m.stored
      /\ r.at = "adding" /\ r.docs = m.docs \ m.read
  BY <1>1, <1>2 DEF ScanRecord, Disc!AtCluster
<1>4. scan'[s] = r /\ \A q \in Scan \ {s} : scan'[q] = scan[q]
  BY <1>1, <1>2 DEF DiscoveryTypes
<1> HIDE DEF r, m
<1>5. /\ evidence' \in [Fingerprint -> [Doc -> Nat]]
      /\ \A g \in Fingerprint \ {f} : evidence'[g] = evidence[g]
      /\ \A d \in Doc : evidence'[f][d] = IF d \in m.read THEN evidence[f][d] + 1 ELSE evidence[f][d]
      /\ \A d \in Doc : evidence[f][d] \in Nat
  <2>1. evidence \in [Fingerprint -> [Doc -> Nat]]
    BY <1>2 DEF DiscoveryTypes
  <2> DEFINE row == [d \in Doc |-> IF d \in m.read THEN evidence[f][d] + 1 ELSE evidence[f][d]]
  <2>2. row \in [Doc -> Nat]
    BY <1>2, <2>1
  <2>3. evidence' = [evidence EXCEPT ![f] = row]
    BY <1>1, <1>2
  <2> HIDE DEF f
  <2> QED
    BY <1>2, <2>1, <2>2, <2>3
<1>6. Grounds(evidence', f) = Grounds(evidence, f) \cup m.read
  BY <1>2, <1>5 DEF Grounds
<1>7. ClusterInv(s)'
  <2>1. ASSUME f \notin shared PROVE Alone(s)'
    <3>1. Alone(s)
      BY <1>2, <2>1 DEF ClusterInv
    <3>2. m.fresh => f \notin recounted /\ Disc!OfCluster(signals[f], Grounds(evidence, f) \cup m.docs)
      BY <1>1, <3>1 DEF Alone, m
    <3>3. Grounds(evidence, f) \cup m.docs = (Grounds(evidence, f) \cup m.read) \cup r.docs
      BY <1>2, <1>3
    <3>4. r.fresh =>
            f \notin recounted' /\ Disc!OfCluster(signals'[f], Grounds(evidence', f) \cup r.docs)
      BY <1>1, <1>3, <1>6, <3>2, <3>3
    <3> QED
      BY <1>1, <1>2, <1>3, <1>4, <1>6, <3>1, <3>4 DEF Alone, Disc!OfCluster
  <2> QED
    BY <1>1, <1>2, <1>3, <1>4, <2>1 DEF ClusterInv, Disc!AtCluster
<1>8. EvidenceStep
  <2>1. ASSUME f \notin shared PROVE \A d \in m.read : evidence[f][d] = 0
    BY <1>1, <1>2, <2>1 DEF ClusterInv, Alone, m
  <2>2. ASSUME NEW g \in Fingerprint, NEW d \in Doc, evidence[g][d] > 0, evidence'[g][d] > evidence[g][d]
        PROVE  g \in shared
    <3>1. evidence[g][d] \in Nat
      BY <1>2 DEF DiscoveryTypes
    <3>2. g = f
      BY <1>5, <2>2, <3>1
    <3>3. d \in m.read
      BY <1>5, <2>2, <3>1, <3>2
    <3> QED
      BY <2>1, <2>2, <3>1, <3>2, <3>3
  <2> QED
    BY <2>2 DEF EvidenceStep
<1>9. DiscoveryInv'
  <2>1. OnlyOf(f) /\ RowsTyped /\ r.stored \subseteq documents'
    BY <1>1, <1>2, <1>3, <1>5 DEF OnlyOf, RowsTyped, DiscoveryTypes
  <2>2. f = m.for /\ f \in opps' /\ scan[s].for = f
    BY <1>1, <1>2 DEF m
  <2> HIDE DEF f
  <2> QED
    BY <1>1, <1>2, <1>3, <1>7, <2>1, <2>2, ScanStep
<1> QED
  BY <1>8, <1>9

\* The work on a fingerprint is through.
LEMMA DoneKeepsDiscovery ==
  ASSUME DiscoveryInv, NEW s \in Scan, scan[s].at \in Disc!AtCluster, Disc!LeaveCluster(s),
         torn' = torn \ {scan[s].for}, UNCHANGED <<documents, opps, evidence, scans, shared>>,
         scan[s].for \in opps,
         NEW docs \in SUBSET Doc, signals' = [signals EXCEPT ![scan[s].for] = docs],
         \/ /\ recounted' = recounted
            /\ scan[s].for \notin shared =>
                 scan[s].for \notin recounted /\ Disc!OfCluster(docs, Grounds(evidence, scan[s].for))
         \/ /\ recounted' = recounted \cup {scan[s].for}
            /\ scan[s].for \notin shared => docs = Grounds(evidence, scan[s].for)
  PROVE  DiscoveryInv'
<1> DEFINE f == scan[s].for
           r == [Disc!Idle EXCEPT !.at = "clustering", !.stored = scan[s].stored]
<1>1. scan' = [scan EXCEPT ![s] = r]
  BY DEF Disc!LeaveCluster, Disc!Set
<1>2. /\ scan[s] \in ScanRecord /\ f \in Fingerprint /\ f # "none" /\ DiscoveryTypes /\ ClusterInv(s)
      /\ \A q \in Scan \ {s} : scan[q].for = f => f \in shared
      /\ scan[s].stored \in SUBSET Doc /\ scan[s].stored \subseteq documents
  BY AtWorkOn
<1>3. r \in ScanRecord /\ r.at = "clustering" /\ r.for = "none" /\ r.stored = scan[s].stored
  BY LeftCluster
<1> HIDE DEF r
<1>4. ClusterInv(s)'
  BY <1>1, <1>2, <1>3 DEF ClusterInv, Disc!AtCluster, DiscoveryTypes
<1>5. /\ signals' \in [Fingerprint -> SUBSET Doc] /\ signals'[f] = docs
      /\ \A g \in Fingerprint \ {f} : signals'[g] = signals[g]
  BY <1>2 DEF DiscoveryTypes
<1>6. Grounds(evidence', f) = Grounds(evidence, f)
  BY DEF Grounds
<1>7. f \in opps' \ (shared' \cup torn') =>
        Follows(f, recounted', signals'[f], Grounds(evidence', f))
  <2> HIDE DEF f
  <2> QED
    BY <1>2, <1>5, <1>6 DEF Follows, f
<1>8. torn' \subseteq Fingerprint /\ \A g \in Fingerprint \ {f} : (g \in torn') = (g \in torn)
  BY <1>2 DEF DiscoveryTypes
<1>9. OnlyOf(f) /\ RowsTyped /\ r.stored \subseteq documents'
  <2>1. recounted' \subseteq opps' /\ \A g \in Fingerprint \ {f} : (g \in recounted') = (g \in recounted)
    BY <1>2 DEF DiscoveryTypes
  <2> QED
    BY <1>2, <1>3, <1>5, <1>8, <2>1 DEF OnlyOf, RowsTyped, DiscoveryTypes
<1>10. f \in Fingerprint \ opps' => \A d \in Doc : evidence'[f][d] = 0
  BY DEF DiscoveryInv
<1> HIDE DEF f
<1> QED
  BY <1>1, <1>2, <1>3, <1>4, <1>7, <1>9, <1>10, ScanStep DEF f

LEMMA RecountKeepsDiscovery ==
  ASSUME DiscoveryInv, NEW s \in Scan, Disc!Recount(s)
  PROVE  DiscoveryInv'
<1> DEFINE f == scan[s].for
<1>1. /\ scan[s].at = "adding" /\ scan[s].docs = {}
      /\ UNCHANGED <<documents, opps, evidence, signals, scans, recounted, shared>>
  BY DEF Disc!Recount, Disc!rows
<1>2. /\ scan[s] \in ScanRecord /\ f \in Fingerprint /\ f # "none" /\ DiscoveryTypes /\ ClusterInv(s)
      /\ \A q \in Scan \ {s} : scan[q].for = f => f \in shared
      /\ scan[s].stored \in SUBSET Doc /\ scan[s].stored \subseteq documents
  BY <1>1, AtWorkOn DEF Disc!AtCluster
<1>3. CASE scan[s].fresh
  <2>1. Disc!LeaveCluster(s) /\ torn' = torn \ {f}
    BY <1>3 DEF Disc!Recount
  <2>2. signals[f] \in SUBSET Doc /\ signals' = [signals EXCEPT ![f] = signals[f]]
    BY <1>1, <1>2 DEF DiscoveryTypes
  <2>3. /\ f \notin shared => f \notin recounted /\ Disc!OfCluster(signals[f], Grounds(evidence, f))
        /\ f \in opps
    <3>1. Grounds(evidence, f) \cup scan[s].docs = Grounds(evidence, f)
      BY <1>1
    <3> QED
      BY <1>1, <1>2, <1>3, <3>1 DEF ClusterInv, Alone
  <2> QED
    BY <1>1, <2>1, <2>2, <2>3, DoneKeepsDiscovery DEF Disc!AtCluster
<1>4. CASE ~scan[s].fresh
  <2> DEFINE r == [scan[s] EXCEPT !.at = "updating", !.read = Grounds(evidence, f)]
  <2>1. scan' = [scan EXCEPT ![s] = r] /\ UNCHANGED torn
    BY <1>4 DEF Disc!Recount, Disc!Set, Disc!EvidenceOf, Grounds
  <2>2. /\ r \in ScanRecord /\ r.at = "updating" /\ r.for = f /\ r.stored = scan[s].stored
        /\ r.read = Grounds(evidence, f)
    <3>1. Grounds(evidence, f) \in SUBSET Doc
      BY DEF Grounds
    <3> QED
      BY <1>2, <3>1 DEF ScanRecord, Disc!AtCluster
  <2> HIDE DEF r
  <2>3. scan'[s] = r /\ \A q \in Scan \ {s} : scan'[q] = scan[q]
    BY <1>2, <2>1 DEF DiscoveryTypes
  <2>4. Grounds(evidence', f) = Grounds(evidence, f)
    BY <1>1 DEF Grounds
  <2>5. ClusterInv(s)'
    BY <1>1, <1>2, <2>2, <2>3, <2>4 DEF ClusterInv, Alone, Disc!AtCluster
  <2>6. OnlyOf(f) /\ RowsTyped /\ r.stored \subseteq documents'
    BY <1>1, <1>2, <2>1, <2>2 DEF OnlyOf, RowsTyped, DiscoveryTypes
  <2>7. f \in Fingerprint \ opps' => \A d \in Doc : evidence'[f][d] = 0
    BY <1>1 DEF DiscoveryInv
  <2> HIDE DEF f
  <2> QED
    BY <1>1, <1>2, <2>1, <2>2, <2>5, <2>6, <2>7, ScanStep DEF f
<1> QED
  BY <1>3, <1>4

LEMMA UpdateKeepsDiscovery ==
  ASSUME DiscoveryInv, NEW s \in Scan, Disc!Update(s)
  PROVE  DiscoveryInv'
<1>1. /\ scan[s].at = "updating" /\ signals' = [signals EXCEPT ![scan[s].for] = scan[s].read]
      /\ torn' = torn \ {scan[s].for} /\ Disc!LeaveCluster(s)
      /\ recounted' = recounted \cup {scan[s].for}
      /\ UNCHANGED <<documents, opps, evidence, scans, shared>>
  BY DEF Disc!Update
<1>2. scan[s] \in ScanRecord /\ ClusterInv(s) /\ scan[s].for # "none"
  BY <1>1, AtWorkOn DEF Disc!AtCluster
<1>3. scan[s].read \in SUBSET Doc
  BY <1>2, ScanFields
<1>4. /\ scan[s].for \notin shared => scan[s].read = Grounds(evidence, scan[s].for)
      /\ scan[s].for \in opps
  BY <1>1, <1>2 DEF ClusterInv, Alone
<1> QED
  BY <1>1, <1>3, <1>4, DoneKeepsDiscovery DEF Disc!AtCluster

LEMMA EndsKeepDiscovery ==
  ASSUME DiscoveryInv, NEW s \in Scan, Disc!Fail(s) \/ Disc!End(s)
  PROVE  DiscoveryInv'
<1>1. UNCHANGED <<documents, opps, evidence, signals, scans, recounted, shared>>
  BY DEF Disc!Fail, Disc!End, Disc!rows
<1>2. DiscoveryTypes /\ ClusterInv(s) /\ scan[s].stored \subseteq documents
  BY DEF DiscoveryInv, DiscoveryTypes
<1>3. \/ scan[s].for = "none" /\ torn' = torn
      \/ scan[s].for # "none" /\ torn' = torn \cup {scan[s].for}
  BY <1>2 DEF Disc!Fail, Disc!End, Disc!CutOff, ClusterInv
<1>4. CASE Disc!Fail(s)
  <2>1. scan' = [scan EXCEPT ![s] = [Disc!Idle EXCEPT !.at = "clustering", !.stored = scan[s].stored]]
    BY <1>4 DEF Disc!Fail, Disc!LeaveCluster, Disc!Set
  <2> QED
    BY <1>1, <1>2, <1>3, <2>1, LeftCluster, LeavingKeepsDiscovery DEF DiscoveryTypes, Disc!AtCluster
<1>5. CASE Disc!End(s)
  <2>1. scan' = [scan EXCEPT ![s] = Disc!Idle]
    BY <1>5 DEF Disc!End, Disc!Set
  <2> QED
    BY <1>1, <1>2, <1>3, <2>1, IdleScan, LeavingKeepsDiscovery DEF DiscoveryTypes, Disc!AtCluster
<1> QED
  BY <1>4, <1>5

LEMMA FetchingKeepsDiscovery ==
  ASSUME DiscoveryInv, NEW s \in Scan,
         \/ \E docs \in (SUBSET Doc) \ {{}} : Disc!Fetch(s, docs)
         \/ \E d \in Doc : Disc!StoreDocument(s, d)
  PROVE  DiscoveryInv'
<1>1. DiscoveryTypes /\ ClusterInv(s) /\ scan[s] \in ScanRecord
  BY DEF DiscoveryInv, DiscoveryTypes
<1>2. ASSUME NEW docs \in SUBSET Doc, Disc!Fetch(s, docs) PROVE DiscoveryInv'
  <2> DEFINE r == [Disc!Idle EXCEPT !.at = "storing", !.docs = docs]
  <2>1. /\ scan[s].at = "idle" /\ scan' = [scan EXCEPT ![s] = r] /\ scans < MaxScans /\ scans' = scans + 1
        /\ UNCHANGED <<documents, opps, evidence, signals, recounted, shared, torn>>
    BY <1>2 DEF Disc!Fetch, Disc!Set, Disc!rows
  <2>2. r \in ScanRecord /\ r.at = "storing" /\ r.for = "none" /\ r.stored = {}
    <3>1. FALSE \in BOOLEAN
      OBVIOUS
    <3> QED
      BY <3>1 DEF ScanRecord, Disc!Idle
  <2>3. scan[s].for = "none" /\ scans' \in 0..MaxScans
    BY <1>1, <2>1, DiscoveryAssumption DEF ClusterInv, Disc!AtCluster, DiscoveryTypes
  <2> HIDE DEF r
  <2> QED
    BY <1>1, <2>1, <2>2, <2>3, LeavingKeepsDiscovery DEF DiscoveryTypes, Disc!AtCluster
<1>3. ASSUME NEW d \in Doc, Disc!StoreDocument(s, d) PROVE DiscoveryInv'
  <2> DEFINE r == [scan[s] EXCEPT !.docs = @ \ {d}, !.stored = @ \cup {d},
                                  !.at = IF scan[s].docs = {d} THEN "clustering" ELSE "storing"]
  <2>1. /\ scan[s].at = "storing" /\ scan' = [scan EXCEPT ![s] = r] /\ documents' = documents \cup {d}
        /\ UNCHANGED <<opps, evidence, signals, scans, recounted, shared, torn>>
    BY <1>3 DEF Disc!StoreDocument, Disc!Set
  <2>2. /\ r \in ScanRecord /\ r.at \in {"clustering", "storing"} /\ r.for = scan[s].for
        /\ r.stored = scan[s].stored \cup {d}
    BY <1>1, ScanFields DEF ScanRecord, Disc!AtCluster
  <2>3. scan[s].for = "none" /\ r.stored \subseteq documents'
    BY <1>1, <2>1, <2>2 DEF ClusterInv, Disc!AtCluster, DiscoveryTypes
  <2> HIDE DEF r
  <2> QED
    <3>1. documents' \subseteq Doc /\ documents \subseteq documents' /\ scans' \in 0..MaxScans
      BY <1>1, <2>1 DEF DiscoveryTypes
    <3>2. r.for = "none" /\ r.at \notin Disc!AtCluster
      BY <2>2, <2>3 DEF Disc!AtCluster
    <3> QED
      BY <2>1, <2>2, <2>3, <3>1, <3>2, LeavingKeepsDiscovery
<1> QED
  BY <1>2, <1>3

LEMMA DiscoveryStays ==
  ASSUME DiscoveryInv, [Disc!Next]_(Disc!discoveryVars)
  PROVE  DiscoveryInv' /\ [EvidenceStep]_(Disc!discoveryVars)
<1>1. CASE UNCHANGED Disc!discoveryVars
  <2>1. UNCHANGED <<documents, opps, evidence, signals, scan, scans, recounted, shared, torn>>
    BY <1>1 DEF Disc!discoveryVars, Disc!rows
  <2>2. Disc!SignalsFollowEvidence'
    BY <2>1 DEF DiscoveryInv, Disc!EvidenceOf, Disc!SignalsFollowEvidence, Disc!OfCluster
  <2>3. ASSUME NEW s \in Scan PROVE ClusterInv(s)'
    <3>1. ClusterInv(s) /\ (Alone(s) => Alone(s)')
      BY <2>1, AloneStays DEF DiscoveryInv, Alone
    <3> QED
      BY <2>1, <3>1 DEF ClusterInv
  <2>4. DiscoveryTypes' /\ \A f \in Fingerprint \ opps', d \in Doc : evidence'[f][d] = 0
    BY <2>1 DEF DiscoveryInv, DiscoveryTypes
  <2>5. \A s \in Scan : ClusterInv(s)'
    BY <2>3
  <2> QED
    BY <1>1, <2>2, <2>4, <2>5 DEF DiscoveryInv
<1>2. UNCHANGED evidence => EvidenceStep
  <2>1. \A f \in Fingerprint, d \in Doc : evidence[f][d] \in Nat
    BY DEF DiscoveryInv, DiscoveryTypes
  <2> QED
    BY <2>1 DEF EvidenceStep
<1>3. ASSUME NEW s \in Scan,
             \/ \E docs \in (SUBSET Doc) \ {{}} : Disc!Fetch(s, docs)
             \/ \E d \in Doc : Disc!StoreDocument(s, d)
      PROVE  DiscoveryInv' /\ UNCHANGED evidence
  BY <1>3, FetchingKeepsDiscovery DEF Disc!Fetch, Disc!StoreDocument, Disc!rows
<1>4. ASSUME NEW s \in Scan, NEW f \in Fingerprint, NEW docs \in SUBSET Doc,
             NEW quoted \in Disc!Quoted(docs), NEW related \in SUBSET Context,
             Disc!TakeCluster(s, f, docs, quoted, related)
      PROVE  DiscoveryInv' /\ UNCHANGED evidence
  BY <1>4, TakesItsCluster DEF Disc!TakeCluster, Disc!rows
<1>5. ASSUME NEW s \in Scan, NEW d \in Doc, Disc!LookForEvidence(s, d)
      PROVE  DiscoveryInv' /\ UNCHANGED evidence
  BY <1>5, LookingKeepsDiscovery DEF Disc!LookForEvidence, Disc!rows
<1>6. ASSUME NEW s \in Scan, Disc!Insert(s) \/ Disc!Recount(s) \/ Disc!Update(s) \/ Disc!Fail(s) \/ Disc!End(s)
      PROVE  DiscoveryInv' /\ UNCHANGED evidence
  BY <1>6, InsertKeepsDiscovery, RecountKeepsDiscovery, UpdateKeepsDiscovery, EndsKeepDiscovery
     DEF Disc!Insert, Disc!Recount, Disc!Update, Disc!Fail, Disc!End, Disc!rows
<1>7. ASSUME NEW s \in Scan, Disc!InsertEvidence(s) PROVE DiscoveryInv' /\ EvidenceStep
  BY <1>7, AddingKeepsDiscovery
<1> QED
  BY <1>1, <1>2, <1>3, <1>4, <1>5, <1>6, <1>7 DEF Disc!Next

LEMMA DiscoverySuffices == DiscoveryInv => Disc!TypeOK /\ Disc!SignalsFollowEvidence
BY DEF DiscoveryInv, DiscoveryTypes, Disc!TypeOK, ScanRecord, Disc!AtCluster

-----------------------------------------------------------------------------
(***************************************************************************)
(* The chain of agent tasks.  A blocked build that nobody has heard of is  *)
(* in the hands of a task that will come to its review; a task about an    *)
(* experiment is about one that there is, and one that a human was asked   *)
(* about is no draft any more.                                             *)
(***************************************************************************)
Sound(r) ==
  /\ r.kind = "start" => r.of \in PipeExperiment
  /\ r.kind \in {"review", "deploy"} => r.of \in Project

FreshRow ==
  [kind : Pipe!Kind, of : Pipe!Subject, st : {"queued"}, tries : {0}, named : {FALSE},
   resumed : {FALSE}, next : {<<>>}]
Fresh == {r \in FreshRow : Sound(r)}

TaskState == Pipe!Active \cup {"waiting_approval", "succeeded", "failed", "cancelled"}
TaskRow ==
  [kind : Pipe!Kind, of : Pipe!Subject, st : TaskState, tries : 0..(MaxAttempts + 1),
   named : BOOLEAN, resumed : BOOLEAN, next : Seq(Fresh)]

ExStatus == Pipe!Open \cup {"none", "paused", "ended"}

RowInv(r, status) ==
  /\ Sound(r)
  /\ r.st = "queued" => r.tries < MaxAttempts \/ (r.resumed /\ r.tries <= MaxAttempts)
  /\ ~r.resumed => r.tries <= MaxAttempts
  /\ r.st = "built" => r.kind = "generate" /\ r.of \in Project
  /\ r.resumed => r.st # "waiting_approval"
  /\ r.kind = "start" =>
       /\ status[r.of] # "none"
       /\ r.resumed \/ r.st = "waiting_approval" => status[r.of] # "draft"
  /\ \A i \in DOMAIN r.next : r.next[i].kind = "start" => status[r.next[i].of] # "none"

Covers(r, p) ==
  \/ r.st = "built" /\ r.kind = "generate" /\ r.of = p
  \/ r.st \in {"queued", "running"} /\ r.kind = "review" /\ r.of = p
  \/ r.st = "spawning" /\ \E i \in DOMAIN r.next : r.next[i].kind = "review" /\ r.next[i].of = p

RowsInv ==
  /\ task \in Seq(TaskRow) /\ Len(task) <= MaxTasks
  /\ experiments \in [PipeExperiment -> ExStatus]
  /\ \A t \in DOMAIN task : RowInv(task[t], experiments)

DataTypes ==
  /\ hypothesis \in {"none", "proposed", "selected"}
  /\ projects \in [Project -> {"none", "passed", "blocked"}]
  /\ reported \subseteq Project /\ live \subseteq Project /\ cut \subseteq Project
  /\ commands \in 0..MaxCommands /\ errors \in 0..MaxErrors /\ crossed \in BOOLEAN
  /\ asked \subseteq PipeExperiment /\ apart \subseteq PipeExperiment

Awaited(p) == \E t \in DOMAIN task : Covers(task[t], p)

BuildInv == \A p \in Project \ (reported \cup cut) : projects[p] = "blocked" => Awaited(p)

Looking(t) == task[t].st = "looked"

IsOpen(e) == experiments[e] \in Pipe!Open

OpenInv ==
  ~crossed =>
    /\ \A e, f \in PipeExperiment \ apart : IsOpen(e) /\ IsOpen(f) => e = f
    /\ \A t, u \in DOMAIN task : Looking(t) /\ Looking(u) => t = u
    /\ \A t \in DOMAIN task, e \in PipeExperiment \ apart : Looking(t) => ~IsOpen(e)

PipelineInv == RowsInv /\ DataTypes /\ BuildInv /\ OpenInv

LEMMA PipelineStarts == ServicesInit => PipelineInv
<1> SUFFICES ASSUME ServicesInit PROVE PipelineInv
  OBVIOUS
<1>1. Pipe!Init
  BY DEF ServicesInit
<1>2. task \in Seq(TaskRow) /\ Len(task) = 0 /\ DOMAIN task = {}
  BY <1>1 DEF Pipe!Init
<1>3. RowsInv
  BY <1>1, <1>2, PipelineAssumption DEF Pipe!Init, RowsInv, ExStatus
<1>4. DataTypes
  <2>1. commands \in 0..MaxCommands /\ errors \in 0..MaxErrors
    BY <1>1, PipelineAssumption DEF Pipe!Init
  <2> QED
    BY <1>1, <2>1 DEF Pipe!Init, DataTypes
<1>6. BuildInv
  BY <1>1 DEF Pipe!Init, BuildInv
<1>5. OpenInv
  BY <1>1, <1>2 DEF Pipe!Init, OpenInv, IsOpen, Pipe!Open
<1> QED
  BY <1>3, <1>4, <1>5, <1>6 DEF PipelineInv

\* A task that a handler or a command has just made.
LEMMA FreshTask ==
  ASSUME NEW k \in Pipe!Kind, NEW s \in Pipe!Subject,
         k = "start" => s \in PipeExperiment, k \in {"review", "deploy"} => s \in Project
  PROVE  /\ Pipe!T(k, s) \in Fresh
         /\ Pipe!T(k, s).kind = k /\ Pipe!T(k, s).of = s
BY DEF Pipe!T, Fresh, FreshRow, Sound

LEMMA FreshFields ==
  ASSUME NEW r \in Fresh
  PROVE  /\ r \in TaskRow /\ Sound(r)
         /\ r.kind \in Pipe!Kind /\ r.of \in Pipe!Subject /\ r.st = "queued" /\ r.tries = 0
         /\ r.resumed = FALSE /\ DOMAIN r.next = {}
<1>1. r \in FreshRow /\ Sound(r)
  BY DEF Fresh
<1>2. r = [kind |-> r.kind, of |-> r.of, st |-> r.st, tries |-> r.tries,
           named |-> r.named, resumed |-> r.resumed, next |-> r.next]
  BY <1>1 DEF FreshRow
<1>3. /\ r.kind \in Pipe!Kind /\ r.of \in Pipe!Subject /\ r.st = "queued" /\ r.tries = 0
      /\ r.named = FALSE /\ r.resumed = FALSE /\ r.next = <<>>
  BY <1>1 DEF FreshRow
<1>4. r.next \in Seq(Fresh) /\ DOMAIN r.next = {}
  BY <1>3
<1>5. r.tries \in 0..(MaxAttempts + 1) /\ r.st \in TaskState
  BY <1>3, PipelineAssumption DEF TaskState, Pipe!Active
<1> QED
  BY <1>1, <1>2, <1>3, <1>4, <1>5 DEF TaskRow

LEMMA FreshRows ==
  ASSUME NEW r \in Fresh, NEW status, r.kind = "start" => status[r.of] # "none"
  PROVE  RowInv(r, status)
<1>0. r.tries = 0
  BY FreshFields
<1>1. r.tries < MaxAttempts /\ r.tries <= MaxAttempts
  BY <1>0, PipelineAssumption
<1> QED
  BY <1>1, FreshFields DEF RowInv

LEMMA TaskFields ==
  ASSUME NEW r \in TaskRow
  PROVE  /\ r.kind \in Pipe!Kind /\ r.of \in Pipe!Subject /\ r.st \in TaskState
         /\ r.tries \in 0..(MaxAttempts + 1) /\ r.named \in BOOLEAN
         /\ r.resumed \in BOOLEAN /\ r.next \in Seq(Fresh)
BY DEF TaskRow

-----------------------------------------------------------------------------
(* A step of one task. *)

Later(before, after) ==
  /\ after \in [PipeExperiment -> ExStatus]
  /\ \A e \in PipeExperiment : before[e] # "none" => after[e] # "none"
  /\ \A e \in PipeExperiment : before[e] \notin {"none", "draft"} => after[e] \notin {"none", "draft"}

LEMMA RowIsKept ==
  ASSUME NEW r \in TaskRow, NEW before, NEW after, RowInv(r, before), Later(before, after)
  PROVE  RowInv(r, after)
<1>1. r.next \in Seq(Fresh)
  BY TaskFields
<1>2. \A i \in DOMAIN r.next : r.next[i] \in Fresh
  BY <1>1
<1>3. \A i \in DOMAIN r.next : Sound(r.next[i])
  BY <1>2, FreshFields
<1> QED
  BY <1>3 DEF RowInv, Later, Sound

OnlyTask(t) ==
  /\ task' \in Seq(TaskRow) /\ Len(task') = Len(task) /\ DOMAIN task' = DOMAIN task
  /\ \A u \in DOMAIN task : u # t => task'[u] = task[u]

LEMMA OneTaskMoves ==
  ASSUME task \in Seq(TaskRow), NEW t \in DOMAIN task, NEW r \in TaskRow,
         task' = [task EXCEPT ![t] = r]
  PROVE  OnlyTask(t) /\ task'[t] = r
<1>1. t \in 1..Len(task)
  OBVIOUS
<1>2. task' \in Seq(TaskRow) /\ Len(task') = Len(task)
  BY <1>1, ExceptSeq
<1> QED
  BY <1>1, <1>2 DEF OnlyTask

LEMMA RowsFollowOne ==
  ASSUME RowsInv, NEW t \in DOMAIN task, OnlyTask(t),
         RowInv(task'[t], experiments'), Later(experiments, experiments')
  PROVE  RowsInv'
<1>1. \A u \in DOMAIN task : task[u] \in TaskRow
  BY DEF RowsInv
<1>2. \A u \in DOMAIN task : RowInv(task'[u], experiments')
  BY <1>1, RowIsKept DEF RowsInv, OnlyTask
<1> QED
  BY <1>2 DEF RowsInv, OnlyTask, Later

\* What a step of one task owes to the builds: a blocked one that the task
\* answered for is reported, given up or still answered for.
BuildsKept(t) ==
  /\ reported \subseteq reported' /\ cut \subseteq cut'
  /\ \A p \in Project \ (reported' \cup cut') :
       /\ Covers(task[t], p) => Covers(task'[t], p)
       /\ projects'[p] = projects[p] \/ Covers(task'[t], p)

LEMMA BuildsFollowOne ==
  ASSUME BuildInv, NEW t \in DOMAIN task, OnlyTask(t), BuildsKept(t)
  PROVE  BuildInv'
<1> SUFFICES ASSUME NEW p \in Project \ (reported' \cup cut'), projects'[p] = "blocked"
             PROVE  \E u \in DOMAIN task' : Covers(task'[u], p)
  BY DEF BuildInv, Awaited
<1>1. CASE Covers(task'[t], p)
  BY <1>1 DEF OnlyTask
<1>2. CASE ~Covers(task'[t], p)
  <2>1. p \in Project \ (reported \cup cut) /\ projects[p] = "blocked"
    BY <1>2 DEF BuildsKept
  <2>2. PICK u \in DOMAIN task : Covers(task[u], p)
    BY <2>1 DEF BuildInv, Awaited
  <2>3. u # t
    BY <1>2, <2>2 DEF BuildsKept
  <2> QED
    BY <2>2, <2>3 DEF OnlyTask
<1> QED
  BY <1>1, <1>2

\* No step but that of a design opens an experiment of the agents' own.
NothingOpens ==
  /\ apart \subseteq apart'
  /\ \A e \in PipeExperiment \ apart' :
       experiments'[e] \in Pipe!Open => experiments[e] \in Pipe!Open

LEMMA SameOpens ==
  ASSUME UNCHANGED <<experiments, apart>>
  PROVE  NothingOpens
BY DEF NothingOpens

LEMMA OpenFollowsOne ==
  ASSUME RowsInv, OpenInv, NEW t \in DOMAIN task, OnlyTask(t), NothingOpens,
         task'[t].st = "looked" => Looking(t), crossed => crossed'
  PROVE  OpenInv'
<1>1. \A e \in PipeExperiment \ apart' : e \in PipeExperiment \ apart /\ (IsOpen(e)' => IsOpen(e))
  BY DEF NothingOpens, IsOpen
<1>2. \A u \in DOMAIN task' : u \in DOMAIN task /\ (Looking(u)' => Looking(u))
  BY DEF OnlyTask, Looking
<1> QED
  BY <1>1, <1>2 DEF OpenInv

\* The released task of a step does not wait for a human again.
GoesOn == \A t \in DOMAIN task : task[t].resumed => task'[t].st # "waiting_approval"

LEMMA GoesOnIfRows ==
  ASSUME RowsInv, NEW t \in DOMAIN task, OnlyTask(t),
         task[t].resumed => task'[t].st # "waiting_approval"
  PROVE  GoesOn
BY DEF GoesOn, RowsInv, RowInv, OnlyTask


\* A step of one task that leaves the rest of the data alone.
LEMMA QuietTask ==
  ASSUME PipelineInv, NEW t \in DOMAIN task, OnlyTask(t), RowInv(task'[t], experiments),
         task[t].resumed => task'[t].st # "waiting_approval",
         task'[t].st = "looked" => Looking(t),
         \A p \in Project : Covers(task[t], p) => Covers(task'[t], p),
         UNCHANGED <<projects, reported, live, experiments, asked, commands, errors, cut, crossed, apart>>,
         hypothesis' \in {"none", "proposed", "selected"}
  PROVE  PipelineInv' /\ GoesOn
<1>1. Later(experiments, experiments')
  BY DEF PipelineInv, RowsInv, Later
<1>2. RowsInv'
  BY <1>1, RowsFollowOne DEF PipelineInv
<1>3. BuildInv'
  BY BuildsFollowOne DEF PipelineInv, BuildsKept
<1>4. OpenInv'
  BY SameOpens, OpenFollowsOne DEF PipelineInv
<1>5. GoesOn
  BY GoesOnIfRows DEF PipelineInv
<1>6. DataTypes'
  BY DEF PipelineInv, DataTypes
<1> QED
  BY <1>2, <1>3, <1>4, <1>5, <1>6 DEF PipelineInv

-----------------------------------------------------------------------------
(* The course of a task *)

\* What tasks make: a sequence of fresh ones.
LEMMA SuccessorsOf ==
  /\ <<>> \in Seq(Fresh)
  /\ \A f \in Fresh : <<f>> \in Seq(Fresh) /\ DOMAIN <<f>> = {1} /\ <<f>>[1] = f
BY DEF Fresh

LEMMA ThreeScreenings ==
  ASSUME NEW f \in Fresh, NEW g \in Fresh, NEW h \in Fresh
  PROVE  /\ <<f, g, h>> \in Seq(Fresh) /\ DOMAIN <<f, g, h>> = 1..3
         /\ \A i \in 1..3 : <<f, g, h>>[i] \in {f, g, h}
OBVIOUS

\* What no handler touches: what its task is and what it is about.

LEMMA ClaimKeepsPipeline ==
  ASSUME PipelineInv, NEW t \in DOMAIN task, Pipe!Claim(t)
  PROVE  PipelineInv' /\ GoesOn
<1> DEFINE r == [task[t] EXCEPT !.st = "running", !.tries = @ + 1]
<1>0. task[t] \in TaskRow /\ RowInv(task[t], experiments)
  BY DEF PipelineInv, RowsInv
<1>1. task[t].st = "queued" /\ task' = [task EXCEPT ![t] = r]
  BY <1>0 DEF Pipe!Claim, PipelineInv, RowsInv
<1>2. /\ r.kind = task[t].kind /\ r.of = task[t].of /\ r.resumed = task[t].resumed
      /\ r.next = task[t].next /\ r.st = "running" /\ r.tries = task[t].tries + 1
  BY <1>0 DEF TaskRow
<1>3. /\ task[t].tries \in 0..MaxAttempts
      /\ ~task[t].resumed => task[t].tries < MaxAttempts
  BY <1>0, <1>1, TaskFields, PipelineAssumption DEF RowInv
<1>4. /\ r.tries \in 0..(MaxAttempts + 1) /\ r.st \in TaskState
      /\ ~r.resumed => r.tries <= MaxAttempts
  BY <1>2, <1>3, PipelineAssumption DEF TaskState, Pipe!Active
<1>5. r \in TaskRow
  BY <1>0, <1>4 DEF TaskRow
<1>6. OnlyTask(t) /\ task'[t] = r
  BY <1>1, <1>5, OneTaskMoves DEF PipelineInv, RowsInv
<1> HIDE DEF r
<1>7. RowInv(r, experiments)
  BY <1>0, <1>1, <1>2, <1>4 DEF RowInv, Sound
<1>8. \A p \in Project : Covers(task[t], p) => Covers(r, p)
  BY <1>1, <1>2 DEF Covers
<1> QED
  BY <1>1, <1>2, <1>6, <1>7, <1>8, QuietTask
     DEF Pipe!Claim, Pipe!data, Pipe!bounds, Pipe!history, PipelineInv, DataTypes

\* The row that a handler leaves: its state, and what it names.
Left(r, st, next) == [r EXCEPT !.st = st, !.next = next]

LEMMA LeftRow ==
  ASSUME NEW r \in TaskRow, NEW st \in TaskState, NEW next \in Seq(Fresh)
  PROVE  /\ Left(r, st, next) \in TaskRow
         /\ Left(r, st, next).kind = r.kind /\ Left(r, st, next).of = r.of
         /\ Left(r, st, next).resumed = r.resumed /\ Left(r, st, next).tries = r.tries
         /\ Left(r, st, next).st = st /\ Left(r, st, next).next = next
BY DEF Left, TaskRow

LEMMA ReturnLeaves ==
  ASSUME RowsInv, NEW t \in DOMAIN task, NEW next \in Seq(Fresh), Pipe!Return(t, next)
  PROVE  /\ OnlyTask(t)
         /\ task'[t] = Left(task[t], IF next = <<>> THEN "succeeded" ELSE "spawning", next)
<1> DEFINE st == IF next = <<>> THEN "succeeded" ELSE "spawning"
           r == Left(task[t], st, next)
<1>1. task[t] \in TaskRow
  BY DEF RowsInv
<1>2. st \in TaskState
  BY DEF TaskState, Pipe!Active
<1>3. r \in TaskRow
  BY <1>1, <1>2, LeftRow
<1>4. task' = [task EXCEPT ![t] = r]
  BY <1>1 DEF Pipe!Return, Left, RowsInv
<1> HIDE DEF r
<1>5. OnlyTask(t) /\ task'[t] = r
  BY <1>3, <1>4, OneTaskMoves DEF RowsInv
<1> QED
  BY <1>5 DEF r

LEMMA ToLeaves ==
  ASSUME RowsInv, NEW t \in DOMAIN task, NEW st \in TaskState, Pipe!To(t, st)
  PROVE  OnlyTask(t) /\ task'[t] = Left(task[t], st, task[t].next)
<1> DEFINE r == Left(task[t], st, task[t].next)
<1>1. task[t] \in TaskRow /\ task[t].next \in Seq(Fresh)
  BY TaskFields DEF RowsInv
<1>3. r \in TaskRow
  BY <1>1, LeftRow
<1>4. task' = [task EXCEPT ![t] = r]
  BY <1>1 DEF Pipe!To, Left, TaskRow, RowsInv
<1> HIDE DEF r
<1>5. OnlyTask(t) /\ task'[t] = r
  BY <1>3, <1>4, OneTaskMoves DEF RowsInv
<1> QED
  BY <1>5 DEF r

\* What a task names may only be started if it is there to be started.
Startable(next, status) ==
  \A i \in DOMAIN next : next[i].kind = "start" => status[next[i].of] # "none"

LEMMA LeftRowInv ==
  ASSUME NEW r \in TaskRow, NEW next \in Seq(Fresh), NEW st \in {"succeeded", "spawning"},
         NEW status, RowInv(r, status), Startable(next, status)
  PROVE  RowInv(Left(r, st, next), status)
<1>1. st \in TaskState
  BY DEF TaskState, Pipe!Active
<1>2. LET q == Left(r, st, next)
      IN /\ q.kind = r.kind /\ q.of = r.of /\ q.resumed = r.resumed /\ q.st = st /\ q.next = next
         /\ q.tries = r.tries
  BY <1>1, LeftRow
<1> QED
  BY <1>2 DEF RowInv, Sound, Startable

\* A running task that reviews no build answers for none.
LEMMA RunningCovers ==
  ASSUME NEW r, r.st = "running", r.kind # "review", NEW p
  PROVE  ~Covers(r, p)
BY DEF Covers

LEMMA ReturnKeepsPipeline ==
  ASSUME PipelineInv, NEW t \in DOMAIN task, NEW next \in Seq(Fresh), Pipe!Return(t, next),
         Startable(next, experiments),
         \A p \in Project : Covers(task[t], p) => Covers(task'[t], p),
         UNCHANGED <<projects, reported, live, experiments, asked, commands, errors, cut, crossed, apart>>,
         hypothesis' \in {"none", "proposed", "selected"}
  PROVE  PipelineInv' /\ GoesOn
<1> DEFINE st == IF next = <<>> THEN "succeeded" ELSE "spawning"
<1>1. OnlyTask(t) /\ task'[t] = Left(task[t], st, next)
  BY ReturnLeaves DEF PipelineInv
<1>2. task[t] \in TaskRow /\ RowInv(task[t], experiments)
  BY DEF PipelineInv, RowsInv
<1>3. st \in {"succeeded", "spawning"} /\ st \in TaskState
  BY DEF TaskState, Pipe!Active
<1>4. task'[t].st = st
  BY <1>1, <1>2, <1>3, LeftRow
<1>5. RowInv(task'[t], experiments)
  BY <1>1, <1>2, <1>3, LeftRowInv
<1> QED
  BY <1>1, <1>3, <1>4, <1>5, QuietTask

LEMMA KindsExist ==
  /\ {"analyze", "risk", "finance", "customer", "spec", "generate", "review", "design", "start",
      "deploy", "production", "score", "draft", "send"} \subseteq Pipe!Kind
  /\ 0 \in Pipe!Subject /\ Project \subseteq Pipe!Subject /\ PipeExperiment \subseteq Pipe!Subject
BY DEF Pipe!Kind, Pipe!Subject, Pipe!NoOne

\* Tasks about nothing in particular.
LEMMA PlainTasks ==
  ASSUME NEW k \in Pipe!Kind \ {"start", "review", "deploy"}
  PROVE  Pipe!T(k, 0) \in Fresh /\ Pipe!T(k, 0).kind = k
BY FreshTask, KindsExist

LEMMA OneSuccessor ==
  ASSUME NEW f \in Fresh, NEW status, f.kind = "start" => status[f.of] # "none"
  PROVE  <<f>> \in Seq(Fresh) /\ Startable(<<f>>, status)
BY SuccessorsOf DEF Startable

LEMMA NoSuccessor == \A status : <<>> \in Seq(Fresh) /\ Startable(<<>>, status)
BY SuccessorsOf DEF Startable

LEMMA JustReturnsKeepsPipeline ==
  ASSUME PipelineInv, NEW t \in DOMAIN task, Pipe!JustReturns(t)
  PROVE  PipelineInv' /\ GoesOn
<1>1. UNCHANGED <<hypothesis, projects, reported, live, experiments, asked, commands, errors, cut, crossed, apart>>
      /\ hypothesis' \in {"none", "proposed", "selected"}
  BY DEF Pipe!JustReturns, Pipe!data, Pipe!bounds, Pipe!history, PipelineInv, DataTypes
<1>2. task[t].st = "running" /\ task[t].kind # "review"
  BY DEF Pipe!JustReturns, Pipe!Runs
<1>3. Pipe!T("send", 0) \in Fresh /\ Pipe!T("send", 0).kind = "send"
  BY PlainTasks, KindsExist
<1>4. Pipe!Return(t, <<>>) \/ Pipe!Return(t, <<Pipe!T("send", 0)>>)
  BY DEF Pipe!JustReturns, Pipe!NoOne
<1>5. PICK next \in Seq(Fresh) : Pipe!Return(t, next) /\ Startable(next, experiments)
  BY <1>3, <1>4, OneSuccessor, NoSuccessor
<1> QED
  BY <1>1, <1>2, <1>5, RunningCovers, ReturnKeepsPipeline

LEMMA AnalyzeKeepsPipeline ==
  ASSUME PipelineInv, NEW t \in DOMAIN task, Pipe!Analyze(t)
  PROVE  PipelineInv' /\ GoesOn
<1> DEFINE f == Pipe!T("risk", 0)
           g == Pipe!T("finance", 0)
           h == Pipe!T("customer", 0)
<1>1. UNCHANGED <<projects, reported, live, experiments, asked, commands, errors, cut, crossed, apart>>
      /\ hypothesis' \in {"none", "proposed", "selected"}
  BY DEF Pipe!Analyze, Pipe!bounds, Pipe!history, PipelineInv, DataTypes
<1>2. task[t].st = "running" /\ task[t].kind # "review"
  BY DEF Pipe!Analyze, Pipe!Runs
<1>3. f \in Fresh /\ g \in Fresh /\ h \in Fresh
      /\ f.kind = "risk" /\ g.kind = "finance" /\ h.kind = "customer"
  BY PlainTasks, KindsExist
<1>4. Pipe!Return(t, <<f, g, h>>)
  BY DEF Pipe!Analyze, Pipe!NoOne
<1> HIDE DEF f, g, h
<1>5. <<f, g, h>> \in Seq(Fresh) /\ Startable(<<f, g, h>>, experiments)
  BY <1>3, ThreeScreenings DEF Startable
<1> QED
  BY <1>1, <1>2, <1>4, <1>5, RunningCovers, ReturnKeepsPipeline

LEMMA ReviewFinanceKeepsPipeline ==
  ASSUME PipelineInv, NEW t \in DOMAIN task, Pipe!ReviewFinance(t)
  PROVE  PipelineInv' /\ GoesOn
<1>1. UNCHANGED <<projects, reported, live, experiments, asked, commands, errors, cut, crossed, apart>>
      /\ hypothesis' \in {"none", "proposed", "selected"}
  BY DEF Pipe!ReviewFinance, Pipe!bounds, Pipe!history, PipelineInv, DataTypes
<1>2. task[t].st = "running" /\ task[t].kind # "review" /\ Pipe!Return(t, <<>>)
  BY DEF Pipe!ReviewFinance, Pipe!Runs
<1> QED
  BY <1>1, <1>2, NoSuccessor, RunningCovers, ReturnKeepsPipeline

LEMMA SpecifyKeepsPipeline ==
  ASSUME PipelineInv, NEW t \in DOMAIN task, Pipe!Specify(t)
  PROVE  PipelineInv' /\ GoesOn
<1>1. UNCHANGED <<projects, reported, live, experiments, asked, commands, errors, cut, crossed, apart>>
      /\ hypothesis' \in {"none", "proposed", "selected"}
  BY DEF Pipe!Specify, Pipe!bounds, Pipe!history
<1>2. task[t].st = "running" /\ task[t].kind # "review"
      /\ Pipe!Return(t, <<Pipe!T("generate", 0)>>)
  BY DEF Pipe!Specify, Pipe!Runs, Pipe!NoOne
<1>3. Pipe!T("generate", 0) \in Fresh /\ Pipe!T("generate", 0).kind = "generate"
  BY PlainTasks, KindsExist
<1>4. <<Pipe!T("generate", 0)>> \in Seq(Fresh)
      /\ Startable(<<Pipe!T("generate", 0)>>, experiments)
  BY <1>3, OneSuccessor
<1> QED
  BY <1>1, <1>2, <1>4, RunningCovers, ReturnKeepsPipeline

-----------------------------------------------------------------------------
(* Builds *)

LEMMA GenerateKeepsPipeline ==
  ASSUME PipelineInv, NEW t \in DOMAIN task, NEW p \in Project,
         NEW res \in {"passed", "blocked"}, Pipe!Generate(t, p, res)
  PROVE  PipelineInv' /\ GoesOn
<1> DEFINE r == [task[t] EXCEPT !.st = "built", !.of = p]
<1>0. task[t] \in TaskRow /\ RowInv(task[t], experiments)
  BY DEF PipelineInv, RowsInv
<1>1. /\ task[t].st = "running" /\ task[t].kind = "generate" /\ task' = [task EXCEPT ![t] = r]
      /\ UNCHANGED <<hypothesis, reported, live, experiments, asked, commands, errors, cut, crossed, apart>>
      /\ projects' = [projects EXCEPT ![p] = res]
  BY <1>0 DEF Pipe!Generate, Pipe!Runs, Pipe!bounds, Pipe!history, PipelineInv, RowsInv
<1>2. /\ r.kind = task[t].kind /\ r.of = p /\ r.resumed = task[t].resumed
      /\ r.next = task[t].next /\ r.st = "built" /\ r.tries = task[t].tries
  BY <1>0 DEF TaskRow
<1>3. r \in TaskRow
  <2>1. "built" \in TaskState /\ p \in Pipe!Subject
    BY KindsExist DEF TaskState, Pipe!Active
  <2> QED
    BY <1>0, <2>1 DEF TaskRow
<1>4. OnlyTask(t) /\ task'[t] = r
  BY <1>1, <1>3, OneTaskMoves DEF PipelineInv, RowsInv
<1> HIDE DEF r
<1>5. RowInv(r, experiments)
  BY <1>0, <1>1, <1>2 DEF RowInv, Sound
<1>6. Later(experiments, experiments')
  BY <1>1 DEF PipelineInv, RowsInv, Later
<1>7. RowsInv'
  BY <1>1, <1>4, <1>5, <1>6, RowsFollowOne DEF PipelineInv
<1>8. BuildsKept(t)
  <2>1. Covers(r, p)
    BY <1>1, <1>2 DEF Covers
  <2>2. \A q \in Project : ~Covers(task[t], q)
    BY <1>1, RunningCovers
  <2> QED
    BY <1>1, <1>4, <2>1, <2>2 DEF BuildsKept, PipelineInv, DataTypes
<1>9. BuildInv'
  BY <1>4, <1>8, BuildsFollowOne DEF PipelineInv
<1>10. OpenInv'
  BY <1>1, <1>2, <1>4, SameOpens, OpenFollowsOne DEF PipelineInv
<1>11. GoesOn
  BY <1>2, <1>4, GoesOnIfRows DEF PipelineInv
<1>12. DataTypes'
  BY <1>1 DEF PipelineInv, DataTypes
<1> QED
  BY <1>7, <1>9, <1>10, <1>11, <1>12 DEF PipelineInv

LEMMA GeneratedKeepsPipeline ==
  ASSUME PipelineInv, NEW t \in DOMAIN task, Pipe!Generated(t)
  PROVE  PipelineInv' /\ GoesOn
<1> DEFINE f == Pipe!T("review", task[t].of)
           next == <<f>>
<1>0. task[t] \in TaskRow /\ RowInv(task[t], experiments)
  BY DEF PipelineInv, RowsInv
<1>1. /\ task[t].st = "built" /\ Pipe!Return(t, next)
      /\ UNCHANGED <<hypothesis, projects, reported, live, experiments, asked, commands, errors, cut, crossed, apart>>
      /\ hypothesis' \in {"none", "proposed", "selected"}
  BY DEF Pipe!Generated, Pipe!data, Pipe!bounds, Pipe!history, PipelineInv, DataTypes
<1>2. task[t].kind = "generate" /\ task[t].of \in Project
  BY <1>0, <1>1 DEF RowInv
<1>3. f \in Fresh /\ f.kind = "review" /\ f.of = task[t].of
  BY <1>2, KindsExist, FreshTask
<1> HIDE DEF f
<1>4. next \in Seq(Fresh) /\ Startable(next, experiments) /\ next # <<>>
      /\ DOMAIN next = {1} /\ next[1] = f
  BY <1>3, OneSuccessor, SuccessorsOf
<1> HIDE DEF next
<1>5. task'[t] = Left(task[t], "spawning", next)
  BY <1>1, <1>4, ReturnLeaves DEF PipelineInv
<1>6. task'[t].st = "spawning" /\ task'[t].next = next
  BY <1>0, <1>4, <1>5, LeftRow DEF TaskState, Pipe!Active
<1>7. \A p \in Project : Covers(task[t], p) => Covers(task'[t], p)
  BY <1>1, <1>3, <1>4, <1>6 DEF Covers
<1> QED
  BY <1>1, <1>4, <1>7, ReturnKeepsPipeline

LEMMA ReturnsNothing ==
  ASSUME RowsInv, NEW t \in DOMAIN task, Pipe!Return(t, <<>>)
  PROVE  /\ OnlyTask(t) /\ task'[t].st = "succeeded" /\ task'[t].resumed = task[t].resumed
         /\ RowInv(task'[t], experiments)
<1>1. task[t] \in TaskRow /\ RowInv(task[t], experiments)
  BY DEF RowsInv
<1>2. OnlyTask(t) /\ task'[t] = Left(task[t], "succeeded", <<>>)
  BY NoSuccessor, ReturnLeaves
<1>3. "succeeded" \in TaskState /\ <<>> \in Seq(Fresh)
  BY NoSuccessor DEF TaskState
<1> DEFINE q == Left(task[t], "succeeded", <<>>)
<1>4. q.st = "succeeded" /\ q.resumed = task[t].resumed
  BY <1>1, <1>3, LeftRow, Zenon
<1>5. RowInv(task'[t], experiments)
  BY <1>1, <1>2, NoSuccessor, LeftRowInv
<1> HIDE DEF q
<1>6. task'[t] = q
  BY <1>2 DEF q
<1> QED
  BY <1>2, <1>4, <1>5, <1>6

LEMMA ReviewBuildKeepsPipeline ==
  ASSUME PipelineInv, NEW t \in DOMAIN task, Pipe!ReviewBuild(t)
  PROVE  PipelineInv' /\ GoesOn
<1>0. task[t] \in TaskRow /\ RowInv(task[t], experiments)
  BY DEF PipelineInv, RowsInv
<1>1. /\ task[t].st = "running" /\ task[t].kind = "review" /\ Pipe!Return(t, <<>>)
      /\ UNCHANGED <<hypothesis, projects, live, experiments, asked, commands, errors, cut, crossed, apart>>
      /\ reported' = IF projects[task[t].of] = "blocked" THEN reported \cup {task[t].of} ELSE reported
  BY DEF Pipe!ReviewBuild, Pipe!Runs, Pipe!bounds, Pipe!history
<1>2. task[t].of \in Project
  BY <1>0, <1>1 DEF RowInv, Sound
<1>4. OnlyTask(t) /\ task'[t].st = "succeeded" /\ task'[t].resumed = task[t].resumed
  BY <1>1, ReturnsNothing DEF PipelineInv
<1>5. RowInv(task'[t], experiments)
  BY <1>1, ReturnsNothing DEF PipelineInv
<1>6. Later(experiments, experiments')
  BY <1>1 DEF PipelineInv, RowsInv, Later
<1>7. RowsInv'
  BY <1>1, <1>4, <1>5, <1>6, RowsFollowOne DEF PipelineInv
<1>8. BuildInv'
  <2> SUFFICES ASSUME NEW p \in Project \ (reported' \cup cut'), projects'[p] = "blocked"
               PROVE  \E u \in DOMAIN task' : Covers(task'[u], p)
    BY DEF BuildInv, Awaited
  <2>1. p \in Project \ (reported \cup cut) /\ projects[p] = "blocked" /\ p # task[t].of
    BY <1>1
  <2>2. PICK u \in DOMAIN task : Covers(task[u], p)
    BY <2>1 DEF PipelineInv, BuildInv, Awaited
  <2>3. u # t
    BY <1>1, <2>1, <2>2 DEF Covers
  <2> QED
    BY <1>4, <2>2, <2>3 DEF OnlyTask
<1>9. OpenInv'
  BY <1>1, <1>4, SameOpens, OpenFollowsOne DEF PipelineInv
<1>10. GoesOn
  BY <1>4, GoesOnIfRows DEF PipelineInv
<1>11. DataTypes'
  BY <1>1, <1>2 DEF PipelineInv, DataTypes
<1> QED
  BY <1>7, <1>8, <1>9, <1>10, <1>11 DEF PipelineInv

LEMMA DeployKeepsPipeline ==
  ASSUME PipelineInv, NEW t \in DOMAIN task, Pipe!Deploy(t)
  PROVE  PipelineInv' /\ GoesOn
<1>0. task[t] \in TaskRow /\ RowInv(task[t], experiments)
  BY DEF PipelineInv, RowsInv
<1>1. /\ task[t].st = "running" /\ task[t].kind = "deploy" /\ Pipe!Return(t, <<>>)
      /\ UNCHANGED <<hypothesis, projects, reported, experiments, asked, commands, errors, cut, crossed, apart>>
      /\ live' = live \cup {task[t].of}
  BY DEF Pipe!Deploy, Pipe!Runs, Pipe!bounds, Pipe!history
<1>2. task[t].of \in Project
  BY <1>0, <1>1 DEF RowInv, Sound
<1>4. OnlyTask(t) /\ task'[t].st = "succeeded" /\ task'[t].resumed = task[t].resumed
  BY <1>1, ReturnsNothing DEF PipelineInv
<1>5. RowInv(task'[t], experiments)
  BY <1>1, ReturnsNothing DEF PipelineInv
<1>6. Later(experiments, experiments')
  BY <1>1 DEF PipelineInv, RowsInv, Later
<1>7. RowsInv'
  BY <1>1, <1>4, <1>5, <1>6, RowsFollowOne DEF PipelineInv
<1>8. BuildsKept(t)
  BY <1>1, RunningCovers DEF BuildsKept
<1>9. BuildInv'
  BY <1>4, <1>8, BuildsFollowOne DEF PipelineInv
<1>10. OpenInv'
  BY <1>1, <1>4, SameOpens, OpenFollowsOne DEF PipelineInv
<1>11. GoesOn
  BY <1>4, GoesOnIfRows DEF PipelineInv
<1>12. DataTypes'
  BY <1>1, <1>2 DEF PipelineInv, DataTypes
<1> QED
  BY <1>7, <1>9, <1>10, <1>11, <1>12 DEF PipelineInv

-----------------------------------------------------------------------------
(* Experiments *)

LEMMA LookKeepsPipeline ==
  ASSUME PipelineInv, NEW t \in DOMAIN task, Pipe!Look(t)
  PROVE  PipelineInv' /\ GoesOn
<1>0. task[t] \in TaskRow /\ RowInv(task[t], experiments) /\ task[t].next \in Seq(Fresh)
  BY TaskFields DEF PipelineInv, RowsInv
<1>1. /\ task[t].st = "running" /\ task[t].kind = "design"
      /\ UNCHANGED <<hypothesis, projects, reported, live, experiments, asked, commands, errors, cut, apart>>
      /\ hypothesis' \in {"none", "proposed", "selected"}
  BY DEF Pipe!Look, Pipe!Runs, Pipe!data, Pipe!bounds, PipelineInv, DataTypes
<1>2. ASSUME NEW e \in PipeExperiment, experiments[e] \in Pipe!Open,
             Pipe!Return(t, <<Pipe!T("start", e)>>), UNCHANGED crossed
      PROVE  PipelineInv' /\ GoesOn
  <2>1. /\ Pipe!T("start", e) \in Fresh /\ Pipe!T("start", e).kind = "start"
        /\ Pipe!T("start", e).of = e
    BY KindsExist, FreshTask
  <2>2. experiments[e] # "none"
    BY <1>2 DEF Pipe!Open
  <2>3. <<Pipe!T("start", e)>> \in Seq(Fresh) /\ Startable(<<Pipe!T("start", e)>>, experiments)
    BY <2>1, <2>2, OneSuccessor
  <2> QED
    BY <1>1, <1>2, <2>3, RunningCovers, ReturnKeepsPipeline
<1>3. ASSUME \A e \in PipeExperiment : experiments[e] \notin Pipe!Open, Pipe!To(t, "looked"),
             crossed' = (crossed \/ \E u \in DOMAIN task : task[u].st = "looked")
      PROVE  PipelineInv' /\ GoesOn
  <2>1. "looked" \in TaskState
    BY DEF TaskState, Pipe!Active
  <2>2. OnlyTask(t) /\ task'[t] = Left(task[t], "looked", task[t].next)
    BY <1>3, <2>1, ToLeaves DEF PipelineInv
  <2>3. /\ task'[t].st = "looked" /\ task'[t].resumed = task[t].resumed
        /\ task'[t].kind = task[t].kind /\ task'[t].of = task[t].of /\ task'[t].next = task[t].next
        /\ task'[t].tries = task[t].tries
    BY <1>0, <2>1, <2>2, LeftRow
  <2>4. RowInv(task'[t], experiments)
    BY <1>0, <1>1, <2>3 DEF RowInv, Sound
  <2>5. Later(experiments, experiments')
    BY <1>1 DEF PipelineInv, RowsInv, Later
  <2>6. RowsInv'
    BY <1>1, <2>2, <2>4, <2>5, RowsFollowOne DEF PipelineInv
  <2>7. BuildsKept(t)
    BY <1>1, RunningCovers DEF BuildsKept
  <2>8. BuildInv'
    BY <2>2, <2>7, BuildsFollowOne DEF PipelineInv
  <2>9. OpenInv'
    <3> SUFFICES ASSUME ~crossed' PROVE OpenInv'
      BY DEF OpenInv
    <3>1. ~crossed /\ \A u \in DOMAIN task : ~Looking(u)
      BY <1>3 DEF Looking
    <3>2. \A e \in PipeExperiment : ~IsOpen(e)'
      BY <1>1, <1>3 DEF IsOpen
    <3>3. \A u \in DOMAIN task' : task'[u].st = "looked" => u = t
      BY <2>2, <3>1 DEF OnlyTask, Looking
    <3> QED
      BY <3>2, <3>3 DEF OpenInv, Looking
  <2>10. GoesOn
    BY <2>2, <2>3, GoesOnIfRows DEF PipelineInv
  <2>11. DataTypes'
    BY <1>1, <1>3 DEF PipelineInv, DataTypes
  <2> QED
    BY <2>6, <2>8, <2>9, <2>10, <2>11 DEF PipelineInv
<1> QED
  BY <1>2, <1>3 DEF Pipe!Look

LEMMA CreateKeepsPipeline ==
  ASSUME PipelineInv, NEW t \in DOMAIN task, NEW e \in PipeExperiment, Pipe!Create(t, e)
  PROVE  PipelineInv' /\ GoesOn
<1> DEFINE f == Pipe!T("start", e)
           next == <<f>>
<1>0. task[t] \in TaskRow /\ RowInv(task[t], experiments)
  BY DEF PipelineInv, RowsInv
<1>1. /\ task[t].st = "looked" /\ experiments[e] = "none" /\ Pipe!Return(t, next)
      /\ UNCHANGED <<hypothesis, projects, reported, live, asked, commands, errors, cut, crossed, apart>>
      /\ experiments' = [experiments EXCEPT ![e] = "draft"]
  BY DEF Pipe!Create, Pipe!bounds, Pipe!history
<1>2. f \in Fresh /\ f.kind = "start" /\ f.of = e
  BY KindsExist, FreshTask
<1>3. Later(experiments, experiments')
  BY <1>1 DEF PipelineInv, RowsInv, Later, ExStatus, Pipe!Open
<1>4. experiments'[e] = "draft"
  BY <1>1 DEF PipelineInv, RowsInv
<1> HIDE DEF f
<1>5. next \in Seq(Fresh) /\ Startable(next, experiments') /\ next # <<>>
  BY <1>2, <1>4, OneSuccessor
<1> HIDE DEF next
<1>6. OnlyTask(t) /\ task'[t] = Left(task[t], "spawning", next)
  BY <1>1, <1>5, ReturnLeaves DEF PipelineInv
<1>7. "spawning" \in TaskState
  BY DEF TaskState, Pipe!Active
<1>8. task'[t].st = "spawning" /\ task'[t].resumed = task[t].resumed
  BY <1>0, <1>5, <1>6, <1>7, LeftRow
<1>9. RowInv(task'[t], experiments')
  BY <1>0, <1>3, <1>5, <1>6, RowIsKept, LeftRowInv
<1>10. RowsInv'
  BY <1>3, <1>6, <1>9, RowsFollowOne DEF PipelineInv
<1>11. BuildsKept(t)
  BY <1>1 DEF BuildsKept, Covers
<1>12. BuildInv'
  BY <1>6, <1>11, BuildsFollowOne DEF PipelineInv
<1>13. OpenInv'
  <2> SUFFICES ASSUME ~crossed' PROVE OpenInv'
    BY DEF OpenInv
  <2>1. ~crossed /\ Looking(t)
    BY <1>1 DEF Looking
  <2>2. \A x \in PipeExperiment \ apart : ~IsOpen(x)
    BY <2>1 DEF PipelineInv, OpenInv
  <2>3. \A x \in PipeExperiment \ apart' : IsOpen(x)' => x = e
    BY <1>1, <2>2 DEF PipelineInv, RowsInv, IsOpen
  <2>4. \A u \in DOMAIN task' : task'[u].st # "looked"
    BY <1>6, <1>8, <2>1 DEF OnlyTask, PipelineInv, OpenInv, Looking
  <2> QED
    BY <2>3, <2>4 DEF OpenInv, Looking
<1>14. GoesOn
  BY <1>6, <1>8, GoesOnIfRows DEF PipelineInv
<1>15. DataTypes'
  BY <1>1 DEF PipelineInv, DataTypes
<1> QED
  BY <1>10, <1>12, <1>13, <1>14, <1>15 DEF PipelineInv

\* A step of one task that does not answer for a build, and may write the
\* status of an experiment that is open.
LEMMA StatusTask ==
  ASSUME PipelineInv, NEW t \in DOMAIN task, OnlyTask(t), RowInv(task'[t], experiments'),
         Later(experiments, experiments'), NothingOpens, asked' \subseteq PipeExperiment,
         task[t].st = "running", task[t].kind # "review", task'[t].st # "looked",
         task[t].resumed => task'[t].st # "waiting_approval",
         UNCHANGED <<hypothesis, projects, reported, live, commands, errors, cut, crossed, apart>>
  PROVE  PipelineInv' /\ GoesOn
<1>1. RowsInv'
  BY RowsFollowOne DEF PipelineInv
<1>2. BuildsKept(t)
  BY RunningCovers DEF BuildsKept
<1>3. BuildInv'
  BY <1>2, BuildsFollowOne DEF PipelineInv
<1>4. OpenInv'
  BY OpenFollowsOne DEF PipelineInv
<1>5. GoesOn
  BY GoesOnIfRows DEF PipelineInv
<1>6. DataTypes'
  BY DEF PipelineInv, DataTypes
<1> QED
  BY <1>1, <1>3, <1>4, <1>5, <1>6 DEF PipelineInv

LEMMA ReturnedRow ==
  ASSUME RowsInv, NEW t \in DOMAIN task, NEW next \in Seq(Fresh), Pipe!Return(t, next),
         NEW status, RowInv(task[t], status), Startable(next, status)
  PROVE  /\ OnlyTask(t) /\ RowInv(task'[t], status)
         /\ task'[t].st \in {"succeeded", "spawning"}
<1> DEFINE st == IF next = <<>> THEN "succeeded" ELSE "spawning"
           q == Left(task[t], st, next)
<1>1. task[t] \in TaskRow
  BY DEF RowsInv
<1>2. st \in {"succeeded", "spawning"} /\ st \in TaskState
  BY DEF TaskState, Pipe!Active
<1>3. q.st = st /\ RowInv(q, status)
  BY <1>1, <1>2, LeftRow, LeftRowInv
<1>4. OnlyTask(t) /\ task'[t] = q
  BY ReturnLeaves
<1> QED
  BY <1>2, <1>3, <1>4

LEMMA ParkedRow ==
  ASSUME RowsInv, NEW t \in DOMAIN task, Pipe!Park(t), ~task[t].resumed,
         NEW status, RowInv(task[t], status),
         task[t].kind = "start" => status[task[t].of] # "draft"
  PROVE  OnlyTask(t) /\ RowInv(task'[t], status) /\ task'[t].st = "waiting_approval"
<1>1. task[t] \in TaskRow /\ task[t].next \in Seq(Fresh)
  BY TaskFields DEF RowsInv
<1>2. "waiting_approval" \in TaskState
  BY DEF TaskState
<1>3. OnlyTask(t) /\ task'[t] = Left(task[t], "waiting_approval", task[t].next)
  BY <1>2, ToLeaves DEF Pipe!Park
<1>4. /\ task'[t].st = "waiting_approval" /\ task'[t].resumed = task[t].resumed
      /\ task'[t].kind = task[t].kind /\ task'[t].of = task[t].of /\ task'[t].next = task[t].next
      /\ task'[t].tries = task[t].tries
  BY <1>1, <1>2, <1>3, LeftRow
<1> QED
  BY <1>3, <1>4 DEF RowInv, Sound

LEMMA AskedRow ==
  ASSUME RowsInv, NEW t \in DOMAIN task, Pipe!Ask(t), ~task[t].resumed,
         NEW status, RowInv(task[t], status),
         task[t].kind = "start" => status[task[t].of] # "draft"
  PROVE  OnlyTask(t) /\ RowInv(task'[t], status) /\ task'[t].st = "waiting_approval"
<1> DEFINE r == [task[t] EXCEPT !.st = "waiting_approval", !.named = TRUE]
<1>1. task[t] \in TaskRow /\ "waiting_approval" \in TaskState
  BY DEF RowsInv, TaskState
<1>2. task' = [task EXCEPT ![t] = r]
  BY <1>1 DEF Pipe!Ask, RowsInv
<1>3. /\ r \in TaskRow /\ r.st = "waiting_approval" /\ r.resumed = task[t].resumed
      /\ r.kind = task[t].kind /\ r.of = task[t].of /\ r.next = task[t].next
      /\ r.tries = task[t].tries
  BY <1>1 DEF TaskRow
<1> HIDE DEF r
<1>4. OnlyTask(t) /\ task'[t] = r
  BY <1>2, <1>3, OneTaskMoves DEF RowsInv
<1> QED
  BY <1>3, <1>4 DEF RowInv, Sound

LEMMA DeploySuccessors ==
  ASSUME NEW t, Pipe!Deploys(t), NEW status
  PROVE  \E next \in Seq(Fresh) : Pipe!Return(t, next) /\ Startable(next, status)
<1>1. CASE Pipe!Return(t, <<>>)
  BY <1>1, NoSuccessor
<1>2. ASSUME NEW p \in Project, Pipe!Return(t, <<Pipe!T("deploy", p)>>)
      PROVE  \E next \in Seq(Fresh) : Pipe!Return(t, next) /\ Startable(next, status)
  <2>1. Pipe!T("deploy", p) \in Fresh /\ Pipe!T("deploy", p).kind = "deploy"
    BY KindsExist, FreshTask
  <2>2. <<Pipe!T("deploy", p)>> \in Seq(Fresh) /\ Startable(<<Pipe!T("deploy", p)>>, status)
    BY <2>1, OneSuccessor
  <2> QED
    BY <1>2, <2>2
<1> QED
  BY <1>1, <1>2 DEF Pipe!Deploys

LEMMA StartKeepsPipeline ==
  ASSUME PipelineInv, NEW t \in DOMAIN task, Pipe!Start(t)
  PROVE  PipelineInv' /\ GoesOn
<1> DEFINE e == task[t].of
<1>0. task[t] \in TaskRow /\ RowInv(task[t], experiments) /\ RowsInv
      /\ asked \subseteq PipeExperiment
  BY DEF PipelineInv, RowsInv, DataTypes
<1>1. /\ task[t].st = "running" /\ task[t].kind = "start"
      /\ UNCHANGED <<hypothesis, projects, reported, live, commands, errors, cut, crossed, apart>>
  BY DEF Pipe!Start, Pipe!Runs, Pipe!bounds, Pipe!history
<1>2. e \in PipeExperiment /\ experiments[e] # "none"
  BY <1>0, <1>1 DEF RowInv, Sound
<1>3. /\ \/ UNCHANGED experiments
         \/ experiments[e] = "draft" /\ experiments' = [experiments EXCEPT ![e] = "running"]
         \/ experiments[e] = "draft" /\ experiments' = [experiments EXCEPT ![e] = "pending_approval"]
      /\ asked' = asked \/ asked' = asked \cup {e}
  BY DEF Pipe!Start, Pipe!Begin, Pipe!Becomes
<1>4. Later(experiments, experiments') /\ NothingOpens /\ asked' \subseteq PipeExperiment
  <2>1. Later(experiments, experiments')
    BY <1>0, <1>2, <1>3 DEF RowsInv, Later, ExStatus, Pipe!Open
  <2>2. NothingOpens
    BY <1>0, <1>1, <1>2, <1>3 DEF RowsInv, NothingOpens, Pipe!Open
  <2> QED
    BY <1>0, <1>2, <1>3, <2>1, <2>2
<1>5. RowInv(task[t], experiments')
  BY <1>0, <1>4, RowIsKept
<1>6. \/ Pipe!Deploys(t) \/ Pipe!Return(t, <<>>)
      \/ (Pipe!Park(t) \/ Pipe!Ask(t)) /\ ~task[t].resumed /\ experiments'[e] # "draft"
  BY <1>0, <1>1, <1>2 DEF Pipe!Start, Pipe!Begin, Pipe!Becomes, RowInv, RowsInv
<1>7. CASE (Pipe!Park(t) \/ Pipe!Ask(t)) /\ ~task[t].resumed /\ experiments'[e] # "draft"
  <2>1. OnlyTask(t) /\ RowInv(task'[t], experiments') /\ task'[t].st = "waiting_approval"
    BY <1>0, <1>5, <1>7, ParkedRow, AskedRow
  <2> QED
    BY <1>1, <1>4, <1>7, <2>1, StatusTask
<1>8. CASE Pipe!Deploys(t) \/ Pipe!Return(t, <<>>)
  <2>1. PICK next \in Seq(Fresh) : Pipe!Return(t, next) /\ Startable(next, experiments')
    BY <1>8, DeploySuccessors, NoSuccessor
  <2>2. /\ OnlyTask(t) /\ RowInv(task'[t], experiments')
        /\ task'[t].st \in {"succeeded", "spawning"}
    BY <1>0, <1>5, <2>1, ReturnedRow
  <2> QED
    BY <1>1, <1>4, <2>2, StatusTask
<1> QED
  BY <1>6, <1>7, <1>8

LEMMA AskOrReportKeepsPipeline ==
  ASSUME PipelineInv, NEW t \in DOMAIN task, Pipe!AskOrReport(t)
  PROVE  PipelineInv' /\ GoesOn
<1>0. task[t] \in TaskRow /\ RowInv(task[t], experiments) /\ RowsInv
      /\ asked \subseteq PipeExperiment
  BY DEF PipelineInv, RowsInv, DataTypes
<1>1. /\ task[t].st = "running" /\ task[t].kind \in {"production", "send"}
      /\ UNCHANGED <<hypothesis, projects, reported, live, experiments, asked, commands, errors, cut, crossed, apart>>
  BY DEF Pipe!AskOrReport, Pipe!data, Pipe!bounds, Pipe!history
<1>4. Later(experiments, experiments') /\ NothingOpens /\ asked' \subseteq PipeExperiment
  BY <1>0, <1>1, SameOpens DEF RowsInv, Later
<1>5. RowInv(task[t], experiments')
  BY <1>0, <1>4, RowIsKept
<1>6. Pipe!Return(t, <<>>) \/ ((Pipe!Park(t) \/ Pipe!Ask(t)) /\ ~task[t].resumed)
  BY DEF Pipe!AskOrReport
<1>7. CASE (Pipe!Park(t) \/ Pipe!Ask(t)) /\ ~task[t].resumed
  <2>1. OnlyTask(t) /\ RowInv(task'[t], experiments') /\ task'[t].st = "waiting_approval"
    BY <1>0, <1>1, <1>5, <1>7, ParkedRow, AskedRow
  <2> QED
    BY <1>1, <1>4, <1>7, <2>1, StatusTask
<1>8. CASE Pipe!Return(t, <<>>)
  <2>2. /\ OnlyTask(t) /\ RowInv(task'[t], experiments')
        /\ task'[t].st \in {"succeeded", "spawning"}
    BY <1>0, <1>5, <1>8, NoSuccessor, ReturnedRow
  <2> QED
    BY <1>1, <1>4, <2>2, StatusTask
<1> QED
  BY <1>6, <1>7, <1>8

-----------------------------------------------------------------------------
(* Failures, successors, commands and decisions *)

LEMMA Appended ==
  ASSUME NEW s \in Seq(TaskRow), NEW n \in Seq(Fresh)
  PROVE  /\ s \o n \in Seq(TaskRow) /\ Len(s \o n) = Len(s) + Len(n)
         /\ \A i \in DOMAIN s : i \in DOMAIN (s \o n) /\ (s \o n)[i] = s[i]
         /\ \A j \in DOMAIN n : Len(s) + j \in DOMAIN (s \o n) /\ (s \o n)[Len(s) + j] = n[j]
         /\ \A i \in DOMAIN (s \o n) :
              i \in DOMAIN s \/ \E j \in DOMAIN n : i = Len(s) + j
<1>0. \A j \in 1..Len(n) : n[j] \in Fresh
  OBVIOUS
<1>1. \A j \in 1..Len(n) : n[j] \in TaskRow
  BY <1>0, FreshFields
<1>2. n \in Seq(TaskRow)
  BY <1>1, SeqDef
<1>3. /\ Len(s) \in Nat /\ Len(n) \in Nat /\ DOMAIN s = 1..Len(s) /\ DOMAIN n = 1..Len(n)
  OBVIOUS
<1>4. /\ s \o n \in Seq(TaskRow) /\ Len(s \o n) = Len(s) + Len(n)
      /\ DOMAIN (s \o n) = 1..(Len(s) + Len(n))
  BY <1>2
<1>5. \A i \in 1..(Len(s) + Len(n)) : (s \o n)[i] = IF i <= Len(s) THEN s[i] ELSE n[i - Len(s)]
  BY <1>2, ConcatProperties
<1>6. \A i \in DOMAIN s : i \in DOMAIN (s \o n) /\ (s \o n)[i] = s[i]
  BY <1>3, <1>4, <1>5
<1>7. ASSUME NEW j \in DOMAIN n
      PROVE  Len(s) + j \in DOMAIN (s \o n) /\ (s \o n)[Len(s) + j] = n[j]
  <2>1. j \in Nat /\ 1 <= j /\ j <= Len(n) /\ Len(s) + j \in 1..(Len(s) + Len(n))
        /\ ~(Len(s) + j <= Len(s)) /\ Len(s) + j - Len(s) = j
    BY <1>3
  <2> QED
    BY <1>4, <1>5, <2>1
<1>8. ASSUME NEW i \in DOMAIN (s \o n)
      PROVE  i \in DOMAIN s \/ \E j \in DOMAIN n : i = Len(s) + j
  <2>1. CASE i <= Len(s)
    BY <1>3, <1>4, <2>1
  <2>2. CASE ~(i <= Len(s))
    <3>1. i - Len(s) \in DOMAIN n /\ i = Len(s) + (i - Len(s))
      BY <1>3, <1>4, <2>2
    <3> QED
      BY <3>1
  <2> QED
    BY <2>1, <2>2
<1> QED
  BY <1>4, <1>6, <1>7, <1>8

\* Fresh tasks are inserted, by a command or for a task that has returned.
LEMMA GrowingKeepsPipeline ==
  ASSUME PipelineInv, NEW base \in Seq(TaskRow), NEW n \in Seq(Fresh), task' = base \o n,
         Len(base) = Len(task), Len(task) + Len(n) <= MaxTasks, Startable(n, experiments),
         \A u \in DOMAIN task :
           /\ RowInv(base[u], experiments)
           /\ base[u].st = "looked" => Looking(u)
           /\ task[u].resumed => base[u].st # "waiting_approval",
         \A u \in DOMAIN task, p \in Project \ cut' : Covers(task[u], p) =>
           Covers(base[u], p) \/ \E j \in DOMAIN n : n[j].kind = "review" /\ n[j].of = p,
         UNCHANGED <<hypothesis, projects, reported, live, experiments, asked, crossed, apart>>,
         cut \subseteq cut', cut' \subseteq Project,
         commands' \in 0..MaxCommands, errors' \in 0..MaxErrors
  PROVE  PipelineInv' /\ GoesOn
<1>1. /\ task' \in Seq(TaskRow) /\ Len(task') = Len(task) + Len(n)
      /\ \A i \in DOMAIN task : i \in DOMAIN task' /\ task'[i] = base[i]
      /\ \A j \in DOMAIN n : Len(task) + j \in DOMAIN task' /\ task'[Len(task) + j] = n[j]
      /\ \A i \in DOMAIN task' : i \in DOMAIN task \/ \E j \in DOMAIN n : i = Len(task) + j
  <2>1. DOMAIN base = DOMAIN task
    BY DEF PipelineInv, RowsInv
  <2> DEFINE grown == base \o n
  <2>2. /\ grown \in Seq(TaskRow) /\ Len(grown) = Len(base) + Len(n)
        /\ \A i \in DOMAIN base : i \in DOMAIN grown /\ grown[i] = base[i]
        /\ \A j \in DOMAIN n : Len(base) + j \in DOMAIN grown /\ grown[Len(base) + j] = n[j]
        /\ \A i \in DOMAIN grown : i \in DOMAIN base \/ \E j \in DOMAIN n : i = Len(base) + j
    BY Appended
  <2>3. task' = grown
    OBVIOUS
  <2> HIDE DEF grown
  <2> QED
    BY <2>1, <2>2, <2>3
<1>2. \A j \in DOMAIN n : n[j] \in Fresh
  OBVIOUS
<1>3. \A j \in DOMAIN n : RowInv(n[j], experiments) /\ n[j].st = "queued"
  <2> TAKE j \in DOMAIN n
  <2>1. n[j] \in Fresh /\ (n[j].kind = "start" => experiments[n[j].of] # "none")
    BY <1>2 DEF Startable
  <2> QED
    BY <2>1, FreshRows, FreshFields
<1>4. RowsInv'
  <2>1. Len(task') <= MaxTasks
    BY <1>1
  <2>2. \A i \in DOMAIN task' : RowInv(task'[i], experiments)
    BY <1>1, <1>3
  <2> QED
    BY <1>1, <2>1, <2>2 DEF RowsInv, PipelineInv
<1>5. BuildInv'
  <2> SUFFICES ASSUME NEW p \in Project \ (reported \cup cut'), projects[p] = "blocked"
               PROVE  \E u \in DOMAIN task' : Covers(task'[u], p)
    BY DEF BuildInv, Awaited
  <2>1. PICK u \in DOMAIN task : Covers(task[u], p)
    BY DEF PipelineInv, BuildInv, Awaited
  <2>2. CASE Covers(base[u], p)
    BY <1>1, <2>1, <2>2
  <2>3. ASSUME NEW j \in DOMAIN n, n[j].kind = "review", n[j].of = p
        PROVE  \E v \in DOMAIN task' : Covers(task'[v], p)
    <3>2. Covers(n[j], p)
      BY <1>3, <2>3 DEF Covers
    <3> QED
      BY <1>1, <3>2
  <2> QED
    BY <2>1, <2>2, <2>3
<1>6. OpenInv'
  <2>1. \A i \in DOMAIN task' : task'[i].st = "looked" => i \in DOMAIN task /\ Looking(i)
    BY <1>1, <1>3
  <2> QED
    BY <2>1 DEF OpenInv, PipelineInv, Looking, IsOpen
<1>7. GoesOn
  BY <1>1 DEF GoesOn
<1>8. DataTypes'
  BY DEF PipelineInv, DataTypes
<1> QED
  BY <1>4, <1>5, <1>6, <1>7, <1>8 DEF PipelineInv

\* One task is written, and the first of its successors are inserted.
LEMMA WrittenAndGrown ==
  ASSUME PipelineInv, NEW t \in DOMAIN task, NEW r \in TaskRow, NEW n \in Seq(Fresh),
         task' = [task EXCEPT ![t] = r] \o n, Len(task) + Len(n) <= MaxTasks,
         Startable(n, experiments), RowInv(r, experiments), r.st # "looked",
         r.st # "waiting_approval",
         \A p \in Project \ cut' : Covers(task[t], p) =>
           Covers(r, p) \/ \E j \in DOMAIN n : n[j].kind = "review" /\ n[j].of = p,
         UNCHANGED <<hypothesis, projects, reported, live, experiments, asked, crossed, apart>>,
         cut \subseteq cut', cut' \subseteq Project,
         commands' \in 0..MaxCommands, errors' \in 0..MaxErrors
  PROVE  PipelineInv' /\ GoesOn
<1> DEFINE base == [task EXCEPT ![t] = r]
<1>1. task \in Seq(TaskRow) /\ t \in 1..Len(task)
  BY DEF PipelineInv, RowsInv
<1>2. base \in Seq(TaskRow) /\ Len(base) = Len(task)
  BY <1>1, ExceptSeq
<1>3. base[t] = r /\ \A u \in DOMAIN task : u # t => base[u] = task[u]
  BY <1>1
<1>4. task' = base \o n
  OBVIOUS
<1> HIDE DEF base
<1>5. \A u \in DOMAIN task :
        /\ RowInv(base[u], experiments)
        /\ base[u].st = "looked" => Looking(u)
        /\ task[u].resumed => base[u].st # "waiting_approval"
  BY <1>3 DEF PipelineInv, RowsInv, RowInv, Looking
<1>6. \A u \in DOMAIN task, p \in Project \ cut' : Covers(task[u], p) =>
        Covers(base[u], p) \/ \E j \in DOMAIN n : n[j].kind = "review" /\ n[j].of = p
  BY <1>3
<1> QED
  BY <1>2, <1>4, <1>5, <1>6, GrowingKeepsPipeline

LEMMA SpawnKeepsPipeline ==
  ASSUME PipelineInv, NEW t \in DOMAIN task, Pipe!Spawn(t)
  PROVE  PipelineInv' /\ GoesOn
<1> DEFINE r == Left(task[t], "succeeded", <<>>)
           n == task[t].next
<1>0. task[t] \in TaskRow /\ RowInv(task[t], experiments)
  BY DEF PipelineInv, RowsInv
<1>1. /\ task[t].st = "spawning" /\ task' = [task EXCEPT ![t] = r] \o n
      /\ Len(task) + Len(n) <= MaxTasks
      /\ UNCHANGED <<hypothesis, projects, reported, live, experiments, asked, commands, errors, cut, crossed, apart>>
  BY <1>0 DEF Pipe!Spawn, Left, Pipe!data, Pipe!bounds, Pipe!history, PipelineInv, RowsInv
<1>2. n \in Seq(Fresh) /\ "succeeded" \in TaskState
  BY <1>0, TaskFields DEF TaskState
<1>3. r \in TaskRow /\ r.st = "succeeded"
  BY <1>0, <1>2, NoSuccessor, LeftRow
<1>4. RowInv(r, experiments)
  BY <1>0, NoSuccessor, LeftRowInv
<1>5. Startable(n, experiments)
  BY <1>0 DEF RowInv, Startable
<1>6. \A p \in Project : Covers(task[t], p) =>
        \E j \in DOMAIN n : n[j].kind = "review" /\ n[j].of = p
  BY <1>1 DEF Covers
<1>7. commands' \in 0..MaxCommands /\ errors' \in 0..MaxErrors /\ cut \subseteq cut' /\ cut' \subseteq Project
  BY <1>1 DEF PipelineInv, DataTypes
<1> HIDE DEF r, n
<1> QED
  BY <1>1, <1>2, <1>3, <1>4, <1>5, <1>6, <1>7, WrittenAndGrown

LEMMA FailedRow ==
  ASSUME NEW q \in TaskRow, NEW status, RowInv(q, status),
         NEW r \in Pipe!AfterError(q) \cup {[q EXCEPT !.st = "succeeded", !.next = <<>>]}
  PROVE  /\ r \in TaskRow /\ RowInv(r, status) /\ r.kind = q.kind
         /\ r.st \in {"queued", "failed", "succeeded"}
         /\ r.of = q.of \/ (r.st = "queued" /\ q.kind = "generate")
<1>1. /\ "queued" \in TaskState /\ "failed" \in TaskState /\ "succeeded" \in TaskState
      /\ <<>> \in Seq(Fresh) /\ DOMAIN <<>> = {} /\ 0 \in Pipe!Subject
  BY NoSuccessor, KindsExist DEF TaskState, Pipe!Active
<1>2. ASSUME NEW st \in {"failed", "succeeded"}, r = [q EXCEPT !.st = st, !.next = <<>>]
      PROVE  /\ r \in TaskRow /\ r.st = st /\ r.kind = q.kind /\ r.of = q.of
             /\ r.resumed = q.resumed /\ r.tries = q.tries /\ r.next = <<>>
  BY <1>1, <1>2 DEF TaskRow
<1> DEFINE of == IF q.kind = "generate" THEN 0 ELSE q.of
<1>3. ASSUME r = [q EXCEPT !.st = "queued", !.next = <<>>, !.of = of]
      PROVE  /\ r \in TaskRow /\ r.st = "queued" /\ r.kind = q.kind /\ r.of = of
             /\ r.resumed = q.resumed /\ r.tries = q.tries /\ r.next = <<>>
  <2>1. of \in Pipe!Subject
    BY <1>1, TaskFields
  <2> QED
    BY <1>1, <1>3, <2>1 DEF TaskRow
<1>4. \/ \E st \in {"failed", "succeeded"} : r = [q EXCEPT !.st = st, !.next = <<>>]
      \/ q.tries < MaxAttempts /\ r = [q EXCEPT !.st = "queued", !.next = <<>>, !.of = of]
  BY DEF Pipe!AfterError, Pipe!NoOne, TaskRow
<1>5. CASE \E st \in {"failed", "succeeded"} : r = [q EXCEPT !.st = st, !.next = <<>>]
  <2>1. PICK st \in {"failed", "succeeded"} : r = [q EXCEPT !.st = st, !.next = <<>>]
    BY <1>5
  <2>2. /\ r \in TaskRow /\ r.st = st /\ r.kind = q.kind /\ r.of = q.of
        /\ r.resumed = q.resumed /\ r.tries = q.tries /\ r.next = <<>>
    BY <1>2, <2>1
  <2> QED
    BY <1>1, <2>2 DEF RowInv, Sound
<1>6. CASE q.tries < MaxAttempts /\ r = [q EXCEPT !.st = "queued", !.next = <<>>, !.of = of]
  <2>1. /\ r \in TaskRow /\ r.st = "queued" /\ r.kind = q.kind /\ r.of = of
        /\ r.resumed = q.resumed /\ r.tries = q.tries /\ r.next = <<>>
    BY <1>3, <1>6
  <2> QED
    BY <1>1, <1>6, <2>1 DEF RowInv, Sound
<1> QED
  BY <1>4, <1>5, <1>6

LEMMA FailKeepsPipeline ==
  ASSUME PipelineInv, NEW t \in DOMAIN task, Pipe!Fail(t)
  PROVE  PipelineInv' /\ GoesOn
<1> DEFINE q == task[t]
<1>0. q \in TaskRow /\ RowInv(q, experiments) /\ q.next \in Seq(Fresh)
  BY TaskFields DEF PipelineInv, RowsInv
<1>1. /\ UNCHANGED <<hypothesis, projects, reported, live, experiments, asked, commands, crossed, apart>>
      /\ errors < MaxErrors /\ errors' = errors + 1
      /\ q.st \in {"running", "looked", "built", "spawning"}
  BY DEF Pipe!Fail, Pipe!data
<1>2. PICK m \in 0..Len(q.next) :
      \E r \in Pipe!AfterError(q) \cup {[q EXCEPT !.st = "succeeded", !.next = <<>>]} :
        /\ Len(task) + m <= MaxTasks
        /\ task' = [task EXCEPT ![t] = r] \o SubSeq(q.next, 1, m)
        /\ cut' = cut \cup {p \in Pipe!InHand(q) : /\ r.st = "queued" => p \notin Pipe!Reviews(r)
                                               /\ \A i \in DOMAIN SubSeq(q.next, 1, m) :
                                                    p \notin Pipe!Reviews(SubSeq(q.next, 1, m)[i])}
  BY DEF Pipe!Fail
<1> DEFINE n == SubSeq(q.next, 1, m)
<1>3. PICK r \in Pipe!AfterError(q) \cup {[q EXCEPT !.st = "succeeded", !.next = <<>>]} :
        /\ Len(task) + m <= MaxTasks
        /\ task' = [task EXCEPT ![t] = r] \o n
        /\ cut' = cut \cup {p \in Pipe!InHand(q) : /\ r.st = "queued" => p \notin Pipe!Reviews(r)
                                               /\ \A i \in DOMAIN n : p \notin Pipe!Reviews(n[i])}
  BY <1>2
<1>4. n \in Seq(Fresh) /\ Len(n) = m /\ DOMAIN n = 1..m /\ \A i \in 1..m : n[i] = q.next[i] /\ i \in DOMAIN q.next
  BY <1>0, SubSeqProperties
<1>5. /\ r \in TaskRow /\ RowInv(r, experiments) /\ r.kind = q.kind
      /\ r.st \in {"queued", "failed", "succeeded"}
      /\ r.of = q.of \/ (r.st = "queued" /\ q.kind = "generate")
  BY <1>0, <1>3, FailedRow
<1>6. Startable(n, experiments)
  BY <1>0, <1>4 DEF RowInv, Startable
<1>7. cut \subseteq cut' /\ cut' \subseteq Project
  BY <1>3 DEF Pipe!InHand, Pipe!Reviews, PipelineInv, DataTypes
<1>9. ASSUME NEW p \in Project \ cut', Covers(q, p)
      PROVE  Covers(r, p) \/ \E j \in DOMAIN n : n[j].kind = "review" /\ n[j].of = p
  <2>1. p \in Pipe!InHand(q)
    BY <1>9 DEF Covers, Pipe!InHand, Pipe!Reviews
  <2>2. (r.st = "queued" /\ p \in Pipe!Reviews(r)) \/ \E i \in DOMAIN n : p \in Pipe!Reviews(n[i])
    BY <1>3, <2>1
  <2> QED
    BY <2>2 DEF Covers, Pipe!Reviews
<1>10. commands' \in 0..MaxCommands /\ errors' \in 0..MaxErrors
  BY <1>1, PipelineAssumption DEF PipelineInv, DataTypes
<1> HIDE DEF n
<1> QED
  BY <1>1, <1>3, <1>4, <1>5, <1>6, <1>7, <1>9, <1>10, WrittenAndGrown

LEMMA WorkflowKeepsPipeline ==
  ASSUME PipelineInv, NEW ts \in Seq(Fresh), Startable(ts, experiments), Pipe!Workflow(ts)
  PROVE  PipelineInv' /\ GoesOn
<1>1. /\ task' = task \o ts /\ Len(task) + Len(ts) <= MaxTasks
      /\ UNCHANGED <<hypothesis, projects, reported, live, experiments, asked, errors, cut, crossed, apart>>
      /\ commands < MaxCommands /\ commands' = commands + 1
  BY DEF Pipe!Workflow, Pipe!Add, Pipe!data, Pipe!history
<1>2. /\ commands' \in 0..MaxCommands /\ errors' \in 0..MaxErrors
      /\ cut \subseteq cut' /\ cut' \subseteq Project
  BY <1>1, PipelineAssumption DEF PipelineInv, DataTypes
<1>3. task \in Seq(TaskRow)
  BY DEF PipelineInv, RowsInv
<1>4. \A u \in DOMAIN task :
        /\ RowInv(task[u], experiments)
        /\ task[u].st = "looked" => Looking(u)
        /\ task[u].resumed => task[u].st # "waiting_approval"
  BY DEF PipelineInv, RowsInv, RowInv, Looking
<1> QED
  BY <1>1, <1>2, <1>3, <1>4, GrowingKeepsPipeline

LEMMA TwoFresh ==
  ASSUME NEW f \in Fresh, NEW g \in Fresh, f.kind # "start", g.kind # "start"
  PROVE  <<f, g>> \in Seq(Fresh) /\ \A status : Startable(<<f, g>>, status)
BY DEF Startable

LEMMA CommandKeepsPipeline ==
  ASSUME PipelineInv, Pipe!Command
  PROVE  PipelineInv' /\ GoesOn
<1>1. ASSUME NEW k \in {"analyze", "spec", "design"}, Pipe!Workflow(<<Pipe!T(k, 0)>>)
      PROVE  PipelineInv' /\ GoesOn
  <2>1. Pipe!T(k, 0) \in Fresh /\ Pipe!T(k, 0).kind = k
    BY PlainTasks, KindsExist
  <2>2. <<Pipe!T(k, 0)>> \in Seq(Fresh) /\ Startable(<<Pipe!T(k, 0)>>, experiments)
    BY <2>1, OneSuccessor
  <2> QED
    BY <1>1, <2>2, WorkflowKeepsPipeline
<1>2. CASE Pipe!Workflow(<<Pipe!T("score", 0), Pipe!T("draft", 0)>>)
  <2> DEFINE f == Pipe!T("score", 0)
             g == Pipe!T("draft", 0)
  <2>1. f \in Fresh /\ g \in Fresh /\ f.kind = "score" /\ g.kind = "draft"
    BY PlainTasks, KindsExist
  <2> HIDE DEF f, g
  <2>2. <<f, g>> \in Seq(Fresh) /\ Startable(<<f, g>>, experiments)
    BY <2>1, TwoFresh
  <2> QED
    BY <1>2, <2>2, WorkflowKeepsPipeline DEF f, g
<1>3. ASSUME NEW p \in Project, Pipe!Workflow(<<Pipe!T("deploy", p)>>)
      PROVE  PipelineInv' /\ GoesOn
  <2>1. Pipe!T("deploy", p) \in Fresh /\ Pipe!T("deploy", p).kind = "deploy"
    BY KindsExist, FreshTask
  <2>2. <<Pipe!T("deploy", p)>> \in Seq(Fresh) /\ Startable(<<Pipe!T("deploy", p)>>, experiments)
    BY <2>1, OneSuccessor
  <2> QED
    BY <1>3, <2>2, WorkflowKeepsPipeline
<1>4. ASSUME NEW p \in Project,
             Pipe!Workflow(<<Pipe!T("deploy", p), Pipe!T("production", p)>>)
      PROVE  PipelineInv' /\ GoesOn
  <2> DEFINE f == Pipe!T("deploy", p)
             g == Pipe!T("production", p)
  <2>1. f \in Fresh /\ g \in Fresh /\ f.kind = "deploy" /\ g.kind = "production"
    BY KindsExist, FreshTask
  <2> HIDE DEF f, g
  <2>2. <<f, g>> \in Seq(Fresh) /\ Startable(<<f, g>>, experiments)
    BY <2>1, TwoFresh
  <2> QED
    BY <1>4, <2>2, WorkflowKeepsPipeline DEF f, g
<1> QED
  BY <1>1, <1>2, <1>3, <1>4 DEF Pipe!Command, Pipe!NoOne

\* What a decision makes of the task that waits for it.
Released(r, q) ==
  /\ r.st = "waiting_approval" /\ q \in TaskRow
  /\ q.kind = r.kind /\ q.of = r.of /\ q.next = r.next /\ q.tries = r.tries
  /\ \/ q.st = "queued" /\ q.resumed
     \/ q.st \in {"cancelled", "waiting_approval"} /\ q.resumed = r.resumed

LEMMA ReleasesAreRows ==
  ASSUME NEW r \in TaskRow, r.st = "waiting_approval"
  PROVE  /\ Released(r, Pipe!Released(r)) /\ Released(r, Pipe!Refused(r))
         /\ Released(r, [r EXCEPT !.named = FALSE])
<1>1. "queued" \in TaskState /\ "cancelled" \in TaskState
  BY DEF TaskState, Pipe!Active
<1> QED
  BY <1>1 DEF Released, TaskRow, Pipe!Released, Pipe!Refused

\* A decision, or a step that moves no task, which may change the status of
\* experiments.
LEMMA DecisionsKeepPipeline ==
  ASSUME PipelineInv, DOMAIN task' = DOMAIN task, task' = [u \in DOMAIN task |-> task'[u]],
         \A u \in DOMAIN task : task'[u] = task[u] \/ Released(task[u], task'[u]),
         Later(experiments, experiments'), NothingOpens,
         asked' \subseteq PipeExperiment, apart' \subseteq PipeExperiment,
         UNCHANGED <<hypothesis, projects, reported, live, cut, crossed>>,
         commands' \in 0..MaxCommands, errors' \in 0..MaxErrors
  PROVE  PipelineInv' /\ GoesOn
<1>0. task \in Seq(TaskRow) /\ \A u \in DOMAIN task : task[u] \in TaskRow
  BY DEF PipelineInv, RowsInv
<1>4. \A u \in DOMAIN task : task'[u] \in TaskRow
  BY <1>0 DEF Released
<1>5. task' \in Seq(TaskRow) /\ Len(task') = Len(task)
  <2>1. Len(task) \in Nat /\ DOMAIN task = 1..Len(task)
    BY <1>0
  <2>3. task' \in [1..Len(task) -> TaskRow]
    BY <1>4, <2>1
  <2>4. task' \in Seq(TaskRow)
    BY <2>1, <2>3, SeqDef
  <2> QED
    BY <2>1, <2>3, <2>4
<1>6. \A u \in DOMAIN task : RowInv(task'[u], experiments')
  <2> TAKE u \in DOMAIN task
  <2>1. RowInv(task[u], experiments')
    BY <1>0, RowIsKept DEF PipelineInv, RowsInv
  <2>2. CASE task'[u] = task[u]
    BY <2>1, <2>2
  <2>3. CASE Released(task[u], task'[u])
    BY <2>1, <2>3 DEF Released, RowInv, Sound
  <2> QED
    BY <2>2, <2>3
<1>7. RowsInv'
  BY <1>5, <1>6 DEF PipelineInv, RowsInv, Later
<1>8. BuildInv'
  <2> SUFFICES ASSUME NEW p \in Project \ (reported \cup cut), projects[p] = "blocked"
               PROVE  \E u \in DOMAIN task' : Covers(task'[u], p)
    BY DEF BuildInv, Awaited
  <2>1. PICK u \in DOMAIN task : Covers(task[u], p)
    BY DEF PipelineInv, BuildInv, Awaited
  <2>2. task[u].st # "waiting_approval"
    BY <2>1 DEF Covers
  <2> QED
    BY <2>1, <2>2 DEF Released
<1>9. OpenInv'
  <2>1. \A u \in DOMAIN task' : task'[u].st = "looked" => u \in DOMAIN task /\ task[u].st = "looked"
    BY DEF Released
  <2>2. \A e \in PipeExperiment \ apart' : e \in PipeExperiment \ apart /\ (IsOpen(e)' => IsOpen(e))
    BY DEF NothingOpens, IsOpen
  <2> QED
    BY <2>1, <2>2 DEF OpenInv, PipelineInv, Looking
<1>10. GoesOn
  BY DEF GoesOn, PipelineInv, RowsInv, RowInv, Released
<1>11. DataTypes'
  BY DEF PipelineInv, DataTypes
<1> QED
  BY <1>7, <1>8, <1>9, <1>10, <1>11 DEF PipelineInv

LEMMA DecideKeepsPipeline ==
  ASSUME PipelineInv, NEW t \in DOMAIN task, Pipe!Decide(t)
  PROVE  PipelineInv' /\ GoesOn
<1>0. task \in Seq(TaskRow) /\ task[t] \in TaskRow
  BY DEF PipelineInv, RowsInv
<1>1. /\ task[t].st = "waiting_approval"
      /\ UNCHANGED <<hypothesis, projects, reported, live, experiments, asked, commands, errors, cut, crossed, apart>>
  BY DEF Pipe!Decide, Pipe!Pending, Pipe!data, Pipe!bounds, Pipe!history
<1>2. PICK r : Released(task[t], r) /\ task' = [task EXCEPT ![t] = r]
  BY <1>0, <1>1, ReleasesAreRows DEF Pipe!Decide
<1>3. /\ DOMAIN task' = DOMAIN task /\ task' = [u \in DOMAIN task |-> task'[u]]
      /\ \A u \in DOMAIN task : task'[u] = task[u] \/ Released(task[u], task'[u])
  BY <1>0, <1>2
<1>4. /\ Later(experiments, experiments') /\ NothingOpens
      /\ asked' \subseteq PipeExperiment /\ apart' \subseteq PipeExperiment
      /\ commands' \in 0..MaxCommands /\ errors' \in 0..MaxErrors
  BY <1>1, SameOpens DEF Later, PipelineInv, RowsInv, DataTypes
<1> QED
  BY <1>1, <1>3, <1>4, DecisionsKeepPipeline

\* A start by hand or by an executor: what was not open is set apart.
LEMMA Reopens ==
  ASSUME PipelineInv, NEW e \in PipeExperiment, NEW st \in {"running", "pending_approval"},
         Pipe!Becomes(e, st), apart \subseteq apart', IsOpen(e) \/ e \in apart'
  PROVE  Later(experiments, experiments') /\ NothingOpens
BY DEF PipelineInv, RowsInv, Pipe!Becomes, Later, NothingOpens, IsOpen, ExStatus, Pipe!Open

LEMMA Closes ==
  ASSUME PipelineInv, NEW e \in PipeExperiment, NEW st \in {"paused", "ended"},
         Pipe!Becomes(e, st), UNCHANGED apart
  PROVE  Later(experiments, experiments') /\ NothingOpens
BY DEF PipelineInv, RowsInv, Pipe!Becomes, Later, NothingOpens, ExStatus, Pipe!Open

LEMMA NothingBecomes ==
  ASSUME PipelineInv, UNCHANGED <<experiments, apart>>
  PROVE  Later(experiments, experiments') /\ NothingOpens
BY SameOpens DEF PipelineInv, RowsInv, Later

LEMMA ApproveKeepsPipeline ==
  ASSUME PipelineInv, NEW e \in PipeExperiment, Pipe!Approve(e)
  PROVE  PipelineInv' /\ GoesOn
<1>0. task \in Seq(TaskRow) /\ \A u \in DOMAIN task : task[u] \in TaskRow
  BY DEF PipelineInv, RowsInv
<1>1. /\ asked' = asked \ {e}
      /\ task' = [u \in DOMAIN task |-> IF Pipe!Names(u, e) THEN Pipe!Released(task[u]) ELSE task[u]]
      /\ UNCHANGED <<hypothesis, projects, reported, live, commands, errors, cut, crossed>>
      /\ \/ UNCHANGED <<experiments, apart>>
         \/ /\ Pipe!Becomes(e, "running")
            /\ apart' = IF experiments[e] \in Pipe!Open THEN apart ELSE apart \cup {e}
  BY DEF Pipe!Approve, Pipe!bounds
<1>2. \A u \in DOMAIN task : Pipe!Names(u, e) => Released(task[u], Pipe!Released(task[u]))
  BY <1>0, ReleasesAreRows DEF Pipe!Names, Pipe!Pending
<1>3. /\ DOMAIN task' = DOMAIN task /\ task' = [u \in DOMAIN task |-> task'[u]]
      /\ \A u \in DOMAIN task : task'[u] = task[u] \/ Released(task[u], task'[u])
  BY <1>1, <1>2
<1>4. Later(experiments, experiments') /\ NothingOpens
  BY <1>1, NothingBecomes, Reopens DEF IsOpen
<1>5. /\ asked' \subseteq PipeExperiment /\ apart' \subseteq PipeExperiment
      /\ commands' \in 0..MaxCommands /\ errors' \in 0..MaxErrors
  BY <1>1 DEF PipelineInv, DataTypes
<1> QED
  BY <1>1, <1>3, <1>4, <1>5, DecisionsKeepPipeline

LEMMA RefuseOrExpireKeepsPipeline ==
  ASSUME PipelineInv, NEW e \in PipeExperiment, Pipe!RefuseOrExpire(e)
  PROVE  PipelineInv' /\ GoesOn
<1>0. task \in Seq(TaskRow) /\ \A u \in DOMAIN task : task[u] \in TaskRow
  BY DEF PipelineInv, RowsInv
<1>1. /\ asked' = asked \ {e}
      /\ \/ task' = [u \in DOMAIN task |-> IF Pipe!Names(u, e) THEN Pipe!Refused(task[u]) ELSE task[u]]
         \/ UNCHANGED task
      /\ UNCHANGED <<hypothesis, projects, reported, live, experiments, commands, errors, cut, crossed, apart>>
  BY DEF Pipe!RefuseOrExpire, Pipe!bounds, Pipe!history
<1>2. \A u \in DOMAIN task : Pipe!Names(u, e) => Released(task[u], Pipe!Refused(task[u]))
  BY <1>0, ReleasesAreRows DEF Pipe!Names, Pipe!Pending
<1>3. /\ DOMAIN task' = DOMAIN task /\ task' = [u \in DOMAIN task |-> task'[u]]
      /\ \A u \in DOMAIN task : task'[u] = task[u] \/ Released(task[u], task'[u])
  BY <1>0, <1>1, <1>2
<1>4. Later(experiments, experiments') /\ NothingOpens
  BY <1>1, NothingBecomes
<1>5. /\ asked' \subseteq PipeExperiment /\ apart' \subseteq PipeExperiment
      /\ commands' \in 0..MaxCommands /\ errors' \in 0..MaxErrors
  BY <1>1 DEF PipelineInv, DataTypes
<1> QED
  BY <1>1, <1>3, <1>4, <1>5, DecisionsKeepPipeline

LEMMA ByHandKeepsPipeline ==
  ASSUME PipelineInv, NEW e \in PipeExperiment, Pipe!ByHand(e)
  PROVE  PipelineInv' /\ GoesOn
<1>1. /\ UNCHANGED <<task, hypothesis, projects, reported, live, errors, cut, crossed>>
      /\ commands < MaxCommands /\ commands' = commands + 1
  BY DEF Pipe!ByHand
<1>2. /\ asked' = asked \/ asked' = asked \cup {e}
      /\ apart' = apart \/ apart' = apart \cup {e}
      /\ \/ experiments[e] = "none" /\ Pipe!Becomes(e, "draft") /\ apart' = apart \cup {e}
         \/ /\ experiments[e] \in {"draft", "paused"}
            /\ apart' = IF experiments[e] = "paused" THEN apart \cup {e} ELSE apart
            /\ Pipe!Becomes(e, "running") \/ Pipe!Becomes(e, "pending_approval")
         \/ Pipe!Becomes(e, "ended") /\ UNCHANGED apart
  BY DEF Pipe!ByHand
<1>3. Later(experiments, experiments') /\ NothingOpens
  <2>1. CASE experiments[e] = "none" /\ Pipe!Becomes(e, "draft") /\ apart' = apart \cup {e}
    BY <2>1 DEF PipelineInv, RowsInv, Pipe!Becomes, Later, NothingOpens, ExStatus, Pipe!Open
  <2>2. CASE /\ experiments[e] \in {"draft", "paused"}
             /\ apart' = IF experiments[e] = "paused" THEN apart \cup {e} ELSE apart
             /\ Pipe!Becomes(e, "running") \/ Pipe!Becomes(e, "pending_approval")
    BY <2>2, Reopens DEF IsOpen, Pipe!Open
  <2> QED
    BY <1>2, <2>1, <2>2, Closes
<1>4. /\ asked' \subseteq PipeExperiment /\ apart' \subseteq PipeExperiment
      /\ commands' \in 0..MaxCommands /\ errors' \in 0..MaxErrors
  BY <1>1, <1>2, PipelineAssumption DEF PipelineInv, DataTypes
<1>5. /\ DOMAIN task' = DOMAIN task /\ task' = [u \in DOMAIN task |-> task'[u]]
      /\ \A u \in DOMAIN task : task'[u] = task[u]
  BY <1>1 DEF PipelineInv, RowsInv
<1> QED
  BY <1>1, <1>3, <1>4, <1>5, DecisionsKeepPipeline

LEMMA EvaluateKeepsPipeline ==
  ASSUME PipelineInv, NEW e \in PipeExperiment, Pipe!Evaluate(e)
  PROVE  PipelineInv' /\ GoesOn
<1>1. /\ UNCHANGED <<task, hypothesis, projects, reported, live, asked, commands, errors, cut, crossed, apart>>
      /\ Pipe!Becomes(e, "paused") \/ Pipe!Becomes(e, "ended")
  BY DEF Pipe!Evaluate, Pipe!bounds, Pipe!history
<1>2. Later(experiments, experiments') /\ NothingOpens
  BY <1>1, Closes
<1>3. /\ asked' \subseteq PipeExperiment /\ apart' \subseteq PipeExperiment
      /\ commands' \in 0..MaxCommands /\ errors' \in 0..MaxErrors
  BY <1>1 DEF PipelineInv, DataTypes
<1>4. /\ DOMAIN task' = DOMAIN task /\ task' = [u \in DOMAIN task |-> task'[u]]
      /\ \A u \in DOMAIN task : task'[u] = task[u]
  BY <1>1 DEF PipelineInv, RowsInv
<1> QED
  BY <1>1, <1>2, <1>3, <1>4, DecisionsKeepPipeline

LEMMA PipelineStays ==
  ASSUME PipelineInv, [Pipe!Next]_(Pipe!pipelineVars)
  PROVE  PipelineInv' /\ [GoesOn]_(Pipe!pipelineVars)
<1>1. CASE UNCHANGED Pipe!pipelineVars
  <2>1. UNCHANGED <<task, hypothesis, projects, reported, live, experiments, asked, commands, errors, cut, crossed, apart>>
    BY <1>1 DEF Pipe!pipelineVars, Pipe!data, Pipe!bounds, Pipe!history
  <2>2. RowsInv' /\ DataTypes'
    BY <2>1 DEF PipelineInv, RowsInv, DataTypes
  <2>3. BuildInv' /\ OpenInv'
    BY <2>1 DEF PipelineInv, BuildInv, Awaited, OpenInv, Looking, IsOpen
  <2> QED
    BY <1>1, <2>2, <2>3 DEF PipelineInv
<1>2. CASE Pipe!Command
  BY <1>2, CommandKeepsPipeline
<1>3. ASSUME NEW t \in DOMAIN task,
             Pipe!Claim(t) \/ Pipe!Spawn(t) \/ Pipe!Fail(t) \/ Pipe!Decide(t)
      PROVE  PipelineInv' /\ GoesOn
  BY <1>3, ClaimKeepsPipeline, SpawnKeepsPipeline, FailKeepsPipeline, DecideKeepsPipeline
<1>4. ASSUME NEW t \in DOMAIN task,
             Pipe!JustReturns(t) \/ Pipe!Analyze(t) \/ Pipe!ReviewFinance(t) \/ Pipe!Specify(t)
      PROVE  PipelineInv' /\ GoesOn
  BY <1>4, JustReturnsKeepsPipeline, AnalyzeKeepsPipeline, ReviewFinanceKeepsPipeline,
     SpecifyKeepsPipeline
<1>5. ASSUME NEW t \in DOMAIN task,
             Pipe!Generated(t) \/ Pipe!ReviewBuild(t) \/ Pipe!Look(t) \/ Pipe!Start(t)
      PROVE  PipelineInv' /\ GoesOn
  BY <1>5, GeneratedKeepsPipeline, ReviewBuildKeepsPipeline, LookKeepsPipeline, StartKeepsPipeline
<1>6. ASSUME NEW t \in DOMAIN task, Pipe!Deploy(t) \/ Pipe!AskOrReport(t)
      PROVE  PipelineInv' /\ GoesOn
  BY <1>6, DeployKeepsPipeline, AskOrReportKeepsPipeline
<1>7. ASSUME NEW t \in DOMAIN task, NEW p \in Project, NEW res \in {"passed", "blocked"},
             Pipe!Generate(t, p, res)
      PROVE  PipelineInv' /\ GoesOn
  BY <1>7, GenerateKeepsPipeline
<1>8. ASSUME NEW t \in DOMAIN task, NEW e \in PipeExperiment, Pipe!Create(t, e)
      PROVE  PipelineInv' /\ GoesOn
  BY <1>8, CreateKeepsPipeline
<1>9. ASSUME NEW e \in PipeExperiment,
             Pipe!Approve(e) \/ Pipe!RefuseOrExpire(e) \/ Pipe!ByHand(e) \/ Pipe!Evaluate(e)
      PROVE  PipelineInv' /\ GoesOn
  BY <1>9, ApproveKeepsPipeline, RefuseOrExpireKeepsPipeline, ByHandKeepsPipeline,
     EvaluateKeepsPipeline
<1> QED
  BY <1>1, <1>2, <1>3, <1>4, <1>5, <1>6, <1>7, <1>8, <1>9 DEF Pipe!Next

LEMMA PipelineSuffices ==
  ASSUME PipelineInv
  PROVE  Pipe!TypeOK /\ Pipe!BlockedBuildIsReported /\ Pipe!OneOpenExperiment
<1>1. Pipe!TypeOK
  <2>1. \A t \in DOMAIN task : task[t] \in TaskRow
    BY DEF PipelineInv, RowsInv
  <2> QED
    BY <2>1, TaskFields DEF PipelineInv, RowsInv, DataTypes, Pipe!TypeOK, TaskState, ExStatus
<1>2. Pipe!BlockedBuildIsReported
  <2> SUFFICES ASSUME NEW p \in Project \ (reported \cup cut), projects[p] = "blocked"
               PROVE  \E t \in DOMAIN task : task[t].st \in Pipe!Active /\ p \in Pipe!InHand(task[t])
    BY DEF Pipe!BlockedBuildIsReported
  <2>1. PICK t \in DOMAIN task : Covers(task[t], p)
    BY DEF PipelineInv, BuildInv, Awaited
  <2> QED
    BY <2>1 DEF Covers, Pipe!Active, Pipe!InHand, Pipe!Reviews
<1>3. Pipe!OneOpenExperiment
  <2> DEFINE open == {e \in PipeExperiment \ apart : experiments[e] \in Pipe!Open}
  <2>1. ~crossed => \A e, f \in open : e = f
    BY DEF PipelineInv, OpenInv, IsOpen
  <2> HIDE DEF open
  <2>2. ASSUME open = {} PROVE Cardinality(open) <= 1
    BY <2>2, FS_EmptySet
  <2>3. ASSUME ~crossed, NEW e \in open PROVE Cardinality(open) <= 1
    <3>1. open = {e}
      BY <2>1, <2>3
    <3>2. Cardinality(open) = 1
      BY <3>1, FS_Singleton
    <3> QED
      BY <3>2
  <2>4. ~crossed => Cardinality(open) <= 1
    BY <2>2, <2>3
  <2> QED
    BY <2>4 DEF open, Pipe!OneOpenExperiment, Pipe!Cardinality, Cardinality
<1> QED
  BY <1>1, <1>2, <1>3

-----------------------------------------------------------------------------
(***************************************************************************)
(* Scoring.  The versions of the weights are numbered 1 .. Last, and the   *)
(* last is the active one.  A recalibration that has locked the active row *)
(* and still finds the next number free has locked the last row.           *)
(***************************************************************************)
Last == Scor!Top(Scor!Numbers)
ActiveNumbers == {r.number : r \in Scor!ActiveRows}
Single(n) == IF n = 0 THEN {} ELSE {n}

VersionRow == [number : Nat, status : {"active", "retired"}, by : Actor]

NumberedTo(n) ==
  /\ n \in 0..MaxVersions /\ Scor!Numbers = 1..n
  /\ \A r, s \in versions : r.number = s.number => r = s
  /\ versions \subseteq VersionRow
  /\ ActiveNumbers = Single(n)

Does == {"idle", "score", "learn"}
ScoreWork ==
  [does : Does, at : {"idle", "get", "weights", "keep", "save", "history", "judge", "retire",
                      "insert", "forget"},
   in : Process \cup {Scor!Idle.in}, weights : 0..MaxVersions, seen : 0..MaxInputs,
   top : 0..MaxVersions, retires : SUBSET (1..MaxVersions)]
ScoreRecord == [inputs : 0..MaxInputs, weights : 0..MaxVersions]

ScoringTypes ==
  /\ scoringCache \in [Process -> 0..MaxVersions + 1]
  /\ scoringWork \in [Actor -> ScoreWork]
  /\ inputs \in 1..MaxInputs /\ due \in 1..inputs /\ score \in ScoreRecord /\ scores \subseteq ScoreRecord
  /\ overlapped \in BOOLEAN /\ died \in BOOLEAN

WorkOf(w) ==
  /\ w.does = "idle" <=> w.at = "idle"
  /\ w.at # "idle" => w.in \in Process
  /\ w.at \in {"get", "save", "history"} => w.does = "score"
  /\ w.at \in {"judge", "retire", "insert", "forget"} => w.does = "learn"

\* What a recalibration has read and locked of the versions 1 .. n.
Locks(w, n) ==
  /\ w.at \in {"retire", "insert"} => w.top <= n
  /\ w.at = "insert" => \E m \in w.top..n : w.retires = Single(m)

VersionsAt(n) ==
  /\ NumberedTo(n)
  /\ \A a \in Actor : scoringWork[a].weights <= n /\ Locks(scoringWork[a], n)
  /\ \A p \in Process : scoringCache[p] <= n \/ scoringCache[p] = MaxVersions + 1
  /\ score.weights <= n

VersionsInv == \E n \in 0..MaxVersions : VersionsAt(n)

Scores(a) == scoringWork[a].does = "score"
Made(w) == [inputs |-> w.seen, weights |-> w.weights]

\* The last score is in the history, or its computation is about to enter it;
\* a computation that is alone has read the data that are due.
ScoreInv ==
  ~died =>
    /\ score = Scor!NoScore \/ score \in scores
         \/ \E a \in Actor : scoringWork[a].at = "history" /\ Made(scoringWork[a]) = score
    /\ ~overlapped =>
         /\ \A a, b \in Actor : Scores(a) /\ Scores(b) => a = b
         /\ \A a \in Actor : scoringWork[a].does = "score" =>
              /\ scoringWork[a].at \in {"weights", "keep", "save", "history"} =>
                   scoringWork[a].seen \in due..inputs
              /\ scoringWork[a].at = "history" => score.inputs \in due..inputs
         /\ (\A a \in Actor : ~Scores(a)) => score = Scor!NoScore \/ score.inputs \in due..inputs

ScoringInv ==
  /\ ScoringTypes /\ VersionsInv /\ ScoreInv
  /\ \A a \in Actor : WorkOf(scoringWork[a])

LEMMA TopOf ==
  ASSUME NEW n \in Nat
  PROVE  Scor!Top(1..n) = n /\ Scor!Top(Single(n)) = n
<1>1. CASE n = 0
  <2>1. 1..n = {}
    BY <1>1
  <2> QED
    BY <1>1, <2>1 DEF Scor!Top, Single
<1>2. CASE n # 0
  <2>1. n \in 1..n /\ \A m \in 1..n : m <= n
    BY <1>2
  <2>2. \A k \in 1..n : (\A m \in 1..n : m <= k) => k = n
    BY <2>1
  <2>3. Scor!Top(1..n) = n
    BY <2>1, <2>2 DEF Scor!Top
  <2>4. Scor!Top({n}) = n
    BY DEF Scor!Top
  <2> QED
    BY <1>2, <2>3, <2>4 DEF Single
<1> QED
  BY <1>1, <1>2

LEMMA IdleWork ==
  /\ Scor!Idle \in ScoreWork /\ WorkOf(Scor!Idle)
  /\ Scor!Idle.does = "idle" /\ Scor!Idle.at = "idle" /\ Scor!Idle.weights = 0
  /\ Scor!Idle.seen = 0 /\ Scor!Idle.top = 0 /\ Scor!Idle.retires = {}
<1>1. 0 \in 0..MaxVersions /\ 0 \in 0..MaxInputs
  BY ScoringAssumption
<1>2. /\ Scor!Idle.does = "idle" /\ Scor!Idle.at = "idle" /\ Scor!Idle.weights = 0
      /\ Scor!Idle.seen = 0 /\ Scor!Idle.top = 0 /\ Scor!Idle.retires = {}
  BY DEF Scor!Idle
<1>3. Scor!Idle = [does |-> "idle", at |-> "idle", in |-> Scor!Idle.in, weights |-> 0, seen |-> 0,
                   top |-> 0, retires |-> {}]
  BY DEF Scor!Idle
<1>4. Scor!Idle \in ScoreWork
  <2> DEFINE who == Scor!Idle.in
  <2>1. Scor!Idle = [does |-> "idle", at |-> "idle", in |-> who, weights |-> 0, seen |-> 0,
                     top |-> 0, retires |-> {}]
    BY <1>3
  <2> HIDE DEF who
  <2>2. who \in Process \cup {Scor!Idle.in}
    BY DEF who
  <2> QED
    BY <1>1, <2>1, <2>2 DEF ScoreWork, Does
<1> QED
  BY <1>2, <1>4 DEF WorkOf

LEMMA WorkFieldsOf ==
  ASSUME NEW w \in ScoreWork
  PROVE  /\ w.does \in Does /\ w.in \in Process \cup {Scor!Idle.in} /\ w.weights \in 0..MaxVersions
         /\ w.seen \in 0..MaxInputs /\ w.top \in 0..MaxVersions
         /\ w.retires \in SUBSET (1..MaxVersions)
BY DEF ScoreWork

LEMMA ScoringStarts == ServicesInit => ScoringInv
<1> SUFFICES ASSUME ServicesInit PROVE ScoringInv
  OBVIOUS
<1>1. Scor!Init
  BY DEF ServicesInit
<1>2. \A a \in Actor : scoringWork[a] = Scor!Idle
  BY <1>1 DEF Scor!Init
<1>3. score = Scor!NoScore /\ score.inputs = 0 /\ score.weights = 0
  BY <1>1 DEF Scor!Init, Scor!NoScore
<1>4. ScoringTypes
  <2>1. score \in ScoreRecord
    BY <1>1, ScoringAssumption DEF Scor!Init, Scor!NoScore, ScoreRecord
  <2>2. inputs \in 1..MaxInputs /\ due \in 1..inputs
    BY <1>1, ScoringAssumption DEF Scor!Init
  <2>3. scoringCache \in [Process -> 0..MaxVersions + 1]
    BY <1>1, ScoringAssumption DEF Scor!Init, Scor!NoCopy
  <2>4. scoringWork \in [Actor -> ScoreWork]
    BY <1>1, IdleWork DEF Scor!Init
  <2> QED
    BY <1>1, <2>1, <2>2, <2>3, <2>4 DEF Scor!Init, ScoringTypes
<1>5. VersionsInv
  <2>1. 0 \in 0..MaxVersions /\ 1..0 = {} /\ Single(0) = {}
    BY ScoringAssumption DEF Single
  <2>2. NumberedTo(0)
    BY <1>1, <2>1 DEF NumberedTo, Scor!Init, Scor!Numbers, ActiveNumbers, Scor!ActiveRows
  <2>3. \A a \in Actor : scoringWork[a].weights <= 0 /\ Locks(scoringWork[a], 0)
    BY <1>2, IdleWork DEF Locks
  <2>4. \A p \in Process : scoringCache[p] = MaxVersions + 1
    BY <1>1 DEF Scor!Init, Scor!NoCopy
  <2>5. score.weights <= 0
    BY <1>3
  <2> QED
    BY <2>1, <2>2, <2>3, <2>4, <2>5 DEF VersionsInv, VersionsAt
<1>6. ScoreInv
  BY <1>2, <1>3, IdleWork DEF ScoreInv, Scores
<1> QED
  BY <1>2, <1>4, <1>5, <1>6, IdleWork DEF ScoringInv

-----------------------------------------------------------------------------
(* A step of one operation *)

Works(a, w) == scoringWork' = [scoringWork EXCEPT ![a] = w]

LEMMA SameVersions ==
  ASSUME UNCHANGED versions, NEW n PROVE NumberedTo(n)' <=> NumberedTo(n)
BY DEF NumberedTo, Scor!Numbers, ActiveNumbers, Scor!ActiveRows

LEMMA OneWorks ==
  ASSUME ScoringInv, NEW a \in Actor, NEW w \in ScoreWork, WorkOf(w), Works(a, w),
         UNCHANGED versions,
         \A n \in 0..MaxVersions : VersionsAt(n) =>
           /\ w.weights <= n /\ Locks(w, n) /\ score'.weights <= n
           /\ \A p \in Process : scoringCache'[p] <= n \/ scoringCache'[p] = MaxVersions + 1
  PROVE  /\ VersionsInv' /\ \A b \in Actor : WorkOf(scoringWork'[b])
         /\ scoringWork' \in [Actor -> ScoreWork] /\ scoringWork'[a] = w
         /\ \A b \in Actor \ {a} : scoringWork'[b] = scoringWork[b]
<1>1. /\ scoringWork' \in [Actor -> ScoreWork] /\ scoringWork'[a] = w
      /\ \A b \in Actor \ {a} : scoringWork'[b] = scoringWork[b]
  BY DEF Works, ScoringInv, ScoringTypes
<1>2. \A b \in Actor : WorkOf(scoringWork'[b])
  BY <1>1 DEF ScoringInv
<1>3. PICK n \in 0..MaxVersions : VersionsAt(n)
  BY DEF ScoringInv, VersionsInv
<1>4. NumberedTo(n)'
  BY <1>3, SameVersions DEF VersionsAt
<1>5. \A b \in Actor : scoringWork'[b].weights <= n /\ Locks(scoringWork'[b], n)
  BY <1>1, <1>3 DEF VersionsAt
<1>6. VersionsAt(n)'
  BY <1>3, <1>4, <1>5 DEF VersionsAt
<1> QED
  BY <1>1, <1>2, <1>6 DEF VersionsInv

\* Operations that do not score, and scorings that go on.
LEMMA OtherWorkKeepsScore ==
  ASSUME ScoringInv, NEW a \in Actor, NEW w, scoringWork[a].does # "score", w.does # "score",
         w.at # "history",
         scoringWork'[a] = w, \A b \in Actor \ {a} : scoringWork'[b] = scoringWork[b],
         UNCHANGED <<inputs, due, score, scores, overlapped, died>>
  PROVE  ScoreInv'
<1>1. \A b \in Actor : Scores(b)' <=> Scores(b)
  BY DEF Scores
<1>2. \A b \in Actor : Scores(b) => scoringWork'[b] = scoringWork[b]
  BY DEF Scores
<1>3. \A b \in Actor : scoringWork[b].at = "history" => scoringWork'[b] = scoringWork[b]
  BY DEF ScoringInv, WorkOf
<1> QED
  BY <1>1, <1>2, <1>3 DEF ScoringInv, ScoreInv, Scores

LEMMA MovingKeepsScore ==
  ASSUME ScoringInv, NEW a \in Actor, NEW w, scoringWork[a].at \in {"weights", "keep"},
         w.does = scoringWork[a].does, w.seen = scoringWork[a].seen, w.at # "history",
         scoringWork'[a] = w, \A b \in Actor \ {a} : scoringWork'[b] = scoringWork[b],
         UNCHANGED <<inputs, due, score, scores, overlapped, died>>
  PROVE  ScoreInv'
<1>1. \A b \in Actor : Scores(b)' <=> Scores(b)
  BY DEF Scores
<1>2. \A b \in Actor : scoringWork[b].at = "history" => scoringWork'[b] = scoringWork[b]
  OBVIOUS
<1>3. ~died' => score' = Scor!NoScore \/ score' \in scores'
        \/ \E b \in Actor : scoringWork'[b].at = "history" /\ Made(scoringWork'[b]) = score'
  BY <1>2 DEF ScoringInv, ScoreInv
<1>4. \A b \in Actor : scoringWork'[b].at = "history" => b # a
  OBVIOUS
<1> QED
  BY <1>1, <1>3, <1>4 DEF ScoringInv, ScoreInv, Scores

\* The bookkeeping of the steps that leave the versions alone.
LEMMA QuietScoring ==
  ASSUME ScoringInv, NEW a \in Actor, NEW w \in ScoreWork, WorkOf(w), Works(a, w),
         UNCHANGED <<versions, inputs, due, score, scores, overlapped, died>>,
         scoringCache' \in [Process -> 0..MaxVersions + 1],
         \A n \in 0..MaxVersions : VersionsAt(n) =>
           /\ w.weights <= n /\ Locks(w, n)
           /\ \A p \in Process : scoringCache'[p] <= n \/ scoringCache'[p] = MaxVersions + 1,
         \/ scoringWork[a].does # "score" /\ w.does # "score"
         \/ /\ scoringWork[a].at \in {"weights", "keep"} /\ w.at # "history"
            /\ w.does = scoringWork[a].does /\ w.seen = scoringWork[a].seen
  PROVE  ScoringInv'
<1>1. \A n \in 0..MaxVersions : VersionsAt(n) => score'.weights <= n
  BY DEF VersionsAt
<1>2. /\ VersionsInv' /\ \A b \in Actor : WorkOf(scoringWork'[b])
      /\ scoringWork' \in [Actor -> ScoreWork] /\ scoringWork'[a] = w
      /\ \A b \in Actor \ {a} : scoringWork'[b] = scoringWork[b]
  BY <1>1, OneWorks
<1>3. w.does # "score" => w.at # "history"
  BY DEF WorkOf
<1>4. ScoreInv'
  BY <1>2, <1>3, OtherWorkKeepsScore, MovingKeepsScore
<1>5. ScoringTypes'
  BY <1>2 DEF ScoringInv, ScoringTypes
<1> QED
  BY <1>2, <1>4, <1>5 DEF ScoringInv

LEMMA UnchangedCache ==
  ASSUME ScoringInv, UNCHANGED scoringCache
  PROVE  /\ scoringCache' \in [Process -> 0..MaxVersions + 1]
         /\ \A n \in 0..MaxVersions : VersionsAt(n) =>
              \A p \in Process : scoringCache'[p] <= n \/ scoringCache'[p] = MaxVersions + 1
BY DEF ScoringInv, ScoringTypes, VersionsAt

LEMMA TakeCopyKeepsScoring ==
  ASSUME ScoringInv, NEW a \in Actor, Scor!TakeCopy(a)
  PROVE  ScoringInv'
<1> DEFINE v == scoringWork[a]
           at == IF v.does = "score" THEN "save" ELSE "judge"
           w == [v EXCEPT !.weights = scoringCache[v.in], !.at = at]
<1>0. v \in ScoreWork /\ WorkOf(v) /\ scoringWork \in [Actor -> ScoreWork]
  BY DEF ScoringInv, ScoringTypes
<1>1. /\ v.at = "weights" /\ scoringCache[v.in] # MaxVersions + 1 /\ Works(a, w)
      /\ UNCHANGED <<versions, scoringCache, inputs, due, score, scores, overlapped, died>>
  BY <1>0 DEF Scor!TakeCopy, Scor!Uses, Works, Scor!NoCopy
<1>2. v.in \in Process
  BY <1>0, <1>1 DEF WorkOf
<1>3. scoringCache[v.in] \in 0..MaxVersions
  BY <1>1, <1>2, ScoringAssumption DEF ScoringInv, ScoringTypes
<1>4. /\ w \in ScoreWork /\ w.does = v.does /\ w.seen = v.seen /\ w.at = at
      /\ w.weights = scoringCache[v.in] /\ w.in = v.in
  BY <1>0, <1>3 DEF ScoreWork
<1> HIDE DEF w
<1>5. WorkOf(w)
  BY <1>0, <1>1, <1>4 DEF WorkOf, ScoreWork, Does
<1>6. \A n \in 0..MaxVersions : VersionsAt(n) => w.weights <= n /\ Locks(w, n)
  BY <1>1, <1>2, <1>4 DEF VersionsAt, Locks
<1> QED
  BY <1>0, <1>1, <1>4, <1>5, <1>6, UnchangedCache, QuietScoring

LEMMA ReadWeightsKeepsScoring ==
  ASSUME ScoringInv, NEW a \in Actor, Scor!ReadWeights(a)
  PROVE  ScoringInv'
<1> DEFINE v == scoringWork[a]
           w == [v EXCEPT !.weights = Scor!ActiveWeights, !.at = "keep"]
<1>0. v \in ScoreWork /\ WorkOf(v) /\ scoringWork \in [Actor -> ScoreWork]
  BY DEF ScoringInv, ScoringTypes
<1>1. /\ v.at = "weights" /\ Works(a, w)
      /\ UNCHANGED <<versions, scoringCache, inputs, due, score, scores, overlapped, died>>
  BY <1>0 DEF Scor!ReadWeights, Works
<1>2. \A n \in 0..MaxVersions : VersionsAt(n) => Scor!ActiveWeights = n
  <2>1. Scor!ActiveWeights = Scor!Top(ActiveNumbers)
    BY DEF Scor!ActiveWeights, ActiveNumbers
  <2> QED
    BY <2>1, TopOf DEF VersionsAt, NumberedTo
<1>3. Scor!ActiveWeights \in 0..MaxVersions
  BY <1>2 DEF ScoringInv, VersionsInv
<1>4. /\ w \in ScoreWork /\ w.does = v.does /\ w.seen = v.seen /\ w.at = "keep"
      /\ w.weights = Scor!ActiveWeights /\ w.in = v.in
  BY <1>0, <1>3 DEF ScoreWork
<1> HIDE DEF w
<1>5. WorkOf(w)
  BY <1>0, <1>1, <1>4 DEF WorkOf, ScoreWork, Does
<1>6. \A n \in 0..MaxVersions : VersionsAt(n) => w.weights <= n /\ Locks(w, n)
  BY <1>2, <1>4 DEF Locks
<1> QED
  BY <1>0, <1>1, <1>4, <1>5, <1>6, UnchangedCache, QuietScoring

LEMMA KeepWeightsKeepsScoring ==
  ASSUME ScoringInv, NEW a \in Actor, Scor!KeepWeights(a)
  PROVE  ScoringInv'
<1> DEFINE v == scoringWork[a]
           at == IF v.does = "score" THEN "save" ELSE "judge"
           w == [v EXCEPT !.weights = v.weights, !.at = at]
<1>0. v \in ScoreWork /\ WorkOf(v) /\ scoringWork \in [Actor -> ScoreWork]
  BY DEF ScoringInv, ScoringTypes
<1>1. /\ v.at = "keep" /\ Works(a, w)
      /\ UNCHANGED <<versions, inputs, due, score, scores, overlapped, died>>
      /\ scoringCache' = [scoringCache EXCEPT ![v.in] = v.weights]
  BY <1>0 DEF Scor!KeepWeights, Scor!Uses, Works
<1>2. v.weights \in 0..MaxVersions
  BY <1>0, WorkFieldsOf
<1>3. scoringCache' \in [Process -> 0..MaxVersions + 1]
  <2>1. v.weights \in 0..MaxVersions + 1
    BY <1>2, ScoringAssumption
  <2> QED
    BY <1>1, <2>1 DEF ScoringInv, ScoringTypes
<1>4. /\ w \in ScoreWork /\ w.does = v.does /\ w.seen = v.seen /\ w.at = at
      /\ w.weights = v.weights /\ w.in = v.in
  BY <1>0, <1>2 DEF ScoreWork
<1> HIDE DEF w
<1>5. WorkOf(w)
  BY <1>0, <1>1, <1>4 DEF WorkOf, ScoreWork, Does
<1>6. \A n \in 0..MaxVersions : VersionsAt(n) =>
        /\ w.weights <= n /\ Locks(w, n)
        /\ \A p \in Process : scoringCache'[p] <= n \/ scoringCache'[p] = MaxVersions + 1
  BY <1>1, <1>4 DEF VersionsAt, Locks, ScoringInv, ScoringTypes
<1> QED
  BY <1>0, <1>1, <1>3, <1>4, <1>5, <1>6, QuietScoring

LEMMA ConcludeKeepsScoring ==
  ASSUME ScoringInv, NEW a \in Actor, NEW p \in Process, NEW which, Scor!Conclude(a, p, which)
  PROVE  ScoringInv'
<1> DEFINE i == Scor!Idle
           w == [i EXCEPT !.does = "learn", !.at = "weights", !.in = p]
<1>0. scoringWork[a] = i
  BY DEF Scor!Conclude
<1>1. /\ Works(a, w)
      /\ UNCHANGED <<versions, scoringCache, inputs, due, score, scores, overlapped, died>>
  BY DEF Scor!Conclude, Works
<1>2. i \in ScoreWork /\ i.does = "idle" /\ i.weights = 0
  BY IdleWork
<1> HIDE DEF i
<1>4. w \in ScoreWork /\ w.does = "learn" /\ w.at = "weights" /\ w.weights = 0 /\ w.in = p
  BY <1>2 DEF ScoreWork, Does
<1> HIDE DEF w
<1>5. WorkOf(w) /\ \A n \in 0..MaxVersions : w.weights <= n /\ Locks(w, n)
  BY <1>4 DEF WorkOf, Locks
<1> QED
  BY <1>0, <1>1, <1>2, <1>4, <1>5, UnchangedCache, QuietScoring

LEMMA RejectKeepsScoring ==
  ASSUME ScoringInv, NEW a \in Actor, Scor!Reject(a)
  PROVE  ScoringInv'
<1>1. /\ scoringWork[a].does = "learn" /\ Works(a, Scor!Idle)
      /\ UNCHANGED <<versions, scoringCache, inputs, due, score, scores, overlapped, died>>
  BY DEF Scor!Reject, Works, ScoringInv, WorkOf
<1>2. \A n \in 0..MaxVersions : Scor!Idle.weights <= n /\ Locks(Scor!Idle, n)
  BY IdleWork DEF Locks
<1> QED
  BY <1>1, <1>2, IdleWork, UnchangedCache, QuietScoring

LEMMA ForgetKeepsScoring ==
  ASSUME ScoringInv, NEW a \in Actor, Scor!Forget(a)
  PROVE  ScoringInv'
<1>1. /\ scoringWork[a].does = "learn" /\ Works(a, Scor!Idle)
      /\ UNCHANGED <<versions, inputs, due, score, scores, overlapped, died>>
      /\ scoringCache' = [scoringCache EXCEPT ![scoringWork[a].in] = MaxVersions + 1]
  BY DEF Scor!Forget, Works, ScoringInv, WorkOf, Scor!NoCopy
<1>2. \A n \in 0..MaxVersions : Scor!Idle.weights <= n /\ Locks(Scor!Idle, n)
  BY IdleWork DEF Locks
<1>3. scoringCache' \in [Process -> 0..MaxVersions + 1]
  <2>1. MaxVersions + 1 \in 0..MaxVersions + 1
    BY ScoringAssumption
  <2> QED
    BY <1>1, <2>1 DEF ScoringInv, ScoringTypes
<1>4. \A n \in 0..MaxVersions : VersionsAt(n) =>
        \A p \in Process : scoringCache'[p] <= n \/ scoringCache'[p] = MaxVersions + 1
  BY <1>1 DEF VersionsAt, ScoringInv, ScoringTypes
<1> QED
  BY <1>1, <1>2, <1>3, <1>4, IdleWork, QuietScoring

LEMMA ReadTopKeepsScoring ==
  ASSUME ScoringInv, NEW a \in Actor, Scor!ReadTop(a)
  PROVE  ScoringInv'
<1> DEFINE v == scoringWork[a]
           w == [v EXCEPT !.top = Last, !.at = "retire"]
<1>0. v \in ScoreWork /\ WorkOf(v) /\ scoringWork \in [Actor -> ScoreWork]
  BY DEF ScoringInv, ScoringTypes
<1>1. /\ v.at = "judge" /\ Works(a, w)
      /\ UNCHANGED <<versions, scoringCache, inputs, due, score, scores, overlapped, died>>
  BY <1>0 DEF Scor!ReadTop, Works, Last
<1>2. \A n \in 0..MaxVersions : VersionsAt(n) => Last = n
  BY TopOf DEF VersionsAt, NumberedTo, Last
<1>3. Last \in 0..MaxVersions
  BY <1>2 DEF ScoringInv, VersionsInv
<1>4. /\ w \in ScoreWork /\ w.does = v.does /\ w.at = "retire" /\ w.top = Last
      /\ w.weights = v.weights /\ w.in = v.in
  BY <1>0, <1>3 DEF ScoreWork
<1> HIDE DEF w
<1>5. WorkOf(w) /\ v.does = "learn"
  BY <1>0, <1>1, <1>4 DEF WorkOf
<1>6. \A n \in 0..MaxVersions : VersionsAt(n) => w.weights <= n /\ Locks(w, n)
  BY <1>2, <1>4 DEF VersionsAt, Locks
<1> QED
  BY <1>0, <1>1, <1>4, <1>5, <1>6, UnchangedCache, QuietScoring

LEMMA RetireKeepsScoring ==
  ASSUME ScoringInv, NEW a \in Actor, Scor!Retire(a)
  PROVE  ScoringInv'
<1> DEFINE v == scoringWork[a]
           w == [v EXCEPT !.retires = ActiveNumbers, !.at = "insert"]
<1>0. v \in ScoreWork /\ WorkOf(v) /\ scoringWork \in [Actor -> ScoreWork]
  BY DEF ScoringInv, ScoringTypes
<1>1. /\ v.at = "retire" /\ Works(a, w)
      /\ UNCHANGED <<versions, scoringCache, inputs, due, score, scores, overlapped, died>>
  BY <1>0 DEF Scor!Retire, Works, ActiveNumbers
<1>2. \A n \in 0..MaxVersions : VersionsAt(n) => ActiveNumbers = Single(n) /\ v.top <= n
  BY <1>1 DEF VersionsAt, NumberedTo, Locks
<1>3. ActiveNumbers \in SUBSET (1..MaxVersions)
  BY <1>2 DEF ScoringInv, VersionsInv, Single
<1>4. /\ w \in ScoreWork /\ w.does = v.does /\ w.at = "insert" /\ w.top = v.top
      /\ w.weights = v.weights /\ w.in = v.in /\ w.retires = ActiveNumbers
  BY <1>0, <1>3 DEF ScoreWork
<1> HIDE DEF w
<1>5. WorkOf(w) /\ v.does = "learn"
  BY <1>0, <1>1, <1>4 DEF WorkOf
<1>6. \A n \in 0..MaxVersions : VersionsAt(n) => w.weights <= n /\ Locks(w, n)
  <2> TAKE n \in 0..MaxVersions
  <2> HAVE VersionsAt(n)
  <2>1. w.weights <= n
    BY <1>4 DEF VersionsAt
  <2>2. w.top \in 0..MaxVersions /\ w.top <= n /\ w.retires = Single(n)
    BY <1>0, <1>2, <1>4, WorkFieldsOf
  <2>3. n \in w.top..n
    BY <2>2
  <2> QED
    BY <2>1, <2>2, <2>3 DEF Locks
<1> QED
  BY <1>0, <1>1, <1>4, <1>5, <1>6, UnchangedCache, QuietScoring

-----------------------------------------------------------------------------
(* A scoring begins, reads and writes *)

LEMMA GetKeepsScoring ==
  ASSUME ScoringInv, NEW a \in Actor, Scor!GetOpportunity(a)
  PROVE  ScoringInv'
<1> DEFINE v == scoringWork[a]
           w == [v EXCEPT !.seen = inputs, !.at = "weights"]
<1>0. v \in ScoreWork /\ WorkOf(v) /\ scoringWork \in [Actor -> ScoreWork]
  BY DEF ScoringInv, ScoringTypes
<1>1. /\ v.at = "get" /\ Works(a, w)
      /\ UNCHANGED <<versions, scoringCache, inputs, due, score, scores, overlapped, died>>
  BY <1>0 DEF Scor!GetOpportunity, Works, Scor!InputsNow
<1>2. inputs \in 0..MaxInputs /\ inputs \in due..inputs
  BY ScoringAssumption DEF ScoringInv, ScoringTypes
<1>4. /\ w \in ScoreWork /\ w.does = v.does /\ w.seen = inputs /\ w.at = "weights"
      /\ w.weights = v.weights /\ w.in = v.in
  BY <1>0, <1>2 DEF ScoreWork
<1> HIDE DEF w
<1>5. WorkOf(w)
  BY <1>0, <1>1, <1>4 DEF WorkOf
<1>6. \A n \in 0..MaxVersions : VersionsAt(n) =>
        /\ w.weights <= n /\ Locks(w, n) /\ score'.weights <= n
        /\ \A p \in Process : scoringCache'[p] <= n \/ scoringCache'[p] = MaxVersions + 1
  BY <1>1, <1>4 DEF VersionsAt, Locks
<1>7. /\ VersionsInv' /\ \A b \in Actor : WorkOf(scoringWork'[b])
      /\ scoringWork' \in [Actor -> ScoreWork] /\ scoringWork'[a] = w
      /\ \A b \in Actor \ {a} : scoringWork'[b] = scoringWork[b]
  BY <1>1, <1>4, <1>5, <1>6, OneWorks
<1>8. ScoringTypes'
  BY <1>1, <1>7 DEF ScoringInv, ScoringTypes
<1>9. ScoreInv'
  <2>1. \A b \in Actor : Scores(b)' <=> Scores(b)
    BY <1>4, <1>7 DEF Scores
  <2>2. \A b \in Actor : scoringWork[b].at = "history" => scoringWork'[b] = scoringWork[b]
    BY <1>1, <1>7
  <2>3. \A b \in Actor : scoringWork'[b].at = "history" => b # a
    BY <1>4, <1>7
  <2>4. ~died' => score' = Scor!NoScore \/ score' \in scores'
          \/ \E b \in Actor : scoringWork'[b].at = "history" /\ Made(scoringWork'[b]) = score'
    BY <1>1, <2>2 DEF ScoringInv, ScoreInv
  <2> QED
    BY <1>1, <1>2, <1>4, <1>7, <2>1, <2>3, <2>4 DEF ScoringInv, ScoreInv, Scores
<1> QED
  BY <1>7, <1>8, <1>9 DEF ScoringInv

LEMMA ChangeKeepsScoring ==
  ASSUME ScoringInv, NEW a \in Actor, NEW p \in Process, Scor!ChangeAndScore(a, p)
  PROVE  ScoringInv'
<1> DEFINE i == Scor!Idle
           w == [i EXCEPT !.does = "score", !.at = "get", !.in = p]
<1>0. scoringWork[a] = i
  BY DEF Scor!ChangeAndScore
<1>1. /\ Works(a, w) /\ inputs < MaxInputs /\ inputs' = inputs + 1 /\ due' = inputs + 1
      /\ overlapped' = (overlapped \/ \E b \in Actor : Scores(b))
      /\ UNCHANGED <<versions, scoringCache, score, scores, died>>
  BY DEF Scor!ChangeAndScore, Works, Scor!Scoring, Scores
<1>2. i \in ScoreWork /\ i.does = "idle" /\ i.at = "idle" /\ i.weights = 0
  BY IdleWork
<1> HIDE DEF i
<1>4. w \in ScoreWork /\ w.does = "score" /\ w.at = "get" /\ w.weights = 0 /\ w.in = p
  BY <1>2 DEF ScoreWork, Does
<1> HIDE DEF w
<1>5. WorkOf(w)
  BY <1>4 DEF WorkOf
<1>6. \A n \in 0..MaxVersions : VersionsAt(n) =>
        /\ w.weights <= n /\ Locks(w, n) /\ score'.weights <= n
        /\ \A q \in Process : scoringCache'[q] <= n \/ scoringCache'[q] = MaxVersions + 1
  BY <1>1, <1>4 DEF VersionsAt, Locks
<1>7. /\ VersionsInv' /\ \A b \in Actor : WorkOf(scoringWork'[b])
      /\ scoringWork' \in [Actor -> ScoreWork] /\ scoringWork'[a] = w
      /\ \A b \in Actor \ {a} : scoringWork'[b] = scoringWork[b]
  BY <1>1, <1>4, <1>5, <1>6, OneWorks
<1>8. ScoringTypes'
  <2>1. inputs' \in 1..MaxInputs /\ due' \in 1..inputs'
    BY <1>1, ScoringAssumption DEF ScoringInv, ScoringTypes
  <2> QED
    BY <1>1, <1>7, <2>1 DEF ScoringInv, ScoringTypes
<1>9. ScoreInv'
  <2>1. \A b \in Actor : scoringWork[b].at = "history" => scoringWork'[b] = scoringWork[b]
    BY <1>0, <1>2, <1>7
  <2>2. ~died' => score' = Scor!NoScore \/ score' \in scores'
          \/ \E b \in Actor : scoringWork'[b].at = "history" /\ Made(scoringWork'[b]) = score'
    BY <1>1, <2>1 DEF ScoringInv, ScoreInv
  <2>3. ~overlapped' => \A b \in Actor : Scores(b)' => b = a
    BY <1>1, <1>7 DEF Scores
  <2>4. Scores(a)'
    BY <1>4, <1>7 DEF Scores
  <2> QED
    BY <1>4, <1>7, <2>2, <2>3, <2>4 DEF ScoreInv, Scores
<1> QED
  BY <1>7, <1>8, <1>9 DEF ScoringInv

LEMMA ChangeTagsKeepsScoring ==
  ASSUME ScoringInv, Scor!ChangeTags
  PROVE  ScoringInv'
<1>1. /\ inputs < MaxInputs /\ inputs' = inputs + 1
      /\ UNCHANGED <<versions, scoringCache, scoringWork, due, score, scores, overlapped, died>>
  BY DEF Scor!ChangeTags
<1>2. /\ inputs \in 1..MaxInputs /\ due \in 1..inputs
      /\ scoringWork \in [Actor -> ScoreWork] /\ score \in ScoreRecord
  BY DEF ScoringInv, ScoringTypes
<1>3. inputs' \in 1..MaxInputs /\ due' \in 1..inputs' /\ due..inputs \subseteq due'..inputs'
  BY <1>1, <1>2, ScoringAssumption
<1>4. ScoringTypes'
  BY <1>1, <1>3 DEF ScoringInv, ScoringTypes
<1>5. ScoreInv'
  BY <1>1, <1>3 DEF ScoringInv, ScoreInv, Scores
<1>6. PICK n \in 0..MaxVersions : VersionsAt(n)
  BY DEF ScoringInv, VersionsInv
<1>7. NumberedTo(n)'
  BY <1>1, <1>6, SameVersions DEF VersionsAt
<1>8. VersionsInv'
  BY <1>1, <1>6, <1>7 DEF VersionsAt, VersionsInv
<1> QED
  BY <1>1, <1>4, <1>5, <1>8 DEF ScoringInv

LEMMA SaveScoreKeepsScoring ==
  ASSUME ScoringInv, NEW a \in Actor, Scor!SaveScore(a)
  PROVE  ScoringInv'
<1> DEFINE v == scoringWork[a]
           w == [v EXCEPT !.at = "history"]
<1>0. v \in ScoreWork /\ WorkOf(v) /\ scoringWork \in [Actor -> ScoreWork]
  BY DEF ScoringInv, ScoringTypes
<1>1. /\ v.at = "save" /\ Works(a, w) /\ score' = Made(v)
      /\ UNCHANGED <<versions, scoringCache, inputs, due, scores, overlapped, died>>
  BY <1>0 DEF Scor!SaveScore, Scor!Goes, Works, Scor!Breakdown, Made
<1>4. /\ w \in ScoreWork /\ w.does = v.does /\ w.seen = v.seen /\ w.at = "history"
      /\ w.weights = v.weights /\ w.in = v.in
  BY <1>0 DEF ScoreWork
<1> HIDE DEF w
<1>5. WorkOf(w) /\ v.does = "score" /\ Made(w) = Made(v)
  BY <1>0, <1>1, <1>4 DEF WorkOf, Made
<1>6. \A n \in 0..MaxVersions : VersionsAt(n) =>
        /\ w.weights <= n /\ Locks(w, n) /\ score'.weights <= n
        /\ \A p \in Process : scoringCache'[p] <= n \/ scoringCache'[p] = MaxVersions + 1
  BY <1>1, <1>4 DEF VersionsAt, Locks, Made
<1>7. /\ VersionsInv' /\ \A b \in Actor : WorkOf(scoringWork'[b])
      /\ scoringWork' \in [Actor -> ScoreWork] /\ scoringWork'[a] = w
      /\ \A b \in Actor \ {a} : scoringWork'[b] = scoringWork[b]
  BY <1>1, <1>4, <1>5, <1>6, OneWorks
<1>8. ScoringTypes'
  <2>1. Made(v) \in ScoreRecord
    BY <1>0, WorkFieldsOf DEF Made, ScoreRecord
  <2> QED
    BY <1>1, <1>7, <2>1 DEF ScoringInv, ScoringTypes
<1>9. ScoreInv'
  <2>1. \A b \in Actor : Scores(b)' <=> Scores(b)
    BY <1>4, <1>7 DEF Scores
  <2>2. scoringWork'[a].at = "history" /\ Made(scoringWork'[a]) = score'
    BY <1>1, <1>4, <1>5, <1>7
  <2>3. score'.inputs = v.seen
    BY <1>1 DEF Made
  <2>4. Scores(a)
    BY <1>5 DEF Scores
  <2>5. ~died' /\ ~overlapped' => v.seen \in due..inputs /\ \A b \in Actor : Scores(b) => b = a
    BY <1>1, <2>4 DEF ScoringInv, ScoreInv, Scores
  <2> QED
    BY <1>1, <1>4, <1>7, <2>1, <2>2, <2>3, <2>4, <2>5 DEF ScoreInv, Scores
<1> QED
  BY <1>7, <1>8, <1>9 DEF ScoringInv

LEMMA SaveHistoryKeepsScoring ==
  ASSUME ScoringInv, NEW a \in Actor, Scor!SaveHistory(a)
  PROVE  ScoringInv'
<1> DEFINE v == scoringWork[a]
           w == Scor!Idle
<1>0. v \in ScoreWork /\ WorkOf(v) /\ scoringWork \in [Actor -> ScoreWork]
  BY DEF ScoringInv, ScoringTypes
<1>1. /\ v.at = "history" /\ Works(a, w) /\ scores' = scores \cup {Made(v)}
      /\ UNCHANGED <<versions, scoringCache, inputs, due, score, overlapped, died>>
  BY <1>0 DEF Scor!SaveHistory, Works, Scor!Breakdown, Made
<1>4. w \in ScoreWork /\ w.does = "idle" /\ w.at = "idle" /\ w.weights = 0 /\ WorkOf(w)
  BY IdleWork
<1> HIDE DEF w
<1>5. v.does = "score"
  BY <1>0, <1>1 DEF WorkOf
<1>6. \A n \in 0..MaxVersions : VersionsAt(n) =>
        /\ w.weights <= n /\ Locks(w, n) /\ score'.weights <= n
        /\ \A p \in Process : scoringCache'[p] <= n \/ scoringCache'[p] = MaxVersions + 1
  BY <1>1, <1>4 DEF VersionsAt, Locks
<1>7. /\ VersionsInv' /\ \A b \in Actor : WorkOf(scoringWork'[b])
      /\ scoringWork' \in [Actor -> ScoreWork] /\ scoringWork'[a] = w
      /\ \A b \in Actor \ {a} : scoringWork'[b] = scoringWork[b]
  BY <1>1, <1>4, <1>6, OneWorks
<1>8. ScoringTypes'
  <2>1. Made(v) \in ScoreRecord
    BY <1>0, WorkFieldsOf DEF Made, ScoreRecord
  <2> QED
    BY <1>1, <1>7, <2>1 DEF ScoringInv, ScoringTypes
<1>9. ScoreInv'
  <2>1. \A b \in Actor : Scores(b)' <=> Scores(b) /\ b # a
    BY <1>4, <1>7 DEF Scores
  <2>2. ~died' => score' = Scor!NoScore \/ score' \in scores'
          \/ \E b \in Actor : scoringWork'[b].at = "history" /\ Made(scoringWork'[b]) = score'
    BY <1>1, <1>7 DEF ScoringInv, ScoreInv
  <2>3. ~died /\ ~overlapped => score.inputs \in due..inputs /\ \A b \in Actor : Scores(b) => b = a
    BY <1>1, <1>5 DEF ScoringInv, ScoreInv, Scores
  <2> QED
    BY <1>1, <1>7, <2>1, <2>2, <2>3 DEF ScoreInv, Scores
<1> QED
  BY <1>7, <1>8, <1>9 DEF ScoringInv

-----------------------------------------------------------------------------
(* Copies expire, processes die, versions are inserted *)

LEMMA ExpireKeepsScoring ==
  ASSUME ScoringInv, NEW p \in Process, Scor!Expire(p)
  PROVE  ScoringInv'
<1>1. /\ scoringCache' = [scoringCache EXCEPT ![p] = MaxVersions + 1]
      /\ UNCHANGED <<versions, scoringWork, inputs, due, score, scores, overlapped, died>>
  BY DEF Scor!Expire, Scor!NoCopy
<1>2. MaxVersions + 1 \in 0..MaxVersions + 1
  BY ScoringAssumption
<1>3. ScoringTypes'
  BY <1>1, <1>2 DEF ScoringInv, ScoringTypes
<1>4. VersionsInv'
  <2>1. PICK n \in 0..MaxVersions : VersionsAt(n)
    BY DEF ScoringInv, VersionsInv
  <2>2. NumberedTo(n)'
    BY <1>1, <2>1, SameVersions DEF VersionsAt
  <2>3. VersionsAt(n)'
    BY <1>1, <2>1, <2>2 DEF VersionsAt, ScoringInv, ScoringTypes
  <2> QED
    BY <2>3 DEF VersionsInv
<1>5. ScoreInv'
  BY <1>1 DEF ScoringInv, ScoreInv, Scores
<1> QED
  BY <1>1, <1>3, <1>4, <1>5 DEF ScoringInv

LEMMA DieKeepsScoring ==
  ASSUME ScoringInv, NEW p \in Process, Scor!Die(p)
  PROVE  ScoringInv'
<1>1. /\ scoringCache' = [scoringCache EXCEPT ![p] = MaxVersions + 1] /\ died' = TRUE
      /\ scoringWork' = [a \in Actor |-> IF scoringWork[a].in = p THEN Scor!Idle ELSE scoringWork[a]]
      /\ UNCHANGED <<versions, inputs, due, score, scores, overlapped>>
  BY DEF Scor!Die, Scor!NoCopy
<1>2. MaxVersions + 1 \in 0..MaxVersions + 1
  BY ScoringAssumption
<1>3. ScoringTypes'
  <2>1. scoringWork' \in [Actor -> ScoreWork]
    BY <1>1, IdleWork DEF ScoringInv, ScoringTypes
  <2> QED
    BY <1>1, <1>2, <2>1 DEF ScoringInv, ScoringTypes
<1>4. VersionsInv'
  <2>1. PICK n \in 0..MaxVersions : VersionsAt(n)
    BY DEF ScoringInv, VersionsInv
  <2>2. NumberedTo(n)'
    BY <1>1, <2>1, SameVersions DEF VersionsAt
  <2>3. Scor!Idle.weights <= n /\ Locks(Scor!Idle, n)
    BY IdleWork DEF Locks
  <2>4. \A a \in Actor : scoringWork'[a].weights <= n /\ Locks(scoringWork'[a], n)
    BY <1>1, <2>1, <2>3 DEF VersionsAt
  <2>5. VersionsAt(n)'
    BY <1>1, <2>1, <2>2, <2>4 DEF VersionsAt, ScoringInv, ScoringTypes
  <2> QED
    BY <2>5 DEF VersionsInv
<1>5. ScoreInv'
  BY <1>1 DEF ScoreInv
<1>6. \A a \in Actor : WorkOf(scoringWork'[a])
  BY <1>1, IdleWork DEF ScoringInv
<1> QED
  BY <1>3, <1>4, <1>5, <1>6 DEF ScoringInv

\* The versions after an insertion: those that were locked are retired.
Retires(r, locked) == IF r.number \in locked THEN [r EXCEPT !.status = "retired"] ELSE r

LEMMA RetiredFields ==
  ASSUME NEW n \in 0..MaxVersions, NumberedTo(n), NEW locked, NEW r \in versions
  PROVE  /\ Retires(r, locked).number = r.number
         /\ Retires(r, locked).status = IF r.number \in locked THEN "retired" ELSE r.status
BY DEF NumberedTo, VersionRow, Retires

LEMMA InsertNumbers ==
  ASSUME NEW n \in 0..MaxVersions, NumberedTo(n), n < MaxVersions, NEW a \in Actor,
         versions' = {Retires(r, Single(n)) : r \in versions}
                       \cup {[number |-> n + 1, status |-> "active", by |-> a]}
  PROVE  NumberedTo(n + 1)'
<1> DEFINE new == [number |-> n + 1, status |-> "active", by |-> a]
           Old(r) == Retires(r, Single(n))
<1>1. n + 1 \in 0..MaxVersions /\ n + 1 # 0 /\ n \in Nat
  BY ScoringAssumption
<1>2. new.number = n + 1 /\ new.status = "active" /\ new \in VersionRow
  BY <1>1 DEF VersionRow
<1>3. \A r \in versions : /\ r.number \in 1..n /\ r \in VersionRow /\ Old(r).number = r.number
                          /\ Old(r).status = IF r.number \in Single(n) THEN "retired" ELSE r.status
                          /\ Old(r) \in VersionRow
  <2> TAKE r \in versions
  <2>1. r.number \in 1..n /\ r \in VersionRow
    BY DEF NumberedTo, Scor!Numbers
  <2>2. Old(r) \in VersionRow
    BY <2>1 DEF VersionRow, Retires
  <2> QED
    BY <2>1, <2>2, RetiredFields
<1> HIDE DEF new, Old
<1>4. \A q : q \in versions' <=> q = new \/ \E r \in versions : q = Old(r)
  BY DEF new, Old
<1>5. Scor!Numbers' = 1..n + 1
  <2>1. \A i \in 1..n : \E r \in versions : r.number = i
    BY DEF NumberedTo, Scor!Numbers
  <2>2. \A q \in versions' : q.number \in 1..n + 1
    BY <1>1, <1>2, <1>3, <1>4
  <2>3. \A i \in 1..n + 1 : \E q \in versions' : q.number = i
    <3> TAKE i \in 1..n + 1
    <3>1. CASE i = n + 1
      BY <1>2, <1>4, <3>1
    <3>2. CASE i # n + 1
      <4>1. i \in 1..n
        BY <1>1, <3>2
      <4> QED
        BY <1>3, <1>4, <2>1, <4>1
    <3> QED
      BY <3>1, <3>2
  <2> QED
    BY <2>2, <2>3 DEF Scor!Numbers
<1>6. \A q, s \in versions' : q.number = s.number => q = s
  <2>1. \A r \in versions : r.number # n + 1
    BY <1>1, <1>3
  <2>2. \A r, s \in versions : r.number = s.number => r = s
    BY DEF NumberedTo
  <2> QED
    BY <1>2, <1>3, <1>4, <2>1, <2>2
<1>7. versions' \subseteq VersionRow
  <2>1. ASSUME NEW q \in versions' PROVE q \in VersionRow
    <3>1. q = new \/ \E r \in versions : q = Old(r)
      BY <1>4, <2>1
    <3> QED
      BY <1>2, <1>3, <3>1
  <2> QED
    BY <2>1
<1>8. ActiveNumbers' = Single(n + 1)
  <2>1. \A r \in versions : r.status = "active" => r.number \in Single(n)
    BY DEF NumberedTo, ActiveNumbers, Scor!ActiveRows
  <2>2. \A r \in versions : Old(r).status # "active"
    BY <1>3, <2>1
  <2>3. \A q \in versions' : q.status = "active" <=> q = new
    BY <1>2, <1>4, <2>2
  <2>4. ActiveNumbers' = {n + 1}
    BY <1>2, <1>4, <2>3 DEF ActiveNumbers, Scor!ActiveRows
  <2> QED
    BY <1>1, <2>4 DEF Single
<1> QED
  BY <1>1, <1>5, <1>6, <1>7, <1>8 DEF NumberedTo

LEMMA InsertKeepsScoring ==
  ASSUME ScoringInv, NEW a \in Actor, Scor!Insert(a)
  PROVE  ScoringInv'
<1> DEFINE v == scoringWork[a]
           w == [v EXCEPT !.at = "forget", !.retires = {}]
<1>0. v \in ScoreWork /\ WorkOf(v) /\ scoringWork \in [Actor -> ScoreWork]
  BY DEF ScoringInv, ScoringTypes
<1>1. /\ v.at = "insert" /\ v.top < MaxVersions
      /\ UNCHANGED <<scoringCache, inputs, due, score, scores, overlapped, died>>
  BY DEF Scor!Insert
<1>2. v.does = "learn"
  BY <1>0, <1>1 DEF WorkOf
<1>3. CASE Works(a, Scor!Idle) /\ UNCHANGED versions
  <2>1. \A n \in 0..MaxVersions : Scor!Idle.weights <= n /\ Locks(Scor!Idle, n)
    BY IdleWork DEF Locks
  <2> QED
    BY <1>1, <1>2, <1>3, <2>1, IdleWork, UnchangedCache, QuietScoring
<1>4. CASE /\ v.top + 1 \notin Scor!Numbers /\ Works(a, w)
           /\ versions' = {Retires(r, v.retires) : r \in versions}
                            \cup {[number |-> v.top + 1, status |-> "active", by |-> a]}
  <2>1. PICK n \in 0..MaxVersions : VersionsAt(n)
    BY DEF ScoringInv, VersionsInv
  <2>2. PICK m \in v.top..n : v.retires = Single(m)
    BY <1>1, <2>1 DEF VersionsAt, Locks
  <2>3. n \in Nat /\ v.top \in Nat /\ v.top <= n
    BY <1>0, <1>1, <2>1, WorkFieldsOf, ScoringAssumption DEF VersionsAt, Locks
  <2>4. v.top + 1 \notin 1..n
    BY <1>4, <2>1 DEF VersionsAt, NumberedTo
  <2>5. v.top = n /\ m = n
    BY <2>2, <2>3, <2>4
  <2>6. NumberedTo(n + 1)' /\ n + 1 \in 0..MaxVersions
    <3>1. n + 1 \in 0..MaxVersions /\ n < MaxVersions
      BY <1>1, <2>1, <2>5, ScoringAssumption
    <3>2. versions' = {Retires(r, Single(n)) : r \in versions}
                        \cup {[number |-> n + 1, status |-> "active", by |-> a]}
      BY <1>4, <2>2, <2>5
    <3> QED
      BY <2>1, <3>1, <3>2, InsertNumbers DEF VersionsAt
  <2>7. /\ w \in ScoreWork /\ w.does = "learn" /\ w.at = "forget" /\ w.weights = v.weights
        /\ w.in = v.in
    BY <1>0, <1>2 DEF ScoreWork
  <2>8. /\ scoringWork' \in [Actor -> ScoreWork] /\ scoringWork'[a] = w
        /\ \A b \in Actor \ {a} : scoringWork'[b] = scoringWork[b]
    BY <1>0, <1>4, <2>7 DEF Works
  <2> HIDE DEF w
  <2>9. WorkOf(w)
    BY <1>0, <1>1, <2>7 DEF WorkOf
  <2>10. ASSUME NEW b \in Actor
         PROVE  scoringWork'[b].weights <= n + 1 /\ Locks(scoringWork'[b], n + 1)
    <3>1. scoringWork[b] \in ScoreWork /\ scoringWork[b].weights <= n /\ Locks(scoringWork[b], n)
      BY <1>0, <2>1 DEF VersionsAt
    <3>2. scoringWork[b].weights \in Nat /\ scoringWork[b].top \in Nat
      BY <3>1, WorkFieldsOf, ScoringAssumption
    <3>3. scoringWork[b].weights <= n + 1
      BY <2>3, <3>1, <3>2
    <3>4. CASE b = a
      BY <2>7, <2>8, <3>3, <3>4 DEF Locks
    <3>5. CASE b # a
      <4>1. \A k \in scoringWork[b].top..n : k \in scoringWork[b].top..n + 1
        BY <2>3, <3>2
      <4>2. scoringWork[b].top <= n => scoringWork[b].top <= n + 1
        BY <2>3, <3>2
      <4> QED
        BY <2>8, <3>1, <3>3, <3>5, <4>1, <4>2 DEF Locks
    <3> QED
      BY <3>4, <3>5
  <2>11. ASSUME NEW p \in Process
         PROVE  scoringCache'[p] <= n + 1 \/ scoringCache'[p] = MaxVersions + 1
    <3>1. scoringCache[p] \in 0..MaxVersions + 1
      BY DEF ScoringInv, ScoringTypes
    <3>2. scoringCache[p] <= n \/ scoringCache[p] = MaxVersions + 1
      BY <2>1 DEF VersionsAt
    <3>3. scoringCache[p] \in Nat
      BY <3>1, ScoringAssumption
    <3> QED
      BY <1>1, <2>3, <3>2, <3>3
  <2>12. score'.weights <= n + 1
    <3>1. score.weights \in Nat /\ score.weights <= n
      BY <2>1, ScoringAssumption DEF ScoringInv, ScoringTypes, ScoreRecord, VersionsAt
    <3> QED
      BY <1>1, <2>3, <3>1
  <2>13. VersionsInv'
    <3>1. VersionsAt(n + 1)'
      BY <2>6, <2>10, <2>11, <2>12 DEF VersionsAt
    <3> QED
      BY <2>6, <3>1 DEF VersionsInv
  <2>14. ScoreInv'
    BY <1>1, <1>2, <2>7, <2>8, OtherWorkKeepsScore
  <2>15. ScoringTypes'
    BY <1>1, <2>8 DEF ScoringInv, ScoringTypes
  <2> QED
    BY <2>8, <2>9, <2>13, <2>14, <2>15 DEF ScoringInv
<1>5. \/ Works(a, Scor!Idle) /\ UNCHANGED versions
      \/ /\ v.top + 1 \notin Scor!Numbers /\ Works(a, w)
         /\ versions' = {Retires(r, v.retires) : r \in versions}
                          \cup {[number |-> v.top + 1, status |-> "active", by |-> a]}
  BY <1>0 DEF Scor!Insert, Scor!NumberIsFree, Works, Retires
<1> QED
  BY <1>3, <1>4, <1>5

LEMMA ScoringStays ==
  ASSUME ScoringInv, [Scor!Next]_(Scor!scoreVars)
  PROVE  ScoringInv'
<1>1. CASE UNCHANGED Scor!scoreVars
  <2>1. UNCHANGED <<versions, scoringCache, scoringWork, inputs, due, score, scores, overlapped, died>>
    BY <1>1 DEF Scor!scoreVars
  <2>2. PICK n \in 0..MaxVersions : VersionsAt(n)
    BY DEF ScoringInv, VersionsInv
  <2>3. NumberedTo(n)'
    BY <2>1, <2>2, SameVersions DEF VersionsAt
  <2>4. VersionsAt(n)'
    BY <2>1, <2>2, <2>3 DEF VersionsAt
  <2>5. ScoreInv' /\ ScoringTypes'
    BY <2>1 DEF ScoringInv, ScoreInv, Scores, ScoringTypes
  <2> QED
    BY <2>1, <2>4, <2>5 DEF ScoringInv, VersionsInv
<1>2. ASSUME NEW a \in Actor, Scor!Steps(a) PROVE ScoringInv'
  BY <1>2, GetKeepsScoring, TakeCopyKeepsScoring, ReadWeightsKeepsScoring,
     KeepWeightsKeepsScoring, SaveScoreKeepsScoring, SaveHistoryKeepsScoring,
     RejectKeepsScoring, ReadTopKeepsScoring, RetireKeepsScoring, InsertKeepsScoring,
     ForgetKeepsScoring DEF Scor!Steps
<1>3. ASSUME NEW a \in Actor, NEW p \in Process,
             \/ Scor!ChangeAndScore(a, p) \/ Scor!Conclude(a, p, "wins")
             \/ Scor!Conclude(a, p, "losses")
      PROVE  ScoringInv'
  BY <1>3, ChangeKeepsScoring, ConcludeKeepsScoring
<1>4. ASSUME NEW p \in Process, Scor!Expire(p) \/ Scor!Die(p) PROVE ScoringInv'
  BY <1>4, ExpireKeepsScoring, DieKeepsScoring
<1>5. CASE Scor!ChangeTags
  BY <1>5, ChangeTagsKeepsScoring
<1> QED
  BY <1>1, <1>2, <1>3, <1>4, <1>5 DEF Scor!Next

LEMMA ScoringSuffices ==
  ASSUME ScoringInv
  PROVE  Scor!TypeOK /\ Scor!LastVersionActive /\ Scor!ScoreFollowsInputs
<1>1. PICK n \in 0..MaxVersions : VersionsAt(n)
  BY DEF ScoringInv, VersionsInv
<1>2. NumberedTo(n) /\ n \in Nat
  BY <1>1, ScoringAssumption DEF VersionsAt
<1>3. Scor!TypeOK
  <2>1. \A r \in versions : r.number \in 1..MaxVersions /\ r.status \in {"active", "retired"}
    <3> TAKE r \in versions
    <3>1. r.number \in 1..n /\ r \in VersionRow
      BY <1>2 DEF NumberedTo, Scor!Numbers
    <3>2. r.number \in 1..MaxVersions
      BY <1>1, <3>1, ScoringAssumption
    <3> QED
      BY <3>1, <3>2 DEF VersionRow
  <2>2. \A a \in Actor : /\ scoringWork[a].does \in {"idle", "score", "learn"}
                         /\ scoringWork[a].weights \in 0..MaxVersions
                         /\ scoringWork[a].retires \subseteq 1..MaxVersions
    <3> TAKE a \in Actor
    <3>1. scoringWork[a] \in ScoreWork
      BY DEF ScoringInv, ScoringTypes
    <3> QED
      BY <3>1, WorkFieldsOf DEF Does
  <2> QED
    BY <2>1, <2>2 DEF ScoringInv, ScoringTypes, ScoreRecord, Scor!TypeOK, Scor!NoCopy
<1>4. Scor!LastVersionActive
  <2> DEFINE row == [i \in 1..n |-> CHOOSE r \in versions : r.number = i]
  <2>1. \A i \in 1..n : \E r \in versions : r.number = i
    BY <1>2 DEF NumberedTo, Scor!Numbers
  <2>2. \A i \in 1..n : row[i] \in versions /\ row[i].number = i
    BY <2>1
  <2>3. \A r \in versions : r.number \in 1..n
    BY <1>2 DEF NumberedTo, Scor!Numbers
  <2>4. row \in [1..n -> versions]
    BY <2>2
  <2> HIDE DEF row
  <2>5. \A r \in versions : row[r.number] = r
    BY <1>2, <2>2, <2>3 DEF NumberedTo
  <2>6. row \in Bijection(1..n, versions)
    BY <2>2, <2>3, <2>4, <2>5, Fun_IsBij
  <2>7. ExistsBijection(1..n, versions)
    BY <2>6, Fun_ExistsBij
  <2>8. Cardinality(versions) = n
    BY <1>2, <2>7, FS_CountingElements
  <2>9. Scor!Numbers = 1..Cardinality(versions)
    BY <1>2, <2>8 DEF NumberedTo
  <2>10. versions # {} => ActiveNumbers = {Scor!Top(Scor!Numbers)}
    <3> HAVE versions # {}
    <3>1. n # 0
      BY <1>2, <2>3
    <3>2. Scor!Top(Scor!Numbers) = n
      BY <1>2, TopOf DEF NumberedTo
    <3> QED
      BY <1>2, <3>1, <3>2 DEF NumberedTo, Single
  <2> QED
    BY <2>9, <2>10
       DEF Scor!LastVersionActive, ActiveNumbers, Scor!Cardinality, Cardinality
<1>5. Scor!ScoreFollowsInputs
  <2>1. score.weights \in {0} \cup Scor!Numbers
    BY <1>1, <1>2 DEF VersionsAt, NumberedTo, ScoringInv, ScoringTypes, ScoreRecord
  <2>2. Scor!Scoring = {} => \A a \in Actor : ~Scores(a) /\ scoringWork[a].at # "history"
    BY DEF Scor!Scoring, Scores, ScoringInv, WorkOf
  <2> QED
    BY <2>1, <2>2 DEF Scor!ScoreFollowsInputs, ScoringInv, ScoreInv
<1> QED
  BY <1>3, <1>4, <1>5

-----------------------------------------------------------------------------
(***************************************************************************)
(* Connectors.  How long the rules may have refused what is held: rules    *)
(* that let the page be read are as old as the refusal at least, a page    *)
(* that is being read was let through by such rules, and so on to the      *)
(* cached result.  And a run that waits has slept what is left of the      *)
(* interval, unless another run called meanwhile.                          *)
(***************************************************************************)
RunRow ==
  [phase : {"idle", "waiting", "rules", "page", "answered"}, page : BOOLEAN,
   wait : 0..MinInterval, took : 0..Timeout, crossed : BOOLEAN]
CacheEntry == [age : -1..CacheTtl, page : BOOLEAN]
RobotsEntry == [age : -1..RobotsTtl, allow : BOOLEAN]

ConnectorTypes ==
  /\ key \in BOOLEAN /\ site \in Conn!Sites /\ closedFor \in 0..Conn!Longest
  /\ lastCall \in 0..MinInterval
  /\ connCache \in CacheEntry /\ robots \in RobotsEntry
  /\ run \in [Run -> RunRow]

\* The refusal has lasted no longer than what the run has come to allows.
Read == RobotsTtl - 1 + Timeout
RunHolds(r, refused) ==
  /\ r.phase # "answered" => r.page = FALSE
  /\ r.phase = "page" => refused <= RobotsTtl - 1 + r.took
  /\ r.phase = "answered" /\ r.page => refused <= Read + CacheTtl - 1

RefusalInv ==
  /\ ~Conn!Refuses(site) => closedFor = 0
  /\ robots.age # -1 /\ robots.age < RobotsTtl /\ robots.allow => closedFor <= robots.age
  /\ connCache.age # -1 /\ connCache.age < CacheTtl /\ connCache.page =>
       closedFor <= Read + connCache.age
  /\ \A r \in Run : RunHolds(run[r], closedFor)

Waits(r, last) == r.phase = "waiting" /\ ~r.crossed => last + r.wait >= MinInterval

ConnectorInv == ConnectorTypes /\ RefusalInv /\ \A r \in Run : Waits(run[r], lastCall)

LEMMA IdleRun ==
  /\ Conn!Idle \in RunRow
  /\ \A refused, last : RunHolds(Conn!Idle, refused) /\ Waits(Conn!Idle, last)
  /\ Conn!Idle.phase = "idle"
BY ConnectorsAssumption DEF Conn!Idle, RunRow, RunHolds, Waits

LEMMA RunFields ==
  ASSUME NEW r \in RunRow
  PROVE  /\ r.phase \in {"idle", "waiting", "rules", "page", "answered"} /\ r.page \in BOOLEAN
         /\ r.wait \in 0..MinInterval /\ r.took \in 0..Timeout /\ r.crossed \in BOOLEAN
BY DEF RunRow

LEMMA ConnectorsStart == ServicesInit => ConnectorInv
<1> SUFFICES ASSUME ServicesInit PROVE ConnectorInv
  OBVIOUS
<1>1. Conn!Init
  BY DEF ServicesInit
<1>2. /\ 0 \in 0..Conn!Longest /\ MinInterval \in 0..MinInterval
      /\ -1 \in -1..CacheTtl /\ -1 \in -1..RobotsTtl
  BY ConnectorsAssumption DEF Conn!Longest
<1>3. ConnectorTypes
  BY <1>1, <1>2, IdleRun
     DEF Conn!Init, ConnectorTypes, CacheEntry, RobotsEntry, Conn!Never
<1>4. RefusalInv
  BY <1>1, IdleRun DEF Conn!Init, RefusalInv, Conn!Never
<1> QED
  BY <1>1, <1>3, <1>4, IdleRun DEF ConnectorInv, Conn!Init

\* One run goes on; site, time and credentials stay.
RunIs(r, w) == run' = [run EXCEPT ![r] = w]

LEMMA OneRuns ==
  ASSUME ConnectorInv, NEW r \in Run, NEW w \in RunRow, RunIs(r, w),
         RunHolds(w, closedFor), Waits(w, lastCall),
         UNCHANGED <<key, site, closedFor, lastCall>>,
         connCache' \in CacheEntry,
         connCache' = connCache
           \/ (connCache'.age = 0 /\ (connCache'.page => closedFor <= Read)),
         robots' \in RobotsEntry,
         robots' = robots \/ (robots'.age = 0 /\ (robots'.allow => closedFor = 0))
  PROVE  ConnectorInv'
<1>1. run' \in [Run -> RunRow] /\ \A q \in Run : run'[q] = IF q = r THEN w ELSE run[q]
  BY DEF RunIs, ConnectorInv, ConnectorTypes
<1>2. ConnectorTypes'
  BY <1>1 DEF ConnectorInv, ConnectorTypes
<1>3. \A q \in Run : RunHolds(run'[q], closedFor') /\ Waits(run'[q], lastCall')
  BY <1>1 DEF ConnectorInv, RefusalInv
<1>4. closedFor \in Nat /\ Read \in Int
  BY ConnectorsAssumption DEF ConnectorInv, ConnectorTypes, Conn!Longest, Read
<1>5. RefusalInv'
  <2>1. connCache'.age = 0 => Read + connCache'.age = Read
    BY <1>4
  <2> QED
    BY <1>3, <1>4, <2>1 DEF ConnectorInv, RefusalInv
<1> QED
  BY <1>2, <1>3, <1>5 DEF ConnectorInv

LEMMA EndKeepsConnectors ==
  ASSUME ConnectorInv, NEW r \in Run, Conn!End(r)
  PROVE  ConnectorInv'
<1>1. RunIs(r, Conn!Idle) /\ UNCHANGED <<key, site, closedFor, lastCall, connCache, robots>>
  BY DEF Conn!End, Conn!Set, Conn!Others, RunIs
<1>2. connCache \in CacheEntry /\ robots \in RobotsEntry
  BY DEF ConnectorInv, ConnectorTypes
<1> QED
  BY <1>1, <1>2, IdleRun, OneRuns

\* A call that a run makes comes an interval after the last one, or the run
\* has slept through it.
KeepsInterval ==
  \A r \in Run : run[r].phase # "rules" /\ run'[r].phase = "rules" =>
    lastCall >= MinInterval \/ run[r].crossed

LEMMA NoCall ==
  ASSUME ConnectorInv, NEW r \in Run, NEW w, RunIs(r, w), w.phase # "rules"
  PROVE  KeepsInterval
BY DEF KeepsInterval, RunIs, ConnectorInv, ConnectorTypes

LEMMA CallKeepsConnectors ==
  ASSUME ConnectorInv, NEW r \in Run, Conn!Calls(r), run[r].phase # "answered",
         UNCHANGED <<key, site, closedFor, connCache, robots>>
  PROVE  ConnectorInv'
<1>0. /\ \A q \in Run : run[q] \in RunRow
      /\ 0 \in 0..Timeout /\ 0 \in 0..MinInterval
  BY ConnectorsAssumption DEF ConnectorInv, ConnectorTypes
<1>1. ASSUME NEW q \in Run
      PROVE  /\ run'[q] \in RunRow /\ RunHolds(run'[q], closedFor')
             /\ Waits(run'[q], lastCall')
  <2>1. CASE q = r
    <3>1. run'[q] = [run[q] EXCEPT !.phase = "rules", !.took = 0, !.crossed = FALSE]
      BY <2>1 DEF Conn!Calls
    <3>2. run'[q] \in RunRow /\ run'[q].phase = "rules" /\ run'[q].page = run[q].page
      BY <1>0, <3>1 DEF RunRow
    <3>3. run[q].phase # "answered"
      BY <2>1
    <3> QED
      BY <3>2, <3>3 DEF RunHolds, Waits, ConnectorInv, RefusalInv
  <2>2. CASE q # r /\ run[q].phase = "waiting"
    <3>1. run'[q] = [run[q] EXCEPT !.crossed = TRUE]
      BY <2>2 DEF Conn!Calls
    <3>2. /\ run'[q] \in RunRow /\ run'[q].phase = "waiting" /\ run'[q].crossed
          /\ run'[q].page = run[q].page
      BY <1>0, <2>2, <3>1 DEF RunRow
    <3> QED
      BY <2>2, <3>2 DEF RunHolds, Waits, ConnectorInv, RefusalInv
  <2>3. CASE q # r /\ run[q].phase # "waiting"
    <3>1. run'[q] = run[q]
      BY <2>3 DEF Conn!Calls
    <3> QED
      BY <1>0, <2>3, <3>1 DEF Waits, ConnectorInv, RefusalInv
  <2> QED
    BY <2>1, <2>2, <2>3
<1>2. run' \in [Run -> RunRow] /\ lastCall' = 0
  BY <1>1 DEF Conn!Calls
<1>3. ConnectorTypes'
  BY <1>0, <1>2 DEF ConnectorInv, ConnectorTypes
<1>4. RefusalInv'
  BY <1>1 DEF ConnectorInv, RefusalInv
<1> QED
  BY <1>1, <1>3, <1>4 DEF ConnectorInv

LEMMA StartKeepsConnectors ==
  ASSUME ConnectorInv, NEW r \in Run, Conn!Start(r)
  PROVE  ConnectorInv' /\ KeepsInterval
<1> DEFINE i == Conn!Idle
<1>0. /\ run[r].phase = "idle" /\ UNCHANGED <<key, site, closedFor, connCache, robots>>
      /\ connCache \in CacheEntry /\ robots \in RobotsEntry
  BY DEF Conn!Start, Conn!Others, ConnectorInv, ConnectorTypes
<1>1. i \in RunRow /\ i.page = FALSE /\ i.crossed = FALSE
  BY IdleRun DEF Conn!Idle
<1> HIDE DEF i
<1>2. CASE RunIs(r, [i EXCEPT !.phase = "answered"]) /\ UNCHANGED lastCall
  <2> DEFINE w == [i EXCEPT !.phase = "answered"]
  <2>1. w \in RunRow /\ w.phase = "answered" /\ w.page = FALSE
    BY <1>1 DEF RunRow
  <2> HIDE DEF w
  <2>2. RunHolds(w, closedFor) /\ Waits(w, lastCall)
    BY <2>1 DEF RunHolds, Waits
  <2>3. RunIs(r, w)
    BY <1>2 DEF w
  <2> QED
    BY <1>0, <1>2, <2>1, <2>2, <2>3, OneRuns, NoCall
<1>3. CASE /\ Conn!Fresh(connCache, CacheTtl) /\ UNCHANGED lastCall
           /\ RunIs(r, [i EXCEPT !.phase = "answered", !.page = connCache.page])
  <2> DEFINE w == [i EXCEPT !.phase = "answered", !.page = connCache.page]
  <2>1. w \in RunRow /\ w.phase = "answered" /\ w.page = connCache.page
    BY <1>0, <1>1 DEF RunRow, CacheEntry
  <2>2. connCache.age # -1 /\ connCache.age < CacheTtl /\ connCache.age \in -1..CacheTtl
    BY <1>0, <1>3 DEF Conn!Fresh, Conn!Young, Conn!Never, CacheEntry
  <2>3. connCache.page => closedFor <= Read + connCache.age
    BY <2>2 DEF ConnectorInv, RefusalInv
  <2>4. closedFor \in Nat /\ Read \in Int
    BY ConnectorsAssumption DEF ConnectorInv, ConnectorTypes, Conn!Longest, Read
  <2>5. connCache.page => closedFor <= Read + CacheTtl - 1
    BY <2>2, <2>3, <2>4, ConnectorsAssumption
  <2>6. RunIs(r, w)
    BY <1>3
  <2> HIDE DEF w
  <2>7. RunHolds(w, closedFor) /\ Waits(w, lastCall)
    BY <2>1, <2>5 DEF RunHolds, Waits
  <2> QED
    BY <1>0, <1>3, <2>1, <2>6, <2>7, OneRuns, NoCall
<1>4. CASE lastCall >= MinInterval /\ Conn!Calls(r)
  <2>1. \A q \in Run \ {r} : run'[q].phase = run[q].phase
    BY <1>4 DEF Conn!Calls, ConnectorInv, ConnectorTypes, RunRow
  <2> QED
    BY <1>0, <1>4, <2>1, CallKeepsConnectors DEF KeepsInterval
<1>5. CASE /\ RunIs(r, [i EXCEPT !.phase = "waiting", !.wait = MinInterval - lastCall])
           /\ UNCHANGED lastCall
  <2> DEFINE left == MinInterval - lastCall
             w == [i EXCEPT !.phase = "waiting", !.wait = left]
  <2>1. left \in 0..MinInterval /\ lastCall + left >= MinInterval
    BY ConnectorsAssumption DEF ConnectorInv, ConnectorTypes
  <2> HIDE DEF left
  <2>2. w \in RunRow /\ w.phase = "waiting" /\ w.wait = left /\ w.page = FALSE
    BY <1>1, <2>1 DEF RunRow
  <2>3. RunIs(r, w)
    BY <1>5 DEF left
  <2> HIDE DEF w
  <2>4. RunHolds(w, closedFor) /\ Waits(w, lastCall)
    BY <2>1, <2>2 DEF RunHolds, Waits
  <2> QED
    BY <1>0, <1>5, <2>2, <2>3, <2>4, OneRuns, NoCall
<1> QED
  BY <1>2, <1>3, <1>4, <1>5 DEF Conn!Start, Conn!Set, RunIs, i

LEMMA CallingKeepsConnectors ==
  ASSUME ConnectorInv, NEW r \in Run, Conn!Call(r)
  PROVE  ConnectorInv' /\ KeepsInterval
<1>1. ConnectorInv'
  BY CallKeepsConnectors DEF Conn!Call, Conn!Others
<1>2. \A q \in Run \ {r} : run'[q].phase = run[q].phase
  BY DEF Conn!Call, Conn!Calls, ConnectorInv, ConnectorTypes, RunRow
<1>3. run[r].crossed \/ lastCall >= MinInterval
  BY ConnectorsAssumption DEF Conn!Call, ConnectorInv, ConnectorTypes, Waits
<1> QED
  BY <1>1, <1>2, <1>3 DEF KeepsInterval

LEMMA ReadRulesKeepsConnectors ==
  ASSUME ConnectorInv, NEW r \in Run, Conn!ReadRules(r)
  PROVE  ConnectorInv' /\ KeepsInterval
<1> DEFINE v == run[r]
           allow == IF Conn!Fresh(robots, RobotsTtl) THEN robots.allow ELSE Conn!RulesSay(site)
           new == [age |-> 0, allow |-> allow]
<1>0. /\ v.phase = "rules" /\ UNCHANGED <<key, site, closedFor, lastCall>>
      /\ connCache \in CacheEntry /\ robots \in RobotsEntry /\ v \in RunRow
      /\ RunHolds(v, closedFor)
      /\ robots' = IF Conn!Fresh(robots, RobotsTtl) THEN robots ELSE new
  BY DEF Conn!ReadRules, Conn!Others, ConnectorInv, ConnectorTypes, RefusalInv
<1>1. closedFor \in Nat /\ Read \in Int
  BY ConnectorsAssumption DEF ConnectorInv, ConnectorTypes, Conn!Longest, Read
<1>2. ~Conn!Fresh(robots, RobotsTtl) /\ allow => closedFor = 0
  BY DEF ConnectorInv, RefusalInv, Conn!RulesSay, Conn!Refuses
<1>3. Conn!Fresh(robots, RobotsTtl) => robots.age \in 0..RobotsTtl - 1
  BY <1>0, ConnectorsAssumption DEF Conn!Fresh, Conn!Young, Conn!Never, RobotsEntry
<1>4. Conn!Fresh(robots, RobotsTtl) /\ allow => closedFor <= RobotsTtl - 1
  BY <1>1, <1>3, ConnectorsAssumption DEF ConnectorInv, RefusalInv
<1>5. allow => closedFor <= RobotsTtl - 1
  BY <1>2, <1>4, ConnectorsAssumption
<1>6. allow \in BOOLEAN
  BY <1>0 DEF RobotsEntry, Conn!RulesSay
<1> HIDE DEF allow
<1>7. robots' \in RobotsEntry /\ (robots' = robots \/ (robots'.age = 0 /\ (robots'.allow => closedFor = 0)))
  <2>1. new \in RobotsEntry /\ new.age = 0 /\ new.allow = allow
    BY <1>6, ConnectorsAssumption DEF RobotsEntry
  <2> QED
    BY <1>0, <1>2, <2>1
<1>8. CASE allow /\ RunIs(r, [v EXCEPT !.phase = "page", !.took = 0]) /\ UNCHANGED connCache
  <2> DEFINE w == [v EXCEPT !.phase = "page", !.took = 0]
  <2>1. w \in RunRow /\ w.phase = "page" /\ w.took = 0 /\ w.page = v.page
    <3>1. 0 \in 0..Timeout
      BY ConnectorsAssumption
    <3> QED
      BY <1>0, <3>1 DEF RunRow
  <2>2. RunIs(r, w)
    BY <1>8
  <2> HIDE DEF w
  <2>3. RobotsTtl - 1 + w.took = RobotsTtl - 1
    BY <2>1, ConnectorsAssumption
  <2>4. RunHolds(w, closedFor) /\ Waits(w, lastCall)
    BY <1>0, <1>5, <1>8, <2>1, <2>3 DEF RunHolds, Waits
  <2> QED
    BY <1>0, <1>7, <1>8, <2>1, <2>2, <2>4, OneRuns, NoCall
<1>9. CASE RunIs(r, [v EXCEPT !.phase = "answered"]) /\ connCache' = [age |-> 0, page |-> FALSE]
  <2> DEFINE w == [v EXCEPT !.phase = "answered"]
  <2>1. w \in RunRow /\ w.phase = "answered" /\ w.page = v.page
    BY <1>0 DEF RunRow
  <2>2. RunIs(r, w)
    BY <1>9
  <2> HIDE DEF w
  <2>3. RunHolds(w, closedFor) /\ Waits(w, lastCall)
    BY <1>0, <2>1 DEF RunHolds, Waits
  <2>4. connCache' \in CacheEntry /\ connCache'.age = 0 /\ connCache'.page = FALSE
    BY <1>9, ConnectorsAssumption DEF CacheEntry
  <2> QED
    BY <1>0, <1>7, <2>1, <2>2, <2>3, <2>4, OneRuns, NoCall
<1> QED
  BY <1>8, <1>9 DEF Conn!ReadRules, Conn!Set, RunIs, allow

LEMMA ReadPageKeepsConnectors ==
  ASSUME ConnectorInv, NEW r \in Run, Conn!ReadPage(r)
  PROVE  ConnectorInv' /\ KeepsInterval
<1> DEFINE v == run[r]
           got == site.page = "text"
           w == [v EXCEPT !.phase = "answered", !.page = got]
           new == [age |-> 0, page |-> got]
<1>0. /\ v.phase = "page" /\ UNCHANGED <<key, site, closedFor, lastCall, robots>>
      /\ connCache \in CacheEntry /\ robots \in RobotsEntry /\ v \in RunRow
      /\ RunHolds(v, closedFor) /\ RunIs(r, w)
      /\ connCache' = connCache \/ connCache' = new
  BY DEF Conn!ReadPage, Conn!Set, Conn!Others, ConnectorInv, ConnectorTypes, RefusalInv, RunIs
<1>1. closedFor \in Nat /\ Read \in Int /\ v.took \in 0..Timeout
  BY <1>0, ConnectorsAssumption, RunFields
     DEF ConnectorInv, ConnectorTypes, Conn!Longest, Read
<1>2. closedFor <= RobotsTtl - 1 + v.took
  BY <1>0 DEF RunHolds
<1>3. closedFor <= Read /\ closedFor <= Read + CacheTtl - 1
  BY <1>1, <1>2, ConnectorsAssumption DEF Read
<1>4. w \in RunRow /\ w.phase = "answered"
  BY <1>0 DEF RunRow
<1>5. RunHolds(w, closedFor) /\ Waits(w, lastCall)
  BY <1>3, <1>4 DEF RunHolds, Waits
<1>6. new \in CacheEntry /\ new.age = 0
  BY ConnectorsAssumption DEF CacheEntry
<1> QED
  BY <1>0, <1>3, <1>4, <1>5, <1>6, OneRuns, NoCall

LEMMA RestartKeepsConnectors ==
  ASSUME ConnectorInv, Conn!Restart
  PROVE  ConnectorInv' /\ KeepsInterval
<1>1. /\ run' = [r \in Run |-> Conn!Idle] /\ lastCall' = MinInterval
      /\ connCache' = [age |-> -1, page |-> FALSE] /\ robots' = [age |-> -1, allow |-> TRUE]
      /\ UNCHANGED <<key, site, closedFor>>
  BY DEF Conn!Restart, Conn!Others, Conn!Never
<1>2. -1 \in -1..CacheTtl /\ -1 \in -1..RobotsTtl /\ MinInterval \in 0..MinInterval
  BY ConnectorsAssumption
<1>3. ConnectorTypes'
  BY <1>1, <1>2, IdleRun DEF ConnectorInv, ConnectorTypes, CacheEntry, RobotsEntry
<1>4. RefusalInv'
  BY <1>1, IdleRun DEF ConnectorInv, RefusalInv
<1>5. KeepsInterval
  BY <1>1, IdleRun DEF KeepsInterval
<1> QED
  BY <1>1, <1>3, <1>4, <1>5, IdleRun DEF ConnectorInv

LEMMA ChangeKeepsConnectors ==
  ASSUME ConnectorInv, Conn!Change
  PROVE  ConnectorInv' /\ KeepsInterval
<1>1. /\ closedFor' = IF Conn!Refuses(site') THEN closedFor ELSE 0
      /\ UNCHANGED <<lastCall, connCache, robots, run>>
  BY DEF Conn!Change
<1>2. key' \in BOOLEAN /\ site' \in Conn!Sites
  BY DEF Conn!Change, Conn!Sites, ConnectorInv, ConnectorTypes
<1>3. closedFor \in Nat /\ closedFor' \in Nat /\ closedFor' <= closedFor
      /\ closedFor' \in 0..Conn!Longest
  BY <1>1, ConnectorsAssumption DEF ConnectorInv, ConnectorTypes, Conn!Longest
<1>4. ConnectorTypes'
  BY <1>1, <1>2, <1>3 DEF ConnectorInv, ConnectorTypes
<1>5. RefusalInv'
  <2>1. closedFor' = closedFor \/ closedFor' = 0
    BY <1>1
  <2>2. CASE closedFor' = closedFor
    BY <1>1, <2>2 DEF ConnectorInv, RefusalInv
  <2>3. CASE closedFor' = 0
    <3>1. 0 <= Read /\ \A age \in -1..CacheTtl : age # -1 => 0 <= Read + age
      BY ConnectorsAssumption DEF Read
    <3>2. 0 <= Read + CacheTtl - 1 /\ \A took \in 0..Timeout : 0 <= RobotsTtl - 1 + took
      BY ConnectorsAssumption DEF Read
    <3>3. \A r \in Run : RunHolds(run'[r], closedFor')
      <4> TAKE r \in Run
      <4>1. run[r] \in RunRow /\ RunHolds(run[r], closedFor)
        BY DEF ConnectorInv, ConnectorTypes, RefusalInv
      <4>2. run[r].took \in 0..Timeout
        BY <4>1, RunFields
      <4> QED
        BY <1>1, <2>3, <3>2, <4>1, <4>2 DEF RunHolds
    <3>4. /\ connCache.age \in -1..CacheTtl
          /\ robots.age \in -1..RobotsTtl /\ (robots.age # -1 => 0 <= robots.age)
      BY ConnectorsAssumption DEF ConnectorInv, ConnectorTypes, CacheEntry, RobotsEntry
    <3> QED
      BY <1>1, <2>3, <3>1, <3>3, <3>4 DEF RefusalInv
  <2> QED
    BY <2>1, <2>2, <2>3
<1>6. KeepsInterval
  BY <1>1 DEF KeepsInterval
<1> QED
  BY <1>1, <1>4, <1>5, <1>6 DEF ConnectorInv

-----------------------------------------------------------------------------
(* Time passes *)

LEMMA EntryAges ==
  ASSUME NEW ttl \in Nat \ {0}, NEW age \in -1..ttl, NEW closed \in Nat, NEW later \in Nat,
         later <= closed + 1, NEW base \in Int
  PROVE  LET aged == IF age = -1 THEN age ELSE Conn!Lower(age + 1, ttl)
         IN /\ aged \in -1..ttl
            /\ aged # -1 /\ aged < ttl =>
                 age # -1 /\ age < ttl /\ (closed <= base + age => later <= base + aged)
BY DEF Conn!Lower

LEMMA RunAges ==
  ASSUME NEW v \in RunRow, NEW closed \in Nat, NEW later \in Nat, later <= closed + 1,
         NEW last \in 0..MinInterval, RunHolds(v, closed), Waits(v, last),
         v.phase # "answered", v.phase \in {"rules", "page"} => v.took < Timeout,
         v.phase = "waiting" => v.wait > 0,
         NEW w, w = CASE v.phase = "waiting" -> [v EXCEPT !.wait = @ - 1]
                      [] v.phase \in {"rules", "page"} -> [v EXCEPT !.took = @ + 1]
                      [] OTHER -> v
  PROVE  /\ w \in RunRow /\ RunHolds(w, later) /\ Waits(w, Conn!Lower(last + 1, MinInterval))
         /\ w.phase = v.phase
<1>0. /\ v.wait \in 0..MinInterval /\ v.took \in 0..Timeout /\ v.page = FALSE
      /\ MinInterval \in Nat /\ Timeout \in Nat /\ RobotsTtl \in Nat
  BY RunFields, ConnectorsAssumption DEF RunHolds
<1>1. CASE v.phase = "waiting"
  <2>1. w = [v EXCEPT !.wait = v.wait - 1]
    BY <1>1
  <2>2. v.wait - 1 \in 0..MinInterval
    BY <1>0, <1>1
  <2>3. /\ w \in RunRow /\ w.phase = "waiting" /\ w.wait = v.wait - 1 /\ w.page = v.page
        /\ w.crossed = v.crossed
    BY <1>1, <2>1, <2>2 DEF RunRow
  <2>4. last + v.wait >= MinInterval =>
          Conn!Lower(last + 1, MinInterval) + (v.wait - 1) >= MinInterval
    BY <1>0, <1>1 DEF Conn!Lower
  <2> QED
    BY <1>0, <1>1, <2>3, <2>4 DEF RunHolds, Waits
<1>2. CASE v.phase \in {"rules", "page"}
  <2>1. w = [v EXCEPT !.took = v.took + 1]
    BY <1>2
  <2>2. v.took + 1 \in 0..Timeout
    BY <1>0, <1>2
  <2>3. /\ w \in RunRow /\ w.phase = v.phase /\ w.took = v.took + 1 /\ w.page = v.page
    BY <2>1, <2>2 DEF RunRow
  <2>4. closed <= RobotsTtl - 1 + v.took => later <= RobotsTtl - 1 + (v.took + 1)
    BY <1>0
  <2> QED
    BY <1>0, <1>2, <2>3, <2>4 DEF RunHolds, Waits
<1>3. CASE v.phase = "idle"
  BY <1>0, <1>3 DEF RunHolds, Waits
<1> QED
  BY <1>1, <1>2, <1>3, RunFields

LEMMA TickKeepsConnectors ==
  ASSUME ConnectorInv, Conn!Tick
  PROVE  ConnectorInv' /\ KeepsInterval
<1>0. /\ UNCHANGED <<key, site>>
      /\ closedFor' = IF Conn!Refuses(site) THEN Conn!Lower(closedFor + 1, Conn!Longest) ELSE 0
      /\ lastCall' = Conn!Lower(lastCall + 1, MinInterval)
  BY DEF Conn!Tick
<1>1. closedFor \in Nat /\ closedFor \in 0..Conn!Longest /\ Conn!Longest \in Nat
  BY ConnectorsAssumption DEF ConnectorInv, ConnectorTypes, Conn!Longest
<1>2. closedFor' \in 0..Conn!Longest /\ closedFor' \in Nat /\ closedFor' <= closedFor + 1
  BY <1>0, <1>1 DEF Conn!Lower
<1>3. lastCall' \in 0..MinInterval
  BY <1>0, ConnectorsAssumption DEF Conn!Lower, ConnectorInv, ConnectorTypes
<1>4. /\ connCache \in CacheEntry /\ robots \in RobotsEntry
      /\ connCache.age \in -1..CacheTtl /\ robots.age \in -1..RobotsTtl
  BY DEF ConnectorInv, ConnectorTypes, CacheEntry, RobotsEntry
<1>5. /\ connCache'.page = connCache.page
      /\ connCache'.age = IF connCache.age = -1 THEN connCache.age
                          ELSE Conn!Lower(connCache.age + 1, CacheTtl)
      /\ connCache'.age \in -1..CacheTtl => connCache' \in CacheEntry
  BY <1>4 DEF Conn!Tick, Conn!Aged, Conn!Never, CacheEntry
<1>6. /\ robots'.allow = robots.allow
      /\ robots'.age = IF robots.age = -1 THEN robots.age ELSE Conn!Lower(robots.age + 1, RobotsTtl)
      /\ robots'.age \in -1..RobotsTtl => robots' \in RobotsEntry
  BY <1>4 DEF Conn!Tick, Conn!Aged, Conn!Never, RobotsEntry
<1>7. Read \in Int /\ 0 \in Int
  BY ConnectorsAssumption DEF Read
<1>8. /\ connCache'.age \in -1..CacheTtl
      /\ connCache'.age # -1 /\ connCache'.age < CacheTtl =>
           /\ connCache.age # -1 /\ connCache.age < CacheTtl
           /\ closedFor <= Read + connCache.age => closedFor' <= Read + connCache'.age
  BY <1>1, <1>2, <1>4, <1>5, <1>7, EntryAges, ConnectorsAssumption
<1>9. /\ robots'.age \in -1..RobotsTtl
      /\ robots'.age # -1 /\ robots'.age < RobotsTtl =>
           /\ robots.age # -1 /\ robots.age < RobotsTtl
           /\ closedFor <= 0 + robots.age => closedFor' <= 0 + robots'.age
  BY <1>1, <1>2, <1>4, <1>6, <1>7, EntryAges, ConnectorsAssumption
<1>10. ASSUME NEW r \in Run
       PROVE  /\ run'[r] \in RunRow /\ RunHolds(run'[r], closedFor')
              /\ Waits(run'[r], lastCall') /\ run'[r].phase = run[r].phase
  <2>1. /\ run[r] \in RunRow /\ RunHolds(run[r], closedFor) /\ Waits(run[r], lastCall)
        /\ lastCall \in 0..MinInterval
    BY DEF ConnectorInv, ConnectorTypes, RefusalInv
  <2>2. /\ run[r].phase # "answered"
        /\ run[r].phase \in {"rules", "page"} => run[r].took < Timeout
        /\ run[r].phase = "waiting" => run[r].wait > 0
    BY DEF Conn!Tick
  <2>3. run'[r] = CASE run[r].phase = "waiting" -> [run[r] EXCEPT !.wait = @ - 1]
                    [] run[r].phase \in {"rules", "page"} -> [run[r] EXCEPT !.took = @ + 1]
                    [] OTHER -> run[r]
    BY DEF Conn!Tick
  <2> QED
    BY <1>0, <1>1, <1>2, <2>1, <2>2, <2>3, RunAges
<1>11. ConnectorTypes'
  <2>1. run' \in [Run -> RunRow]
    BY <1>10 DEF Conn!Tick
  <2> QED
    BY <1>0, <1>2, <1>3, <1>5, <1>6, <1>8, <1>9, <2>1 DEF ConnectorInv, ConnectorTypes
<1>12. RefusalInv'
  <2>1. robots.age \in Int /\ robots'.age \in Int
    BY <1>4, <1>9
  <2>2. robots'.age # -1 /\ robots'.age < RobotsTtl /\ robots'.allow => closedFor' <= robots'.age
    BY <1>6, <1>9, <2>1 DEF ConnectorInv, RefusalInv
  <2>3. connCache'.age # -1 /\ connCache'.age < CacheTtl /\ connCache'.page =>
          closedFor' <= Read + connCache'.age
    BY <1>5, <1>8 DEF ConnectorInv, RefusalInv
  <2>4. ~Conn!Refuses(site') => closedFor' = 0
    BY <1>0
  <2>5. \A r \in Run : RunHolds(run'[r], closedFor')
    BY <1>10
  <2> QED
    BY <2>2, <2>3, <2>4, <2>5 DEF RefusalInv
<1>13. KeepsInterval
  BY <1>10 DEF KeepsInterval
<1> QED
  BY <1>10, <1>11, <1>12, <1>13 DEF ConnectorInv

LEMMA ConnectorsStay ==
  ASSUME ConnectorInv, [Conn!Next]_(Conn!connectorVars)
  PROVE  ConnectorInv' /\ [KeepsInterval]_(Conn!connectorVars)
<1>1. CASE UNCHANGED Conn!connectorVars
  <2>1. UNCHANGED <<key, site, closedFor, lastCall, connCache, robots, run>>
    BY <1>1 DEF Conn!connectorVars
  <2> QED
    BY <1>1, <2>1 DEF ConnectorInv, ConnectorTypes, RefusalInv
<1>2. ASSUME NEW r \in Run,
             Conn!Start(r) \/ Conn!Call(r) \/ Conn!ReadRules(r) \/ Conn!ReadPage(r)
      PROVE  ConnectorInv' /\ KeepsInterval
  BY <1>2, StartKeepsConnectors, CallingKeepsConnectors, ReadRulesKeepsConnectors,
     ReadPageKeepsConnectors
<1>3. ASSUME NEW r \in Run, Conn!End(r) PROVE ConnectorInv' /\ KeepsInterval
  <2>1. RunIs(r, Conn!Idle)
    BY <1>3 DEF Conn!End, Conn!Set, RunIs
  <2> QED
    BY <1>3, <2>1, IdleRun, EndKeepsConnectors, NoCall
<1>4. CASE Conn!Restart \/ Conn!Tick \/ Conn!Change
  BY <1>4, RestartKeepsConnectors, TickKeepsConnectors, ChangeKeepsConnectors
<1> QED
  BY <1>1, <1>2, <1>3, <1>4 DEF Conn!Next

LEMMA ConnectorsSuffice ==
  ASSUME ConnectorInv
  PROVE  Conn!TypeOK /\ Conn!PagesObeyRules
<1>1. Conn!TypeOK
  BY DEF ConnectorInv, ConnectorTypes, Conn!TypeOK, RunRow, CacheEntry, RobotsEntry, Conn!Never
<1>2. Conn!PagesObeyRules
  <2> SUFFICES ASSUME NEW r \in Run, run[r].phase = "answered", run[r].page
               PROVE  closedFor + 1 < RobotsTtl + CacheTtl + Timeout
    BY DEF Conn!PagesObeyRules
  <2>1. closedFor <= Read + CacheTtl - 1
    BY DEF ConnectorInv, RefusalInv, RunHolds
  <2>2. closedFor \in Nat
    BY ConnectorsAssumption DEF ConnectorInv, ConnectorTypes, Conn!Longest
  <2> QED
    BY <2>1, <2>2, ConnectorsAssumption DEF Read
<1> QED
  BY <1>1, <1>2

-----------------------------------------------------------------------------
(***************************************************************************)
(* What a scan has found is carried through a rescoring.  A criterion that *)
(* is carried is a share within its range, demo data in a demo workspace   *)
(* and the assumption that is made of nothing else where it is assumed.    *)
(***************************************************************************)
Shares == 0..100

Stands(c, demo, fallback) ==
  /\ c = [value |-> c.value, low |-> c.low, high |-> c.high, kind |-> c.kind]
  /\ c.value \in Shares /\ c.low \in Shares /\ c.high \in Shares
  /\ c.low <= c.value /\ c.value <= c.high
  /\ c.kind \in Scor!Kinds
  /\ demo => c.kind = "DEMO"
  /\ c.kind = "MODEL_ASSUMPTION" => /\ c.value = fallback[1] /\ c.low = fallback[2]
                                    /\ c.high = fallback[3]

OfEase == <<50, 20, 80>>
OfFit == <<50, 30, 70>>

CriteriaInv ==
  /\ {"demo", "documents"} \subseteq DOMAIN known
  /\ known.demo \in BOOLEAN /\ known.documents \in Nat
  /\ Stands(criteria.distribution_ease, known.demo, OfEase)
  /\ Stands(criteria.strategic_fit, known.demo, OfFit)

\* An estimate, of the caller or carried over.
Guess(est) ==
  \/ est = Scor!None
  \/ /\ est = [kind |-> est.kind, value |-> est.value, low |-> est.low, high |-> est.high]
     /\ est.value \in Int /\ est.low \in Int /\ est.high \in Int
     /\ est.kind \in Scor!Kinds \ {"MODEL_ASSUMPTION"}

LEMMA SharesOf ==
  ASSUME NEW x \in Int, NEW y \in Int
  PROVE  /\ Scor!Share(x) \in Shares
         /\ x <= y => Scor!Share(x) <= Scor!Share(y)
         /\ x \in Shares => Scor!Share(x) = x
         /\ Scor!Lower(x, y) \in Int /\ Scor!Lower(x, y) <= y
         /\ Scor!Higher(x, y) \in Int /\ y <= Scor!Higher(x, y)
         /\ x <= y => Scor!Lower(x, y) = x /\ Scor!Higher(y, x) = y
BY DEF Scor!Share, Scor!Lower, Scor!Higher, Shares

\* What crit makes of a value and a range.
CritIs(k, v, low, high, kind) ==
  LET c == Scor!Crit(k, v, low, high, kind)
  IN /\ c = [value |-> c.value, low |-> c.low, high |-> c.high, kind |-> c.kind]
     /\ c.value \in Shares /\ c.low \in Shares /\ c.high \in Shares
     /\ c.low <= c.value /\ c.value <= c.high
     /\ c.kind = IF k.demo THEN "DEMO" ELSE kind
     /\ v \in Shares /\ low \in Shares /\ high \in Shares /\ low <= v /\ v <= high =>
          c.value = v /\ c.low = low /\ c.high = high

LEMMA CritFields ==
  ASSUME NEW k, NEW v \in Int, NEW low \in Int, NEW high \in Int, NEW kind
  PROVE  CritIs(k, v, low, high, kind)
<1> DEFINE c == Scor!Crit(k, v, low, high, kind)
           lo == Scor!Lower(low, v)
           hi == Scor!Higher(high, v)
<1>1. /\ lo \in Int /\ lo <= v /\ hi \in Int /\ v <= hi
      /\ low <= v => lo = low
      /\ v <= high => hi = high
  BY SharesOf
<1>2. /\ c = [value |-> c.value, low |-> c.low, high |-> c.high, kind |-> c.kind]
      /\ c.value = Scor!Share(v) /\ c.low = Scor!Share(lo) /\ c.high = Scor!Share(hi)
      /\ c.kind = IF k.demo THEN "DEMO" ELSE kind
  BY DEF Scor!Crit
<1> HIDE DEF c, lo, hi
<1>3. /\ c.value \in Shares /\ c.low \in Shares /\ c.high \in Shares
      /\ c.low <= c.value /\ c.value <= c.high
  BY <1>1, <1>2, SharesOf
<1>4. v \in Shares /\ low \in Shares /\ high \in Shares /\ low <= v /\ v <= high =>
        c.value = v /\ c.low = low /\ c.high = high
  BY <1>1, <1>2, SharesOf
<1> QED
  BY <1>2, <1>3, <1>4 DEF c, CritIs

Fallback(f) ==
  /\ f[1] \in Shares /\ f[2] \in Shares /\ f[3] \in Shares
  /\ f[2] <= f[1] /\ f[1] <= f[3]

LEMMA FallbackStands ==
  ASSUME NEW k, k.demo \in BOOLEAN, NEW f, Fallback(f)
  PROVE  Stands(Scor!Crit(k, f[1], f[2], f[3], "MODEL_ASSUMPTION"), k.demo, f)
<1> DEFINE c == Scor!Crit(k, f[1], f[2], f[3], "MODEL_ASSUMPTION")
<1>1. f[1] \in Int /\ f[2] \in Int /\ f[3] \in Int
  BY DEF Fallback, Shares
<1>2. /\ c = [value |-> c.value, low |-> c.low, high |-> c.high, kind |-> c.kind]
      /\ c.value \in Shares /\ c.low \in Shares /\ c.high \in Shares
      /\ c.low <= c.value /\ c.value <= c.high
      /\ c.kind = IF k.demo THEN "DEMO" ELSE "MODEL_ASSUMPTION"
      /\ Fallback(f) => c.value = f[1] /\ c.low = f[2] /\ c.high = f[3]
  <2> DEFINE kind == "MODEL_ASSUMPTION"
  <2> HIDE DEF kind
  <2>1. \A v, low, high \in Int : CritIs(k, v, low, high, kind)
    BY CritFields DEF CritIs
  <2>2. CritIs(k, f[1], f[2], f[3], kind)
    BY <1>1, <2>1
  <2> QED
    BY <2>2 DEF CritIs, Fallback, kind
<1> HIDE DEF c
<1> QED
  BY <1>2 DEF Stands, Scor!Kinds, c

LEMMA EstimateStands ==
  ASSUME NEW k, k.demo \in BOOLEAN, NEW est, Guess(est), NEW f, Fallback(f)
  PROVE  /\ Stands(Scor!FromEstimate(k, est, f), k.demo, f)
         /\ Stands(Scor!FromInverted(k, est, f), k.demo, f)
<1>1. CASE est = Scor!None
  BY <1>1, FallbackStands DEF Scor!FromEstimate, Scor!FromInverted
<1>2. CASE est # Scor!None
  <2>1. /\ est.value \in Int /\ est.low \in Int /\ est.high \in Int
        /\ est.kind \in Scor!Kinds \ {"MODEL_ASSUMPTION"}
    BY <1>2 DEF Guess
  <2>2. /\ 100 - Scor!Share(est.value) \in Int /\ 100 - Scor!Share(est.high) \in Int
        /\ 100 - Scor!Share(est.low) \in Int
    <3>0. \A x \in Int : Scor!Share(x) \in Int
      <4> TAKE x \in Int
      <4>1. Scor!Share(x) \in Shares
        BY SharesOf
      <4> QED
        BY <4>1 DEF Shares
    <3>1. Scor!Share(est.value) \in Int /\ Scor!Share(est.high) \in Int /\ Scor!Share(est.low) \in Int
      BY <2>1, <3>0
    <3> QED
      BY <3>1
  <2> DEFINE Real(kind) == kind \in Scor!Kinds \ {"MODEL_ASSUMPTION"}
             Good(v, low, high, kind) == Stands(Scor!Crit(k, v, low, high, kind), k.demo, f)
  <2>0. ASSUME NEW v \in Int, NEW low \in Int, NEW high \in Int, NEW kind, Real(kind)
        PROVE  Good(v, low, high, kind)
    <3> DEFINE c == Scor!Crit(k, v, low, high, kind)
    <3>1. /\ c = [value |-> c.value, low |-> c.low, high |-> c.high, kind |-> c.kind]
          /\ c.value \in Shares /\ c.low \in Shares /\ c.high \in Shares
          /\ c.low <= c.value /\ c.value <= c.high
          /\ c.kind = IF k.demo THEN "DEMO" ELSE kind
      BY CritFields DEF CritIs
    <3>2. kind \in Scor!Kinds /\ kind # "MODEL_ASSUMPTION"
      BY <2>0
    <3> HIDE DEF c
    <3>3. Stands(c, k.demo, f)
      BY <3>1, <3>2 DEF Stands, Scor!Kinds
    <3> QED
      BY <3>3 DEF c
  <2>00. Real(est.kind)
    BY <2>1
  <2> HIDE DEF Real, Good
  <2>3. Good(est.value, est.low, est.high, est.kind)
    BY <2>0, <2>00, <2>1
  <2>4. Good(100 - Scor!Share(est.value), 100 - Scor!Share(est.high),
             100 - Scor!Share(est.low), est.kind)
    BY <2>0, <2>00, <2>2
  <2> QED
    BY <1>2, <2>3, <2>4 DEF Good, Scor!FromEstimate, Scor!FromInverted
<1> QED
  BY <1>1, <1>2

LEMMA Fallbacks == Fallback(OfEase) /\ Fallback(OfFit)
BY DEF Fallback, OfEase, OfFit, Shares

\* The two criteria that have no column of their own.
LEMMA BuiltCriteria ==
  ASSUME NEW k, NEW difficulty, NEW fit
  PROVE  LET c == Scor!BuildCriteria(k, difficulty, fit)
         IN /\ c.distribution_ease = Scor!FromInverted(k, difficulty, OfEase)
            /\ c.strategic_fit = Scor!FromEstimate(k, fit, OfFit)
BY DEF Scor!BuildCriteria, OfEase, OfFit

LEMMA CriteriaStart == ServicesInit => CriteriaInv
<1> SUFFICES ASSUME ServicesInit PROVE CriteriaInv
  OBVIOUS
<1>1. Scor!CriteriaInit
  BY DEF ServicesInit
<1>2. /\ {"demo", "documents"} \subseteq DOMAIN known
      /\ known.demo \in BOOLEAN /\ known.documents \in Nat
  BY <1>1 DEF Scor!CriteriaInit
<1>3. criteria = Scor!BuildCriteria(known, Scor!None, Scor!None)
  BY <1>1 DEF Scor!CriteriaInit
<1>4. Guess(Scor!None)
  BY DEF Guess
<1> QED
  BY <1>2, <1>3, <1>4, BuiltCriteria, EstimateStands, Fallbacks DEF CriteriaInv

\* What is carried over is an estimate, and makes the same criterion again.
LEMMA CarriedStands ==
  ASSUME NEW c, NEW k, k.demo \in BOOLEAN, NEW f, Fallback(f), Stands(c, k.demo, f)
  PROVE  /\ Guess(Scor!Carried(c)) /\ Guess(Scor!CarriedInverted(c))
         /\ Scor!FromEstimate(k, Scor!Carried(c), f) = c
         /\ Scor!FromInverted(k, Scor!CarriedInverted(c), f) = c
<1>0. /\ c = [value |-> c.value, low |-> c.low, high |-> c.high, kind |-> c.kind]
      /\ c.value \in Shares /\ c.low \in Shares /\ c.high \in Shares
      /\ c.low <= c.value /\ c.value <= c.high /\ c.kind \in Scor!Kinds
  BY DEF Stands
<1>1. CASE c.kind = "MODEL_ASSUMPTION"
  <2>1. Scor!Carried(c) = Scor!None /\ Scor!CarriedInverted(c) = Scor!None
    BY <1>1 DEF Scor!Carried, Scor!CarriedInverted
  <2>2. ~k.demo /\ c.value = f[1] /\ c.low = f[2] /\ c.high = f[3]
    BY <1>1 DEF Stands
  <2> DEFINE d == Scor!Crit(k, c.value, c.low, c.high, "MODEL_ASSUMPTION")
  <2>3. /\ d = [value |-> d.value, low |-> d.low, high |-> d.high, kind |-> d.kind]
        /\ d.value = c.value /\ d.low = c.low /\ d.high = c.high /\ d.kind = "MODEL_ASSUMPTION"
    <3> DEFINE kind == "MODEL_ASSUMPTION"
    <3> HIDE DEF kind
    <3>1. c.value \in Int /\ c.low \in Int /\ c.high \in Int
      BY <1>0 DEF Shares
    <3>2. CritIs(k, c.value, c.low, c.high, kind)
      BY <3>1, CritFields
    <3> QED
      BY <1>0, <2>2, <3>2 DEF CritIs, kind
  <2> HIDE DEF d
  <2>4. d = c
    BY <1>0, <1>1, <2>3
  <2> QED
    BY <2>1, <2>2, <2>4 DEF d, Guess, Scor!FromEstimate, Scor!FromInverted
<1>2. CASE c.kind # "MODEL_ASSUMPTION"
  <2> DEFINE e == Scor!Carried(c)
             i == Scor!CarriedInverted(c)
             d == Scor!Crit(k, c.value, c.low, c.high, c.kind)
  <2>1. /\ e = [kind |-> c.kind, value |-> c.value, low |-> c.low, high |-> c.high]
        /\ i = [kind |-> c.kind, value |-> 100 - c.value, low |-> 100 - c.high,
                high |-> 100 - c.low]
    BY <1>2 DEF Scor!Carried, Scor!Estimated, Scor!CarriedInverted
  <2> HIDE DEF e, i
  <2>2. e # Scor!None /\ i # Scor!None
    <3>1. e.kind # "none" /\ i.kind # "none"
      BY <1>0, <2>1 DEF Scor!Kinds
    <3> QED
      BY <3>1 DEF Scor!None
  <2>3. /\ 100 - c.value \in Shares /\ 100 - c.low \in Shares /\ 100 - c.high \in Shares
        /\ 100 - (100 - c.value) = c.value /\ 100 - (100 - c.low) = c.low
        /\ 100 - (100 - c.high) = c.high
        /\ c.value \in Int /\ c.low \in Int /\ c.high \in Int
    BY <1>0 DEF Shares
  <2>4. /\ Scor!Share(i.value) = 100 - c.value /\ Scor!Share(i.low) = 100 - c.high
        /\ Scor!Share(i.high) = 100 - c.low
    <3>1. \A x \in Shares : Scor!Share(x) = x
      BY SharesOf DEF Shares
    <3> QED
      BY <2>1, <2>3, <3>1
  <2>5. Scor!FromEstimate(k, e, f) = d /\ Scor!FromInverted(k, i, f) = d
    BY <2>1, <2>2, <2>3, <2>4 DEF Scor!FromEstimate, Scor!FromInverted
  <2>6. /\ d = [value |-> d.value, low |-> d.low, high |-> d.high, kind |-> d.kind]
        /\ d.value = c.value /\ d.low = c.low /\ d.high = c.high
        /\ d.kind = IF k.demo THEN "DEMO" ELSE c.kind
    <3>1. CritIs(k, c.value, c.low, c.high, c.kind)
      BY <2>3, CritFields
    <3> QED
      BY <1>0, <3>1 DEF CritIs
  <2> HIDE DEF d
  <2>7. d.kind = c.kind
    BY <2>6 DEF Stands
  <2>8. d = c
    BY <1>0, <2>6, <2>7
  <2>9. Guess(e) /\ Guess(i)
    BY <1>0, <1>2, <2>1, <2>3 DEF Guess, Shares
  <2> QED
    BY <2>5, <2>8, <2>9 DEF e, i
<1> QED
  BY <1>1, <1>2

\* Every estimate of the model is one.
LEMMA Estimates == \A est \in Scor!Estimate : Guess(est)
<1> TAKE est \in Scor!Estimate
<1>1. CASE est = [kind |-> "USER_INPUT", value |-> 50, low |-> 50, high |-> 50]
  BY <1>1 DEF Guess, Scor!Kinds
<1>2. CASE est # [kind |-> "USER_INPUT", value |-> 50, low |-> 50, high |-> 50]
  <2>1. PICK v \in Levels : est = [kind |-> "ESTIMATED", value |-> v, low |-> v - Spread, high |-> v + Spread]
    BY <1>2 DEF Scor!Estimate
  <2>2. v \in Int /\ v - Spread \in Int /\ v + Spread \in Int
    BY CriteriaAssumption
  <2> QED
    BY <2>1, <2>2 DEF Guess, Scor!Kinds
<1> QED
  BY <1>1, <1>2

\* What a step may put in the place of what is known.
KnownOf(new) ==
  /\ {"demo", "documents"} \subseteq DOMAIN new
  /\ new.demo = known.demo /\ new.documents \in Nat

EaseAfter(difficulty) ==
  IF difficulty # Scor!None THEN difficulty
  ELSE Scor!CarriedInverted(criteria.distribution_ease)
FitAfter(fit) ==
  IF fit # Scor!None THEN fit ELSE Scor!Carried(criteria.strategic_fit)

LEMMA Rescored ==
  ASSUME CriteriaInv, NEW new, KnownOf(new),
         NEW difficulty, Guess(difficulty), NEW fit, Guess(fit),
         Scor!Rescores(new, difficulty, fit)
  PROVE  /\ CriteriaInv'
         /\ difficulty = Scor!None /\ fit = Scor!None =>
              /\ criteria'.distribution_ease = criteria.distribution_ease
              /\ criteria'.strategic_fit = criteria.strategic_fit
<1>0. new.demo \in BOOLEAN
  BY DEF CriteriaInv, KnownOf
<1>1. /\ known' = new
      /\ criteria' = Scor!BuildCriteria(new, EaseAfter(difficulty), FitAfter(fit))
  BY DEF Scor!Rescores, EaseAfter, FitAfter
<1>2. /\ criteria'.distribution_ease = Scor!FromInverted(new, EaseAfter(difficulty), OfEase)
      /\ criteria'.strategic_fit = Scor!FromEstimate(new, FitAfter(fit), OfFit)
  BY <1>1, BuiltCriteria
<1>3. /\ Guess(Scor!CarriedInverted(criteria.distribution_ease))
      /\ Scor!FromInverted(new, Scor!CarriedInverted(criteria.distribution_ease), OfEase)
           = criteria.distribution_ease
  BY <1>0, CarriedStands, Fallbacks DEF CriteriaInv, KnownOf
<1>4. /\ Guess(Scor!Carried(criteria.strategic_fit))
      /\ Scor!FromEstimate(new, Scor!Carried(criteria.strategic_fit), OfFit)
           = criteria.strategic_fit
  BY <1>0, CarriedStands, Fallbacks DEF CriteriaInv, KnownOf
<1>5. Guess(EaseAfter(difficulty)) /\ Guess(FitAfter(fit))
  BY <1>3, <1>4 DEF EaseAfter, FitAfter
<1>6. /\ Stands(criteria'.distribution_ease, new.demo, OfEase)
      /\ Stands(criteria'.strategic_fit, new.demo, OfFit)
  BY <1>0, <1>2, <1>5, EstimateStands, Fallbacks
<1>7. CriteriaInv'
  <2>1. /\ {"demo", "documents"} \subseteq DOMAIN known'
        /\ known'.demo = new.demo /\ known'.documents \in Nat
    BY <1>1 DEF KnownOf
  <2> QED
    BY <1>0, <1>6, <2>1 DEF CriteriaInv
<1>8. difficulty = Scor!None /\ fit = Scor!None =>
        /\ criteria'.distribution_ease = criteria.distribution_ease
        /\ criteria'.strategic_fit = criteria.strategic_fit
  BY <1>2, <1>3, <1>4 DEF EaseAfter, FitAfter
<1> QED
  BY <1>7, <1>8

\* What RescoringKeepsWhatAScanFound says of a step.
Keeps ==
  known'.documents = known.documents
  => /\ criteria'.distribution_ease = criteria.distribution_ease
     /\ criteria'.strategic_fit = criteria.strategic_fit

LEMMA Learned ==
  ASSUME CriteriaInv, NEW new, KnownOf(new), Scor!Learns(new)
  PROVE  CriteriaInv' /\ Keeps
<1>1. Guess(Scor!None)
  BY DEF Guess
<1>2. Scor!Rescores(new, Scor!None, Scor!None)
  BY DEF Scor!Learns
<1> QED
  BY <1>1, <1>2, Rescored DEF Keeps

LEMMA CriteriaStay ==
  CriteriaInv /\ [Scor!CriteriaNext]_(Scor!criteriaVars) =>
    CriteriaInv' /\ [Keeps]_(Scor!criteriaVars)
<1> SUFFICES ASSUME CriteriaInv, [Scor!CriteriaNext]_(Scor!criteriaVars)
             PROVE  CriteriaInv' /\ [Keeps]_(Scor!criteriaVars)
  OBVIOUS
<1>1. CASE Scor!FindEvidence
  <2>1. PICK n \in Documents, share \in Levels, est \in Scor!Estimate :
          /\ n > known.documents
          /\ \E mentions \in {0, n \div 2, n}, fit \in {Scor!None, est} :
               Scor!Rescores([known EXCEPT !.documents = n, !.reach = share, !.sources = share,
                     !.recency = share, !.pain = share, !.mentions = mentions], est, fit)
    BY <1>1, Zenon DEF Scor!FindEvidence
  <2>2. PICK mentions \in {0, n \div 2, n}, fit \in {Scor!None, est} :
          Scor!Rescores([known EXCEPT !.documents = n, !.reach = share, !.sources = share,
                     !.recency = share, !.pain = share, !.mentions = mentions], est, fit)
    BY <2>1
  <2> DEFINE new == [known EXCEPT !.documents = n, !.reach = share, !.sources = share,
                       !.recency = share, !.pain = share, !.mentions = mentions]
  <2>3. n \in Nat
    BY CriteriaAssumption
  <2>4. KnownOf(new) /\ new.documents = n
    BY <2>3 DEF KnownOf, CriteriaInv
  <2>5. Guess(est) /\ Guess(fit)
    BY Estimates, <2>2 DEF Guess
  <2>6. Scor!Rescores(new, est, fit)
    BY <2>2
  <2> HIDE DEF new
  <2>7. CriteriaInv' /\ known' = new
    BY <2>4, <2>5, <2>6, Rescored DEF Scor!Rescores
  <2>8. known'.documents # known.documents
    BY <2>1, <2>3, <2>4, <2>7 DEF CriteriaInv
  <2> QED
    BY <2>7, <2>8 DEF Keeps
<1>2. CASE Scor!Analyze
  <2>1. PICK est \in Scor!Estimate, weeks \in Weeks, level \in Competitions :
          Scor!Learns([known EXCEPT !.market = est, !.price = est, !.complexity = est,
                         !.weeks = weeks, !.competition = level])
    BY <1>2 DEF Scor!Analyze
  <2> DEFINE new == [known EXCEPT !.market = est, !.price = est, !.complexity = est,
                         !.weeks = weeks, !.competition = level]
  <2>2. KnownOf(new)
    BY DEF KnownOf, CriteriaInv
  <2> HIDE DEF new
  <2> QED
    BY <2>1, <2>2, Learned DEF new
<1>3. CASE Scor!Update
  <2>1. PICK est \in Scor!Estimate :
          \/ Scor!Learns([known EXCEPT !.risk = est])
          \/ Scor!Learns([known EXCEPT !.complexity = est])
    BY <1>3 DEF Scor!Update
  <2>2. KnownOf([known EXCEPT !.risk = est]) /\ KnownOf([known EXCEPT !.complexity = est])
    BY DEF KnownOf, CriteriaInv
  <2> QED
    BY <2>1, <2>2, Learned
<1>4. CASE UNCHANGED Scor!criteriaVars
  BY <1>4 DEF CriteriaInv, Scor!criteriaVars
<1> QED
  BY <1>1, <1>2, <1>3, <1>4 DEF Scor!CriteriaNext

-----------------------------------------------------------------------------
(***************************************************************************)
(* The folds of the library over finite sets.  Such a fold is the one      *)
(* function that satisfies its recursion over the subsets, if there is one; *)
(* what it computes is shown by the smallest set for which it would not be *)
(* so.                                                                     *)
(***************************************************************************)

\* Among some subsets of a finite set one has no other within it.
LEMMA Smallest ==
  ASSUME NEW S, IsFiniteSet(S), NEW B \in SUBSET SUBSET S, B # {}
  PROVE  \E s \in B : \A t \in B : t \subseteq s => t = s
<1>1. IsWellFoundedOn(StrictSubsetOrdering(S), SUBSET S)
  BY FS_StrictSubsetOrderingWellFounded, FS_FiniteSubsetsOfFinite
<1>2. PICK s \in B : \A t \in B : ~ (<<t, s>> \in StrictSubsetOrdering(S))
  <2>1. B \subseteq SUBSET S
    OBVIOUS
  <2> QED
    BY <1>1, <2>1, WFMin
<1>3. ASSUME NEW t \in B, t \subseteq s PROVE t = s
  <2>1. <<t, s>> \in (SUBSET S) \X (SUBSET S)
    OBVIOUS
  <2> QED
    BY <1>2, <1>3, <2>1 DEF StrictSubsetOrdering
<1> QED
  BY <1>3

\* What a fold takes out of a set next.
Picks(pick, S) == \A s \in SUBSET S : s # {} => pick[s] \in s

\* What it makes of the element taken and of the others.
FoldStep(F, base, pick, h, s) ==
  IF s = {} THEN base ELSE F[<<pick[s], h[s \ {pick[s]}]>>]

\* The recursion of the library's folds, over the subsets of S.
Folds(F, base, pick, h, S) == h = [s \in SUBSET S |-> FoldStep(F, base, pick, h, s)]

LEMMA FoldsAt ==
  ASSUME NEW F, NEW base, NEW pick, NEW h, NEW S, Folds(F, base, pick, h, S),
         NEW s \in SUBSET S
  PROVE  h[s] = FoldStep(F, base, pick, h, s)
<1> DEFINE G == [u \in SUBSET S |-> FoldStep(F, base, pick, h, u)]
<1>1. h = G
  BY DEF Folds
<1>2. G[s] = FoldStep(F, base, pick, h, s)
  OBVIOUS
<1> QED
  BY <1>1, <1>2

\* There is one such recursion at most.
LEMMA FoldsAgree ==
  ASSUME NEW F, NEW base, NEW pick, NEW S, IsFiniteSet(S), Picks(pick, S),
         NEW T \in SUBSET S, NEW U \in SUBSET S, T \subseteq U,
         NEW g, NEW h, Folds(F, base, pick, g, U), Folds(F, base, pick, h, T)
  PROVE  \A s \in SUBSET T : g[s] = h[s]
<1> DEFINE B == {s \in SUBSET T : g[s] # h[s]}
<1>1. SUFFICES ASSUME B # {} PROVE FALSE
  OBVIOUS
<1>2. PICK s \in B : \A t \in B : t \subseteq s => t = s
  <2>1. B \in SUBSET SUBSET S
    OBVIOUS
  <2> HIDE DEF B
  <2> QED
    BY <1>1, <2>1, Smallest
<1>3. g[s] = FoldStep(F, base, pick, g, s) /\ h[s] = FoldStep(F, base, pick, h, s)
  <2>1. s \in SUBSET T /\ s \in SUBSET U
    OBVIOUS
  <2> QED
    BY <2>1, FoldsAt
<1>4. CASE s = {}
  BY <1>3, <1>4 DEF FoldStep
<1>5. CASE s # {}
  <2>1. pick[s] \in s
    BY <1>5 DEF Picks
  <2>2. s \ {pick[s]} \notin B
    BY <1>2, <2>1
  <2>3. g[s \ {pick[s]}] = h[s \ {pick[s]}]
    BY <2>1, <2>2
  <2> QED
    BY <1>3, <1>5, <2>3 DEF FoldStep
<1> QED
  BY <1>4, <1>5

\* And there is one: the least set without one would have one, put together
\* from those of the sets within it.
LEMMA FoldsExist ==
  ASSUME NEW F, NEW base, NEW pick, NEW S, IsFiniteSet(S), Picks(pick, S)
  PROVE  \E h : Folds(F, base, pick, h, S)
<1> DEFINE Has(s) == \E h : Folds(F, base, pick, h, s)
           B == {s \in SUBSET S : ~Has(s)}
<1>1. CASE B = {}
  BY <1>1
<1>2. CASE B # {}
  <2>1. PICK s \in B : \A t \in B : t \subseteq s => t = s
    <3>1. B \in SUBSET SUBSET S
      OBVIOUS
    <3> HIDE DEF B
    <3> QED
      BY <1>2, <3>1, Smallest
  <2> DEFINE At(u) == CHOOSE h : Folds(F, base, pick, h, u)
             V == [u \in SUBSET s |-> At(u)[u]]
             H == [u \in SUBSET s |-> FoldStep(F, base, pick, V, u)]
  <2>2. ASSUME NEW u \in SUBSET s, u # s PROVE Folds(F, base, pick, At(u), u)
    <3>1. Has(u)
      BY <2>1, <2>2
    <3> QED
      BY <3>1
  <2>3. ASSUME NEW u \in SUBSET s, u # s PROVE V[u] = FoldStep(F, base, pick, V, u)
    <3> DEFINE g == At(u)
               w == u \ {pick[u]}
    <3>1. Folds(F, base, pick, g, u) /\ V[u] = g[u]
      BY <2>2, <2>3
    <3>2. CASE u = {}
      <4> HIDE DEF g, V
      <4>1. g[u] = FoldStep(F, base, pick, g, u)
        BY <3>1, FoldsAt
      <4> QED
        BY <3>1, <3>2, <4>1 DEF FoldStep
    <3>3. CASE u # {}
      <4>1. pick[u] \in u
        BY <3>3 DEF Picks
      <4>2. w \in SUBSET u /\ w # u /\ w \in SUBSET s /\ w # s /\ w \in SUBSET S /\ u \in SUBSET S
        BY <4>1
      <4> DEFINE k == At(w)
      <4>3. Folds(F, base, pick, k, w) /\ V[w] = k[w]
        BY <2>2, <4>2
      <4> HIDE DEF g, k, V, w
      <4>4. \A t \in SUBSET w : g[t] = k[t]
        <5>1. w \subseteq u /\ w \in SUBSET S /\ u \in SUBSET S
          BY <4>2
        <5>2. Folds(F, base, pick, g, u) /\ Folds(F, base, pick, k, w)
          BY <3>1, <4>3
        <5> HIDE DEF At
        <5> QED
          BY <5>1, <5>2, FoldsAgree
      <4>5. g[w] = V[w]
        BY <4>3, <4>4
      <4>6. g[u] = FoldStep(F, base, pick, g, u)
        BY <3>1, FoldsAt
      <4> QED
        BY <3>1, <3>3, <4>5, <4>6 DEF FoldStep, w
    <3> QED
      BY <3>2, <3>3
  <2> HIDE DEF V
  <2>4. ASSUME NEW u \in SUBSET s PROVE FoldStep(F, base, pick, V, u) = FoldStep(F, base, pick, H, u)
    <3>1. CASE u = {}
      BY <3>1 DEF FoldStep
    <3>2. CASE u # {}
      <4> DEFINE w == u \ {pick[u]}
      <4>1. pick[u] \in u
        BY <3>2 DEF Picks
      <4>2. w \in SUBSET s /\ w # s
        BY <4>1
      <4>3. H[w] = V[w]
        <5> HIDE DEF w
        <5>1. H[w] = FoldStep(F, base, pick, V, w)
          BY <4>2
        <5> QED
          BY <2>3, <4>2, <5>1
      <4> HIDE DEF H
      <4> QED
        BY <3>2, <4>3 DEF FoldStep
    <3> QED
      BY <3>1, <3>2
  <2>5. H = [u \in SUBSET s |-> FoldStep(F, base, pick, H, u)]
    <3> DEFINE G == [u \in SUBSET s |-> FoldStep(F, base, pick, H, u)]
    <3>1. \A u \in SUBSET s : H[u] = G[u]
      BY <2>4
    <3> QED
      BY <3>1
  <2>6. Has(s)
    <3> HIDE DEF H
    <3> QED BY <2>5 DEF Folds
  <2> QED
    BY <2>1, <2>6
<1> QED
  BY <1>1, <1>2

\* What it computes is of the type of what it starts with and of what it takes.
LEMMA FoldsInto ==
  ASSUME NEW S, IsFiniteSet(S), NEW A, NEW base \in A, NEW F \in [S \X A -> A],
         NEW pick, Picks(pick, S)
  PROVE  \E h \in [SUBSET S -> A] : Folds(F, base, pick, h, S)
<1>1. PICK h : Folds(F, base, pick, h, S)
  BY FoldsExist
<1> DEFINE B == {s \in SUBSET S : h[s] \notin A}
<1>2. ASSUME B # {} PROVE FALSE
  <2>1. PICK s \in B : \A t \in B : t \subseteq s => t = s
    <3>1. B \in SUBSET SUBSET S
      OBVIOUS
    <3> HIDE DEF B
    <3> QED
      BY <1>2, <3>1, Smallest
  <2>2. h[s] = FoldStep(F, base, pick, h, s)
    BY <1>1, FoldsAt
  <2>3. s # {}
    BY <2>2 DEF FoldStep
  <2>4. pick[s] \in s
    BY <2>3 DEF Picks
  <2>5. s \ {pick[s]} \notin B
    BY <2>1, <2>4
  <2>6. h[s \ {pick[s]}] \in A
    BY <2>5
  <2>7. <<pick[s], h[s \ {pick[s]}]>> \in S \X A
    BY <2>4, <2>6
  <2> QED
    BY <2>2, <2>3, <2>7 DEF FoldStep
<1>3. h = [s \in SUBSET S |-> h[s]]
  BY <1>1 DEF Folds
<1>4. h \in [SUBSET S -> A]
  BY <1>2, <1>3
<1> QED
  BY <1>1, <1>4

-----------------------------------------------------------------------------
(***************************************************************************)
(* The score is a sum over the criteria: that of their values lies between *)
(* those of the ends of their ranges, and that of the confidence is nothing *)
(* where all of them are demo data.                                        *)
(***************************************************************************)

OneOf(s) == CHOOSE x \in s : TRUE

\* What is added up over the criteria, set by set.
Adds(f, h) ==
  h = [s \in SUBSET Scor!Keys |-> IF s = {} THEN 0 ELSE f[OneOf(s)] + h[s \ {OneOf(s)}]]

LEMMA KeysOf ==
  /\ Scor!Keys = {"demand_evidence", "pain_intensity", "willingness_to_pay", "market_size",
                  "competition", "technical_feasibility", "regulatory_safety",
                  "time_to_revenue", "distribution_ease", "strategic_fit"}
  /\ IsFiniteSet(Scor!Keys)
  /\ \A cri \in Scor!Keys : Scor!DefaultWeights[cri] \in 1..100
<1>1. Scor!Keys = {"demand_evidence", "pain_intensity", "willingness_to_pay", "market_size",
                  "competition", "technical_feasibility", "regulatory_safety",
                  "time_to_revenue", "distribution_ease", "strategic_fit"}
  BY DEF Scor!Keys, Scor!DefaultWeights
<1>2. \A cri \in Scor!Keys : Scor!DefaultWeights[cri] \in 1..100
  BY <1>1 DEF Scor!DefaultWeights
<1>3. IsFiniteSet(Scor!Keys)
  <2>1. \A a, b, c, d, e : IsFiniteSet({a, b, c, d, e})
    <3> TAKE a, b, c, d, e
    <3>1. IsFiniteSet({a} \cup {b})
      BY FS_Singleton, FS_AddElement
    <3>2. IsFiniteSet(({a} \cup {b}) \cup {c})
      BY <3>1, FS_AddElement
    <3>3. IsFiniteSet((({a} \cup {b}) \cup {c}) \cup {d})
      BY <3>2, FS_AddElement
    <3>4. IsFiniteSet(((({a} \cup {b}) \cup {c}) \cup {d}) \cup {e})
      BY <3>3, FS_AddElement
    <3>5. {a, b, c, d, e} = ((({a} \cup {b}) \cup {c}) \cup {d}) \cup {e}
      OBVIOUS
    <3> QED
      BY <3>4, <3>5
  <2>2. Scor!Keys = {"demand_evidence", "pain_intensity", "willingness_to_pay", "market_size",
                     "competition"}
                      \cup {"technical_feasibility", "regulatory_safety", "time_to_revenue",
                            "distribution_ease", "strategic_fit"}
    BY <1>1
  <2> QED
    BY <2>1, <2>2, FS_Union
<1> QED
  BY <1>1, <1>2, <1>3

LEMMA KeysAreFinite == IsFiniteSet(Scor!Keys)
BY KeysOf

LEMMA AddsAt ==
  ASSUME NEW f, NEW h, Adds(f, h), NEW s \in SUBSET Scor!Keys
  PROVE  h[s] = IF s = {} THEN 0 ELSE f[OneOf(s)] + h[s \ {OneOf(s)}]
<1> DEFINE G == [u \in SUBSET Scor!Keys |-> IF u = {} THEN 0 ELSE f[OneOf(u)] + h[u \ {OneOf(u)}]]
<1>1. h = G
  BY DEF Adds
<1>2. G[s] = IF s = {} THEN 0 ELSE f[OneOf(s)] + h[s \ {OneOf(s)}]
  OBVIOUS
<1> QED
  BY <1>1, <1>2

LEMMA AddsExist ==
  ASSUME NEW f \in [Scor!Keys -> Int]
  PROVE  \E h : Adds(f, h)
<1> DEFINE pick == [s \in SUBSET Scor!Keys |-> OneOf(s)]
           F == [p \in Scor!Keys \X Int |-> f[p[1]] + p[2]]
<1>1. F \in [Scor!Keys \X Int -> Int]
  OBVIOUS
<1>2. Picks(pick, Scor!Keys)
  <2>1. \A s : s # {} => OneOf(s) \in s
    BY DEF OneOf
  <2> QED
    BY <2>1 DEF Picks
<1>3. 0 \in Int
  OBVIOUS
<1> HIDE DEF F, pick
<1>4. PICK h \in [SUBSET Scor!Keys -> Int] : Folds(F, 0, pick, h, Scor!Keys)
  BY <1>1, <1>2, <1>3, KeysOf, FoldsInto
<1>5. ASSUME NEW s \in SUBSET Scor!Keys
      PROVE  FoldStep(F, 0, pick, h, s) = IF s = {} THEN 0 ELSE f[OneOf(s)] + h[s \ {OneOf(s)}]
  <2>1. CASE s = {}
    BY <2>1 DEF FoldStep
  <2>2. CASE s # {}
    <3>1. pick[s] = OneOf(s) /\ pick[s] \in s
      BY <1>2, <2>2 DEF pick, Picks
    <3>2. h[s \ {pick[s]}] \in Int /\ pick[s] \in Scor!Keys
      BY <3>1
    <3>3. F[<<pick[s], h[s \ {pick[s]}]>>] = f[pick[s]] + h[s \ {pick[s]}]
      BY <3>2 DEF F
    <3> QED
      BY <2>2, <3>1, <3>3 DEF FoldStep
  <2> QED
    BY <2>1, <2>2
<1>6. Adds(f, h)
  <2>1. h = [s \in SUBSET Scor!Keys |-> FoldStep(F, 0, pick, h, s)]
    BY <1>4 DEF Folds
  <2> QED
    BY <1>5, <2>1 DEF Adds
<1> QED
  BY <1>6

\* It is a whole number.
LEMMA AddsInt ==
  ASSUME NEW f \in [Scor!Keys -> Int], NEW h, Adds(f, h)
  PROVE  \A s \in SUBSET Scor!Keys : h[s] \in Int
<1> DEFINE B == {s \in SUBSET Scor!Keys : h[s] \notin Int}
<1>1. SUFFICES ASSUME B # {} PROVE FALSE
  OBVIOUS
<1>2. PICK s \in B : \A t \in B : t \subseteq s => t = s
  <2>1. B \in SUBSET SUBSET Scor!Keys
    OBVIOUS
  <2> HIDE DEF B
  <2> QED
    BY <1>1, <2>1, KeysAreFinite, Smallest
<1>3. h[s] = IF s = {} THEN 0 ELSE f[OneOf(s)] + h[s \ {OneOf(s)}]
  <2>1. s \in SUBSET Scor!Keys
    OBVIOUS
  <2> HIDE DEF B
  <2> QED
    BY <2>1, AddsAt
<1>4. s # {}
  BY <1>3
<1>5. OneOf(s) \in s
  BY <1>4 DEF OneOf
<1>6. s \ {OneOf(s)} \notin B
  BY <1>2, <1>5
<1>7. h[s \ {OneOf(s)}] \in Int /\ f[OneOf(s)] \in Int
  BY <1>5, <1>6
<1> QED
  BY <1>3, <1>4, <1>7

\* More is added, more is the sum.
LEMMA AddsLeq ==
  ASSUME NEW f \in [Scor!Keys -> Int], NEW e \in [Scor!Keys -> Int],
         \A cri \in Scor!Keys : f[cri] <= e[cri],
         NEW g, Adds(f, g), NEW h, Adds(e, h)
  PROVE  g[Scor!Keys] <= h[Scor!Keys]
<1> DEFINE B == {s \in SUBSET Scor!Keys : ~(g[s] <= h[s])}
<1>1. SUFFICES ASSUME B # {} PROVE FALSE
  OBVIOUS
<1>2. PICK s \in B : \A t \in B : t \subseteq s => t = s
  <2>1. B \in SUBSET SUBSET Scor!Keys
    OBVIOUS
  <2> HIDE DEF B
  <2> QED
    BY <1>1, <2>1, KeysAreFinite, Smallest
<1>3. /\ g[s] = IF s = {} THEN 0 ELSE f[OneOf(s)] + g[s \ {OneOf(s)}]
      /\ h[s] = IF s = {} THEN 0 ELSE e[OneOf(s)] + h[s \ {OneOf(s)}]
  BY AddsAt
<1>4. s # {}
  BY <1>3
<1>5. OneOf(s) \in s
  BY <1>4 DEF OneOf
<1>6. s \ {OneOf(s)} \notin B
  BY <1>2, <1>5
<1>7. /\ g[s \ {OneOf(s)}] \in Int /\ h[s \ {OneOf(s)}] \in Int
      /\ g[s \ {OneOf(s)}] <= h[s \ {OneOf(s)}]
  BY <1>6, AddsInt
<1>8. /\ f[OneOf(s)] \in Int /\ e[OneOf(s)] \in Int /\ f[OneOf(s)] <= e[OneOf(s)]
  BY <1>5
<1> QED
  BY <1>3, <1>4, <1>7, <1>8

\* Nothing is added, or nothing but what is not negative.
LEMMA AddsZero ==
  ASSUME NEW f \in [Scor!Keys -> Nat], NEW h, Adds(f, h)
  PROVE  (h[Scor!Keys] = 0) <=> \A cri \in Scor!Keys : f[cri] = 0
<1>0. f \in [Scor!Keys -> Int]
  OBVIOUS
<1>10. \A s \in SUBSET Scor!Keys :
         h[s] = IF s = {} THEN 0 ELSE f[OneOf(s)] + h[s \ {OneOf(s)}]
  BY AddsAt
<1> DEFINE Zero(s) == h[s] >= 0 /\ (h[s] = 0 <=> \A cri \in s : f[cri] = 0)
           B == {s \in SUBSET Scor!Keys : ~Zero(s)}
<1>1. SUFFICES ASSUME B # {} PROVE FALSE
  OBVIOUS
<1>2. PICK s \in B : \A t \in B : t \subseteq s => t = s
  <2>1. B \in SUBSET SUBSET Scor!Keys
    OBVIOUS
  <2> HIDE DEF B
  <2> QED
    BY <1>1, <2>1, KeysAreFinite, Smallest
<1>3. h[s] = IF s = {} THEN 0 ELSE f[OneOf(s)] + h[s \ {OneOf(s)}]
  BY <1>10
<1>4. s # {}
  BY <1>3
<1>5. OneOf(s) \in s
  BY <1>4 DEF OneOf
<1>6. s \ {OneOf(s)} \notin B
  BY <1>2, <1>5
<1>7. Zero(s \ {OneOf(s)}) /\ h[s \ {OneOf(s)}] \in Int
  BY <1>0, <1>6, AddsInt
<1>8. f[OneOf(s)] \in Nat
  BY <1>5
<1>9. (\A cri \in s : f[cri] = 0) <=> f[OneOf(s)] = 0 /\ \A cri \in s \ {OneOf(s)} : f[cri] = 0
  BY <1>5
<1> QED
  BY <1>3, <1>4, <1>7, <1>8, <1>9

Values(cs) == [cri \in Scor!Keys |-> Scor!DefaultWeights[cri] * cs[cri].value]
Lows(cs) == [cri \in Scor!Keys |-> Scor!DefaultWeights[cri] * cs[cri].low]
Highs(cs) == [cri \in Scor!Keys |-> Scor!DefaultWeights[cri] * cs[cri].high]
Trusts(cs) ==
  [cri \in Scor!Keys |-> Scor!DefaultWeights[cri] * Scor!KindConfidence[cs[cri].kind]]

\* The fold of the module adds these up.
LEMMA FoldOfValues ==
  ASSUME NEW cs, Values(cs) \in [Scor!Keys -> Int]
  PROVE  \E h : Adds(Values(cs), h) /\ Scor!Score(cs) = h[Scor!Keys]
<1> DEFINE Fold(h) == h = [s \in SUBSET Scor!Keys |->
             IF s = {} THEN 0
             ELSE Scor!DefaultWeights[OneOf(s)] * cs[OneOf(s)].value + h[s \ {OneOf(s)}]]
           g == CHOOSE h : Fold(h)
<1>1. Scor!Score(cs) = g[Scor!Keys]
  BY DEF Scor!Score, Scor!Weighted, Scor!MapThenSumSet, Scor!MapThenFoldSet, OneOf
<1>2. ASSUME NEW h PROVE Adds(Values(cs), h) <=> Fold(h)
  <2>1. ASSUME NEW s \in SUBSET Scor!Keys, s # {}
        PROVE  Values(cs)[OneOf(s)] = Scor!DefaultWeights[OneOf(s)] * cs[OneOf(s)].value
    <3>1. OneOf(s) \in Scor!Keys
      BY <2>1 DEF OneOf
    <3> QED
      BY <3>1 DEF Values
  <2> QED
    BY <2>1 DEF Adds
<1>3. \E h : Fold(h)
  BY <1>2, AddsExist
<1>4. Fold(g)
  BY <1>3
<1> HIDE DEF Fold, g
<1> QED
  BY <1>1, <1>2, <1>4

LEMMA FoldOfLows ==
  ASSUME NEW cs, Lows(cs) \in [Scor!Keys -> Int]
  PROVE  \E h : Adds(Lows(cs), h) /\ Scor!Weighted(cs, LAMBDA c : c.low) = h[Scor!Keys]
<1> DEFINE Fold(h) == h = [s \in SUBSET Scor!Keys |->
             IF s = {} THEN 0
             ELSE Scor!DefaultWeights[OneOf(s)] * cs[OneOf(s)].low + h[s \ {OneOf(s)}]]
           g == CHOOSE h : Fold(h)
<1>1. Scor!Weighted(cs, LAMBDA c : c.low) = g[Scor!Keys]
  BY DEF Scor!Weighted, Scor!MapThenSumSet, Scor!MapThenFoldSet, OneOf
<1>2. ASSUME NEW h PROVE Adds(Lows(cs), h) <=> Fold(h)
  <2>1. ASSUME NEW s \in SUBSET Scor!Keys, s # {}
        PROVE  Lows(cs)[OneOf(s)] = Scor!DefaultWeights[OneOf(s)] * cs[OneOf(s)].low
    <3>1. OneOf(s) \in Scor!Keys
      BY <2>1 DEF OneOf
    <3> QED
      BY <3>1 DEF Lows
  <2> QED
    BY <2>1 DEF Adds
<1>3. \E h : Fold(h)
  BY <1>2, AddsExist
<1>4. Fold(g)
  BY <1>3
<1> HIDE DEF Fold, g
<1> QED
  BY <1>1, <1>2, <1>4

LEMMA FoldOfHighs ==
  ASSUME NEW cs, Highs(cs) \in [Scor!Keys -> Int]
  PROVE  \E h : Adds(Highs(cs), h) /\ Scor!Weighted(cs, LAMBDA c : c.high) = h[Scor!Keys]
<1> DEFINE Fold(h) == h = [s \in SUBSET Scor!Keys |->
             IF s = {} THEN 0
             ELSE Scor!DefaultWeights[OneOf(s)] * cs[OneOf(s)].high + h[s \ {OneOf(s)}]]
           g == CHOOSE h : Fold(h)
<1>1. Scor!Weighted(cs, LAMBDA c : c.high) = g[Scor!Keys]
  BY DEF Scor!Weighted, Scor!MapThenSumSet, Scor!MapThenFoldSet, OneOf
<1>2. ASSUME NEW h PROVE Adds(Highs(cs), h) <=> Fold(h)
  <2>1. ASSUME NEW s \in SUBSET Scor!Keys, s # {}
        PROVE  Highs(cs)[OneOf(s)] = Scor!DefaultWeights[OneOf(s)] * cs[OneOf(s)].high
    <3>1. OneOf(s) \in Scor!Keys
      BY <2>1 DEF OneOf
    <3> QED
      BY <3>1 DEF Highs
  <2> QED
    BY <2>1 DEF Adds
<1>3. \E h : Fold(h)
  BY <1>2, AddsExist
<1>4. Fold(g)
  BY <1>3
<1> HIDE DEF Fold, g
<1> QED
  BY <1>1, <1>2, <1>4

LEMMA FoldOfTrusts ==
  ASSUME NEW cs, Trusts(cs) \in [Scor!Keys -> Int]
  PROVE  \E h : Adds(Trusts(cs), h) /\ Scor!Confidence(cs) = h[Scor!Keys]
<1> DEFINE Fold(h) == h = [s \in SUBSET Scor!Keys |->
             IF s = {} THEN 0
             ELSE Scor!DefaultWeights[OneOf(s)] * Scor!KindConfidence[cs[OneOf(s)].kind]
                    + h[s \ {OneOf(s)}]]
           g == CHOOSE h : Fold(h)
<1>1. Scor!Confidence(cs) = g[Scor!Keys]
  BY DEF Scor!Confidence, Scor!Weighted, Scor!MapThenSumSet, Scor!MapThenFoldSet, OneOf
<1>2. ASSUME NEW h PROVE Adds(Trusts(cs), h) <=> Fold(h)
  <2>1. ASSUME NEW s \in SUBSET Scor!Keys, s # {}
        PROVE  Trusts(cs)[OneOf(s)]
                 = Scor!DefaultWeights[OneOf(s)] * Scor!KindConfidence[cs[OneOf(s)].kind]
    <3>1. OneOf(s) \in Scor!Keys
      BY <2>1 DEF OneOf
    <3> QED
      BY <3>1 DEF Trusts
  <2> QED
    BY <2>1 DEF Adds
<1>3. \E h : Fold(h)
  BY <1>2, AddsExist
<1>4. Fold(g)
  BY <1>3
<1> HIDE DEF Fold, g
<1> QED
  BY <1>1, <1>2, <1>4

\* What the criteria of an opportunity may be, in a demo workspace or not.
GoodCriteria(cs, demo) ==
  /\ \A cri \in Scor!Keys :
       /\ cs[cri].value \in Shares /\ cs[cri].low \in Shares /\ cs[cri].high \in Shares
       /\ cs[cri].low <= cs[cri].value /\ cs[cri].value <= cs[cri].high
       /\ cs[cri].kind \in Scor!Kinds
       /\ demo => cs[cri].kind = "DEMO"
  /\ ~demo => cs["demand_evidence"].kind # "DEMO"

LEMMA WeightedValues ==
  ASSUME NEW cs, NEW demo \in BOOLEAN, GoodCriteria(cs, demo)
  PROVE  /\ Values(cs) \in [Scor!Keys -> Int] /\ Lows(cs) \in [Scor!Keys -> Int]
         /\ Highs(cs) \in [Scor!Keys -> Int] /\ Trusts(cs) \in [Scor!Keys -> Nat]
         /\ Trusts(cs) \in [Scor!Keys -> Int]
<1>1. ASSUME NEW cri \in Scor!Keys
      PROVE  /\ cs[cri].value \in Nat /\ cs[cri].low \in Nat /\ cs[cri].high \in Nat
             /\ Scor!KindConfidence[cs[cri].kind] \in Nat
             /\ Scor!DefaultWeights[cri] \in Nat
  <2>1. cs[cri].value \in Shares /\ cs[cri].low \in Shares /\ cs[cri].high \in Shares
        /\ cs[cri].kind \in Scor!Kinds
    BY DEF GoodCriteria
  <2>2. \A kind \in Scor!Kinds : Scor!KindConfidence[kind] \in Nat
    BY DEF Scor!Kinds, Scor!KindConfidence
  <2>3. Scor!DefaultWeights[cri] \in Nat
    BY KeysOf
  <2> QED
    BY <2>1, <2>2, <2>3 DEF Shares
<1>2. \A x, y \in Nat : x * y \in Nat
  OBVIOUS
<1> QED
  BY <1>1, <1>2 DEF Values, Lows, Highs, Trusts

LEMMA WeightedTerms ==
  ASSUME NEW cs, NEW demo \in BOOLEAN, GoodCriteria(cs, demo), NEW cri \in Scor!Keys
  PROVE  /\ Lows(cs)[cri] <= Values(cs)[cri] /\ Values(cs)[cri] <= Highs(cs)[cri]
         /\ (Trusts(cs)[cri] = 0) <=> cs[cri].kind = "DEMO"
<1>1. \A w \in 1..100, x, y \in Nat : x <= y => w * x <= w * y
  OBVIOUS
<1>2. \A w \in 1..100, x \in Nat : w * x = 0 <=> x = 0
  OBVIOUS
<1>3. Scor!DefaultWeights[cri] \in 1..100
  BY KeysOf
<1>4. /\ cs[cri].value \in Nat /\ cs[cri].low \in Nat /\ cs[cri].high \in Nat
      /\ cs[cri].low <= cs[cri].value /\ cs[cri].value <= cs[cri].high
  BY DEF GoodCriteria, Shares
<1>5. /\ Scor!KindConfidence[cs[cri].kind] \in Nat
      /\ Scor!KindConfidence[cs[cri].kind] = 0 <=> cs[cri].kind = "DEMO"
  <2>1. cs[cri].kind \in Scor!Kinds
    BY DEF GoodCriteria
  <2> QED
    BY <2>1 DEF Scor!Kinds, Scor!KindConfidence
<1> QED
  BY <1>1, <1>2, <1>3, <1>4, <1>5 DEF Values, Lows, Highs, Trusts

LEMMA ScoreStaysInRange ==
  ASSUME known.demo \in BOOLEAN, GoodCriteria(criteria, known.demo)
  PROVE  Scor!CriteriaTypeOK /\ Scor!ScoreIsInRange
<1>1. Scor!CriteriaTypeOK
  BY DEF GoodCriteria, Scor!CriteriaTypeOK, Shares
<1>2. PICK v : Adds(Values(criteria), v) /\ Scor!Score(criteria) = v[Scor!Keys]
  BY WeightedValues, FoldOfValues
<1>3. PICK l : Adds(Lows(criteria), l) /\ Scor!Weighted(criteria, LAMBDA c : c.low) = l[Scor!Keys]
  BY WeightedValues, FoldOfLows
<1>4. PICK h : Adds(Highs(criteria), h) /\ Scor!Weighted(criteria, LAMBDA c : c.high) = h[Scor!Keys]
  BY WeightedValues, FoldOfHighs
<1>5. PICK t : Adds(Trusts(criteria), t) /\ Scor!Confidence(criteria) = t[Scor!Keys]
  BY WeightedValues, FoldOfTrusts
<1>6. l[Scor!Keys] <= v[Scor!Keys]
  BY <1>2, <1>3, WeightedValues, WeightedTerms, AddsLeq
<1>7. v[Scor!Keys] <= h[Scor!Keys]
  BY <1>2, <1>4, WeightedValues, WeightedTerms, AddsLeq
<1>8. (t[Scor!Keys] = 0) = known.demo
  <2>1. (t[Scor!Keys] = 0) <=> \A cri \in Scor!Keys : Trusts(criteria)[cri] = 0
    BY <1>5, WeightedValues, AddsZero
  <2>2. (\A cri \in Scor!Keys : Trusts(criteria)[cri] = 0)
          <=> \A cri \in Scor!Keys : criteria[cri].kind = "DEMO"
    BY WeightedTerms
  <2>3. "demand_evidence" \in Scor!Keys
    BY KeysOf
  <2>4. (\A cri \in Scor!Keys : criteria[cri].kind = "DEMO") <=> known.demo
    BY <2>3 DEF GoodCriteria
  <2> QED
    BY <2>1, <2>2, <2>4
<1>9. \A cri \in Scor!Keys : /\ criteria[cri].low <= criteria[cri].value
                             /\ criteria[cri].value <= criteria[cri].high
  BY DEF GoodCriteria
<1>10. Scor!ScoreIsInRange
  BY <1>2, <1>3, <1>4, <1>5, <1>6, <1>7, <1>8, <1>9 DEF Scor!ScoreIsInRange
<1> QED
  BY <1>1, <1>10

-----------------------------------------------------------------------------
(***************************************************************************)
(* The criteria follow from what is known of the opportunity, and from the *)
(* two that are carried over.  So each of them is a share within its range, *)
(* and a worse finding changes one of them, to less.                       *)
(***************************************************************************)

MaybeEstimate == {Scor!None} \cup Scor!Estimate
Knowledge ==
  [demo : BOOLEAN, b2b : BOOLEAN, documents : Nat, reach : Nat, sources : Nat,
   recency : Nat, pain : Nat, mentions : Nat, price : MaybeEstimate, market : MaybeEstimate,
   competition : DOMAIN Scor!CompetitionOf, complexity : MaybeEstimate, risk : MaybeEstimate,
   weeks : Nat]

ComputedInv ==
  /\ known \in Knowledge
  /\ \E difficulty, fit : /\ Guess(difficulty) /\ Guess(fit)
                          /\ criteria = Scor!BuildCriteria(known, difficulty, fit)

\* One criterion of GoodCriteria.
GoodOne(c, demo, kind) ==
  /\ c.value \in Shares /\ c.low \in Shares /\ c.high \in Shares
  /\ c.low <= c.value /\ c.value <= c.high
  /\ c.kind \in Scor!Kinds
  /\ demo => c.kind = "DEMO"
  /\ ~demo => c.kind = kind

LEMMA CritIsGood ==
  ASSUME NEW k, k.demo \in BOOLEAN, NEW v \in Int, NEW low \in Int, NEW high \in Int,
         NEW kind \in Scor!Kinds
  PROVE  GoodOne(Scor!Crit(k, v, low, high, kind), k.demo, kind)
<1> DEFINE c == Scor!Crit(k, v, low, high, kind)
<1>1. /\ c.value \in Shares /\ c.low \in Shares /\ c.high \in Shares
      /\ c.low <= c.value /\ c.value <= c.high
      /\ c.kind = IF k.demo THEN "DEMO" ELSE kind
  BY CritFields DEF CritIs
<1>2. "DEMO" \in Scor!Kinds
  BY DEF Scor!Kinds
<1> HIDE DEF c
<1>3. GoodOne(c, k.demo, kind)
  BY <1>1, <1>2 DEF GoodOne
<1> QED
  BY <1>3 DEF c

LEMMA KnowledgeGuesses == \A est \in MaybeEstimate : Guess(est)
BY Estimates DEF MaybeEstimate, Guess

LEMMA AroundIsGood ==
  ASSUME NEW k, k.demo \in BOOLEAN, NEW v \in Int, NEW below \in Int, NEW above \in Int,
         NEW kind \in Scor!Kinds
  PROVE  GoodOne(Scor!Around(k, v, below, above, kind), k.demo, kind)
<1>1. v - below \in Int /\ v + above \in Int
  OBVIOUS
<1> QED
  BY <1>1, CritIsGood DEF Scor!Around

LEMMA DemandIsGood ==
  ASSUME NEW k \in Knowledge
  PROVE  GoodOne(Scor!Demand(k), k.demo, "OBSERVED")
<1> DEFINE spread == CASE k.documents < 3 -> 25
                       [] k.documents >= 3 /\ k.documents < 10 -> 15 [] OTHER -> 8
           v == (35 * k.reach + 25 * k.sources + 30 * k.reach + 10 * k.recency) \div 100
<1>1. k.documents \in Nat /\ k.reach \in Nat /\ k.sources \in Nat /\ k.recency \in Nat
      /\ k.demo \in BOOLEAN
  BY DEF Knowledge
<1>2. spread \in Int
  BY <1>1
<1>3. v \in Int
  BY <1>1
<1>4. "OBSERVED" \in Scor!Kinds
  BY DEF Scor!Kinds
<1>5. Scor!Demand(k) = Scor!Around(k, v, spread, spread, "OBSERVED")
  BY DEF Scor!Demand
<1> HIDE DEF spread, v
<1> QED
  BY <1>1, <1>2, <1>3, <1>4, <1>5, AroundIsGood

LEMMA PainIsGood ==
  ASSUME NEW k \in Knowledge
  PROVE  GoodOne(Scor!Pain(k), k.demo, "ESTIMATED")
<1> DEFINE spread == IF k.documents < 5 THEN 25 ELSE 12
<1>1. k.pain \in Int /\ spread \in Int /\ k.demo \in BOOLEAN
  BY DEF Knowledge
<1>2. "ESTIMATED" \in Scor!Kinds
  BY DEF Scor!Kinds
<1>3. Scor!Pain(k) = Scor!Around(k, k.pain, spread, spread, "ESTIMATED")
  BY DEF Scor!Pain
<1> HIDE DEF spread
<1> QED
  BY <1>1, <1>2, <1>3, AroundIsGood

LEMMA SharesAreInt == \A x \in Int : Scor!Share(x) \in Int
<1> TAKE x \in Int
<1>1. Scor!Share(x) \in Shares
  BY SharesOf
<1> QED
  BY <1>1 DEF Shares

LEMMA WillingnessIsGood ==
  ASSUME NEW k \in Knowledge
  PROVE  GoodOne(Scor!WillingnessToPay(k), k.demo, "ESTIMATED")
<1> DEFINE ratio == IF k.documents > 0 THEN (100 * k.mentions) \div k.documents ELSE 0
           price == IF k.price = Scor!None THEN 10 ELSE (Scor!Share(k.price.value) * 30) \div 100
           v == Scor!Share(20 + (3 * ratio) \div 2 + (IF k.b2b THEN 15 ELSE 0) + price)
<1>1. k.documents \in Nat /\ k.mentions \in Nat /\ k.demo \in BOOLEAN
  BY DEF Knowledge
<1>2. ratio \in Int
  BY <1>1
<1>3. price \in Int
  <2>1. CASE k.price = Scor!None
    BY <2>1
  <2>2. CASE k.price # Scor!None
    <3>1. Guess(k.price)
      BY KnowledgeGuesses DEF Knowledge
    <3>2. Scor!Share(k.price.value) \in Int
      BY <2>2, <3>1, SharesAreInt DEF Guess
    <3> QED
      BY <2>2, <3>2
  <2> QED
    BY <2>1, <2>2
<1>4. v \in Int
  <2> HIDE DEF ratio, price
  <2>1. (3 * ratio) \div 2 \in Int
    BY <1>2
  <2>2. 20 + (3 * ratio) \div 2 + (IF k.b2b THEN 15 ELSE 0) + price \in Int
    BY <1>3, <2>1
  <2> QED
    BY <2>2, SharesAreInt
<1>5. "ESTIMATED" \in Scor!Kinds
  BY DEF Scor!Kinds
<1>6. Scor!WillingnessToPay(k) = Scor!Around(k, v, 25, 20, "ESTIMATED")
  BY DEF Scor!WillingnessToPay
<1> HIDE DEF v
<1> QED
  BY <1>1, <1>4, <1>5, <1>6, AroundIsGood

\* Of the other criteria the kind need not be known.
GoodAny(c, demo) == \E kind : GoodOne(c, demo, kind)

LEMMA CompetitionIsGood ==
  ASSUME NEW k \in Knowledge
  PROVE  GoodAny(Scor!Competition(k), k.demo)
<1> DEFINE c == Scor!CompetitionOf[k.competition]
           kind == IF k.competition = "unknown" THEN "MODEL_ASSUMPTION" ELSE "OBSERVED"
<1>1. k.competition \in DOMAIN Scor!CompetitionOf /\ k.demo \in BOOLEAN
  BY DEF Knowledge
<1>2. c[1] \in Int /\ c[2] \in Int /\ c[3] \in Int
  BY <1>1 DEF Scor!CompetitionOf
<1>3. kind \in Scor!Kinds
  BY DEF Scor!Kinds
<1>4. Scor!Competition(k) = Scor!Crit(k, c[1], c[2], c[3], kind)
  BY DEF Scor!Competition
<1> HIDE DEF c, kind
<1> QED
  BY <1>1, <1>2, <1>3, <1>4, CritIsGood DEF GoodAny

LEMMA TimeIsGood ==
  ASSUME NEW k \in Knowledge
  PROVE  GoodAny(Scor!TimeToRevenue(k), k.demo)
<1> DEFINE worth(weeks) == Scor!Share(100 - 4 * (weeks - 1))
<1>1. k.weeks \in Int /\ k.demo \in BOOLEAN
  BY DEF Knowledge
<1>2. /\ "ESTIMATED" \in Scor!Kinds /\ "MODEL_ASSUMPTION" \in Scor!Kinds
  BY DEF Scor!Kinds
<1>3. \A w \in Int : worth(w) \in Int
  BY SharesAreInt
<1>4. (3 * k.weeks) \div 2 \in Int /\ (7 * k.weeks) \div 10 \in Int
  BY <1>1
<1>5. Scor!TimeToRevenue(k) =
        IF k.weeks = 0 THEN Scor!Crit(k, 50, 25, 75, "MODEL_ASSUMPTION")
        ELSE Scor!Crit(k, worth(k.weeks), worth((3 * k.weeks) \div 2),
                       worth((7 * k.weeks) \div 10), "ESTIMATED")
  BY DEF Scor!TimeToRevenue
<1> HIDE DEF worth
<1>6. worth(k.weeks) \in Int /\ worth((3 * k.weeks) \div 2) \in Int /\ worth((7 * k.weeks) \div 10) \in Int
  BY <1>1, <1>3, <1>4
<1>7. CASE k.weeks = 0
  BY <1>1, <1>2, <1>5, <1>7, CritIsGood DEF GoodAny
<1>8. CASE k.weeks # 0
  BY <1>1, <1>2, <1>5, <1>6, <1>8, CritIsGood DEF GoodAny
<1> QED
  BY <1>7, <1>8

LEMMA StandsIsGood ==
  ASSUME NEW c, NEW demo \in BOOLEAN, NEW f, Stands(c, demo, f)
  PROVE  GoodAny(c, demo)
<1>1. GoodOne(c, demo, c.kind)
  BY DEF Stands, GoodOne
<1> QED
  BY <1>1 DEF GoodAny

LEMMA BuiltIsGood ==
  ASSUME NEW k \in Knowledge, NEW difficulty, Guess(difficulty), NEW fit, Guess(fit)
  PROVE  GoodCriteria(Scor!BuildCriteria(k, difficulty, fit), k.demo)
<1> DEFINE cs == Scor!BuildCriteria(k, difficulty, fit)
<1>0. k.demo \in BOOLEAN
  BY DEF Knowledge
<1>1. /\ cs["demand_evidence"] = Scor!Demand(k)
      /\ cs["pain_intensity"] = Scor!Pain(k)
      /\ cs["willingness_to_pay"] = Scor!WillingnessToPay(k)
      /\ cs["market_size"] = Scor!FromEstimate(k, k.market, <<40, 10, 80>>)
      /\ cs["competition"] = Scor!Competition(k)
      /\ cs["technical_feasibility"] = Scor!FromInverted(k, k.complexity, <<50, 25, 75>>)
      /\ cs["regulatory_safety"] = Scor!FromInverted(k, k.risk, <<60, 30, 90>>)
      /\ cs["time_to_revenue"] = Scor!TimeToRevenue(k)
      /\ cs["distribution_ease"] = Scor!FromInverted(k, difficulty, <<50, 20, 80>>)
      /\ cs["strategic_fit"] = Scor!FromEstimate(k, fit, <<50, 30, 70>>)
  BY DEF Scor!BuildCriteria
<1>2. Guess(k.market) /\ Guess(k.complexity) /\ Guess(k.risk)
  BY KnowledgeGuesses DEF Knowledge
<1>3. /\ Fallback(<<40, 10, 80>>) /\ Fallback(<<50, 25, 75>>) /\ Fallback(<<60, 30, 90>>)
      /\ Fallback(<<50, 20, 80>>) /\ Fallback(<<50, 30, 70>>)
  BY DEF Fallback, Shares
<1> HIDE DEF cs
<1>4. /\ GoodAny(cs["market_size"], k.demo) /\ GoodAny(cs["technical_feasibility"], k.demo)
      /\ GoodAny(cs["regulatory_safety"], k.demo) /\ GoodAny(cs["distribution_ease"], k.demo)
      /\ GoodAny(cs["strategic_fit"], k.demo)
  <2>1. ASSUME NEW est, Guess(est), NEW f, Fallback(f)
        PROVE  GoodAny(Scor!FromEstimate(k, est, f), k.demo) /\ GoodAny(Scor!FromInverted(k, est, f), k.demo)
    BY <1>0, <2>1, EstimateStands, StandsIsGood
  <2> QED
    BY <1>1, <1>2, <1>3, <2>1
<1>5. GoodOne(cs["demand_evidence"], k.demo, "OBSERVED")
  BY <1>1, DemandIsGood
<1>6. /\ GoodAny(cs["demand_evidence"], k.demo) /\ GoodAny(cs["pain_intensity"], k.demo)
      /\ GoodAny(cs["willingness_to_pay"], k.demo) /\ GoodAny(cs["competition"], k.demo)
      /\ GoodAny(cs["time_to_revenue"], k.demo)
  BY <1>1, DemandIsGood, PainIsGood, WillingnessIsGood, CompetitionIsGood, TimeIsGood DEF GoodAny
<1>7. ASSUME NEW cri \in Scor!Keys PROVE GoodAny(cs[cri], k.demo)
  BY <1>4, <1>6, KeysOf
<1>8. ASSUME NEW cri \in Scor!Keys
      PROVE  /\ cs[cri].value \in Shares /\ cs[cri].low \in Shares /\ cs[cri].high \in Shares
             /\ cs[cri].low <= cs[cri].value /\ cs[cri].value <= cs[cri].high
             /\ cs[cri].kind \in Scor!Kinds
             /\ k.demo => cs[cri].kind = "DEMO"
  <2>1. PICK kind : GoodOne(cs[cri], k.demo, kind)
    BY <1>7 DEF GoodAny
  <2> QED
    BY <2>1 DEF GoodOne
<1>9. ~k.demo => cs["demand_evidence"].kind # "DEMO"
  BY <1>5 DEF GoodOne
<1>10. GoodCriteria(cs, k.demo)
  BY <1>8, <1>9 DEF GoodCriteria
<1> QED
  BY <1>10 DEF cs

LEMMA ComputedSuffices ==
  ASSUME ComputedInv
  PROVE  Scor!CriteriaTypeOK /\ Scor!ScoreIsInRange
<1>1. known.demo \in BOOLEAN
  BY DEF ComputedInv, Knowledge
<1>2. GoodCriteria(criteria, known.demo)
  BY BuiltIsGood DEF ComputedInv
<1> QED
  BY <1>1, <1>2, ScoreStaysInRange

LEMMA ComputedStart == ServicesInit => ComputedInv
<1> SUFFICES ASSUME ServicesInit PROVE ComputedInv
  OBVIOUS
<1>1. Scor!CriteriaInit
  BY DEF ServicesInit
<1>2. known \in Knowledge
  <2>1. "unknown" \in DOMAIN Scor!CompetitionOf
    BY DEF Scor!CompetitionOf
  <2>2. Scor!None \in MaybeEstimate
    BY DEF MaybeEstimate
  <2> QED
    BY <1>1, <2>1, <2>2 DEF Scor!CriteriaInit, Knowledge
<1>3. criteria = Scor!BuildCriteria(known, Scor!None, Scor!None) /\ Guess(Scor!None)
  BY <1>1 DEF Scor!CriteriaInit, Guess
<1> QED
  BY <1>2, <1>3 DEF ComputedInv

\* What WorseNeverScoresHigher says of a step.
NoHigher ==
  /\ \E field \in {"complexity", "risk"} :
       /\ known[field] # Scor!None /\ Scor!ValueOf(known'[field]) > Scor!ValueOf(known[field])
       /\ known' = [known EXCEPT ![field] = known'[field]]
  => Scor!Score(criteria') <= Scor!Score(criteria)

LEMMA SharesGrow ==
  ASSUME NEW x \in Int, NEW y \in Int, x <= y
  PROVE  Scor!Share(x) <= Scor!Share(y)
BY SharesOf

\* The worse an estimate in which much is bad, the less its criterion is worth.
LEMMA WorseIsWorthLess ==
  ASSUME NEW k, NEW l, l.demo = k.demo, NEW f,
         NEW old \in MaybeEstimate, NEW new \in MaybeEstimate,
         old # Scor!None, Scor!ValueOf(new) > Scor!ValueOf(old)
  PROVE  Scor!FromInverted(l, new, f).value <= Scor!FromInverted(k, old, f).value
<1>1. \A est \in MaybeEstimate : est # Scor!None => est.value \in Nat
  <2>1. ASSUME NEW v \in Levels PROVE v \in Nat
    BY CriteriaAssumption
  <2> QED
    BY <2>1 DEF MaybeEstimate, Scor!Estimate
<1>2. new # Scor!None /\ old.value \in Nat /\ new.value \in Nat /\ old.value <= new.value
  <2>1. old.value \in Nat
    BY <1>1
  <2>2. new # Scor!None
    BY <2>1 DEF Scor!ValueOf
  <2> QED
    BY <1>1, <2>1, <2>2 DEF Scor!ValueOf
<1> DEFINE o == 100 - Scor!Share(old.value)
           n == 100 - Scor!Share(new.value)
<1>3. o \in Int /\ n \in Int /\ n <= o
  <2>1. Scor!Share(old.value) \in Int /\ Scor!Share(new.value) \in Int
    BY <1>2, SharesAreInt
  <2>2. Scor!Share(old.value) <= Scor!Share(new.value)
    BY <1>2, SharesGrow
  <2> QED
    BY <2>1, <2>2
<1>4. /\ Scor!FromInverted(l, new, f).value = Scor!Share(n)
      /\ Scor!FromInverted(k, old, f).value = Scor!Share(o)
  BY <1>2 DEF Scor!FromInverted, Scor!Crit
<1> HIDE DEF o, n
<1> QED
  BY <1>3, <1>4, SharesGrow

\* What the criteria other than the one of the field are made of is the same.
SameBut(l, k, field, est) ==
  /\ l.demo = k.demo
  /\ Scor!Demand(l) = Scor!Demand(k) /\ Scor!Pain(l) = Scor!Pain(k)
  /\ Scor!WillingnessToPay(l) = Scor!WillingnessToPay(k)
  /\ Scor!Competition(l) = Scor!Competition(k)
  /\ Scor!TimeToRevenue(l) = Scor!TimeToRevenue(k)
  /\ \A e, f : /\ Scor!FromEstimate(l, e, f) = Scor!FromEstimate(k, e, f)
               /\ Scor!FromInverted(l, e, f) = Scor!FromInverted(k, e, f)
  /\ l.market = k.market
  /\ field = "complexity" => l.risk = k.risk /\ l.complexity = est
  /\ field = "risk" => l.complexity = k.complexity /\ l.risk = est

LEMMA WorseChangesOne ==
  ASSUME NEW k \in Knowledge, NEW l, NEW field \in {"complexity", "risk"}, NEW est,
         l = [k EXCEPT ![field] = est]
  PROVE  SameBut(l, k, field, est)
<1>1. /\ l.demo = k.demo /\ l.b2b = k.b2b /\ l.documents = k.documents /\ l.reach = k.reach
      /\ l.sources = k.sources /\ l.recency = k.recency /\ l.pain = k.pain
      /\ l.mentions = k.mentions /\ l.price = k.price /\ l.market = k.market
      /\ l.competition = k.competition /\ l.weeks = k.weeks
      /\ field = "complexity" => l.risk = k.risk /\ l.complexity = est
      /\ field = "risk" => l.complexity = k.complexity /\ l.risk = est
  BY DEF Knowledge
<1>2. \A v, low, high, kind : Scor!Crit(l, v, low, high, kind) = Scor!Crit(k, v, low, high, kind)
  BY <1>1 DEF Scor!Crit
<1>3. \A v, b, a, kind : Scor!Around(l, v, b, a, kind) = Scor!Around(k, v, b, a, kind)
  BY <1>2 DEF Scor!Around
<1>4. Scor!Demand(l) = Scor!Demand(k)
  <2> DEFINE V(x) == (35 * x.reach + 25 * x.sources + 30 * x.reach + 10 * x.recency) \div 100
             S(x) == CASE x.documents < 3 -> 25
                       [] x.documents >= 3 /\ x.documents < 10 -> 15 [] OTHER -> 8
  <2>1. V(l) = V(k)
    BY <1>1, Zenon
  <2>2. S(l) = S(k)
    BY <1>1, Zenon
  <2>3. \A x : Scor!Demand(x) = Scor!Around(x, V(x), S(x), S(x), "OBSERVED")
    BY DEF Scor!Demand
  <2> HIDE DEF V, S
  <2>4. Scor!Demand(l) = Scor!Around(l, V(k), S(k), S(k), "OBSERVED")
    BY <2>1, <2>2, <2>3
  <2>5. Scor!Demand(k) = Scor!Around(k, V(k), S(k), S(k), "OBSERVED")
    BY <2>3
  <2>6. Scor!Around(l, V(k), S(k), S(k), "OBSERVED") = Scor!Around(k, V(k), S(k), S(k), "OBSERVED")
    BY <1>3, Zenon
  <2> QED
    BY <2>4, <2>5, <2>6
<1>5. Scor!Pain(l) = Scor!Pain(k)
  <2> DEFINE S(x) == IF x.documents < 5 THEN 25 ELSE 12
  <2>1. S(l) = S(k)
    BY <1>1, Zenon
  <2>2. \A x : Scor!Pain(x) = Scor!Around(x, x.pain, S(x), S(x), "ESTIMATED")
    BY DEF Scor!Pain
  <2> HIDE DEF S
  <2>3. Scor!Pain(l) = Scor!Around(l, k.pain, S(k), S(k), "ESTIMATED")
    BY <1>1, <2>1, <2>2
  <2>4. Scor!Pain(k) = Scor!Around(k, k.pain, S(k), S(k), "ESTIMATED")
    BY <2>2
  <2>5. Scor!Around(l, k.pain, S(k), S(k), "ESTIMATED") = Scor!Around(k, k.pain, S(k), S(k), "ESTIMATED")
    BY <1>3, Zenon
  <2> QED
    BY <2>3, <2>4, <2>5
<1>6. Scor!WillingnessToPay(l) = Scor!WillingnessToPay(k)
  <2> DEFINE RatioOf(n, m) == IF n > 0 THEN (100 * m) \div n ELSE 0
             PriceOf(p) == IF p = Scor!None THEN 10 ELSE (Scor!Share(p.value) * 30) \div 100
             R(x) == RatioOf(x.documents, x.mentions)
             P(x) == PriceOf(x.price)
             V(x) == Scor!Share(20 + (3 * R(x)) \div 2 + (IF x.b2b THEN 15 ELSE 0) + P(x))
  <2>0. \A x : Scor!WillingnessToPay(x) = Scor!Around(x, V(x), 25, 20, "ESTIMATED")
    BY DEF Scor!WillingnessToPay
  <2> HIDE DEF RatioOf, PriceOf
  <2>1. R(l) = R(k) /\ P(l) = P(k)
    BY <1>1
  <2> HIDE DEF R, P
  <2>2. V(l) = V(k)
    BY <1>1, <2>1, Zenon
  <2> HIDE DEF V
  <2>4. Scor!WillingnessToPay(l) = Scor!Around(l, V(k), 25, 20, "ESTIMATED")
    BY <2>0, <2>2
  <2>5. Scor!Around(l, V(k), 25, 20, "ESTIMATED") = Scor!Around(k, V(k), 25, 20, "ESTIMATED")
    BY <1>3, Zenon
  <2> QED
    BY <2>0, <2>4, <2>5
<1>7. Scor!Competition(l) = Scor!Competition(k)
  <2> DEFINE C(x) == Scor!CompetitionOf[x.competition]
             K(x) == IF x.competition = "unknown" THEN "MODEL_ASSUMPTION" ELSE "OBSERVED"
  <2>1. C(l) = C(k) /\ K(l) = K(k)
    BY <1>1, Zenon
  <2>2. \A x : Scor!Competition(x) = Scor!Crit(x, C(x)[1], C(x)[2], C(x)[3], K(x))
    BY DEF Scor!Competition
  <2> HIDE DEF C, K
  <2>3. Scor!Competition(l) = Scor!Crit(l, C(k)[1], C(k)[2], C(k)[3], K(k))
    BY <2>1, <2>2
  <2>4. Scor!Competition(k) = Scor!Crit(k, C(k)[1], C(k)[2], C(k)[3], K(k))
    BY <2>2
  <2>5. Scor!Crit(l, C(k)[1], C(k)[2], C(k)[3], K(k)) = Scor!Crit(k, C(k)[1], C(k)[2], C(k)[3], K(k))
    BY <1>2, Zenon
  <2> QED
    BY <2>3, <2>4, <2>5
<1>8. Scor!TimeToRevenue(l) = Scor!TimeToRevenue(k)
  <2> DEFINE W(weeks) == Scor!Share(100 - 4 * (weeks - 1))
             T(x, w) == IF w = 0 THEN Scor!Crit(x, 50, 25, 75, "MODEL_ASSUMPTION")
                        ELSE Scor!Crit(x, W(w), W((3 * w) \div 2), W((7 * w) \div 10), "ESTIMATED")
  <2>1. \A x : Scor!TimeToRevenue(x) = T(x, x.weeks)
    BY DEF Scor!TimeToRevenue
  <2> HIDE DEF W
  <2>2. ASSUME NEW w PROVE T(l, w) = T(k, w)
    <3>1. CASE w = 0
      BY <1>2, <3>1
    <3>2. CASE w # 0
      BY <1>2, <3>2, Zenon
    <3> QED
      BY <3>1, <3>2
  <2> HIDE DEF T
  <2>3. T(l, l.weeks) = T(k, k.weeks)
    BY <1>1, <2>2, Zenon
  <2> QED
    BY <2>1, <2>3
<1>9. \A x, f : /\ Scor!FromEstimate(l, x, f) = Scor!FromEstimate(k, x, f)
                /\ Scor!FromInverted(l, x, f) = Scor!FromInverted(k, x, f)
  <2> TAKE x, f
  <2>1. CASE x = Scor!None
    <3>1. Scor!Crit(l, f[1], f[2], f[3], "MODEL_ASSUMPTION") = Scor!Crit(k, f[1], f[2], f[3], "MODEL_ASSUMPTION")
      BY <1>2, Zenon
    <3> QED
      BY <2>1, <3>1 DEF Scor!FromEstimate, Scor!FromInverted
  <2>2. CASE x # Scor!None
    <3> DEFINE U(v) == 100 - Scor!Share(v)
    <3>1. Scor!Crit(l, x.value, x.low, x.high, x.kind) = Scor!Crit(k, x.value, x.low, x.high, x.kind)
      BY <1>2, Zenon
    <3>2. Scor!Crit(l, U(x.value), U(x.high), U(x.low), x.kind) = Scor!Crit(k, U(x.value), U(x.high), U(x.low), x.kind)
      BY <1>2, Zenon
    <3> QED
      BY <2>2, <3>1, <3>2 DEF Scor!FromEstimate, Scor!FromInverted
  <2> QED
    BY <2>1, <2>2
<1> QED
  BY <1>1, <1>4, <1>5, <1>6, <1>7, <1>8, <1>9 DEF SameBut

LEMMA LessIsNoHigher ==
  ASSUME NEW cs, NEW ds, NEW demo \in BOOLEAN, GoodCriteria(cs, demo), GoodCriteria(ds, demo),
         \A cri \in Scor!Keys : ds[cri].value <= cs[cri].value
  PROVE  Scor!Score(ds) <= Scor!Score(cs)
<1>1. Values(cs) \in [Scor!Keys -> Int] /\ Values(ds) \in [Scor!Keys -> Int]
  BY WeightedValues
<1>2. ASSUME NEW cri \in Scor!Keys PROVE Values(ds)[cri] <= Values(cs)[cri]
  <2>1. \A w \in 1..100, x, y \in Nat : x <= y => w * x <= w * y
    OBVIOUS
  <2>2. Scor!DefaultWeights[cri] \in 1..100
    BY KeysOf
  <2>3. ds[cri].value \in Nat /\ cs[cri].value \in Nat
    BY DEF GoodCriteria, Shares
  <2> QED
    BY <2>1, <2>2, <2>3 DEF Values
<1>3. PICK g : Adds(Values(ds), g) /\ Scor!Score(ds) = g[Scor!Keys]
  BY <1>1, FoldOfValues
<1>4. PICK h : Adds(Values(cs), h) /\ Scor!Score(cs) = h[Scor!Keys]
  BY <1>1, FoldOfValues
<1> QED
  BY <1>1, <1>2, <1>3, <1>4, AddsLeq

\* What a step may learn without a scan.
LEMMA ComputedLearned ==
  ASSUME CriteriaInv, ComputedInv, NEW new \in Knowledge, new.demo = known.demo,
         Scor!Learns(new)
  PROVE  ComputedInv' /\ NoHigher
<1>1. /\ known' = new
      /\ criteria' = Scor!BuildCriteria(new, EaseAfter(Scor!None), FitAfter(Scor!None))
  BY DEF Scor!Learns, Scor!Rescores, EaseAfter, FitAfter
<1> DEFINE d == EaseAfter(Scor!None)
           f == FitAfter(Scor!None)
<1>2. known.demo \in BOOLEAN
  BY DEF CriteriaInv
<1>3. /\ Guess(d) /\ Guess(f)
      /\ Scor!FromInverted(new, d, OfEase) = criteria.distribution_ease
      /\ Scor!FromEstimate(new, f, OfFit) = criteria.strategic_fit
  <2>1. d = Scor!CarriedInverted(criteria.distribution_ease) /\ f = Scor!Carried(criteria.strategic_fit)
    BY DEF EaseAfter, FitAfter
  <2> HIDE DEF d, f
  <2> QED
    BY <1>2, <2>1, CarriedStands, Fallbacks DEF CriteriaInv
<1> HIDE DEF d, f
<1>4. ComputedInv'
  <2>1. known' \in Knowledge
    BY <1>1
  <2>2. criteria' = Scor!BuildCriteria(known', d, f)
    BY <1>1 DEF d, f
  <2> QED
    BY <1>3, <2>1, <2>2 DEF ComputedInv
<1>5. ASSUME NEW field \in {"complexity", "risk"},
             known[field] # Scor!None, Scor!ValueOf(known'[field]) > Scor!ValueOf(known[field]),
             known' = [known EXCEPT ![field] = known'[field]]
      PROVE  Scor!Score(criteria') <= Scor!Score(criteria)
  <2>0. known \in Knowledge
    BY DEF ComputedInv
  <2>1. PICK e, g : Guess(e) /\ Guess(g) /\ criteria = Scor!BuildCriteria(known, e, g)
    BY DEF ComputedInv
  <2>2. GoodCriteria(criteria, known.demo) /\ GoodCriteria(criteria', known.demo)
    <3>1. GoodCriteria(criteria, known.demo)
      BY <2>0, <2>1, BuiltIsGood
    <3>2. GoodCriteria(criteria', new.demo)
      BY <1>1, <1>3, BuiltIsGood DEF d, f
    <3> QED
      BY <3>1, <3>2
  <2> DEFINE Of(k, x, y, cri) == Scor!BuildCriteria(k, x, y)[cri]
  <2>3. \A k, x, y :
          /\ Of(k, x, y, "demand_evidence") = Scor!Demand(k)
          /\ Of(k, x, y, "pain_intensity") = Scor!Pain(k)
          /\ Of(k, x, y, "willingness_to_pay") = Scor!WillingnessToPay(k)
          /\ Of(k, x, y, "market_size") = Scor!FromEstimate(k, k.market, <<40, 10, 80>>)
          /\ Of(k, x, y, "competition") = Scor!Competition(k)
          /\ Of(k, x, y, "technical_feasibility") = Scor!FromInverted(k, k.complexity, <<50, 25, 75>>)
          /\ Of(k, x, y, "regulatory_safety") = Scor!FromInverted(k, k.risk, <<60, 30, 90>>)
          /\ Of(k, x, y, "time_to_revenue") = Scor!TimeToRevenue(k)
          /\ Of(k, x, y, "distribution_ease") = Scor!FromInverted(k, x, OfEase)
          /\ Of(k, x, y, "strategic_fit") = Scor!FromEstimate(k, y, OfFit)
    BY DEF Scor!BuildCriteria, OfEase, OfFit
  <2>4. \A cri \in Scor!Keys : criteria[cri] = Of(known, e, g, cri) /\ criteria'[cri] = Of(new, d, f, cri)
    BY <1>1, <2>1 DEF d, f
  <2> HIDE DEF Of
  <2>5. /\ criteria'["distribution_ease"] = criteria["distribution_ease"]
        /\ criteria'["strategic_fit"] = criteria["strategic_fit"]
    <3>1. /\ criteria'["distribution_ease"] = Scor!FromInverted(new, d, OfEase)
          /\ criteria'["strategic_fit"] = Scor!FromEstimate(new, f, OfFit)
      BY <2>3, <2>4, KeysOf
    <3> QED
      BY <1>3, <3>1
  <2> DEFINE est == known'[field]
  <2>6. new = [known EXCEPT ![field] = est]
    BY <1>1, <1>5
  <2>7. known[field] \in MaybeEstimate /\ est \in MaybeEstimate
    BY <1>1, <2>0, <2>6 DEF Knowledge
  <2> HIDE DEF est
  <2>80. SameBut(new, known, field, est)
    BY <2>0, <2>6, WorseChangesOne
  <2>8. /\ new.demo = known.demo
        /\ Scor!Demand(new) = Scor!Demand(known) /\ Scor!Pain(new) = Scor!Pain(known)
        /\ Scor!WillingnessToPay(new) = Scor!WillingnessToPay(known)
        /\ Scor!Competition(new) = Scor!Competition(known)
        /\ Scor!TimeToRevenue(new) = Scor!TimeToRevenue(known)
        /\ \A x, y : /\ Scor!FromEstimate(new, x, y) = Scor!FromEstimate(known, x, y)
                     /\ Scor!FromInverted(new, x, y) = Scor!FromInverted(known, x, y)
        /\ new.market = known.market
        /\ field = "complexity" => new.risk = known.risk /\ new.complexity = est
        /\ field = "risk" => new.complexity = known.complexity /\ new.risk = est
    BY <2>80 DEF SameBut
  <2>9. ASSUME NEW y
        PROVE  Scor!FromInverted(new, est, y).value <= Scor!FromInverted(known, known[field], y).value
    <3>1. Scor!ValueOf(est) > Scor!ValueOf(known[field]) /\ known[field] # Scor!None
      BY <1>5 DEF est
    <3> QED
      BY <2>7, <2>8, <3>1, WorseIsWorthLess
  <2>10. \A cri \in Scor!Keys : criteria[cri].value \in Int
    BY <2>2 DEF GoodCriteria, Shares
  <2>11. ASSUME NEW cri \in Scor!Keys PROVE criteria'[cri].value <= criteria[cri].value
    <3>1. CASE cri \in {"demand_evidence", "pain_intensity", "willingness_to_pay", "market_size",
                        "competition", "time_to_revenue"}
      <4>1. criteria'[cri] = criteria[cri]
        BY <2>3, <2>4, <2>8, <3>1
      <4> QED
        BY <2>10, <4>1
    <3>2. CASE cri \in {"distribution_ease", "strategic_fit"}
      BY <2>5, <2>10, <3>2
    <3>3. CASE cri = "technical_feasibility"
      <4>1. /\ criteria[cri] = Scor!FromInverted(known, known.complexity, <<50, 25, 75>>)
            /\ criteria'[cri] = Scor!FromInverted(new, new.complexity, <<50, 25, 75>>)
        BY <2>3, <2>4, <3>3
      <4>2. CASE field = "complexity"
        BY <2>8, <2>9, <4>1, <4>2
      <4>3. CASE field = "risk"
        <5>1. criteria'[cri] = criteria[cri]
          BY <2>8, <4>1, <4>3
        <5> QED
          BY <2>10, <5>1
      <4> QED
        BY <4>2, <4>3
    <3>4. CASE cri = "regulatory_safety"
      <4>1. /\ criteria[cri] = Scor!FromInverted(known, known.risk, <<60, 30, 90>>)
            /\ criteria'[cri] = Scor!FromInverted(new, new.risk, <<60, 30, 90>>)
        BY <2>3, <2>4, <3>4
      <4>2. CASE field = "risk"
        BY <2>8, <2>9, <4>1, <4>2
      <4>3. CASE field = "complexity"
        <5>1. criteria'[cri] = criteria[cri]
          BY <2>8, <4>1, <4>3
        <5> QED
          BY <2>10, <5>1
      <4> QED
        BY <4>2, <4>3
    <3> QED
      BY <3>1, <3>2, <3>3, <3>4, KeysOf
  <2> QED
    BY <1>2, <2>2, <2>11, LessIsNoHigher
<1> QED
  BY <1>4, <1>5 DEF NoHigher

LEMMA ComputedStay ==
  CriteriaInv /\ ComputedInv /\ [Scor!CriteriaNext]_(Scor!criteriaVars) =>
    ComputedInv' /\ [NoHigher]_(Scor!criteriaVars)
<1> SUFFICES ASSUME CriteriaInv, ComputedInv, [Scor!CriteriaNext]_(Scor!criteriaVars)
             PROVE  ComputedInv' /\ [NoHigher]_(Scor!criteriaVars)
  OBVIOUS
<1>0. known \in Knowledge
  BY DEF ComputedInv
<1>1. CASE Scor!FindEvidence
  <2>1. PICK n \in Documents, share \in Levels, est \in Scor!Estimate :
          /\ n > known.documents
          /\ \E mentions \in {0, n \div 2, n}, fit \in {Scor!None, est} :
               Scor!Rescores([known EXCEPT !.documents = n, !.reach = share, !.sources = share,
                     !.recency = share, !.pain = share, !.mentions = mentions], est, fit)
    BY <1>1, Zenon DEF Scor!FindEvidence
  <2>2. PICK mentions \in {0, n \div 2, n}, fit \in {Scor!None, est} :
          Scor!Rescores([known EXCEPT !.documents = n, !.reach = share, !.sources = share,
                     !.recency = share, !.pain = share, !.mentions = mentions], est, fit)
    BY <2>1
  <2> DEFINE new == [known EXCEPT !.documents = n, !.reach = share, !.sources = share,
                       !.recency = share, !.pain = share, !.mentions = mentions]
  <2>3. n \in Nat /\ share \in Nat /\ mentions \in Nat
    <3>1. n \in Nat /\ share \in Nat
      BY CriteriaAssumption
    <3> QED
      BY <2>2, <3>1
  <2>4. new \in Knowledge /\ new.documents = n /\ new.demo = known.demo
    BY <1>0, <2>3 DEF Knowledge
  <2>5. Guess(est) /\ Guess(fit)
    BY Estimates, <2>2 DEF Guess
  <2>6. Scor!Rescores(new, est, fit)
    BY <2>2
  <2> HIDE DEF new
  <2>7. known' = new /\ criteria' = Scor!BuildCriteria(new, EaseAfter(est), FitAfter(fit))
    BY <2>6 DEF Scor!Rescores, EaseAfter, FitAfter
  <2>8. Guess(EaseAfter(est)) /\ Guess(FitAfter(fit))
    <3>1. /\ Guess(Scor!CarriedInverted(criteria.distribution_ease))
          /\ Guess(Scor!Carried(criteria.strategic_fit))
      BY CarriedStands, Fallbacks DEF CriteriaInv
    <3> QED
      BY <2>5, <3>1 DEF EaseAfter, FitAfter
  <2>9. ComputedInv'
    BY <2>4, <2>7, <2>8 DEF ComputedInv
  <2>10. NoHigher
    <3>1. known'.documents > known.documents /\ known.documents \in Nat
      BY <1>0, <2>1, <2>4, <2>7 DEF Knowledge
    <3>2. ASSUME NEW field \in {"complexity", "risk"},
                 known' = [known EXCEPT ![field] = known'[field]]
          PROVE  FALSE
      <4>1. known'.documents = known.documents
        BY <1>0, <3>2 DEF Knowledge
      <4> QED
        BY <3>1, <4>1
    <3>3. (\E field \in {"complexity", "risk"} : known' = [known EXCEPT ![field] = known'[field]]) => FALSE
      BY <3>2
    <3> QED
      BY <3>3 DEF NoHigher
  <2> QED
    BY <2>9, <2>10
<1>2. CASE Scor!Analyze
  <2>1. PICK est \in Scor!Estimate, weeks \in Weeks, level \in Competitions :
          Scor!Learns([known EXCEPT !.market = est, !.price = est, !.complexity = est,
                         !.weeks = weeks, !.competition = level])
    BY <1>2 DEF Scor!Analyze
  <2> DEFINE new == [known EXCEPT !.market = est, !.price = est, !.complexity = est,
                         !.weeks = weeks, !.competition = level]
  <2>2. est \in MaybeEstimate /\ weeks \in Nat /\ level \in DOMAIN Scor!CompetitionOf
    BY CriteriaAssumption DEF MaybeEstimate
  <2>3. new \in Knowledge /\ new.demo = known.demo
    BY <1>0, <2>2 DEF Knowledge
  <2> HIDE DEF new
  <2> QED
    BY <2>1, <2>3, ComputedLearned DEF new
<1>3. CASE Scor!Update
  <2>1. PICK est \in Scor!Estimate :
          \/ Scor!Learns([known EXCEPT !.risk = est])
          \/ Scor!Learns([known EXCEPT !.complexity = est])
    BY <1>3 DEF Scor!Update
  <2>2. /\ [known EXCEPT !.risk = est] \in Knowledge /\ [known EXCEPT !.risk = est].demo = known.demo
        /\ [known EXCEPT !.complexity = est] \in Knowledge
        /\ [known EXCEPT !.complexity = est].demo = known.demo
    BY <1>0 DEF Knowledge, MaybeEstimate
  <2> QED
    BY <2>1, <2>2, ComputedLearned
<1>4. CASE UNCHANGED Scor!criteriaVars
  BY <1>4 DEF ComputedInv, Scor!criteriaVars
<1> QED
  BY <1>1, <1>2, <1>3, <1>4 DEF Scor!CriteriaNext

-----------------------------------------------------------------------------
(***************************************************************************)
(* The rules of a source.  Every line of the file belongs to a group, or to *)
(* none before the first; an agent and a rule belong to the same one exactly *)
(* if the agent is in the run of them nearest above the rule.              *)
(***************************************************************************)

Group == [agents : SUBSET Conn!Agents, allow : SUBSET Conn!Patterns,
          disallow : SUBSET Conn!Patterns]

IsAgent(f, i) == f[i].kind = "user-agent"

\* The agent of line i is in the run of them that is nearest above line j.
NearestAbove(f, i, j) ==
  \A k \in i..j-1 : IsAgent(f, k) \/ \A m \in k..j-1 : ~IsAgent(f, m)

\* What the lines of group n say of one kind.
Said(f, g, n, kind) == {f[i].value : i \in {k \in 1..Len(f) : g[k] = n /\ f[k].kind = kind}}

\* g tells the group that a line of the file f belongs to, 0 is none.
Grouped(f, gs, g) ==
  /\ g \in [1..Len(f) -> 0..Len(gs)]
  /\ \A i \in 1..Len(f) : IsAgent(f, i) =>
       g[i] # 0 /\ (g[i] = Len(gs) <=> NearestAbove(f, i, Len(f) + 1))
  /\ \A i, j \in 1..Len(f) : IsAgent(f, i) /\ ~IsAgent(f, j) =>
       IF i < j THEN g[i] = g[j] <=> NearestAbove(f, i, j) ELSE g[i] # g[j]
  /\ \A n \in 1..Len(gs) : /\ gs[n].agents = Said(f, g, n, "user-agent")
                           /\ gs[n].allow = Said(f, g, n, "allow")
                           /\ gs[n].disallow = Said(f, g, n, "disallow")

RobotsInv ==
  /\ file \in Seq(Conn!Line) /\ groups \in Seq(Group) /\ lastWasAgent \in BOOLEAN
  /\ lastWasAgent <=> file # <<>> /\ IsAgent(file, Len(file))
  /\ \E g : Grouped(file, groups, g)

LEMMA RobotsStart == ServicesInit => RobotsInv
<1> SUFFICES ASSUME ServicesInit PROVE RobotsInv
  OBVIOUS
<1>1. file = <<>> /\ groups = <<>> /\ lastWasAgent = FALSE
  BY DEF ServicesInit, Conn!RobotsInit
<1>2. Grouped(<<>>, <<>>, [i \in 1..0 |-> 0])
  BY DEF Grouped
<1>3. Grouped(file, groups, [i \in 1..0 |-> 0])
  BY <1>1, <1>2
<1>4. <<>> \in Seq(Conn!Line) /\ <<>> \in Seq(Group)
  OBVIOUS
<1> QED
  BY <1>1, <1>3, <1>4 DEF RobotsInv

LEMMA OneMore ==
  ASSUME NEW f \in Seq(Conn!Line), NEW line \in Conn!Line
  PROVE  /\ Append(f, line) \in Seq(Conn!Line)
         /\ Len(Append(f, line)) = Len(f) + 1 /\ Len(f) \in Nat
         /\ \A k \in 1..Len(f) : Append(f, line)[k] = f[k]
         /\ Append(f, line)[Len(f) + 1] = line
OBVIOUS

LEMMA NearestNext ==
  ASSUME NEW f \in Seq(Conn!Line), NEW line \in Conn!Line, NEW i \in 1..Len(f)
  PROVE  /\ \A j \in 1..Len(f) + 1 :
              NearestAbove(Append(f, line), i, j) <=> NearestAbove(f, i, j)
         /\ line.kind # "user-agent" =>
              (NearestAbove(Append(f, line), i, Len(f) + 2) <=> NearestAbove(f, i, Len(f) + 1))
         /\ line.kind = "user-agent" =>
              (NearestAbove(Append(f, line), i, Len(f) + 2) <=> \A k \in i..Len(f) : IsAgent(f, k))
<1> DEFINE f2 == Append(f, line)
           n == Len(f)
<1>1. n \in Nat /\ \A k \in 1..n : IsAgent(f2, k) <=> IsAgent(f, k)
  BY OneMore DEF IsAgent
<1>2. IsAgent(f2, n + 1) <=> line.kind = "user-agent"
  BY OneMore DEF IsAgent
<1> HIDE DEF f2, n
<1>3. i \in 1..n
  BY DEF n
<1>4. ASSUME NEW j \in 1..n + 1 PROVE NearestAbove(f2, i, j) <=> NearestAbove(f, i, j)
  <2>1. \A k \in i..j - 1 : k \in 1..n
    BY <1>1, <1>3
  <2>2. \A k \in i..j - 1 : \A m \in k..j - 1 : m \in 1..n
    BY <1>1, <1>3
  <2> QED
    BY <1>1, <2>1, <2>2 DEF NearestAbove
<1>5. \A k \in i..n + 1 : k \in 1..n \/ k = n + 1
  BY <1>1, <1>3
<1>6. ASSUME line.kind # "user-agent"
      PROVE  NearestAbove(f2, i, n + 2) <=> NearestAbove(f, i, n + 1)
  <2>1. ASSUME NEW k \in i..n
        PROVE  (\A m \in k..n + 1 : ~IsAgent(f2, m)) <=> (\A m \in k..n : ~IsAgent(f, m))
    <3>1. k \in 1..n /\ \A m \in k..n + 1 : (m \in 1..n /\ m \in k..n) \/ m = n + 1
      BY <1>1, <1>3
    <3>2. \A m \in k..n : m \in k..n + 1 /\ m \in 1..n
      BY <1>1, <3>1
    <3> QED
      BY <1>1, <1>2, <1>6, <3>1, <3>2
  <2>2. \A m \in n + 1..n + 1 : ~IsAgent(f2, m)
    BY <1>1, <1>2, <1>6
  <2>3. (n + 2) - 1 = n + 1 /\ (n + 1) - 1 = n
    BY <1>1
  <2>4. NearestAbove(f2, i, n + 2) <=>
          \A k \in i..n + 1 : IsAgent(f2, k) \/ \A m \in k..n + 1 : ~IsAgent(f2, m)
    BY <2>3 DEF NearestAbove
  <2>5. NearestAbove(f, i, n + 1) <=>
          \A k \in i..n : IsAgent(f, k) \/ \A m \in k..n : ~IsAgent(f, m)
    BY <2>3 DEF NearestAbove
  <2>6. \A k \in i..n : k \in i..n + 1 /\ k \in 1..n
    BY <1>1, <1>3
  <2>7. \A k \in i..n + 1 : k \in i..n \/ k = n + 1
    BY <1>1, <1>3
  <2> QED
    BY <1>1, <2>1, <2>2, <2>4, <2>5, <2>6, <2>7
<1>7. ASSUME line.kind = "user-agent"
      PROVE  NearestAbove(f2, i, n + 2) <=> \A k \in i..n : IsAgent(f, k)
  <2>1. NearestAbove(f2, i, n + 2) <=>
          \A k \in i..n + 1 : IsAgent(f2, k) \/ \A m \in k..n + 1 : ~IsAgent(f2, m)
    <3>1. (n + 2) - 1 = n + 1
      BY <1>1
    <3> QED
      BY <3>1 DEF NearestAbove
  <2>2. \A k \in i..n + 1 : n + 1 \in k..n + 1
    BY <1>1, <1>3
  <2>3. \A k \in i..n + 1 : ~(\A m \in k..n + 1 : ~IsAgent(f2, m))
    BY <1>2, <1>7, <2>2
  <2>4. \A k \in i..n : k \in i..n + 1 /\ k \in 1..n
    BY <1>1, <1>3
  <2>5. \A k \in i..n + 1 : k \in i..n \/ k = n + 1
    BY <1>1, <1>3
  <2> QED
    BY <1>1, <1>2, <1>7, <2>1, <2>3, <2>4, <2>5
<1> QED
  BY <1>4, <1>6, <1>7 DEF f2, n

\* The group that a line is added to says what the line does, in addition.
LEMMA SaidNext ==
  ASSUME NEW f \in Seq(Conn!Line), NEW line \in Conn!Line, NEW g, NEW c,
         NEW h, h[Len(f) + 1] = c, \A k \in 1..Len(f) : h[k] = g[k],
         NEW n, NEW kind
  PROVE  Said(Append(f, line), h, n, kind) =
           IF n = c /\ line.kind = kind THEN Said(f, g, n, kind) \cup {line.value}
           ELSE Said(f, g, n, kind)
<1> DEFINE f2 == Append(f, line)
           N == Len(f)
           Now == {k \in 1..N + 1 : h[k] = n /\ f2[k].kind = kind}
           Was == {k \in 1..N : g[k] = n /\ f[k].kind = kind}
<1>1. N \in Nat /\ Len(f2) = N + 1 /\ f2[N + 1] = line /\ \A k \in 1..N : f2[k] = f[k]
  BY OneMore
<1>2. h[N + 1] = c /\ \A k \in 1..N : h[k] = g[k]
  OBVIOUS
<1>3. Said(f2, h, n, kind) = {f2[k].value : k \in Now} /\ Said(f, g, n, kind) = {f[k].value : k \in Was}
  BY <1>1 DEF Said
<1> HIDE DEF f2, N
<1>4. \A k \in 1..N + 1 : k \in 1..N \/ k = N + 1
  BY <1>1
<1>5. N + 1 \in 1..N + 1 /\ \A k \in 1..N : k \in 1..N + 1
  BY <1>1
<1>6. CASE n = c /\ line.kind = kind
  <2>1. Now = Was \cup {N + 1}
    BY <1>1, <1>2, <1>4, <1>5, <1>6
  <2>2. {f2[k].value : k \in Was \cup {N + 1}} = {f[k].value : k \in Was} \cup {line.value}
    <3>1. \A k \in Was : f2[k].value = f[k].value
      BY <1>1
    <3>2. f2[N + 1].value = line.value
      BY <1>1
    <3> HIDE DEF Was
    <3> QED
      BY <3>1, <3>2
  <2> HIDE DEF Now, Was
  <2> QED
    BY <1>3, <1>6, <2>1, <2>2 DEF f2
<1>7. CASE ~(n = c /\ line.kind = kind)
  <2>1. Now = Was
    BY <1>1, <1>2, <1>4, <1>5, <1>7
  <2>2. {f2[k].value : k \in Was} = {f[k].value : k \in Was}
    <3>1. \A k \in Was : f2[k].value = f[k].value
      BY <1>1
    <3> HIDE DEF Was
    <3> QED
      BY <3>1
  <2> HIDE DEF Now, Was
  <2> QED
    BY <1>3, <1>7, <2>1, <2>2 DEF f2
<1> QED
  BY <1>6, <1>7

\* A line that names no agent is of the last group, if there is one.
LEMMA RuleIsGrouped ==
  ASSUME NEW f \in Seq(Conn!Line), NEW gs \in Seq(Group), NEW g, Grouped(f, gs, g),
         NEW line \in Conn!Line, line.kind # "user-agent",
         NEW hs \in Seq(Group), Len(hs) = Len(gs),
         \A n \in 1..Len(gs) : n # Len(gs) => hs[n] = gs[n],
         Len(gs) > 0 =>
           /\ hs[Len(gs)].agents = gs[Len(gs)].agents
           /\ hs[Len(gs)].allow = gs[Len(gs)].allow \cup (IF line.kind = "allow" THEN {line.value} ELSE {})
           /\ hs[Len(gs)].disallow =
                gs[Len(gs)].disallow \cup (IF line.kind = "disallow" THEN {line.value} ELSE {})
  PROVE  \E h : Grouped(Append(f, line), hs, h)
<1> DEFINE f2 == Append(f, line)
           N == Len(f)
           G == Len(gs)
           h == [k \in 1..N + 1 |-> IF k = N + 1 THEN G ELSE g[k]]
<1>1. /\ N \in Nat /\ G \in Nat /\ Len(f2) = N + 1 /\ f2[N + 1] = line
      /\ \A k \in 1..N : f2[k] = f[k]
  BY OneMore
<1>2. h[N + 1] = G /\ \A k \in 1..N : h[k] = g[k]
  <2>1. N + 1 \in 1..N + 1 /\ \A k \in 1..N : k \in 1..N + 1 /\ k # N + 1
    BY <1>1
  <2> QED
    BY <2>1
<1>3. /\ \A k \in 1..N : IsAgent(f2, k) <=> IsAgent(f, k)
      /\ ~IsAgent(f2, N + 1)
      /\ \A k \in 1..N + 1 : k \in 1..N \/ k = N + 1
  BY <1>1 DEF IsAgent
<1>4. /\ g \in [1..N -> 0..G]
      /\ \A i \in 1..N : IsAgent(f, i) =>
           g[i] # 0 /\ (g[i] = G <=> NearestAbove(f, i, N + 1))
      /\ \A i, j \in 1..N : IsAgent(f, i) /\ ~IsAgent(f, j) =>
           IF i < j THEN g[i] = g[j] <=> NearestAbove(f, i, j) ELSE g[i] # g[j]
  BY DEF Grouped
<1>5. \A i \in 1..N : /\ \A j \in 1..N + 1 : NearestAbove(f2, i, j) <=> NearestAbove(f, i, j)
                      /\ NearestAbove(f2, i, N + 2) <=> NearestAbove(f, i, N + 1)
  BY NearestNext
<1>20. ASSUME NEW n, NEW kind
       PROVE  Said(f2, h, n, kind) = IF n = G /\ line.kind = kind
                                       THEN Said(f, g, n, kind) \cup {line.value}
                                       ELSE Said(f, g, n, kind)
  <2>1. h[Len(f) + 1] = G /\ \A k \in 1..Len(f) : h[k] = g[k]
    BY <1>2
  <2> HIDE DEF h, G
  <2> QED
    BY <2>1, SaidNext
<1>6. \A n \in 1..G : /\ hs[n].agents = Said(f2, h, n, "user-agent")
                      /\ hs[n].allow = Said(f2, h, n, "allow")
                      /\ hs[n].disallow = Said(f2, h, n, "disallow")
  <2> TAKE n \in 1..G
  <2>1. /\ gs[n].agents = Said(f, g, n, "user-agent") /\ gs[n].allow = Said(f, g, n, "allow")
        /\ gs[n].disallow = Said(f, g, n, "disallow")
    BY DEF Grouped
  <2>2. ASSUME NEW kind
        PROVE  Said(f2, h, n, kind) = IF n = G /\ line.kind = kind
                                        THEN Said(f, g, n, kind) \cup {line.value}
                                        ELSE Said(f, g, n, kind)
    BY <1>20
  <2> HIDE DEF h, f2
  <2>3. CASE n = G
    <3>1. /\ hs[n].agents = gs[n].agents
          /\ hs[n].allow = gs[n].allow \cup (IF line.kind = "allow" THEN {line.value} ELSE {})
          /\ hs[n].disallow = gs[n].disallow \cup (IF line.kind = "disallow" THEN {line.value} ELSE {})
      BY <1>1, <2>3
    <3>2. hs[n].agents = Said(f2, h, n, "user-agent")
      BY <2>1, <2>2, <3>1
    <3>3. hs[n].allow = Said(f2, h, n, "allow")
      <4>1. CASE line.kind = "allow"
        BY <2>1, <2>2, <2>3, <3>1, <4>1
      <4>2. CASE line.kind # "allow"
        BY <2>1, <2>2, <3>1, <4>2
      <4> QED
        BY <4>1, <4>2
    <3>4. hs[n].disallow = Said(f2, h, n, "disallow")
      <4>1. CASE line.kind = "disallow"
        BY <2>1, <2>2, <2>3, <3>1, <4>1
      <4>2. CASE line.kind # "disallow"
        BY <2>1, <2>2, <3>1, <4>2
      <4> QED
        BY <4>1, <4>2
    <3> QED
      BY <3>2, <3>3, <3>4
  <2>4. CASE n # G
    <3>1. hs[n] = gs[n]
      BY <2>4
    <3> QED
      BY <2>1, <2>2, <2>4, <3>1
  <2> QED
    BY <2>3, <2>4
<1> HIDE DEF f2, N, G
<1>7. h \in [1..N + 1 -> 0..G]
  BY <1>1, <1>4
<1> HIDE DEF h
<1>8. \A i \in 1..N + 1 : IsAgent(f2, i) => h[i] # 0 /\ (h[i] = G <=> NearestAbove(f2, i, N + 2))
  BY <1>2, <1>3, <1>4, <1>5
<1>9. ASSUME NEW i \in 1..N + 1, NEW j \in 1..N + 1, IsAgent(f2, i), ~IsAgent(f2, j)
      PROVE  IF i < j THEN h[i] = h[j] <=> NearestAbove(f2, i, j) ELSE h[i] # h[j]
  <2>1. i \in 1..N /\ i < N + 1
    BY <1>1, <1>3, <1>9
  <2>2. CASE j = N + 1
    <3>1. N + 1 \in 1..N + 1
      BY <1>1
    <3> QED
      BY <1>2, <1>3, <1>4, <1>5, <1>9, <2>1, <2>2, <3>1
  <2>3. CASE j \in 1..N
    BY <1>2, <1>3, <1>4, <1>5, <1>9, <2>1, <2>3
  <2> QED
    BY <1>3, <2>2, <2>3
<1>10. Len(f2) = N + 1 /\ (N + 1) + 1 = N + 2 /\ Len(hs) = G
  BY <1>1 DEF G
<1>11. Grouped(f2, hs, h)
  BY <1>6, <1>7, <1>8, <1>9, <1>10 DEF Grouped
<1> QED
  BY <1>11 DEF f2

\* A line that names an agent is of the last group, or of a new one.
LEMMA AgentIsGrouped ==
  ASSUME NEW f \in Seq(Conn!Line), NEW gs \in Seq(Group), NEW g, Grouped(f, gs, g),
         NEW line \in Conn!Line, line.kind = "user-agent",
         NEW hs \in Seq(Group), NEW c \in Nat,
         \/ /\ c = Len(gs) + 1 /\ Len(hs) = c
            /\ f # <<>> => ~IsAgent(f, Len(f))
            /\ hs[c].agents = {line.value} /\ hs[c].allow = {} /\ hs[c].disallow = {}
         \/ /\ c = Len(gs) /\ Len(hs) = c /\ c > 0
            /\ f # <<>> /\ IsAgent(f, Len(f))
            /\ hs[c].agents = gs[c].agents \cup {line.value}
            /\ hs[c].allow = gs[c].allow /\ hs[c].disallow = gs[c].disallow,
         \A n \in 1..Len(gs) : n # c => hs[n] = gs[n]
  PROVE  \E h : Grouped(Append(f, line), hs, h)
<1> DEFINE f2 == Append(f, line)
           N == Len(f)
           G == Len(gs)
           h == [k \in 1..N + 1 |-> IF k = N + 1 THEN c ELSE g[k]]
<1>1. /\ N \in Nat /\ G \in Nat /\ Len(f2) = N + 1 /\ f2[N + 1] = line
      /\ \A k \in 1..N : f2[k] = f[k]
  BY OneMore
<1>2. h[N + 1] = c /\ \A k \in 1..N : h[k] = g[k]
  <2>1. N + 1 \in 1..N + 1 /\ \A k \in 1..N : k \in 1..N + 1 /\ k # N + 1
    BY <1>1
  <2> QED
    BY <2>1
<1>3. /\ \A k \in 1..N : IsAgent(f2, k) <=> IsAgent(f, k)
      /\ IsAgent(f2, N + 1)
      /\ \A k \in 1..N + 1 : k \in 1..N \/ k = N + 1
  BY <1>1 DEF IsAgent
<1>4. /\ g \in [1..N -> 0..G]
      /\ \A i \in 1..N : IsAgent(f, i) =>
           g[i] # 0 /\ (g[i] = G <=> NearestAbove(f, i, N + 1))
      /\ \A i, j \in 1..N : IsAgent(f, i) /\ ~IsAgent(f, j) =>
           IF i < j THEN g[i] = g[j] <=> NearestAbove(f, i, j) ELSE g[i] # g[j]
  BY DEF Grouped
<1>5. \A i \in 1..N : /\ \A j \in 1..N + 1 : NearestAbove(f2, i, j) <=> NearestAbove(f, i, j)
                      /\ NearestAbove(f2, i, N + 2) <=> \A k \in i..N : IsAgent(f, k)
  BY NearestNext
<1>50. NearestAbove(f2, N + 1, N + 2)
  <2>1. \A k \in N + 1..(N + 2) - 1 : k = N + 1
    BY <1>1
  <2> QED
    BY <1>3, <2>1 DEF NearestAbove
<1>51. N > 0 => N \in 1..N
  BY <1>1
<1>52. f # <<>> <=> N > 0
  BY <1>1
\* The two cases, for the lines before.
<1>6. ASSUME NEW i \in 1..N, IsAgent(f, i)
      PROVE  g[i] = c <=> \A k \in i..N : IsAgent(f, k)
  <2>1. N \in i..N /\ N > 0
    BY <1>1
  <2>2. CASE c = G + 1 /\ (f # <<>> => ~IsAgent(f, N))
    <3>1. ~IsAgent(f, N)
      BY <1>52, <2>1, <2>2
    <3>2. g[i] # c
      BY <1>1, <1>4, <2>2
    <3> QED
      BY <2>1, <3>1, <3>2
  <2>3. CASE c = G /\ IsAgent(f, N)
    <3>1. NearestAbove(f, i, N + 1) <=>
            \A k \in i..N : IsAgent(f, k) \/ \A m \in k..N : ~IsAgent(f, m)
      <4>1. (N + 1) - 1 = N
        BY <1>1
      <4> QED
        BY <4>1 DEF NearestAbove
    <3>2. \A k \in i..N : N \in k..N
      BY <1>1
    <3>3. NearestAbove(f, i, N + 1) <=> \A k \in i..N : IsAgent(f, k)
      BY <2>3, <3>1, <3>2
    <3> QED
      BY <1>4, <1>6, <2>3, <3>3
  <2> QED
    BY <2>2, <2>3
<1>61. ASSUME NEW j \in 1..N, ~IsAgent(f, j) PROVE g[j] # c
  <2>2. CASE c = G + 1
    BY <1>1, <1>4, <2>2
  <2>3. CASE c = G /\ IsAgent(f, N)
    <3>1. N \in 1..N /\ ~(N < j)
      BY <1>1
    <3>2. NearestAbove(f, N, N + 1)
      <4>1. \A k \in N..(N + 1) - 1 : k = N
        BY <1>1
      <4> QED
        BY <2>3, <4>1 DEF NearestAbove
    <3>3. g[N] = G
      BY <1>4, <2>3, <3>1, <3>2
    <3>4. g[N] # g[j]
      BY <1>4, <1>61, <2>3, <3>1
    <3> QED
      BY <2>3, <3>3, <3>4
  <2> QED
    BY <2>2, <2>3
<1>62. c # 0 /\ Len(hs) = c
  BY <1>1
<1>7. \A n \in 1..c : /\ hs[n].agents = Said(f2, h, n, "user-agent")
                      /\ hs[n].allow = Said(f2, h, n, "allow")
                      /\ hs[n].disallow = Said(f2, h, n, "disallow")
  <2> TAKE n \in 1..c
  <2>1. n \in 1..G =>
          /\ gs[n].agents = Said(f, g, n, "user-agent") /\ gs[n].allow = Said(f, g, n, "allow")
          /\ gs[n].disallow = Said(f, g, n, "disallow")
    BY DEF Grouped
  <2>2. ASSUME NEW kind
        PROVE  Said(f2, h, n, kind) = IF n = c /\ line.kind = kind
                                        THEN Said(f, g, n, kind) \cup {line.value}
                                        ELSE Said(f, g, n, kind)
    <3>1. h[Len(f) + 1] = c /\ \A k \in 1..Len(f) : h[k] = g[k]
      BY <1>2
    <3> HIDE DEF h, N, G
    <3> QED
      BY <3>1, SaidNext
  <2>20. \A kind : n = G + 1 => Said(f, g, n, kind) = {}
    <3>1. \A k \in 1..N : g[k] \in 0..G
      BY <1>4
    <3>2. n = G + 1 => \A k \in 1..N : g[k] # n
      BY <1>1, <3>1
    <3> QED
      BY <3>2 DEF Said
  <2> HIDE DEF h, f2
  <2>3. CASE n = c /\ c = G + 1
    <3>1. hs[n].agents = {line.value} /\ hs[n].allow = {} /\ hs[n].disallow = {}
      BY <1>1, <2>3
    <3> QED
      BY <2>2, <2>20, <2>3, <3>1
  <2>4. CASE n = c /\ c = G
    <3>1. /\ hs[n].agents = gs[n].agents \cup {line.value}
          /\ hs[n].allow = gs[n].allow /\ hs[n].disallow = gs[n].disallow
      BY <1>1, <2>4
    <3>2. n \in 1..G
      BY <2>4
    <3>3. /\ Said(f2, h, n, "user-agent") = Said(f, g, n, "user-agent") \cup {line.value}
          /\ Said(f2, h, n, "allow") = Said(f, g, n, "allow")
          /\ Said(f2, h, n, "disallow") = Said(f, g, n, "disallow")
      BY <1>1, <2>2, <2>4
    <3> QED
      BY <2>1, <3>1, <3>2, <3>3, Zenon
  <2>5. CASE n # c
    <3>1. n \in 1..G
      BY <1>1, <2>5
    <3>2. hs[n] = gs[n]
      BY <2>5, <3>1
    <3> QED
      BY <2>1, <2>2, <2>5, <3>1, <3>2
  <2> QED
    BY <2>3, <2>4, <2>5
<1>70. G <= c
  BY <1>1
<1> HIDE DEF f2, N, G
<1>71. h \in [1..N + 1 -> 0..c]
  BY <1>1, <1>4, <1>70
<1> HIDE DEF h
<1>8. \A i \in 1..N + 1 : IsAgent(f2, i) => h[i] # 0 /\ (h[i] = c <=> NearestAbove(f2, i, N + 2))
  BY <1>2, <1>3, <1>4, <1>5, <1>50, <1>6, <1>62
<1>9. ASSUME NEW i \in 1..N + 1, NEW j \in 1..N + 1, IsAgent(f2, i), ~IsAgent(f2, j)
      PROVE  IF i < j THEN h[i] = h[j] <=> NearestAbove(f2, i, j) ELSE h[i] # h[j]
  <2>1. j \in 1..N /\ j < N + 1
    BY <1>1, <1>3, <1>9
  <2>2. CASE i = N + 1
    BY <1>1, <1>2, <1>3, <1>9, <1>61, <2>1, <2>2
  <2>3. CASE i \in 1..N
    BY <1>2, <1>3, <1>4, <1>5, <1>9, <2>1, <2>3
  <2> QED
    BY <1>3, <2>2, <2>3
<1>10. Len(f2) = N + 1 /\ (N + 1) + 1 = N + 2
  BY <1>1
<1>11. Grouped(f2, hs, h)
  BY <1>62, <1>7, <1>71, <1>8, <1>9, <1>10 DEF Grouped
<1> QED
  BY <1>11 DEF f2

LEMMA RobotsStay ==
  ASSUME RobotsInv, [Conn!RobotsNext]_(Conn!robotsVars)
  PROVE  RobotsInv'
<1>1. CASE UNCHANGED Conn!robotsVars
  BY <1>1 DEF RobotsInv, Conn!robotsVars
<1>2. CASE Conn!RobotsNext
  <2>1. PICK line \in Conn!Line : Conn!ReadLine(line)
    BY <1>2 DEF Conn!RobotsNext
  <2>2. PICK g : Grouped(file, groups, g)
    BY DEF RobotsInv
  <2>3. /\ file \in Seq(Conn!Line) /\ groups \in Seq(Group) /\ lastWasAgent \in BOOLEAN
        /\ lastWasAgent <=> file # <<>> /\ IsAgent(file, Len(file))
    BY DEF RobotsInv
  <2>4. /\ file' = Append(file, line) /\ lastWasAgent' = (line.kind = "user-agent")
        /\ groups' = IF line.kind = "user-agent" THEN Conn!AddAgent(line.value)
                     ELSE Conn!AddRule(line.kind, line.value)
    BY <2>1 DEF Conn!ReadLine
  <2>5. /\ file' \in Seq(Conn!Line) /\ lastWasAgent' \in BOOLEAN
        /\ lastWasAgent' <=> file' # <<>> /\ IsAgent(file', Len(file'))
    <3>1. /\ Append(file, line) \in Seq(Conn!Line) /\ Len(Append(file, line)) = Len(file) + 1
          /\ Append(file, line)[Len(file) + 1] = line
      BY <2>3, OneMore
    <3>2. Append(file, line) # <<>>
      BY <2>3
    <3> QED
      BY <2>4, <3>1, <3>2 DEF IsAgent
  <2>6. /\ line.kind = "user-agent" => line.value \in Conn!Agents
        /\ line.kind \in {"allow", "disallow"} => line.value \in Conn!Patterns
    BY DEF Conn!Line
  <2>7. Len(groups) \in Nat /\ (groups = <<>> <=> Len(groups) = 0)
        /\ \A n \in 1..Len(groups) : groups[n] \in Group
    BY <2>3
  <2> DEFINE G == Len(groups)
  <2>8. CASE line.kind = "user-agent"
    <3>1. CASE groups = <<>> \/ ~lastWasAgent
      <4>1. groups' = Append(groups, [Conn!NoGroup EXCEPT !.agents = {line.value}])
        BY <2>4, <2>8, <3>1 DEF Conn!AddAgent
      <4> DEFINE new == [Conn!NoGroup EXCEPT !.agents = {line.value}]
      <4>2. new \in Group /\ new.agents = {line.value} /\ new.allow = {} /\ new.disallow = {}
        BY <2>6, <2>8 DEF Conn!NoGroup, Group
      <4> HIDE DEF new
      <4>3. /\ groups' \in Seq(Group) /\ Len(groups') = G + 1 /\ groups'[G + 1] = new
            /\ \A n \in 1..G : groups'[n] = groups[n]
        BY <2>3, <4>1, <4>2 DEF new
      <4>4. file # <<>> => ~IsAgent(file, Len(file))
        <5>1. CASE ~lastWasAgent
          BY <2>3, <5>1
        <5>2. CASE groups = <<>>
          <6>1. ASSUME file # <<>>, IsAgent(file, Len(file)) PROVE FALSE
            <7>1. Len(file) \in 1..Len(file)
              BY <2>3, <6>1
            <7>2. g[Len(file)] # 0 /\ g[Len(file)] \in 0..0
              BY <2>2, <2>7, <5>2, <6>1, <7>1 DEF Grouped
            <7> QED
              BY <7>2
          <6> QED
            BY <6>1
        <5> QED
          BY <3>1, <5>1, <5>2
      <4>5. G + 1 \in Nat
        BY <2>7
      <4>6. \E h : Grouped(Append(file, line), groups', h)
        BY <2>2, <2>3, <2>8, <4>2, <4>3, <4>4, <4>5, AgentIsGrouped
      <4> QED
        BY <2>4, <2>5, <4>3, <4>6 DEF RobotsInv
    <3>2. CASE ~(groups = <<>> \/ ~lastWasAgent)
      <4>1. groups' = [groups EXCEPT ![G].agents = @ \cup {line.value}]
        BY <2>4, <2>8, <3>2 DEF Conn!AddAgent, Conn!Current
      <4>2. G \in 1..G /\ groups[G] \in Group
        BY <2>7, <3>2
      <4> DEFINE new == [groups[G] EXCEPT !.agents = @ \cup {line.value}]
      <4>3. /\ new \in Group /\ new.agents = groups[G].agents \cup {line.value}
            /\ new.allow = groups[G].allow /\ new.disallow = groups[G].disallow
        BY <2>6, <2>8, <4>2 DEF Group
      <4>4. groups' = [groups EXCEPT ![G] = new]
        BY <4>1
      <4> HIDE DEF new
      <4>5. /\ groups' \in Seq(Group) /\ Len(groups') = G /\ groups'[G] = new
            /\ \A n \in 1..G : n # G => groups'[n] = groups[n]
        BY <2>3, <4>2, <4>3, <4>4
      <4>6. file # <<>> /\ IsAgent(file, Len(file)) /\ G > 0
        BY <2>3, <3>2, <4>2
      <4>7. \E h : Grouped(Append(file, line), groups', h)
        BY <2>2, <2>3, <2>7, <2>8, <4>3, <4>5, <4>6, AgentIsGrouped
      <4> QED
        BY <2>4, <2>5, <4>5, <4>7 DEF RobotsInv
    <3> QED
      BY <3>1, <3>2
  <2>9. CASE line.kind # "user-agent"
    <3>1. /\ groups' \in Seq(Group) /\ Len(groups') = G
          /\ \A n \in 1..G : n # G => groups'[n] = groups[n]
          /\ G > 0 =>
               /\ groups'[G].agents = groups[G].agents
               /\ groups'[G].allow = groups[G].allow \cup (IF line.kind = "allow" THEN {line.value} ELSE {})
               /\ groups'[G].disallow =
                    groups[G].disallow \cup (IF line.kind = "disallow" THEN {line.value} ELSE {})
      <4>1. CASE groups = <<>> \/ line.kind \notin {"allow", "disallow"}
        <5>1. groups' = groups
          BY <2>4, <2>9, <4>1 DEF Conn!AddRule
        <5>2. CASE groups = <<>>
          BY <2>3, <2>7, <5>1, <5>2
        <5>3. CASE line.kind \notin {"allow", "disallow"}
          BY <2>3, <5>1, <5>3
        <5> QED
          BY <4>1, <5>2, <5>3
      <4>2. CASE groups # <<>> /\ line.kind = "allow"
        <5>1. groups' = [groups EXCEPT ![G].allow = @ \cup {line.value}]
          BY <2>4, <2>9, <4>2 DEF Conn!AddRule, Conn!Current
        <5>2. G \in 1..G /\ groups[G] \in Group
          BY <2>7, <4>2
        <5> DEFINE new == [groups[G] EXCEPT !.allow = @ \cup {line.value}]
        <5>3. /\ new \in Group /\ new.allow = groups[G].allow \cup {line.value}
              /\ new.agents = groups[G].agents /\ new.disallow = groups[G].disallow
          BY <2>6, <4>2, <5>2 DEF Group
        <5>4. groups' = [groups EXCEPT ![G] = new]
          BY <5>1
        <5> HIDE DEF new
        <5>5. /\ groups' \in Seq(Group) /\ Len(groups') = G /\ groups'[G] = new
              /\ \A n \in 1..G : n # G => groups'[n] = groups[n]
          BY <2>3, <5>2, <5>3, <5>4
        <5> QED
          BY <4>2, <5>3, <5>5
      <4>3. CASE groups # <<>> /\ line.kind = "disallow"
        <5>1. groups' = [groups EXCEPT ![G].disallow = @ \cup {line.value}]
          BY <2>4, <2>9, <4>3 DEF Conn!AddRule, Conn!Current
        <5>2. G \in 1..G /\ groups[G] \in Group
          BY <2>7, <4>3
        <5> DEFINE new == [groups[G] EXCEPT !.disallow = @ \cup {line.value}]
        <5>3. /\ new \in Group /\ new.disallow = groups[G].disallow \cup {line.value}
              /\ new.agents = groups[G].agents /\ new.allow = groups[G].allow
          BY <2>6, <4>3, <5>2 DEF Group
        <5>4. groups' = [groups EXCEPT ![G] = new]
          BY <5>1
        <5> HIDE DEF new
        <5>5. /\ groups' \in Seq(Group) /\ Len(groups') = G /\ groups'[G] = new
              /\ \A n \in 1..G : n # G => groups'[n] = groups[n]
          BY <2>3, <5>2, <5>3, <5>4
        <5> QED
          BY <4>3, <5>3, <5>5
      <4> QED
        BY <4>1, <4>2, <4>3
    <3>2. \E h : Grouped(Append(file, line), groups', h)
      BY <2>2, <2>3, <2>9, <3>1, RuleIsGrouped
    <3> QED
      BY <2>4, <2>5, <3>1, <3>2 DEF RobotsInv
  <2> QED
    BY <2>8, <2>9
<1> QED
  BY <1>1, <1>2

\* The greatest of some numbers.
LEMMA MaxOf ==
  ASSUME NEW n \in Nat, NEW s \in SUBSET (1..n), s # {}
  PROVE  Conn!Max(s) \in s
<1> DEFINE S == 1..n
           From(y) == {x \in s : y <= x}
           B == {From(y) : y \in s}
<1>0. \A x \in s : x \in Int
  OBVIOUS
<1>1. B \in SUBSET SUBSET S /\ B # {}
  OBVIOUS
<1>2. PICK u \in B : \A t \in B : t \subseteq u => t = u
  <2>1. IsFiniteSet(S)
    BY FS_Interval
  <2> HIDE DEF B, S
  <2> QED
    BY <1>1, <2>1, Smallest
<1>3. PICK y \in s : u = From(y)
  BY <1>2
<1>4. \A z \in s : y >= z
  <2> SUFFICES ASSUME NEW z \in s, ~(y >= z) PROVE FALSE
    OBVIOUS
  <2>1. y \in Int /\ z \in Int /\ y < z
    BY <1>0
  <2>2. From(z) \subseteq From(y) /\ y \in From(y) /\ y \notin From(z)
    <3>1. \A x \in s : z <= x => y <= x
      BY <1>0, <2>1
    <3>2. y <= y /\ ~(z <= y)
      BY <2>1
    <3> QED
      BY <3>1, <3>2
  <2>3. From(z) \in B
    OBVIOUS
  <2> QED
    BY <1>2, <1>3, <2>2, <2>3
<1>5. \E x \in s : \A z \in s : x >= z
  BY <1>4
<1> QED
  BY <1>5 DEF Conn!Max

\* A set put into a sequence.
LEMMA SequenceOf ==
  ASSUME NEW S, IsFiniteSet(S)
  PROVE  /\ Conn!SetToSeq(S) \in Seq(S)
         /\ \A x \in S : \E i \in 1..Len(Conn!SetToSeq(S)) : Conn!SetToSeq(S)[i] = x
<1> DEFINE n == Cardinality(S)
           q == Conn!SetToSeq(S)
<1>1. n \in Nat /\ ExistsBijection(1..n, S)
  BY FS_CardinalityType
<1>2. \E f \in [1..n -> S] : Conn!IsInjective(f)
  BY <1>1 DEF ExistsBijection, Bijection, Injection, IsInjective, Conn!IsInjective
<1>3. q \in [1..n -> S] /\ Conn!IsInjective(q)
  BY <1>2 DEF Conn!SetToSeq, Conn!Cardinality, Cardinality
<1> HIDE DEF q, n
<1>4. q \in Injection(1..n, S)
  BY <1>3 DEF Injection, IsInjective, Conn!IsInjective
<1>5. Cardinality(1..n) = Cardinality(S)
  <2>1. Cardinality(1..n) = IF 1 > n THEN 0 ELSE n - 1 + 1
    BY <1>1, FS_Interval
  <2> QED
    BY <1>1, <2>1 DEF n
<1>6. q \in Surjection(1..n, S)
  BY <1>4, <1>5, FS_Injection
<1>7. q \in Seq(S) /\ Len(q) = n
  BY <1>1, <1>3
<1> QED
  BY <1>6, <1>7 DEF Surjection, q

Rule == [pattern : Conn!Patterns, allow : BOOLEAN]
Verdict == [len : 0..MaxPattern, allow : BOOLEAN]
NoVerdict == [len |-> 0, allow |-> TRUE]

\* What isAllowedByRobots makes of one rule.
Weighs(path, best, rule) ==
  IF Conn!Fits(rule.pattern, path) /\ Conn!Better(best, rule.pattern, rule.allow)
    THEN [len |-> rule.pattern, allow |-> rule.allow] ELSE best

LEMMA WeighsInto ==
  ASSUME NEW path, NEW best \in Verdict, NEW rule \in Rule
  PROVE  Weighs(path, best, rule) \in Verdict
BY RobotsAssumption DEF Weighs, Verdict, Rule, Conn!Patterns

\* The best of some of the rules.
BestOf(path, q, s, best) ==
  LET fit == {i \in s : q[i].pattern <= path}
  IN /\ \A i \in fit : q[i].pattern <= best.len
     /\ best.allow => (best.len = 0 \/ \E i \in fit : q[i].pattern = best.len /\ q[i].allow)
     /\ ~best.allow =>
          /\ \E i \in fit : q[i].pattern = best.len /\ ~q[i].allow
          /\ \A i \in fit : q[i].allow => q[i].pattern < best.len

LEMMA BestAndOne ==
  ASSUME NEW path \in Int, NEW n \in Nat, NEW q \in [1..n -> Rule], NEW s \in SUBSET (1..n),
         NEW i \in s, NEW best \in Verdict, BestOf(path, q, s \ {i}, best)
  PROVE  BestOf(path, q, s, Weighs(path, best, q[i]))
<1> DEFINE new == Weighs(path, best, q[i])
           p == q[i].pattern
           a == q[i].allow
           fit(t) == {j \in t : q[j].pattern <= path}
<1>1. \A j \in 1..n : q[j].pattern \in Nat /\ q[j].pattern > 0 /\ q[j].allow \in BOOLEAN
  <2> TAKE j \in 1..n
  <2>1. q[j] \in Rule
    OBVIOUS
  <2> QED
    BY <2>1, RobotsAssumption DEF Rule, Conn!Patterns
<1>2. best.len \in Nat /\ best.allow \in BOOLEAN
  BY RobotsAssumption DEF Verdict
<1>3. i \in 1..n /\ p \in Nat /\ p > 0 /\ a \in BOOLEAN
  BY <1>1
<1>4. /\ \A j \in fit(s \ {i}) : q[j].pattern <= best.len
      /\ best.allow => (best.len = 0 \/ \E j \in fit(s \ {i}) : q[j].pattern = best.len /\ q[j].allow)
      /\ ~best.allow =>
           /\ \E j \in fit(s \ {i}) : q[j].pattern = best.len /\ ~q[j].allow
           /\ \A j \in fit(s \ {i}) : q[j].allow => q[j].pattern < best.len
  BY DEF BestOf
<1>5. CASE ~(p <= path)
  <2>1. new = best
    BY <1>5 DEF Weighs, Conn!Fits
  <2>2. fit(s) = fit(s \ {i})
    BY <1>5
  <2> QED
    BY <2>1, <2>2 DEF BestOf
<1>6. CASE p <= path
  <2>1. i \in fit(s) /\ \A j \in fit(s) : j = i \/ j \in fit(s \ {i})
    BY <1>6
  <2>2. \A j \in fit(s \ {i}) : j \in fit(s) /\ j \in 1..n
    OBVIOUS
  <2>3. CASE best.len = 0 \/ p > best.len \/ (p = best.len /\ a)
    <3>1. new.len = p /\ new.allow = a
      BY <1>6, <2>3 DEF Weighs, Conn!Fits, Conn!Better
    <3> HIDE DEF new, fit
    <3>20. \A j \in fit(s \ {i}) : q[j].pattern \in Nat /\ q[j].pattern > 0
      BY <1>1, <2>2
    <3>2. \A j \in fit(s \ {i}) : q[j].pattern <= p /\ (~a => q[j].pattern < p)
      <4> HIDE DEF p, a
      <4> TAKE j \in fit(s \ {i})
      <4>1. q[j].pattern <= best.len /\ q[j].pattern \in Nat /\ q[j].pattern > 0
        BY <1>4, <3>20
      <4> QED
        BY <1>2, <1>3, <2>3, <4>1
    <3>3. ~a => \A j \in fit(s \ {i}) : q[j].pattern < p
      BY <3>2
    <3>4. \A j \in fit(s) : q[j].pattern <= p
      <4>1. q[i].pattern <= p
        BY <1>3
      <4> HIDE DEF p
      <4> QED
        BY <2>1, <3>2, <4>1
    <3>5. ~a => \A j \in fit(s) : q[j].allow => q[j].pattern < p
      BY <2>1, <3>3
    <3> QED
      BY <2>1, <3>1, <3>4, <3>5 DEF BestOf, fit, new
  <2>4. CASE ~(best.len = 0 \/ p > best.len \/ (p = best.len /\ a))
    <3>1. new = best
      BY <1>6, <2>4 DEF Weighs, Conn!Fits, Conn!Better
    <3>2. p <= best.len /\ (a => p < best.len) /\ best.len # 0
      BY <1>2, <1>3, <2>4
    <3> HIDE DEF new, fit
    <3>3. \A j \in fit(s) : q[j].pattern <= best.len
      BY <1>4, <2>1, <3>2
    <3>4. best.allow => \E j \in fit(s) : q[j].pattern = best.len /\ q[j].allow
      BY <1>4, <2>2, <3>2
    <3>5. ~best.allow => /\ \E j \in fit(s) : q[j].pattern = best.len /\ ~q[j].allow
                         /\ \A j \in fit(s) : q[j].allow => q[j].pattern < best.len
      BY <1>4, <2>1, <2>2, <3>2
    <3> QED
      BY <3>1, <3>3, <3>4, <3>5 DEF BestOf, fit, new
  <2> QED
    BY <2>3, <2>4
<1> QED
  BY <1>5, <1>6

\* The recursion of FoldLeft over the rules q.
BestFold(path, q, h) ==
  h = [s \in SUBSET DOMAIN q |->
         IF s = {} THEN NoVerdict ELSE Weighs(path, h[s \ {Conn!Max(s)}], q[Conn!Max(s)])]

LEMMA BestFoldExists ==
  ASSUME NEW path, NEW n \in Nat, NEW q \in [1..n -> Rule]
  PROVE  \E h \in [SUBSET (1..n) -> Verdict] : BestFold(path, q, h)
<1> DEFINE S == 1..n
           pick == [s \in SUBSET S |-> Conn!Max(s)]
           F == [p \in S \X Verdict |-> Weighs(path, p[2], q[p[1]])]
<1>1. IsFiniteSet(S)
  BY FS_Interval
<1>2. Picks(pick, S)
  BY MaxOf DEF Picks
<1>3. F \in [S \X Verdict -> Verdict]
  <2>1. ASSUME NEW p \in S \X Verdict PROVE Weighs(path, p[2], q[p[1]]) \in Verdict
    <3>1. p[2] \in Verdict /\ q[p[1]] \in Rule
      OBVIOUS
    <3> QED
      BY <3>1, WeighsInto
  <2> QED
    BY <2>1
<1>4. NoVerdict \in Verdict
  BY RobotsAssumption DEF NoVerdict, Verdict
<1> HIDE DEF F, pick
<1>5. PICK h \in [SUBSET S -> Verdict] : Folds(F, NoVerdict, pick, h, S)
  BY <1>1, <1>2, <1>3, <1>4, FoldsInto
<1>6. ASSUME NEW s \in SUBSET S
      PROVE  FoldStep(F, NoVerdict, pick, h, s)
               = IF s = {} THEN NoVerdict ELSE Weighs(path, h[s \ {Conn!Max(s)}], q[Conn!Max(s)])
  <2>1. CASE s = {}
    BY <2>1 DEF FoldStep
  <2>2. CASE s # {}
    <3>1. pick[s] = Conn!Max(s) /\ pick[s] \in s
      BY <1>2, <2>2 DEF pick, Picks
    <3>2. h[s \ {pick[s]}] \in Verdict /\ pick[s] \in S
      BY <3>1
    <3>3. F[<<pick[s], h[s \ {pick[s]}]>>] = Weighs(path, h[s \ {pick[s]}], q[pick[s]])
      BY <3>2 DEF F
    <3> QED
      BY <2>2, <3>1, <3>3 DEF FoldStep
  <2> QED
    BY <2>1, <2>2
<1>7. DOMAIN q = S
  OBVIOUS
<1>8. BestFold(path, q, h)
  <2>1. h = [s \in SUBSET S |-> FoldStep(F, NoVerdict, pick, h, s)]
    BY <1>5 DEF Folds
  <2> QED
    BY <1>6, <1>7, <2>1 DEF BestFold
<1> QED
  BY <1>8

LEMMA BestFoldIsBest ==
  ASSUME NEW path \in Int, NEW n \in Nat, NEW q \in [1..n -> Rule]
  PROVE  LET best == (CHOOSE h : BestFold(path, q, h))[DOMAIN q]
         IN BestOf(path, q, 1..n, best)
<1> DEFINE h == CHOOSE e : BestFold(path, q, e)
           S == 1..n
<1>1. BestFold(path, q, h)
  BY BestFoldExists
<1>2. DOMAIN q = S
  OBVIOUS
<1> HIDE DEF h
<1>3. \A s \in SUBSET S :
        h[s] = IF s = {} THEN NoVerdict ELSE Weighs(path, h[s \ {Conn!Max(s)}], q[Conn!Max(s)])
  <2> DEFINE G == [s \in SUBSET S |->
        IF s = {} THEN NoVerdict ELSE Weighs(path, h[s \ {Conn!Max(s)}], q[Conn!Max(s)])]
  <2>1. h = G
    BY <1>1, <1>2 DEF BestFold
  <2>2. \A s \in SUBSET S :
          G[s] = IF s = {} THEN NoVerdict ELSE Weighs(path, h[s \ {Conn!Max(s)}], q[Conn!Max(s)])
    OBVIOUS
  <2> QED
    BY <2>1, <2>2
<1> DEFINE Good(s) == h[s] \in Verdict /\ BestOf(path, q, s, h[s])
           B == {s \in SUBSET S : ~Good(s)}
<1>4. B = {}
  <2> SUFFICES ASSUME B # {} PROVE FALSE
    OBVIOUS
  <2>1. PICK s \in B : \A t \in B : t \subseteq s => t = s
    <3>1. B \in SUBSET SUBSET S /\ IsFiniteSet(S)
      BY FS_Interval
    <3> HIDE DEF B, S
    <3> QED
      BY <3>1, Smallest
  <2> DEFINE i == Conn!Max(s)
  <2>2. CASE s = {}
    <3>1. h[s] = NoVerdict
      BY <1>3, <2>2
    <3>2. Good(s)
      BY <2>2, <3>1, RobotsAssumption DEF NoVerdict, Verdict, BestOf
    <3> QED
      BY <3>2
  <2>3. CASE s # {}
    <3>1. i \in s
      BY <2>3, MaxOf
    <3>2. h[s] = Weighs(path, h[s \ {i}], q[i])
      BY <1>3, <2>3
    <3> HIDE DEF i
    <3>3. s \ {i} \in SUBSET S /\ s \ {i} \notin B
      BY <2>1, <3>1
    <3>4. Good(s \ {i})
      BY <3>3
    <3>5. q[i] \in Rule
      BY <3>1
    <3>6. h[s] \in Verdict
      BY <3>2, <3>4, <3>5, WeighsInto
    <3>7. BestOf(path, q, s, h[s])
      BY <3>1, <3>2, <3>4, BestAndOne
    <3> QED
      BY <3>6, <3>7
  <2> QED
    BY <2>2, <2>3
<1>5. S \in SUBSET S
  OBVIOUS
<1>6. Good(S)
  BY <1>4, <1>5
<1> QED
  BY <1>2, <1>6 DEF h

\* The rules in the order in which they are looked at.
Ordered(A, D) ==
  Conn!SetToSeq({[pattern |-> p, allow |-> TRUE] : p \in A})
    \o Conn!SetToSeq({[pattern |-> p, allow |-> FALSE] : p \in D})

LEMMA RulesOf ==
  ASSUME NEW A \in SUBSET Conn!Patterns, NEW allow \in BOOLEAN
  PROVE  LET R == {[pattern |-> p, allow |-> allow] : p \in A}
         IN IsFiniteSet(R) /\ R \subseteq Rule
<1> DEFINE R == {[pattern |-> p, allow |-> allow] : p \in A}
           f == [p \in A |-> [pattern |-> p, allow |-> allow]]
<1>1. IsFiniteSet(A)
  <2>1. IsFiniteSet(Conn!Patterns)
    BY FS_Interval, RobotsAssumption DEF Conn!Patterns
  <2> QED
    BY <2>1, FS_Subset
<1>2. f \in Surjection(A, R)
  BY DEF Surjection
<1>3. IsFiniteSet(R)
  <2> HIDE DEF f, R
  <2> QED
    BY <1>1, <1>2, FS_Surjection
<1>4. R \subseteq Rule
  BY DEF Rule
<1> QED
  BY <1>3, <1>4

LEMMA OrderedRules ==
  ASSUME NEW A \in SUBSET Conn!Patterns, NEW D \in SUBSET Conn!Patterns
  PROVE  LET q == Ordered(A, D)
             n == Len(q)
         IN /\ n \in Nat /\ q \in [1..n -> Rule] /\ DOMAIN q = 1..n
            /\ \A p \in A : \E i \in 1..n : q[i].pattern = p /\ q[i].allow
            /\ \A p \in D : \E i \in 1..n : q[i].pattern = p /\ ~q[i].allow
            /\ \A i \in 1..n : IF q[i].allow THEN q[i].pattern \in A ELSE q[i].pattern \in D
<1> DEFINE R == {[pattern |-> p, allow |-> TRUE] : p \in A}
           T == {[pattern |-> p, allow |-> FALSE] : p \in D}
           r == Conn!SetToSeq(R)
           t == Conn!SetToSeq(T)
           q == r \o t
<1>1. IsFiniteSet(R) /\ R \subseteq Rule /\ IsFiniteSet(T) /\ T \subseteq Rule
  BY RulesOf
<1>2. /\ \A x \in R : x.allow = TRUE /\ x.pattern \in A
      /\ \A x \in T : x.allow = FALSE /\ x.pattern \in D
      /\ \A p \in A : [pattern |-> p, allow |-> TRUE] \in R
      /\ \A p \in D : [pattern |-> p, allow |-> FALSE] \in T
  <2>1. \A x \in R : x.allow = TRUE /\ x.pattern \in A
    OBVIOUS
  <2>2. \A x \in T : x.allow = FALSE /\ x.pattern \in D
    OBVIOUS
  <2>3. \A p \in A : [pattern |-> p, allow |-> TRUE] \in R
    OBVIOUS
  <2>4. \A p \in D : [pattern |-> p, allow |-> FALSE] \in T
    OBVIOUS
  <2> HIDE DEF R, T
  <2> QED
    BY <2>1, <2>2, <2>3, <2>4
<1> HIDE DEF R, T
<1>3. /\ r \in Seq(R) /\ \A x \in R : \E i \in 1..Len(r) : r[i] = x
      /\ t \in Seq(T) /\ \A x \in T : \E i \in 1..Len(t) : t[i] = x
  BY <1>1, SequenceOf
<1> HIDE DEF r, t
<1>4. /\ r \in Seq(Rule) /\ t \in Seq(Rule)
      /\ \A i \in 1..Len(r) : r[i] \in R
      /\ \A i \in 1..Len(t) : t[i] \in T
  BY <1>1, <1>3
<1>5. /\ q \in Seq(Rule) /\ Len(q) = Len(r) + Len(t) /\ Len(r) \in Nat /\ Len(t) \in Nat
      /\ \A i \in 1..Len(r) : q[i] = r[i]
      /\ \A i \in 1..Len(t) : q[Len(r) + i] = t[i]
  BY <1>4
<1> HIDE DEF q
<1>6. /\ Len(q) \in Nat /\ q \in [1..Len(q) -> Rule] /\ DOMAIN q = 1..Len(q)
  BY <1>5
<1>7. /\ \A i \in 1..Len(r) : i \in 1..Len(q)
      /\ \A i \in 1..Len(t) : Len(r) + i \in 1..Len(q)
      /\ \A i \in 1..Len(q) : i \in 1..Len(r) \/ \E j \in 1..Len(t) : i = Len(r) + j
  <2>1. ASSUME NEW i \in 1..Len(q), i \notin 1..Len(r)
        PROVE  \E j \in 1..Len(t) : i = Len(r) + j
    <3>1. i - Len(r) \in 1..Len(t) /\ i = Len(r) + (i - Len(r))
      BY <1>5, <2>1
    <3> QED
      BY <3>1
  <2> QED
    BY <1>5, <2>1
<1>8. ASSUME NEW p \in A PROVE \E i \in 1..Len(q) : q[i].pattern = p /\ q[i].allow
  <2>1. PICK i \in 1..Len(r) : r[i] = [pattern |-> p, allow |-> TRUE]
    BY <1>2, <1>3
  <2>2. q[i].pattern = p /\ q[i].allow = TRUE /\ i \in 1..Len(q)
    BY <1>5, <1>7, <2>1
  <2> QED
    BY <2>2
<1>9. ASSUME NEW p \in D PROVE \E i \in 1..Len(q) : q[i].pattern = p /\ ~q[i].allow
  <2>1. PICK i \in 1..Len(t) : t[i] = [pattern |-> p, allow |-> FALSE]
    BY <1>2, <1>3
  <2>2. /\ q[Len(r) + i].pattern = p /\ q[Len(r) + i].allow = FALSE
        /\ Len(r) + i \in 1..Len(q)
    BY <1>5, <1>7, <2>1
  <2> QED
    BY <2>2
<1>10. ASSUME NEW i \in 1..Len(q)
       PROVE  IF q[i].allow THEN q[i].pattern \in A ELSE q[i].pattern \in D
  <2>1. CASE i \in 1..Len(r)
    <3>1. q[i] \in R
      BY <1>4, <1>5, <2>1
    <3> QED
      BY <1>2, <3>1
  <2>2. CASE \E j \in 1..Len(t) : i = Len(r) + j
    <3>1. q[i] \in T
      BY <1>4, <1>5, <2>2
    <3> QED
      BY <1>2, <3>1
  <2> QED
    BY <1>7, <2>1, <2>2
<1>11. q = Ordered(A, D)
  BY DEF q, r, t, R, T, Ordered
<1> QED
  BY <1>6, <1>8, <1>9, <1>10, <1>11

LEMMA BestIsFold ==
  ASSUME NEW path
  PROVE  LET q == Ordered(Conn!Allow, Conn!Disallow)
         IN Conn!Best(path) = (CHOOSE h : BestFold(path, q, h))[DOMAIN q]
BY DEF Conn!Best, Conn!FoldLeft, Conn!MapThenFoldSet, BestFold, Weighs, Ordered, NoVerdict

\* A path is refused only by a pattern longer than all that allow it.
LEMMA AllowedAsRuled ==
  ASSUME Conn!Allow \in SUBSET Conn!Patterns, Conn!Disallow \in SUBSET Conn!Patterns,
         NEW path \in Conn!Patterns
  PROVE  Conn!Allowed(path) <=>
           \A d \in Conn!Disallow : Conn!Fits(d, path) =>
             \E a \in Conn!Allow : Conn!Fits(a, path) /\ a >= d
<1> DEFINE A == Conn!Allow
           D == Conn!Disallow
           q == Ordered(A, D)
           n == Len(q)
           best == Conn!Best(path)
<1>1. /\ n \in Nat /\ q \in [1..n -> Rule] /\ DOMAIN q = 1..n
      /\ \A p \in A : \E i \in 1..n : q[i].pattern = p /\ q[i].allow
      /\ \A p \in D : \E i \in 1..n : q[i].pattern = p /\ ~q[i].allow
      /\ \A i \in 1..n : IF q[i].allow THEN q[i].pattern \in A ELSE q[i].pattern \in D
  BY OrderedRules
<1>2. best = (CHOOSE h : BestFold(path, q, h))[DOMAIN q]
  BY BestIsFold
<1>3. /\ path \in Int
      /\ \A p \in A \cup D : p \in Nat /\ p > 0
  BY RobotsAssumption DEF Conn!Patterns
<1>4. Conn!Allowed(path) = best.allow
  BY DEF Conn!Allowed
<1> HIDE DEF best, q, n, A, D
<1>5. BestOf(path, q, 1..n, best)
  BY <1>1, <1>2, <1>3, BestFoldIsBest
<1> DEFINE fit == {i \in 1..n : q[i].pattern <= path}
<1>6. /\ \A i \in fit : q[i].pattern <= best.len
      /\ best.allow => (best.len = 0 \/ \E i \in fit : q[i].pattern = best.len /\ q[i].allow)
      /\ ~best.allow =>
           /\ \E i \in fit : q[i].pattern = best.len /\ ~q[i].allow
           /\ \A i \in fit : q[i].allow => q[i].pattern < best.len
  BY <1>5 DEF BestOf
<1>7. ASSUME best.allow, NEW d \in D, d <= path
      PROVE  \E a \in A : a <= path /\ a >= d
  <2>1. PICK i \in 1..n : q[i].pattern = d
    BY <1>1
  <2>2. i \in fit
    BY <1>7, <2>1
  <2>3. d <= best.len /\ d \in Nat /\ d > 0
    BY <1>3, <1>6, <2>1, <2>2
  <2>4. best.len # 0
    BY <2>3
  <2>5. PICK k \in fit : q[k].pattern = best.len /\ q[k].allow
    BY <1>6, <1>7, <2>4
  <2>6. q[k].pattern \in A /\ q[k].pattern <= path
    BY <1>1, <2>5
  <2>7. q[k].pattern >= d
    BY <1>3, <2>3, <2>5, <2>6
  <2> QED
    BY <2>6, <2>7
<1>8. ASSUME ~best.allow
      PROVE  \E d \in D : d <= path /\ \A a \in A : a <= path => ~(a >= d)
  <2>1. PICK i \in fit : q[i].pattern = best.len /\ ~q[i].allow
    BY <1>6, <1>8
  <2>2. best.len \in D /\ best.len <= path
    BY <1>1, <2>1
  <2>3. ASSUME NEW a \in A, a <= path PROVE ~(a >= best.len)
    <3>1. PICK k \in 1..n : q[k].pattern = a /\ q[k].allow
      BY <1>1
    <3>2. k \in fit
      BY <2>3, <3>1
    <3>3. a < best.len
      BY <1>6, <1>8, <3>1, <3>2
    <3> QED
      BY <1>3, <2>2, <3>3
  <2> QED
    BY <2>2, <2>3
<1>9. best.allow <=> \A d \in D : d <= path => \E a \in A : a <= path /\ a >= d
  BY <1>7, <1>8
<1> QED
  BY <1>4, <1>9 DEF A, D, Conn!Fits

LEMMA RobotsSuffice ==
  ASSUME RobotsInv
  PROVE  Conn!RobotsTypeOK /\ Conn!RulesAsWritten
<1>0. /\ file \in Seq(Conn!Line) /\ groups \in Seq(Group) /\ lastWasAgent \in BOOLEAN
      /\ Len(file) \in Nat /\ DOMAIN file = 1..Len(file) /\ DOMAIN groups = 1..Len(groups)
      /\ \A n \in 1..Len(groups) : groups[n] \in Group
      /\ Len(groups) \in Nat
  BY DEF RobotsInv
<1>1. Conn!RobotsTypeOK
  BY <1>0 DEF Conn!RobotsTypeOK, Group
<1>2. PICK g : Grouped(file, groups, g)
  BY DEF RobotsInv
<1> DEFINE N == Len(file)
           G == Len(groups)
           isAgent(i) == file[i].kind = "user-agent"
           speaksTo(j, agent) ==
             \E i \in 1 .. j - 1 :
               /\ isAgent(i) /\ file[i].value = agent
               /\ \A k \in i .. j - 1 : isAgent(k) \/ \A m \in k .. j - 1 : ~isAgent(m)
           named(agent) == \E i \in DOMAIN file : isAgent(i) /\ file[i].value = agent
           who == IF named("us") THEN "us" ELSE "*"
           ours(kind) == {file[j].value : j \in {i \in DOMAIN file :
                           file[i].kind = kind /\ speaksTo(i, who)}}
<1>3. /\ g \in [1..N -> 0..G]
      /\ \A i \in 1..N : isAgent(i) => g[i] # 0
      /\ \A i, j \in 1..N : isAgent(i) /\ ~isAgent(j) =>
           IF i < j THEN g[i] = g[j] <=> NearestAbove(file, i, j) ELSE g[i] # g[j]
      /\ \A n \in 1..G : /\ groups[n].agents = Said(file, g, n, "user-agent")
                         /\ groups[n].allow = Said(file, g, n, "allow")
                         /\ groups[n].disallow = Said(file, g, n, "disallow")
  BY <1>2 DEF Grouped, IsAgent
<1>4. \A i \in 1..N : g[i] \in 0..G /\ (isAgent(i) => g[i] \in 1..G)
  BY <1>0, <1>3
<1>5. \A n \in 1..G : \A agent : agent \in groups[n].agents <=>
        \E i \in 1..N : isAgent(i) /\ file[i].value = agent /\ g[i] = n
  BY <1>3 DEF Said
<1>6. Conn!Chosen = {n \in 1..G : who \in groups[n].agents}
  <2>1. {n \in DOMAIN groups : "us" \in groups[n].agents} # {} <=> named("us")
    BY <1>0, <1>4, <1>5
  <2> HIDE DEF named
  <2> QED
    BY <1>0, <2>1 DEF Conn!Chosen
<1>7. ASSUME NEW j \in 1..N, ~isAgent(j)
      PROVE  speaksTo(j, who) <=> g[j] \in Conn!Chosen
  <2> HIDE DEF who
  <2>1. \A i : i \in 1..j - 1 <=> i \in 1..N /\ i < j
    BY <1>0
  <2>2. speaksTo(j, who) <=>
          \E i \in 1..j - 1 : isAgent(i) /\ file[i].value = who /\ NearestAbove(file, i, j)
    BY DEF NearestAbove, IsAgent
  <2>3. ASSUME NEW i \in 1..N, isAgent(i)
        PROVE  i < j /\ NearestAbove(file, i, j) <=> g[i] = g[j]
    BY <1>3, <1>7, <2>3
  <2>4. speaksTo(j, who) <=>
          \E i \in 1..N : isAgent(i) /\ file[i].value = who /\ g[i] = g[j]
    <3> HIDE DEF speaksTo
    <3> QED
      BY <2>1, <2>2, <2>3
  <2>5. g[j] \in Conn!Chosen <=>
          \E i \in 1..N : isAgent(i) /\ file[i].value = who /\ g[i] = g[j]
    BY <1>4, <1>5, <1>6
  <2> QED
    BY <2>4, <2>5
<1> HIDE DEF speaksTo, who
<1>8. Conn!Allow = ours("allow")
  <2>1. \A x : x \in Conn!Allow <=> \E n \in Conn!Chosen : x \in groups[n].allow
    BY DEF Conn!Allow
  <2>2. \A n \in 1..G : \A x : x \in groups[n].allow <=>
          \E j \in 1..N : g[j] = n /\ file[j].kind = "allow" /\ file[j].value = x
    BY <1>3 DEF Said
  <2>3. \A x : x \in ours("allow") <=>
          \E j \in 1..N : file[j].kind = "allow" /\ speaksTo(j, who) /\ file[j].value = x
    BY <1>0
  <2>4. \A j \in 1..N : file[j].kind = "allow" => (speaksTo(j, who) <=> g[j] \in Conn!Chosen)
    BY <1>7
  <2> HIDE DEF ours
  <2>5. \A x : x \in Conn!Allow <=> x \in ours("allow")
    BY <1>6, <2>1, <2>2, <2>3, <2>4
  <2> QED
    BY <2>5
<1>9. Conn!Disallow = ours("disallow")
  <2>1. \A x : x \in Conn!Disallow <=> \E n \in Conn!Chosen : x \in groups[n].disallow
    BY DEF Conn!Disallow
  <2>2. \A n \in 1..G : \A x : x \in groups[n].disallow <=>
          \E j \in 1..N : g[j] = n /\ file[j].kind = "disallow" /\ file[j].value = x
    BY <1>3 DEF Said
  <2>3. \A x : x \in ours("disallow") <=>
          \E j \in 1..N : file[j].kind = "disallow" /\ speaksTo(j, who) /\ file[j].value = x
    BY <1>0
  <2>4. \A j \in 1..N : file[j].kind = "disallow" => (speaksTo(j, who) <=> g[j] \in Conn!Chosen)
    BY <1>7
  <2> HIDE DEF ours
  <2>5. \A x : x \in Conn!Disallow <=> x \in ours("disallow")
    BY <1>6, <2>1, <2>2, <2>3, <2>4
  <2> QED
    BY <2>5
<1>10. Conn!Allow \in SUBSET Conn!Patterns /\ Conn!Disallow \in SUBSET Conn!Patterns
  <2>1. \A n \in Conn!Chosen : groups[n].allow \subseteq Conn!Patterns
                               /\ groups[n].disallow \subseteq Conn!Patterns
    BY <1>0, <1>6 DEF Group
  <2> QED
    BY <2>1 DEF Conn!Allow, Conn!Disallow
<1>11. \A path \in Conn!Patterns :
         Conn!Allowed(path) <=>
           \A d \in ours("disallow") : Conn!Fits(d, path) =>
             \E a \in ours("allow") : Conn!Fits(a, path) /\ a >= d
  <2> HIDE DEF ours
  <2> QED
    BY <1>8, <1>9, <1>10, AllowedAsRuled
<1>12. Conn!RulesAsWritten
  BY <1>11 DEF Conn!RulesAsWritten, speaksTo, who
<1> QED
  BY <1>1, <1>12

-----------------------------------------------------------------------------
(***************************************************************************)
(* All of the services: a step is of one of them, and stutters for the     *)
(* others.                                                                 *)
(***************************************************************************)
LEMMA StepIsOfOneResearch ==
  ASSUME [ServicesNext]_all
  PROVE  /\ [Next]_vars /\ [Disc!Next]_(Disc!discoveryVars)
         /\ [Anal!Next]_(Anal!analysisVars) /\ [Pipe!Next]_(Pipe!pipelineVars)
         /\ [Scor!Next]_(Scor!scoreVars) /\ [Scor!CriteriaNext]_(Scor!criteriaVars)
         /\ [Conn!Next]_(Conn!connectorVars) /\ [Conn!RobotsNext]_(Conn!robotsVars)
<1> DEFINE Others(me) ==
      /\ me # "experiments" => UNCHANGED vars
      /\ me # "discovery" => UNCHANGED Disc!discoveryVars
      /\ me # "analysis" => UNCHANGED Anal!analysisVars
      /\ me # "pipeline" => UNCHANGED Pipe!pipelineVars
      /\ me # "scoring" => UNCHANGED Scor!scoreVars
      /\ me # "criteria" => UNCHANGED Scor!criteriaVars
      /\ me # "connectors" => UNCHANGED Conn!connectorVars
      /\ me # "robots" => UNCHANGED Conn!robotsVars
<1>1. /\ UNCHANGED discoveryState => UNCHANGED Disc!discoveryVars
      /\ UNCHANGED analysisState => UNCHANGED Anal!analysisVars
      /\ UNCHANGED pipelineState => UNCHANGED Pipe!pipelineVars
      /\ UNCHANGED scoringState => UNCHANGED Scor!scoreVars
      /\ UNCHANGED criteriaState => UNCHANGED Scor!criteriaVars
      /\ UNCHANGED connectorsState => UNCHANGED Conn!connectorVars
      /\ UNCHANGED robotsState => UNCHANGED Conn!robotsVars
  <2>1. UNCHANGED discoveryState => UNCHANGED Disc!discoveryVars
    BY DEF discoveryState, Disc!discoveryVars, Disc!rows
  <2>2. UNCHANGED analysisState => UNCHANGED Anal!analysisVars
    BY DEF analysisState, Anal!analysisVars, Anal!row, Anal!history
  <2>3. UNCHANGED pipelineState => UNCHANGED Pipe!pipelineVars
    BY DEF pipelineState, Pipe!pipelineVars, Pipe!data, Pipe!bounds, Pipe!history
  <2>4. UNCHANGED scoringState => UNCHANGED Scor!scoreVars
    BY DEF scoringState, Scor!scoreVars
  <2>5. UNCHANGED criteriaState => UNCHANGED Scor!criteriaVars
    BY DEF criteriaState, Scor!criteriaVars
  <2>6. UNCHANGED connectorsState => UNCHANGED Conn!connectorVars
    BY DEF connectorsState, Conn!connectorVars
  <2>7. UNCHANGED robotsState => UNCHANGED Conn!robotsVars
    BY DEF robotsState, Conn!robotsVars
  <2> QED
    BY <2>1, <2>2, <2>3, <2>4, <2>5, <2>6, <2>7
<1>2. ASSUME NEW me, Rest(me) PROVE Others(me)
  BY <1>1, <1>2 DEF Rest
<1>3. CASE UNCHANGED all
  <2>1. /\ UNCHANGED vars /\ UNCHANGED discoveryState /\ UNCHANGED analysisState
        /\ UNCHANGED pipelineState /\ UNCHANGED scoringState /\ UNCHANGED criteriaState
        /\ UNCHANGED connectorsState /\ UNCHANGED robotsState
    BY <1>3 DEF all
  <2> QED
    BY <1>1, <2>1
<1> HIDE DEF Others
<1>4. CASE Next /\ Rest("experiments")
  BY <1>2, <1>4 DEF Others
<1>5. CASE Disc!Next /\ Rest("discovery")
  BY <1>2, <1>5 DEF Others
<1>6. CASE Anal!Next /\ Rest("analysis")
  BY <1>2, <1>6 DEF Others
<1>7. CASE Pipe!Next /\ Rest("pipeline")
  BY <1>2, <1>7 DEF Others
<1>8. CASE Scor!Next /\ Rest("scoring")
  BY <1>2, <1>8 DEF Others
<1>9. CASE Scor!CriteriaNext /\ Rest("criteria")
  BY <1>2, <1>9 DEF Others
<1>10. CASE Conn!Next /\ Rest("connectors")
  BY <1>2, <1>10 DEF Others
<1>11. CASE Conn!RobotsNext /\ Rest("robots")
  BY <1>2, <1>11 DEF Others
<1> QED
  BY <1>3, <1>4, <1>5, <1>6, <1>7, <1>8, <1>9, <1>10, <1>11 DEF ServicesNext

ResearchInv ==
  /\ TypeOK /\ LicenceInv /\ DiscoveryInv /\ AnalysisInv
  /\ PipelineInv /\ ScoringInv /\ CriteriaInv /\ ConnectorInv
  /\ ComputedInv /\ RobotsInv

LEMMA ResearchStarts == ServicesInit => ResearchInv
<1>1. ServicesInit => TypeOK /\ LicenceInv
  BY InitTypeOK, InitLicenceInv DEF ServicesInit
<1> QED
  BY <1>1, DiscoveryStarts, AnalysisStarts, PipelineStarts, ScoringStarts, CriteriaStart,
     ConnectorsStart, ComputedStart, RobotsStart DEF ResearchInv

LEMMA ResearchStays ==
  ASSUME ResearchInv, [ServicesNext]_all
  PROVE  /\ ResearchInv'
         /\ [EvidenceStep]_(Disc!discoveryVars) /\ [GoesOn]_(Pipe!pipelineVars)
         /\ [KeepsInterval]_(Conn!connectorVars) /\ [Keeps]_(Scor!criteriaVars)
         /\ [NoHigher]_(Scor!criteriaVars)
         /\ [\A e \in Budgeted : Licensed(e)]_vars
<1>1. TypeOK' /\ LicenceInv' /\ [\A e \in Budgeted : Licensed(e)]_vars
  BY StepIsOfOneResearch, NextTypeOK, NextLicenceInv, NextIsLicensed DEF ResearchInv
<1>2. DiscoveryInv' /\ [EvidenceStep]_(Disc!discoveryVars)
  BY StepIsOfOneResearch, DiscoveryStays DEF ResearchInv
<1>3. AnalysisInv'
  BY StepIsOfOneResearch, AnalysisStays DEF ResearchInv
<1>4. PipelineInv' /\ [GoesOn]_(Pipe!pipelineVars)
  BY StepIsOfOneResearch, PipelineStays DEF ResearchInv
<1>5. ScoringInv'
  BY StepIsOfOneResearch, ScoringStays DEF ResearchInv
<1>6. CriteriaInv' /\ [Keeps]_(Scor!criteriaVars)
  BY StepIsOfOneResearch, CriteriaStay DEF ResearchInv
<1>7. ConnectorInv' /\ [KeepsInterval]_(Conn!connectorVars)
  BY StepIsOfOneResearch, ConnectorsStay DEF ResearchInv
<1>8. ComputedInv' /\ [NoHigher]_(Scor!criteriaVars)
  BY StepIsOfOneResearch, ComputedStay DEF ResearchInv
<1>9. RobotsInv'
  BY StepIsOfOneResearch, RobotsStay DEF ResearchInv
<1> QED
  BY <1>1, <1>2, <1>3, <1>4, <1>5, <1>6, <1>7, <1>8, <1>9 DEF ResearchInv

\* Unless scans have overlapped or died, the signals on an opportunity are
\* those of its cluster, and of its evidence once a scan has found it again;
\* and an analysis undoes neither a status nor a selection, as long as it meets
\* no other change of them and no experiment gives the hypothesis back: for all
\* documents, hypotheses, scans and analyses.
THEOREM FindingsAreSafe == ServicesSpec => []FindingsStand
<1>1. ResearchInv => FindingsStand
  BY DiscoverySuffices, AnalysisSuffices DEF ResearchInv, FindingsStand
<1> QED
  BY <1>1, ResearchStarts, ResearchStays, PTL DEF ServicesSpec

\* A build that cannot go on is reported, unless a task gave up or died; of the
\* experiments that the agents have designed one is open, unless two designs
\* overlapped, a late approval opened one again or a human started it; and a
\* waiting experiment waits for a request about itself: for all tasks, projects,
\* experiments and overlapping calls.
THEOREM PipelineIsSafe == ServicesSpec => []PipelineIsSound
<1>1. ResearchInv => PipelineIsSound
  BY PipelineSuffices DEF ResearchInv, LicenceInv, PipelineIsSound
<1> QED
  BY <1>1, ResearchStarts, ResearchStays, PTL DEF ServicesSpec

\* The last version of the weights is the active one; a score is that of its
\* data, but for changes of tags, overlaps and deaths; and no page is read that
\* its owner's rules have refused for longer than copies of them live: for all
\* processes, versions, runs and times to live.
THEOREM CopiesAreCurrent == ServicesSpec => []CopiesFollowSources
<1>1. ResearchInv => CopiesFollowSources
  BY ScoringSuffices, ConnectorsSuffice DEF ResearchInv, CopiesFollowSources
<1> QED
  BY <1>1, ResearchStarts, ResearchStays, PTL DEF ServicesSpec

\* A score lies between those of the worst and of the best case, in a demo
\* workspace it has no confidence at all, and the rules of a source are applied
\* as they are written: for all estimates, files and patterns.
THEOREM ComputationsAreAsWritten == ServicesSpec => []ComputedAsWritten
<1>1. ResearchInv => ComputedAsWritten
  BY ComputedSuffices, RobotsSuffice DEF ResearchInv, ComputedAsWritten
<1> QED
  BY <1>1, ResearchStarts, ResearchStays, PTL DEF ServicesSpec

\* No step raises a score for a finding that is worse: for all estimates.
THEOREM WorseIsNeverBetter == ServicesSpec => WorseScoresNoHigher
<1>1. ResearchInv /\ [ServicesNext]_all => [NoHigher]_(Scor!criteriaVars)
  BY ResearchStays
<1>2. ServicesSpec => [][NoHigher]_(Scor!criteriaVars)
  BY <1>1, ResearchStarts, ResearchStays, PTL DEF ServicesSpec
<1> QED
  BY <1>2 DEF WorseScoresNoHigher, Scor!WorseNeverScoresHigher, NoHigher

\* A budget runs only in the one execution of an approved request for it, or
\* where the policy lets it through, whatever the other services do.
THEOREM SpendStaysLicensed == ServicesSpec => SpendIsLicensed
<1>1. ResearchInv /\ [ServicesNext]_all => [\A e \in Budgeted : Licensed(e)]_vars
  BY ResearchStays
<1>2. ServicesSpec => [][\A e \in Budgeted : Licensed(e)]_vars
  BY <1>1, ResearchStarts, ResearchStays, PTL DEF ServicesSpec
<1> QED
  BY <1>2 DEF SpendIsLicensed, Licensed

\* No step stores a claim twice for an opportunity, makes a released task wait
\* again, calls a source within its interval or forgets in a rescoring what a
\* scan has found - but where two scans, tasks or runs overlap.
THEOREM ResearchIsSound == ServicesSpec => ResearchStepsAreSound
<1>1. ResearchInv /\ [ServicesNext]_all =>
        /\ [EvidenceStep]_(Disc!discoveryVars) /\ [GoesOn]_(Pipe!pipelineVars)
        /\ [KeepsInterval]_(Conn!connectorVars) /\ [Keeps]_(Scor!criteriaVars)
  BY ResearchStays
<1>2. ServicesSpec => /\ [][EvidenceStep]_(Disc!discoveryVars) /\ [][GoesOn]_(Pipe!pipelineVars)
                      /\ [][KeepsInterval]_(Conn!connectorVars) /\ [][Keeps]_(Scor!criteriaVars)
  BY <1>1, ResearchStarts, ResearchStays, PTL DEF ServicesSpec
<1> QED
  BY <1>2 DEF ResearchStepsAreSound, Disc!EvidenceOnce, Pipe!ResumedGoesOn,
     Conn!CallsKeepInterval, Scor!RescoringKeepsWhatAScanFound, EvidenceStep, GoesOn,
     KeepsInterval, Keeps
=============================================================================
