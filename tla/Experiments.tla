---------------------------- MODULE Experiments ----------------------------
(***************************************************************************)
(* The life of an experiment (packages/core/src/experiments.ts) and the    *)
(* approval that its budget needs.                                         *)
(*                                                                         *)
(* A call of start reads the row, asks the policy and then the approval    *)
(* centre, and writes the row at the end; a call of evaluate reads the     *)
(* statistics and the row, and writes the row at the end; approve runs the *)
(* executor of spend.commit, which writes the row whatever it says.  None  *)
(* of these writes repeats a condition on the status that was read.        *)
(*                                                                         *)
(* The approval centre is taken by its promise (HumanDecision, which       *)
(* Approvals is shown to implement).  Whether an undecided request is      *)
(* still there to be found (it may have expired), and whether two requests *)
(* miss each other, is left open: a request is answered with any undecided *)
(* one for the experiment, or with a new one.                              *)
(*                                                                         *)
(* Not modelled: variants, thresholds, spend, alerts, audit rows, and the  *)
(* status of the opportunity and the hypothesis that go with it.           *)
(***************************************************************************)
EXTENDS Naturals

CONSTANTS
  Experiment,      \* ids of the experiments that may be created
  Budgeted,        \* those created with budget_usd > 0
  Approval,        \* ids of the requests for spend.commit
  Starter,         \* concurrent calls of start
  Evaluator,       \* concurrent calls of evaluate
  SpendDecision,   \* what the policy may answer for spend.commit
  NoExperiment, NoApproval,
  MaxStarts        \* bound of the model: calls of start

ASSUME ExperimentsAssumption ==
  /\ Budgeted \subseteq Experiment
  /\ SpendDecision \subseteq {"deny", "require_approval", "simulate", "allow"}
  /\ NoExperiment \notin Experiment /\ NoApproval \notin Approval
  /\ MaxStarts \in Nat

VARIABLES
  exStatus,     \* [Experiment -> Status]: experiments.status, or "absent"
  approvalOf,   \* [Experiment -> Approval]: experiments.approval_id
  about,        \* [Approval -> Experiment]: payload.experimentId of a request
  verdict,      \* [Approval -> Verdict], of HumanDecision
  effects,      \* [Approval -> Nat], of HumanDecision
  startPhase,   \* [Starter -> StartPhase]: where the call is
  startOn,      \* [Starter -> Experiment]: its experiment
  answer,       \* [Starter -> Approval]: the request it was answered with
  evalOn,       \* [Evaluator -> Experiment]: what the call evaluates
  outcome,      \* [Evaluator -> Decision]: the decision it has come to
  calls         \* Nat: calls of start so far

rowVars == <<exStatus, approvalOf>>
humanVars == <<about, verdict, effects>>
startVars == <<startPhase, startOn, answer, calls>>
evalVars == <<evalOn, outcome>>
vars == <<rowVars, humanVars, startVars, evalVars>>

Human == INSTANCE HumanDecision

Ended == {"completed", "killed", "cancelled"}
Status == {"absent", "draft", "pending_approval", "running", "paused"} \cup Ended
StartPhase == {"idle", "starting", "asking", "storing", "marking"}

\* The status a decision leads to (CONTINUE leaves the row as it is).
Decision == {"SCALE", "KILL", "ITERATE", "PAUSE"}
StatusAfter == [SCALE |-> "completed", KILL |-> "killed",
                ITERATE |-> "completed", PAUSE |-> "paused"]

TypeOK ==
  /\ exStatus \in [Experiment -> Status]
  /\ approvalOf \in [Experiment -> Approval \cup {NoApproval}]
  /\ about \in [Approval -> Experiment \cup {NoExperiment}]
  /\ verdict \in [Approval -> Human!Verdict]
  /\ effects \in [Approval -> 0..1]
  /\ startPhase \in [Starter -> StartPhase]
  /\ startOn \in [Starter -> Experiment \cup {NoExperiment}]
  /\ answer \in [Starter -> Approval \cup {NoApproval}]
  /\ evalOn \in [Evaluator -> Experiment \cup {NoExperiment}]
  /\ outcome \in [Evaluator -> Decision]
  /\ calls \in 0..MaxStarts

Init ==
  /\ exStatus = [e \in Experiment |-> "absent"]
  /\ approvalOf = [e \in Experiment |-> NoApproval]
  /\ about = [a \in Approval |-> NoExperiment]
  /\ Human!Init
  /\ startPhase = [s \in Starter |-> "idle"]
  /\ startOn = [s \in Starter |-> NoExperiment]
  /\ answer = [s \in Starter |-> NoApproval]
  /\ evalOn = [v \in Evaluator |-> NoExperiment]
  /\ outcome = [v \in Evaluator |-> "PAUSE"]
  /\ calls = 0

-----------------------------------------------------------------------------

Create(e) ==
  /\ exStatus[e] = "absent"
  /\ exStatus' = [exStatus EXCEPT ![e] = "draft"]
  /\ UNCHANGED <<approvalOf, humanVars, startVars, evalVars>>

-----------------------------------------------------------------------------
(* start *)

StartGoto(s, p) ==
  /\ startPhase' = [startPhase EXCEPT ![s] = p]
  /\ UNCHANGED <<startOn, calls>>

StartOver(s) ==
  /\ startPhase' = [startPhase EXCEPT ![s] = "idle"]
  /\ startOn' = [startOn EXCEPT ![s] = NoExperiment]
  /\ answer' = [answer EXCEPT ![s] = NoApproval]
  /\ UNCHANGED calls

Start(s, e) ==
  /\ startPhase[s] = "idle" /\ calls < MaxStarts
  /\ exStatus[e] \in {"draft", "paused"}
  /\ startPhase' = [startPhase EXCEPT ![s] = "starting"]
  /\ startOn' = [startOn EXCEPT ![s] = e]
  /\ calls' = calls + 1
  /\ UNCHANGED <<answer, rowVars, humanVars, evalVars>>

\* Mutant: a budget that the policy wants approved is started at once.
PolicyAnswersAnyGo(s, d) ==
  /\ startPhase[s] = "starting"
  /\ d \in SpendDecision
  /\ IF d = "deny" THEN StartOver(s) ELSE StartGoto(s, "marking") /\ UNCHANGED answer
  /\ UNCHANGED <<rowVars, humanVars, evalVars>>

\* A budget is decided by spend.commit, its absence by experiment.start,
\* which has no request of its own: it is let through or refused.
PolicyAnswers(s, d) ==
  /\ startPhase[s] = "starting"
  /\ d \in IF startOn[s] \in Budgeted THEN SpendDecision ELSE {"deny", "allow"}
  /\ IF d = "deny" THEN StartOver(s)
     ELSE /\ StartGoto(s, IF d = "require_approval" THEN "asking" ELSE "marking")
          /\ UNCHANGED answer
  /\ UNCHANGED <<rowVars, humanVars, evalVars>>

\* The approval centre answers with a new request.
AskNew(s, a) ==
  /\ startPhase[s] = "asking"
  /\ about[a] = NoExperiment
  /\ about' = [about EXCEPT ![a] = startOn[s]]
  /\ answer' = [answer EXCEPT ![s] = a]
  /\ StartGoto(s, "storing")
  /\ UNCHANGED <<verdict, effects, rowVars, evalVars>>

\* Mutant: requests are told apart by their action type alone.
AskFindsAny(s, a) ==
  /\ startPhase[s] = "asking"
  /\ about[a] # NoExperiment /\ verdict[a] = "none"
  /\ answer' = [answer EXCEPT ![s] = a]
  /\ StartGoto(s, "storing")
  /\ UNCHANGED <<humanVars, rowVars, evalVars>>

\* It answers with a pending request for the same experiment.
AskFinds(s, a) ==
  /\ startPhase[s] = "asking"
  /\ about[a] = startOn[s] /\ verdict[a] = "none"
  /\ answer' = [answer EXCEPT ![s] = a]
  /\ StartGoto(s, "storing")
  /\ UNCHANGED <<humanVars, rowVars, evalVars>>

\* The UPDATE after the request, whatever has become of row and request.
StorePending(s) ==
  /\ startPhase[s] = "storing"
  /\ exStatus' = [exStatus EXCEPT ![startOn[s]] = "pending_approval"]
  /\ approvalOf' = [approvalOf EXCEPT ![startOn[s]] = answer[s]]
  /\ StartOver(s)
  /\ UNCHANGED <<humanVars, evalVars>>

\* markRunning, from start.
MarkRunning(s) ==
  /\ startPhase[s] = "marking"
  /\ exStatus' = [exStatus EXCEPT ![startOn[s]] = "running"]
  /\ StartOver(s)
  /\ UNCHANGED <<approvalOf, humanVars, evalVars>>

\* An error between two statements, or the end of the process.
StartDies(s) ==
  /\ startPhase[s] # "idle"
  /\ StartOver(s)
  /\ UNCHANGED <<rowVars, humanVars, evalVars>>

-----------------------------------------------------------------------------
(* The approval centre *)

Decide(a, v) ==
  /\ about[a] # NoExperiment
  /\ Human!Rule(a, v)
  /\ UNCHANGED <<about, rowVars, startVars, evalVars>>

\* Mutant: an execution does not look whether there was one before.
ExecuteAgain(a) ==
  /\ about[a] # NoExperiment /\ verdict[a] = "approved"
  /\ effects' = [effects EXCEPT ![a] = @ + 1]
  /\ exStatus' = [exStatus EXCEPT ![about[a]] = "running"]
  /\ UNCHANGED <<approvalOf, about, verdict, startVars, evalVars>>

\* The executor of spend.commit: markRunning, from approve.
Execute(a) ==
  /\ about[a] # NoExperiment
  /\ Human!Perform(a)
  /\ exStatus' = [exStatus EXCEPT ![about[a]] = "running"]
  /\ UNCHANGED <<approvalOf, about, startVars, evalVars>>

-----------------------------------------------------------------------------
(* stop and evaluate *)

Stop(e) ==
  /\ exStatus[e] \in {"draft", "pending_approval", "running", "paused"}
  /\ exStatus' = [exStatus EXCEPT ![e] = "cancelled"]
  /\ UNCHANGED <<approvalOf, humanVars, startVars, evalVars>>

\* The rows read as running are those a decision will be applied to.
Evaluate(v, e, d) ==
  /\ evalOn[v] = NoExperiment
  /\ exStatus[e] = "running"
  /\ evalOn' = [evalOn EXCEPT ![v] = e]
  /\ outcome' = [outcome EXCEPT ![v] = d]
  /\ UNCHANGED <<rowVars, humanVars, startVars>>

ApplyDecision(v) ==
  /\ evalOn[v] # NoExperiment
  /\ exStatus' = [exStatus EXCEPT ![evalOn[v]] = StatusAfter[outcome[v]]]
  /\ evalOn' = [evalOn EXCEPT ![v] = NoExperiment]
  /\ outcome' = [outcome EXCEPT ![v] = "PAUSE"]
  /\ UNCHANGED <<approvalOf, humanVars, startVars>>

EvaluateDies(v) ==
  /\ evalOn[v] # NoExperiment
  /\ evalOn' = [evalOn EXCEPT ![v] = NoExperiment]
  /\ outcome' = [outcome EXCEPT ![v] = "PAUSE"]
  /\ UNCHANGED <<rowVars, humanVars, startVars>>

-----------------------------------------------------------------------------

StartStep(s) ==
  \/ \E e \in Experiment : Start(s, e)
  \/ \E d \in {"deny", "require_approval", "simulate", "allow"} : PolicyAnswers(s, d)
  \/ \E a \in Approval : AskNew(s, a) \/ AskFinds(s, a)
  \/ StorePending(s)
  \/ MarkRunning(s)
  \/ StartDies(s)

EvaluateStep(v) ==
  \/ \E e \in Experiment, d \in Decision : Evaluate(v, e, d)
  \/ ApplyDecision(v)
  \/ EvaluateDies(v)

Next ==
  \/ \E e \in Experiment : Create(e) \/ Stop(e)
  \/ \E s \in Starter : StartStep(s)
  \/ \E a \in Approval : Execute(a) \/ \E v \in Human!Verdict : Decide(a, v)
  \/ \E v \in Evaluator : EvaluateStep(v)

Spec == Init /\ [][Next]_vars

-----------------------------------------------------------------------------
(* Properties *)

\* "Nothing runs until you approve it": an experiment with a budget that the
\* policy has not let through goes to running only in the one execution of a
\* request for this very experiment that a human approved; however many
\* calls of start, decisions, evaluations and dead calls overlap, one
\* approval starts it once.
SpendIsLicensed ==
  [][\A e \in Budgeted :
       exStatus[e] # "running" /\ exStatus'[e] = "running" =>
         \/ \E a \in Approval : /\ about[a] = e /\ verdict[a] = "approved"
                                /\ effects[a] = 0 /\ effects'[a] = 1
         \/ /\ SpendDecision \cap {"simulate", "allow"} # {}
            /\ \E s \in Starter : startPhase[s] = "marking" /\ startOn[s] = e]_vars

\* The request that a waiting experiment shows is one for that experiment,
\* and only an experiment with a budget waits.
WaitsForOwnRequest ==
  \A e \in Experiment :
    exStatus[e] = "pending_approval" =>
      e \in Budgeted /\ approvalOf[e] # NoApproval /\ about[approvalOf[e]] = e

\* "After approval" the experiment starts: one that waits does not wait for
\* a request whose executor has already started it.
ApprovedDoesNotWait ==
  \A e \in Experiment :
    exStatus[e] = "pending_approval" => effects[approvalOf[e]] = 0

\* "KILL stops the experiment": it does not run again.
KilledStaysDown ==
  [][\A e \in Experiment : exStatus[e] = "killed" => exStatus'[e] # "running"]_vars
=============================================================================
