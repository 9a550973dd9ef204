----------------------------- MODULE Evaluation -----------------------------
(***************************************************************************)
(* The measuring loop around an experiment: the scheduler's ticks          *)
(* (packages/agents/src/scheduler.ts), the tasks they enqueue, and the     *)
(* evaluation a task carries out (packages/core/src/experiments.ts) with   *)
(* the decision engine (packages/analytics/src/experiments.ts).  Several   *)
(* processes tick, a task may fail at any statement, and the experiment    *)
(* goes on meanwhile.  The posterior probabilities are inputs.             *)
(***************************************************************************)
EXTENDS Integers, FiniteSets

CONSTANTS
  Ticker,         \* processes that run the scheduler
  MinSample,      \* thresholds.minSample
  MaxSample,      \* bound of the model: observations
  MaxDays         \* thresholds.maxDays, in slots of the scheduler

VARIABLES
  slot,           \* parity of Math.floor(now / evalEvery): no task is left for longer
  ticking,        \* [Ticker -> what a tick has found]
  task,           \* [parity -> status of the evaluation task with the slot's key]
  enqueued,       \* [parity -> rows inserted for that slot]
  status,         \* experiments.status
  sample,         \* distinct visitors of the experiment
  days,           \* its age in slots
  spent,          \* its budget is used up
  decision,       \* experiments.decision
  verdict         \* the decision a run has computed, with the statement it has come to

evalVars == <<slot, ticking, task, enqueued, status, sample, days, spent, decision, verdict>>

Decisions == {"none", "SCALE", "KILL", "ITERATE", "PAUSE", "CONTINUE"}
NoVerdict == [at |-> "none", decision |-> "none", running |-> FALSE]
StatusOf == [SCALE |-> "completed", KILL |-> "killed", ITERATE |-> "completed", PAUSE |-> "paused"]

TypeOK ==
  /\ slot \in 0..1 /\ ticking \in [Ticker -> {"idle", "found"}]
  /\ task \in [0..1 -> {"none", "queued", "running", "done"}] /\ enqueued \in [0..1 -> 0..2]
  /\ status \in {"running", "paused", "completed", "killed", "cancelled"}
  /\ sample \in 0..MaxSample /\ days \in 0..MaxDays /\ spent \in BOOLEAN
  /\ decision \in Decisions
  /\ verdict \in [at : {"none", "recording", "applying"}, decision : Decisions, running : BOOLEAN]

Init ==
  /\ slot = 0 /\ ticking = [w \in Ticker |-> "idle"]
  /\ task = [s \in 0..1 |-> "none"] /\ enqueued = [s \in 0..1 |-> 0]
  /\ status = "running" /\ sample = 0 /\ days = 0 /\ spent = FALSE /\ decision = "none"
  /\ verdict = NoVerdict

-----------------------------------------------------------------------------
(* Scheduler.tick *)

\* A tick counts the running experiments of a workspace ...
TickCounts(w) ==
  /\ ticking[w] = "idle" /\ status = "running" /\ task[slot] = "none"
  /\ ticking' = [ticking EXCEPT ![w] = "found"]
  /\ UNCHANGED <<slot, task, enqueued, status, sample, days, spent, decision, verdict>>

\* Mutant: no key.
TickEnqueuesAlways(w) ==
  /\ ticking[w] = "found"
  /\ ticking' = [ticking EXCEPT ![w] = "idle"]
  /\ task' = [task EXCEPT ![slot] = "queued"] /\ enqueued' = [enqueued EXCEPT ![slot] = @ + 1]
  /\ UNCHANGED <<slot, status, sample, days, spent, decision, verdict>>

\* ... and enqueues with the key of the slot: an enqueue that finds a row with
\* the key inserts none.
TickEnqueues(w) ==
  /\ ticking[w] = "found"
  /\ ticking' = [ticking EXCEPT ![w] = "idle"]
  /\ IF task[slot] = "none"
     THEN task' = [task EXCEPT ![slot] = "queued"] /\ enqueued' = [enqueued EXCEPT ![slot] = @ + 1]
     ELSE UNCHANGED <<task, enqueued>>
  /\ UNCHANGED <<slot, status, sample, days, spent, decision, verdict>>

\* The next slot begins; the task of the slot before the last is over by now,
\* and a tick takes less than a slot.
NextSlot ==
  /\ task[1 - slot] \in {"none", "done"} /\ \A w \in Ticker : ticking[w] = "idle"
  /\ slot' = 1 - slot
  /\ task' = [task EXCEPT ![1 - slot] = "none"] /\ enqueued' = [enqueued EXCEPT ![1 - slot] = 0]
  /\ days' = IF days < MaxDays THEN days + 1 ELSE days
  /\ UNCHANGED <<ticking, status, sample, spent, decision, verdict>>

-----------------------------------------------------------------------------
(* evaluateExperiment: input is what the statistics say of the figures *)

Inputs == [complaints : BOOLEAN,   \* the rate of complaints or the CAC exceeds its guardrail
           likely : BOOLEAN,       \* P(rate > target) >= scaleProbability
           hopeless : BOOLEAN,     \* P(rate > kill line) < killProbability
           futile : BOOLEAN,       \* ... < half of it
           signal : BOOLEAN,       \* the rate itself reaches the kill line
           unprofitable : BOOLEAN] \* LTV/CAC is known and below its minimum

\* The kill line lies below the target.
Consistent(in) == (in.futile => in.hopeless) /\ ~(in.likely /\ in.hopeless)

Exhausted == days >= MaxDays \/ spent

\* Mutant: what ran out of time is killed, with traffic or without.
DecideByTime(in) ==
  CASE in.complaints -> "PAUSE"
    [] ~in.complaints /\ Exhausted /\ ~in.likely -> IF in.signal THEN "ITERATE" ELSE "KILL"
    [] ~in.complaints /\ ~(Exhausted /\ ~in.likely) ->
         IF sample < MinSample THEN "CONTINUE" ELSE IF in.likely THEN "SCALE" ELSE "CONTINUE"

\* Mutant: a limit matters only when there is enough data.
DecideWithSample(in) ==
  IF sample < MinSample THEN "CONTINUE" ELSE IF in.likely THEN "SCALE" ELSE "KILL"

Decide(in) ==
  CASE in.complaints -> "PAUSE"
    [] ~in.complaints /\ sample < MinSample ->
         IF 2 * sample >= MinSample /\ in.futile THEN "KILL"
         ELSE IF Exhausted THEN "PAUSE" ELSE "CONTINUE"
    [] ~in.complaints /\ sample >= MinSample ->
         IF in.likely THEN (IF in.unprofitable THEN "ITERATE" ELSE "SCALE")
         ELSE IF in.hopeless THEN "KILL"
         ELSE IF Exhausted THEN (IF in.signal THEN "ITERATE" ELSE "KILL")
         ELSE IF sample >= 3 * MinSample THEN "ITERATE" ELSE "CONTINUE"

-----------------------------------------------------------------------------
(* analytics.evaluate_experiments *)

Claim(s) ==
  /\ task[s] = "queued" /\ \A r \in 0..1 : task[r] # "running"
  /\ task' = [task EXCEPT ![s] = "running"]
  /\ UNCHANGED <<slot, ticking, enqueued, status, sample, days, spent, decision, verdict>>

\* evaluate reads the figures and the status of a running experiment ...
Evaluate(s) ==
  /\ task[s] = "running" /\ verdict.at = "none" /\ status = "running"
  /\ \E in \in Inputs :
       /\ Consistent(in)
       /\ verdict' = [at |-> "recording", decision |-> Decide(in), running |-> TRUE]
  /\ UNCHANGED <<slot, ticking, task, enqueued, status, sample, days, spent, decision>>

\* ... records what follows from them ...
Record ==
  /\ verdict.at = "recording"
  /\ decision' = verdict.decision
  /\ verdict' = IF verdict.decision = "CONTINUE" THEN NoVerdict ELSE [verdict EXCEPT !.at = "applying"]
  /\ task' = [s \in 0..1 |-> IF verdict.decision = "CONTINUE" /\ task[s] = "running" THEN "done" ELSE task[s]]
  /\ UNCHANGED <<slot, ticking, enqueued, status, sample, days, spent>>

\* ... and applyDecision carries it out, whatever the status is by now.
ApplyDecision ==
  /\ verdict.at = "applying"
  /\ status' = StatusOf[verdict.decision] /\ verdict' = NoVerdict
  /\ task' = [s \in 0..1 |-> IF task[s] = "running" THEN "done" ELSE task[s]]
  /\ UNCHANGED <<slot, ticking, enqueued, sample, days, spent, decision>>

\* A run that finds no running experiment, or fails between two statements
\* for good; a failure that is retried evaluates anew.
RunEnds(s) ==
  /\ task[s] = "running"
  /\ task' = [task EXCEPT ![s] = "done"] /\ verdict' = NoVerdict
  /\ UNCHANGED <<slot, ticking, enqueued, status, sample, days, spent, decision>>

\* Visitors, spending, and a human who stops or takes up the experiment.
Traffic ==
  /\ status = "running" /\ sample < MaxSample
  /\ sample' \in (sample + 1)..MaxSample
  /\ UNCHANGED <<slot, ticking, task, enqueued, status, days, spent, decision, verdict>>

Spend ==
  /\ ~spent /\ status = "running" /\ spent' = TRUE
  /\ UNCHANGED <<slot, ticking, task, enqueued, status, sample, days, decision, verdict>>

Stop ==
  /\ status \in {"running", "paused"} /\ status' = "cancelled"
  /\ UNCHANGED <<slot, ticking, task, enqueued, sample, days, spent, decision, verdict>>

Resume ==
  /\ status = "paused" /\ status' = "running"
  /\ UNCHANGED <<slot, ticking, task, enqueued, sample, days, spent, decision, verdict>>

Next ==
  \/ \E w \in Ticker : TickCounts(w) \/ TickEnqueues(w)
  \/ NextSlot \/ Traffic \/ Spend \/ Stop \/ Resume
  \/ \E s \in 0..1 : Claim(s) \/ Evaluate(s) \/ RunEnds(s)
  \/ Record \/ ApplyDecision

\* Time passes, some process ticks, claimed tasks end, and an evaluation that
\* is started again and again is not cut off every time.  That some process
\* ticks presumes EXPERIMENT_EVAL_INTERVAL_MIN > 0 (its default is 15): with 0
\* the scheduler evaluates nothing.
Fairness ==
  /\ WF_evalVars(NextSlot)
  /\ SF_evalVars(\E w \in Ticker : TickCounts(w)) /\ WF_evalVars(\E w \in Ticker : TickEnqueues(w))
  /\ WF_evalVars(\E s \in 0..1 : Claim(s)) /\ WF_evalVars(\E s \in 0..1 : RunEnds(s))
  /\ SF_evalVars(\E s \in 0..1 : Evaluate(s)) /\ SF_evalVars(Record) /\ SF_evalVars(ApplyDecision)

Spec == Init /\ [][Next]_evalVars /\ Fairness

-----------------------------------------------------------------------------

\* Whatever the traffic, the spending and the failures of single runs, an
\* experiment that runs is judged, paused for a human or stopped in the end:
\* none of the branches of the decision engine keeps it running for ever, as
\* long as the scheduler is set to evaluate at all.
EveryExperimentEnds == status = "running" ~> status # "running"

\* However many processes tick, a slot evaluates the workspace once.
OneTaskPerSlot == \A s \in 0..1 : enqueued[s] <= 1

\* An experiment that hardly anybody saw is never scaled, killed or iterated:
\* its demand is untested, not disproven, whatever ran out first.
UntestedIsNotJudged == decision \in {"SCALE", "KILL", "ITERATE"} => 2 * sample >= MinSample
=============================================================================
