----------------------------- MODULE TaskQueue -----------------------------
(***************************************************************************)
(* The durable task queue of packages/agents/src/orchestrator.ts: the rows *)
(* of agent_tasks, and the runs (one claimed task being executed by one    *)
(* concurrency slot of some worker process).                               *)
(*                                                                         *)
(* Every SQL statement on agent_tasks is one action; everything a run does *)
(* between two statements may interleave with every other actor.  The      *)
(* approval service appears here only through the two statements with      *)
(* which it touches a task (Resume, CancelWaiting); TaskApprovals joins    *)
(* this module with Approvals.                                             *)
(*                                                                         *)
(* Abstractions:                                                           *)
(*  - time is counted in ticks of Grace's unit.  A row knows how long ago  *)
(*    it was claimed (locked_at), a run how long its handler has been      *)
(*    going and how long its own statements have taken;                    *)
(*  - an insert that meets an existing idempotency key changes nothing and *)
(*    is a stuttering step;                                                *)
(*  - of run_after only whether it has passed is kept;                     *)
(*  - which of the queued rows a claim takes is left open: the order by    *)
(*    priority holds only among the agents the worker serves and the rows  *)
(*    that no other statement has locked (FOR UPDATE SKIP LOCKED);         *)
(*  - spans, events, memory rows, alerts, cost figures and the agents'     *)
(*    displayed status are not state of this module.  The daily budget and *)
(*    the enabled flag decide whether a run is refused: any run may be.    *)
(***************************************************************************)
EXTENDS Naturals

CONSTANTS
  Task,           \* ids of the tasks that may ever be enqueued
  Worker,         \* concurrency slots of all the worker processes
  Approval,       \* ids a paused task may wait for
  NoTask, NoWorker, NoApproval,
  MaxAttempts,    \* retry.maxAttempts, also copied on the row at the insert
  TaskTimeout,    \* agent_tasks.timeout_ms: the definition's, at the insert
  AgentTimeout,   \* agents.timeout_ms: what updateAgent may have changed
  Grace,          \* the 60 s that requeueStale adds to a task's timeout
  MaxPauses,      \* bound of the model: pauses of a task per retryTask
  MaxRetries      \* bound of the model: calls of retryTask

ASSUME TaskQueueAssumption ==
  /\ MaxAttempts \in Nat \ {0}
  /\ TaskTimeout \in Nat \ {0} /\ AgentTimeout \in Nat \ {0} /\ Grace \in Nat
  /\ MaxPauses \in Nat /\ MaxRetries \in Nat
  /\ NoTask \notin Task /\ NoWorker \notin Worker /\ NoApproval \notin Approval

VARIABLES
  status,      \* [Task -> Status]: agent_tasks.status, or "absent"
  attempts,    \* [Task -> Nat]: agent_tasks.attempts
  lockedBy,    \* [Task -> Worker]: agent_tasks.locked_by
  lockAge,     \* [Task -> Nat]: ticks since agent_tasks.locked_at
  due,         \* SUBSET Task: the tasks with run_after <= now()
  approvalId,  \* [Task -> Approval]: agent_tasks.approval_id
  pauses,      \* [Task -> Nat]: history, resumptions since attempts was 0
  phase,       \* [Worker -> Phase]: where the slot's run is
  job,         \* [Worker -> Task]: the task claimed by the run
  attempt,     \* [Worker -> Nat]: task.attempts as returned by the claim
  elapsed,     \* [Worker -> Nat]: ticks the handler has been going
  late,        \* [Worker -> Nat]: ticks the run's own statements have taken
  retries      \* Nat: calls of retryTask so far

rowVars == <<status, attempts, lockedBy, lockAge, due, approvalId, pauses>>
runVars == <<phase, job, attempt, elapsed, late>>
vars == <<rowVars, runVars, retries>>

Lease == TaskTimeout + Grace

Terminal == {"succeeded", "failed", "timed_out", "cancelled"}
Retriable == {"failed", "timed_out", "cancelled"}
Status == {"absent", "queued", "running", "waiting_approval"} \cup Terminal

(***************************************************************************)
(* The phases of a run.  The catch block is entered with a retryable       *)
(* error, a timeout, or an error that is never retried; and from two       *)
(* places: before the row was finished as succeeded, and after.            *)
(***************************************************************************)
Failing == {"erred", "overdue", "fatal"}
FailingAfter == {"erred_after", "fatal_after"}
AfterSuccess == {"spawning"} \cup FailingAfter
Owning == {"claimed", "handling", "saving", "parking"} \cup Failing
Phase == {"idle"} \cup Owning \cup AfterSuccess
Bookkeeping == Phase \ {"idle", "handling"}

TypeOK ==
  /\ status \in [Task -> Status]
  /\ attempts \in [Task -> Nat]
  /\ lockedBy \in [Task -> Worker \cup {NoWorker}]
  /\ lockAge \in [Task -> 0..(Lease + 1)]
  /\ due \subseteq Task
  /\ approvalId \in [Task -> Approval \cup {NoApproval}]
  /\ pauses \in [Task -> 0..MaxPauses]
  /\ phase \in [Worker -> Phase]
  /\ job \in [Worker -> Task \cup {NoTask}]
  /\ attempt \in [Worker -> Nat]
  /\ elapsed \in [Worker -> 0..AgentTimeout]
  /\ late \in [Worker -> 0..Grace]
  /\ retries \in 0..MaxRetries

Init ==
  /\ status = [t \in Task |-> "absent"]
  /\ attempts = [t \in Task |-> 0]
  /\ lockedBy = [t \in Task |-> NoWorker]
  /\ lockAge = [t \in Task |-> 0]
  /\ due = {}
  /\ approvalId = [t \in Task |-> NoApproval]
  /\ pauses = [t \in Task |-> 0]
  /\ phase = [w \in Worker |-> "idle"]
  /\ job = [w \in Worker |-> NoTask]
  /\ attempt = [w \in Worker |-> 0]
  /\ elapsed = [w \in Worker |-> 0]
  /\ late = [w \in Worker |-> 0]
  /\ retries = 0

-----------------------------------------------------------------------------
(* Statements on the rows *)

\* The INSERT of enqueue; delayMs says whether the task is due at once.
Insert(t, ready) ==
  /\ status[t] = "absent"
  /\ status' = [status EXCEPT ![t] = "queued"]
  /\ due' = IF ready THEN due \cup {t} ELSE due \ {t}
  /\ UNCHANGED <<attempts, lockedBy, lockAge, approvalId, pauses>>

\* Mutants: a claim that takes rows whatever their status, and one that
\* leaves rows alone that have used up their attempts.
ClaimableAnyStatus(t) == status[t] # "absent" /\ t \in due
ClaimableWithAttempts(t) ==
  status[t] = "queued" /\ t \in due /\ attempts[t] < MaxAttempts

Claimable(t) == status[t] = "queued" /\ t \in due

\* The UPDATE of finish: it matches the row by its id alone, whatever the
\* row's status and whoever holds its lock by now.  (It leaves locked_at,
\* which is read of running rows only and written by every claim: the age of
\* a lock that is not held is dropped.)
Finish(t, s, a) ==
  /\ status' = [status EXCEPT ![t] = s]
  /\ approvalId' = [approvalId EXCEPT ![t] = IF a = NoApproval THEN @ ELSE a]
  /\ lockedBy' = [lockedBy EXCEPT ![t] = NoWorker]
  /\ lockAge' = [lockAge EXCEPT ![t] = 0]
  /\ due' = IF s = "queued" THEN due \ {t} ELSE due
  /\ UNCHANGED <<attempts, pauses>>

\* Mutant: a sweep without the 60 s margin.
StaleWithoutGrace(t) == status[t] = "running" /\ lockAge[t] > TaskTimeout

\* A row that is running although its claim is older than the lease.
Stale(t) == status[t] = "running" /\ lockAge[t] > Lease

-----------------------------------------------------------------------------
(* The steps of a run *)

Goto(w, p) ==
  /\ phase' = [phase EXCEPT ![w] = p]
  /\ UNCHANGED <<job, attempt, elapsed, late>>

RunOver(w) ==
  /\ phase' = [phase EXCEPT ![w] = "idle"]
  /\ job' = [job EXCEPT ![w] = NoTask]
  /\ attempt' = [attempt EXCEPT ![w] = 0]
  /\ elapsed' = [elapsed EXCEPT ![w] = 0]
  /\ late' = [late EXCEPT ![w] = 0]

\* API, scheduler, command or test: a new task.
Enqueue(t, ready) ==
  /\ Insert(t, ready)
  /\ UNCHANGED <<runVars, retries>>

\* Claims of several slots are atomic and never return the same row.
Claim(w, t) ==
  /\ phase[w] = "idle"
  /\ Claimable(t)
  /\ status' = [status EXCEPT ![t] = "running"]
  /\ attempts' = [attempts EXCEPT ![t] = @ + 1]
  /\ lockedBy' = [lockedBy EXCEPT ![t] = w]
  /\ lockAge' = [lockAge EXCEPT ![t] = 0]
  /\ phase' = [phase EXCEPT ![w] = "claimed"]
  /\ job' = [job EXCEPT ![w] = t]
  /\ attempt' = [attempt EXCEPT ![w] = attempts[t] + 1]
  /\ UNCHANGED <<due, approvalId, pauses, elapsed, late, retries>>

\* No handler or budget spent: failed.  Agent disabled: cancelled.
Refuse(w, s) ==
  /\ phase[w] = "claimed"
  /\ s \in {"failed", "cancelled"}
  /\ Finish(job[w], s, NoApproval)
  /\ RunOver(w)
  /\ UNCHANGED retries

StartHandler(w) ==
  /\ phase[w] = "claimed"
  /\ Goto(w, "handling")
  /\ UNCHANGED <<rowVars, retries>>

HandlerReturns(w) ==
  /\ phase[w] = "handling"
  /\ Goto(w, "saving")
  /\ UNCHANGED <<rowVars, retries>>

HandlerThrows(w, p) ==
  /\ phase[w] = "handling"
  /\ p \in {"erred", "fatal"}
  /\ Goto(w, p)
  /\ UNCHANGED <<rowVars, retries>>

\* The handler threw ApprovalRequiredError.
HandlerPauses(w) ==
  /\ phase[w] = "handling"
  /\ pauses[job[w]] < MaxPauses
  /\ Goto(w, "parking")
  /\ UNCHANGED <<rowVars, retries>>

HandlerTimesOut(w) ==
  /\ phase[w] = "handling"
  /\ elapsed[w] = AgentTimeout
  /\ Goto(w, "overdue")
  /\ UNCHANGED <<rowVars, retries>>

\* A memory row, or the result itself, cannot be written.
SaveFails(w) ==
  /\ phase[w] = "saving"
  /\ Goto(w, "erred")
  /\ UNCHANGED <<rowVars, retries>>

FinishSucceeded(w) ==
  /\ phase[w] = "saving"
  /\ Finish(job[w], "succeeded", NoApproval)
  /\ Goto(w, "spawning")
  /\ UNCHANGED retries

\* One round of the loop over result.next.
SpawnChild(w, t, ready) ==
  /\ phase[w] = "spawning"
  /\ Insert(t, ready)
  /\ UNCHANGED <<runVars, retries>>

\* A span, a child or the event cannot be written: the same catch block, on
\* a task that is already succeeded.
SpawnFails(w, p) ==
  /\ phase[w] = "spawning"
  /\ p \in FailingAfter
  /\ Goto(w, p)
  /\ UNCHANGED <<rowVars, retries>>

RunEnds(w) ==
  /\ phase[w] = "spawning"
  /\ RunOver(w)
  /\ UNCHANGED <<rowVars, retries>>

FinishParked(w, a) ==
  /\ phase[w] = "parking"
  /\ Finish(job[w], "waiting_approval", a)
  /\ RunOver(w)
  /\ UNCHANGED retries

\* Mutant: one retry too many.
CanRetryOnceMore(w) == /\ phase[w] \in {"erred", "overdue", "erred_after"}
                       /\ attempt[w] <= MaxAttempts

CanRetry(w) == /\ phase[w] \in {"erred", "overdue", "erred_after"}
               /\ attempt[w] < MaxAttempts

FinishRetry(w) ==
  /\ CanRetry(w)
  /\ Finish(job[w], "queued", NoApproval)
  /\ RunOver(w)
  /\ UNCHANGED retries

FinishGivesUp(w) ==
  /\ phase[w] \in Failing \cup FailingAfter
  /\ ~CanRetry(w)
  /\ Finish(job[w], IF phase[w] = "overdue" THEN "timed_out" ELSE "failed",
            NoApproval)
  /\ RunOver(w)
  /\ UNCHANGED retries

\* The process is killed, or a statement outside the try block fails: the
\* run is gone and the row stays as it is.
WorkerDies(w) ==
  /\ phase[w] # "idle"
  /\ RunOver(w)
  /\ UNCHANGED <<rowVars, retries>>

-----------------------------------------------------------------------------
(* Maintenance, operators and the approval service *)

\* One UPDATE over every stale row.
RequeueStale ==
  /\ \E t \in Task : Stale(t)
  /\ status' = [t \in Task |->
                  IF ~Stale(t) THEN status[t]
                  ELSE IF attempts[t] < MaxAttempts THEN "queued" ELSE "timed_out"]
  /\ lockedBy' = [t \in Task |-> IF Stale(t) THEN NoWorker ELSE lockedBy[t]]
  /\ lockAge' = [t \in Task |-> IF Stale(t) THEN 0 ELSE lockAge[t]]
  /\ due' = due \cup {t \in Task : Stale(t)}
  /\ UNCHANGED <<attempts, approvalId, pauses, runVars, retries>>

\* Mutant: cancel without its condition on the status.
CancelAny(t) ==
  /\ status[t] \notin {"absent", "cancelled"}
  /\ status' = [status EXCEPT ![t] = "cancelled"]
  /\ UNCHANGED <<attempts, lockedBy, lockAge, due, approvalId, pauses>>
  /\ UNCHANGED <<runVars, retries>>

Cancel(t) ==
  /\ status[t] \in {"queued", "waiting_approval"}
  /\ status' = [status EXCEPT ![t] = "cancelled"]
  /\ UNCHANGED <<attempts, lockedBy, lockAge, due, approvalId, pauses>>
  /\ UNCHANGED <<runVars, retries>>

\* approval_id stays what it was.
RetryTask(t) ==
  /\ retries < MaxRetries
  /\ status[t] \in Retriable
  /\ status' = [status EXCEPT ![t] = "queued"]
  /\ attempts' = [attempts EXCEPT ![t] = 0]
  /\ due' = due \cup {t}
  /\ pauses' = [pauses EXCEPT ![t] = 0]
  /\ retries' = retries + 1
  /\ UNCHANGED <<lockedBy, lockAge, approvalId, runVars>>

\* The last statement of ApprovalService.approve.
Resume(t, a) ==
  /\ status[t] = "waiting_approval"
  /\ pauses[t] < MaxPauses
  /\ status' = [status EXCEPT ![t] = "queued"]
  /\ approvalId' = [approvalId EXCEPT ![t] = a]
  /\ due' = due \cup {t}
  /\ lockedBy' = [lockedBy EXCEPT ![t] = NoWorker]
  /\ pauses' = [pauses EXCEPT ![t] = @ + 1]
  /\ UNCHANGED <<attempts, lockAge, runVars, retries>>

\* Mutant: the approval's word written in the task's row.
CancelWaitingAsRejected(t) ==
  /\ status[t] = "waiting_approval"
  /\ status' = [status EXCEPT ![t] = "rejected"]
  /\ UNCHANGED <<attempts, lockedBy, lockAge, due, approvalId, pauses>>
  /\ UNCHANGED <<runVars, retries>>

\* The last statement of ApprovalService.reject.
CancelWaiting(t) ==
  /\ status[t] = "waiting_approval"
  /\ status' = [status EXCEPT ![t] = "cancelled"]
  /\ UNCHANGED <<attempts, lockedBy, lockAge, due, approvalId, pauses>>
  /\ UNCHANGED <<runVars, retries>>

BackoffEnds(t) ==
  /\ status[t] = "queued" /\ t \notin due
  /\ due' = due \cup {t}
  /\ UNCHANGED <<status, attempts, lockedBy, lockAge, approvalId, pauses>>
  /\ UNCHANGED <<runVars, retries>>

\* Time passes.  withTimeout ends a handler on time, and the statements of
\* one run take at most Grace: what the margin of requeueStale presumes.
Tick ==
  /\ \E t \in Task : status[t] = "running" /\ lockAge[t] <= Lease
  /\ \A w \in Worker : /\ phase[w] = "handling" => elapsed[w] < AgentTimeout
                       /\ phase[w] \in Bookkeeping => late[w] < Grace
  /\ lockAge' = [t \in Task |-> IF status[t] = "running" /\ lockAge[t] <= Lease
                                THEN lockAge[t] + 1 ELSE lockAge[t]]
  /\ elapsed' = [w \in Worker |-> IF phase[w] = "handling"
                                  THEN elapsed[w] + 1 ELSE elapsed[w]]
  /\ late' = [w \in Worker |-> IF phase[w] \in Bookkeeping
                               THEN late[w] + 1 ELSE late[w]]
  /\ UNCHANGED <<status, attempts, lockedBy, due, approvalId, pauses>>
  /\ UNCHANGED <<phase, job, attempt, retries>>

-----------------------------------------------------------------------------

\* The statements a live run goes through without its handler's help.
RunStep(w) ==
  \/ StartHandler(w)
  \/ HandlerTimesOut(w)
  \/ FinishSucceeded(w)
  \/ RunEnds(w)
  \/ \E a \in Approval : FinishParked(w, a)
  \/ FinishRetry(w)
  \/ FinishGivesUp(w)

Next ==
  \/ \E t \in Task, ready \in BOOLEAN : Enqueue(t, ready)
  \/ \E w \in Worker, t \in Task : Claim(w, t)
  \/ \E w \in Worker :
       \/ RunStep(w)
       \/ \E s \in {"failed", "cancelled"} : Refuse(w, s)
       \/ HandlerReturns(w)
       \/ \E p \in {"erred", "fatal"} : HandlerThrows(w, p)
       \/ HandlerPauses(w)
       \/ SaveFails(w)
       \/ \E t \in Task, ready \in BOOLEAN : SpawnChild(w, t, ready)
       \/ \E p \in FailingAfter : SpawnFails(w, p)
       \/ WorkerDies(w)
  \/ RequeueStale
  \/ \E t \in Task :
       \/ Cancel(t)
       \/ RetryTask(t)
       \/ \E a \in Approval : Resume(t, a)
       \/ CancelWaiting(t)
       \/ BackoffEnds(t)
  \/ Tick

Spec == Init /\ [][Next]_vars

(***************************************************************************)
(* Fairness: the worker loop polls for claims and sweeps every 30 s, the   *)
(* timer of withTimeout fires, a run that is not inside its handler goes   *)
(* on, and time passes.  Nothing is assumed of handlers, of operators, of  *)
(* humans, or of workers staying alive.                                    *)
(***************************************************************************)
Fairness ==
  /\ WF_vars(Tick)
  /\ WF_vars(RequeueStale)
  /\ WF_vars(\E w \in Worker, t \in Task : Claim(w, t))
  /\ \A w \in Worker : WF_vars(RunStep(w))
  /\ \A t \in Task : WF_vars(BackoffEnds(t))

FairSpec == Spec /\ Fairness

-----------------------------------------------------------------------------
(* Properties *)

\* While a run is going, its row is running, locked by that run and counted
\* by its attempt; once the run has finished it as succeeded, the row stays
\* so until the run is over.  No sweep, cancellation, retry, resumption or
\* second claim takes the row away from under a run: two runs never work on
\* one task, and finish, which checks neither the status nor the lock it
\* overwrites, always lands on the run's own claim.
SoleRunner ==
  \A w \in Worker :
    phase[w] # "idle" =>
      /\ attempts[job[w]] = attempt[w]
      /\ phase[w] \in Owning => status[job[w]] = "running" /\ lockedBy[job[w]] = w
      /\ phase[w] \in AfterSuccess => status[job[w]] = "succeeded"
      /\ \A v \in Worker : phase[v] # "idle" /\ job[v] = job[w] => v = w

\* A task is claimed at most MaxAttempts times, plus once for each time an
\* approval resumed it: neither the sweep after a dead worker nor the re-run
\* of a task whose follow-up failed escapes the limit.
AttemptBound ==
  \A t \in Task : attempts[t] <= MaxAttempts + pauses[t]

\* What a terminal status means: cancelled, failed and timed-out rows are
\* only ever re-opened by retryTask, and a succeeded row only by the run
\* that wrote it, in its own catch block.
TerminalIsFinal ==
  [][\A t \in Task :
       status[t] \in Terminal /\ status'[t] # status[t] =>
         \/ status[t] \in Retriable /\ retries' = retries + 1
         \/ /\ status[t] = "succeeded"
            /\ \E w \in Worker : phase[w] \in FailingAfter /\ job[w] = t]_vars

\* Every task that is queued or running comes to rest: it ends, or waits for
\* a human.  Lost workers, timeouts and retries only delay that.
EveryTaskSettles ==
  \A t \in Task :
    status[t] \in {"queued", "running"} ~>
      status[t] \in Terminal \cup {"waiting_approval"}

\* "Recover tasks whose worker died mid-execution": the sweep never takes a
\* row from a run that is still going.
SweepTakesOnlyDeadRuns ==
  [][RequeueStale =>
       \A t \in Task, w \in Worker : Stale(t) /\ job[w] = t => phase[w] = "idle"]_vars

\* "Failures back off exponentially up to maxAttempts": a run that ends in a
\* retryable error gives the task up only when MaxAttempts runs have failed;
\* runs that paused for an approval did not fail.
RetriesAreForFailures ==
  [][\A w \in Worker :
       phase[w] \in {"erred", "overdue"} /\ status'[job[w]] \in {"failed", "timed_out"}
         => attempts[job[w]] - pauses[job[w]] >= MaxAttempts]_vars
=============================================================================
