-------------------------- MODULE TaskQueueProofs --------------------------
(***************************************************************************)
(* What holds of the task queue for every set of tasks, slots and          *)
(* approvals and every limit, as long as the agents' timeout was not       *)
(* raised above the one copied on the task row.                            *)
(***************************************************************************)
EXTENDS TaskQueue, TLAPS

(***************************************************************************)
(* The inductive invariant.  SoleRunner alone is not inductive: it says    *)
(* nothing of a claim's age, and requeueStale would take a row whose claim *)
(* is older than the lease.  HoldsRow adds that the claim of a run is no   *)
(* older than the time its handler and its own statements have taken.      *)
(***************************************************************************)
HoldsRow(w) ==
  /\ job[w] \in Task
  /\ attempts[job[w]] = attempt[w]
  /\ phase[w] \in Owning => /\ status[job[w]] = "running"
                            /\ lockedBy[job[w]] = w
                            /\ lockAge[job[w]] <= elapsed[w] + late[w]
  /\ phase[w] \in AfterSuccess => status[job[w]] = "succeeded"

RunInv ==
  /\ \A w \in Worker : phase[w] # "idle" => HoldsRow(w)
  /\ \A v, w \in Worker :
       phase[v] # "idle" /\ phase[w] # "idle" /\ job[v] = job[w] => v = w

\* A row waiting in the queue has an attempt left.
AttemptInv ==
  \A t \in Task : /\ attempts[t] <= MaxAttempts + pauses[t]
                  /\ status[t] = "queued" => attempts[t] < MaxAttempts + pauses[t]
                  /\ status[t] = "absent" => attempts[t] = 0

-----------------------------------------------------------------------------
(* Types *)

LEMMA InitTypeOK == Init => TypeOK
BY TaskQueueAssumption
DEF Init, TypeOK, Status, Terminal, Phase, Lease

RowTypeOK ==
  /\ status \in [Task -> Status]
  /\ attempts \in [Task -> Nat]
  /\ lockedBy \in [Task -> Worker \cup {NoWorker}]
  /\ lockAge \in [Task -> 0..(Lease + 1)]
  /\ due \subseteq Task
  /\ approvalId \in [Task -> Approval \cup {NoApproval}]
  /\ pauses \in [Task -> 0..MaxPauses]

\* The statement every ending of a run shares keeps the rows typed.
LEMMA FinishType ==
  ASSUME TypeOK, NEW t, NEW s \in Status, NEW a \in Approval \cup {NoApproval},
         Finish(t, s, a)
  PROVE  RowTypeOK'
<1> USE DEF TypeOK, Finish
<1>1. status' \in [Task -> Status]
  OBVIOUS
<1>2. approvalId' \in [Task -> Approval \cup {NoApproval}]
  OBVIOUS
<1>3. lockedBy' \in [Task -> Worker \cup {NoWorker}]
  OBVIOUS
<1>4. lockAge' \in [Task -> 0..(Lease + 1)]
  <2>1. 0 \in 0..(Lease + 1)
    BY TaskQueueAssumption DEF Lease
  <2> QED BY <2>1
<1>5. due' \subseteq Task
  OBVIOUS
<1>6. attempts' \in [Task -> Nat] /\ pauses' \in [Task -> 0..MaxPauses]
  OBVIOUS
<1> QED
  BY <1>1, <1>2, <1>3, <1>4, <1>5, <1>6 DEF RowTypeOK

RunTypeOK ==
  /\ phase \in [Worker -> Phase]
  /\ job \in [Worker -> Task \cup {NoTask}]
  /\ attempt \in [Worker -> Nat]
  /\ elapsed \in [Worker -> 0..AgentTimeout]
  /\ late \in [Worker -> 0..Grace]

LEMMA RunOverType ==
  ASSUME TypeOK, NEW w \in Worker, RunOver(w)
  PROVE  RunTypeOK'
<1>1. 0 \in 0..AgentTimeout /\ 0 \in 0..Grace /\ 0 \in Nat
  BY TaskQueueAssumption
<1>2. "idle" \in Phase
  BY DEF Phase
<1> QED
  BY <1>1, <1>2 DEF TypeOK, RunOver, RunTypeOK

\* Ending a run with a statement on its row.
LEMMA EndingType ==
  ASSUME TypeOK, NEW w \in Worker, NEW s \in Status,
         NEW a \in Approval \cup {NoApproval},
         Finish(job[w], s, a), RunOver(w), UNCHANGED retries
  PROVE  TypeOK'
<1>1. RowTypeOK'
  BY FinishType
<1>2. RunTypeOK'
  BY RunOverType
<1>3. retries' \in 0..MaxRetries
  BY DEF TypeOK
<1> QED
  BY <1>1, <1>2, <1>3 DEF TypeOK, RowTypeOK, RunTypeOK

\* The type invariant is inductive on its own.
LEMMA NextTypeOK == TypeOK /\ [Next]_vars => TypeOK'
<1> SUFFICES ASSUME TypeOK, [Next]_vars PROVE TypeOK'
  OBVIOUS
<1> USE TaskQueueAssumption DEF TypeOK, rowVars, runVars, Lease, Status,
      Terminal, Retriable, Phase, Owning, Failing, FailingAfter, AfterSuccess, Bookkeeping
<1>1. CASE UNCHANGED vars
  BY <1>1 DEF vars
<1>2. ASSUME NEW t \in Task, NEW ready \in BOOLEAN, Enqueue(t, ready) PROVE TypeOK'
  BY <1>2 DEF Enqueue, Insert
<1>3. ASSUME NEW w \in Worker, NEW t \in Task, Claim(w, t) PROVE TypeOK'
  BY <1>3 DEF Claim
<1>4. ASSUME NEW w \in Worker, RunStep(w) PROVE TypeOK'
  <2>1. CASE StartHandler(w) \/ HandlerTimesOut(w)
    BY <2>1 DEF StartHandler, HandlerTimesOut, Goto
  <2>2. CASE FinishSucceeded(w)
    BY <2>2, FinishType DEF FinishSucceeded, RowTypeOK, Goto
  <2>3. CASE RunEnds(w)
    BY <2>3 DEF RunEnds, RunOver
  <2>4. ASSUME NEW a \in Approval, FinishParked(w, a) PROVE TypeOK'
    BY <2>4, EndingType DEF FinishParked
  <2>5. CASE FinishRetry(w)
    BY <2>5, EndingType DEF FinishRetry
  <2>6. CASE FinishGivesUp(w)
    BY <2>6, EndingType DEF FinishGivesUp
  <2> QED BY <1>4, <2>1, <2>2, <2>3, <2>4, <2>5, <2>6 DEF RunStep
<1>5. ASSUME NEW w \in Worker, NEW s \in {"failed", "cancelled"}, Refuse(w, s)
      PROVE TypeOK'
  BY <1>5, EndingType DEF Refuse
<1>6. ASSUME NEW w \in Worker,
             \/ HandlerReturns(w)
             \/ \E p \in {"erred", "fatal"} : HandlerThrows(w, p)
             \/ HandlerPauses(w)
             \/ SaveFails(w)
             \/ \E p \in FailingAfter : SpawnFails(w, p)
      PROVE TypeOK'
  BY <1>6 DEF HandlerReturns, HandlerThrows, HandlerPauses, SaveFails, SpawnFails, Goto
<1>7. ASSUME NEW w \in Worker, NEW t \in Task, NEW ready \in BOOLEAN,
             SpawnChild(w, t, ready)
      PROVE TypeOK'
  BY <1>7 DEF SpawnChild, Insert
<1>8. ASSUME NEW w \in Worker, WorkerDies(w) PROVE TypeOK'
  BY <1>8 DEF WorkerDies, RunOver
<1>9. CASE RequeueStale
  BY <1>9 DEF RequeueStale, Stale
<1>10. ASSUME NEW t \in Task, Cancel(t) \/ CancelWaiting(t) \/ BackoffEnds(t)
       PROVE TypeOK'
  BY <1>10 DEF Cancel, CancelWaiting, BackoffEnds
<1>11. ASSUME NEW t \in Task, RetryTask(t) PROVE TypeOK'
  BY <1>11 DEF RetryTask
<1>12. ASSUME NEW t \in Task, NEW a \in Approval, Resume(t, a) PROVE TypeOK'
  BY <1>12 DEF Resume
<1>13. CASE Tick
  BY <1>13 DEF Tick
<1> QED
  BY <1>1, <1>2, <1>3, <1>4, <1>5, <1>6, <1>7, <1>8, <1>9, <1>10, <1>11, <1>12,
     <1>13 DEF Next

\* The type invariant of the queue, for every instance.
THEOREM TypeCorrect == Spec => []TypeOK
BY InitTypeOK, NextTypeOK, PTL DEF Spec

-----------------------------------------------------------------------------
(* One run per task *)

LEMMA InitRunInv == Init => RunInv
BY DEF Init, RunInv

\* A row that is neither running nor succeeded is held by no run.
LEMMA NotHeld ==
  ASSUME TypeOK, RunInv, NEW t, status[t] \notin {"running", "succeeded"},
         NEW w \in Worker, phase[w] # "idle"
  PROVE  job[w] # t
<1>1. phase[w] \in Owning \cup AfterSuccess
  BY DEF TypeOK, Phase
<1> QED
  BY <1>1 DEF RunInv, HoldsRow

\* A statement on one row that no run holds leaves every run its row.
LEMMA RowStep ==
  ASSUME TypeOK, RunInv, NEW t \in Task, status[t] \notin {"running", "succeeded"},
         UNCHANGED runVars, UNCHANGED lockAge,
         \A u \in Task \ {t} : /\ status'[u] = status[u]
                               /\ attempts'[u] = attempts[u]
                               /\ lockedBy'[u] = lockedBy[u]
  PROVE  RunInv'
<1>1. \A w \in Worker : phase[w] # "idle" => job[w] # t
  BY NotHeld
<1>2. ASSUME NEW w \in Worker, phase'[w] # "idle" PROVE HoldsRow(w)'
  <2>1. HoldsRow(w) /\ job[w] \in Task \ {t}
    BY <1>1, <1>2 DEF RunInv, HoldsRow, runVars
  <2> QED
    BY <2>1 DEF HoldsRow, runVars
<1> QED
  BY <1>2 DEF RunInv, runVars

\* A run that goes on without touching its row keeps it.
LEMMA GotoStep ==
  ASSUME TypeOK, RunInv, NEW w \in Worker, NEW p,
         Goto(w, p), UNCHANGED rowVars,
         \/ phase[w] \in Owning /\ p \in Owning
         \/ phase[w] \in AfterSuccess /\ p \in AfterSuccess
  PROVE  RunInv'
<1>1. phase[w] # "idle" /\ p # "idle"
  BY DEF Owning, AfterSuccess, Failing, FailingAfter
<1>2. p \in Owning => p \notin AfterSuccess
  BY DEF Owning, AfterSuccess, Failing, FailingAfter
<1>3. phase' = [phase EXCEPT ![w] = p]
  BY DEF Goto
<1>4. ASSUME NEW v \in Worker, phase'[v] # "idle" PROVE HoldsRow(v)'
  <2>1. phase[v] # "idle" /\ HoldsRow(v)
    BY <1>1, <1>3, <1>4 DEF RunInv, TypeOK
  <2>2. CASE v = w
    BY <2>1, <2>2, <1>2, <1>3 DEF HoldsRow, Goto, rowVars, TypeOK, AfterSuccess,
         Owning, Failing, FailingAfter
  <2>3. CASE v # w
    BY <2>1, <2>3, <1>3 DEF HoldsRow, Goto, rowVars, TypeOK
  <2> QED BY <2>2, <2>3
<1>5. \A v \in Worker : phase'[v] # "idle" => phase[v] # "idle"
  BY <1>1, <1>3 DEF TypeOK
<1> QED
  BY <1>4, <1>5 DEF RunInv, Goto

\* A run that is over leaves the other runs their rows, whatever its last
\* statement did to its own.
LEMMA OverStep ==
  ASSUME TypeOK, RunInv, NEW w \in Worker, phase[w] # "idle", RunOver(w),
         \A u \in Task \ {job[w]} : /\ status'[u] = status[u]
                                    /\ attempts'[u] = attempts[u]
                                    /\ lockedBy'[u] = lockedBy[u]
                                    /\ lockAge'[u] = lockAge[u]
  PROVE  RunInv'
<1>1. \A v \in Worker : phase'[v] # "idle" =>
        v # w /\ phase'[v] = phase[v] /\ phase[v] # "idle"
  BY DEF RunOver, TypeOK
<1>2. \A v \in Worker \ {w} : /\ job'[v] = job[v] /\ attempt'[v] = attempt[v]
                              /\ elapsed'[v] = elapsed[v] /\ late'[v] = late[v]
  BY DEF RunOver, TypeOK
<1>3. ASSUME NEW v \in Worker, phase'[v] # "idle" PROVE HoldsRow(v)'
  <2>1. HoldsRow(v) /\ job[v] \in Task \ {job[w]}
    BY <1>1, <1>3 DEF RunInv, HoldsRow
  <2> QED
    BY <2>1, <1>1, <1>2, <1>3 DEF HoldsRow
<1> QED
  BY <1>1, <1>2, <1>3 DEF RunInv

LEMMA EndingStep ==
  ASSUME TypeOK, RunInv, NEW w \in Worker, phase[w] # "idle",
         NEW s, NEW a, Finish(job[w], s, a), RunOver(w)
  PROVE  RunInv'
<1>1. \A u \in Task \ {job[w]} : /\ status'[u] = status[u]
                                 /\ attempts'[u] = attempts[u]
                                 /\ lockedBy'[u] = lockedBy[u]
                                 /\ lockAge'[u] = lockAge[u]
  BY DEF Finish, TypeOK
<1> QED
  BY <1>1, OverStep

LEMMA ClaimStep ==
  ASSUME TypeOK, RunInv, NEW w \in Worker, NEW t \in Task, Claim(w, t)
  PROVE  RunInv'
<1>1. \A v \in Worker : phase[v] # "idle" => job[v] # t
  BY NotHeld DEF Claim, Claimable
<1>2. \A v \in Worker \ {w} : phase'[v] = phase[v] /\ job'[v] = job[v]
                              /\ attempt'[v] = attempt[v]
  BY DEF Claim, TypeOK
<1>3. phase'[w] = "claimed" /\ job'[w] = t /\ attempt'[w] = attempts[t] + 1
  BY DEF Claim, TypeOK
<1>4. HoldsRow(w)'
  <2>1. status'[t] = "running" /\ lockedBy'[t] = w /\ lockAge'[t] = 0
        /\ attempts'[t] = attempts[t] + 1
    BY DEF Claim, TypeOK
  <2>2. elapsed'[w] \in Nat /\ late'[w] \in Nat
    BY TaskQueueAssumption DEF Claim, TypeOK
  <2>3. "claimed" \notin AfterSuccess
    BY DEF AfterSuccess, FailingAfter
  <2> QED
    BY <1>3, <2>1, <2>2, <2>3 DEF HoldsRow
<1>5. ASSUME NEW v \in Worker \ {w}, phase'[v] # "idle" PROVE HoldsRow(v)'
  <2>1. HoldsRow(v) /\ job[v] \in Task \ {t}
    BY <1>1, <1>2, <1>5 DEF RunInv, HoldsRow
  <2> QED
    BY <2>1, <1>2 DEF HoldsRow, Claim, TypeOK
<1> QED
  BY <1>1, <1>2, <1>3, <1>4, <1>5 DEF RunInv

LEMMA FinishSucceededStep ==
  ASSUME TypeOK, RunInv, NEW w \in Worker, FinishSucceeded(w)
  PROVE  RunInv'
<1>1. phase[w] = "saving" /\ phase' = [phase EXCEPT ![w] = "spawning"]
      /\ UNCHANGED <<job, attempt, elapsed, late, attempts>>
  BY DEF FinishSucceeded, Goto, Finish
<1>2. HoldsRow(w)'
  <2>1. job[w] \in Task /\ attempts[job[w]] = attempt[w]
    BY <1>1 DEF RunInv, HoldsRow
  <2>2. status'[job[w]] = "succeeded"
    BY <2>1 DEF FinishSucceeded, Finish, TypeOK
  <2>3. phase'[w] = "spawning" /\ "spawning" \notin Owning
    BY <1>1 DEF TypeOK, Owning, Failing
  <2> QED
    BY <1>1, <2>1, <2>2, <2>3 DEF HoldsRow
<1>3. ASSUME NEW v \in Worker \ {w}, phase'[v] # "idle" PROVE HoldsRow(v)'
  <2>1. HoldsRow(v) /\ job[v] \in Task \ {job[w]} /\ phase'[v] = phase[v]
    BY <1>1, <1>3 DEF RunInv, HoldsRow, TypeOK
  <2> QED
    BY <2>1, <1>1 DEF HoldsRow, FinishSucceeded, Finish, TypeOK
<1>4. \A v \in Worker : phase'[v] # "idle" => phase[v] # "idle"
  BY <1>1 DEF TypeOK
<1> QED
  BY <1>1, <1>2, <1>3, <1>4 DEF RunInv

\* This is where the agent's timeout must not exceed the task's: a run that
\* owns its row is within TaskTimeout + Grace of its claim.
LEMMA OwnedNotStale ==
  ASSUME AgentTimeout <= TaskTimeout, TypeOK, RunInv,
         NEW w \in Worker, phase[w] # "idle"
  PROVE  ~Stale(job[w])
<1>1. HoldsRow(w) /\ job[w] \in Task
  BY DEF RunInv, HoldsRow
<1>2. phase[w] \in Owning \cup AfterSuccess
  BY DEF TypeOK, Phase
<1>3. CASE phase[w] \in AfterSuccess
  BY <1>1, <1>3 DEF HoldsRow, Stale
<1>4. CASE phase[w] \in Owning
  <2>1. lockAge[job[w]] <= elapsed[w] + late[w]
    BY <1>1, <1>4 DEF HoldsRow
  <2>2. elapsed[w] \in 0..AgentTimeout /\ late[w] \in 0..Grace
        /\ lockAge[job[w]] \in 0..(Lease + 1)
    BY <1>1 DEF TypeOK
  <2> QED
    BY <2>1, <2>2, TaskQueueAssumption DEF Stale, Lease
<1> QED
  BY <1>2, <1>3, <1>4

LEMMA RequeueStaleStep ==
  ASSUME AgentTimeout <= TaskTimeout, TypeOK, RunInv, RequeueStale
  PROVE  RunInv'
<1>1. ASSUME NEW w \in Worker, phase[w] # "idle" PROVE HoldsRow(w)'
  <2>1. HoldsRow(w) /\ job[w] \in Task /\ ~Stale(job[w])
    BY <1>1, OwnedNotStale DEF RunInv, HoldsRow
  <2> QED
    BY <2>1 DEF HoldsRow, RequeueStale, runVars
<1> QED
  BY <1>1 DEF RunInv, RequeueStale, runVars

LEMMA TickStep ==
  ASSUME TypeOK, RunInv, Tick
  PROVE  RunInv'
<1>1. ASSUME NEW w \in Worker, phase[w] # "idle" PROVE HoldsRow(w)'
  <2>1. HoldsRow(w) /\ job[w] \in Task
    BY <1>1 DEF RunInv, HoldsRow
  <2>2. lockAge[job[w]] \in Nat /\ elapsed[w] \in Nat /\ late[w] \in Nat
    BY <2>1, TaskQueueAssumption DEF TypeOK
  <2>3. elapsed'[w] + late'[w] = elapsed[w] + late[w] + 1
    BY <1>1, <2>2 DEF Tick, TypeOK, Bookkeeping
  <2>4. lockAge'[job[w]] <= lockAge[job[w]] + 1
    BY <2>1, <2>2 DEF Tick
  <2>5. elapsed'[w] \in Nat /\ late'[w] \in Nat /\ lockAge'[job[w]] \in Nat
    BY <2>1, <2>2 DEF Tick
  <2>6. phase[w] \in Owning => lockAge'[job[w]] <= elapsed'[w] + late'[w]
    BY <2>1, <2>2, <2>3, <2>4, <2>5 DEF HoldsRow
  <2> QED
    BY <2>1, <2>6 DEF HoldsRow, Tick
<1> QED
  BY <1>1 DEF RunInv, Tick

LEMMA NextRunInv ==
  ASSUME AgentTimeout <= TaskTimeout, TypeOK, RunInv, [Next]_vars
  PROVE  RunInv'
<1>1. CASE UNCHANGED vars
  BY <1>1 DEF vars, rowVars, runVars, RunInv, HoldsRow
<1>2. ASSUME NEW t \in Task, NEW ready \in BOOLEAN, Insert(t, ready),
             UNCHANGED runVars
      PROVE RunInv'
  <2>1. \A u \in Task \ {t} : status'[u] = status[u]
    BY <1>2 DEF Insert, TypeOK
  <2>2. UNCHANGED <<attempts, lockedBy, lockAge>> /\ status[t] = "absent"
    BY <1>2 DEF Insert
  <2> QED BY <1>2, <2>1, <2>2, RowStep
<1>3. ASSUME NEW w \in Worker, RunStep(w) PROVE RunInv'
  <2>1. CASE StartHandler(w) \/ HandlerTimesOut(w)
    BY <2>1, GotoStep DEF StartHandler, HandlerTimesOut, Owning, Failing
  <2>2. CASE FinishSucceeded(w)
    BY <2>2, FinishSucceededStep
  <2>3. CASE RunEnds(w)
    BY <2>3, OverStep DEF RunEnds, rowVars
  <2>4. ASSUME NEW a \in Approval, FinishParked(w, a) PROVE RunInv'
    BY <2>4, EndingStep DEF FinishParked
  <2>5. CASE FinishRetry(w)
    BY <2>5, EndingStep DEF FinishRetry, CanRetry
  <2>6. CASE FinishGivesUp(w)
    BY <2>6, EndingStep DEF FinishGivesUp, Failing, FailingAfter
  <2> QED BY <1>3, <2>1, <2>2, <2>3, <2>4, <2>5, <2>6 DEF RunStep
<1>4. ASSUME NEW w \in Worker, NEW s \in {"failed", "cancelled"}, Refuse(w, s)
      PROVE RunInv'
  BY <1>4, EndingStep DEF Refuse
<1>5. ASSUME NEW w \in Worker,
             \/ HandlerReturns(w)
             \/ \E p \in {"erred", "fatal"} : HandlerThrows(w, p)
             \/ HandlerPauses(w)
             \/ SaveFails(w)
             \/ \E p \in FailingAfter : SpawnFails(w, p)
      PROVE RunInv'
  BY <1>5, GotoStep DEF HandlerReturns, HandlerThrows, HandlerPauses, SaveFails,
     SpawnFails, Owning, AfterSuccess, Failing
<1>6. ASSUME NEW w \in Worker, WorkerDies(w) PROVE RunInv'
  BY <1>6, OverStep DEF WorkerDies, rowVars
<1>7. ASSUME NEW t \in Task, Cancel(t) \/ CancelWaiting(t) PROVE RunInv'
  <2>1. \A u \in Task \ {t} : status'[u] = status[u]
    BY <1>7 DEF Cancel, CancelWaiting, TypeOK
  <2>2. UNCHANGED <<attempts, lockedBy, lockAge, runVars>>
        /\ status[t] \notin {"running", "succeeded"}
    BY <1>7 DEF Cancel, CancelWaiting
  <2> QED BY <2>1, <2>2, RowStep
<1>8. ASSUME NEW t \in Task, BackoffEnds(t) PROVE RunInv'
  BY <1>8, RowStep DEF BackoffEnds
<1>9. ASSUME NEW t \in Task, RetryTask(t) PROVE RunInv'
  <2>1. \A u \in Task \ {t} : status'[u] = status[u] /\ attempts'[u] = attempts[u]
    BY <1>9 DEF RetryTask, TypeOK
  <2>2. UNCHANGED <<lockedBy, lockAge, runVars>>
        /\ status[t] \notin {"running", "succeeded"}
    BY <1>9 DEF RetryTask, Retriable
  <2> QED BY <2>1, <2>2, RowStep
<1>10. ASSUME NEW t \in Task, NEW a \in Approval, Resume(t, a) PROVE RunInv'
  <2>1. \A u \in Task \ {t} : status'[u] = status[u] /\ lockedBy'[u] = lockedBy[u]
    BY <1>10 DEF Resume, TypeOK
  <2>2. UNCHANGED <<attempts, lockAge, runVars>>
        /\ status[t] \notin {"running", "succeeded"}
    BY <1>10 DEF Resume
  <2> QED BY <2>1, <2>2, RowStep
<1> QED
  BY <1>1, <1>2, <1>3, <1>4, <1>5, <1>6, <1>7, <1>8, <1>9, <1>10,
     ClaimStep, RequeueStaleStep, TickStep DEF Next, Enqueue, SpawnChild

LEMMA RunInvHolds ==
  ASSUME AgentTimeout <= TaskTimeout
  PROVE  Spec => [](TypeOK /\ RunInv)
<1>1. TypeOK /\ RunInv /\ [Next]_vars => (TypeOK /\ RunInv)'
  BY NextTypeOK, NextRunInv
<1> QED
  BY InitTypeOK, InitRunInv, <1>1, PTL DEF Spec

\* No two runs ever work on one task, and every statement of a run lands on
\* the row it still holds, for any number of tasks, slots and attempts,
\* provided the agents' timeout does not exceed the tasks'.
THEOREM OneRunPerTask ==
  ASSUME AgentTimeout <= TaskTimeout
  PROVE  Spec => []SoleRunner
<1>1. TypeOK /\ RunInv => SoleRunner
  BY DEF RunInv, HoldsRow, SoleRunner
<1> QED
  BY RunInvHolds, <1>1, PTL

\* Under the same condition requeueStale only ever takes the rows of runs
\* that are gone.
THEOREM SweepIsSafe ==
  ASSUME AgentTimeout <= TaskTimeout
  PROVE  Spec => SweepTakesOnlyDeadRuns
<1>1. ASSUME TypeOK, RunInv, [Next]_vars
      PROVE  [RequeueStale =>
                \A t \in Task, w \in Worker :
                  Stale(t) /\ job[w] = t => phase[w] = "idle"]_vars
  BY <1>1, OwnedNotStale
<1> QED
  BY RunInvHolds, <1>1, PTL DEF Spec, SweepTakesOnlyDeadRuns

-----------------------------------------------------------------------------
(* The limit on attempts *)

LEMMA InitAttemptInv == Init => AttemptInv
<1> SUFFICES ASSUME Init, NEW t \in Task
             PROVE  /\ attempts[t] <= MaxAttempts + pauses[t]
                    /\ status[t] # "queued" /\ attempts[t] = 0
  BY DEF AttemptInv
<1>1. attempts[t] = 0 /\ pauses[t] = 0 /\ status[t] = "absent"
  BY DEF Init
<1> QED
  BY <1>1, TaskQueueAssumption

\* finish puts a row back in the queue only with an attempt left.
LEMMA FinishAttempts ==
  ASSUME TypeOK, AttemptInv, NEW t \in Task, NEW s \in Status \ {"absent"}, NEW a,
         Finish(t, s, a), s = "queued" => attempts[t] < MaxAttempts
  PROVE  AttemptInv'
<1>1. ASSUME NEW u \in Task, u # t
      PROVE  status'[u] = status[u]
  BY <1>1 DEF Finish, TypeOK
<1>2. status'[t] = s /\ UNCHANGED <<attempts, pauses>>
  BY DEF Finish, TypeOK
<1>3. attempts[t] \in Nat /\ pauses[t] \in Nat /\ MaxAttempts \in Nat
  BY TaskQueueAssumption DEF TypeOK
<1> QED
  BY <1>1, <1>2, <1>3 DEF AttemptInv

LEMMA NextAttemptInv ==
  ASSUME TypeOK, RunInv, AttemptInv, [Next]_vars
  PROVE  AttemptInv'
<1> USE DEF rowVars
<1>0. /\ MaxAttempts \in Nat \ {0}
      /\ \A t \in Task : attempts[t] \in Nat /\ pauses[t] \in Nat
  BY TaskQueueAssumption DEF TypeOK
<1>1. CASE UNCHANGED rowVars
  BY <1>1 DEF AttemptInv
<1>2. ASSUME NEW t \in Task, NEW ready \in BOOLEAN, Insert(t, ready) PROVE AttemptInv'
  BY <1>0, <1>2 DEF Insert, AttemptInv, TypeOK
<1>3. ASSUME NEW w \in Worker, NEW t \in Task, Claim(w, t) PROVE AttemptInv'
  BY <1>0, <1>3 DEF Claim, Claimable, AttemptInv, TypeOK
<1>4. ASSUME NEW w \in Worker, phase[w] # "idle",
             NEW s \in Status \ {"absent"}, NEW a,
             Finish(job[w], s, a), s = "queued" => CanRetry(w)
      PROVE AttemptInv'
  <2>1. job[w] \in Task /\ attempts[job[w]] = attempt[w]
    BY <1>4 DEF RunInv, HoldsRow
  <2> QED
    BY <1>4, <2>1, FinishAttempts DEF CanRetry
<1>5. ASSUME NEW w \in Worker, RunStep(w) PROVE AttemptInv'
  <2>1. CASE StartHandler(w) \/ HandlerTimesOut(w) \/ RunEnds(w)
    BY <2>1, <1>1 DEF StartHandler, HandlerTimesOut, RunEnds
  <2>2. CASE FinishSucceeded(w)
    BY <2>2, <1>4 DEF FinishSucceeded, Status, Terminal
  <2>3. ASSUME NEW a \in Approval, FinishParked(w, a) PROVE AttemptInv'
    BY <2>3, <1>4 DEF FinishParked, Status
  <2>4. CASE FinishRetry(w)
    BY <2>4, <1>4 DEF FinishRetry, CanRetry, Status
  <2>5. CASE FinishGivesUp(w)
    BY <2>5, <1>4 DEF FinishGivesUp, Failing, FailingAfter, Status, Terminal
  <2> QED BY <1>5, <2>1, <2>2, <2>3, <2>4, <2>5 DEF RunStep
<1>6. ASSUME NEW w \in Worker, NEW s \in {"failed", "cancelled"}, Refuse(w, s)
      PROVE AttemptInv'
  BY <1>6, <1>4 DEF Refuse, Status, Terminal
<1>7. CASE RequeueStale
  <2>1. ASSUME NEW t \in Task
        PROVE  /\ status'[t] = "queued" => status[t] = "queued" \/ attempts[t] < MaxAttempts
               /\ status'[t] = "absent" => status[t] = "absent"
    BY <1>7 DEF RequeueStale
  <2>2. UNCHANGED <<attempts, pauses>>
    BY <1>7 DEF RequeueStale
  <2> QED BY <1>0, <2>1, <2>2 DEF AttemptInv
<1>8. ASSUME NEW t \in Task, Cancel(t) \/ CancelWaiting(t) \/ BackoffEnds(t)
      PROVE AttemptInv'
  BY <1>8 DEF Cancel, CancelWaiting, BackoffEnds, AttemptInv, TypeOK
<1>9. ASSUME NEW t \in Task, RetryTask(t) PROVE AttemptInv'
  BY <1>0, <1>9 DEF RetryTask, AttemptInv, TypeOK
<1>10. ASSUME NEW t \in Task, NEW a \in Approval, Resume(t, a) PROVE AttemptInv'
  BY <1>0, <1>10 DEF Resume, AttemptInv, TypeOK
<1>11. CASE Tick
  BY <1>11 DEF Tick, AttemptInv
<1> QED
  BY <1>1, <1>2, <1>3, <1>5, <1>6, <1>7, <1>8, <1>9, <1>10, <1>11
  DEF Next, Enqueue, SpawnChild, HandlerReturns, HandlerThrows, HandlerPauses,
      SaveFails, SpawnFails, WorkerDies, vars

\* However runs fail, die, pause or are swept, a task is claimed at most
\* MaxAttempts times plus once per resumption.
THEOREM AttemptsAreBounded ==
  ASSUME AgentTimeout <= TaskTimeout
  PROVE  Spec => []AttemptBound
<1>1. TypeOK /\ RunInv /\ AttemptInv /\ [Next]_vars => AttemptInv'
  BY NextAttemptInv
<1>2. AttemptInv => AttemptBound
  BY DEF AttemptInv, AttemptBound
<1> QED
  BY RunInvHolds, InitAttemptInv, <1>1, <1>2, PTL DEF Spec

-----------------------------------------------------------------------------
(* What a step may do to a row *)

\* While a run goes on it stays with its task, and nobody but the run itself
\* writes the approval id of that task.
LEMMA RunKeepsItsApproval ==
  ASSUME TypeOK, RunInv, [Next]_vars,
         NEW w \in Worker, phase[w] # "idle", phase'[w] # "idle"
  PROVE  job'[w] = job[w] /\ approvalId'[job[w]] = approvalId[job[w]]
<1> USE DEF rowVars, runVars
<1>1. /\ job[w] \in Task
      /\ \A v \in Worker \ {w} : phase[v] # "idle" => job[v] # job[w]
      /\ status[job[w]] # "waiting_approval"
  BY NotHeld DEF RunInv, HoldsRow
<1>2. CASE UNCHANGED <<job, approvalId>>
  BY <1>2
<1>3. ASSUME NEW v \in Worker, phase[v] # "idle", RunOver(v),
             \A t \in Task \ {job[v]} : approvalId'[t] = approvalId[t]
      PROVE  job'[w] = job[w] /\ approvalId'[job[w]] = approvalId[job[w]]
  <2>1. v # w /\ job'[w] = job[w]
    BY <1>3 DEF RunOver, TypeOK
  <2>2. job[v] # job[w]
    BY <1>1, <1>3, <2>1
  <2> QED
    BY <1>1, <1>3, <2>1, <2>2
<1>4. ASSUME NEW v \in Worker, NEW s, NEW a, Finish(job[v], s, a)
      PROVE  \A t \in Task \ {job[v]} : approvalId'[t] = approvalId[t]
  BY <1>4 DEF Finish, TypeOK
<1>5. ASSUME NEW v \in Worker, NEW t \in Task, Claim(v, t)
      PROVE  job'[w] = job[w] /\ approvalId'[job[w]] = approvalId[job[w]]
  BY <1>5 DEF Claim, TypeOK
<1>6. ASSUME NEW v \in Worker, RunStep(v)
      PROVE  job'[w] = job[w] /\ approvalId'[job[w]] = approvalId[job[w]]
  <2>1. CASE StartHandler(v) \/ HandlerTimesOut(v)
    BY <2>1, <1>2 DEF StartHandler, HandlerTimesOut, Goto
  <2>2. CASE FinishSucceeded(v)
    BY <2>2, <1>1 DEF FinishSucceeded, Finish, Goto, TypeOK
  <2>3. CASE RunEnds(v)
    BY <2>3, <1>3 DEF RunEnds
  <2>4. ASSUME NEW a \in Approval, FinishParked(v, a)
        PROVE  job'[w] = job[w] /\ approvalId'[job[w]] = approvalId[job[w]]
    BY <2>4, <1>3, <1>4 DEF FinishParked
  <2>5. CASE FinishRetry(v)
    BY <2>5, <1>3, <1>4 DEF FinishRetry, CanRetry
  <2>6. CASE FinishGivesUp(v)
    BY <2>6, <1>3, <1>4 DEF FinishGivesUp, Failing, FailingAfter
  <2> QED BY <1>6, <2>1, <2>2, <2>3, <2>4, <2>5, <2>6 DEF RunStep
<1>7. ASSUME NEW v \in Worker, NEW s \in {"failed", "cancelled"}, Refuse(v, s)
      PROVE  job'[w] = job[w] /\ approvalId'[job[w]] = approvalId[job[w]]
  BY <1>7, <1>3, <1>4 DEF Refuse
<1>8. ASSUME NEW v \in Worker, WorkerDies(v)
      PROVE  job'[w] = job[w] /\ approvalId'[job[w]] = approvalId[job[w]]
  BY <1>8, <1>3 DEF WorkerDies
<1>9. ASSUME NEW t \in Task, NEW a \in Approval, Resume(t, a)
      PROVE  job'[w] = job[w] /\ approvalId'[job[w]] = approvalId[job[w]]
  BY <1>9, <1>1 DEF Resume, TypeOK
<1> QED
  BY <1>2, <1>5, <1>6, <1>7, <1>8, <1>9
  DEF Next, vars, Enqueue, Insert, HandlerReturns, HandlerThrows, HandlerPauses, SaveFails,
      SpawnChild, SpawnFails, Goto, RequeueStale, Cancel, RetryTask, CancelWaiting,
      BackoffEnds, Tick

\* The rows a run may write are its own: whatever status a statement of a run
\* overwrites, the row was running, or succeeded by that very run.
LEMMA FinishesItsOwn ==
  ASSUME TypeOK, RunInv, NEW w \in Worker, phase[w] # "idle"
  PROVE  /\ job[w] \in Task
         /\ phase[w] \in Owning => status[job[w]] = "running"
         /\ phase[w] \in AfterSuccess => status[job[w]] = "succeeded"
         /\ phase[w] \in Owning \cup AfterSuccess
BY DEF RunInv, HoldsRow, TypeOK, Phase

Final(t) ==
  status[t] \in Terminal /\ status'[t] # status[t] =>
    \/ status[t] \in Retriable /\ retries' = retries + 1
    \/ /\ status[t] = "succeeded"
       /\ \E w \in Worker : phase[w] \in FailingAfter /\ job[w] = t

LEMMA NextFinal ==
  ASSUME TypeOK, RunInv, [Next]_vars, NEW t \in Task
  PROVE  Final(t)
<1> USE DEF rowVars, runVars
<1> SUFFICES ASSUME status[t] \in Terminal, status'[t] # status[t]
             PROVE  Final(t)
  BY DEF Final
<1>0. status[t] \notin {"absent", "queued", "running", "waiting_approval"}
  BY DEF Terminal
<1>1. ASSUME NEW w \in Worker, phase[w] # "idle", NEW s, NEW a,
             Finish(job[w], s, a), phase[w] \notin AfterSuccess
      PROVE  FALSE
  <2>1. status[job[w]] = "running"
    BY <1>1, FinishesItsOwn
  <2> QED
    BY <2>1, <1>0, <1>1 DEF Finish, TypeOK
<1>2. ASSUME NEW w \in Worker, phase[w] \in FailingAfter, NEW s, NEW a,
             Finish(job[w], s, a)
      PROVE  Final(t)
  <2>1. job[w] = t
    BY <1>2 DEF Finish, TypeOK
  <2>2. status[t] = "succeeded"
    BY <1>2, <2>1, FinishesItsOwn DEF FailingAfter, AfterSuccess
  <2> QED
    BY <1>2, <2>1, <2>2 DEF Final
<1>3. ASSUME NEW u \in Task, NEW ready \in BOOLEAN, Insert(u, ready) PROVE FALSE
  BY <1>0, <1>3 DEF Insert, TypeOK
<1>4. ASSUME NEW w \in Worker, NEW u \in Task, Claim(w, u) PROVE FALSE
  BY <1>0, <1>4 DEF Claim, Claimable, TypeOK
<1>5. ASSUME NEW w \in Worker, RunStep(w) PROVE Final(t)
  <2>1. CASE StartHandler(w) \/ HandlerTimesOut(w) \/ RunEnds(w)
    BY <2>1 DEF StartHandler, HandlerTimesOut, RunEnds
  <2>2. CASE FinishSucceeded(w)
    BY <2>2, <1>1 DEF FinishSucceeded, AfterSuccess, FailingAfter
  <2>3. ASSUME NEW a \in Approval, FinishParked(w, a) PROVE FALSE
    BY <2>3, <1>1 DEF FinishParked, AfterSuccess, FailingAfter
  <2>4. CASE FinishRetry(w)
    <3>1. phase[w] \in {"erred", "overdue"} \/ phase[w] \in FailingAfter
      BY <2>4 DEF FinishRetry, CanRetry, FailingAfter
    <3> QED BY <2>4, <3>1, <1>1, <1>2 DEF FinishRetry, AfterSuccess, FailingAfter
  <2>5. CASE FinishGivesUp(w)
    BY <2>5, <1>1, <1>2 DEF FinishGivesUp, Failing, AfterSuccess, FailingAfter
  <2> QED BY <1>5, <2>1, <2>2, <2>3, <2>4, <2>5 DEF RunStep
<1>6. ASSUME NEW w \in Worker, NEW s \in {"failed", "cancelled"}, Refuse(w, s)
      PROVE FALSE
  BY <1>6, <1>1 DEF Refuse, AfterSuccess, FailingAfter
<1>7. CASE RequeueStale
  BY <1>0, <1>7 DEF RequeueStale, Stale
<1>8. ASSUME NEW u \in Task, Cancel(u) \/ CancelWaiting(u) PROVE FALSE
  BY <1>0, <1>8 DEF Cancel, CancelWaiting, TypeOK
<1>9. ASSUME NEW u \in Task, RetryTask(u) PROVE Final(t)
  BY <1>9 DEF RetryTask, Final, TypeOK
<1>10. ASSUME NEW u \in Task, NEW a \in Approval, Resume(u, a) PROVE FALSE
  BY <1>0, <1>10 DEF Resume, TypeOK
<1> QED
  BY <1>3, <1>4, <1>5, <1>6, <1>7, <1>8, <1>9, <1>10
  DEF Next, vars, Enqueue, SpawnChild, HandlerReturns, HandlerThrows, HandlerPauses,
      SaveFails, SpawnFails, WorkerDies, BackoffEnds, Tick

\* A terminal status is final for any number of racing statements, sweeps
\* and retries: only retryTask re-opens a task that failed or was cancelled,
\* and only the run that succeeded re-opens its own.
THEOREM TerminalStays ==
  ASSUME AgentTimeout <= TaskTimeout
  PROVE  Spec => TerminalIsFinal
<1>1. ASSUME TypeOK, RunInv, [Next]_vars
      PROVE  [\A t \in Task :
                status[t] \in Terminal /\ status'[t] # status[t] =>
                  \/ status[t] \in Retriable /\ retries' = retries + 1
                  \/ /\ status[t] = "succeeded"
                     /\ \E w \in Worker : phase[w] \in FailingAfter /\ job[w] = t]_vars
  BY <1>1, NextFinal DEF Final
<1> QED
  BY RunInvHolds, <1>1, PTL DEF Spec, TerminalIsFinal
=============================================================================
