------------------------ MODULE TaskApprovalsProofs ------------------------
(***************************************************************************)
(* Tasks that need a human, for any number of tasks, slots, requests and   *)
(* deciding calls: the composition implements the task queue and the       *)
(* approval centre, gated tools run on a human's approval only, and only   *)
(* an approval puts a waiting task back in the queue.                      *)
(*                                                                         *)
(* What was proved of the two components is used here through QP and AP;   *)
(* their steps are those of the instances Q and A of TaskApprovals.        *)
(***************************************************************************)
EXTENDS TaskApprovals, TLAPS

QP == INSTANCE TaskQueueProofs
AP == INSTANCE ApprovalsProofs

-----------------------------------------------------------------------------
(* Q and QP are instances of the same definitions, and so are A and AP     *)

LEMMA SameQueueInit == Q!Init <=> QP!Init
BY DEF Q!Init, QP!Init

\* The statements on the rows, and the ways a run goes on and ends.
LEMMA SameStatements ==
  /\ \A t, s, a : Q!Finish(t, s, a) <=> QP!Finish(t, s, a)
  /\ \A t, ready : Q!Insert(t, ready) <=> QP!Insert(t, ready)
  /\ \A t : Q!Stale(t) <=> QP!Stale(t)
  /\ \A w, p : Q!Goto(w, p) <=> QP!Goto(w, p)
  /\ \A w : Q!RunOver(w) <=> QP!RunOver(w)
  /\ \A w : Q!CanRetry(w) <=> QP!CanRetry(w)
BY DEF Q!Finish, QP!Finish, Q!Insert, QP!Insert, Q!Stale, QP!Stale, Q!Lease, QP!Lease,
    Q!Goto, QP!Goto, Q!RunOver, QP!RunOver, Q!CanRetry, QP!CanRetry

LEMMA SameSets ==
  /\ Q!Failing = QP!Failing /\ Q!FailingAfter = QP!FailingAfter
  /\ Q!Bookkeeping = QP!Bookkeeping /\ Q!Retriable = QP!Retriable
  /\ Q!Lease = QP!Lease
  /\ Q!rowVars = QP!rowVars /\ Q!runVars = QP!runVars
BY DEF Q!Failing, QP!Failing, Q!FailingAfter, QP!FailingAfter, Q!Retriable, QP!Retriable,
    Q!Bookkeeping, QP!Bookkeeping, Q!Phase, QP!Phase, Q!Owning, QP!Owning,
    Q!AfterSuccess, QP!AfterSuccess, Q!Lease, QP!Lease,
    Q!rowVars, QP!rowVars, Q!runVars, QP!runVars

LEMMA SameRunStep == ASSUME NEW w PROVE Q!RunStep(w) <=> QP!RunStep(w)
BY SameStatements
DEF Q!RunStep, QP!RunStep, Q!StartHandler, QP!StartHandler, Q!HandlerTimesOut,
    QP!HandlerTimesOut, Q!FinishSucceeded, QP!FinishSucceeded, Q!RunEnds, QP!RunEnds,
    Q!FinishParked, QP!FinishParked, Q!FinishRetry, QP!FinishRetry,
    Q!FinishGivesUp, QP!FinishGivesUp, Q!Failing, QP!Failing,
    Q!FailingAfter, QP!FailingAfter, Q!rowVars, QP!rowVars

LEMMA SameMaintenance ==
  /\ Q!RequeueStale <=> QP!RequeueStale
  /\ Q!Tick <=> QP!Tick
  /\ \A t : /\ Q!Cancel(t) <=> QP!Cancel(t)
            /\ Q!RetryTask(t) <=> QP!RetryTask(t)
            /\ Q!CancelWaiting(t) <=> QP!CancelWaiting(t)
            /\ Q!BackoffEnds(t) <=> QP!BackoffEnds(t)
            /\ \A a : Q!Resume(t, a) <=> QP!Resume(t, a)
<1>1. Q!RequeueStale <=> QP!RequeueStale
  BY DEF Q!RequeueStale, QP!RequeueStale, Q!Stale, QP!Stale, Q!Lease, QP!Lease,
     Q!runVars, QP!runVars
<1>2. Q!Tick <=> QP!Tick
  BY SameSets DEF Q!Tick, QP!Tick
<1>3. ASSUME NEW t
      PROVE  /\ Q!Cancel(t) <=> QP!Cancel(t)
             /\ Q!RetryTask(t) <=> QP!RetryTask(t)
             /\ Q!CancelWaiting(t) <=> QP!CancelWaiting(t)
             /\ Q!BackoffEnds(t) <=> QP!BackoffEnds(t)
             /\ \A a : Q!Resume(t, a) <=> QP!Resume(t, a)
  BY DEF Q!Cancel, QP!Cancel, Q!RetryTask, QP!RetryTask, Q!CancelWaiting, QP!CancelWaiting,
     Q!BackoffEnds, QP!BackoffEnds, Q!Resume, QP!Resume, Q!Retriable, QP!Retriable,
     Q!runVars, QP!runVars
<1> QED
  BY <1>1, <1>2, <1>3

LEMMA SameQueueNext == Q!Next <=> QP!Next
<1>1. ASSUME NEW t, NEW ready PROVE Q!Enqueue(t, ready) <=> QP!Enqueue(t, ready)
  BY SameStatements DEF Q!Enqueue, QP!Enqueue, Q!runVars, QP!runVars
<1>2. ASSUME NEW w, NEW t PROVE Q!Claim(w, t) <=> QP!Claim(w, t)
  BY DEF Q!Claim, QP!Claim, Q!Claimable, QP!Claimable
<1>3. ASSUME NEW w, NEW s PROVE Q!Refuse(w, s) <=> QP!Refuse(w, s)
  BY SameStatements DEF Q!Refuse, QP!Refuse
<1>4. ASSUME NEW w
      PROVE  /\ Q!HandlerReturns(w) <=> QP!HandlerReturns(w)
             /\ \A p : Q!HandlerThrows(w, p) <=> QP!HandlerThrows(w, p)
             /\ Q!HandlerPauses(w) <=> QP!HandlerPauses(w)
             /\ Q!SaveFails(w) <=> QP!SaveFails(w)
             /\ Q!WorkerDies(w) <=> QP!WorkerDies(w)
  BY SameStatements
  DEF Q!HandlerReturns, QP!HandlerReturns, Q!HandlerThrows, QP!HandlerThrows,
      Q!HandlerPauses, QP!HandlerPauses, Q!SaveFails, QP!SaveFails,
      Q!WorkerDies, QP!WorkerDies, Q!rowVars, QP!rowVars
<1>5. ASSUME NEW w
      PROVE  /\ \A t, ready : Q!SpawnChild(w, t, ready) <=> QP!SpawnChild(w, t, ready)
             /\ \A p : Q!SpawnFails(w, p) <=> QP!SpawnFails(w, p)
  BY SameStatements
  DEF Q!SpawnChild, QP!SpawnChild, Q!SpawnFails, QP!SpawnFails, Q!FailingAfter,
      QP!FailingAfter, Q!rowVars, QP!rowVars, Q!runVars, QP!runVars
<1> QED
  BY <1>1, <1>2, <1>3, <1>4, <1>5, SameRunStep, SameMaintenance, SameSets, Zenon
  DEF Q!Next, QP!Next

LEMMA SameApprovalInit == A!Init <=> AP!Init
BY DEF A!Init, AP!Init, A!Promise!Init, AP!Promise!Init

LEMMA SameApprovalNext == A!Next <=> AP!Next
BY DEF A!Next, AP!Next, A!AskStep, AP!AskStep, A!AskFindsNone, AP!AskFindsNone,
    A!AskFinds, AP!AskFinds, A!Match, AP!Match, A!Insert, AP!Insert, A!AskEnds, AP!AskEnds,
    A!Look, AP!Look, A!Verb, AP!Verb, A!CallStep, AP!CallStep, A!MarkExpired, AP!MarkExpired,
    A!Decide, AP!Decide, A!DecideConflicts, AP!DecideConflicts, A!Execute, AP!Execute,
    A!StoreExecuted, AP!StoreExecuted, A!StoreFailed, AP!StoreFailed, A!Release, AP!Release,
    A!CallDies, AP!CallDies, A!Lapse, AP!Lapse, A!ExpireStale, AP!ExpireStale,
    A!CallGoto, AP!CallGoto, A!CallOver, AP!CallOver, A!Proceed, AP!Proceed,
    A!rowVars, AP!rowVars, A!askVars, AP!askVars, A!callVars, AP!callVars,
    A!history, AP!history

-----------------------------------------------------------------------------
(* The composition implements its two parts *)

(***************************************************************************)
(* What makes a step of the composition a legal step of each part: a run   *)
(* parks its task with an approval that exists, and the statement of a     *)
(* deciding call falls on a task.                                          *)
(***************************************************************************)
LinkInv ==
  /\ helper \in [Worker -> Asker \cup {NoAsker}]
  /\ ticket \in [Worker -> Approval \cup {NoApproval}]
  /\ ran \in [Worker -> Key \cup {NoKey}]
  /\ \A w \in Worker : phase[w] = "parking" => ticket[w] \in Approval

PartsInv ==
  /\ QP!TypeOK
  /\ AP!TypeOK /\ AP!DecisionInv /\ AP!ReleaseInv /\ AP!AnswerInv

SafeInv == PartsInv /\ LinkInv

\* A step of a run.
WorkerStep(w) ==
  \/ \E k \in Key : RunTool(w, k) \/ \E q \in Asker : Ask(w, k, q)
  \/ AskAnswers(w)
  \/ AskThrows(w)
  \/ RunGoesOn(w)
  \/ TimesOut(w)
  \/ RunFinishes(w)
  \/ WorkerDies(w)

\* A step of the queue or of the approval centre alone.
OtherStep ==
  \/ \E q \in Asker : AbandonedAskEnds(q) \/ \E a \in Approval : AskInserts(q, a)
  \/ QueueStep
  \/ \E c \in Caller : Deciding(c) \/ CallStatement(c) \/ CallDies(c)
  \/ Expiry

LEMMA Steps ==
  Next <=> \/ \E w \in Worker : WorkerStep(w)
           \/ OtherStep
           \/ \E c \in Caller : Release(c)
BY DEF Next, NextAlive, WorkerStep, OtherStep, CallProgress

QueueMoves == Q!Next \/ UNCHANGED queueVars
ApprovalMoves == A!Next \/ UNCHANGED approvalVars

LEMMA AskEndsMoves ==
  ASSUME NEW q \in Asker, A!AskEnds(q)
  PROVE  A!Next
BY DEF A!Next, A!AskStep

LEMMA WorkerMoves ==
  ASSUME SafeInv, NEW w \in Worker, WorkerStep(w)
  PROVE  QueueMoves /\ ApprovalMoves
<1> USE DEF QueueMoves, ApprovalMoves
<1>1. helper[w] # NoAsker => helper[w] \in Asker
  BY DEF SafeInv, LinkInv
<1>2. job[w] \in Task \cup {NoTask}
  BY DEF SafeInv, PartsInv, QP!TypeOK
<1>3. ASSUME NEW k \in Key, RunTool(w, k) PROVE QueueMoves /\ ApprovalMoves
  BY <1>3 DEF RunTool
<1>4. ASSUME NEW k \in Key, NEW q \in Asker, Ask(w, k, q)
      PROVE  QueueMoves /\ ApprovalMoves
  BY <1>2, <1>4 DEF Ask, A!Next, A!AskStep
<1>5. CASE AskAnswers(w)
  BY <1>1, <1>5, AskEndsMoves DEF AskAnswers, Q!Next
<1>6. CASE AskThrows(w)
  BY <1>1, <1>6, AskEndsMoves DEF AskThrows, Q!Next
<1>7. CASE RunGoesOn(w)
  BY <1>7 DEF RunGoesOn, Q!Next, Q!RunStep
<1>8. CASE TimesOut(w)
  BY <1>8 DEF TimesOut, Q!Next, Q!RunStep
<1>9. CASE RunFinishes(w)
  <2>1. Q!FinishParked(w, ticket[w]) => ticket[w] \in Approval
    BY DEF Q!FinishParked, SafeInv, LinkInv
  <2> QED BY <1>9, <2>1 DEF RunFinishes, Q!Next, Q!RunStep
<1>10. CASE WorkerDies(w)
  BY <1>1, <1>10, AskEndsMoves DEF WorkerDies, Q!Next
<1> QED
  BY <1>3, <1>4, <1>5, <1>6, <1>7, <1>8, <1>9, <1>10 DEF WorkerStep

LEMMA OtherMoves ==
  ASSUME OtherStep
  PROVE  QueueMoves /\ ApprovalMoves
<1> USE DEF QueueMoves, ApprovalMoves
<1>1. ASSUME NEW q \in Asker, AbandonedAskEnds(q) \/ \E a \in Approval : AskInserts(q, a)
      PROVE  QueueMoves /\ ApprovalMoves
  BY <1>1 DEF AbandonedAskEnds, AskInserts, A!Next, A!AskStep
<1>2. CASE QueueStep
  BY <1>2 DEF QueueStep, Q!Next
<1>3. ASSUME NEW c \in Caller, Deciding(c) \/ CallStatement(c) \/ CallDies(c)
      PROVE  QueueMoves /\ ApprovalMoves
  BY <1>3 DEF Deciding, CallStatement, CallDies, A!Next, A!CallStep
<1>4. CASE Expiry
  BY <1>4 DEF Expiry, A!Next
<1> QED
  BY <1>1, <1>2, <1>3, <1>4 DEF OtherStep

\* A call that releases has a row that names a task.
LEMMA ReleasingCall ==
  ASSUME SafeInv, NEW c \in Caller, Release(c)
  PROVE  /\ callPhase[c] = "releasing" /\ callOn[c] \in Approval
         /\ apTask[callOn[c]] \in Task
         /\ verdict[callOn[c]] = callVerb[c]
BY DEF Release, A!Release, SafeInv, PartsInv, AP!ReleaseInv, AP!Busy

LEMMA ReleaseMoves ==
  ASSUME SafeInv, NEW c \in Caller, Release(c)
  PROVE  QueueMoves /\ ApprovalMoves
<1>1. callOn[c] \in Approval /\ apTask[callOn[c]] \in Task
  BY ReleasingCall
<1>2. QueueMoves
  BY <1>1 DEF Release, QueueMoves, Q!Next
<1>3. ApprovalMoves
  BY DEF Release, ApprovalMoves, A!Next, A!CallStep
<1> QED
  BY <1>2, <1>3

LEMMA StepsOfParts ==
  ASSUME SafeInv, [Next]_vars
  PROVE  /\ [Q!Next]_Q!vars /\ [QP!Next]_QP!vars
         /\ [A!Next]_A!vars /\ [AP!Next]_AP!vars
<1>1. QueueMoves /\ ApprovalMoves
  BY Steps, WorkerMoves, OtherMoves, ReleaseMoves
  DEF QueueMoves, ApprovalMoves, vars
<1>2. UNCHANGED queueVars => UNCHANGED Q!vars /\ UNCHANGED QP!vars
  BY DEF queueVars, Q!vars, QP!vars, Q!rowVars, QP!rowVars, Q!runVars, QP!runVars
<1>3. UNCHANGED approvalVars => UNCHANGED A!vars /\ UNCHANGED AP!vars
  BY DEF approvalVars, A!vars, AP!vars, A!rowVars, AP!rowVars, A!askVars, AP!askVars,
     A!callVars, AP!callVars, A!history, AP!history
<1> QED
  BY <1>1, <1>2, <1>3, SameQueueNext, SameApprovalNext DEF QueueMoves, ApprovalMoves

LEMMA NextPartsInv ==
  ASSUME SafeInv, [Next]_vars
  PROVE  PartsInv'
<1>1. QP!TypeOK /\ AP!TypeOK /\ AP!DecisionInv /\ AP!ReleaseInv /\ AP!AnswerInv
  BY DEF SafeInv, PartsInv
<1>2. [QP!Next]_QP!vars /\ [AP!Next]_AP!vars
  BY StepsOfParts
<1>3. QP!TypeOK'
  BY <1>1, <1>2, QP!NextTypeOK, QueueAssumption
<1>4. AP!TypeOK'
  BY <1>1, <1>2, AP!NextTypeOK, ApprovalAssumption
<1>5. AP!DecisionInv'
  BY <1>1, <1>2, AP!NextDecisionInv, ApprovalAssumption
<1>6. AP!ReleaseInv'
  BY <1>1, <1>2, AP!NextReleaseInv, ApprovalAssumption
<1>7. AP!AnswerInv'
  BY <1>1, <1>2, AP!NextAnswerInv, ApprovalAssumption
<1> QED
  BY <1>3, <1>4, <1>5, <1>6, <1>7 DEF PartsInv

\* The steps of the queue that no handler's tool takes part in: they begin no
\* pause and end no run.
LEMMA PhaseOfRunGoesOn ==
  ASSUME SafeInv, NEW w \in Worker, RunGoesOn(w) \/ TimesOut(w) \/ AskThrows(w)
  PROVE  \A v \in Worker : /\ phase'[v] = "parking" => phase[v] = "parking"
                           /\ phase[v] # "idle" => phase'[v] # "idle"
<1>1. phase \in [Worker -> QP!Phase]
  BY DEF SafeInv, PartsInv, QP!TypeOK
<1>2. ASSUME NEW p, Q!Goto(w, p), p \notin {"parking", "idle"}
      PROVE  \A v \in Worker : /\ phase'[v] = "parking" => phase[v] = "parking"
                               /\ phase[v] # "idle" => phase'[v] # "idle"
  BY <1>1, <1>2 DEF Q!Goto
<1>3. CASE RunGoesOn(w)
  <2>1. CASE \E t \in Task, ready \in BOOLEAN : Q!SpawnChild(w, t, ready)
    BY <2>1 DEF Q!SpawnChild, Q!runVars
  <2>2. CASE \E p \in Q!FailingAfter : Q!SpawnFails(w, p)
    BY <2>2, <1>2 DEF Q!SpawnFails, Q!FailingAfter
  <2> QED
    BY <1>2, <1>3, <2>1, <2>2 DEF RunGoesOn, Q!StartHandler, Q!HandlerReturns,
       Q!HandlerThrows, Q!SaveFails, Q!FinishSucceeded
<1>4. CASE TimesOut(w)
  BY <1>2, <1>4 DEF TimesOut, Q!HandlerTimesOut
<1>5. CASE AskThrows(w)
  BY <1>2, <1>5 DEF AskThrows, Q!HandlerThrows
<1> QED
  BY <1>3, <1>4, <1>5

\* A run that is over is idle and leaves the others where they are.
LEMMA PhaseOfRunOver ==
  ASSUME SafeInv, NEW w \in Worker, RunFinishes(w) \/ WorkerDies(w)
  PROVE  /\ phase'[w] = "idle" /\ ticket'[w] = NoApproval /\ ran'[w] = NoKey
         /\ \A v \in Worker \ {w} : /\ phase'[v] = phase[v]
                                    /\ ticket'[v] = ticket[v] /\ ran'[v] = ran[v]
         /\ helper' \in [Worker -> Asker \cup {NoAsker}]
         /\ ticket' \in [Worker -> Approval \cup {NoApproval}]
         /\ ran' \in [Worker -> Key \cup {NoKey}]
<1>1. phase \in [Worker -> QP!Phase] /\ LinkInv
  BY DEF SafeInv, PartsInv, QP!TypeOK
<1>2. Q!RunOver(w)
  BY DEF RunFinishes, WorkerDies, Q!WorkerDies, Q!Refuse, Q!RunEnds, Q!FinishParked,
     Q!FinishRetry, Q!FinishGivesUp
<1>3. /\ ticket' = [ticket EXCEPT ![w] = NoApproval]
      /\ ran' = [ran EXCEPT ![w] = NoKey]
      /\ helper' = helper \/ helper' = [helper EXCEPT ![w] = NoAsker]
  BY DEF RunFinishes, WorkerDies
<1> QED
  BY <1>1, <1>2, <1>3 DEF Q!RunOver, LinkInv

\* A new claim is the only step of QueueStep that moves a run.
LEMMA PhaseOfOtherStep ==
  ASSUME SafeInv, OtherStep
  PROVE  /\ UNCHANGED linkVars
         /\ \A v \in Worker : /\ phase'[v] = "parking" => phase[v] = "parking"
                              /\ phase[v] # "idle" => phase'[v] # "idle"
<1>1. phase \in [Worker -> QP!Phase]
  BY DEF SafeInv, PartsInv, QP!TypeOK
<1>2. ASSUME NEW w \in Worker, NEW t \in Task, Q!Claim(w, t)
      PROVE  \A v \in Worker : /\ phase'[v] = "parking" => phase[v] = "parking"
                               /\ phase[v] # "idle" => phase'[v] # "idle"
  BY <1>1, <1>2 DEF Q!Claim
<1>3. ASSUME QueueStep, ~ \E w \in Worker, t \in Task : Q!Claim(w, t)
      PROVE  phase' = phase
  BY <1>3 DEF QueueStep, Q!Enqueue, Q!RequeueStale, Q!Cancel, Q!RetryTask, Q!BackoffEnds,
     Q!Tick, Q!runVars
<1>4. ASSUME OtherStep, ~QueueStep
      PROVE  phase' = phase
  BY <1>4 DEF OtherStep, AbandonedAskEnds, AskInserts, Deciding, CallStatement, CallDies,
     Expiry, queueVars
<1>5. UNCHANGED linkVars
  BY DEF OtherStep, AbandonedAskEnds, AskInserts, QueueStep, Deciding, CallStatement,
     CallDies, Expiry
<1> QED
  BY <1>2, <1>3, <1>4, <1>5

LEMMA PhaseOfRelease ==
  ASSUME NEW c \in Caller, Release(c)
  PROVE  UNCHANGED <<phase, linkVars>>
BY DEF Release, Q!Resume, Q!CancelWaiting, Q!runVars, queueVars

\* Only a run whose request was answered begins to park its task.
LEMMA NextLinkInv ==
  ASSUME SafeInv, [Next]_vars
  PROVE  LinkInv'
<1> USE DEF linkVars
<1>1. phase \in [Worker -> QP!Phase] /\ LinkInv
  BY DEF SafeInv, PartsInv, QP!TypeOK
<1>2. ASSUME UNCHANGED <<ticket, ran>>, helper' \in [Worker -> Asker \cup {NoAsker}],
             \A v \in Worker : phase'[v] = "parking" => phase[v] = "parking"
      PROVE  LinkInv'
  BY <1>1, <1>2 DEF LinkInv
<1>3. CASE UNCHANGED vars
  BY <1>1, <1>3 DEF LinkInv, vars, queueVars
<1>4. ASSUME NEW w \in Worker, WorkerStep(w) PROVE LinkInv'
  <2>1. ASSUME NEW k \in Key, RunTool(w, k) PROVE LinkInv'
    BY <1>1, <2>1 DEF RunTool, LinkInv, queueVars
  <2>2. ASSUME NEW k \in Key, NEW q \in Asker, Ask(w, k, q) PROVE LinkInv'
    BY <1>1, <1>2, <2>2 DEF Ask, LinkInv, queueVars
  <2>3. CASE AskAnswers(w)
    <3>1. helper[w] \in Asker /\ askGot[helper[w]] \in Approval
      BY <1>1, <2>3 DEF AskAnswers, LinkInv, SafeInv, PartsInv, AP!AnswerInv
    <3>2. phase' = [phase EXCEPT ![w] = "parking"]
      BY <2>3 DEF AskAnswers, Q!HandlerPauses, Q!Goto
    <3> QED BY <1>1, <2>3, <3>1, <3>2 DEF AskAnswers, LinkInv
  <2>4. CASE RunGoesOn(w) \/ TimesOut(w)
    BY <1>1, <1>2, <2>4, PhaseOfRunGoesOn DEF RunGoesOn, TimesOut, LinkInv
  <2>5. CASE AskThrows(w)
    BY <1>1, <1>2, <2>5, PhaseOfRunGoesOn DEF AskThrows, LinkInv
  <2>6. CASE RunFinishes(w) \/ WorkerDies(w)
    BY <1>1, <2>6, PhaseOfRunOver DEF LinkInv
  <2> QED BY <1>4, <2>1, <2>2, <2>3, <2>4, <2>5, <2>6 DEF WorkerStep
<1>5. CASE OtherStep
  BY <1>1, <1>2, <1>5, PhaseOfOtherStep DEF LinkInv
<1>6. ASSUME NEW c \in Caller, Release(c) PROVE LinkInv'
  BY <1>1, <1>6, PhaseOfRelease DEF LinkInv
<1> QED
  BY <1>3, <1>4, <1>5, <1>6, Steps

LEMMA InitSafeInv == Init => SafeInv
<1> SUFFICES ASSUME Init PROVE SafeInv
  OBVIOUS
<1>1. QP!Init /\ AP!Init
  BY SameQueueInit, SameApprovalInit DEF Init
<1>2. QP!TypeOK
  BY <1>1, QP!InitTypeOK, QueueAssumption
<1>3. AP!TypeOK /\ AP!DecisionInv /\ AP!ReleaseInv /\ AP!AnswerInv
  BY <1>1, AP!InitTypeOK, AP!InitDecisionInv, AP!InitReleaseInv, ApprovalAssumption
<1>4. LinkInv
  BY DEF Init, Q!Init, LinkInv
<1> QED
  BY <1>2, <1>3, <1>4 DEF SafeInv, PartsInv

LEMMA SafeInvHolds == Spec => []SafeInv
<1>1. SafeInv /\ [Next]_vars => SafeInv'
  BY NextPartsInv, NextLinkInv DEF SafeInv
<1> QED
  BY InitSafeInv, <1>1, PTL DEF Spec

\* Joining the two services gives neither a behaviour it does not have
\* alone: what is proved of the task queue holds of the tasks here, ...
THEOREM ImplementsTaskQueue == Spec => Q!Spec
<1>1. Init => Q!Init
  BY DEF Init
<1>2. SafeInv /\ [Next]_vars => [Q!Next]_Q!vars
  BY StepsOfParts
<1> QED
  BY SafeInvHolds, <1>1, <1>2, PTL DEF Spec, Q!Spec

\* ... and what is proved of the approval centre holds of the approvals.
THEOREM ImplementsApprovals == Spec => A!Spec
<1>1. Init => A!Init
  BY DEF Init
<1>2. SafeInv /\ [Next]_vars => [A!Next]_A!vars
  BY StepsOfParts
<1> QED
  BY SafeInvHolds, <1>1, <1>2, PTL DEF Spec, A!Spec

-----------------------------------------------------------------------------
(* Gated tools run on a human's approval *)

(***************************************************************************)
(* The inductive invariant behind GatedRunNeedsHuman.  Granted looks at    *)
(* the approval when the tool is called; that it still holds while the run *)
(* goes on needs that nobody else writes the task's approval id (RunInv:   *)
(* the run is the only one that holds the row) and that a decided row      *)
(* keeps its request and its decision (DecisionInv, RowStays).             *)
(***************************************************************************)
RanOnApproval(w) ==
  /\ phase[w] # "idle"
  /\ approvalId[job[w]] \in Approval
  /\ verdict[approvalId[job[w]]] = "approved"
  /\ ToolOf[apKey[approvalId[job[w]]]] = ToolOf[ran[w]]

GatedInv == \A w \in Worker : ran[w] # NoKey => RanOnApproval(w)

\* What an approval says stays so, whoever takes the next step.
LEMMA ApprovedRow ==
  ASSUME SafeInv, [Next]_vars, NEW a \in Approval, verdict[a] = "approved"
  PROVE  verdict'[a] = "approved" /\ apKey'[a] = apKey[a]
<1>1. AP!TypeOK /\ AP!DecisionInv /\ [AP!Next]_AP!vars
  BY StepsOfParts DEF SafeInv, PartsInv
<1>2. apStatus[a] # "absent"
  BY <1>1 DEF AP!DecisionInv, AP!RowInv
<1> QED
  BY <1>1, <1>2, AP!RowStays, ApprovalAssumption

\* And a run that goes on keeps the approval its tool was run on.
LEMMA RunKeepsGrant ==
  ASSUME SafeInv, QP!RunInv, [Next]_vars, NEW w \in Worker, RanOnApproval(w),
         phase'[w] # "idle", ran'[w] = ran[w]
  PROVE  RanOnApproval(w)'
<1>1. QP!TypeOK /\ [QP!Next]_QP!vars
  BY StepsOfParts DEF SafeInv, PartsInv
<1>2. job'[w] = job[w] /\ approvalId'[job[w]] = approvalId[job[w]]
  BY <1>1, QP!RunKeepsItsApproval, QueueAssumption DEF RanOnApproval
<1> QED
  BY <1>2, ApprovedRow DEF RanOnApproval

LEMMA ToolGranted ==
  ASSUME SafeInv, QP!RunInv, NEW w \in Worker, NEW k \in Key, RunTool(w, k)
  PROVE  RanOnApproval(w)'
<1>1. /\ phase[w] = "handling" /\ Granted(job[w], k)
      /\ ran'[w] = k /\ UNCHANGED <<queueVars, approvalVars>>
  BY DEF RunTool, InHandler, SafeInv, LinkInv
<1>2. job[w] \in Task
  BY <1>1 DEF QP!RunInv, QP!HoldsRow
<1>3. approvalId[job[w]] \in Approval
  BY <1>1, <1>2 DEF Granted, SafeInv, PartsInv, QP!TypeOK
<1>4. verdict[approvalId[job[w]]] = "approved"
  BY <1>1, <1>3 DEF Granted, SafeInv, PartsInv, AP!DecisionInv, AP!RowInv
<1> QED
  BY <1>1, <1>3, <1>4 DEF RanOnApproval, Granted, queueVars, approvalVars

LEMMA NextGatedInv ==
  ASSUME SafeInv, QP!RunInv, GatedInv, [Next]_vars
  PROVE  GatedInv'
<1> SUFFICES ASSUME NEW w \in Worker, ran'[w] # NoKey PROVE RanOnApproval(w)'
  BY DEF GatedInv
<1>1. ASSUME ran'[w] = ran[w], phase[w] # "idle" => phase'[w] # "idle"
      PROVE  RanOnApproval(w)'
  BY <1>1, RunKeepsGrant DEF GatedInv, RanOnApproval
<1>2. CASE UNCHANGED vars
  BY <1>1, <1>2 DEF vars, queueVars, linkVars
<1>3. ASSUME NEW v \in Worker, WorkerStep(v) PROVE RanOnApproval(w)'
  <2>1. ASSUME NEW k \in Key, RunTool(v, k) PROVE RanOnApproval(w)'
    <3>1. CASE v = w
      BY <2>1, <3>1, ToolGranted
    <3>2. CASE v # w
      BY <1>1, <2>1, <3>2 DEF RunTool, queueVars, SafeInv, LinkInv
    <3> QED BY <3>1, <3>2
  <2>2. ASSUME NEW k \in Key, NEW q \in Asker, Ask(v, k, q) PROVE RanOnApproval(w)'
    BY <1>1, <2>2 DEF Ask, queueVars
  <2>3. CASE AskAnswers(v)
    <3>1. phase' = [phase EXCEPT ![v] = "parking"] /\ phase \in [Worker -> QP!Phase]
      BY <2>3 DEF AskAnswers, Q!HandlerPauses, Q!Goto, SafeInv, PartsInv, QP!TypeOK
    <3> QED BY <1>1, <2>3, <3>1 DEF AskAnswers
  <2>4. CASE RunGoesOn(v) \/ TimesOut(v) \/ AskThrows(v)
    BY <1>1, <2>4, PhaseOfRunGoesOn DEF RunGoesOn, TimesOut, AskThrows, linkVars
  <2>5. CASE RunFinishes(v) \/ WorkerDies(v)
    BY <1>1, <2>5, PhaseOfRunOver
  <2> QED BY <1>3, <2>1, <2>2, <2>3, <2>4, <2>5 DEF WorkerStep
<1>4. CASE OtherStep
  BY <1>1, <1>4, PhaseOfOtherStep DEF linkVars
<1>5. ASSUME NEW c \in Caller, Release(c) PROVE RanOnApproval(w)'
  BY <1>1, <1>5, PhaseOfRelease DEF linkVars
<1> QED
  BY <1>2, <1>3, <1>4, <1>5, Steps

LEMMA GatedInvHolds ==
  ASSUME AgentTimeout <= TaskTimeout
  PROVE  Spec => [](SafeInv /\ QP!RunInv /\ GatedInv)
<1>1. Init => QP!RunInv /\ GatedInv
  <2>1. ASSUME Init PROVE QP!RunInv
    BY <2>1, QP!InitRunInv, SameQueueInit, QueueAssumption DEF Init
  <2>2. ASSUME Init PROVE GatedInv
    BY <2>2 DEF Init, GatedInv
  <2> QED BY <2>1, <2>2
<1>2. SafeInv /\ QP!RunInv /\ GatedInv /\ [Next]_vars
        => (SafeInv /\ QP!RunInv /\ GatedInv)'
  <2> SUFFICES ASSUME SafeInv, QP!RunInv, GatedInv, [Next]_vars
               PROVE  (SafeInv /\ QP!RunInv /\ GatedInv)'
    OBVIOUS
  <2>1. SafeInv'
    BY NextPartsInv, NextLinkInv DEF SafeInv
  <2>2. QP!RunInv'
    BY StepsOfParts, QP!NextRunInv, QueueAssumption DEF SafeInv, PartsInv
  <2> QED BY <2>1, <2>2, NextGatedInv
<1> QED
  BY InitSafeInv, <1>1, <1>2, PTL DEF Spec

\* A gated tool is run only in a task that was resumed with an approval that
\* a human gave for that tool: for any number of tasks, slots, requests and
\* deciding calls, racing, dying and timing out, as long as the agents'
\* timeout does not exceed the tasks'.
THEOREM ToolsNeedApproval ==
  ASSUME AgentTimeout <= TaskTimeout
  PROVE  Spec => []GatedRunNeedsHuman
<1>1. GatedInv => GatedRunNeedsHuman
  BY ApprovalAssumption DEF GatedInv, RanOnApproval, GatedRunNeedsHuman
<1> QED
  BY GatedInvHolds, <1>1, PTL

-----------------------------------------------------------------------------
(* Only an approval resumes a waiting task *)

\* The statements of the queue never do.
LEMMA QueueKeepsWaiting ==
  ASSUME SafeInv, QP!RunInv, NEW t \in Task,
         status[t] = "waiting_approval", status'[t] = "queued",
         OtherStep \/ \E w \in Worker : WorkerStep(w)
  PROVE  FALSE
<1>1. status \in [Task -> QP!Status]
  BY DEF SafeInv, PartsInv, QP!TypeOK
<1>2. ASSUME NEW w \in Worker, RunFinishes(w) PROVE FALSE
  <2>1. CASE Q!RunEnds(w)
    BY <2>1 DEF Q!RunEnds, Q!rowVars
  <2>2. ASSUME NEW s, NEW a, Q!Finish(job[w], s, a), phase[w] # "idle" PROVE FALSE
    <3>1. job[w] # t
      BY <2>2, QP!NotHeld, QueueAssumption DEF SafeInv, PartsInv
    <3> QED BY <1>1, <2>2, <3>1 DEF Q!Finish
  <2> QED
    BY <1>2, <2>1, <2>2 DEF RunFinishes, Q!Refuse, Q!FinishParked, Q!FinishRetry,
       Q!CanRetry, Q!FinishGivesUp, Q!Failing, Q!FailingAfter
<1>3. ASSUME NEW w \in Worker, RunGoesOn(w) PROVE FALSE
  <2>1. CASE Q!FinishSucceeded(w)
    BY <1>1, <2>1 DEF Q!FinishSucceeded, Q!Finish
  <2>2. ASSUME NEW u \in Task, NEW ready \in BOOLEAN, Q!SpawnChild(w, u, ready)
        PROVE FALSE
    BY <1>1, <2>2 DEF Q!SpawnChild, Q!Insert
  <2> QED
    BY <1>3, <2>1, <2>2 DEF RunGoesOn, Q!StartHandler, Q!HandlerReturns,
       Q!HandlerThrows, Q!SaveFails, Q!SpawnFails, Q!rowVars
<1>4. ASSUME NEW w \in Worker, WorkerStep(w), ~RunFinishes(w), ~RunGoesOn(w)
      PROVE  FALSE
  BY <1>4 DEF WorkerStep, RunTool, Ask, AskAnswers, AskThrows, TimesOut, WorkerDies,
     Q!HandlerPauses, Q!HandlerThrows, Q!HandlerTimesOut, Q!WorkerDies, Q!rowVars, queueVars
<1>5. CASE QueueStep
  BY <1>1, <1>5 DEF QueueStep, Q!Enqueue, Q!Insert, Q!Claim, Q!RequeueStale, Q!Stale,
     Q!Cancel, Q!RetryTask, Q!Retriable, Q!BackoffEnds, Q!Tick
<1>6. CASE OtherStep /\ ~QueueStep
  BY <1>6 DEF OtherStep, AbandonedAskEnds, AskInserts, Deciding, CallStatement, CallDies,
     Expiry, queueVars
<1> QED
  BY <1>2, <1>3, <1>4, <1>5, <1>6

\* A task that waits for a human goes back to the queue only when a human
\* approved a request of that very task, under the same condition.
THEOREM OnlyHumansResume ==
  ASSUME AgentTimeout <= TaskTimeout
  PROVE  Spec => OnlyApprovalResumes
<1>1. ASSUME SafeInv, QP!RunInv, Next, NEW t \in Task,
             status[t] = "waiting_approval", status'[t] = "queued"
      PROVE  \E a \in Approval : apTask[a] = t /\ verdict[a] = "approved"
  <2>1. PICK c \in Caller : Release(c)
    BY <1>1, Steps, QueueKeepsWaiting
  <2>2. /\ callOn[c] \in Approval /\ apTask[callOn[c]] \in Task
        /\ verdict[callOn[c]] = callVerb[c]
    BY <1>1, <2>1, ReleasingCall
  <2>3. status \in [Task -> QP!Status]
    BY <1>1 DEF SafeInv, PartsInv, QP!TypeOK
  <2>4. apTask[callOn[c]] = t /\ callVerb[c] = "approved"
    BY <1>1, <2>1, <2>2, <2>3 DEF Release, Q!Resume, Q!CancelWaiting, queueVars
  <2> QED BY <2>2, <2>4
<1>2. SafeInv /\ QP!RunInv /\ [Next]_vars =>
        [\A t \in Task :
           status[t] = "waiting_approval" /\ status'[t] = "queued" =>
             \E a \in Approval : apTask[a] = t /\ verdict[a] = "approved"]_vars
  BY <1>1
<1> QED
  BY GatedInvHolds, <1>2, PTL DEF Spec, OnlyApprovalResumes
=============================================================================
