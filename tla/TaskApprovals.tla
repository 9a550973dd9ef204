--------------------------- MODULE TaskApprovals ---------------------------
(***************************************************************************)
(* Agent tasks that need a human: the task queue (TaskQueue) and the       *)
(* approval centre (Approvals), joined where the code joins them:          *)
(*  - ctx.tool of orchestrator.ts, which lets a gated tool run, or         *)
(*    requests an approval and throws ApprovalRequiredError;               *)
(*  - the handlers whose service requests the approval (production         *)
(*    deployments, paid experiments, campaigns) and which return at once   *)
(*    when they are resumed;                                               *)
(*  - the last statement of approve and of reject, on agent_tasks.         *)
(* The two services share no transaction and no lock: every statement of   *)
(* one may fall between any two of the other.                              *)
(*                                                                         *)
(* A Key is what a request is about: a tool with its arguments.  Calls     *)
(* gives the gated calls a task's handler may make; which one it makes is  *)
(* decided anew by every run, as handlers compute the arguments from data  *)
(* that other tasks write (the best hypothesis of an opportunity, ...).    *)
(***************************************************************************)
EXTENDS Naturals

CONSTANTS
  Task, Worker, Approval, NoTask, NoWorker, NoApproval,
  MaxAttempts, TaskTimeout, AgentTimeout, Grace, MaxPauses, MaxRetries,
  Key, Effectful, Asker, Caller, NoKey,
  ToolOf,      \* [Key -> tools]: the tool, and with it the action type
  Calls,       \* [Task -> SUBSET Key]: the gated calls of its handler
  NoAsker

\* What the two modules assume, of the constants they are given here.
ASSUME QueueAssumption ==
  /\ MaxAttempts \in Nat \ {0}
  /\ TaskTimeout \in Nat \ {0} /\ AgentTimeout \in Nat \ {0} /\ Grace \in Nat
  /\ MaxPauses \in Nat /\ MaxRetries \in Nat
  /\ NoTask \notin Task /\ NoWorker \notin Worker /\ NoApproval \notin Approval

ASSUME ApprovalAssumption ==
  /\ Effectful \subseteq Key
  /\ NoTask \notin Task /\ NoKey \notin Key /\ NoApproval \notin Approval

VARIABLES
  status, attempts, lockedBy, lockAge, due, approvalId, pauses,
  phase, job, attempt, elapsed, late, retries,
  apStatus, apKey, apTask, lapsed, askPhase, askKey, askTask, askGot,
  callPhase, callVerb, callOn, verdict, effects,
  helper,      \* [Worker -> Asker]: the request the handler is awaiting
  ticket,      \* [Worker -> Approval]: approvalId of ApprovalRequiredError
  ran          \* [Worker -> Key]: history, the gated tool call that was run

Q == INSTANCE TaskQueue
A == INSTANCE Approvals

queueVars == <<status, attempts, lockedBy, lockAge, due, approvalId, pauses,
               phase, job, attempt, elapsed, late, retries>>
approvalVars == <<apStatus, apKey, apTask, lapsed, askPhase, askKey, askTask, askGot,
                  callPhase, callVerb, callOn, verdict, effects>>
linkVars == <<helper, ticket, ran>>
vars == <<queueVars, approvalVars, linkVars>>

TypeOK ==
  /\ Q!TypeOK /\ A!TypeOK
  /\ helper \in [Worker -> Asker \cup {NoAsker}]
  /\ ticket \in [Worker -> Approval \cup {NoApproval}]
  /\ ran \in [Worker -> Key \cup {NoKey}]

Init ==
  /\ Q!Init /\ A!Init
  /\ helper = [w \in Worker |-> NoAsker]
  /\ ticket = [w \in Worker |-> NoApproval]
  /\ ran = [w \in Worker |-> NoKey]

-----------------------------------------------------------------------------
(* The gate *)

\* Mutant: any approval for the tool will do, decided or not.
GrantedByAnyStatus(t, k) ==
  /\ approvalId[t] # NoApproval
  /\ ToolOf[apKey[approvalId[t]]] = ToolOf[k]

\* The approval the task was resumed with covers the tool: its status and
\* its action type and tool are compared, its arguments are not.
Granted(t, k) ==
  /\ approvalId[t] # NoApproval
  /\ apStatus[approvalId[t]] \in {"approved", "executed"}
  /\ ToolOf[apKey[approvalId[t]]] = ToolOf[k]

\* ctx.tool asks for an approval when none covers the call; a handler whose
\* service does the asking does so unless its task has any approval id.
MustAsk(t, k) ==
  IF k \in Effectful THEN approvalId[t] = NoApproval ELSE ~Granted(t, k)

InHandler(w) == phase[w] = "handling" /\ helper[w] = NoAsker

RunTool(w, k) ==
  /\ InHandler(w)
  /\ k \in Calls[job[w]] \ Effectful
  /\ Granted(job[w], k)
  /\ ran' = [ran EXCEPT ![w] = k]
  /\ UNCHANGED <<helper, ticket, queueVars, approvalVars>>

Ask(w, k, q) ==
  /\ InHandler(w)
  /\ k \in Calls[job[w]]
  /\ MustAsk(job[w], k)
  /\ \/ A!AskFindsNone(q, k, job[w])
     \/ \E a \in Approval : A!AskFinds(q, k, job[w], a)
  /\ helper' = [helper EXCEPT ![w] = q]
  /\ UNCHANGED <<ticket, ran, queueVars>>

\* The INSERT of a request, of a handler or of one that was abandoned when
\* its time was up.
AskInserts(q, a) ==
  /\ A!Insert(q, a)
  /\ UNCHANGED <<queueVars, linkVars>>

\* Mutant: the error carries the fingerprint instead of the id.
AskAnswersKey(w) ==
  /\ helper[w] # NoAsker
  /\ askPhase[helper[w]] = "answered"
  /\ ticket' = [ticket EXCEPT ![w] = askKey[helper[w]]]
  /\ helper' = [helper EXCEPT ![w] = NoAsker]
  /\ A!AskEnds(helper[w])
  /\ Q!HandlerPauses(w)
  /\ UNCHANGED ran

\* The request answers: ApprovalRequiredError reaches the catch block.
AskAnswers(w) ==
  /\ helper[w] # NoAsker
  /\ askPhase[helper[w]] = "answered"
  /\ ticket' = [ticket EXCEPT ![w] = askGot[helper[w]]]
  /\ helper' = [helper EXCEPT ![w] = NoAsker]
  /\ A!AskEnds(helper[w])
  /\ Q!HandlerPauses(w)
  /\ UNCHANGED ran

\* The request throws, before or after its INSERT.
AskThrows(w) ==
  /\ helper[w] # NoAsker
  /\ helper' = [helper EXCEPT ![w] = NoAsker]
  /\ A!AskEnds(helper[w])
  /\ Q!HandlerThrows(w, "erred")
  /\ UNCHANGED <<ticket, ran>>

\* A request whose handler was abandoned ends without anyone listening.
AbandonedAskEnds(q) ==
  /\ \A w \in Worker : helper[w] # q
  /\ A!AskEnds(q)
  /\ UNCHANGED <<queueVars, linkVars>>

-----------------------------------------------------------------------------
(* The other steps of a run *)

RunGoesOn(w) ==
  /\ \/ Q!StartHandler(w)
     \/ /\ InHandler(w)
        /\ Q!HandlerReturns(w) \/ \E p \in {"erred", "fatal"} : Q!HandlerThrows(w, p)
     \/ Q!SaveFails(w)
     \/ Q!FinishSucceeded(w)
     \/ \E t \in Task, ready \in BOOLEAN : Q!SpawnChild(w, t, ready)
     \/ \E p \in Q!FailingAfter : Q!SpawnFails(w, p)
  /\ UNCHANGED <<approvalVars, linkVars>>

\* withTimeout rejects: the handler and its request go on unheard.
TimesOut(w) ==
  /\ Q!HandlerTimesOut(w)
  /\ helper' = [helper EXCEPT ![w] = NoAsker]
  /\ UNCHANGED <<ticket, ran, approvalVars>>

RunFinishes(w) ==
  /\ \/ \E s \in {"failed", "cancelled"} : Q!Refuse(w, s)
     \/ Q!RunEnds(w)
     \/ Q!FinishParked(w, ticket[w])
     \/ Q!FinishRetry(w)
     \/ Q!FinishGivesUp(w)
  /\ ticket' = [ticket EXCEPT ![w] = NoApproval]
  /\ ran' = [ran EXCEPT ![w] = NoKey]
  /\ UNCHANGED <<helper, approvalVars>>

\* A process that is killed takes the request of its run with it.
WorkerDies(w) ==
  /\ Q!WorkerDies(w)
  /\ IF helper[w] = NoAsker THEN UNCHANGED approvalVars ELSE A!AskEnds(helper[w])
  /\ helper' = [helper EXCEPT ![w] = NoAsker]
  /\ ticket' = [ticket EXCEPT ![w] = NoApproval]
  /\ ran' = [ran EXCEPT ![w] = NoKey]

\* Everything else that happens to the tasks.
QueueStep ==
  /\ \/ \E t \in Task, ready \in BOOLEAN : Q!Enqueue(t, ready)
     \/ \E w \in Worker, t \in Task : Q!Claim(w, t)
     \/ Q!RequeueStale
     \/ \E t \in Task : Q!Cancel(t) \/ Q!RetryTask(t) \/ Q!BackoffEnds(t)
     \/ Q!Tick
  /\ UNCHANGED <<approvalVars, linkVars>>

-----------------------------------------------------------------------------
(* approve and reject *)

\* Mutants: every decision resumes the task; and only a stored outcome does.
ReleaseAlways(c) ==
  LET t == apTask[callOn[c]] IN
  /\ A!Release(c)
  /\ IF status[t] # "waiting_approval" THEN UNCHANGED queueVars
     ELSE Q!Resume(t, callOn[c])
  /\ UNCHANGED linkVars

ReleaseExecuted(c) ==
  LET a == callOn[c]
      t == apTask[a]
  IN /\ A!Release(c)
     /\ IF status[t] # "waiting_approval" \/ apStatus[a] \notin {"executed", "rejected"}
        THEN UNCHANGED queueVars
        ELSE IF callVerb[c] = "approved" THEN Q!Resume(t, a) ELSE Q!CancelWaiting(t)
     /\ UNCHANGED linkVars

\* The last UPDATE matches the task the request named, if that task is
\* waiting, whichever approval it is waiting for.
Release(c) ==
  LET a == callOn[c]
      t == apTask[a]
  IN /\ A!Release(c)
     /\ IF status[t] # "waiting_approval" THEN UNCHANGED queueVars
        ELSE IF callVerb[c] = "approved" THEN Q!Resume(t, a) ELSE Q!CancelWaiting(t)
     /\ UNCHANGED linkVars

\* A statement of a deciding call on the approvals table.
CallStatement(c) ==
  /\ \/ A!MarkExpired(c)
     \/ A!Decide(c)
     \/ A!DecideConflicts(c)
     \/ \E done, returns \in BOOLEAN : A!Execute(c, done, returns)
     \/ \E recorded \in BOOLEAN : A!StoreExecuted(c, recorded)
     \/ A!StoreFailed(c)
  /\ UNCHANGED <<queueVars, linkVars>>

CallProgress(c) == CallStatement(c) \/ Release(c)

Deciding(c) ==
  /\ \E a \in Approval, v \in A!Verb : A!Look(c, a, v)
  /\ UNCHANGED <<queueVars, linkVars>>

CallDies(c) ==
  /\ A!CallDies(c)
  /\ UNCHANGED <<queueVars, linkVars>>

Expiry ==
  /\ A!ExpireStale \/ \E a \in Approval : A!Lapse(a)
  /\ UNCHANGED <<queueVars, linkVars>>

-----------------------------------------------------------------------------

\* All that can happen while no process dies.
NextAlive ==
  \/ \E w \in Worker :
       \/ \E k \in Key : RunTool(w, k) \/ \E q \in Asker : Ask(w, k, q)
       \/ AskAnswers(w)
       \/ AskThrows(w)
       \/ RunGoesOn(w)
       \/ TimesOut(w)
       \/ RunFinishes(w)
  \/ \E q \in Asker : AbandonedAskEnds(q) \/ \E a \in Approval : AskInserts(q, a)
  \/ QueueStep
  \/ \E c \in Caller : Deciding(c) \/ CallProgress(c)
  \/ Expiry

Next ==
  \/ NextAlive
  \/ \E w \in Worker : WorkerDies(w)
  \/ \E c \in Caller : CallDies(c)

Spec == Init /\ [][Next]_vars

SpecAlive == Init /\ [][NextAlive]_vars

\* A call that has read the row goes on to its end, its executor included.
FairSpecAlive == SpecAlive /\ \A c \in Caller : WF_vars(CallProgress(c))

-----------------------------------------------------------------------------
(* Properties *)

\* A gated tool runs only in a task that was resumed with an approval which
\* a human gave for that tool: not with one that is still pending, was
\* rejected or has expired, and not with one given for another tool.
GatedRunNeedsHuman ==
  \A w \in Worker :
    ran[w] # NoKey =>
      LET a == approvalId[job[w]] IN
      a # NoApproval /\ verdict[a] = "approved" /\ ToolOf[apKey[a]] = ToolOf[ran[w]]

\* A task that waits for a human goes back to the queue only when a human
\* approved a request of that very task.
OnlyApprovalResumes ==
  [][\A t \in Task :
       status[t] = "waiting_approval" /\ status'[t] = "queued" =>
         \E a \in Approval : apTask[a] = t /\ verdict[a] = "approved"]_vars

\* "Approving resumes it; rejecting cancels it": a task that is already
\* waiting for its own request while the deciding call is at work is
\* released by that call, whatever the executor does.
DecisionReachesWaiter ==
  \A t \in Task, c \in Caller :
    /\ status[t] = "waiting_approval"
    /\ callPhase[c] \in {"executing", "storing", "failing", "releasing"}
    /\ callOn[c] = approvalId[t] /\ apTask[callOn[c]] = t
    ~> status[t] # "waiting_approval"

\* The same sentence for every task that waits: once the approval it waits
\* for is decided and the deciding call is over, it waits no longer.
DecisionReleasesTask ==
  \A t \in Task :
    status[t] = "waiting_approval" /\ verdict[approvalId[t]] # "none" =>
      \E c \in Caller : callPhase[c] # "idle" /\ callOn[c] = approvalId[t]

\* The task "records the approval id; approving resumes it": a task waits
\* only for a request whose decision will reach it.
WaitsForOwnApproval ==
  \A t \in Task : status[t] = "waiting_approval" => apTask[approvalId[t]] = t

\* "Every approval request states WHAT will happen": the call that is run is
\* the one that the approval showed.
RunsWhatWasApproved ==
  \A w \in Worker : ran[w] # NoKey => apKey[approvalId[job[w]]] = ran[w]

\* "Records the approval id; approving resumes it, rejecting cancels it": the
\* call that releases a task decided the approval which the task waits for.
ReleasedByItsApproval ==
  [][\A c \in Caller :
       LET t == apTask[callOn[c]] IN
       /\ callPhase[c] = "releasing" /\ callPhase'[c] = "idle"
       /\ status[t] = "waiting_approval" /\ status'[t] # "waiting_approval"
       => approvalId[t] = callOn[c]]_vars
=============================================================================
