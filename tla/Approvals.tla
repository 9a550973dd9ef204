----------------------------- MODULE Approvals -----------------------------
(***************************************************************************)
(* The approval centre of packages/core/src/approvals.ts: the rows of the  *)
(* approvals table, the calls that request approvals (Asker) and the calls *)
(* that approve or reject them (Caller).                                   *)
(*                                                                         *)
(* Every SQL statement is one action.  A call is a process of its own that *)
(* keeps what it read; it may die, or fail to write an audit row or an     *)
(* event, between any two statements.                                      *)
(*                                                                         *)
(* Abstractions:                                                           *)
(*  - a Key is the fingerprint: an action type with a payload;             *)
(*  - an executor may carry out its action and still throw, or throw       *)
(*    before it did anything;                                              *)
(*  - of expires_at only whether it has passed is kept;                    *)
(*  - titles, costs, notes, results and the decider's name are left out;   *)
(*  - the last statement of a decision, on agent_tasks, is Release; the    *)
(*    module TaskApprovals says what it does to the task.                  *)
(***************************************************************************)
EXTENDS Naturals

LOCAL INSTANCE TLC

CONSTANTS
  Approval,     \* ids of the rows that may ever be inserted
  Key,          \* fingerprints
  Effectful,    \* the keys whose action type has a registered executor
  Asker,        \* calls of request that may be going on at once
  Caller,       \* calls of approve and reject that may be going on at once
  Task,         \* agent tasks a request may name
  NoTask, NoKey, NoApproval

ASSUME ApprovalsAssumption ==
  /\ Effectful \subseteq Key
  /\ NoTask \notin Task /\ NoKey \notin Key /\ NoApproval \notin Approval

(* For TLC: the calls, and the rows before they are inserted, are alike.   *)
CallSymmetry == Permutations(Asker) \cup Permutations(Caller) \cup Permutations(Approval)

VARIABLES
  apStatus,    \* [Approval -> ApStatus]: approvals.status, or "absent"
  apKey,       \* [Approval -> Key]: payload._fingerprint
  apTask,      \* [Approval -> Task]: approvals.task_id
  lapsed,      \* SUBSET Approval: the rows with expires_at < now()
  askPhase,    \* [Asker -> AskPhase]: where the call of request is
  askKey,      \* [Asker -> Key]: the fingerprint it computed
  askTask,     \* [Asker -> Task]: its taskId
  askGot,      \* [Asker -> Approval]: the approval it answers with
  callPhase,   \* [Caller -> CallPhase]: where the call is
  callVerb,    \* [Caller -> Verb]: approve or reject
  callOn,      \* [Caller -> Approval]: the approval it is about
  verdict,     \* [Approval -> Verdict]: history, the decision a human took
  effects      \* [Approval -> Nat]: history, times the action was done

rowVars == <<apStatus, apKey, apTask, lapsed>>
askVars == <<askPhase, askKey, askTask, askGot>>
callVars == <<callPhase, callVerb, callOn>>
history == <<verdict, effects>>
vars == <<rowVars, askVars, callVars, history>>

Promise == INSTANCE HumanDecision

ApStatus == {"absent", "pending", "approved", "rejected", "expired", "executed", "failed"}
AskPhase == {"idle", "inserting", "answered"}
CallPhase == {"idle", "deciding", "expiring", "executing", "storing", "failing", "releasing"}
Verb == {"approved", "rejected"}

TypeOK ==
  /\ apStatus \in [Approval -> ApStatus]
  /\ apKey \in [Approval -> Key \cup {NoKey}]
  /\ apTask \in [Approval -> Task \cup {NoTask}]
  /\ lapsed \subseteq Approval
  /\ askPhase \in [Asker -> AskPhase]
  /\ askKey \in [Asker -> Key \cup {NoKey}]
  /\ askTask \in [Asker -> Task \cup {NoTask}]
  /\ askGot \in [Asker -> Approval \cup {NoApproval}]
  /\ callPhase \in [Caller -> CallPhase]
  /\ callVerb \in [Caller -> Verb]
  /\ callOn \in [Caller -> Approval \cup {NoApproval}]
  /\ verdict \in [Approval -> Promise!Verdict]
  /\ effects \in [Approval -> Nat]

Init ==
  /\ apStatus = [a \in Approval |-> "absent"]
  /\ apKey = [a \in Approval |-> NoKey]
  /\ apTask = [a \in Approval |-> NoTask]
  /\ lapsed = {}
  /\ askPhase = [q \in Asker |-> "idle"]
  /\ askKey = [q \in Asker |-> NoKey]
  /\ askTask = [q \in Asker |-> NoTask]
  /\ askGot = [q \in Asker |-> NoApproval]
  /\ callPhase = [c \in Caller |-> "idle"]
  /\ callVerb = [c \in Caller |-> "approved"]
  /\ callOn = [c \in Caller |-> NoApproval]
  /\ Promise!Init

-----------------------------------------------------------------------------
(* request: look for a pending row with the same fingerprint, else insert  *)

Match(k) == {a \in Approval : apStatus[a] = "pending" /\ apKey[a] = k}

\* The SELECT finds a pending row: the call answers with it, whatever task
\* that row names.
AskFinds(q, k, t, a) ==
  /\ askPhase[q] = "idle"
  /\ a \in Match(k)
  /\ askPhase' = [askPhase EXCEPT ![q] = "answered"]
  /\ askKey' = [askKey EXCEPT ![q] = k]
  /\ askTask' = [askTask EXCEPT ![q] = t]
  /\ askGot' = [askGot EXCEPT ![q] = a]
  /\ UNCHANGED <<rowVars, callVars, history>>

AskFindsNone(q, k, t) ==
  /\ askPhase[q] = "idle"
  /\ Match(k) = {}
  /\ askPhase' = [askPhase EXCEPT ![q] = "inserting"]
  /\ askKey' = [askKey EXCEPT ![q] = k]
  /\ askTask' = [askTask EXCEPT ![q] = t]
  /\ UNCHANGED <<askGot, rowVars, callVars, history>>

\* The INSERT, with no index that keeps two pending rows apart.
Insert(q, a) ==
  /\ askPhase[q] = "inserting"
  /\ apStatus[a] = "absent"
  /\ apStatus' = [apStatus EXCEPT ![a] = "pending"]
  /\ apKey' = [apKey EXCEPT ![a] = askKey[q]]
  /\ apTask' = [apTask EXCEPT ![a] = askTask[q]]
  /\ askPhase' = [askPhase EXCEPT ![q] = "answered"]
  /\ askGot' = [askGot EXCEPT ![q] = a]
  /\ UNCHANGED <<lapsed, askKey, askTask, callVars, history>>

\* The call is over: it returned its answer, or it threw (before the INSERT,
\* or after it, when the audit row or the event could not be written).
AskEnds(q) ==
  /\ askPhase[q] # "idle"
  /\ askPhase' = [askPhase EXCEPT ![q] = "idle"]
  /\ askKey' = [askKey EXCEPT ![q] = NoKey]
  /\ askTask' = [askTask EXCEPT ![q] = NoTask]
  /\ askGot' = [askGot EXCEPT ![q] = NoApproval]
  /\ UNCHANGED <<rowVars, callVars, history>>

-----------------------------------------------------------------------------
(* approve and reject *)

CallGoto(c, p) ==
  /\ callPhase' = [callPhase EXCEPT ![c] = p]
  /\ UNCHANGED <<callVerb, callOn>>

CallOver(c) ==
  /\ callPhase' = [callPhase EXCEPT ![c] = "idle"]
  /\ callVerb' = [callVerb EXCEPT ![c] = "approved"]
  /\ callOn' = [callOn EXCEPT ![c] = NoApproval]

\* Only a decision on a request that names a task goes on to the task.
Proceed(c) == IF apTask[callOn[c]] = NoTask THEN CallOver(c) ELSE CallGoto(c, "releasing")

\* decide reads the row; a row that is not pending is a conflict and the
\* call does nothing.
Look(c, a, v) ==
  /\ callPhase[c] = "idle"
  /\ apStatus[a] = "pending"
  /\ callPhase' = [callPhase EXCEPT ![c] = IF a \in lapsed THEN "expiring" ELSE "deciding"]
  /\ callVerb' = [callVerb EXCEPT ![c] = v]
  /\ callOn' = [callOn EXCEPT ![c] = a]
  /\ UNCHANGED <<rowVars, askVars, history>>

\* Mutant: a status the table does not have.
MarkTimedOut(c) ==
  /\ callPhase[c] = "expiring"
  /\ apStatus' = [apStatus EXCEPT ![callOn[c]] = "timed_out"]
  /\ CallOver(c)
  /\ UNCHANGED <<apKey, apTask, lapsed, askVars, history>>

\* The UPDATE that records the expiry asks for no particular status.
MarkExpired(c) ==
  /\ callPhase[c] = "expiring"
  /\ apStatus' = [apStatus EXCEPT ![callOn[c]] = "expired"]
  /\ CallOver(c)
  /\ UNCHANGED <<apKey, apTask, lapsed, askVars, history>>

\* Mutant: the UPDATE without its condition on the status.
DecideUnguarded(c) ==
  LET a == callOn[c] IN
  /\ callPhase[c] = "deciding"
  /\ apStatus' = [apStatus EXCEPT ![a] = callVerb[c]]
  /\ verdict' = [verdict EXCEPT ![a] = callVerb[c]]
  /\ IF callVerb[c] = "approved" /\ apKey[a] \in Effectful
     THEN CallGoto(c, "executing")
     ELSE Proceed(c)
  /\ UNCHANGED <<apKey, apTask, lapsed, askVars, effects>>

\* The UPDATE that records the decision matches only a pending row.
Decide(c) ==
  LET a == callOn[c] IN
  /\ callPhase[c] = "deciding"
  /\ apStatus[a] = "pending"
  /\ apStatus' = [apStatus EXCEPT ![a] = callVerb[c]]
  /\ verdict' = [verdict EXCEPT ![a] = callVerb[c]]
  /\ IF callVerb[c] = "approved" /\ apKey[a] \in Effectful
     THEN CallGoto(c, "executing")
     ELSE Proceed(c)
  /\ UNCHANGED <<apKey, apTask, lapsed, askVars, effects>>

\* "Approval was decided concurrently".
DecideConflicts(c) ==
  /\ callPhase[c] = "deciding"
  /\ apStatus[callOn[c]] # "pending"
  /\ CallOver(c)
  /\ UNCHANGED <<rowVars, askVars, history>>

\* The executor returns having done its work, or throws, done or not.
Execute(c, done, returns) ==
  /\ callPhase[c] = "executing"
  /\ returns => done
  /\ effects' = IF done THEN [effects EXCEPT ![callOn[c]] = @ + 1] ELSE effects
  /\ CallGoto(c, IF returns THEN "storing" ELSE "failing")
  /\ UNCHANGED <<rowVars, askVars, verdict>>

\* After the UPDATE the audit row and the event are written; if one cannot
\* be, the same catch block follows as for an executor that threw.
StoreExecuted(c, recorded) ==
  /\ callPhase[c] = "storing"
  /\ apStatus' = [apStatus EXCEPT ![callOn[c]] = "executed"]
  /\ IF recorded THEN Proceed(c) ELSE CallGoto(c, "failing")
  /\ UNCHANGED <<apKey, apTask, lapsed, askVars, history>>

\* Mutant: a failed request is offered for approval again.
StoreFailedAsPending(c) ==
  /\ callPhase[c] = "failing"
  /\ apStatus' = [apStatus EXCEPT ![callOn[c]] = "pending"]
  /\ Proceed(c)
  /\ UNCHANGED <<apKey, apTask, lapsed, askVars, history>>

StoreFailed(c) ==
  /\ callPhase[c] = "failing"
  /\ apStatus' = [apStatus EXCEPT ![callOn[c]] = "failed"]
  /\ Proceed(c)
  /\ UNCHANGED <<apKey, apTask, lapsed, askVars, history>>

\* The statement on the task that the request named.
Release(c) ==
  /\ callPhase[c] = "releasing"
  /\ CallOver(c)
  /\ UNCHANGED <<rowVars, askVars, history>>

\* The process dies, or a statement throws where nothing catches it.
CallDies(c) ==
  /\ callPhase[c] # "idle"
  /\ CallOver(c)
  /\ UNCHANGED <<rowVars, askVars, history>>

-----------------------------------------------------------------------------
(* Time and maintenance *)

Lapse(a) ==
  /\ apStatus[a] # "absent" /\ a \notin lapsed
  /\ lapsed' = lapsed \cup {a}
  /\ UNCHANGED <<apStatus, apKey, apTask, askVars, callVars, history>>

\* expireStale: one UPDATE over every pending row that has lapsed.
ExpireStale ==
  /\ \E a \in lapsed : apStatus[a] = "pending"
  /\ apStatus' = [a \in Approval |->
                    IF a \in lapsed /\ apStatus[a] = "pending" THEN "expired"
                    ELSE apStatus[a]]
  /\ UNCHANGED <<apKey, apTask, lapsed, askVars, callVars, history>>

-----------------------------------------------------------------------------

AskStep(q) ==
  \/ \E k \in Key, t \in Task \cup {NoTask} :
       AskFindsNone(q, k, t) \/ \E a \in Approval : AskFinds(q, k, t, a)
  \/ \E a \in Approval : Insert(q, a)
  \/ AskEnds(q)

\* What a call of approve or reject does once it has read the row.
CallStep(c) ==
  \/ MarkExpired(c)
  \/ Decide(c)
  \/ DecideConflicts(c)
  \/ \E done, returns \in BOOLEAN : Execute(c, done, returns)
  \/ \E recorded \in BOOLEAN : StoreExecuted(c, recorded)
  \/ StoreFailed(c)
  \/ Release(c)

Next ==
  \/ \E q \in Asker : AskStep(q)
  \/ \E c \in Caller :
       \/ \E a \in Approval, v \in Verb : Look(c, a, v)
       \/ CallStep(c)
       \/ CallDies(c)
  \/ \E a \in Approval : Lapse(a)
  \/ ExpireStale

Spec == Init /\ [][Next]_vars

-----------------------------------------------------------------------------
(* Properties *)

\* The rows implement the promise of HumanDecision: of several concurrent
\* approvals and rejections one wins and stays, and an action is carried out
\* at most once and only after an approval, through any number of races,
\* expiries and dead calls.
KeepsPromise == Promise!Spec

\* The status of a row never claims more than what happened, whichever of
\* several racing statements wrote it last: a decision it shows is the one a
\* human took, one that was taken is not shown as pending, "executed" means
\* that the action was carried out, and an untouched or rejected row means
\* that it was not.
StatusTellsTheTruth ==
  \A a \in Approval :
    /\ apStatus[a] \in {"approved", "executed", "failed"} => verdict[a] = "approved"
    /\ apStatus[a] = "rejected" => verdict[a] = "rejected"
    /\ apStatus[a] \in {"absent", "pending"} => verdict[a] = "none"
    /\ apStatus[a] = "executed" => effects[a] = 1
    /\ apStatus[a] \in {"absent", "pending", "rejected"} => effects[a] = 0

\* The outcome of a decision "is stored": a request that a human has decided
\* is never shown as expired.
DecisionIsNotExpired ==
  \A a \in Approval : verdict[a] # "none" => apStatus[a] # "expired"
=============================================================================
