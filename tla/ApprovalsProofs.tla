-------------------------- MODULE ApprovalsProofs --------------------------
(***************************************************************************)
(* For any number of requests, askers, deciders and tasks: the approval    *)
(* centre implements HumanDecision, and its rows tell the truth.           *)
(***************************************************************************)
EXTENDS Approvals, TLAPS

(***************************************************************************)
(* The inductive invariant: what a call may rely on in each phase.  Only   *)
(* the UPDATE guarded by the pending status leads to "executing", and a    *)
(* row never becomes pending again: so one call at most executes, nothing  *)
(* was done before it, and nobody else stores an outcome.                  *)
(***************************************************************************)
\* Calls that run the executor or store what came of it.
Busy == {"executing", "storing", "failing"}

CallInv(c) ==
  /\ callPhase[c] # "idle" => callOn[c] \in Approval
  /\ callPhase[c] \in Busy => verdict[callOn[c]] = "approved"
  /\ callPhase[c] = "executing" => effects[callOn[c]] = 0
  /\ callPhase[c] = "storing" => effects[callOn[c]] = 1

RowInv(a) ==
  /\ verdict[a] # "approved" => effects[a] = 0
  /\ apStatus[a] \in {"approved", "executed", "failed"} => verdict[a] = "approved"
  /\ apStatus[a] = "rejected" => verdict[a] = "rejected"
  /\ apStatus[a] \in {"absent", "pending"} => verdict[a] = "none"
  /\ apStatus[a] = "executed" => effects[a] = 1

DecisionInv ==
  /\ \A c \in Caller : CallInv(c)
  /\ \A a \in Approval : RowInv(a)
  /\ \A c, d \in Caller :
       /\ callPhase[c] = "executing"
       /\ callPhase[d] \in Busy
       /\ callOn[c] = callOn[d]
       => c = d

-----------------------------------------------------------------------------
(* Types *)

LEMMA InitTypeOK == Init => TypeOK
BY DEF Init, TypeOK, ApStatus, AskPhase, CallPhase, Verb, Promise!Init, Promise!Verdict

RowTypeOK ==
  /\ apStatus \in [Approval -> ApStatus]
  /\ apKey \in [Approval -> Key \cup {NoKey}]
  /\ apTask \in [Approval -> Task \cup {NoTask}]
  /\ lapsed \subseteq Approval

CallTypeOK ==
  /\ callPhase \in [Caller -> CallPhase]
  /\ callVerb \in [Caller -> Verb]
  /\ callOn \in [Caller -> Approval \cup {NoApproval}]

\* A call that goes on or ends keeps its type.
LEMMA CallMoves ==
  ASSUME TypeOK, NEW c \in Caller,
         CallOver(c) \/ \E p \in CallPhase : CallGoto(c, p)
  PROVE  CallTypeOK'
BY DEF TypeOK, CallOver, CallGoto, CallTypeOK, CallPhase, Verb

LEMMA ProceedMoves ==
  ASSUME TypeOK, NEW c \in Caller, Proceed(c)
  PROVE  CallTypeOK'
BY CallMoves DEF Proceed, CallPhase

LEMMA NextTypeOK == TypeOK /\ [Next]_vars => TypeOK'
<1> SUFFICES ASSUME TypeOK, [Next]_vars PROVE TypeOK'
  OBVIOUS
<1> USE DEF rowVars, askVars, callVars, history
<1>1. CASE UNCHANGED vars
  BY <1>1 DEF vars, TypeOK
<1>2. ASSUME NEW q \in Asker, AskStep(q) PROVE TypeOK'
  <2>1. ASSUME NEW k \in Key, NEW t \in Task \cup {NoTask}, AskFindsNone(q, k, t)
        PROVE TypeOK'
    BY <2>1 DEF AskFindsNone, TypeOK, AskPhase
  <2>2. ASSUME NEW k \in Key, NEW t \in Task \cup {NoTask}, NEW a \in Approval,
               AskFinds(q, k, t, a)
        PROVE TypeOK'
    BY <2>2 DEF AskFinds, TypeOK, AskPhase
  <2>3. ASSUME NEW a \in Approval, Insert(q, a) PROVE TypeOK'
    BY <2>3 DEF Insert, TypeOK, AskPhase, ApStatus
  <2>4. CASE AskEnds(q)
    BY <2>4 DEF AskEnds, TypeOK, AskPhase
  <2> QED BY <1>2, <2>1, <2>2, <2>3, <2>4 DEF AskStep
<1>3. ASSUME NEW c \in Caller, NEW a \in Approval, NEW v \in Verb, Look(c, a, v)
      PROVE TypeOK'
  BY <1>3 DEF Look, TypeOK, CallPhase
<1>4. ASSUME NEW c \in Caller, CallStep(c) PROVE TypeOK'
  <2>1. CASE MarkExpired(c)
    BY <2>1, CallMoves DEF MarkExpired, TypeOK, ApStatus, CallTypeOK
  <2>2. CASE Decide(c)
    <3>1. CallTypeOK'
      BY <2>2, CallMoves, ProceedMoves DEF Decide, CallPhase
    <3>2. callVerb[c] \in ApStatus /\ callVerb[c] \in Promise!Verdict
      BY DEF TypeOK, Verb, ApStatus, Promise!Verdict
    <3> QED BY <2>2, <3>1, <3>2 DEF Decide, TypeOK, CallTypeOK
  <2>3. CASE DecideConflicts(c)
    BY <2>3, CallMoves DEF DecideConflicts, TypeOK, CallTypeOK
  <2>4. ASSUME NEW done \in BOOLEAN, NEW returns \in BOOLEAN, Execute(c, done, returns)
        PROVE TypeOK'
    <3>1. CallTypeOK'
      BY <2>4, CallMoves DEF Execute, CallPhase
    <3>2. effects' \in [Approval -> Nat]
      <4>1. callOn[c] \in Approval => effects[callOn[c]] + 1 \in Nat
        BY DEF TypeOK
      <4>2. [effects EXCEPT ![callOn[c]] = effects[callOn[c]] + 1] \in [Approval -> Nat]
        BY <4>1 DEF TypeOK
      <4> QED BY <2>4, <4>2 DEF Execute, TypeOK
    <3> QED BY <2>4, <3>1, <3>2 DEF Execute, TypeOK, CallTypeOK
  <2>5. ASSUME NEW recorded \in BOOLEAN, StoreExecuted(c, recorded) PROVE TypeOK'
    <3>1. CallTypeOK'
      BY <2>5, CallMoves, ProceedMoves DEF StoreExecuted, CallPhase
    <3> QED BY <2>5, <3>1 DEF StoreExecuted, TypeOK, CallTypeOK, ApStatus
  <2>6. CASE StoreFailed(c)
    BY <2>6, ProceedMoves DEF StoreFailed, TypeOK, CallTypeOK, ApStatus
  <2>7. CASE Release(c)
    BY <2>7, CallMoves DEF Release, TypeOK, CallTypeOK
  <2> QED BY <1>4, <2>1, <2>2, <2>3, <2>4, <2>5, <2>6, <2>7 DEF CallStep
<1>5. ASSUME NEW c \in Caller, CallDies(c) PROVE TypeOK'
  BY <1>5, CallMoves DEF CallDies, TypeOK, CallTypeOK
<1>6. ASSUME NEW a \in Approval, Lapse(a) PROVE TypeOK'
  BY <1>6 DEF Lapse, TypeOK
<1>7. CASE ExpireStale
  BY <1>7 DEF ExpireStale, TypeOK, ApStatus
<1> QED
  BY <1>1, <1>2, <1>3, <1>4, <1>5, <1>6, <1>7 DEF Next

\* The type invariant of the approval centre, for every instance.
THEOREM TypeCorrect == Spec => []TypeOK
BY InitTypeOK, NextTypeOK, PTL DEF Spec

-----------------------------------------------------------------------------
(* The promise *)

LEMMA InitDecisionInv == Init => DecisionInv
BY DEF Init, DecisionInv, CallInv, RowInv, Busy, Promise!Init

\* A step of one call that carries out nothing and decides nothing needs the
\* invariant only for that call and for the rows.
LEMMA QuietCall ==
  ASSUME DecisionInv, NEW c \in Caller, UNCHANGED history,
         \A d \in Caller \ {c} : callPhase'[d] = callPhase[d] /\ callOn'[d] = callOn[d],
         callPhase'[c] # "executing",
         callPhase'[c] \in Busy => callPhase[c] \in Busy /\ callOn'[c] = callOn[c],
         CallInv(c)',
         \A a \in Approval : RowInv(a)'
  PROVE  DecisionInv'
<1>1. ASSUME NEW d \in Caller PROVE CallInv(d)'
  BY DEF DecisionInv, CallInv, history, Busy
<1> QED
  BY <1>1 DEF DecisionInv, CallInv

\* A call that ends is such a step.
LEMMA OverCall ==
  ASSUME TypeOK, DecisionInv, NEW c \in Caller, CallOver(c), UNCHANGED history,
         \A a \in Approval : RowInv(a)'
  PROVE  DecisionInv'
<1>1. callPhase'[c] = "idle"
      /\ \A d \in Caller \ {c} : callPhase'[d] = callPhase[d] /\ callOn'[d] = callOn[d]
  BY DEF CallOver, TypeOK
<1>2. CallInv(c)'
  BY <1>1 DEF CallInv, Busy
<1> QED
  BY <1>1, <1>2, QuietCall DEF Busy

\* And so is going on to Release, or ending when there is nothing to release.
LEMMA ProceedCall ==
  ASSUME TypeOK, DecisionInv, NEW c \in Caller, callPhase[c] # "idle", Proceed(c),
         UNCHANGED history, \A a \in Approval : RowInv(a)'
  PROVE  DecisionInv'
<1>1. CASE CallOver(c)
  BY <1>1, OverCall
<1>2. CASE CallGoto(c, "releasing")
  <2>1. callPhase'[c] = "releasing" /\ callOn' = callOn
        /\ \A d \in Caller \ {c} : callPhase'[d] = callPhase[d]
    BY <1>2 DEF CallGoto, TypeOK
  <2>2. CallInv(c)'
    BY <2>1 DEF DecisionInv, CallInv, Busy
  <2> QED
    BY <2>1, <2>2, QuietCall DEF Busy
<1> QED
  BY <1>1, <1>2 DEF Proceed

\* The winning decision: its row was pending, so no call was at work on it.
LEMMA DecideStep ==
  ASSUME TypeOK, DecisionInv, NEW c \in Caller, Decide(c)
  PROVE  DecisionInv' /\ Promise!Next
<1> DEFINE a == callOn[c]
<1>1. /\ a \in Approval /\ callPhase[c] = "deciding" /\ apStatus[a] = "pending"
      /\ verdict[a] = "none" /\ effects[a] = 0
  BY DEF Decide, DecisionInv, CallInv, RowInv
<1>2. \A d \in Caller : callPhase[d] \in Busy => callOn[d] # a
  BY <1>1 DEF DecisionInv, CallInv
<1>3. /\ apStatus' = [apStatus EXCEPT ![a] = callVerb[c]]
      /\ verdict' = [verdict EXCEPT ![a] = callVerb[c]]
      /\ effects' = effects /\ callVerb[c] \in {"approved", "rejected"}
  BY DEF Decide, TypeOK, Verb
<1>4. ASSUME NEW b \in Approval PROVE RowInv(b)'
  <2>1. CASE b = a
    BY <1>1, <1>3, <2>1 DEF RowInv, TypeOK
  <2>2. CASE b # a
    BY <1>1, <1>3, <2>2 DEF DecisionInv, RowInv, TypeOK
  <2> QED BY <2>1, <2>2
<1>5. \A d \in Caller \ {c} : callPhase'[d] = callPhase[d] /\ callOn'[d] = callOn[d]
  BY DEF Decide, Proceed, CallOver, CallGoto, TypeOK
<1>6. /\ callPhase'[c] \notin {"storing", "failing"}
      /\ callPhase'[c] # "idle" => callOn'[c] = a
      /\ callPhase'[c] = "executing" => callVerb[c] = "approved"
  BY DEF Decide, Proceed, CallOver, CallGoto, TypeOK
<1>7. ASSUME NEW d \in Caller PROVE CallInv(d)'
  <2>1. CASE d = c
    BY <1>1, <1>3, <1>6, <2>1 DEF CallInv, Busy, TypeOK
  <2>2. CASE d # c
    <3>1. CallInv(d) /\ (callPhase[d] \in Busy => callOn[d] # a)
      BY <1>2 DEF DecisionInv
    <3> QED BY <1>1, <1>3, <1>5, <2>2, <3>1 DEF CallInv, Busy, TypeOK
  <2> QED BY <2>1, <2>2
<1>8. ASSUME NEW d \in Caller, NEW e \in Caller, callPhase'[d] = "executing",
             callPhase'[e] \in Busy, callOn'[d] = callOn'[e]
      PROVE d = e
  BY <1>2, <1>5, <1>6, <1>8 DEF DecisionInv, Busy
<1>9. DecisionInv'
  BY <1>4, <1>7, <1>8 DEF DecisionInv
<1>10. Promise!Rule(a, callVerb[c])
  BY <1>1, <1>3 DEF Promise!Rule
<1> QED
  BY <1>1, <1>3, <1>9, <1>10 DEF Promise!Next, Promise!Verdict

\* The executor: nobody else is at work on its row and nothing was done yet.
LEMMA ExecuteStep ==
  ASSUME TypeOK, DecisionInv, NEW c \in Caller,
         NEW done \in BOOLEAN, NEW returns \in BOOLEAN, Execute(c, done, returns)
  PROVE  DecisionInv' /\ [Promise!Next]_history
<1> DEFINE a == callOn[c]
<1>1. /\ a \in Approval /\ callPhase[c] = "executing"
      /\ verdict[a] = "approved" /\ effects[a] = 0
  BY DEF Execute, DecisionInv, CallInv, Busy
<1>2. \A d \in Caller \ {c} : callPhase[d] \in Busy => callOn[d] # a
  BY <1>1 DEF DecisionInv
<1>3. /\ effects' = IF done THEN [effects EXCEPT ![a] = 1] ELSE effects
      /\ apStatus' = apStatus /\ verdict' = verdict /\ callOn' = callOn
  BY <1>1 DEF Execute, CallGoto, rowVars
<1>4. /\ callPhase'[c] \in {"storing", "failing"}
      /\ callPhase'[c] = "storing" => done
      /\ \A d \in Caller \ {c} : callPhase'[d] = callPhase[d]
  BY DEF Execute, CallGoto, TypeOK
<1>5. \A b \in Approval : RowInv(b)'
  <2>1. ASSUME NEW b \in Approval PROVE RowInv(b)'
    <3>1. RowInv(b)
      BY DEF DecisionInv
    <3>2. b # a => effects'[b] = effects[b]
      BY <1>3 DEF TypeOK
    <3> QED BY <1>1, <1>3, <3>1, <3>2 DEF RowInv
  <2> QED BY <2>1
<1>6. ASSUME NEW d \in Caller PROVE CallInv(d)'
  <2>1. CASE d = c
    <3>1. done => effects'[a] = 1
      BY <1>1, <1>3 DEF TypeOK
    <3> QED BY <1>1, <1>3, <1>4, <2>1, <3>1 DEF CallInv
  <2>2. CASE d # c
    <3>1. CallInv(d) /\ callPhase'[d] = callPhase[d]
      BY <1>4, <2>2 DEF DecisionInv
    <3>2. callPhase[d] \in Busy => effects'[callOn[d]] = effects[callOn[d]]
      BY <1>2, <1>3, <2>2, <3>1 DEF TypeOK, CallInv, Busy
    <3> QED BY <1>3, <3>1, <3>2 DEF CallInv, Busy
  <2> QED BY <2>1, <2>2
<1>7. DecisionInv'
  <2>1. ASSUME NEW d \in Caller, NEW e \in Caller, callPhase'[d] = "executing",
               callPhase'[e] \in Busy, callOn'[d] = callOn'[e]
        PROVE d = e
    BY <1>2, <1>3, <1>4, <2>1, <1>1 DEF DecisionInv, Busy
  <2> QED BY <1>5, <1>6, <2>1 DEF DecisionInv
<1>8. done => Promise!Perform(a)
  BY <1>1, <1>3 DEF Promise!Perform
<1> QED
  BY <1>1, <1>3, <1>7, <1>8 DEF Promise!Next, history

LEMMA NextDecisionInv ==
  ASSUME TypeOK, DecisionInv, [Next]_vars
  PROVE  DecisionInv' /\ [Promise!Next]_history
<1>1. CASE UNCHANGED <<apStatus, callVars, history>>
  BY <1>1 DEF DecisionInv, CallInv, RowInv, callVars, history
<1>2. ASSUME NEW q \in Asker, NEW a \in Approval, Insert(q, a)
      PROVE DecisionInv' /\ UNCHANGED history
  <2>1. \A b \in Approval : RowInv(b)'
    BY <1>2 DEF Insert, DecisionInv, RowInv, history, TypeOK
  <2> QED BY <1>2, <2>1 DEF Insert, DecisionInv, CallInv, callVars, history
<1>3. ASSUME NEW c \in Caller, NEW a \in Approval, NEW v \in Verb, Look(c, a, v)
      PROVE DecisionInv' /\ UNCHANGED history
  <2>1. /\ callPhase'[c] \in {"expiring", "deciding"} /\ callOn'[c] = a
        /\ \A d \in Caller \ {c} : callPhase'[d] = callPhase[d] /\ callOn'[d] = callOn[d]
    BY <1>3 DEF Look, TypeOK
  <2>2. CallInv(c)'
    BY <2>1 DEF CallInv, Busy
  <2>3. UNCHANGED history /\ \A b \in Approval : RowInv(b)'
    BY <1>3 DEF Look, rowVars, history, DecisionInv, RowInv
  <2> QED BY <2>1, <2>2, <2>3, QuietCall DEF Busy
<1>4. ASSUME NEW c \in Caller, CallStep(c) PROVE DecisionInv' /\ [Promise!Next]_history
  <2>1. CASE MarkExpired(c)
    <3>1. UNCHANGED history /\ \A b \in Approval : RowInv(b)'
      BY <2>1 DEF MarkExpired, history, DecisionInv, RowInv, TypeOK
    <3> QED BY <2>1, <3>1, OverCall DEF MarkExpired
  <2>2. CASE Decide(c)
    BY <2>2, DecideStep
  <2>3. CASE DecideConflicts(c) \/ Release(c)
    <3>1. UNCHANGED history /\ \A b \in Approval : RowInv(b)'
      BY <2>3 DEF DecideConflicts, Release, rowVars, history, DecisionInv, RowInv
    <3> QED BY <2>3, <3>1, OverCall DEF DecideConflicts, Release
  <2>4. ASSUME NEW done \in BOOLEAN, NEW returns \in BOOLEAN, Execute(c, done, returns)
        PROVE DecisionInv' /\ [Promise!Next]_history
    BY <2>4, ExecuteStep
  <2>5. ASSUME NEW recorded \in BOOLEAN, StoreExecuted(c, recorded)
        PROVE DecisionInv' /\ UNCHANGED history
    <3>1. callPhase[c] = "storing" /\ callOn[c] \in Approval
          /\ verdict[callOn[c]] = "approved" /\ effects[callOn[c]] = 1
      BY <2>5 DEF StoreExecuted, DecisionInv, CallInv, Busy
    <3>2. UNCHANGED history /\ \A b \in Approval : RowInv(b)'
      BY <2>5, <3>1 DEF StoreExecuted, history, DecisionInv, RowInv, TypeOK
    <3>3. CASE Proceed(c)
      BY <3>1, <3>2, <3>3, ProceedCall
    <3>4. CASE CallGoto(c, "failing")
      <4>1. callPhase'[c] = "failing" /\ callOn' = callOn
            /\ \A d \in Caller \ {c} : callPhase'[d] = callPhase[d]
        BY <3>4 DEF CallGoto, TypeOK
      <4>2. CallInv(c)'
        BY <3>1, <3>2, <4>1 DEF CallInv, history
      <4> QED BY <3>1, <3>2, <4>1, <4>2, QuietCall DEF Busy
    <3> QED BY <2>5, <3>3, <3>4 DEF StoreExecuted
  <2>6. CASE StoreFailed(c)
    <3>1. callPhase[c] = "failing" /\ callOn[c] \in Approval
          /\ verdict[callOn[c]] = "approved"
      BY <2>6 DEF StoreFailed, DecisionInv, CallInv, Busy
    <3>2. UNCHANGED history /\ \A b \in Approval : RowInv(b)'
      BY <2>6, <3>1 DEF StoreFailed, history, DecisionInv, RowInv, TypeOK
    <3> QED BY <2>6, <3>1, <3>2, ProceedCall DEF StoreFailed
  <2> QED BY <1>4, <2>1, <2>2, <2>3, <2>4, <2>5, <2>6 DEF CallStep
<1>5. ASSUME NEW c \in Caller, CallDies(c) PROVE DecisionInv' /\ UNCHANGED history
  <2>1. UNCHANGED history /\ \A b \in Approval : RowInv(b)'
    BY <1>5 DEF CallDies, rowVars, history, DecisionInv, RowInv
  <2> QED BY <1>5, <2>1, OverCall DEF CallDies
<1>6. CASE ExpireStale
  <2>1. \A b \in Approval : RowInv(b)'
    BY <1>6 DEF ExpireStale, history, DecisionInv, RowInv, TypeOK
  <2> QED BY <1>6, <2>1 DEF ExpireStale, DecisionInv, CallInv, callVars, history
<1> QED
  BY <1>1, <1>2, <1>3, <1>4, <1>5, <1>6 DEF Next, AskStep, AskFinds, AskFindsNone,
     AskEnds, Lapse, vars, rowVars

LEMMA DecisionInvHolds == Spec => [](TypeOK /\ DecisionInv)
<1>1. TypeOK /\ DecisionInv /\ [Next]_vars => (TypeOK /\ DecisionInv)'
  BY NextTypeOK, NextDecisionInv
<1> QED
  BY InitTypeOK, InitDecisionInv, <1>1, PTL DEF Spec

\* The rows and the calls implement HumanDecision: for any number of
\* requests and of concurrent deciders, one decision per request wins and
\* stays, and the action is carried out at most once, after an approval.
THEOREM ImplementsPromise == Spec => KeepsPromise
<1>1. Init => Promise!Init
  BY DEF Init
<1>2. TypeOK /\ DecisionInv /\ [Next]_vars => [Promise!Next]_history
  BY NextDecisionInv
<1> QED
  BY DecisionInvHolds, <1>1, <1>2, PTL DEF Spec, KeepsPromise, Promise!Spec, history

\* What a row shows is what happened, for any number of racing calls.
THEOREM RowsTellTheTruth == Spec => []StatusTellsTheTruth
<1>1. TypeOK /\ DecisionInv => StatusTellsTheTruth
  BY DEF DecisionInv, RowInv, StatusTellsTheTruth
<1> QED
  BY DecisionInvHolds, <1>1, PTL

-----------------------------------------------------------------------------
(* What others may rely on *)

\* Once there, a row keeps its request, and a decision that was taken stays.
LEMMA RowStays ==
  ASSUME TypeOK, DecisionInv, [Next]_vars, NEW a \in Approval,
         apStatus[a] # "absent"
  PROVE  /\ apStatus'[a] # "absent" /\ apKey'[a] = apKey[a] /\ apTask'[a] = apTask[a]
         /\ verdict[a] # "none" => verdict'[a] = verdict[a]
<1> USE DEF rowVars, history
<1>1. CASE UNCHANGED <<rowVars, verdict>>
  BY <1>1
<1>2. ASSUME NEW q \in Asker, NEW b \in Approval, Insert(q, b)
      PROVE  /\ apStatus'[a] # "absent" /\ apKey'[a] = apKey[a] /\ apTask'[a] = apTask[a]
             /\ verdict' = verdict
  BY <1>2 DEF Insert, TypeOK
<1>3. ASSUME NEW c \in Caller, CallStep(c)
      PROVE  /\ apStatus'[a] # "absent" /\ apKey'[a] = apKey[a] /\ apTask'[a] = apTask[a]
             /\ verdict[a] # "none" => verdict'[a] = verdict[a]
  <2>1. CASE Decide(c)
    <3>1. callVerb[c] # "absent"
      BY DEF TypeOK, Verb
    <3>2. a = callOn[c] => verdict[a] = "none"
      BY <2>1 DEF Decide, DecisionInv, RowInv
    <3> QED BY <2>1, <3>1, <3>2 DEF Decide, TypeOK
  <2>2. CASE MarkExpired(c) \/ StoreFailed(c)
    BY <2>2 DEF MarkExpired, StoreFailed, TypeOK
  <2>3. ASSUME NEW recorded \in BOOLEAN, StoreExecuted(c, recorded)
        PROVE  /\ apStatus'[a] # "absent" /\ apKey'[a] = apKey[a] /\ apTask'[a] = apTask[a]
               /\ verdict' = verdict
    BY <2>3 DEF StoreExecuted, TypeOK
  <2> QED
    BY <1>1, <1>3, <2>1, <2>2, <2>3 DEF CallStep, DecideConflicts, Execute, Release
<1>4. CASE ExpireStale
  BY <1>4 DEF ExpireStale, TypeOK
<1> QED
  BY <1>1, <1>2, <1>3, <1>4 DEF Next, AskStep, AskFinds, AskFindsNone, AskEnds, Look,
     CallDies, Lapse, vars

\* A call is about a row that is there; from the decision on, the row shows
\* the call's own; and only a request that names a task is released.
ReleaseInv ==
  \A c \in Caller :
    /\ callPhase[c] # "idle" => callOn[c] \in Approval /\ apStatus[callOn[c]] # "absent"
    /\ callPhase[c] \in Busy \cup {"releasing"} => verdict[callOn[c]] = callVerb[c]
    /\ callPhase[c] = "releasing" => apTask[callOn[c]] \in Task

\* A request that has its answer was answered with a row.
AnswerInv == \A q \in Asker : askPhase[q] = "answered" => askGot[q] \in Approval

LEMMA InitReleaseInv == Init => ReleaseInv /\ AnswerInv
BY DEF Init, ReleaseInv, AnswerInv, Busy

LEMMA NextAnswerInv ==
  ASSUME TypeOK, AnswerInv, [Next]_vars
  PROVE  AnswerInv'
<1>1. CASE UNCHANGED askVars
  BY <1>1 DEF askVars, AnswerInv
<1>2. ASSUME NEW q \in Asker, AskStep(q) PROVE AnswerInv'
  BY <1>2 DEF AskStep, AskFinds, AskFindsNone, Insert, AskEnds, AnswerInv, TypeOK, Match
<1> QED
  BY <1>1, <1>2 DEF Next, vars, Look, CallStep, MarkExpired, Decide, DecideConflicts,
     Execute, StoreExecuted, StoreFailed, Release, CallDies, Lapse, ExpireStale, askVars

\* The calls other than the one that takes the step keep what they rely on.
LEMMA OthersRely ==
  ASSUME TypeOK, DecisionInv, ReleaseInv, [Next]_vars, NEW d \in Caller,
         callPhase'[d] = callPhase[d], callOn'[d] = callOn[d], callVerb'[d] = callVerb[d]
  PROVE  /\ callPhase'[d] # "idle" => callOn'[d] \in Approval /\ apStatus'[callOn'[d]] # "absent"
         /\ callPhase'[d] \in Busy \cup {"releasing"} => verdict'[callOn'[d]] = callVerb'[d]
         /\ callPhase'[d] = "releasing" => apTask'[callOn'[d]] \in Task
<1>1. callVerb[d] # "none"
  BY DEF TypeOK, Verb
<1>2. callPhase[d] \in Busy \cup {"releasing"} => callPhase[d] # "idle"
  BY DEF Busy
<1> QED
  BY <1>1, <1>2, RowStays DEF ReleaseInv

LEMMA NextReleaseInv ==
  ASSUME TypeOK, DecisionInv, ReleaseInv, [Next]_vars
  PROVE  ReleaseInv'
<1> DEFINE Rely(d) ==
      /\ callPhase[d] # "idle" => callOn[d] \in Approval /\ apStatus[callOn[d]] # "absent"
      /\ callPhase[d] \in Busy \cup {"releasing"} => verdict[callOn[d]] = callVerb[d]
      /\ callPhase[d] = "releasing" => apTask[callOn[d]] \in Task
<1>1. CASE UNCHANGED callVars
  BY <1>1, OthersRely DEF callVars, ReleaseInv
<1>2. ASSUME NEW c \in Caller,
             \A d \in Caller \ {c} : /\ callPhase'[d] = callPhase[d]
                                     /\ callOn'[d] = callOn[d]
                                     /\ callVerb'[d] = callVerb[d],
             Rely(c)'
      PROVE  ReleaseInv'
  BY <1>2, OthersRely DEF ReleaseInv
<1>3. ASSUME NEW c \in Caller, CallOver(c) PROVE ReleaseInv'
  <2>1. callPhase'[c] = "idle"
    BY <1>3 DEF CallOver, TypeOK
  <2>2. Rely(c)'
    BY <2>1 DEF Busy
  <2> QED BY <1>2, <1>3, <2>2 DEF CallOver, TypeOK
<1>4. ASSUME NEW c \in Caller, NEW p \in {"executing", "storing", "failing", "releasing"},
             CallGoto(c, p), callPhase[c] # "idle",
             verdict'[callOn[c]] = callVerb[c],
             p = "releasing" => apTask[callOn[c]] # NoTask
      PROVE  ReleaseInv'
  <2>1. callPhase'[c] = p /\ callOn' = callOn /\ callVerb' = callVerb
        /\ \A d \in Caller \ {c} : callPhase'[d] = callPhase[d]
    BY <1>4 DEF CallGoto, TypeOK
  <2>2. callOn[c] \in Approval /\ apStatus[callOn[c]] # "absent"
    BY <1>4 DEF ReleaseInv
  <2>3. apStatus'[callOn[c]] # "absent" /\ apTask'[callOn[c]] = apTask[callOn[c]]
    BY <2>2, RowStays
  <2>4. apTask[callOn[c]] # NoTask => apTask[callOn[c]] \in Task
    BY <2>2 DEF TypeOK
  <2>5. Rely(c)'
    BY <1>4, <2>1, <2>2, <2>3, <2>4
  <2> QED BY <1>2, <2>1, <2>5
<1>5. ASSUME NEW c \in Caller, Proceed(c), callPhase[c] # "idle",
             verdict'[callOn[c]] = callVerb[c]
      PROVE  ReleaseInv'
  BY <1>3, <1>4, <1>5 DEF Proceed
<1>6. ASSUME NEW c \in Caller, NEW a \in Approval, NEW v \in Verb, Look(c, a, v)
      PROVE  ReleaseInv'
  <2>1. /\ callPhase'[c] \in {"expiring", "deciding"} /\ callOn'[c] = a
        /\ apStatus' = apStatus /\ apStatus[a] = "pending"
        /\ \A d \in Caller \ {c} : /\ callPhase'[d] = callPhase[d]
                                   /\ callOn'[d] = callOn[d]
                                   /\ callVerb'[d] = callVerb[d]
    BY <1>6 DEF Look, TypeOK, rowVars
  <2>2. Rely(c)'
    BY <2>1 DEF Busy
  <2> QED BY <1>2, <2>1, <2>2
<1>7. ASSUME NEW c \in Caller, callPhase[c] \in Busy PROVE verdict[callOn[c]] = callVerb[c]
  BY <1>7 DEF ReleaseInv
<1>8. ASSUME NEW c \in Caller, CallStep(c) PROVE ReleaseInv'
  <2>1. CASE MarkExpired(c) \/ DecideConflicts(c) \/ Release(c)
    BY <2>1, <1>3 DEF MarkExpired, DecideConflicts, Release
  <2>2. CASE Decide(c)
    <3>1. callOn[c] \in Approval /\ callPhase[c] # "idle"
      BY <2>2 DEF Decide, ReleaseInv
    <3>2. verdict'[callOn[c]] = callVerb[c]
      BY <2>2, <3>1 DEF Decide, TypeOK
    <3> QED BY <2>2, <3>1, <3>2, <1>4, <1>5 DEF Decide
  <2>3. ASSUME NEW done \in BOOLEAN, NEW returns \in BOOLEAN, Execute(c, done, returns)
        PROVE ReleaseInv'
    <3>1. verdict' = verdict /\ callPhase[c] \in Busy
      BY <2>3 DEF Execute, Busy
    <3> QED BY <2>3, <3>1, <1>4, <1>7 DEF Execute
  <2>4. ASSUME NEW recorded \in BOOLEAN, StoreExecuted(c, recorded) PROVE ReleaseInv'
    <3>1. verdict' = verdict /\ callPhase[c] \in Busy
      BY <2>4 DEF StoreExecuted, Busy, history
    <3> QED BY <2>4, <3>1, <1>4, <1>5, <1>7 DEF StoreExecuted
  <2>5. CASE StoreFailed(c)
    <3>1. verdict' = verdict /\ callPhase[c] \in Busy
      BY <2>5 DEF StoreFailed, Busy, history
    <3> QED BY <2>5, <3>1, <1>5, <1>7 DEF StoreFailed
  <2> QED BY <1>8, <2>1, <2>2, <2>3, <2>4, <2>5 DEF CallStep
<1>9. ASSUME NEW c \in Caller, CallDies(c) PROVE ReleaseInv'
  BY <1>9, <1>3 DEF CallDies
<1> QED
  BY <1>1, <1>6, <1>8, <1>9 DEF Next, vars, AskStep, AskFinds, AskFindsNone, Insert,
     AskEnds, Lapse, ExpireStale

LEMMA ReleaseInvHolds == Spec => [](TypeOK /\ DecisionInv /\ ReleaseInv /\ AnswerInv)
<1>1. TypeOK /\ DecisionInv /\ ReleaseInv /\ AnswerInv /\ [Next]_vars
        => (TypeOK /\ DecisionInv /\ ReleaseInv /\ AnswerInv)'
  BY NextTypeOK, NextDecisionInv, NextReleaseInv, NextAnswerInv
<1> QED
  BY InitTypeOK, InitDecisionInv, InitReleaseInv, <1>1, PTL DEF Spec
=============================================================================
