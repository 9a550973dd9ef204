------------------------------- MODULE Scoring -------------------------------
(***************************************************************************)
(* The score of one opportunity (packages/core/src/opportunities.ts) and   *)
(* the learned weights it is computed with (packages/core/src/strategy.ts, *)
(* recalibrateWeights of packages/analytics/src/learning.ts).              *)
(*                                                                         *)
(* An actor either changes the opportunity and scores it again, or         *)
(* recalibrates the weights; an operator may change the tags and no more.  *)
(* Evidence, estimates, signals and tags are one number, the version of    *)
(* the inputs; weights are the number of their row of strategy_versions, 0 *)
(* the built-in ones; whether learned weights predict better is left open. *)
(* The 30 s of a cached copy end at any time.                              *)
(*                                                                         *)
(* What the score is made of (packages/analytics/src/scoring.ts) is a      *)
(* specification of its own, CriteriaSpec: buildCriteria turns what is     *)
(* known of an opportunity into ten criteria, each a value with a range    *)
(* and a kind of data, and scoreOpportunity takes their weighted mean.  A  *)
(* step changes one thing that is known and scores the opportunity again.  *)
(* Shares are in hundredths, and the score is the sum of weight times      *)
(* value.  What a logarithm makes of a count or an amount of money is an   *)
(* input, as is the pattern strength of the texts; the interval that is    *)
(* sampled between the ranges is not modelled.                             *)
(***************************************************************************)
EXTENDS Integers, Sequences, FiniteSetsExt

CONSTANTS
  Process,        \* processes, each with its own StrategyService
  Actor,          \* operations in progress, each in some process
  MinOutcomes,    \* concluded experiments a recalibration needs
  MaxInputs,      \* bound: changes of the opportunity
  MaxVersions,    \* bound: versions of the weights
  Documents,      \* numbers of documents that occur
  Levels,         \* shares that occur: of signals and of estimates
  Weeks,          \* weeks to a first version that occur
  Competitions,   \* assessments of the competition that occur
  Spread          \* how far an estimate's bounds lie from its value

VARIABLES
  versions,       \* strategy_versions: [number, status]
  cache,          \* each process's copy of the active weights
  work,           \* the operation each actor is in
  inputs,         \* version of the opportunity's data
  due,            \* history: the version that the last change left which scores
  score,          \* opportunities.score: what it was computed from
  scores,         \* opportunity_scores
  outcomes,       \* concluded experiments: [wins, losses]
  overlapped,     \* two scorings have overlapped
  died,           \* a process has died inside an operation
  known,          \* CriteriaInput
  criteria        \* ScoreBreakdown.criteria

scoreVars == <<versions, cache, work, inputs, due, score, scores, outcomes,
               overlapped, died>>
criteriaVars == <<known, criteria>>

NoCopy == MaxVersions + 1
Idle == [does |-> "idle", at |-> "idle", in |-> CHOOSE p \in Process : TRUE,
         weights |-> 0, seen |-> 0, top |-> 0, retires |-> {}]

ActiveRows == {r \in versions : r.status = "active"}
Numbers == {r.number : r \in versions}
Top(numbers) == IF numbers = {} THEN 0 ELSE CHOOSE n \in numbers : \A m \in numbers : m <= n
ActiveWeights == Top({r.number : r \in ActiveRows})
NoScore == [inputs |-> 0, weights |-> 0]

Init ==
  /\ versions = {} /\ cache = [p \in Process |-> NoCopy]
  /\ work = [a \in Actor |-> Idle]
  /\ inputs = 1 /\ due = 1 /\ score = NoScore /\ scores = {}
  /\ outcomes = [wins |-> 0, losses |-> 0]
  /\ overlapped = FALSE /\ died = FALSE

Goes(a, at) == work' = [work EXCEPT ![a].at = at]
Scoring == {a \in Actor : work[a].does = "score"}

-----------------------------------------------------------------------------
(* The opportunity is created or changed (createManual with its evidence,  *)
(* update, addEvidence) by an operation that scores it afterwards.         *)
ChangeAndScore(a, p) ==
  /\ work[a] = Idle /\ inputs < MaxInputs
  /\ inputs' = inputs + 1 /\ due' = inputs + 1
  /\ work' = [work EXCEPT ![a] = [Idle EXCEPT !.does = "score", !.at = "get", !.in = p]]
  /\ overlapped' = (overlapped \/ Scoring # {})
  /\ UNCHANGED <<versions, cache, score, scores, outcomes, died>>

(* PATCH /api/opportunities/:id changes the tags, which say whether the     *)
(* customers are firms, and scores nothing.                                 *)
ChangeTags ==
  /\ inputs < MaxInputs
  /\ inputs' = inputs + 1
  /\ UNCHANGED <<versions, cache, work, due, score, scores, outcomes, overlapped, died>>

(* A variant that reads the opportunity before the change it scores. *)
InputsBefore == inputs - 1

InputsNow == inputs

(* rescore: the opportunity is read first, the weights next. *)
GetOpportunity(a) ==
  /\ work[a].at = "get"
  /\ work' = [work EXCEPT ![a].seen = InputsNow, ![a].at = "weights"]
  /\ UNCHANGED <<versions, cache, inputs, due, score, scores, outcomes, overlapped, died>>

Uses(a, weights) ==
  work' = [work EXCEPT ![a].weights = weights,
                       ![a].at = IF work[a].does = "score" THEN "save" ELSE "judge"]

(* activeWeights: a copy in the process, or the highest active row, which  *)
(* is kept when the answer comes back.                                     *)
TakeCopy(a) ==
  /\ work[a].at = "weights" /\ cache[work[a].in] # NoCopy
  /\ Uses(a, cache[work[a].in])
  /\ UNCHANGED <<versions, cache, inputs, due, score, scores, outcomes, overlapped, died>>

ReadWeights(a) ==
  /\ work[a].at = "weights" /\ cache[work[a].in] = NoCopy
  /\ work' = [work EXCEPT ![a].weights = ActiveWeights, ![a].at = "keep"]
  /\ UNCHANGED <<versions, cache, inputs, due, score, scores, outcomes, overlapped, died>>

KeepWeights(a) ==
  /\ work[a].at = "keep"
  /\ cache' = [cache EXCEPT ![work[a].in] = work[a].weights]
  /\ Uses(a, work[a].weights)
  /\ UNCHANGED <<versions, inputs, due, score, scores, outcomes, overlapped, died>>

Expire(p) ==
  /\ cache[p] # NoCopy
  /\ cache' = [cache EXCEPT ![p] = NoCopy]
  /\ UNCHANGED <<versions, work, inputs, due, score, scores, outcomes, overlapped, died>>

Breakdown(a) == [inputs |-> work[a].seen, weights |-> work[a].weights]

(* saveScore: two statements, the opportunity and the history. *)
SaveScore(a) ==
  /\ work[a].at = "save"
  /\ score' = Breakdown(a)
  /\ Goes(a, "history")
  /\ UNCHANGED <<versions, cache, inputs, due, scores, outcomes, overlapped, died>>

SaveHistory(a) ==
  /\ work[a].at = "history"
  /\ scores' = scores \cup {Breakdown(a)}
  /\ work' = [work EXCEPT ![a] = Idle]
  /\ UNCHANGED <<versions, cache, inputs, due, score, outcomes, overlapped, died>>

-----------------------------------------------------------------------------
(* An experiment on some opportunity concludes, and its process learns. *)
Enough == outcomes.wins + outcomes.losses >= MinOutcomes
          /\ outcomes.wins > 0 /\ outcomes.losses > 0

Conclude(a, p, which) ==
  /\ work[a] = Idle
  /\ outcomes.wins + outcomes.losses < MinOutcomes + 1
  /\ outcomes' = [outcomes EXCEPT ![which] = @ + 1]
  /\ work' = [work EXCEPT ![a] = [Idle EXCEPT !.does = "learn", !.at = "weights", !.in = p]]
  /\ UNCHANGED <<versions, cache, inputs, due, score, scores, overlapped, died>>

(* recalibrateWeights: too few outcomes, or no better prediction, and the  *)
(* weights stay.                                                           *)
Reject(a) ==
  /\ work[a].at = "judge"
  /\ work' = [work EXCEPT ![a] = Idle]
  /\ UNCHANGED <<versions, cache, inputs, due, score, scores, outcomes, overlapped, died>>

(* Accepted: the transaction reads the highest number... *)
ReadTop(a) ==
  /\ work[a].at = "judge" /\ Enough
  /\ work' = [work EXCEPT ![a].top = Top(Numbers), ![a].at = "retire"]
  /\ UNCHANGED <<versions, cache, inputs, due, score, scores, outcomes, overlapped, died>>

(* ...locks the active rows to retire them, and waits for a transaction    *)
(* that holds one of them...                                               *)
Retire(a) ==
  /\ work[a].at = "retire"
  /\ \A b \in Actor \ {a} : work[b].retires \cap {r.number : r \in ActiveRows} = {}
  /\ work' = [work EXCEPT ![a].retires = {r.number : r \in ActiveRows}, ![a].at = "insert"]
  /\ UNCHANGED <<versions, cache, inputs, due, score, scores, outcomes, overlapped, died>>

(* A variant without UNIQUE (org_id, kind, version). *)
AnyNumber(a) == TRUE

NumberIsFree(a) == work[a].top + 1 \notin Numbers

(* ...and inserts the next number.  Committed, it becomes the active one;  *)
(* a number taken meanwhile rolls all of it back.                          *)
Insert(a) ==
  /\ work[a].at = "insert" /\ work[a].top < MaxVersions
  /\ IF NumberIsFree(a)
       THEN /\ versions' = {IF r.number \in work[a].retires
                              THEN [r EXCEPT !.status = "retired"] ELSE r : r \in versions}
                           \cup {[number |-> work[a].top + 1, status |-> "active", by |-> a]}
            /\ work' = [work EXCEPT ![a].at = "forget", ![a].retires = {}]
       ELSE work' = [work EXCEPT ![a] = Idle] /\ UNCHANGED versions
  /\ UNCHANGED <<cache, inputs, due, score, scores, outcomes, overlapped, died>>

Forget(a) ==
  /\ work[a].at = "forget"
  /\ cache' = [cache EXCEPT ![work[a].in] = NoCopy]
  /\ work' = [work EXCEPT ![a] = Idle]
  /\ UNCHANGED <<versions, inputs, due, score, scores, outcomes, overlapped, died>>

(* A process dies: what it had not committed is gone. *)
Die(p) ==
  /\ ~died
  /\ died' = TRUE
  /\ cache' = [cache EXCEPT ![p] = NoCopy]
  /\ work' = [a \in Actor |-> IF work[a].in = p THEN Idle ELSE work[a]]
  /\ UNCHANGED <<versions, inputs, due, score, scores, outcomes, overlapped>>

Steps(a) ==
  \/ GetOpportunity(a) \/ TakeCopy(a) \/ ReadWeights(a) \/ KeepWeights(a)
  \/ SaveScore(a) \/ SaveHistory(a)
  \/ Reject(a) \/ ReadTop(a) \/ Retire(a) \/ Insert(a) \/ Forget(a)

Next ==
  \/ \E a \in Actor : Steps(a)
  \/ \E a \in Actor, p \in Process : ChangeAndScore(a, p) \/ Conclude(a, p, "wins") \/ Conclude(a, p, "losses")
  \/ \E p \in Process : Expire(p) \/ Die(p)
  \/ ChangeTags

Spec == Init /\ [][Next]_scoreVars

-----------------------------------------------------------------------------
TypeOK ==
  /\ \A r \in versions : r.number \in 1 .. MaxVersions /\ r.status \in {"active", "retired"}
  /\ cache \in [Process -> 0 .. NoCopy]
  /\ \A a \in Actor : /\ work[a].does \in {"idle", "score", "learn"}
                      /\ work[a].weights \in 0 .. MaxVersions
                      /\ work[a].retires \subseteq 1 .. MaxVersions
  /\ inputs \in 1 .. MaxInputs /\ due \in 1 .. inputs
  /\ scores \cup {score} \subseteq [inputs : 0 .. MaxInputs, weights : 0 .. MaxVersions]
  /\ {overlapped, died} \subseteq BOOLEAN

(* However recalibrations overlap, the versions are numbered without gap,  *)
(* and one of them is active, the last.                                    *)
LastVersionActive ==
  /\ Numbers = 1 .. Cardinality(versions)
  /\ versions # {} => {r.number : r \in ActiveRows} = {Top(Numbers)}

(* At rest the score shown is in the history and was computed from the     *)
(* opportunity as it is, or was at some time after the last change that    *)
(* scores - only tags have changed since -, unless two scorings overlapped *)
(* or a process died; the weights it was computed with exist.              *)
ScoreFollowsInputs ==
  /\ score.weights \in {0} \cup Numbers
  /\ (Scoring = {} /\ score # NoScore /\ ~died) =>
       /\ score \in scores
       /\ ~overlapped => score.inputs \in due .. inputs

-----------------------------------------------------------------------------
(* The criteria and their weighted mean *)

Kinds == {"OBSERVED", "ESTIMATED", "USER_INPUT", "MODEL_ASSUMPTION", "DEMO"}
KindConfidence == [OBSERVED |-> 90, ESTIMATED |-> 60, USER_INPUT |-> 70,
                   MODEL_ASSUMPTION |-> 25, DEMO |-> 0]
DefaultWeights ==
  [demand_evidence |-> 18, pain_intensity |-> 14, willingness_to_pay |-> 14,
   market_size |-> 12, competition |-> 8, technical_feasibility |-> 8,
   regulatory_safety |-> 8, time_to_revenue |-> 8, distribution_ease |-> 6,
   strategic_fit |-> 4]
Keys == DOMAIN DefaultWeights

None == [kind |-> "none"]
Estimate == {[kind |-> "ESTIMATED", value |-> v, low |-> v - Spread, high |-> v + Spread] : v \in Levels}
            \cup {[kind |-> "USER_INPUT", value |-> 50, low |-> 50, high |-> 50]}

Lower(a, b) == IF a < b THEN a ELSE b
Higher(a, b) == IF a < b THEN b ELSE a
Share(x) == Higher(0, Lower(100, x))

-----------------------------------------------------------------------------
(* crit: the bounds never exclude the value, nothing leaves 0..100, and in  *)
(* a demo workspace everything is demo data.                                *)

(* A variant without the demo mode. *)
CritAsGiven(k, value, low, high, kind) ==
  [value |-> Share(value), low |-> Share(Lower(low, value)),
   high |-> Share(Higher(high, value)), kind |-> kind]

Crit(k, value, low, high, kind) ==
  [value |-> Share(value), low |-> Share(Lower(low, value)),
   high |-> Share(Higher(high, value)), kind |-> IF k.demo THEN "DEMO" ELSE kind]

(* A variant that forgets which way round risk and difficulty count. *)
FromEstimateAsIs(k, est, fallback) ==
  IF est = None THEN Crit(k, fallback[1], fallback[2], fallback[3], "MODEL_ASSUMPTION")
  ELSE Crit(k, est.value, est.low, est.high, est.kind)

(* fromEstimate, of an estimate in which much is bad. *)
FromInverted(k, est, fallback) ==
  IF est = None THEN Crit(k, fallback[1], fallback[2], fallback[3], "MODEL_ASSUMPTION")
  ELSE Crit(k, 100 - Share(est.value), 100 - Share(est.high), 100 - Share(est.low), est.kind)

FromEstimate(k, est, fallback) ==
  IF est = None THEN Crit(k, fallback[1], fallback[2], fallback[3], "MODEL_ASSUMPTION")
  ELSE Crit(k, est.value, est.low, est.high, est.kind)

Around(k, value, below, above, kind) == Crit(k, value, value - below, value + above, kind)

(* Documents, sources, engagement and freshness, 35 : 25 : 30 : 10. *)
Demand(k) ==
  LET n == k.documents
      spread == CASE n < 3 -> 25 [] n >= 3 /\ n < 10 -> 15 [] OTHER -> 8
  IN Around(k, (35 * k.reach + 25 * k.sources + 30 * k.reach + 10 * k.recency) \div 100,
            spread, spread, "OBSERVED")

Pain(k) == LET spread == IF k.documents < 5 THEN 25 ELSE 12
           IN Around(k, k.pain, spread, spread, "ESTIMATED")

WillingnessToPay(k) ==
  LET ratio == IF k.documents > 0 THEN (100 * k.mentions) \div k.documents ELSE 0
      price == IF k.price = None THEN 10 ELSE (Share(k.price.value) * 30) \div 100
  IN Around(k, Share(20 + (3 * ratio) \div 2 + (IF k.b2b THEN 15 ELSE 0) + price), 25, 20, "ESTIMATED")

CompetitionOf == [none_found |-> <<65, 35, 85>>, low |-> <<80, 60, 90>>,
                  medium |-> <<55, 40, 70>>, high |-> <<30, 15, 45>>,
                  unknown |-> <<50, 20, 80>>]
Competition(k) ==
  LET c == CompetitionOf[k.competition]
  IN Crit(k, c[1], c[2], c[3], IF k.competition = "unknown" THEN "MODEL_ASSUMPTION" ELSE "OBSERVED")

(* One week is worth all, 26 weeks nothing; the bounds default to 70 % and  *)
(* 150 % of the weeks.                                                      *)
TimeToRevenue(k) ==
  LET worth(weeks) == Share(100 - 4 * (weeks - 1))
  IN IF k.weeks = 0 THEN Crit(k, 50, 25, 75, "MODEL_ASSUMPTION")
     ELSE Crit(k, worth(k.weeks), worth((3 * k.weeks) \div 2), worth((7 * k.weeks) \div 10), "ESTIMATED")

BuildCriteria(k, difficulty, fit) ==
  [demand_evidence |-> Demand(k),
   pain_intensity |-> Pain(k),
   willingness_to_pay |-> WillingnessToPay(k),
   market_size |-> FromEstimate(k, k.market, <<40, 10, 80>>),
   competition |-> Competition(k),
   technical_feasibility |-> FromInverted(k, k.complexity, <<50, 25, 75>>),
   regulatory_safety |-> FromInverted(k, k.risk, <<60, 30, 90>>),
   time_to_revenue |-> TimeToRevenue(k),
   distribution_ease |-> FromInverted(k, difficulty, <<50, 20, 80>>),
   strategic_fit |-> FromEstimate(k, fit, <<50, 30, 70>>)]

(* scoreOpportunity, of one column of the criteria. *)
Weighted(cs, of(_)) == MapThenSumSet(LAMBDA key : DefaultWeights[key] * of(cs[key]), Keys)
Score(cs) == Weighted(cs, LAMBDA c : c.value)
Confidence(cs) == Weighted(cs, LAMBDA c : KindConfidence[c.kind])

-----------------------------------------------------------------------------
(* A new opportunity, of a real or a demo workspace, is scored at once. *)
CriteriaInit ==
  /\ \E demo, b2b \in BOOLEAN :
       known = [demo |-> demo, b2b |-> b2b, documents |-> 0, reach |-> 0, sources |-> 0,
                recency |-> 0, pain |-> 0, mentions |-> 0, price |-> None, market |-> None,
                competition |-> "unknown", complexity |-> None, risk |-> None,
                weeks |-> 0]
  /\ criteria = BuildCriteria(known, None, None)

(* pickEstimate: a criterion that has no column of its own is carried over  *)
(* as an estimate, the other way round when much of it is bad.              *)
Estimated(c) == [kind |-> c.kind, value |-> c.value, low |-> c.low, high |-> c.high]
Carried(c) == IF c.kind = "MODEL_ASSUMPTION" THEN None ELSE Estimated(c)

(* A variant that carries it over as it is. *)
CarriedAsIs(c) == Carried(c)

CarriedInverted(c) ==
  IF c.kind = "MODEL_ASSUMPTION" THEN None
  ELSE [kind |-> c.kind, value |-> 100 - c.value, low |-> 100 - c.high, high |-> 100 - c.low]

(* rescore *)
Rescores(new, difficulty, fit) ==
  /\ known' = new
  /\ criteria' = BuildCriteria(new,
                    IF difficulty # None THEN difficulty ELSE CarriedInverted(criteria.distribution_ease),
                    IF fit # None THEN fit ELSE Carried(criteria.strategic_fit))

Learns(new) == new # known /\ Rescores(new, None, None)

(* A scan finds evidence, and says how hard the market is to reach and,     *)
(* where the workspace has named its industries, how well it fits.          *)
FindEvidence ==
  \E n \in Documents, share \in Levels, est \in Estimate :
    /\ n > known.documents
    /\ \E mentions \in {0, n \div 2, n}, fit \in {None, est} :
         Rescores([known EXCEPT !.documents = n, !.reach = share, !.sources = share,
                     !.recency = share, !.pain = share, !.mentions = mentions], est, fit)

(* An analysis fills everything in at once. *)
Analyze ==
  \E est \in Estimate, weeks \in Weeks, level \in Competitions :
    Learns([known EXCEPT !.market = est, !.price = est, !.complexity = est,
                         !.weeks = weeks, !.competition = level])

(* The risk review, and an operator who corrects one estimate. *)
Update ==
  \E est \in Estimate :
    \/ Learns([known EXCEPT !.risk = est])
    \/ Learns([known EXCEPT !.complexity = est])

CriteriaNext == FindEvidence \/ Analyze \/ Update

CriteriaSpec == CriteriaInit /\ [][CriteriaNext]_criteriaVars

-----------------------------------------------------------------------------
(* Every criterion has a share and a kind of data. *)
CriteriaTypeOK ==
  \A key \in Keys : /\ {criteria[key].value, criteria[key].low, criteria[key].high} \subseteq 0..100
                    /\ criteria[key].kind \in Kinds

(* Whatever is known, and however the estimates' bounds lie, no range      *)
(* excludes its value, so the score is between the scores of the worst and *)
(* of the best case; and a demo workspace, whose estimates may say that    *)
(* they were observed, has no confidence at all.                           *)
ScoreIsInRange ==
  /\ \A key \in Keys : /\ criteria[key].low <= criteria[key].value
                       /\ criteria[key].value <= criteria[key].high
  /\ Weighted(criteria, LAMBDA c : c.low) <= Score(criteria)
  /\ Score(criteria) <= Weighted(criteria, LAMBDA c : c.high)
  /\ (Confidence(criteria) = 0) = known.demo

ValueOf(est) == IF est = None THEN -1 ELSE est.value

(* Whoever finds an opportunity riskier, or harder to build, and learns    *)
(* nothing else, never raises its score.                                   *)
WorseNeverScoresHigher ==
  [][/\ \E field \in {"complexity", "risk"} :
          /\ known[field] # None /\ ValueOf(known'[field]) > ValueOf(known[field])
          /\ known' = [known EXCEPT ![field] = known'[field]]
     => Score(criteria') <= Score(criteria)]_criteriaVars

(* "Carry a previously computed criterion forward ... (so rescoring keeps  *)
(* it)" (opportunities.ts:321): what a scan has found out of distribution  *)
(* and fit stays, range and kind included, through every later rescoring   *)
(* until the next scan.                                                    *)
RescoringKeepsWhatAScanFound ==
  [][known'.documents = known.documents
     => /\ criteria'.distribution_ease = criteria.distribution_ease
        /\ criteria'.strategic_fit = criteria.strategic_fit]_criteriaVars
=============================================================================
