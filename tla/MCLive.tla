------------------------------- MODULE MCLive -------------------------------
(***************************************************************************)
(* The services in which something has to arrive, to end or to stay within *)
(* an allowance: evaluations, the stream of events, the page that shows    *)
(* them, the rate limit and the budgets, each on a small instance.  They   *)
(* are checked side by side: a behaviour is that of one                    *)
(* service, chosen at the start, and a property of another says nothing of *)
(* it.  The fairness of each is that of its own module, in its behaviours. *)
(***************************************************************************)
EXTENDS Evaluation, TLC

CONSTANTS
  Client, MaxEvent, Limit, Recent, MaxDrops,
  Org, MaxVersion, MaxFailures, MaxMoves, Polls, Watches,
  Hit, HitLimit, Window, MaxCount, MaxDeaths,
  Task, Providers, DailyBudget, MaxTaskUsd, Estimated, MaxCost,
  Act, MaxPerDay, MaxAmount, Amounts, MaxDone

VARIABLES
  service,   \* the service that this behaviour is about
  pending, visible, nextId, late, cursor, wire, received, closed, drops,
  server, stored, session, loads, data, error, stream, due, timer, settled,
    asks, finished, wrote, failures, moves, tabbed,
  count, ttl, rateAt, deaths,
  today, aiSpent, aiAt, try, repair, price, asked,
  entries, decided, done

Strm == INSTANCE EventStream
Page == INSTANCE Dashboard
Rate == INSTANCE RateLimit WITH
          at <- rateAt
Ai == INSTANCE AiGateway WITH
          spent <- aiSpent, at <- aiAt
Daily == INSTANCE DailyLimit

ASSUME GatewayAssumption ==
  /\ IsFiniteSet(Task) /\ Providers \in Nat \ {0}
  /\ DailyBudget \in Nat /\ MaxTaskUsd \in Nat
  /\ Estimated \in Nat /\ MaxCost \in Nat

ASSUME DailyAssumption == IsFiniteSet(Act) /\ MaxPerDay \in Nat

ASSUME EvaluationAssumption ==
  MinSample \in Nat /\ MaxSample \in Nat /\ MaxDays \in Nat

ASSUME LimiterAssumption ==
  Window \in Nat /\ MaxCount \in Nat /\ MaxDeaths \in Nat

ASSUME DashboardAssumption ==
  Org # {} /\ MaxVersion \in Nat /\ MaxFailures \in Nat /\ MaxMoves \in Nat

ASSUME StreamAssumption ==
  MaxEvent \in Nat /\ Limit \in Nat \ {0} /\ Recent \in Nat /\ MaxDrops \in Nat

Services == {"evaluation", "stream", "dashboard", "limiter", "gateway",
              "daily"}

streamState == <<pending, visible, nextId, late, cursor, wire, received, closed, drops>>
dashboardState == <<server, stored, session, loads, data, error, stream, due,
                    timer, settled, asks, finished, wrote, failures, moves,
                    tabbed>>
limiterState == <<count, ttl, rateAt, deaths>>
gatewayState == <<today, aiSpent, aiAt, try, repair, price, asked>>
dailyState == <<entries, decided, done>>

all ==
  <<service, evalVars,
    streamState, dashboardState, limiterState, gatewayState, dailyState>>

\* What the services other than one keep does not change.
Rest(me) ==
  /\ UNCHANGED service
  /\ IF me = "evaluation" THEN TRUE ELSE UNCHANGED evalVars
  /\ IF me = "stream" THEN TRUE ELSE UNCHANGED streamState
  /\ IF me = "dashboard" THEN TRUE ELSE UNCHANGED dashboardState
  /\ IF me = "limiter" THEN TRUE ELSE UNCHANGED limiterState
  /\ IF me = "gateway" THEN TRUE ELSE UNCHANGED gatewayState
  /\ IF me = "daily" THEN TRUE ELSE UNCHANGED dailyState

ServicesInit ==
  /\ service \in Services
  /\ Init
  /\ Strm!Init
  /\ Page!Init
  /\ Rate!Init
  /\ Ai!Init
  /\ Daily!Init

ServicesNext ==
  \/ service = "evaluation" /\ Next /\ Rest("evaluation")
  \/ service = "stream" /\ Strm!Next /\ Rest("stream")
  \/ service = "dashboard" /\ Page!Next /\ Rest("dashboard")
  \/ service = "limiter" /\ Rate!Next /\ Rest("limiter")
  \/ service = "gateway" /\ Ai!Next /\ Rest("gateway")
  \/ service = "daily" /\ Daily!Next /\ Rest("daily")

\* A step of each of the services that owe fairness.  A behaviour is about one
\* service, and fairness to the disjunction is fairness to the disjunct of that
\* one: the assumptions below are those of the modules, written side by side.
Step(evaluation, stream_, dashboard, limiter) ==
  \/ service = "evaluation" /\ evaluation /\ Rest("evaluation")
  \/ service = "stream" /\ stream_ /\ Rest("stream")
  \/ service = "dashboard" /\ dashboard /\ Rest("dashboard")
  \/ service = "limiter" /\ limiter /\ Rest("limiter")

ServicesFairness ==
  /\ \A c \in Client :
       /\ WF_all(Step(NextSlot, Strm!Connect(c), Page!Render, Rate!Tick))
       /\ WF_all(Step(\E s \in 0..1 : Claim(s), Strm!Receive(c), FALSE, FALSE))
       /\ \A h \in Hit :
            WF_all(Step(\E w \in Ticker : TickEnqueues(w), Strm!Flush(c), Page!Refresh, Rate!Goes(h)))
  /\ WF_all(Step(\E s \in 0..1 : RunEnds(s), FALSE, Page!Ask, FALSE))
  /\ WF_all(Step(FALSE, FALSE, \E a \in asks : Page!ReturnAsk(a), FALSE))
  /\ SF_all(Step(\E w \in Ticker : TickCounts(w), FALSE, \E l \in loads : l.latest /\ Page!Serve(l), FALSE))
  /\ SF_all(Step(\E s \in 0..1 : Evaluate(s), FALSE, \E l \in loads : l.latest /\ Page!Return(l), FALSE))
  /\ SF_all(Step(Record, FALSE, FALSE, FALSE))
  /\ SF_all(Step(ApplyDecision, FALSE, FALSE, FALSE))

ServicesSpec == ServicesInit /\ [][ServicesNext]_all /\ ServicesFairness

-----------------------------------------------------------------------------
(* What is asked for is done once and on the grounds that the code names:  *)
(* a workspace is evaluated once a slot, and no experiment that hardly     *)
(* anybody saw is judged; a subscriber sees the events in their order; a   *)
(* task overruns its budget by one answer; a page at rest shows the        *)
(* workspace that it names, and what the last action that reloads it has   *)
(* left there.                                                             *)
OnceAndInOrder ==
  /\ service = "evaluation" => TypeOK /\ OneTaskPerSlot /\ UntestedIsNotJudged
  /\ service = "stream" => Strm!TypeOK /\ Strm!SeenInOrder
  /\ service = "gateway" => Ai!TypeOK /\ Ai!TaskOverrunIsOneAnswer /\ Ai!RequestsAreBounded
                             /\ Ai!DailyOverrunIsBounded
  /\ service = "dashboard" => Page!TypeOK /\ Page!PageIsCurrent
  /\ service = "limiter" => Rate!TypeOK
  /\ service = "daily" => Daily!TypeOK

(* The budget of a day and the limit of a policy keep what an allowance    *)
(* promises: what is counted exceeds it by no more than was let through    *)
(* at once.                                                                *)
AllowancesKept == Ai!KeepsDailyBudget /\ Daily!KeepsDailyLimit

(* A key of the rate limit that has answered will expire, and what a page  *)
(* shows of one workspace never goes back to an older answer.              *)
NothingGoesBack == Rate!AnsweredKeyExpires /\ Page!NeverGoesBack

(* It comes to an end: an experiment that runs is decided on or stopped,   *)
(* if the scheduler evaluates; a subscriber that lacks events gets all     *)
(* that are not late, unless it is refused; a refusal of the rate limit is *)
(* lifted; and a page comes to show what its workflow has left.            *)
EverythingEnds ==
  (\/ service = "evaluation" /\ status = "running"
   \/ service = "stream" /\ Strm!Lagging
   \/ service = "limiter" /\ count > HitLimit
   \/ service = "dashboard" /\ settled > 0)
  ~> (\/ service = "evaluation" /\ status # "running"
      \/ service = "stream" /\ ~Strm!Lagging
      \/ service = "limiter" /\ count = 0
      \/ service = "dashboard" /\ Page!ShowsWhatItLeft)
=============================================================================
