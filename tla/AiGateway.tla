----------------------------- MODULE AiGateway -----------------------------
(***************************************************************************)
(* Calls of language models (packages/core/src/ai.ts, packages/ai/src/     *)
(* router.ts): the providers are tried in order, each after a check of the *)
(* budgets; the price is charged to the task when the answer is there, and *)
(* counted against the day by the row of the call, which is written later  *)
(* and may get lost; JSON that is not valid is asked for once more.        *)
(***************************************************************************)
EXTENDS Integers

CONSTANTS
  Task,           \* tasks with calls; one call at a time in each
  Providers,      \* number of configured providers
  DailyBudget, MaxTaskUsd,
  Estimated,      \* estimate of one request
  MaxCost         \* bound of the model: price of an answer

VARIABLES
  today,          \* spentToday: the sum over model_calls
  spent,          \* [Task -> Nat]: `spent` of the budget guard
  at,             \* [Task -> where its call is]
  try,            \* [Task -> 1..Providers]: the provider it is at
  repair,         \* [Task -> 0..1]: the repair attempt of generateJson
  price,          \* [Task -> 0..MaxCost]: of the answer it has
  asked           \* [Task -> Nat]: history, requests sent for this call

callVars == <<at, try, repair, price, asked>>
gatewayVars == <<today, spent, callVars>>

TypeOK ==
  /\ today \in Nat
  /\ spent \in [Task -> Nat]
  /\ at \in [Task -> {"idle", "checking", "admitted", "answered"}]
  /\ try \in [Task -> 1..Providers] /\ repair \in [Task -> 0..1]
  /\ price \in [Task -> 0..MaxCost] /\ asked \in [Task -> Nat]

Init ==
  /\ today = 0 /\ spent = [t \in Task |-> 0]
  /\ at = [t \in Task |-> "idle"] /\ try = [t \in Task |-> 1]
  /\ repair = [t \in Task |-> 0] /\ price = [t \in Task |-> 0]
  /\ asked = [t \in Task |-> 0]

Goto(t, p) == at' = [at EXCEPT ![t] = p]
Return(t) ==
  /\ Goto(t, "idle")
  /\ try' = [try EXCEPT ![t] = 1] /\ repair' = [repair EXCEPT ![t] = 0]
  /\ price' = [price EXCEPT ![t] = 0] /\ asked' = [asked EXCEPT ![t] = 0]

Call(t) ==
  /\ at[t] = "idle"
  /\ Goto(t, "checking")
  /\ UNCHANGED <<today, spent, try, repair, price, asked>>

\* Mutant: the budget of the task is left to the agent.
HasRoomToday(t) == today + Estimated <= DailyBudget

\* Mutant: the budgets are checked for the first provider only.
HasRoomAtFirst(t) ==
  try[t] > 1 \/ (spent[t] + Estimated <= MaxTaskUsd /\ today + Estimated <= DailyBudget)

\* budgetGuard.check.
HasRoom(t) == spent[t] + Estimated <= MaxTaskUsd /\ today + Estimated <= DailyBudget

Check(t) ==
  /\ at[t] = "checking"
  /\ \/ HasRoom(t) /\ Goto(t, "admitted") /\ UNCHANGED <<try, repair, price, asked>>
     \/ ~HasRoom(t) /\ Return(t)
  /\ UNCHANGED <<today, spent>>

\* The local limit of requests per minute, or an error of the provider: the
\* next one is tried, after a check of its own.
NextProvider(t) ==
  \/ /\ try[t] < Providers /\ try' = [try EXCEPT ![t] = @ + 1] /\ Goto(t, "checking")
     /\ UNCHANGED <<repair, price>>
  \/ try[t] = Providers /\ Return(t)

RateLimited(t) ==
  /\ at[t] = "admitted"
  /\ NextProvider(t) /\ (try[t] < Providers => UNCHANGED asked)
  /\ UNCHANGED <<today, spent>>

ProviderFails(t) ==
  /\ at[t] = "admitted"
  /\ NextProvider(t) /\ (try[t] < Providers => asked' = [asked EXCEPT ![t] = @ + 1])
  /\ UNCHANGED <<today, spent>>

ProviderAnswers(t, usd) ==
  /\ at[t] = "admitted"
  /\ spent' = [spent EXCEPT ![t] = @ + usd]
  /\ price' = [price EXCEPT ![t] = usd]
  /\ asked' = [asked EXCEPT ![t] = @ + 1]
  /\ Goto(t, "answered")
  /\ UNCHANGED <<today, try, repair>>

\* The row is written, or the error of writing it logged.
Record(t, stored) == today' = IF stored THEN today + price[t] ELSE today

Answer(t, stored) == at[t] = "answered" /\ Record(t, stored) /\ Return(t) /\ UNCHANGED spent

\* Mutant: invalid output is repaired until it is valid.
MayRepairAgain(t) == TRUE

\* generateJson: one repair attempt, from the first provider on.
MayRepair(t) == repair[t] = 0

AskAgain(t, stored) ==
  /\ at[t] = "answered" /\ MayRepair(t)
  /\ Record(t, stored)
  /\ Goto(t, "checking")
  /\ try' = [try EXCEPT ![t] = 1] /\ repair' = [repair EXCEPT ![t] = 1]
  /\ price' = [price EXCEPT ![t] = 0]
  /\ UNCHANGED <<spent, asked>>

\* The process of the task dies.
Dies(t) == at[t] # "idle" /\ Return(t) /\ UNCHANGED <<today, spent>>

Midnight == today # 0 /\ today' = 0 /\ UNCHANGED <<spent, callVars>>

Next ==
  \/ \E t \in Task :
       \/ Call(t) \/ Check(t) \/ RateLimited(t) \/ ProviderFails(t) \/ Dies(t)
       \/ \E usd \in 0..MaxCost : ProviderAnswers(t, usd)
       \/ \E stored \in BOOLEAN : Answer(t, stored) \/ AskAgain(t, stored)
  \/ Midnight

Spec == Init /\ [][Next]_gatewayVars

Day == INSTANCE Allowance WITH
         Asker <- Task, Limit <- DailyBudget, Estimate <- Estimated, Largest <- MaxCost,
         counted <- today, admitted <- {t \in Task : at[t] \in {"admitted", "answered"}}

\* However the calls of all tasks, their fallbacks and their repairs overlap,
\* the daily budget keeps the promise of Allowance: every single request is
\* made after a check that found room for it.
KeepsDailyBudget == Day!Spec

\* What the tasks spend in a day exceeds the budget by no more than one
\* answer for each of them.
DailyOverrunIsBounded == Day!OverrunIsBounded

\* The budget of a task is overrun by less than one answer, also across
\* midnight, lost rows and the providers that are tried in turn.
TaskOverrunIsOneAnswer ==
  \A t \in Task : spent[t] > 0 => spent[t] + Estimated <= MaxTaskUsd + MaxCost

\* A call sends each provider at most two requests, the second to repair.
RequestsAreBounded == \A t \in Task : asked[t] <= 2 * Providers
=============================================================================
