# A verification of ROOS

ROOS is a venture-building platform written in TypeScript: agents research markets, build small
products and run experiments on them, while humans approve whatever is irreversible, public or
financial. This directory holds TLA+ models of the parts of it that are hard to test (several
processes on one database, no transaction around most sequences of statements), TLC
configurations that check them on small instances, and proofs, checked by TLAPS, that the most
important results hold for every value of the constants.

Paths below are relative to the repository; `PROJECT.json` gives, for every definition that
models code, the lines it stands for.

## 1. The system

All processes (API, worker, CLI) share one PostgreSQL database through `packages/core`. They
exchange no messages: a row is written by one and read by another. Almost every operation is a
sequence of single statements, each its own transaction, so that the state space of the system is
the interleaving of statements, plus what a killed process leaves behind.

| Component | State it keeps | Operations | Interacts with | What is hard | What makes it correct |
|---|---|---|---|---|---|
| Task queue (`agents/src/orchestrator.ts`) | `agent_tasks`: status, attempts, lock, run_after, approval_id | enqueue, claim, runTask with its exits, requeueStale, cancel, retryTask | approvals, agents, scheduler | concurrent claims, dead workers, timeouts racing late answers, retries | one run per task; bounded attempts; every task settles; terminal rows stay |
| Approval centre (`core/src/approvals.ts`) | `approvals`: status, fingerprint, expiry, outcome | request, approve, reject, expireStale, executors | every gated service, the queue | racing decisions, crash between decision, effect and stored outcome, stale reads | one verdict; the effect once and only if approved; the status tells the truth |
| Tool gate (`ctx.tool`) | the run's approval | allow-list, policy, pause, resume | queue, policy, approvals | wake-up between request and pause; shared and older requests | a gated tool runs only under a human's approval; a decision reaches its task |
| Experiments (`core/src/experiments.ts`) | `experiments`: status, approval_id, decision | create, start, markRunning, stop, evaluate, applyDecision, recordSpend | approvals, policy, scheduler, ledger | unguarded updates after reads; late approvals | nothing with a budget runs unapproved; ended experiments stay ended |
| Campaigns (`core/src/campaigns.ts`) | `campaigns`, `outbox_messages` | create, requestSend, send, unsubscribe | approvals, leads, e-mail | two sends at once, a crash in the middle, the daily cap | cap and suppression always apply; a sent campaign has no draft left |
| Policy engine (`core/src/policy.ts`) | `policies` | evaluate, apply, requestPolicyChange, recordAutonomous | approvals, audit | check-then-act on modes and daily limits | ceilings; a relaxation needs an approval; the daily limit |
| Audit log (`core/src/audit.ts`) | `audit_logs`, a chain of hashes per workspace | record, verifyChain | everyone | concurrent writers, transactions that append several entries and abort | an edit shows, and nothing else breaks the chain |
| Event stream (`core/src/events.ts`, `GET /api/events/stream`) | `events`, a cursor per connection | publish, tail, connect, reconnect | everyone, dashboard | ids that become visible out of order; lost connections | a subscriber that nobody refuses sees each event once, in order, and misses none but late ones |
| Access (`core/src/auth.ts`, `security/src/rbac.ts`) | `users`, `sessions`, `api_keys`, `memberships` | register, login, logout, keys, addMember | API | a role read before it is used; lost updates of the failure counter | roles do not climb; what is revoked is out; enough failures lock |
| HTTP API (`apps/api`) | none | 130 routes: limit, authentication, body, CSRF, permission, handler | all services | the same deed by several routes; a role that changes under way | a change needs its permission and, with a cookie, its token |
| Settings (`core/src/orgs.ts`) | `organizations.settings`, one JSON value | updateSettings, markOnboarding | API, portfolio | read, merge, write back | a change undoes no other |
| Secrets (`core/src/secrets.ts`) | `secrets`, caches of each process | set, get, rotate | AI gateway | caches that others cannot clear; a rotation that meets a set | a replaced key dies out; the newest key opens what it should |
| Start-up (`scripts/dev.mjs`, `database/src/migrate.ts`, `core/src/demo.ts`) | `schema_migrations`, the demo workspace | launch, migrate, seed | all processes | several processes and releases at once; a death in the middle | nobody serves on a schema it does not know; the demo is whole |
| Revenue ledger (`core/src/revenue.ts`, `billing/src/stripe.ts`) | `revenue_events`, `customers` | applyVerified, webhooks, sync, manual entries | Stripe | redelivered and reordered events; read-then-insert of differences; one payment told of in three ways | recurring revenue is the sum of the subscriptions; money is counted once |
| Figures (`analytics/src/saas.ts`, `portfolio.ts`, `core/src/reports.ts`) | `reports` | computeRevenueMetrics, allocateBudget, generateDaily | ledger | months, windows and dates entered late; loads that see different rows | series add up; a budget is split and not exceeded |
| AI gateway (`ai/src/router.ts`, `core/src/ai.ts`) | `model_calls`, what a task has spent | complete, generateJson, budgetGuard | providers | check-then-charge by calls at once; partial failure | budgets are overrun by no more than was let through |
| Previews and sandbox (`core/src/products.ts`, `factory/src`) | `projects`, `deployments`, child processes | build, deployLocal, stop, reconcile, runTests | generated code | ports picked twice; processes that know only their own children; a limit that comes before the container | only scanned code runs; shown as running lives (without docker); tests given up are stopped |
| Generated sites (`factory/src/blueprint/runtime.ts`, `core/src/tracking.ts`) | signups and events of the site, `leads`, `tracking_events` | view, signup, unsubscribe, ingest | leads, experiments | forwarding without a retry; ingestion that dies half-way | a counted signup has its lead; one visitor sees one variant |
| Leads (`core/src/leads.ts`, `analytics/src/leads.ts`) | `leads`, `suppressions` | upsertInbound, update, rescore, suppress | sites, campaigns | rescorings that overlap | the score is that of the data at its last rescoring |
| Opportunities, discovery, analysis, strategy (`core/src`) | `opportunities`, `evidence`, `documents`, `business_hypotheses`, `strategy_versions` | scan, analyze, selectHypothesis, rescore, recalibrate | AI, connectors, agents | scans, analyses and scorings that overlap or die; cached weights | findings, statuses and scores follow what is there |
| Agents (`agents/src/agents.ts`, `commands.ts`) | rows of the services | the handlers and their successors | queue | a run that is repeated after it has stored half of its results | the chain loses nothing and makes nothing twice |
| Scheduler and evaluation (`agents/src/scheduler.ts`, `core/src/experiments.ts`) | slots, `experiment_evaluations` | tick, evaluate, applyDecision | queue | several workers tick at once; evaluations read early and write late | once a slot; every experiment ends |
| Connectors (`connectors/src`) | caches and last calls of a process | runConnector, parseRobots, isAllowedByRobots | the web | overlapping runs; rules that change while cached | sources are read as they allow, no oftener than set |
| Outgoing requests, rate limit (`security/src`) | a counter per address | safeFetch, hit | the web, Redis | redirects; a death between INCR and PEXPIRE | credentials stay home; a refusal ends |
| Dashboard (`apps/dashboard`) | what a page shows | useApi, useAction, switchOrg, WorkflowProgress | API, event stream | answers out of order, other tabs, a switch under way | a page at rest names its workspace and is no older than what its user left there |
| Estimates, knowledge graph, alerts, cost ledger, CLI, factory templates, charts | rows written and read one at a time, or none | | | text and figures | not modelled (section 6) |

## 2. Modules

| Module | Models | Used by |
|---|---|---|
| `TaskQueue` | the rows of `agent_tasks` and the runs of the workers' slots | `TaskApprovals` |
| `HumanDecision` | abstract: what the approval centre promises to whoever uses it | `Approvals`, its clients |
| `Approvals` | `approvals.ts`, statement by statement; refines `HumanDecision` | `TaskApprovals` |
| `TaskApprovals` | the queue and the approval centre joined by `ctx.tool` and by the last statement of `approve` / `reject` | |
| `Experiments`, `Campaigns`, `Policies` | the clients of the approval centre, which they take by its promise | `MCResearch`, `MCCampaigns`, `MCAccess` |
| `Discovery`, `Analysis`, `Scoring` | scans, the analysis of an opportunity, its score under learned weights; in the second part of `Scoring` the criteria and the pure algorithm of that score | `MCResearch` |
| `Pipeline` | the commands, the handlers of the agents and the tasks they leave behind | `MCResearch` |
| `Connectors` | `runConnector` and the web page connector; in its second part the text of a robots.txt | `MCResearch` |
| `Revenue` | recurring revenue: `revenue_events` and the figure on `customers` | `MCMoney` |
| `Billing` | payments, the events of Stripe that tell of them, and the rows they become | `MCMoney` |
| `Metrics` | `computeRevenueMetrics` over a ledger with dates; in its second part the daily report | `MCMoney` |
| `Allocation` | `allocateBudget`, round by round, in exact fractions | `MCMoney` |
| `Funnel` | from a visitor of a site to a lead; in its second part the score of a lead | `MCMoney` |
| `Access` | accounts, sessions, keys, roles; in its second part the lockout | `MCAccess` |
| `Requests` | every route of the API and the hooks that a request passes | `MCAccess` |
| `SafeFetch`, `AuditLog`, `Settings`, `Secrets`, `Startup` | the part of that name | `MCAccess` |
| `Deployments` | builds and previews over several processes; in its second part a run of tests in a sandbox | `MCAccess` |
| `Allowance` | abstract: what a limit can promise that is read, acted on and only then counted against | `AiGateway`, `DailyLimit` |
| `AiGateway`, `DailyLimit` | calls of models under the budgets of a task and of a day; the daily limit of a policy; both refine `Allowance` | `MCLive` |
| `EventStream`, `Evaluation`, `Dashboard`, `RateLimit` | the part of that name | `MCLive` |
| `MC*` | small instances (`TaskQueue`, `Approvals`, `Revenue` and `Metrics` are checked as they are too); `MCResearch`, `MCMoney`, `MCAccess` and `MCLive` put several modules side by side | |
| `TaskQueueProofs`, `ApprovalsProofs` | theorems about the queue and about the approval centre | `TaskApprovalsProofs` |
| `TaskApprovalsProofs`, `CampaignsProofs` | theorems about the junction of the two, and about campaigns | |
| `ResearchProofs`, `AccessProofs`, `LiveProofs`, `MoneyProofs` | theorems about what `MCResearch`, `MCAccess`, `MCLive` and `MCMoney` hold, service by service | |

The approval centre is modelled in detail once. Its clients take it by its promise (`HumanDecision`): a verdict is given once, and the action of a request is carried out at most
once and only after an approval. `Approvals` is shown to keep that promise (run `approvals`,
theorem `ImplementsPromise`), so that the clients' results rest on the code and not on a wish.

### How the code became actions

*One statement, one action.* A function that awaits three statements is three actions, with what
it has read kept in variables of the call (`phase`, `on`, `sum`, `askGot`, ...). A statement with
a `WHERE` on the present status is one atomic guarded update; one that updates by id is
unguarded, also in the model, however wrong the row may be by then. Code between two awaits that
touches only local values belongs to the action that follows.

*Death.* A process may be killed, or a statement fail, between any two statements: `CallDies`,
`StartDies`, `SendDies`, `WorkerDies` and their like end a call or a run where it is and leave
the rows as they are.

*Data.* A payload is what the properties can tell apart: a fingerprint is a `Key`, a tool with
arguments a `Key` with its `ToolOf`, a time the number of ticks since the claim, an amount a
small integer. Ids come from small sets; a row that was not inserted yet is `"absent"` or the
value `No...`.

**TaskQueue.** `status`, `attempts`, `lockedBy`, `lockAge` (now − `locked_at`), `due`
(`run_after <= now()`) and `approvalId` are columns; `phase`, `job`, `attempt`, `elapsed`
and `late` belong to a slot of a worker, which is `idle` or at a place of `runTask`. `Claim` is
the `UPDATE ... FOR UPDATE SKIP LOCKED`; `HandlerTimesOut` is the rejection of `withTimeout`,
after which the handler goes on unheard; `FinishSucceeded`, `FinishParked`, `FinishRetry` and
`FinishGivesUp` are the four calls of `finish`, which updates by id. `Tick` is time: it stops at
the handler's limit (`elapsed`), where the timer fires, and at `Grace` for the statements around
it (`late`), which is what the 60 s of the sweep are for. `pauses` and `retries` are counters
of the model that bound resumptions and manual retries (`MaxPauses`, `MaxRetries`).

**Approvals.** A request is a call of an `Asker` (read for a pending twin, then insert); a
decision is a call of a `Caller` (read; expire or decide; execute; store the outcome or the
failure; release the task). `verdict` and `effects` are history, and are the variables of
`HumanDecision`. What an executor does is external: it may act and return, act and throw, or
throw.

**TaskApprovals.** `helper[w]` is the request the handler of slot `w` is awaiting and
`ticket[w]` the id in the `ApprovalRequiredError` it throws. Every step of one instance leaves
the variables of the other unchanged, but for the statements that touch both tables. Which gated call a
handler makes is decided anew by each run (`Calls`), because handlers compute the arguments from
data that other tasks write. `SpecAlive` leaves out crashes of the process: violations and the
liveness run use it to show that no crash is needed for what they find.

**Experiments.** `start` is `Start` (read), `PolicyAnswers`, `AskNew` or `AskFinds`, `StorePending`,
or `MarkRunning` where no approval is needed; `Execute` is the executor, which calls `markRunning`.
`Evaluate` and `ApplyDecision` are the read and the write of an evaluation, whose decision is an
input.

**Campaigns.** `Create`, `Draft` and `CreateDies` are the loop of `create`; `RequestSend`,
`PolicyAnswers`, `AskNew`/`AskFinds` and `StorePending` are `requestSend`; `BeginSend`, `Count`,
`Load`, `Skip`, `Defer`, `Pick`, `Mail`, `Record` and `EndSend` are `send` with its loop. The mail
provider is external: it delivers or not, and independently of that answers or throws.

**Policies.** `RequestChange` compares, `ApplyAtOnce` or `AskApproval` follow in a statement of
their own, `Execute` is the executor of `security.policy_change`.

**Revenue.** `Deliver` is a webhook (or an item of a sync) that reaches `applyVerified`, for the
first time or again; `RecordManual` an entry by hand. `ReadChange`/`ReadNoChange` read the sum,
`Insert` is the `INSERT ... ON CONFLICT DO NOTHING`, `ReadCustomer` and `WriteCustomer` are
`refreshCustomer`.

### Conventions of the other modules

**Access, Requests.** `Access` has a request as an actor: it resolves its credential, reads the
role, and acts some statements later, while other requests revoke and grant. `Requests` is the
table of all routes (`Routes`), each with the permission it asks for, whether it writes and which
command's task it enqueues; `Arrive` takes a request through the hooks in the order in which
`server.ts` registers them, and roles may change between authentication and handler.

**AuditLog.** A hash is the sequence of what was hashed, so that equal hashes are equal contents,
as for a function without collisions. A writer holds the advisory lock from its first append to
the end of its transaction.

**Startup.** API, workers and commands come up at the same time, die anywhere and are started again,
each with its release of the migration files. `LookForTable` and `CreateTable` are the
`CREATE TABLE IF NOT EXISTS` before the lock: of two processes that both find no table the second
fails. The demo workspace is its id and the parts it has.

**Deployments.** `containers` says which driver is configured. Without docker a child is a process,
whose exit is noticed (`Gone`); with docker it is a container, whose exit nobody hears of, which holds
its port from the start (`Holds`), and which a `docker run` or `docker stop` that was given up may
leave behind. Which process knows of a child (`knows`) is lost when that process dies; the child is
not. A health check is answered by whoever holds the port. The second part is one run of tests with its container, the timer and `docker kill`.

**Discovery, Analysis, Scoring, Pipeline.** Scans, analyses and scorings are calls that read, think
(a model, external: it answers one of a few things, or fails) and write. A history variable
records that two calls have overlapped or one has died: what the code does not promise in that case is a condition of the property, never a step the model leaves out. In `Discovery` a cluster
has documents (`docs`, which its signals count), of which the first `Quotes` become evidence (eight in the
code), beside the regulatory ones of the scan (`Context`). In `Analysis` experiments write the status of
the hypothesis they test (`Try`, `GiveBack`). `ChangeTags` in `Scoring` is the change of an opportunity that
is not scored. `Pipeline` keeps the tasks of one opportunity as records of agent, subject and status; the
handlers store rows and enqueue successors in the order of `agents.ts`. `named` says that a request
names the task: its decision (`Decide`, `Approve`, `RefuseOrExpire`) releases or cancels that task alone.
`Fail` is an error, also one that comes while successors are enqueued, or a death; `ByHand` and `Evaluate`
are what operators and evaluations do to an experiment meanwhile.

**Connectors, SafeFetch, RateLimit.** Ages are counted in ticks up to the longest one that is
compared. `SafeFetch` follows one request through its redirects, with the method, the body
and the headers that are still to be sent. `RateLimit` has the counter of one address, with its expiry
or without.

**Billing, Metrics, Allocation.** An amount is an integer. `Billing` has one payment of which
Stripe tells by several events; in `Metrics`
rows are entered late, dates go back, and what `computeRevenueMetrics` finds with its loops is compared
with the sums of the rows. Its second part is the daily report, which loads the ledger twice.
`Allocation` keeps shares over a common denominator (`whole`), so that nothing is rounded that the
code does not round.

**Funnel.** A visitor views, signs up and unsubscribes on a site, which forwards each event
once; the ingestion is a call of several statements. Scores are the sums of `scoreLead` with the
weights of the code. A signup rescores its lead (`SignsUp`) and inserts its own event afterwards
(`RecordSignup`, for the rescorings in `owed`); `ReplaceKeywords` is a scan that gives the
opportunity of the lead other keywords; `Breaks` is a statement that fails or a death.

**AiGateway, DailyLimit, Allowance.** What was counted, who has been admitted and not counted yet,
and what each will add: these are the variables of `Allowance`, to which the other two map their
tasks, calls and actions.

**EventStream, Dashboard.** An event has the id it was drawn under and is seen once its transaction
commits. The page has one pair of variables per thing React keeps (state, what is rendered, effects
due, timers, requests on their way), and one workspace per tab. `Refuse` is an answer other than 200 to the
request for the stream: the browser closes it for good (`closed`), and `providers.tsx` opens no other.
An action of the user is a `Change` of the server; where its handler reloads the page, `ActionAnswered`
follows, and `wrote` is what it has left there.

**Evaluation.** The slot of the scheduler is its parity, since no task outlives the next slot. The
interval is taken to be above zero: `EXPERIMENT_EVAL_INTERVAL_MIN` of 0 switches evaluations off. The
posterior probabilities of the decision table are inputs.

## 3. Runs

All runs are exhaustive over their instance. Deadlock is not checked, as every one of these
systems may stop: no task in the queue, every request decided, the bounds used up.

Four runs (`research`, `money`, `access`, `live`) hold several services each. Their modules share
no rows but those that one of them owns and the others take as inputs, so they are put *side by
side*: `service` is chosen at the start, a behaviour is one of that service, and the others stand
still. The states are the union of those of the services, not their product, and a property that
names several of them is the conjunction of what is said of each. Where services do
interact, the interaction is a module of its own (`TaskApprovals`, `Pipeline`, `Funnel`) or a
promise that one refines and the other takes (`HumanDecision`, `Allowance`).

| Run | Instance | What it shows |
|---|---|---|
| `queue` | 2 tasks, 2 slots, 2 attempts, 1 pause, 1 retry, timeouts of 1 tick, grace of 1 | `SoleRunner` no task is run twice at once; `AttemptBound`; `TerminalIsFinal` a terminal row is re-opened only by `retryTask` (or by the catch block of the run that wrote `succeeded`); `SweepTakesOnlyDeadRuns`; `EveryTaskSettles` with live workers every task ends or waits for a human |
| `approvals` | 2 rows, 2 fingerprints (one with an executor), 2 requests and 2 decisions at once | `KeepsPromise` refinement of `HumanDecision`; `StatusTellsTheTruth` the status never claims more than what happened |
| `gate` | 1 task, 1 slot, 3 calls of different tools, 2 approvals, 2 pauses, crashes | `GatedRunNeedsHuman` a gated tool runs only under an approval that a human gave for that tool; `OnlyApprovalResumes` |
| `gate_live` | 2 tasks, 1 slot, 1 approval, no crash | `DecisionReachesWaiter` a task that already waits for its own request is released by the call that decides it |
| `campaigns` | 1 campaign of 2 messages, 2 requests, 2 sends, a cap of 1 | `OneMailPerLicence`, `SuppressedGetNothing`, `SentMeansHandled` (`sent` hides no deferred draft), `CapAppliesAlone` |
| `research` | 3 experiments, 2 starts; 2 scans of 2 documents, of which 1 is quoted, and a regulatory one; 2 analyses of 2 hypotheses each, 1 of them tested; 2 projects, 2 experiments, 4 tasks, 2 commands, 1 error; 2 actors that score; 2 runs of a connector | see below |
| `money` | 2 events, 1 manual entry, 2 subscriptions, 2 calls; ledgers of 2 rows over 3 half-months; 1 payment of up to 3 with partial refunds; 3 candidates, 4 draws; 2 visitors; 2 rescorings, 2 changes without one | see below |
| `access` | 2 policy changes at once; 2 users, 2 requests, 1 key; 2 overlapping logins, 6 wrong passwords; all routes and roles; 2 origins, 2 redirects; 2 writers, 3 entries; 2 callers of settings; 2 processes with 3 keys; API, worker and CLI with 2 migrations; 2 previews on 1 port, 2 processes | see below |
| `live` | 2 workers that tick, samples of up to 6; 4 events, 2 lost connections; 2 workspaces; 2 hits that may die twice; 2 tasks, 2 providers; 2 autonomous actions | see below |
| `gate_wakeup` | 1 task, 1 slot, 1 approval, no crash | `DecisionReleasesTask` *violated*: a decision between the request and the pause is lost |
| `revenue_replay` | 3 events, 1 subscription, 1 call | `AppliedOnce` *violated*: an event that changed nothing is applied when delivered again |
| `report_revenue` | ledgers of 2 rows, 1 report | `RevenueInPeriod` *violated*: a report says that nothing came in |

`research`:
- `SpendIsLicensed` (Experiments): a budget runs only in the one execution of an approved request for it, or where the policy lets it through.
- `FindingsStand`: when no scan is at work, and unless scans have overlapped or died, the signals of a new opportunity are those of its cluster, of which its evidence quotes the first documents, and from the next scan that finds it those of its evidence (`Discovery!SignalsFollowEvidence`); a status that was set before an analysis, or after it, survives it; and the hypothesis that the opportunity names is there and no other is selected, unless selections have met or an experiment has given it back (`Analysis!StatusSurvivesAnalysis`, `SelectionStands`).
- `PipelineIsSound`: an experiment that waits shows a request of its own (`WaitsForOwnRequest`); a build that is blocked is reported or still in some task's hands, unless a task gave up or died between build and review (`BlockedBuildIsReported`); of the experiments that the agents have designed one is open, unless two designs looked at once, and but for those that a human has made or that a start by hand or a late approval has opened again (`OneOpenExperiment`). Two of them open by a late approval take one command more than the run has; the theorem has any number.
- `CopiesFollowSources`: one version of the weights is in force and it is the last; a score is in the history, of weights that exist, and of the data as they were at some time since the last change that scores, unless computations overlapped or died (`Scoring!ScoreFollowsInputs`: a change of tags scores nothing); a page is shown no longer after its site has closed than the two caches and a request last (`Connectors!PagesObeyRules`).
- `ComputedAsWritten`: for all ranges of the inputs the score stays between those of the worst and of the best case, and the ranges around their values (`Scoring!ScoreIsInRange`); the groups and paths of a robots.txt are read as they are written, for every file of four lines (`Connectors!RulesAsWritten`, a reference definition over the lines against the loop of `parseRobots`).
- `ResearchStepsAreSound`: no step stores a claim twice for one opportunity, lets a rescoring forget what a scan found, makes a released task wait again, or calls a source within its interval, but for overlapping runs.
- `WorseScoresNoHigher`: no step raises a score because complexity or risk was found to be higher.

`money`:
- `SumFollowsEvents`, `CustomerAgreesWithLedger` (Revenue): differences do not drift, and a death between ledger and customer is made good by the next delivery.
- `FiguresAddUp`: the monthly series has the balances and movements of the rows, whoever left was there before (`Metrics`); a report's change is what the rows dated in its period moved, and the next report starts where the last one ended (`ReportsAddUp`); a payment told of by charge, invoice, refunds and synchronisation is booked once (`Billing!MoneyIsCountedOnce`); an allocation hands out no more than the budget and loses none of it while a candidate is below its cap, and what no candidate may take is noted (`Allocation!BudgetIsSplit`).
- `VisitorsAreCounted`: a counted signup has its lead, a visitor sees one variant while the configuration stands, who unsubscribed is shown so, and a lead's score is that of its data, unless something has changed since the last rescoring began - the event of a signup is such a change - or two have overlapped (`Funnel`).
- `MoreIsNeverLess`: no step lowers the score of a lead, but for overlapping rescorings and for a scan that has left keywords which fit the lead less.

`access`:
- `NeverBeyondApproved` (Policies): no action is freer than its default or than what was approved for it.
- `AccountsAreKept`: a role was granted by somebody who has had one as high; what is revoked authenticates no later request; a closed installation has one founder; an account is locked only after enough failures, and the count of logins that do not overlap is exact. `EnoughFailuresLock`: such a count locks, also when a lock has ended before.
- `RequestsAreAuthorised`: over all routes, credentials and roles that change under way: a change made with a cookie echoes the session's token, but for three that answer a GET (section 5), a command needs its permission by whichever route it comes, and viewers change only reports, alert marks, default sources, the rows of the agents as the code defines them, and two commands' tasks.
- `FetchesKeepToPolicy`: credentials reach their own origin only, no excluded address is asked, a body is not sent on after a redirect that asks for a GET.
- `RecordsStand`: an edited row of the audit log shows, and concurrent, aborted and multiple appends do not (`AuditLog`); changes of settings that do not overlap are kept (`Settings`); a replaced key is used no longer than both caches and two calls last, and if a key is changed only after the rotation to the last one has ended, the newest key opens the secret, whoever wrote it (`Secrets`).
- `StartsAreOrderly`: a process serves only with all its migrations applied, two never apply the same one, and a demo workspace that lacks parts is being seeded, unless a process died. Of two that create the table of migrations at once one may fail to start.
- `GeneratedCodeIsKept`: what runs was scanned; without docker a preview that a process shows as running has a child that lives; with either driver there is one to a port; tests past their limit have been killed, unless their worker died or the kill came before the container.

`live`:
- `OnceAndInOrder`: one evaluation task a slot; no SCALE, KILL or ITERATE on less than half the sample (`Evaluation`); a subscriber sees events once and in order, missing only those that committed after a later id (`EventStream`); a task exceeds its budget by one answer, a request asks each provider twice at most (`AiGateway`); a page at rest shows the workspace it names, unless another tab has switched, and nothing older than what the last action that reloads it has left there (`Dashboard`).
- `AllowancesKept`: `AiGateway` and `DailyLimit` implement `Allowance` under the mappings written in them (`Day`).
- `NothingGoesBack`: when a hit is answered and nobody else is at work the key has an expiry (`RateLimit`); what a page shows of one workspace is never replaced by an older answer (`Dashboard`).
- `EverythingEnds`: an experiment that runs is decided on or stopped; a subscriber that nobody has refused gets what it lacks; a refusal of the rate limiter ends; a page comes to show what its workflow left, or an error, or another workspace.

Every property of a passing run has a mutant in `PROJECT.json`: a plausible slip in the modelled
code (a dropped guard, a swapped comparison, an early return) under which the run finds the
property violated. A property of several services has the mutant of one of them; the other
variants stand in the modules, beside the definitions that they vary.

**Why the bounds are enough to be interesting.** Races need two actors on one row: each instance
has two slots, calls, sends, scans or processes on one row, and mostly a second row, key or action
for them to be confused with. Two attempts are enough for a failure before the last and the last
one; one pause and one retry for each counter to move away from its start. The two timeouts are
equal in `queue`, as they are unless an operator changes an agent; the lengths do not matter, only
which of handler, timer, grace and sweep comes first, and one tick for each has all the orders. A
cap of one with two messages has the send that stops at the cap and the one that does not reach
it. `OneMailPerLicence` needs two requests of one campaign to be able to fail, `SpendIsLicensed`
two requests and two starts of one experiment; both are there. A lock after three failures with
six wrong passwords has a second lock after the first has ended. One port for two previews makes
every start a contest; one key more than the processes have makes one of them old. Ages stop at
the first value after which nothing changes any more. Months are two half-months, the least in
which a row may lie before and after the middle of a window.
The state spaces are not cut by constraints: the counters are bounded in the guards, by the
constants named `Max...`.

**Symmetry** is used in runs of invariants and of action properties whose formulas are
symmetric (`approvals`, by `CallSymmetry` of `Approvals` itself, `research`, `money` and others), never with
liveness (`queue`, `gate_live`, `live`).

### Fairness

`TaskQueue!Fairness` is weak fairness of: time (`Tick`); the sweep (a timer of 30 s in
each worker); `Claim` by some slot (the workers poll); each step of a run that is not inside its
handler, with the timer of `withTimeout` among them; the end of a back-off. Nothing is assumed of
handlers, which may hang, of humans and operators, or of workers, which may die at any
statement. `EveryTaskSettles` therefore says that some worker process runs and polls, and no more. A waiting task
counts as settled: what ends its wait is a human.

`TaskApprovals!FairSpecAlive` is weak fairness of the progress of each deciding call: once it has
read the row it goes on, its executor included. Without crashes this is what an awaited promise
does. No human is assumed to decide.

`Evaluation!Fairness`: the clock reaches the next slot; ticks (a timer in each worker), claims and
ends of runs go on (weak), which takes an interval above zero. A tick, an evaluation and its two writes may fail any number of times,
but not every time (strong): the scheduler asks again in each slot. Nothing is assumed of
visitors and spending; the end comes by the age of the experiment as well.

`EventStream!Fairness`: a stream that is open polls (an interval of the server), a browser that has
lost its connection connects again or is refused, and receives what was sent. `EventSource` connects
again by itself after a lost connection, and only then: an answer other than 200 closes it for good
(`Refuse`), after which nothing is promised. Lost connections are bounded by `MaxDrops`, a bound of the
model.

`Dashboard!Fairness`: React renders and runs its effects, timers fire, and asks are made and answered (weak); the latest load is served and answered if it is made again
and again (strong: it may fail, `MaxFailures` times, or be overtaken by a newer one). Events, polling
and the user's actions are not assumed.

`RateLimit!Fairness`: time passes, and a hit that has begun goes on or has died (`MaxDeaths`).

In `MCLive` these assumptions are written side by side (`Step`): fairness to a disjunction of one
step of each service is, in a behaviour of one service, fairness to the step of that one.

## 4. Proofs

Each theorem holds for every value of the constants that the `ASSUME`s of its module allow: sets of
any size, bounds of any height. The runs show the same properties on small instances.

| Theorem | Property | Needs |
|---|---|---|
| `TaskQueueProofs!TypeCorrect` | `TypeOK` | |
| `TaskQueueProofs!OneRunPerTask` | `SoleRunner` | `AgentTimeout <= TaskTimeout` |
| `TaskQueueProofs!SweepIsSafe` | `SweepTakesOnlyDeadRuns` | the same |
| `TaskQueueProofs!AttemptsAreBounded` | `AttemptBound` | the same |
| `TaskQueueProofs!TerminalStays` | `TerminalIsFinal` | the same |
| `ApprovalsProofs!TypeCorrect` | `TypeOK` | |
| `ApprovalsProofs!ImplementsPromise` | `KeepsPromise`, the refinement of `HumanDecision` | |
| `ApprovalsProofs!RowsTellTheTruth` | `StatusTellsTheTruth` | |
| `TaskApprovalsProofs!ImplementsTaskQueue` | `Q!Spec`: the junction is a task queue | |
| `TaskApprovalsProofs!ImplementsApprovals` | `A!Spec`: and an approval centre | |
| `TaskApprovalsProofs!ToolsNeedApproval` | `GatedRunNeedsHuman` | `AgentTimeout <= TaskTimeout` |
| `TaskApprovalsProofs!OnlyHumansResume` | `OnlyApprovalResumes` | the same |
| `CampaignsProofs!MailNeedsLicence` | `OneMailPerLicence` | |
| `CampaignsProofs!SuppressedAreSpared` | `SuppressedGetNothing` | |
| `CampaignsProofs!SentIsComplete` | `SentMeansHandled` | |
| `CampaignsProofs!CapHoldsAlone` | `CapAppliesAlone` | |
| `ResearchProofs!TypeCorrect`, `WaitsForItsRequest` | `TypeOK`, `WaitsForOwnRequest` of `Experiments` alone | |
| `ResearchProofs!SpendStaysLicensed` | `SpendIsLicensed` | |
| `ResearchProofs!FindingsAreSafe` | `FindingsStand` | |
| `ResearchProofs!PipelineIsSafe` | `PipelineIsSound` | |
| `ResearchProofs!CopiesAreCurrent` | `CopiesFollowSources` | |
| `ResearchProofs!ResearchIsSound` | `ResearchStepsAreSound` | |
| `ResearchProofs!ComputationsAreAsWritten` | `ComputedAsWritten` | |
| `ResearchProofs!WorseIsNeverBetter` | `WorseScoresNoHigher` | |
| `AccessProofs!TypeCorrect` | `TypeOK` of `Policies` | |
| `AccessProofs!StaysWithinApproved` | `NeverBeyondApproved` | |
| `AccessProofs!AccountsAreSafe` | `AccountsAreKept` | |
| `AccessProofs!EnoughFailuresDoLock` | `EnoughFailuresLock` | |
| `AccessProofs!RequestsAreChecked` | `RequestsAreAuthorised` | |
| `AccessProofs!FetchesAreSafe` | `FetchesKeepToPolicy` | |
| `AccessProofs!RecordsAreSafe` | `RecordsStand` | |
| `AccessProofs!StartsAreSafe` | `StartsAreOrderly` | |
| `AccessProofs!GeneratedCodeIsSafe` | `GeneratedCodeIsKept` | |
| `LiveProofs!LiveIsSafe` | `OnceAndInOrder` | |
| `LiveProofs!AllowancesAreKept` | `AllowancesKept`, two refinements of `Allowance` | |
| `LiveProofs!OverrunBound` | `OverrunIsBounded` of both allowances | |
| `LiveProofs!NothingGoesBackEver` | `NothingGoesBack` | |
| `MoneyProofs!DifferencesDoNotDrift` | `SumFollowsEvents` | |
| `MoneyProofs!CustomersAreMadeGood` | `CustomerAgreesWithLedger` | |
| `MoneyProofs!FiguresOfTheLedgerAddUp` | `FiguresAddUp`, of every service but the allocation | |
| `MoneyProofs!CountsAreOfVisitors` | `VisitorsAreCounted` | |
| `MoneyProofs!ActivityNeverCosts` | `MoreIsNeverLess` | |
| `MoneyProofs!BudgetsAreSplit` | `FiguresAddUp`, the allocation with the others | `RoundsSuffice` |

*The assumption on the timeouts* is what the code makes true by default: `enqueue` copies the
timeout of the agent's definition onto the task, and `runTask` uses the one of the agent's row. It is false once an operator raises
`agents.timeout_ms` while tasks are queued (section 5).

*`RoundsSuffice`* says that the ten rounds of `allocateBudget` are enough: the cap is a tenth of the
budget or more, or there are ten candidates or fewer. The cap is one half by default, and
a request may lower it to a twentieth (`packages/shared/src/schemas.ts`); for more than ten
candidates under a cap below a tenth, nothing is proved of where the loop ends.

*The other assumptions on constants* say what the definitions take for granted of them: that sets of
workers, calls, actions, candidates or payments are finite where they are counted or summed, that
bounds, limits, amounts and estimates are numbers, that the levels of competition are those the code has a score for, that the value for no row is no row, that a page is
configured with one variant at least, that a signup is among what a lead may do.

*Task queue.* `SoleRunner` is not inductive: it says nothing of the age of a claim, and the sweep
looks at nothing else. `RunInv` adds (`HoldsRow`) that the claim of a run is no older than the
time its handler and its own statements have taken, so that it is younger than the lease as long as
the run is within its timeout and the grace (`OwnedNotStale`). All else is that a row which a run
holds is `running` or `succeeded`, and that no other action touches such a row. `AttemptInv`
adds to `AttemptBound` that a row in the queue has an attempt left.

*Approvals.* `DecisionInv` says what a call may rely on in each place: one that executes has an
approved row on which nothing was done before, and no other call executes or stores an outcome for
that row; and the status of a row is one that its verdict and effects allow. A step then maps to a
`Rule`, a `Perform` or a stutter of `HumanDecision`.

*The junction.* `TaskApprovals` is shown to implement both of its halves, step by step, so that
what was proved of them holds of the two together: `TaskApprovals` states the assumptions of the
queue and of the centre on its own constants, and the theorems of both modules are used through their instances.
That a gated tool runs on a human's approval needs an invariant of three parts at once (`SafeInv`):
the queue's (only the run that holds a row writes its `approval_id`), the centre's (an approved row
has a verdict that does not change), and the gate's (the approval that a run was given is the one on its row).

*Campaigns.* `LicenceInv` counts: what was delivered for a campaign and what may still be
delivered by a send on its way is at most the licences it was given; a send that begins takes its
licence from the one execution of its request. `HandledInv` says what a send has
seen of the drafts at each place of its loop, `CapInv` sets aside, for a send that is alone, the messages it
has room for (`Reserved`, `InFlight`).

*Experiments.* `LicenceInv` adds to `WaitsForOwnRequest` what a call of `start` knows at each place:
only an experiment with a budget is asked for, the request a call is about to store is about the
experiment it is on, and one with a budget is marked as running by the call itself only where the
policy lets it through.

*Research.* Each service has an invariant of its own, and `StepIsOfOneResearch` shows a step of
all of them to be a step of one and a stutter of the others.
`DiscoveryInv`: a scan that works alone on a fingerprint knows what stands there and, for a new one, what of its cluster has still to be quoted (`Alone`, `ClusterInv`). `AnalysisInv`: an undisturbed analysis knows the
status that the opportunity had (`WorkInv`), and between the two statements of an undisturbed selection the one that was chosen is alone selected, or is being tested (`ChoiceInv`).
`PipelineInv`: a blocked build that nobody has heard of is covered by a task that will come to its
review (`Covers`), and of the experiments that are nobody's but the agents' one is open, or none while a design that has looked is alone (`OpenInv`). `ScoringInv`: the
versions are numbered without a gap, and a recalibration that has locked the active row and still
finds the next number free has locked the last row, which is why no two are active. `ConnectorInv`: how long the rules may have refused what is held is bounded by its age, from the rules
to the page, to the cached page and to the answer (`RefusalInv`). `CriteriaInv`: a criterion that is carried over is
a share with a range around it, and the assumption where it is assumed (`Stands`); carrying it over, once or twice turned round, makes the same criterion again (`CarriedStands`).

*Scores.* `ComputedInv` says that what is stored are the criteria of what is known now
(`BuildCriteria(known, difficulty, fit)`), for the guesses of some scan at distribution and fit: a rescoring
carries these two over, the others it makes anew. `BuiltIsGood` then gives every criterion its value within its
range, a weight that is positive and the kind `DEMO` in a demo workspace, and no other lowers a score
when its own estimate is worse (`WorseChangesOne`, `WorseIsWorthLess`). The score, its bounds and its confidence are folds
over the criteria, for which no induction is available. `FoldsInto` unfolds the library's fold into the recursion over
subsets that defines it, which has one solution (`FoldsExist`, `FoldsAgree`); a bound on a sum holds because
among the subsets for which it failed one would be smallest (`AddsLeq`, `AddsInt`, `AddsZero`).

*Robots.txt.* `parseRobots` is followed line by line: `RobotsInv` says that there is a map from lines to
groups (`Grouped`) under which each group holds what its lines say, each line that names an agent has a group, and
a rule has the group of the agents that stand right above it or of those who share it (`NearestAbove`). A line more extends the map by one
(`RuleIsGrouped`, `AgentIsGrouped`). What `isAllowed` takes from the chosen groups is a fold over
their rules in the order they are read; `BestIsFold` shows it to be the longest match, and of two of one
length the one that allows, which is what the property asks of the file itself (`AllowedAsRuled`, `RobotsSuffice`).

*Policies.* `CoverInv` adds that a change on its way to be applied without an approval is itself
covered by the default or by an approved request: it was no relaxation of a policy that was
covered, and what covers never goes away. This is why the race of section 5 cannot exceed what a
human once approved.

*Accounts, requests, fetches.* What a request may rely on after it was authenticated, whoever
revokes or demotes in between; in `LockoutInv` how many failures the counter stands for. The table of
routes is gone through once (`Authed` and what the hooks have left of it). `FetchInv` says which headers and which
body are still to be sent at each redirect.

*Records.* The proof about the audit log does without induction on the log: a chain is one link to
the row before, which the lock makes the last visible one (`Visible`), and a link that an edit has broken is never mended. `SettingsInv`: a call that nobody
has overlapped will write what fits what is stored. `SecretInv` has sums of ages, of the router's
copy, of the service's copy and of the call (`AgeInv`), and what a rotation has covered so far
(`RotationInv`). The attempt showed that the bound of `Secrets` has to allow for two calls and not for one.

*Start-up and generated code.* `StartInv` relates the advisory lock, the migrations a process has
passed and the parts of the demo that are counted (`SeedCount`). `ScanInv` and `ChildInv` say that a child is of a scanned
build and has its port, `TestsInv` orders the timer, the container and the kill.

*Live services.* As in research, each has an invariant and a step is of one of them
(`StepIsOfOneService`). In the gateway a task's spending is below its budget before its last
answer (`TaskBudget`) and its requests are counted by attempt and provider (`TaskRequests`). The stream's events, received and still on the wire, are sorted, and complete but for
late ones; the first event that would be missing gives the contradiction, in place of an induction. The
page's invariant ties each load to the workspace and version it was asked for (`LoadsInv`,
`ShownInv`). Proving them also corrected two type invariants that held on the instances only,
the bounds of what is counted in `AiGateway` and `DailyLimit`.

*Allowance.* A limit that is read first and charged afterwards cannot be kept, only overrun by a
known amount. `OverrunIsBounded` is not inductive, because whoever was admitted may still be
counted. `SetAside` keeps the largest charge for each of them; admitting one more is allowed
only below the limit, and counting one moves what was set aside into what was counted
(`AllowanceStep`, `ProductGrows`, `AskersAreFinite`). `DaySetAside` and `LimitSetAside` are this for the
budget of a day and for the limit of a policy. `AllowancesAreKept` shows step by step that the gateway and the
daily limit implement `Allowance`, under the mappings that they state.

*Sums.* `MoneyProofs` begins with what a sum over a finite set is (`SumOf`): the fold of the library,
unfolded into the recursion over subsets that defines it (`Sums`), which has one solution
(`SumsExist`, `SumsAgree`). That a sum grows by what is added, falls apart into the sums of parts
and grows with its terms is shown without induction: among the subsets for which it fails one
is smallest (`Smallest`, from the well-foundedness of strict inclusion), and it holds for that one less
an element.

*Revenue.* `KnowsTheSum` is the heart of `RevenueInv`: what a call has read of a subscription or of
its customer is still so when it writes, unless another call for that customer came in between. `RowsFollow` and
`CustomersFollow` carry it over to the rows and to the figure, the latter once every row of the customer is of a
call that was answered (`answered`): until then a redelivery has still to make the figure good.

*Visitors and leads.* `FunnelInv` follows an event on its way (`IsOfAVisitor`): a signup has its
address in the site's store, and its lead once one statement is left. `OneDraw` ties the
variant of every event to that of its visitor's browser. `LeadInv` compares scores by what they were
computed from: with no overlap and no loss of keywords, what a rescoring will have read when it writes (`ToWrite`)
is no less than what the stored score was of, which takes that each weight of `ScoreLead` grows with its input.

*Billing.* `BillingInv` says which rows a payment is to have (`RowsToHave`): one of the charge or
of the invoice, and one for each refund that Stripe has told of, whose amounts are differences of
cumulated sums and so add up to what was returned (`IsTold`), in whichever order they arrive.

*Metrics and reports.* `MetricsInv` and `ReportsInv` are short, as the ledger only grows; the work is in
splitting sums over rows by customer, by month and by movement (`SumByParts`) and, for a report, by what each
of the two loads has seen (`DatedBy`).

*Allocation.* Shares are fractions of a whole, which a round multiplies and then divides by a common
divisor; `NextOf` is the round without the division, and `Divided` says that it loses nothing. A
round keeps the sum (`NextAdds`), leaves at the cap whoever was there (`CappedStay`) and raises all
others by one factor, which is why order and proportions stay (`SplitOf`). The loop ends because a round that was needed brings one more
candidate to the cap (`AllocInv` counts them by rounds), and because there are fewer than
100 / cap of them while a share is above it (`ManyAreTooMuch`). Of the greatest common divisor the proof takes only
that it divides: `Unit` states what of it is used.

*Only model-checked:*
- everything under fairness (`EveryTaskSettles`, `DecisionReachesWaiter`, `EverythingEnds`): liveness and `ENABLED` are beyond the prover;
- `BudgetIsSplit` where `RoundsSuffice` does not hold.

## 5. Divergences between the code and what is said of it

Three are kept as runs and listed as findings in `PROJECT.json`: the lost wake-up of a task
(`gate_wakeup`), the replayed billing event (`revenue_replay`) and the revenue of a report
(`report_revenue`). The following were met as well. Where a property is named, it is defined in the
module and is violated by the code as it is; give it to TLC in place of the properties of the
module's run to see a trace.

| Where | What the code does | What is said | Property |
|---|---|---|---|
| `orchestrator.ts:330` | the sweep goes by the timeout on the row, the run by the agent's, which an operator may raise: a row is taken from a live run | "Recover tasks whose worker died mid-execution." (`orchestrator.ts:324`) | `TaskQueue!SoleRunner` with `AgentTimeout > TaskTimeout` |
| `orchestrator.ts:102` | a resumption counts as an attempt: a task may fail for good at its first failure | "failures back off exponentially up to `maxAttempts`" (`ARCHITECTURE.md:113`) | `TaskQueue!RetriesAreForFailures` |
| `orchestrator.ts:186` | an approval is found by the name of the tool: it lets a call with other arguments through | "Every approval request states WHAT will happen" (`approvals.ts:41`) | `TaskApprovals!RunsWhatWasApproved` |
| `approvals.ts:148` | a call that read the row before its decision marks it expired afterwards | "the outcome is stored and audited" (`approvals.ts:43`) | `Approvals!DecisionIsNotExpired` |
| `approvals.ts:67` | a second task that asks for the same is told the first one's request, whose decision releases the first task only | "Approving resumes it; rejecting cancels it." (`ARCHITECTURE.md:117-118`) | `TaskApprovals!WaitsForOwnApproval` |
| `approvals.ts:131` | a late decision on an older request of a task releases it from a newer one | the same | `TaskApprovals!ReleasedByItsApproval` |
| `experiments.ts:166` | a request that is approved before its id is stored leaves the experiment waiting for a decision that was taken | | `Experiments!ApprovedDoesNotWait` |
| `experiments.ts:181` | `markRunning` updates by id: a late approval runs an experiment that was killed | "**KILL** stops the experiment" (`docs/WORKFLOWS.md:54`) | `Experiments!KilledStaysDown` |
| `campaigns.ts:196` | two sends each count before either has sent, and exceed the cap together | "The daily cap and the suppression list always apply." (`docs/WORKFLOWS.md:71-72`) | `Campaigns!CapAlwaysApplies` |
| `core.ts:121` | a call that was no relaxation when compared is applied after another has tightened the policy | "Relaxing a policy is itself a `security.policy_change` and needs approval." (`ARCHITECTURE.md:144`) | `Policies!RelaxationNeedsApproval` |
| `hooks.ts:50` | the refresh that an event asks for hangs on a timer which the next event, of any type, clears: `events` is a new object for each event (`providers.tsx:121`) | "optionally re-fetches when matching server events arrive over SSE." (`hooks.ts:9`) | `Dashboard!PageFollowsEvents`, which presumes that events are delivered |
| `revenue.ts:122` | two deliveries read the same sum, and both record the difference | (nothing is promised) | `Revenue!SumFollowsEvents` without its condition `overlapped` |

Others, which no property states:

- `workflow.tsx:33`: the effect depends on `onDone`. A page that passes a new closure each time it is
  rendered, and reloads in it, starts the effect again, which asks again and calls `onDone` again:
  once a workflow has settled such a page reloads without end.
- `core/src/portfolio.ts:66`: "MRR/ARR/customers use VERIFIED revenue only", while customers of any
  source are counted; and the win rate may exceed 1, since experiments are counted as decided only
  when `completed` or `killed` and as won in any status (lines 24-25).
- The automation rate has the tasks that wait for a human in its denominator.
- `strategy.ts:35` learns from the breakdown an opportunity has now and not from the one it was chosen by;
  a recalibration may build on weights that are half a minute old.
- `analytics/src/portfolio.ts:7` looks at the newest experiment of a candidate only. An exploration
  floor of 0 leaves money unallocated when nobody else may take it.
- The synchronisation with Stripe asks for one page and ignores `has_more`.
- robots.txt is asked about the first URL of a request and not about where it redirects to; a
  `Sitemap` line ends a run of user agents.
- `GET /api/sources`, `GET /api/leads/export` and `GET /api/agents` (`ensureAgents`) change rows, and need
  no CSRF token as they are reads.
- The demo guest and viewers, "read-only" in `README.md:42`, may generate reports, acknowledge
  alerts and start the tasks of `/finance` and `/report`.
- The limit of `safeFetch` is one of idleness: a server that keeps sending is listened to up to the limit in bytes.
- The churn of customers may exceed 1, when more leave in a month than were there at its start.
- `leads.ts:96` changes the consent without rescoring, `leads.ts:84` refers without rescoring the one
  who referred, a scan replaces the keywords that `leads.ts:152` reads without rescoring, and
  `tracking.ts:53` inserts the event of a signup after `upsertInbound` has rescored its lead: the score
  follows with the next rescoring, which may lower it where keywords fit less.
- `opportunities.ts:216` changes the tags, from which the score takes whether the customers are firms, and
  scores nothing: the score is that of the former tags until something else rescores it.
- The signals of a new opportunity count all documents of its cluster (`discovery.ts:463`), its evidence
  has the first eight and regulatory ones (`discovery.ts:358-398`); the next scan that finds it counts what
  the evidence has.
- `experiments.ts:263` gives a hypothesis back as `proposed`, also the one that its opportunity names: the
  next analysis deletes it (`analysis.ts:181`), and the opportunity goes on naming it.
- A task that finds an experiment or a request pending waits with the one that has asked for it, but only the
  one that the request names is released: the others wait until an operator cancels them.
- A late approval opens a stopped experiment again (`experiments.ts:181`), also beside a newer one; a budget that
  is refused leaves its experiment `pending_approval`.
- With the docker driver a container that exits stays in the map of its process, and is listed as running
  (`deployer.ts:87`, `products.ts:220`); a `docker run` or `docker stop` that was given up may leave a
  container that nobody knows of.
- Two processes that start for the first time at once both find no `schema_migrations`, and `CREATE TABLE
  IF NOT EXISTS` of the second may fail (`migrate.ts:33`): it comes before the lock.
- The command bar (`shell.tsx:73`), the form of the workspace (`settings/page.tsx:38`) and the triggers of the
  agents do not reload the page that shows what they have changed; that form keeps the values of the
  workspace it was first shown (`settings/page.tsx:34`).
- An `EventSource` that was answered otherwise than with 200, as while the API is being restarted, is closed by
  the browser; `providers.tsx:95` opens no other, and the page gets no more events until it is loaded again.
- `orgs.ts:47`: two changes of the settings that overlap lose one (the condition of `Settings`).
- `secrets.ts:63`: a secret that is set while a rotation is under way falls back to its former value.
- `auth.ts:87`: failed logins that overlap are counted once, and a process that dies while it seeds the demo
  workspace leaves it with parts missing (`demo.ts:139`).
- A preview counts as healthy when whoever holds its port answers.

Races that no property covers, since the code does not handle them and no run would say more than
that they exist: `approvals.ts:169`, where `expireStale` leaves the task of an expired request
waiting until an operator cancels it; `orchestrator.ts:306`, where two runs that end together may
leave an idle agent shown as running; `campaigns.ts:161`, which accepts a status `rejected` that
nothing writes; `revenue.ts:90`, where a customer's figure lacks an insert that came between read and
write; the last owner of a workspace, who may be demoted by another; a key, which keeps its role
when its owner loses it; `maxPerDay`, which counts actions named `autonomous.*` only.

## 6. Not modelled, and why

- *Text and parsing*: prompts, HTML, feeds, the templates of the factory, the rendering of
  reports, of the dashboard and of the command line. They keep no state. The exception is
  robots.txt, whose loop carries state from line to line.
- *Reals and statistics*: confidence intervals, posterior probabilities, forecasts, clustering,
  cash flow. TLC has no reals; where a decision hangs on one, it is an input.
- *Reads*: lists, traces, overviews, search, export.
- *Estimates, the knowledge graph, alerts, the cost ledger*: rows that are upserted by key or
  inserted, one statement at a time, and read by no operation modelled here.
- *Audit rows and events* as a by-product of every operation: they are written after the change
  they describe and are read by no operation but those of `AuditLog` and `EventStream`.
- *The demo guest*, whose account is one more viewer, and *workspaces other than one or two*:
  every statement has its workspace in its `WHERE`.
- *Providers of models and of data*: the single requests and their formats. They are external,
  and answer or fail.
- *Isolation*: each modelled statement is atomic. They are statements on one row, sums, or guarded
  updates, whose guard PostgreSQL evaluates again on the row it locks under `READ COMMITTED`. A
  read and a write in two statements (the de-duplication of requests, for one) are two actions.
- *Types, schemas, configuration and build files*.

## 7. Plan

Done: all services that keep state and interleave, at the level of statements; the junction of
queue and approval centre; two abstract specifications (`HumanDecision`, `Allowance`) with their
implementations and clients; theorems of every safety and action property of the runs that pass.

What would come next, in this order:

1. *Allocation*: how far ten rounds leave a share above a cap of less than a tenth among many candidates.
2. *More of the system*: what section 6 lists as rows that are upserted one statement at a time, should they come to be read by
   an operation modelled here.
