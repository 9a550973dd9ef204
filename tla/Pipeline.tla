------------------------------ MODULE Pipeline ------------------------------
(***************************************************************************)
(* What the agents do with one opportunity: the commands and the workflows *)
(* they start (packages/agents/src/commands.ts), the handlers of the tasks *)
(* (agents.ts) and the tasks that each of them leaves behind.  TaskQueue   *)
(* says how a task is claimed and ended; here a task is claimed, fails, is *)
(* tried again and ends in one step each, and what matters is what its     *)
(* handler reads and writes.  The operators of the workspace make, start   *)
(* and stop experiments by hand, and evaluations end them; what overlaps   *)
(* within one such call is in Experiments.                                 *)
(***************************************************************************)
EXTENDS Integers, Sequences, FiniteSets

CONSTANTS
  Project, Experiment,    \* ids that code.generate and growth.design_experiment make: numbers
  MaxAttempts,            \* retry.maxAttempts
  MaxTasks, MaxCommands,  \* bounds of the model: rows, commands and calls by hand,
  MaxErrors               \* errors and deaths

VARIABLES
  task,        \* agent_tasks, in the order they were made
  hypothesis,  \* what the opportunity has: none, proposed or selected
  projects,    \* [Project -> none, passed or blocked by scan or tests]
  reported,    \* projects with the alert "Build blocked"
  live,        \* projects with a local preview
  experiments, \* [Experiment -> status]: "ended" is completed, killed or cancelled
  asked,       \* experiments whose budget a human has been asked for
  commands,    \* commands and calls by hand so far
  errors,      \* errors and deaths so far
  cut,         \* history: builds whose task did not come to leave their review
  crossed,     \* history: two designs were at work at once
  apart        \* history: experiments made by hand, or open again after they were not

data == <<hypothesis, projects, reported, live, experiments, asked>>
history == <<cut, crossed, apart>>
bounds == <<commands, errors>>
pipelineVars == <<task, data, bounds, history>>

NoOne == 0
Subject == Project \cup Experiment \cup {NoOne}
T(k, s) == [kind |-> k, of |-> s, st |-> "queued", tries |-> 0, named |-> FALSE,
            resumed |-> FALSE, next |-> <<>>]
Kind == {"analyze", "risk", "finance", "customer", "spec", "generate", "review",
         "design", "start", "deploy", "production", "score", "draft", "send"}
Active == {"queued", "running", "looked", "built", "spawning"}
Open == {"draft", "pending_approval", "running"}

TypeOK ==
  /\ Len(task) <= MaxTasks
  /\ \A t \in DOMAIN task :
       /\ task[t].kind \in Kind /\ task[t].of \in Subject /\ task[t].tries \in 0..(MaxAttempts + 1)
       /\ task[t].st \in Active \cup {"waiting_approval", "succeeded", "failed", "cancelled"}
       /\ task[t].named \in BOOLEAN /\ task[t].resumed \in BOOLEAN
  /\ hypothesis \in {"none", "proposed", "selected"}
  /\ projects \in [Project -> {"none", "passed", "blocked"}]
  /\ reported \subseteq Project /\ live \subseteq Project /\ cut \subseteq Project
  /\ experiments \in [Experiment -> Open \cup {"none", "paused", "ended"}]
  /\ asked \subseteq Experiment /\ apart \subseteq Experiment
  /\ commands \in 0..MaxCommands /\ errors \in 0..MaxErrors /\ crossed \in BOOLEAN

Init ==
  /\ task = <<>> /\ hypothesis \in {"none", "selected"} /\ commands = 0 /\ errors = 0 /\ crossed = FALSE
  /\ projects = [p \in Project |-> "none"] /\ experiments = [e \in Experiment |-> "none"]
  /\ reported = {} /\ live = {} /\ cut = {} /\ asked = {} /\ apart = {}

-----------------------------------------------------------------------------
(* Commands *)

Add(ts) == Len(task) + Len(ts) <= MaxTasks /\ task' = task \o ts

Workflow(ts) ==
  /\ commands < MaxCommands /\ commands' = commands + 1
  /\ Add(ts)
  /\ UNCHANGED <<data, errors, history>>

\* The newest project stands first: launch takes it, whatever came of it.
Built == {p \in Project : projects[p] # "none"}
Newest(p) == p \in Built /\ \A q \in Built : q <= p

Command ==
  \/ Workflow(<<T("analyze", NoOne)>>)
  \/ Workflow(<<T("spec", NoOne)>>)
  \/ Workflow(<<T("design", NoOne)>>)
  \/ Workflow(<<T("score", NoOne), T("draft", NoOne)>>)
  \/ \E p \in Project : Newest(p) /\ \/ Workflow(<<T("deploy", p)>>)
                                     \/ Workflow(<<T("deploy", p), T("production", p)>>)

-----------------------------------------------------------------------------
(* The course of a task *)

To(t, st) == task' = [task EXCEPT ![t].st = st]
Runs(t, k) == task[t].st = "running" /\ task[t].kind = k

Claim(t) ==
  /\ task[t].st = "queued"
  /\ task' = [task EXCEPT ![t].st = "running", ![t].tries = @ + 1]
  /\ UNCHANGED <<data, bounds, history>>

\* The handler returns: the row is finished as succeeded first ...
Return(t, next) ==
  task' = [task EXCEPT ![t].st = IF next = <<>> THEN "succeeded" ELSE "spawning", ![t].next = next]

\* ... and the tasks it names are inserted afterwards.
Spawn(t) ==
  /\ task[t].st = "spawning"
  /\ Len(task) + Len(task[t].next) <= MaxTasks
  /\ task' = [task EXCEPT ![t].st = "succeeded", ![t].next = <<>>] \o task[t].next
  /\ UNCHANGED <<data, bounds, history>>

Park(t) == To(t, "waiting_approval")

\* The request that is made for it names the task (approvals.task_id).
Ask(t) == task' = [task EXCEPT ![t].st = "waiting_approval", ![t].named = TRUE]

\* Builds that wait for their review, and that nothing but this task knows of.
Reviews(r) == {p \in Project : r.kind = "review" /\ r.of = p}

InHand(r) ==
  {p \in Project : r.kind = "generate" /\ r.of = p}
  \cup Reviews(r) \cup UNION {Reviews(r.next[i]) : i \in DOMAIN r.next}

\* What an error or a timeout leaves: a task to be tried again, if it may
\* be and is not used up, or a failed one.
AfterError(r) ==
  (IF r.tries < MaxAttempts
   THEN {[r EXCEPT !.st = "queued", !.next = <<>>, !.of = IF r.kind = "generate" THEN NoOne ELSE @]}
   ELSE {})
  \cup {[r EXCEPT !.st = "failed", !.next = <<>>]}

\* An error, at any point - also after the row was finished as succeeded,
\* while the successors are inserted: those that are there stay.  A worker
\* that dies there leaves a task that has succeeded.
Fail(t) ==
  /\ task[t].st \in {"running", "looked", "built", "spawning"}
  /\ errors < MaxErrors /\ errors' = errors + 1
  /\ \E n \in 0..Len(task[t].next) :
     \E r \in AfterError(task[t]) \cup
       (IF task[t].st = "spawning" THEN {[task[t] EXCEPT !.st = "succeeded", !.next = <<>>]} ELSE {}) :
       LET added == SubSeq(task[t].next, 1, n)
       IN /\ Len(task) + n <= MaxTasks
          /\ task' = [task EXCEPT ![t] = r] \o added
          /\ cut' = cut \cup {p \in InHand(task[t]) : /\ r.st = "queued" => p \notin Reviews(r)
                                                     /\ \A i \in DOMAIN added : p \notin Reviews(added[i])}
  /\ UNCHANGED <<data, commands, crossed, apart>>

-----------------------------------------------------------------------------
(* The handlers *)

\* Screenings, scores and drafts change nothing that another handler here
\* goes by.
JustReturns(t) ==
  /\ \/ (\E k \in {"risk", "customer", "score"} : Runs(t, k)) /\ Return(t, <<>>)
     \/ Runs(t, "draft") /\ (Return(t, <<>>) \/ Return(t, <<T("send", NoOne)>>))
  /\ UNCHANGED <<data, bounds, history>>

Analyze(t) ==
  /\ Runs(t, "analyze")
  /\ hypothesis' = IF hypothesis = "none" THEN "proposed" ELSE hypothesis
  /\ Return(t, <<T("risk", NoOne), T("finance", NoOne), T("customer", NoOne)>>)
  /\ UNCHANGED <<projects, reported, live, experiments, asked, bounds, history>>

\* finance.review selects the best hypothesis if none is selected and it is
\* viable; without any it throws.
ReviewFinance(t) ==
  /\ Runs(t, "finance") /\ hypothesis # "none"
  /\ hypothesis' \in {hypothesis, "selected"}
  /\ Return(t, <<>>)
  /\ UNCHANGED <<projects, reported, live, experiments, asked, bounds, history>>

Specify(t) ==
  /\ Runs(t, "spec") /\ hypothesis # "none"
  /\ hypothesis' = "selected"
  /\ Return(t, <<T("generate", NoOne)>>)
  /\ UNCHANGED <<projects, reported, live, experiments, asked, bounds, history>>

\* The build is stored, and the handler returns later.
Generate(t, p, outcome) ==
  /\ Runs(t, "generate") /\ projects[p] = "none" /\ \A q \in Project : q < p => projects[q] # "none"
  /\ projects' = [projects EXCEPT ![p] = outcome]
  /\ task' = [task EXCEPT ![t].st = "built", ![t].of = p]
  /\ UNCHANGED <<hypothesis, reported, live, experiments, asked, bounds, history>>

Generated(t) ==
  /\ task[t].st = "built"
  /\ Return(t, <<T("review", task[t].of)>>)
  /\ UNCHANGED <<data, bounds, history>>

ReviewBuild(t) ==
  /\ Runs(t, "review") /\ Return(t, <<>>)
  /\ reported' = IF projects[task[t].of] = "blocked" THEN reported \cup {task[t].of} ELSE reported
  /\ UNCHANGED <<hypothesis, projects, live, experiments, asked, bounds, history>>

\* Mutant: an experiment that waits for its approval is not seen.
LookForStarted(t) ==
  /\ Runs(t, "design")
  /\ \/ \E e \in Experiment : experiments[e] \in {"draft", "running"}
                              /\ Return(t, <<T("start", e)>>) /\ UNCHANGED crossed
     \/ /\ \A e \in Experiment : experiments[e] \notin {"draft", "running"}
        /\ To(t, "looked")
        /\ crossed' = (crossed \/ \E u \in DOMAIN task : task[u].st = "looked")
  /\ UNCHANGED <<data, bounds, cut, apart>>

\* growth.design_experiment looks for an experiment that is open ...
Look(t) ==
  /\ Runs(t, "design")
  /\ \/ \E e \in Experiment : experiments[e] \in Open
                              /\ Return(t, <<T("start", e)>>) /\ UNCHANGED crossed
     \/ /\ \A e \in Experiment : experiments[e] \notin Open
        /\ To(t, "looked")
        /\ crossed' = (crossed \/ \E u \in DOMAIN task : task[u].st = "looked")
  /\ UNCHANGED <<data, bounds, cut, apart>>

\* ... and creates one if there is none.
Create(t, e) ==
  /\ task[t].st = "looked" /\ experiments[e] = "none"
  /\ experiments' = [experiments EXCEPT ![e] = "draft"]
  /\ Return(t, <<T("start", e)>>)
  /\ UNCHANGED <<hypothesis, projects, reported, live, asked, bounds, history>>

\* The newest project that can be shown is deployed for the experiment.
Showable(p) == projects[p] = "passed" /\ \A q \in Project : projects[q] = "passed" => q <= p

Deploys(t) ==
  \/ \E p \in Project : Showable(p) /\ Return(t, <<T("deploy", p)>>)
  \/ (\A p \in Project : ~Showable(p)) /\ Return(t, <<>>)

Becomes(e, st) == experiments' = [experiments EXCEPT ![e] = st]

\* The policy lets the budget through, or a human is asked for it.
Begin(t, e) ==
  \/ Becomes(e, "running") /\ Deploys(t) /\ UNCHANGED asked
  \/ Becomes(e, "pending_approval") /\ Ask(t) /\ asked' = asked \cup {e}

\* Mutant: whoever finds it pending waits.
StartAgain(t) ==
  LET e == task[t].of
  IN /\ Runs(t, "start")
     /\ \/ experiments[e] = "draft" /\ Begin(t, e)
        \/ experiments[e] = "pending_approval" /\ Park(t) /\ UNCHANGED <<experiments, asked>>
        \/ experiments[e] = "running" /\ Deploys(t) /\ UNCHANGED <<experiments, asked>>
     /\ UNCHANGED <<hypothesis, projects, reported, live, bounds, history>>

\* growth.start_experiment, by the status that it finds.  Who finds the
\* experiment pending waits as well, but the request names another task, or
\* none.
Start(t) ==
  LET e == task[t].of
  IN /\ Runs(t, "start")
     /\ \/ experiments[e] = "draft" /\ Begin(t, e)
        \/ /\ experiments[e] = "pending_approval" /\ ~task[t].resumed /\ Park(t)
           /\ UNCHANGED <<experiments, asked>>
        \/ /\ \/ experiments[e] = "pending_approval" /\ task[t].resumed
              \/ experiments[e] \in {"paused", "ended"}
           /\ Return(t, <<>>) /\ UNCHANGED <<experiments, asked>>
        \/ experiments[e] = "running" /\ Deploys(t) /\ UNCHANGED <<experiments, asked>>
     /\ UNCHANGED <<hypothesis, projects, reported, live, bounds, history>>

\* deployLocal refuses what the scan or the tests have blocked.
Deploy(t) ==
  /\ Runs(t, "deploy") /\ projects[task[t].of] = "passed" /\ Return(t, <<>>)
  /\ live' = live \cup {task[t].of}
  /\ UNCHANGED <<hypothesis, projects, reported, experiments, asked, bounds, history>>

\* code.request_production and sales.request_send ask once, or wait with
\* the task that has asked for the same project; resumed, they report what
\* became of it.
Pending(t) == task[t].st = "waiting_approval" /\ task[t].named

AskOrReport(t) ==
  /\ task[t].st = "running" /\ task[t].kind \in {"production", "send"}
  /\ IF task[t].resumed THEN Return(t, <<>>)
     ELSE IF task[t].kind = "production"
             /\ \E u \in DOMAIN task : Pending(u) /\ task[u].kind = "production" /\ task[u].of = task[t].of
     THEN Park(t)
     ELSE Ask(t)
  /\ UNCHANGED <<data, bounds, history>>

-----------------------------------------------------------------------------
(* A human decides, or the request expires.  The task that the request     *)
(* names goes on, whether or not the executor has failed, and ends if it   *)
(* is refused; any other that waits for the request goes on waiting.       *)

Released(r) == [r EXCEPT !.st = "queued", !.resumed = TRUE]
Refused(r) == [r EXCEPT !.st = "cancelled"]

Decide(t) ==
  /\ Pending(t) /\ task[t].kind \in {"production", "send"}
  /\ \E r \in {Released(task[t]), Refused(task[t]), [task[t] EXCEPT !.named = FALSE]} :
       task' = [task EXCEPT ![t] = r]
  /\ UNCHANGED <<data, bounds, history>>

\* The task that has asked for the budget of e, if a task has.
Names(t, e) == Pending(t) /\ task[t].kind = "start" /\ task[t].of = e

\* The executor starts the experiment whatever has become of it.
Approve(e) ==
  /\ e \in asked /\ asked' = asked \ {e}
  /\ task' = [t \in DOMAIN task |-> IF Names(t, e) THEN Released(task[t]) ELSE task[t]]
  /\ \/ UNCHANGED <<experiments, apart>>
     \/ /\ Becomes(e, "running")
        /\ apart' = IF experiments[e] \in Open THEN apart ELSE apart \cup {e}
  /\ UNCHANGED <<hypothesis, projects, reported, live, bounds, cut, crossed>>

RefuseOrExpire(e) ==
  /\ e \in asked /\ asked' = asked \ {e}
  /\ \/ task' = [t \in DOMAIN task |-> IF Names(t, e) THEN Refused(task[t]) ELSE task[t]]
     \/ UNCHANGED task
  /\ UNCHANGED <<hypothesis, projects, reported, live, experiments, bounds, history>>

-----------------------------------------------------------------------------
(* Experiments, by hand and by evaluations *)

ByHand(e) ==
  /\ \/ experiments[e] = "none" /\ Becomes(e, "draft") /\ apart' = apart \cup {e} /\ UNCHANGED asked
     \/ /\ experiments[e] \in {"draft", "paused"}
        /\ apart' = IF experiments[e] = "paused" THEN apart \cup {e} ELSE apart
        /\ \/ Becomes(e, "running") /\ UNCHANGED asked
           \/ Becomes(e, "pending_approval") /\ asked' = asked \cup {e}
     \/ experiments[e] \in Open \cup {"paused"} /\ Becomes(e, "ended") /\ UNCHANGED <<asked, apart>>
  /\ commands < MaxCommands /\ commands' = commands + 1
  /\ UNCHANGED <<task, hypothesis, projects, reported, live, errors, cut, crossed>>

Evaluate(e) ==
  /\ experiments[e] = "running" /\ (Becomes(e, "paused") \/ Becomes(e, "ended"))
  /\ UNCHANGED <<task, hypothesis, projects, reported, live, asked, bounds, history>>

Next ==
  \/ Command
  \/ \E t \in DOMAIN task :
       \/ Claim(t) \/ Spawn(t) \/ Fail(t) \/ Decide(t)
       \/ JustReturns(t) \/ Analyze(t) \/ ReviewFinance(t) \/ Specify(t) \/ Generated(t) \/ ReviewBuild(t)
       \/ Look(t) \/ Start(t) \/ Deploy(t) \/ AskOrReport(t)
       \/ \E p \in Project, outcome \in {"passed", "blocked"} : Generate(t, p, outcome)
       \/ \E e \in Experiment : Create(t, e)
  \/ \E e \in Experiment : Approve(e) \/ RefuseOrExpire(e) \/ ByHand(e) \/ Evaluate(e)

Spec == Init /\ [][Next]_pipelineVars

\* A build that its scan or its tests have blocked is reported to a human, or
\* its review is on the way, however tasks fail and are tried again - unless
\* a task gave up or died between the build and its review.
BlockedBuildIsReported ==
  \A p \in Project \ (reported \cup cut) :
    projects[p] = "blocked" => \E t \in DOMAIN task : task[t].st \in Active /\ p \in InHand(task[t])

\* However often an experiment is asked for, retried, resumed, stopped and
\* judged, the opportunity has one open experiment of the agents' own -
\* unless two designs looked at once, and but for those that a human has
\* made or that a start by hand or a late approval has opened again.
OneOpenExperiment ==
  ~crossed => Cardinality({e \in Experiment \ apart : experiments[e] \in Open}) <= 1

\* A task that a human has released does not wait for a human again, even
\* when what was approved failed to be carried out.
ResumedGoesOn ==
  [][\A t \in DOMAIN task : task[t].resumed => task'[t].st # "waiting_approval"]_pipelineVars
=============================================================================
