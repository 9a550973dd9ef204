----------------------------- MODULE Deployments ----------------------------
(***************************************************************************)
(* Generated projects and their previews (packages/core/src/products.ts,   *)
(* packages/factory/src/deployer.ts, sandbox.ts): a build is scanned and   *)
(* tested, a preview picks a port, spawns a child, waits for the port to   *)
(* answer and writes its row.  Each process (the API and the workers)      *)
(* knows only the children it spawned itself, the rows are shared, and a   *)
(* child that outlives its process goes on.  With SANDBOX_DRIVER=docker a  *)
(* child is a container: its port is taken when it is made, nobody is told *)
(* when it exits, and docker may fail to stop it.                          *)
(*                                                                         *)
(* The second part is one run of the tests of a project in a sandbox, with *)
(* variables and a specification of its own.                               *)
(***************************************************************************)
EXTENDS Integers, FiniteSets

CONSTANTS
  Project, Deployment,
  Process,        \* the API and workers
  Api,            \* the one that serves the API: it reconciles when it starts
  Ports,          \* deployPortStart..deployPortEnd
  MaxRestarts     \* bound of the model

NoProcess == "none"
NoProject == "none"

VARIABLES
  status,         \* [Project -> projects.status], "none" before the build
  scanned,        \* history: projects that passed the scan
  executed,       \* history: projects whose code was run
  row,            \* [Deployment -> deployments.status], "none" before the INSERT
  of,             \* [Deployment -> Project]
  phase,          \* [Deployment -> where its call of deployLocal is]
  port,           \* [Deployment -> port], 0 before it is allocated
  child,          \* [Deployment -> {"none", "booting", "listening"}]
  knows,          \* [Deployment -> Process whose map `running` has it, or none]
  caller,         \* [Deployment -> Process that runs deployLocal]
  stopping,       \* deployments whose stop has killed and not yet written
  containers,     \* cfg.sandbox.driver = 'docker'; else a child is a process
  restarts

buildVars == <<status, scanned>>
startVars == <<row, of, phase, port, caller>>
childVars == <<child, knows, executed>>
deployVars == <<buildVars, startVars, childVars, stopping, containers, restarts>>

Built == {"generated", "tests_passed", "deployed"}
BuildFailed == {"scan_failed", "tests_failed"}
Phases == {"idle", "allocating", "spawning", "waiting", "started", "marked", "failing"}

TypeOK ==
  /\ status \in [Project -> {"none"} \cup Built \cup BuildFailed]
  /\ scanned \subseteq Project /\ executed \subseteq Project
  /\ row \in [Deployment -> {"none", "starting", "running", "stopped", "failed"}]
  /\ of \in [Deployment -> Project \cup {NoProject}]
  /\ phase \in [Deployment -> Phases]
  /\ port \in [Deployment -> Ports \cup {0}]
  /\ child \in [Deployment -> {"none", "booting", "listening"}]
  /\ knows \in [Deployment -> Process \cup {NoProcess}]
  /\ caller \in [Deployment -> Process \cup {NoProcess}]
  /\ stopping \subseteq Deployment /\ containers \in BOOLEAN /\ restarts \in 0..MaxRestarts

Init ==
  /\ status = [p \in Project |-> "none"] /\ scanned = {} /\ executed = {}
  /\ row = [d \in Deployment |-> "none"] /\ of = [d \in Deployment |-> NoProject]
  /\ phase = [d \in Deployment |-> "idle"] /\ port = [d \in Deployment |-> 0]
  /\ child = [d \in Deployment |-> "none"] /\ knows = [d \in Deployment |-> NoProcess]
  /\ caller = [d \in Deployment |-> NoProcess]
  /\ stopping = {} /\ containers \in BOOLEAN /\ restarts = 0

-----------------------------------------------------------------------------
(* The build *)

\* Mutant: the tests decide alone.
BuildStatusOfTests(passes, tests) ==
  CASE tests = "passed" -> "tests_passed"
    [] tests = "skipped" -> "generated"
    [] OTHER -> "tests_failed"

\* runTests: a time-out is noted before the child is killed, and tells when
\* it closes.  "skipped": the policy or the driver does not allow the run.
Tested == {"passed", "failed", "timeout", "error", "skipped"}
BuildStatus(passes, tests) ==
  IF ~passes THEN "scan_failed"
  ELSE CASE tests = "passed" -> "tests_passed"
         [] tests = "skipped" -> "generated"
         [] OTHER -> "tests_failed"

Build(p, passes, tests) ==
  /\ status[p] = "none"
  /\ ~passes => tests = "skipped"
  /\ status' = [status EXCEPT ![p] = BuildStatus(passes, tests)]
  /\ scanned' = IF passes THEN scanned \cup {p} ELSE scanned
  /\ executed' = IF tests # "skipped" THEN executed \cup {p} ELSE executed
  /\ UNCHANGED <<startVars, child, knows, stopping, restarts>>

-----------------------------------------------------------------------------
(* deployLocal *)

To(d, p) == phase' = [phase EXCEPT ![d] = p]

\* The policy and the driver let it through; the project was read.
Begin(d, p, w) ==
  /\ row[d] = "none" /\ status[p] \in Built
  /\ row' = [row EXCEPT ![d] = "starting"]
  /\ of' = [of EXCEPT ![d] = p]
  /\ caller' = [caller EXCEPT ![d] = w]
  /\ To(d, "allocating")
  /\ UNCHANGED <<buildVars, port, childVars, stopping, restarts>>

Known(w) == {d \in Deployment : knows[d] = w}
Listening(x) == {d \in Deployment : child[d] = "listening" /\ port[d] = x}
Holds(d) == child[d] = "listening" \/ (containers /\ child[d] = "booting")
Taken(x) == {d \in Deployment : Holds(d) /\ port[d] = x}
FreePorts(w) == {x \in Ports : Taken(x) = {} /\ \A d \in Known(w) : port[d] # x}

\* allocatePort: the first that is free; nothing reserves it.
Allocate(d) ==
  /\ phase[d] = "allocating"
  /\ \/ \E x \in FreePorts(caller[d]) :
          /\ \A y \in FreePorts(caller[d]) : x <= y
          /\ port' = [port EXCEPT ![d] = x]
          /\ To(d, "spawning")
     \/ FreePorts(caller[d]) = {} /\ To(d, "failing") /\ UNCHANGED port
  /\ UNCHANGED <<buildVars, row, of, caller, childVars, stopping, restarts>>

Runs(d) == child' = [child EXCEPT ![d] = "booting"] /\ executed' = executed \cup {of[d]}

\* spawn returns at once.  "docker run -d" fails, without a container, when
\* the port is taken or for other reasons; given up after a minute, it may
\* leave one that nobody knows.
Spawn(d) ==
  /\ phase[d] = "spawning"
  /\ \/ /\ containers => Taken(port[d]) = {}
        /\ Runs(d)
        /\ knows' = [knows EXCEPT ![d] = caller[d]]
        /\ To(d, "waiting")
     \/ /\ containers /\ Taken(port[d]) = {} /\ Runs(d)
        /\ To(d, "failing") /\ UNCHANGED knows
     \/ /\ containers
        /\ To(d, "failing") /\ UNCHANGED childVars
  /\ UNCHANGED <<buildVars, row, of, port, caller, stopping, restarts>>

\* The child exits; the entry of a process goes with it.
Gone(d) ==
  /\ child' = [child EXCEPT ![d] = "none"]
  /\ knows' = IF containers THEN knows ELSE [knows EXCEPT ![d] = NoProcess]

\* stop in a process: it kills what it knows, and forgets it, even when
\* "docker stop" has failed.
Stop(d, w) ==
  IF knows[d] = w
    THEN /\ knows' = [knows EXCEPT ![d] = NoProcess]
         /\ child' = [child EXCEPT ![d] = "none"] \/ (containers /\ UNCHANGED child)
    ELSE UNCHANGED <<child, knows>>

\* A process that finds its port taken exits; a container has its own.
Bind(d) ==
  /\ child[d] = "booting"
  /\ \/ /\ containers \/ Listening(port[d]) = {}
        /\ child' = [child EXCEPT ![d] = "listening"] /\ UNCHANGED knows
     \/ ~containers /\ Listening(port[d]) # {} /\ Gone(d)
  /\ UNCHANGED <<buildVars, startVars, executed, stopping, restarts>>

ChildDies(d) ==
  /\ child[d] # "none" /\ Gone(d)
  /\ UNCHANGED <<buildVars, startVars, executed, stopping, restarts>>

\* waitHealthy asks the port, whoever answers; the entry of a child that has
\* exited meanwhile is missing, which is an error.
Healthy(d) ==
  /\ phase[d] = "waiting" /\ Listening(port[d]) # {}
  /\ To(d, IF knows[d] # NoProcess THEN "started" ELSE "failing")
  /\ UNCHANGED <<buildVars, row, of, port, caller, childVars, stopping, restarts>>

NotHealthy(d) ==
  /\ phase[d] = "waiting" /\ Listening(port[d]) = {}
  /\ To(d, "failing") /\ Stop(d, caller[d])
  /\ UNCHANGED <<buildVars, row, of, port, caller, executed, stopping, restarts>>

MarkRunning(d) ==
  /\ phase[d] = "started"
  /\ row' = [row EXCEPT ![d] = "running"]
  /\ status' = [status EXCEPT ![of[d]] = IF @ \in Built THEN "deployed" ELSE @]
  /\ To(d, "marked")
  /\ UNCHANGED <<scanned, of, port, caller, childVars, stopping, restarts>>

\* What follows the UPDATE may still fail: the child then stays.
Finish(d) ==
  /\ phase[d] = "marked"
  /\ To(d, "idle") \/ To(d, "failing")
  /\ UNCHANGED <<buildVars, row, of, port, caller, childVars, stopping, restarts>>

MarkFailed(d) ==
  /\ phase[d] = "failing"
  /\ row' = [row EXCEPT ![d] = "failed"]
  /\ To(d, "idle")
  /\ UNCHANGED <<buildVars, of, port, caller, childVars, stopping, restarts>>

-----------------------------------------------------------------------------
(* stopDeployment, and processes that end *)

StopChild(d, w) ==
  /\ row[d] # "none"
  /\ stopping' = stopping \cup {d}
  /\ Stop(d, w)
  /\ UNCHANGED <<buildVars, startVars, executed, restarts>>

MarkStopped(d) ==
  /\ d \in stopping
  /\ stopping' = stopping \ {d}
  /\ row' = [row EXCEPT ![d] = "stopped"]
  /\ UNCHANGED <<buildVars, of, phase, port, caller, childVars, restarts>>

\* With stopAll (SIGTERM) the children go too; a crash leaves them.  The API,
\* when it starts, takes every preview that should run for stopped.
Reconciled(s) == IF s \in {"starting", "running"} THEN "stopped" ELSE s

Restart(w, orderly) ==
  /\ restarts < MaxRestarts
  /\ restarts' = restarts + 1
  /\ phase' = [d \in Deployment |-> IF caller[d] = w THEN "idle" ELSE phase[d]]
  /\ child' = [d \in Deployment |-> IF orderly /\ knows[d] = w THEN "none" ELSE child[d]]
  /\ knows' = [d \in Deployment |-> IF knows[d] = w THEN NoProcess ELSE knows[d]]
  /\ row' = IF w = Api THEN [d \in Deployment |-> Reconciled(row[d])] ELSE row
  /\ UNCHANGED <<buildVars, of, port, caller, executed, stopping>>

StartStep(d) == \/ Allocate(d) \/ Spawn(d) \/ Healthy(d) \/ NotHealthy(d)
                \/ MarkRunning(d) \/ Finish(d) \/ MarkFailed(d)

DeployNext ==
  \/ \E p \in Project, passes \in BOOLEAN, tests \in Tested : Build(p, passes, tests)
  \/ \E d \in Deployment :
       \/ \E p \in Project, w \in Process : Begin(d, p, w)
       \/ StartStep(d) \/ Bind(d) \/ ChildDies(d) \/ MarkStopped(d)
       \/ \E w \in Process : StopChild(d, w)
  \/ \E w \in Process, orderly \in BOOLEAN : Restart(w, orderly)

\* The configuration is the same in all processes, and stays.
Next == DeployNext /\ UNCHANGED containers

Spec == Init /\ [][Next]_deployVars

-----------------------------------------------------------------------------
(* Properties *)

\* Code that failed the static scan is never run: not by the tests, not by a
\* preview, whenever it is asked for ("code was not executed").
ExecutedWasScanned == executed \subseteq scanned

\* listDeployments, asked in a process.
Shown(d, w) == IF row[d] = "running" /\ knows[d] # w THEN "stopped" ELSE row[d]

\* "Reflect processes that died since the DB row was written": without docker,
\* a preview that a process shows as running has a child that lives, however
\* starts, stops, exits and restarts overlap.  With either driver, of two
\* previews on one port at most one serves it.
ShownRunningLives ==
  /\ ~containers =>
       \A d \in Deployment, w \in Process : Shown(d, w) = "running" => child[d] # "none"
  /\ \A d, e \in Deployment : d # e /\ Holds(d) /\ Holds(e) => port[d] # port[e]

-----------------------------------------------------------------------------
(***************************************************************************)
(* A run of generated tests (packages/factory/src/sandbox.ts) with either  *)
(* driver.  With "docker" the child of the process is a client: the        *)
(* container is made, runs and is removed by the daemon, and the client    *)
(* ends after it.  With "process" the child runs the tests itself.         *)
(***************************************************************************)
CONSTANTS
  TimeoutMs,  \* limits.timeoutMs
  MaxAge      \* bound: how long tests are watched

VARIABLES
  driver,     \* cfg.sandbox.driver: "docker", "process" or "disabled"
  waiter,     \* runTests: "idle", "waiting", "resolved" or "dead"
  timer,      \* "off", "set" or "fired"
  waited,     \* time since the timer was set
  tester,      \* "none", "running" or "closed"
  suite,       \* "none", "running", "passed", "failed" or "killed"
  age,         \* how long the tests have been running
  scratch,     \* the temporary directory is there
  result,      \* the status of the result, or "none"
  missed       \* history: docker kill came before the container

sandboxVars == <<driver, waiter, timer, waited, tester, suite, age, scratch, result, missed>>

TestsInit ==
  /\ driver \in {"docker", "process", "disabled"}
  /\ waiter = "idle" /\ timer = "off" /\ waited = 0 /\ tester = "none" /\ suite = "none"
  /\ age = 0 /\ scratch = FALSE /\ result = "none" /\ missed = FALSE

Over == suite \in {"passed", "failed", "killed"}

\* pickSandbox and runTests: the docker client may fail to start, and so may
\* the daemon be out of reach.
Pick(available) ==
  /\ waiter = "idle"
  /\ IF driver = "disabled" \/ (driver = "docker" /\ ~available)
       THEN /\ waiter' = "resolved" /\ result' = "skipped"
            /\ UNCHANGED <<timer, tester, suite, scratch>>
       ELSE /\ waiter' = "waiting" /\ timer' = "set" /\ tester' = "running"
            /\ scratch' = (driver = "process")
            /\ suite' = IF driver = "process" THEN "running" ELSE "none"
            /\ UNCHANGED result
  /\ UNCHANGED <<driver, waited, age, missed>>

\* The daemon has made the container and started it.
ContainerStarts ==
  /\ driver = "docker" /\ tester = "running" /\ suite = "none"
  /\ suite' = "running"
  /\ UNCHANGED <<driver, waiter, timer, waited, tester, age, scratch, result, missed>>

TestsEnd(how) ==
  /\ suite = "running"
  /\ suite' = how
  /\ UNCHANGED <<driver, waiter, timer, waited, tester, age, scratch, result, missed>>

\* The end of the client or child: after the tests, or because it fails.
ChildCloses ==
  /\ tester = "running"
  /\ Over \/ (driver = "docker" /\ suite = "none")
  /\ tester' = "closed"
  /\ UNCHANGED <<driver, waiter, timer, waited, suite, age, scratch, result, missed>>

\* A variant that ends the client and leaves the container to itself.
KillChild ==
  /\ suite' = IF driver = "process" /\ suite = "running" THEN "killed" ELSE suite
  /\ tester' = "closed"
  /\ UNCHANGED missed

\* "docker kill" by name, which fails if there is no such container yet, or
\* SIGKILL for the tester.
Kill ==
  /\ suite' = IF suite = "running" THEN "killed" ELSE suite
  /\ missed' = (missed \/ (driver = "docker" /\ suite = "none"))
  /\ UNCHANGED tester

TimerFires ==
  /\ waiter = "waiting" /\ timer = "set" /\ waited = TimeoutMs
  /\ timer' = "fired"
  /\ Kill
  /\ UNCHANGED <<driver, waiter, waited, age, scratch, result>>

\* 'close': the result, and the directory of the process driver is removed.
Resolve ==
  /\ waiter = "waiting" /\ tester = "closed"
  /\ waiter' = "resolved" /\ timer' = IF timer = "set" THEN "off" ELSE timer
  /\ result' = IF timer = "fired" THEN "timeout" ELSE IF suite = "passed" THEN "passed" ELSE "failed"
  /\ scratch' = FALSE
  /\ UNCHANGED <<driver, waited, tester, suite, age, missed>>

\* The worker's process ends: its timer is gone, its tester goes on.
CallerDies ==
  /\ waiter = "waiting"
  /\ waiter' = "dead" /\ timer' = "off"
  /\ UNCHANGED <<driver, waited, tester, suite, age, scratch, result, missed>>

Tick ==
  /\ tester = "running" \/ suite = "running"
  /\ timer = "set" => waited < TimeoutMs
  /\ age < MaxAge
  /\ waited' = IF timer = "set" THEN waited + 1 ELSE waited
  /\ age' = IF suite = "running" THEN age + 1 ELSE age
  /\ suite = "running" \/ timer = "set"
  /\ UNCHANGED <<driver, waiter, timer, tester, suite, scratch, result, missed>>

Again == waiter \in {"resolved", "dead"} /\ tester # "running" /\ suite # "running"
           /\ waiter' = "idle" /\ timer' = "off" /\ waited' = 0 /\ tester' = "none"
           /\ suite' = "none" /\ age' = 0 /\ result' = "none" /\ missed' = FALSE
           /\ UNCHANGED <<driver, scratch>>

TestsNext ==
  \/ \E available \in BOOLEAN : Pick(available)
  \/ ContainerStarts \/ ChildCloses \/ TimerFires \/ Resolve \/ CallerDies \/ Tick \/ Again
  \/ \E how \in {"passed", "failed"} : TestsEnd(how)

TestsSpec == TestsInit /\ [][TestsNext]_sandboxVars

-----------------------------------------------------------------------------
TestsTypeOK ==
  /\ driver \in {"docker", "process", "disabled"}
  /\ waiter \in {"idle", "waiting", "resolved", "dead"} /\ timer \in {"off", "set", "fired"}
  /\ waited \in 0 .. TimeoutMs /\ tester \in {"none", "running", "closed"}
  /\ suite \in {"none", "running", "passed", "failed", "killed"} /\ age \in 0 .. MaxAge
  /\ scratch \in BOOLEAN /\ missed \in BOOLEAN
  /\ result \in {"none", "skipped", "passed", "failed", "timeout"}

\* "hard timeout": generated code runs no longer than its limit, and not on
\* when its result is there, but for two cases: the worker died, or the kill
\* came before the container, which no one stops then.
CodeIsStopped ==
  /\ age > TimeoutMs => waiter = "dead" \/ missed
  /\ suite = "running" /\ waiter = "resolved" => missed
  /\ result = "passed" => suite = "passed" /\ age <= TimeoutMs
=============================================================================
