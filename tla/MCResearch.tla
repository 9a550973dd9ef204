----------------------------- MODULE MCResearch -----------------------------
(***************************************************************************)
(* Experiments, and the services that find and judge opportunities and     *)
(* take them to an experiment, each on a small instance.  They share no    *)
(* rows but those that one of them owns and the others' modules take as    *)
(* inputs, so they are checked side by side: a behaviour is that of one    *)
(* service, chosen at the start, and a property of another says nothing of *)
(* it.                                                                     *)
(***************************************************************************)
EXTENDS Experiments, TLC

CONSTANTS
  Scan, Doc, Context, Quotes, Fingerprint, MaxScans,
  Worker, Hyp, Tested, DraftCounts, Chooser, NoHyp,
  Project, PipeExperiment, MaxAttempts, MaxTasks, MaxCommands, MaxErrors,
  Process, Actor, MinOutcomes, MaxInputs, MaxVersions,
  Documents, Levels, Weeks, Competitions, Spread,
  Run, MinInterval, CacheTtl, RobotsTtl, Timeout,
  MaxLines, MaxPattern

VARIABLES
  service,   \* the service that this behaviour is about
  documents, opps, evidence, signals, scan, scans, recounted, shared, torn,
  oppStatus, hyps, picked, analysisWork, choice, settled, standing,
  task, hypothesis, projects, reported, live, experiments, asked, commands,
    errors, cut, crossed, apart,
  versions, scoringCache, scoringWork, inputs, due, score, scores, outcomes,
    overlapped, died,
  known, criteria,
  key, site, closedFor, lastCall, connCache, robots, run,
  file, groups, lastWasAgent

Disc == INSTANCE Discovery
Anal == INSTANCE Analysis WITH
          work <- analysisWork
Pipe == INSTANCE Pipeline WITH
          Experiment <- PipeExperiment
Scor == INSTANCE Scoring WITH
          cache <- scoringCache, work <- scoringWork
Conn == INSTANCE Connectors WITH
          cache <- connCache

ASSUME AnalysisAssumption == NoHyp \notin Hyp /\ Tested \subseteq Hyp

ASSUME DiscoveryAssumption == "none" \notin Fingerprint /\ MaxScans \in Nat /\ Context \subseteq Doc

ASSUME PipelineAssumption ==
  MaxAttempts \in Nat \ {0} /\ MaxTasks \in Nat /\ MaxCommands \in Nat /\ MaxErrors \in Nat

ASSUME ScoringAssumption == MaxInputs \in Nat \ {0} /\ MaxVersions \in Nat

ASSUME ConnectorsAssumption ==
  /\ MinInterval \in Nat /\ Timeout \in Nat
  /\ CacheTtl \in Nat \ {0} /\ RobotsTtl \in Nat \ {0}

ASSUME RobotsAssumption == MaxLines \in Nat /\ MaxPattern \in Nat

ASSUME CriteriaAssumption ==
  /\ Documents \subseteq Nat /\ Levels \subseteq Nat /\ Spread \in Nat
  /\ Weeks \subseteq Nat /\ Competitions \subseteq DOMAIN Scor!CompetitionOf

Services == {"experiments", "discovery", "analysis", "pipeline", "scoring",
              "criteria", "connectors", "robots"}

discoveryState == <<documents, opps, evidence, signals, scan, scans,
                    recounted, shared, torn>>
analysisState == <<oppStatus, hyps, picked, analysisWork, choice, settled,
                   standing>>
pipelineState == <<task, hypothesis, projects, reported, live, experiments,
                   asked, commands, errors, cut, crossed, apart>>
scoringState == <<versions, scoringCache, scoringWork, inputs, due, score, scores,
                  outcomes, overlapped, died>>
criteriaState == <<known, criteria>>
connectorsState == <<key, site, closedFor, lastCall, connCache, robots, run>>
robotsState == <<file, groups, lastWasAgent>>

all ==
  <<service, vars,
    discoveryState, analysisState, pipelineState, scoringState, criteriaState,
    connectorsState, robotsState>>

\* What the services other than one keep does not change.
Rest(me) ==
  /\ UNCHANGED service
  /\ IF me = "experiments" THEN TRUE ELSE UNCHANGED vars
  /\ IF me = "discovery" THEN TRUE ELSE UNCHANGED discoveryState
  /\ IF me = "analysis" THEN TRUE ELSE UNCHANGED analysisState
  /\ IF me = "pipeline" THEN TRUE ELSE UNCHANGED pipelineState
  /\ IF me = "scoring" THEN TRUE ELSE UNCHANGED scoringState
  /\ IF me = "criteria" THEN TRUE ELSE UNCHANGED criteriaState
  /\ IF me = "connectors" THEN TRUE ELSE UNCHANGED connectorsState
  /\ IF me = "robots" THEN TRUE ELSE UNCHANGED robotsState

ServicesInit ==
  /\ service \in Services
  /\ Init
  /\ Disc!Init
  /\ Anal!Init
  /\ Pipe!Init
  /\ service = "pipeline" \/ hypothesis = "none"
  /\ Scor!Init
  /\ Scor!CriteriaInit
  /\ service = "criteria" \/ ~(known.demo \/ known.b2b)
  /\ Conn!Init
  /\ service = "connectors" \/ (key = FALSE /\ site = [robots |-> "open", page |-> "text"])
  /\ Conn!RobotsInit

ServicesNext ==
  \/ service = "experiments" /\ Next /\ Rest("experiments")
  \/ service = "discovery" /\ Disc!Next /\ Rest("discovery")
  \/ service = "analysis" /\ Anal!Next /\ Rest("analysis")
  \/ service = "pipeline" /\ Pipe!Next /\ Rest("pipeline")
  \/ service = "scoring" /\ Scor!Next /\ Rest("scoring")
  \/ service = "criteria" /\ Scor!CriteriaNext /\ Rest("criteria")
  \/ service = "connectors" /\ Conn!Next /\ Rest("connectors")
  \/ service = "robots" /\ Conn!RobotsNext /\ Rest("robots")

\* Analyses and scans differ in nothing but their names.
MCSymmetry == Permutations(Worker)

ServicesSpec == ServicesInit /\ [][ServicesNext]_all

-----------------------------------------------------------------------------
(* What is said of an opportunity follows what was found and what a human  *)
(* chose.  The signals on it are those of the documents of its cluster,    *)
(* and of its evidence once a scan has found it again, unless scans have   *)
(* overlapped or died.  Analysing it again does not undo its status, nor   *)
(* the hypothesis that a human has selected for it, until an experiment    *)
(* that tested the hypothesis gives it back.                               *)
FindingsStand ==
  /\ service = "discovery" => Disc!TypeOK /\ Disc!SignalsFollowEvidence
  /\ service = "analysis" => Anal!TypeOK /\ Anal!StatusSurvivesAnalysis /\ Anal!SelectionStands

(* The chain of agent tasks that turns a hypothesis into an experiment does *)
(* not lose what it is about: a build that cannot go on is reported, no    *)
(* opportunity has two experiments open that the agents have designed -    *)
(* but for one that a late approval or a start by hand opens again - and   *)
(* an experiment that waits for a human waits for a request about it.      *)
PipelineIsSound ==
  /\ service = "experiments" => TypeOK /\ WaitsForOwnRequest
  /\ service = "pipeline" => Pipe!TypeOK /\ Pipe!BlockedBuildIsReported /\ Pipe!OneOpenExperiment

(* A value that is kept of another follows it: a score is that of the data *)
(* as they are, or were before a change of tags, which no scoring follows, *)
(* unless two computations have overlapped or one has died; and a page is  *)
(* read as its owner's rules have allowed within the time that a copy of   *)
(* them is kept.                                                           *)
CopiesFollowSources ==
  /\ service = "scoring" => Scor!TypeOK /\ Scor!LastVersionActive /\ Scor!ScoreFollowsInputs
  /\ service = "connectors" => Conn!TypeOK /\ Conn!PagesObeyRules

(* What is computed is what was meant: a score stays between those of the  *)
(* worst and of the best case, and the rules of a source are applied as    *)
(* they are written.                                                       *)
ComputedAsWritten ==
  /\ service = "criteria" => Scor!CriteriaTypeOK /\ Scor!ScoreIsInRange
  /\ service = "robots" => Conn!RobotsTypeOK /\ Conn!RulesAsWritten

(* What no step of a scan, of a rescoring, of the chain of tasks or of a   *)
(* connector does: store a claim twice for one opportunity, forget in a    *)
(* rescoring what a scan has found, let a task that a human has released   *)
(* wait for a human again, call a source again within its interval - but   *)
(* where two of them overlap.                                              *)
ResearchStepsAreSound ==
  /\ Disc!EvidenceOnce /\ Pipe!ResumedGoesOn /\ Conn!CallsKeepInterval
  /\ Scor!RescoringKeepsWhatAScanFound

(* No step raises a score for a worse finding. *)
WorseScoresNoHigher == Scor!WorseNeverScoresHigher
=============================================================================
