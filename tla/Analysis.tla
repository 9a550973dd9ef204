------------------------------ MODULE Analysis ------------------------------
(***************************************************************************)
(* The analysis of one opportunity (packages/core/src/analysis.ts): it     *)
(* marks the opportunity as being analysed, works for minutes, replaces    *)
(* the proposed hypotheses in a transaction and gives the opportunity its  *)
(* status.  Meanwhile hypotheses are selected (by people, by FinanceAgent  *)
(* and ProductAgent), experiments write the status of the hypothesis they  *)
(* test, and other services set that of the opportunity without looking.   *)
(***************************************************************************)
EXTENDS Naturals, FiniteSets

CONSTANTS
  Worker,          \* analyses at work
  Hyp,             \* ids of business_hypotheses, numbers, as ids grow; a bound of the model
  Tested,          \* hypotheses that experiments are about; a bound of the model
  DraftCounts,     \* how many drafts an analysis may make; 2..4 in the code
  Chooser,         \* calls of selectHypothesis
  NoHyp

VARIABLES
  oppStatus,       \* opportunities.status
  hyps,            \* [Hyp -> status, or "unborn", or "gone"]
  picked,          \* opportunities.selected_hypothesis_id
  work,            \* [Worker -> where it is, and the status it read first]
  choice,          \* [Chooser -> where it is, and the hypothesis]
  settled,         \* history: the status set last, other than by an analysis; unknown if
                   \* since then an analysis died, or met another one or that change
  standing         \* history: sure; returned, if an experiment has given the hypothesis
                   \* picked back; unsure, if a selection died, met another or came too late

row == <<oppStatus, hyps, picked>>
history == <<settled, standing>>
analysisVars == <<row, work, choice, history>>

\* What the other services set: launched, experimenting, scaling, killed ...
Later == "later"
Unknown == "unknown"
OppStatus == {"discovered", "analyzing", "analyzed", "validated", Later}
Settled == (OppStatus \ {"analyzing"}) \cup {Unknown}
HypStatus == {"unborn", "proposed", "selected", "tried", "gone"}
There == {"proposed", "selected", "tried"}
IdleWork == [at |-> "idle", before |-> "discovered"]
IdleChoice == [at |-> "idle", hyp |-> NoHyp]

TypeOK ==
  /\ oppStatus \in OppStatus /\ settled \in Settled
  /\ hyps \in [Hyp -> HypStatus]
  /\ picked \in Hyp \cup {NoHyp}
  /\ work \in [Worker -> [at : {"idle", "read", "working", "replaced", "completed"}, before : OppStatus]]
  /\ choice \in [Chooser -> [at : {"idle", "chosen", "marked"}, hyp : Hyp \cup {NoHyp}]]
  /\ standing \in {"sure", "returned", "unsure"}

Init ==
  /\ oppStatus = "discovered" /\ settled = "discovered" /\ picked = NoHyp
  /\ hyps = [h \in Hyp |-> "unborn"]
  /\ work = [w \in Worker |-> IdleWork] /\ choice = [c \in Chooser |-> IdleChoice]
  /\ standing = "sure"

Analysing == \E w \in Worker : work[w].at # "idle"
Goto(w, p) == work' = [work EXCEPT ![w].at = p]

-----------------------------------------------------------------------------
(* analyze *)

Begin(w) ==
  /\ work[w].at = "idle"
  /\ work' = [work EXCEPT ![w] = [at |-> "read", before |-> oppStatus]]
  /\ settled' = IF Analysing THEN Unknown ELSE settled
  /\ UNCHANGED <<row, choice, standing>>

Mark(w) ==
  /\ work[w].at = "read" /\ Goto(w, "working")
  /\ oppStatus' = "analyzing"
  /\ UNCHANGED <<hyps, picked, choice, history>>

\* heuristicHypotheses makes three drafts, a model two to four; what they say
\* is left out.  They take the next ids.
Unborn == {h \in Hyp : hyps[h] = "unborn"}
Drafts == {D \in SUBSET Unborn : /\ Cardinality(D) \in DraftCounts
                                 /\ \A d \in D, h \in Unborn \ D : d < h}

\* insertHypothesis: a row of its own for each draft.
Inserted(D, h) == IF h \in D THEN "proposed" ELSE hyps[h]

\* Evidence, estimates, the web search and the model come before; then a
\* transaction replaces the proposed hypotheses.
Replace(w) ==
  /\ work[w].at = "working" /\ Goto(w, "replaced")
  /\ \E D \in Drafts :
       hyps' = [h \in Hyp |-> IF hyps[h] = "proposed" THEN "gone" ELSE Inserted(D, h)]
  /\ UNCHANGED <<oppStatus, picked, choice, history>>

Complete(w) ==
  /\ work[w].at = "replaced" /\ Goto(w, "completed")
  /\ oppStatus' = IF work[w].before \in {"discovered", "analyzing"} THEN "analyzed" ELSE work[w].before
  /\ UNCHANGED <<hyps, picked, choice, history>>

\* Score, graph, event and onboarding step.
Finish(w) ==
  /\ work[w].at = "completed" /\ work' = [work EXCEPT ![w] = IdleWork]
  /\ UNCHANGED <<row, choice, history>>

\* Anything after the mark may throw, and the catch block takes the mark back.
Restore(w) ==
  /\ work[w].at \in {"working", "replaced", "completed"}
  /\ oppStatus' = work[w].before
  /\ work' = [work EXCEPT ![w] = IdleWork]
  /\ UNCHANGED <<hyps, picked, choice, history>>

\* The process ends, or the statement in the catch block fails too.
Die(w) ==
  /\ work[w].at # "idle" /\ work' = [work EXCEPT ![w] = IdleWork]
  /\ settled' = Unknown
  /\ UNCHANGED <<row, choice, standing>>

-----------------------------------------------------------------------------
(* selectHypothesis, from a list of hypotheses that was read before *)

Alone(c) == \A d \in Chooser \ {c} : choice[d].at = "idle"

Choose(c, h) ==
  /\ choice[c].at = "idle" /\ hyps[h] \in There
  /\ choice' = [choice EXCEPT ![c] = [at |-> "chosen", hyp |-> h]]
  /\ standing' = IF Alone(c) THEN standing ELSE "unsure"
  /\ UNCHANGED <<row, work, settled>>

MarkHypothesis(c) ==
  LET h == choice[c].hyp
  IN /\ choice[c].at = "chosen"
     /\ hyps' = [g \in Hyp |-> IF g = h /\ hyps[g] # "gone" THEN "selected"
                               ELSE IF hyps[g] = "selected" THEN "proposed" ELSE hyps[g]]
     /\ standing' = IF Alone(c) /\ hyps[h] # "gone" THEN "sure" ELSE "unsure"
     /\ choice' = [choice EXCEPT ![c].at = "marked"]
     /\ UNCHANGED <<oppStatus, picked, work, settled>>

SetBy(s) == oppStatus' = s /\ settled' = IF Analysing THEN Unknown ELSE s

MarkOpportunity(c) ==
  /\ choice[c].at = "marked"
  /\ picked' = choice[c].hyp /\ SetBy("validated")
  /\ choice' = [choice EXCEPT ![c] = IdleChoice]
  /\ UNCHANGED <<hyps, work, standing>>

ChooserDies(c) ==
  /\ choice[c].at = "marked"
  /\ choice' = [choice EXCEPT ![c] = IdleChoice] /\ standing' = "unsure"
  /\ UNCHANGED <<row, work, settled>>

\* update by an operator, by experiments or by a deployment.
SetStatus == SetBy(Later) /\ UNCHANGED <<hyps, picked, work, choice, standing>>

-----------------------------------------------------------------------------
(* Experiments, which name a hypothesis by its id *)

\* markRunning: testing; applyDecision: validated or invalidated.
Try(h) ==
  /\ hyps[h] \in There /\ hyps' = [hyps EXCEPT ![h] = "tried"]
  /\ UNCHANGED <<oppStatus, picked, work, choice, history>>

Concerns(h) ==
  picked = h \/ \E c \in Chooser : choice[c].at = "marked" /\ choice[c].hyp = h

\* applyDecision, to iterate: proposed again.
GiveBack(h) ==
  /\ hyps[h] \in There /\ hyps' = [hyps EXCEPT ![h] = "proposed"]
  /\ standing' = IF standing = "sure" /\ Concerns(h) THEN "returned" ELSE standing
  /\ UNCHANGED <<oppStatus, picked, work, choice, settled>>

Next ==
  \/ \E w \in Worker :
       \/ Begin(w) \/ Mark(w) \/ Replace(w) \/ Complete(w) \/ Finish(w) \/ Restore(w) \/ Die(w)
  \/ \E c \in Chooser :
       \/ MarkHypothesis(c) \/ MarkOpportunity(c) \/ ChooserDies(c)
       \/ \E h \in Hyp : Choose(c, h)
  \/ SetStatus
  \/ \E h \in Tested : Try(h) \/ GiveBack(h)

Spec == Init /\ [][Next]_analysisVars

\* An analysis gives the opportunity back: whether it succeeds or fails, the
\* opportunity has the status it was given last, or is analysed now, and is
\* not left "analyzing" - unless since then an analysis died, or met another
\* one or a change of the status.
StatusSurvivesAnalysis ==
  settled # Unknown /\ ~Analysing =>
    oppStatus = settled \/ (settled = "discovered" /\ oppStatus = "analyzed")

\* No hypothesis but p is selected, and p is still there, selected or tried.
Stands(p) ==
  /\ \A h \in Hyp : hyps[h] = "selected" => p = h
  /\ p # NoHyp /\ standing = "sure" => hyps[p] \in {"selected", "tried"}

\* The hypothesis that the opportunity names is there and no other one is
\* selected, however analyses replace the rest - if it was selected as a
\* whole, with no other selection at work, while it was there, and as long as
\* no experiment gives it back: then the next analysis takes it away.
SelectionStands ==
  standing # "unsure" /\ (\A c \in Chooser : choice[c].at # "marked") => Stands(picked)
=============================================================================
