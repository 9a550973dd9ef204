------------------------------ MODULE Settings ------------------------------
(***************************************************************************)
(* The settings of one organisation (packages/core/src/orgs.ts): one JSON  *)
(* document that several services change.  markStep changes it in one      *)
(* statement; updateSettings reads the document, merges and writes it all, *)
(* and the callers that change an entry of a nested object read the        *)
(* document once more before that.                                         *)
(*                                                                         *)
(* An item is an entry of a nested object: a step of the onboarding, a     *)
(* constraint, an assumption of the roadmap; its value is 0 (absent, not   *)
(* done) or 1.                                                             *)
(***************************************************************************)
EXTENDS Naturals

CONSTANTS
  Step, Limit, Assumption,  \* keys of onboarding, constraints, roadmapAssumptions
  ConstraintsStep,          \* the step that PATCH /api/org marks
  Caller,                   \* concurrent requests and tasks
  MaxChanges                \* bound: changes asked for

VARIABLES
  settings,     \* organizations.settings
  asked,        \* history: what the last change asked of every item
  call,         \* the change each caller is making
  changes,
  overlapped    \* history: a write fell between another's read and write

settingsVars == <<settings, asked, call, changes, overlapped>>

Item == Step \cup Limit \cup Assumption
PartOf(i) == CHOOSE part \in {Step, Limit, Assumption} : i \in part
NoChange == [i \in {} |-> 0]
Idle == [at |-> "idle", own |-> NoChange, patch |-> NoChange,
         seen |-> [i \in Item |-> 0], marks |-> FALSE]

Init ==
  /\ settings = [i \in Item |-> 0] /\ asked = settings
  /\ call = [c \in Caller |-> Idle]
  /\ changes = 0 /\ overlapped = FALSE

Override(old, new) == [i \in DOMAIN old \cup DOMAIN new |->
                         IF i \in DOMAIN new THEN new[i] ELSE old[i]]

HasRead(c) == call[c].at = "write" \/ (call[c].at = "get" /\ call[c].patch # NoChange)

(* A write takes effect; callers that have read before it work on old data. *)
Writes(c, new, own) ==
  /\ settings' = new
  /\ asked' = Override(asked, own)
  /\ overlapped' = (overlapped \/ \E d \in Caller \ {c} : HasRead(d))

Asks(c, at, own, marks) ==
  /\ call[c] = Idle /\ changes < MaxChanges
  /\ changes' = changes + 1
  /\ call' = [call EXCEPT ![c] = [Idle EXCEPT !.at = at, !.own = own, !.marks = marks]]
  /\ UNCHANGED <<settings, asked, overlapped>>

-----------------------------------------------------------------------------
(* PATCH /api/org saves constraints and marks a step after that. *)
PatchOrg(c) ==
  \E keys \in (SUBSET Limit) \ {{}}, value \in 0..1 :
    Asks(c, "get", [i \in keys |-> value], TRUE)

(* markOnboarding, by a request or a scan; a request may take a step back. *)
MarkOnboarding(c, step, done) == Asks(c, "read", [i \in {step} |-> done], FALSE)

SaveRoadmapAssumptions(c) ==
  \E keys \in (SUBSET Assumption) \ {{}}, value \in 0..1 :
    Asks(c, "read", [i \in keys |-> value], FALSE)

(* markStep: one statement, which does nothing when the step is done. *)
MarkStep(c, step) ==
  /\ call[c] = Idle /\ changes < MaxChanges /\ settings[step] = 0
  /\ changes' = changes + 1
  /\ Writes(c, [settings EXCEPT ![step] = 1], [i \in {step} |-> 1])
  /\ UNCHANGED call

(* The nested object as the caller read it, with its change. *)
ReadFirst(c) ==
  /\ call[c].at = "read"
  /\ LET own == call[c].own
         part == PartOf(CHOOSE i \in DOMAIN own : TRUE)
     IN call' = [call EXCEPT ![c].patch = Override([i \in part |-> settings[i]], own),
                             ![c].at = "get"]
  /\ UNCHANGED <<settings, asked, changes, overlapped>>

(* updateSettings reads the document... *)
Get(c) ==
  /\ call[c].at = "get"
  /\ call' = [call EXCEPT ![c].seen = settings, ![c].at = "write"]
  /\ UNCHANGED <<settings, asked, changes, overlapped>>

(* A variant that replaces the nested constraints as it does the rest. *)
MergedFlat(seen, patch) ==
  Override([i \in Item |-> IF \E j \in DOMAIN patch : PartOf(j) = PartOf(i)
                           THEN 0 ELSE seen[i]], patch)

Merged(seen, patch) == Override(seen, patch)

(* ...and writes it back, merged.  PATCH goes on with its step. *)
Write(c) ==
  /\ call[c].at = "write"
  /\ LET own == call[c].own
         patch == IF call[c].patch = NoChange THEN own ELSE call[c].patch
     IN Writes(c, Merged(call[c].seen, patch), own)
  /\ call' = [call EXCEPT ![c] =
                IF call[c].marks
                THEN [Idle EXCEPT !.at = "read", !.own = [i \in {ConstraintsStep} |-> 1]]
                ELSE Idle]
  /\ UNCHANGED changes

(* A crash or an error of the database. *)
Dies(c) ==
  /\ call[c] # Idle
  /\ call' = [call EXCEPT ![c] = Idle]
  /\ UNCHANGED <<settings, asked, changes, overlapped>>

Next ==
  \E c \in Caller :
    \/ PatchOrg(c)
    \/ \E step \in Step, done \in 0..1 : MarkOnboarding(c, step, done)
    \/ SaveRoadmapAssumptions(c)
    \/ \E step \in Step : MarkStep(c, step)
    \/ ReadFirst(c)
    \/ Get(c)
    \/ Write(c)
    \/ Dies(c)

Spec == Init /\ [][Next]_settingsVars

-----------------------------------------------------------------------------
(* The document, the history and every caller's place have their types. *)
TypeOK ==
  /\ settings \in [Item -> 0..1] /\ asked \in [Item -> 0..1]
  /\ \A c \in Caller : /\ call[c].at \in {"idle", "read", "get", "write"}
                       /\ DOMAIN call[c].own \subseteq Item
                       /\ call[c].seen \in [Item -> 0..1]
  /\ changes \in 0..MaxChanges
  /\ overlapped \in BOOLEAN

(* As long as nobody writes between another's read and write, every item    *)
(* has the value the last change of it asked for: a change of one entry     *)
(* does not lose its neighbours, through up to three reads and two writes   *)
(* of one request, deaths included.  (When writes do overlap, changes are   *)
(* lost: nothing of orgs.ts:45-59 locks the row.)                           *)
ChangesStand == overlapped \/ settings = asked
=============================================================================
