------------------------------ MODULE Policies ------------------------------
(***************************************************************************)
(* How the mode of an action changes: requestPolicyChange and the executor *)
(* of security.policy_change (packages/core/src/core.ts), isRelaxation and *)
(* apply (packages/core/src/policy.ts).                                    *)
(*                                                                         *)
(* A change is compared with the policy in force and then either applied   *)
(* at once or put to a human; both the UPSERT and the executor write the   *)
(* mode they were asked for, whatever is in force by then.                 *)
(*                                                                         *)
(* Of the two limits one is modelled, as they are treated alike; a limit   *)
(* matters only when the mode is AUTONOMOUS.  The approval centre is taken *)
(* by its promise (HumanDecision).                                         *)
(***************************************************************************)
EXTENDS Naturals

CONSTANTS
  Action,        \* keys of the catalogue
  Default,       \* [Action -> Mode]: ACTIONS[action].defaultMode
  Ceiling,       \* [Action -> Mode]: ACTIONS[action].maxMode
  Changer,       \* concurrent calls of requestPolicyChange
  Approval,      \* ids of the requests for security.policy_change
  MaxLimit,      \* bound of the model: largest limit; MaxLimit + 1 is none
  NoAction

\* ACTION_MODE_RANK.
Rank == [READ_ONLY |-> 0, SIMULATE |-> 1, REQUIRE_APPROVAL |-> 2, AUTONOMOUS |-> 3]
Mode == {"READ_ONLY", "SIMULATE", "REQUIRE_APPROVAL", "AUTONOMOUS"}
Limit == 0..(MaxLimit + 1)
Unlimited == MaxLimit + 1

ASSUME PoliciesAssumption ==
  /\ Default \in [Action -> Mode] /\ Ceiling \in [Action -> Mode]
  /\ \A x \in Action : Rank[Default[x]] <= Rank[Ceiling[x]]
  /\ MaxLimit \in Nat /\ NoAction \notin Action

VARIABLES
  mode,        \* [Action -> Mode]: policies.mode, the default without a row
  limit,       \* [Action -> Limit]: policies.limits
  phase,       \* [Changer -> {"idle", "applying", "asking"}]
  wanted,      \* [Changer -> Change]: the arguments of the call
  payload,     \* [Approval -> Change]: what a request would change
  verdict, effects   \* of HumanDecision

policyVars == <<mode, limit>>
callVars == <<phase, wanted>>
humanVars == <<payload, verdict, effects>>
vars == <<policyVars, callVars, humanVars>>

Human == INSTANCE HumanDecision

Change == [action : Action \cup {NoAction}, mode : Mode, limit : Limit]
NoChange == [action |-> NoAction, mode |-> "READ_ONLY", limit |-> 0]

TypeOK ==
  /\ mode \in [Action -> Mode]
  /\ limit \in [Action -> Limit]
  /\ phase \in [Changer -> {"idle", "applying", "asking"}]
  /\ wanted \in [Changer -> Change]
  /\ payload \in [Approval -> Change]
  /\ verdict \in [Approval -> Human!Verdict] /\ effects \in [Approval -> 0..1]

Init ==
  /\ mode = Default
  /\ limit = [x \in Action |-> Unlimited]
  /\ phase = [c \in Changer |-> "idle"]
  /\ wanted = [c \in Changer |-> NoChange]
  /\ payload = [a \in Approval |-> NoChange]
  /\ Human!Init

-----------------------------------------------------------------------------

\* Mutant: limits are not compared.
IsRelaxationOfMode(x, m, l) == Rank[m] > Rank[mode[x]]

IsRelaxation(x, m, l) ==
  \/ Rank[m] > Rank[mode[x]]
  \/ m = "AUTONOMOUS" /\ mode[x] = "AUTONOMOUS" /\ l > limit[x]

\* The hard ceiling, which both entry points check.
Allowed(x, m) == Rank[m] <= Rank[Ceiling[x]]

CallOver(c) ==
  /\ phase' = [phase EXCEPT ![c] = "idle"]
  /\ wanted' = [wanted EXCEPT ![c] = NoChange]

RequestChange(c, x, m, l) ==
  /\ phase[c] = "idle"
  /\ Allowed(x, m)
  /\ phase' = [phase EXCEPT ![c] = IF IsRelaxation(x, m, l) THEN "asking" ELSE "applying"]
  /\ wanted' = [wanted EXCEPT ![c] = [action |-> x, mode |-> m, limit |-> l]]
  /\ UNCHANGED <<policyVars, humanVars>>

Apply(change) ==
  /\ Allowed(change.action, change.mode)
  /\ mode' = [mode EXCEPT ![change.action] = change.mode]
  /\ limit' = [limit EXCEPT ![change.action] = change.limit]

ApplyAtOnce(c) ==
  /\ phase[c] = "applying"
  /\ Apply(wanted[c])
  /\ CallOver(c)
  /\ UNCHANGED humanVars

\* The request is answered with a new row, or with an undecided one that
\* asks for the same.
AskApproval(c, a) ==
  /\ phase[c] = "asking"
  /\ \/ payload[a] = NoChange
     \/ payload[a] = wanted[c] /\ verdict[a] = "none"
  /\ payload' = [payload EXCEPT ![a] = wanted[c]]
  /\ CallOver(c)
  /\ UNCHANGED <<policyVars, verdict, effects>>

CallDies(c) ==
  /\ phase[c] # "idle"
  /\ CallOver(c)
  /\ UNCHANGED <<policyVars, humanVars>>

Decide(a, v) ==
  /\ payload[a] # NoChange
  /\ Human!Rule(a, v)
  /\ UNCHANGED <<payload, policyVars, callVars>>

\* Mutant: the executor runs again for a request that it has carried out.
ExecuteAgain(a) ==
  /\ payload[a] # NoChange /\ verdict[a] = "approved"
  /\ effects' = [effects EXCEPT ![a] = @ + 1]
  /\ Apply(payload[a])
  /\ UNCHANGED <<payload, verdict, callVars>>

Execute(a) ==
  /\ payload[a] # NoChange
  /\ Human!Perform(a)
  /\ Apply(payload[a])
  /\ UNCHANGED <<payload, callVars>>

-----------------------------------------------------------------------------

Next ==
  \/ \E c \in Changer : \/ \E x \in Action, m \in Mode, l \in Limit : RequestChange(c, x, m, l)
                        \/ ApplyAtOnce(c)
                        \/ \E a \in Approval : AskApproval(c, a)
                        \/ CallDies(c)
  \/ \E a \in Approval : Execute(a) \/ \E v \in Human!Verdict : Decide(a, v)

Spec == Init /\ [][Next]_vars

-----------------------------------------------------------------------------
(* Properties *)

\* The policy (m, l) leaves the action no freer than (freeMode, freeLimit)
\* does; a limit binds only an AUTONOMOUS action.
NoFreer(m, l, freeMode, freeLimit) ==
  /\ Rank[m] <= Rank[freeMode]
  /\ m = "AUTONOMOUS" => l <= freeLimit

\* The policy (m, l) is covered by the default, or by what a human approved.
Covered(x, m, l) ==
  \/ NoFreer(m, l, Default[x], Unlimited)
  \/ \E a \in Approval : /\ payload[a].action = x /\ verdict[a] = "approved"
                        /\ NoFreer(m, l, payload[a].mode, payload[a].limit)

\* "The ceilings can't be raised", and no action is ever freer, in its mode
\* or in its limit, than its default or a change that a human has approved
\* for it: not by any sequence of tightenings and relaxations, overlapping
\* calls, or changes carried out long after they were asked for.
NeverBeyondApproved ==
  \A x \in Action : /\ Rank[mode[x]] <= Rank[Ceiling[x]]
                    /\ Covered(x, mode[x], limit[x])

\* "Relaxing a policy is itself a security.policy_change and needs approval":
\* a mode becomes freer only when an approved request is carried out.
RelaxationNeedsApproval ==
  [][\A x \in Action :
       Rank[mode'[x]] > Rank[mode[x]] =>
         \E a \in Approval : effects'[a] > effects[a] /\ payload[a].action = x]_vars
=============================================================================
