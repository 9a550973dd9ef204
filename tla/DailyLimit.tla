----------------------------- MODULE DailyLimit -----------------------------
(***************************************************************************)
(* The daily limit of an autonomous action (PolicyEngine.evaluate and      *)
(* recordAutonomous in packages/core/src/policy.ts, as used for campaigns  *)
(* and spending): the audit entries of the last day are counted, and the   *)
(* entry of this one is written by a later statement.                      *)
(***************************************************************************)
EXTENDS Integers

CONSTANTS
  Act,            \* overlapping actions
  MaxPerDay, MaxAmount,
  Amounts,        \* what actions ask for
  MaxDone         \* bound of the model: actions

VARIABLES
  entries,        \* audit entries of the last day
  decided,        \* [Act -> {"none", "allow"}]: what evaluate answered, not yet recorded
  done            \* history: actions carried out without a human

limitVars == <<entries, decided, done>>

TypeOK ==
  /\ entries \in Nat /\ done \in Nat
  /\ decided \in [Act -> {"none", "allow"}]

Init == entries = 0 /\ decided = [a \in Act |-> "none"] /\ done = 0

\* Mutant: the action that reaches the limit is let through as well.
AllowedToo(amount) == amount <= MaxAmount /\ entries <= MaxPerDay

Allowed(amount) == amount <= MaxAmount /\ entries < MaxPerDay

Evaluate(a, amount) ==
  /\ decided[a] = "none" /\ done < MaxDone
  /\ Allowed(amount)
  /\ decided' = [decided EXCEPT ![a] = "allow"]
  /\ UNCHANGED <<entries, done>>

RecordAutonomous(a) ==
  /\ decided[a] = "allow"
  /\ decided' = [decided EXCEPT ![a] = "none"]
  /\ entries' = entries + 1 /\ done' = done + 1

\* The entry is written before the action: one that dies in between counts
\* nothing and does nothing.
Dies(a) ==
  /\ decided[a] = "allow"
  /\ decided' = [decided EXCEPT ![a] = "none"]
  /\ UNCHANGED <<entries, done>>

\* The window moves on.
DayPasses == entries > 0 /\ entries' = 0 /\ UNCHANGED <<decided, done>>

Next == \/ \E a \in Act : \/ \E amount \in Amounts : Evaluate(a, amount)
                          \/ RecordAutonomous(a) \/ Dies(a)
        \/ DayPasses

Spec == Init /\ [][Next]_limitVars

Day == INSTANCE Allowance WITH
         Asker <- Act, Limit <- MaxPerDay, Estimate <- 1, Largest <- 1,
         counted <- entries, admitted <- {a \in Act : decided[a] = "allow"}

\* The daily limit keeps the promise of Allowance: each action is admitted by
\* a count that left room for it, and counts itself.
KeepsDailyLimit == Day!Spec
=============================================================================
