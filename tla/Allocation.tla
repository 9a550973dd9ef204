------------------------------ MODULE Allocation ------------------------------
(***************************************************************************)
(* allocateBudget (packages/analytics/src/portfolio.ts): a budget is split *)
(* by how often each candidate won the simulated draws, above a floor for  *)
(* exploration and below a cap on concentration, whose excess goes to the  *)
(* others in proportion, round by round.                                   *)
(*                                                                         *)
(* The simulation is abstracted to its result, the wins.  Shares are exact *)
(* fractions of a common denominator, where the code computes in floating  *)
(* point and takes an excess of 1e-9 for none.                             *)
(***************************************************************************)
EXTENDS Naturals, FiniteSetsExt

CONSTANTS
  Candidate,
  Draws,          \* opts.draws
  Percents,       \* values of opts.explorationFloor and opts.maxShare, in percent
  Budget,         \* opts.budgetUsd
  Tickets,        \* values of opts.minPerOpportunityUsd
  MaxRounds       \* rounds of the loop: 10

VARIABLES
  wins, floor, cap, ticket,   \* what it is given
  share, whole,   \* the shares, as numerators, and their denominator
  round, step,    \* the loop's counter, and "cap", "amount", "done"
  amount, notes   \* the result

shareVars == <<wins, floor, cap, ticket, share, whole, round, step, amount, notes>>

Sum(f, S) == MapThenSumSet(LAMBDA c : f[c], S)
K == Cardinality(Candidate)

Gcd[a, b \in Nat] == IF b = 0 THEN a ELSE Gcd[b, a % b]
GcdOf(f, n) == FoldSet(LAMBDA c, g : Gcd[f[c], g], n, Candidate)

(* Parts, and what they are parts of, are counted by their greatest common *)
(* divisor; any common divisor would do.                                   *)
Divides(g, n) == g \in Nat \ {0} /\ g * (n \div g) = n
Unit(f, n) ==
  LET g == GcdOf(f, n)
  IN IF Divides(g, n) /\ \A c \in Candidate : Divides(g, f[c]) THEN g ELSE 1

(* floor / k + (1 - floor) * wins / draws; the cap is a whole number of    *)
(* parts too.                                                              *)
FirstShare(c) == floor * Draws + (100 - floor) * K * wins[c]
FirstWhole == 100 * K * Draws

Init ==
  /\ wins \in {w \in [Candidate -> 0 .. Draws] : Sum(w, Candidate) = Draws}
  /\ floor \in Percents /\ cap \in Percents \ {0} /\ ticket \in Tickets
  /\ share = [c \in Candidate |-> FirstShare(c)] /\ whole = FirstWhole
  /\ round = 0 /\ step = "cap"
  /\ amount = [c \in Candidate |-> 0] /\ notes = {}

-----------------------------------------------------------------------------
(* cap / 100 of the whole, compared without dividing. *)
Over(c) == 100 * share[c] > cap * whole
AtCap(c) == 100 * share[c] >= cap * whole
Under == {c \in Candidate : ~AtCap(c)}
UnderTotal == Sum(share, Under)

(* In hundredths of the parts. *)
Excess == MapThenSumSet(LAMBDA c : 100 * share[c] - cap * whole, {c \in Candidate : Over(c)})

(* A variant that spreads the excess evenly. *)
RaisedEvenly(c) == UnderTotal * (100 * share[c] + Excess \div Cardinality(Under))

(* A share below the cap, in the new parts: 100 * UnderTotal of the old.   *)
Raised(c) == share[c] * (100 * UnderTotal + Excess)

NextShare(c) ==
  IF UnderTotal = 0 THEN (IF AtCap(c) THEN cap * whole ELSE 100 * share[c])
  ELSE IF AtCap(c) THEN cap * whole * UnderTotal ELSE Raised(c)
NextWhole == 100 * whole * (IF UnderTotal = 0 THEN 1 ELSE UnderTotal)

Settled == Excess = 0

(* One round of the loop, in lowest terms. *)
CapRound ==
  /\ step = "cap" /\ round < MaxRounds /\ ~Settled
  /\ LET next == [c \in Candidate |-> NextShare(c)]
         g == Unit(next, NextWhole)
     IN /\ share' = [c \in Candidate |-> next[c] \div g]
        /\ whole' = NextWhole \div g
  /\ round' = round + 1
  /\ UNCHANGED <<wins, floor, cap, ticket, step, amount, notes>>

CapEnds ==
  /\ step = "cap" /\ (round = MaxRounds \/ Settled)
  /\ step' = "amount"
  /\ notes' = IF Under = {} /\ cap * K < 100 THEN {"capped"} ELSE {}
  /\ UNCHANGED <<wins, floor, cap, ticket, share, whole, round, amount>>

(* Whole dollars, and nothing below the minimum ticket. *)
AmountOf(c) ==
  LET a == (share[c] * Budget) \div whole IN IF a < ticket THEN 0 ELSE a

Amounts ==
  /\ step = "amount"
  /\ amount' = [c \in Candidate |-> AmountOf(c)]
  /\ notes' = notes \cup (IF ticket > 0 /\ \E c \in Candidate : AmountOf(c) = 0
                            THEN {"dropped"} ELSE {})
  /\ step' = "done"
  /\ UNCHANGED <<wins, floor, cap, ticket, share, whole, round>>

Next == CapRound \/ CapEnds \/ Amounts

Spec == Init /\ [][Next]_shareVars

-----------------------------------------------------------------------------
TypeOK ==
  /\ {wins, share, amount} \subseteq [Candidate -> Nat]
  /\ whole \in Nat \ {0} /\ round \in 0 .. MaxRounds
  /\ step \in {"cap", "amount", "done"} /\ notes \subseteq {"capped", "dropped"}

(* No round hands out more than the budget or loses any of it while a      *)
(* candidate is below the cap and has a share; in the end no candidate is  *)
(* above the cap, one that won more draws gets no less, those below the    *)
(* cap keep their proportions, and what no candidate may take is said to   *)
(* be left over.                                                           *)
BudgetIsSplit ==
  /\ Sum(share, Candidate) <= whole
  /\ (floor > 0 /\ Under # {}) => Sum(share, Candidate) = whole
  /\ step = "done" =>
       /\ Sum(amount, Candidate) <= Budget
       /\ \A c, d \in Candidate :
            /\ 100 * amount[c] <= cap * Budget
            /\ wins[c] >= wins[d] => amount[c] >= amount[d]
            /\ (c \in Under /\ d \in Under) => share[c] * FirstShare(d) = share[d] * FirstShare(c)
       /\ (floor > 0 /\ Sum(share, Candidate) < whole) => "capped" \in notes
=============================================================================
