----------------------------- MODULE LiveProofs -----------------------------
(***************************************************************************)
(* What MCLive checks on small instances holds for any number of           *)
(* providers, askers, clients, events and hits, and for all budgets,       *)
(* limits and bounds: that evaluations happen once and on grounds, what    *)
(* the budgets allow, what a page shows and what a stream delivers.  Each  *)
(* service has an inductive invariant of its own, and at the end a step of *)
(* all of them is shown to be a step of one of them.                       *)
(***************************************************************************)
EXTENDS MCLive, Sequences, FiniteSetTheorems, WellFoundedInduction, TLAPS

-----------------------------------------------------------------------------
(***************************************************************************)
(* Allowances.  That the limit is overrun by what all askers may count at  *)
(* once is not inductive as it stands: one that is admitted may still      *)
(* count, so that what all of those may count has to be within the bound   *)
(* already.                                                                *)
(***************************************************************************)
RoomFor(limit, estimate) == IF estimate <= limit THEN limit - estimate ELSE 0

SetAside(n, S, A, limit, estimate, largest) ==
  n + Cardinality(S) * largest <= RoomFor(limit, estimate) + Cardinality(A) * largest

\* A product grows with its factor.
LEMMA ProductGrows ==
  ASSUME NEW m \in Nat, NEW n \in Nat, NEW k \in Nat, m <= n
  PROVE  /\ m * k \in Nat /\ n * k \in Nat
         /\ m * k <= n * k
         /\ (m + 1) * k = m * k + k
<1>1. PICK d \in Nat : n = m + d
  BY SMT
<1>2. n * k = m * k + d * k
  BY <1>1, SMT
<1>3. d * k \in Nat /\ m * k \in Nat
  BY SMT
<1> QED
  BY <1>2, <1>3, SMT

\* The cardinalities of the sets of askers are numbers, and no set of them has
\* more elements than all.
LEMMA AskersAreFinite ==
  ASSUME NEW A, IsFiniteSet(A), NEW S \in SUBSET A
  PROVE  /\ IsFiniteSet(S)
         /\ Cardinality(S) \in Nat /\ Cardinality(A) \in Nat
         /\ Cardinality(S) <= Cardinality(A)
BY FS_Subset, FS_CardinalityType

\* Whoever is admitted is admitted when there is room, and counts at most what
\* has been set aside for it: n is counted and those in S are admitted, then m
\* and those in T.
LEMMA AllowanceStep ==
  ASSUME NEW A, IsFiniteSet(A), NEW limit \in Nat, NEW estimate \in Nat, NEW largest \in Nat,
         NEW n \in Nat, NEW S \in SUBSET A, NEW m, NEW T,
         SetAside(n, S, A, limit, estimate, largest),
         \/ \E a \in A : a \notin S /\ n + estimate <= limit /\ T = S \cup {a} /\ m = n
         \/ \E a \in A : \E amount \in 0..largest : a \in S /\ T = S \ {a} /\ m = n + amount
         \/ m = 0 /\ T = S
         \/ m = n /\ T = S
  PROVE  SetAside(m, T, A, limit, estimate, largest)
<1> DEFINE all_ == Cardinality(A) * largest
           room == RoomFor(limit, estimate)
<1>1. Cardinality(A) \in Nat /\ all_ \in Nat /\ room \in Nat
  BY AskersAreFinite, ProductGrows, SMT DEF RoomFor
<1>2. Cardinality(S) \in Nat /\ Cardinality(S) <= Cardinality(A) /\ IsFiniteSet(S)
  BY AskersAreFinite
<1>3. Cardinality(S) * largest \in Nat /\ Cardinality(S) * largest <= all_
  BY <1>1, <1>2, ProductGrows
<1>4. n + Cardinality(S) * largest <= room + all_
  BY DEF SetAside
<1>5. ASSUME NEW a \in A, n + estimate <= limit, T = S \cup {a}, m = n
      PROVE  m + Cardinality(T) * largest <= room + all_
  <2>1. m \in Nat /\ m <= room
    BY <1>5, SMT DEF RoomFor
  <2>2. Cardinality(T) \in Nat /\ Cardinality(T) <= Cardinality(A)
    <3>1. T \in SUBSET A
      BY <1>5
    <3> QED
      BY <3>1, AskersAreFinite
  <2>3. Cardinality(T) * largest <= all_ /\ Cardinality(T) * largest \in Nat
    BY <1>1, <2>2, ProductGrows
  <2> QED
    BY <1>1, <2>1, <2>3, SMT
<1>6. ASSUME NEW a \in A, NEW amount \in 0..largest, a \in S, T = S \ {a}, m = n + amount
      PROVE  m + Cardinality(T) * largest <= room + all_
  <2>1. Cardinality(T) = Cardinality(S) - 1 /\ Cardinality(T) \in Nat
    <3>1. T \in SUBSET A
      BY <1>6
    <3>2. Cardinality(S \ {a}) = Cardinality(S) - 1
      BY <1>2, <1>6, FS_RemoveElement
    <3> QED
      BY <3>1, <3>2, <1>6, AskersAreFinite
  <2>2. Cardinality(S) = Cardinality(T) + 1
    BY <1>2, <2>1, SMT
  <2>3. Cardinality(S) * largest = Cardinality(T) * largest + largest
        /\ Cardinality(T) * largest \in Nat
    BY <2>1, <2>2, ProductGrows
  <2> QED
    BY <1>1, <1>4, <1>6, <2>3, SMT
<1>7. m \in {0, n} /\ T = S => m + Cardinality(T) * largest <= room + all_
  BY <1>1, <1>3, <1>4, SMT
<1> QED
  BY <1>5, <1>6, <1>7 DEF SetAside

\* At first nobody is admitted and nothing is counted.
LEMMA AllowanceStarts ==
  ASSUME NEW A, IsFiniteSet(A), NEW limit \in Nat, NEW estimate \in Nat, NEW largest \in Nat
  PROVE  SetAside(0, {}, A, limit, estimate, largest)
<1>1. Cardinality({}) = 0 /\ Cardinality(A) \in Nat
  BY FS_EmptySet, AskersAreFinite
<1>2. Cardinality(A) * largest \in Nat
  BY <1>1, ProductGrows
<1>3. RoomFor(limit, estimate) \in Nat
  BY SMT DEF RoomFor
<1>4. 0 + Cardinality({}) * largest = 0
  BY <1>1, SMT
<1> QED
  BY <1>2, <1>3, <1>4, SMT DEF SetAside

\* What is counted is no more than what is set aside.
LEMMA AllowanceBounds ==
  ASSUME NEW A, IsFiniteSet(A), NEW limit \in Nat, NEW estimate \in Nat, NEW largest \in Nat,
         NEW n \in Nat, NEW S \in SUBSET A, SetAside(n, S, A, limit, estimate, largest)
  PROVE  n <= RoomFor(limit, estimate) + Cardinality(A) * largest
<1>1. Cardinality(S) * largest \in Nat /\ Cardinality(A) * largest \in Nat
  BY AskersAreFinite, ProductGrows
<1>2. RoomFor(limit, estimate) \in Nat
  BY SMT DEF RoomFor
<1> QED
  BY <1>1, <1>2, SMT DEF SetAside

-----------------------------------------------------------------------------
(***************************************************************************)
(* Budgets.  Whoever is admitted, or has an answer, was admitted when its  *)
(* own budget and that of the day had room for it; the requests of a call  *)
(* are those of the providers it has tried.                                *)
(***************************************************************************)
TaskBudget(t) ==
  /\ aiAt[t] = "admitted" => aiSpent[t] + Estimated <= MaxTaskUsd
  /\ aiSpent[t] > 0 => aiSpent[t] + Estimated <= MaxTaskUsd + MaxCost

\* How many requests a call has sent that is about to try a provider.
Tried(t) == (IF repair[t] = 0 THEN 0 ELSE Providers) + try[t] - 1

TaskRequests(t) == asked[t] <= Tried(t) + (IF aiAt[t] = "answered" THEN 1 ELSE 0)

\* Whose answer is still to be counted.
Uncounted == {t \in Task : aiAt[t] \in {"admitted", "answered"}}

DaySetAside == SetAside(today, Uncounted, Task, DailyBudget, Estimated, MaxCost)

GatewayInv ==
  /\ Ai!TypeOK /\ DaySetAside
  /\ \A t \in Task : TaskBudget(t) /\ TaskRequests(t)

LEMMA DayStep ==
  ASSUME GatewayInv, [Ai!Day!Next]_<<today, Uncounted>>
  PROVE  DaySetAside'
<1>1. /\ today \in Nat /\ Uncounted \in SUBSET Task
      /\ IsFiniteSet(Task) /\ DailyBudget \in Nat /\ Estimated \in Nat /\ MaxCost \in Nat
      /\ SetAside(today, Uncounted, Task, DailyBudget, Estimated, MaxCost)
  BY GatewayAssumption DEF GatewayInv, DaySetAside, Ai!TypeOK, Uncounted
<1>2. \/ \E a \in Task : a \notin Uncounted /\ today + Estimated <= DailyBudget
                        /\ Uncounted' = Uncounted \cup {a} /\ today' = today
      \/ \E a \in Task : \E amount \in 0..MaxCost :
           a \in Uncounted /\ Uncounted' = Uncounted \ {a} /\ today' = today + amount
      \/ today' = 0 /\ Uncounted' = Uncounted
      \/ today' = today /\ Uncounted' = Uncounted
  BY DEF Ai!Day!Next, Ai!Day!Admit, Ai!Day!Settle, Ai!Day!NewDay, Uncounted
<1>3. SetAside(today', Uncounted', Task, DailyBudget, Estimated, MaxCost)
  BY <1>1, <1>2, AllowanceStep
<1> QED
  BY <1>3 DEF DaySetAside, SetAside

LEMMA GatewayInvStarts == ServicesInit => GatewayInv
<1> SUFFICES ASSUME Ai!Init PROVE GatewayInv
  BY DEF ServicesInit
<1> USE GatewayAssumption DEF Ai!Init
<1>1. today = 0 /\ Uncounted = {}
  BY DEF Uncounted
<1>2. DaySetAside
  BY <1>1, AllowanceStarts DEF DaySetAside
<1>3. Ai!TypeOK
  BY DEF Ai!TypeOK
<1> QED
  BY <1>2, <1>3 DEF GatewayInv, TaskBudget, TaskRequests, Tried

\* What a call does next, with the rest of the calls as they were.
OneCalls(t) ==
  \/ Ai!Call(t) \/ Ai!Check(t) \/ Ai!RateLimited(t) \/ Ai!ProviderFails(t) \/ Ai!Dies(t)
  \/ \E usd \in 0..MaxCost : Ai!ProviderAnswers(t, usd)
  \/ \E written \in BOOLEAN : Ai!Answer(t, written) \/ Ai!AskAgain(t, written)

OthersWait(t) ==
  \A u \in Task \ {t} :
    /\ aiAt'[u] = aiAt[u] /\ aiSpent'[u] = aiSpent[u]
    /\ try'[u] = try[u] /\ repair'[u] = repair[u] /\ asked'[u] = asked[u]

LEMMA CallStep ==
  ASSUME GatewayInv, NEW t \in Task, OneCalls(t)
  PROVE  /\ Ai!TypeOK'
         /\ TaskBudget(t)' /\ TaskRequests(t)'
         /\ OthersWait(t)
         /\ \/ aiAt[t] \notin {"admitted", "answered"} /\ aiAt'[t] \notin {"admitted", "answered"}
               /\ today' = today
            \/ aiAt[t] \notin {"admitted", "answered"} /\ aiAt'[t] = "admitted"
               /\ today' = today /\ today + Estimated <= DailyBudget
            \/ aiAt[t] \in {"admitted", "answered"} /\ aiAt'[t] \in {"admitted", "answered"}
               /\ today' = today
            \/ aiAt[t] \in {"admitted", "answered"} /\ aiAt'[t] \notin {"admitted", "answered"}
               /\ today' - today \in 0..MaxCost
<1> USE GatewayAssumption DEF Ai!TypeOK, Ai!Goto, Ai!Return, Ai!callVars
<1>0. /\ today \in Nat /\ aiSpent \in [Task -> Nat]
      /\ aiAt \in [Task -> {"idle", "checking", "admitted", "answered"}]
      /\ try \in [Task -> 1..Providers] /\ repair \in [Task -> 0..1]
      /\ price \in [Task -> 0..MaxCost] /\ asked \in [Task -> Nat]
      /\ TaskBudget(t) /\ TaskRequests(t)
  BY DEF GatewayInv
<1> USE DEF TaskBudget, TaskRequests, Tried, OthersWait
<1>1. CASE Ai!Call(t)
  BY <1>0, <1>1 DEF Ai!Call
<1>2. CASE Ai!Check(t)
  BY <1>0, <1>2 DEF Ai!Check, Ai!HasRoom
<1>3. CASE Ai!RateLimited(t)
  BY <1>0, <1>3 DEF Ai!RateLimited, Ai!NextProvider
<1>4. CASE Ai!ProviderFails(t)
  BY <1>0, <1>4 DEF Ai!ProviderFails, Ai!NextProvider
<1>5. CASE Ai!Dies(t)
  BY <1>0, <1>5 DEF Ai!Dies
<1>6. ASSUME NEW usd \in 0..MaxCost, Ai!ProviderAnswers(t, usd)
      PROVE  today' = today /\ aiAt[t] = "admitted" /\ aiAt'[t] = "answered"
             /\ Ai!TypeOK' /\ TaskBudget(t)' /\ TaskRequests(t)'
             /\ OthersWait(t)
  BY <1>0, <1>6 DEF Ai!ProviderAnswers
<1>7. ASSUME NEW written \in BOOLEAN, Ai!Answer(t, written)
      PROVE  today' - today \in 0..MaxCost /\ aiAt[t] = "answered" /\ aiAt'[t] = "idle"
             /\ Ai!TypeOK' /\ TaskBudget(t)' /\ TaskRequests(t)'
             /\ OthersWait(t)
  BY <1>0, <1>7 DEF Ai!Answer, Ai!Record
<1>8. ASSUME NEW written \in BOOLEAN, Ai!AskAgain(t, written)
      PROVE  today' - today \in 0..MaxCost /\ aiAt[t] = "answered" /\ aiAt'[t] = "checking"
             /\ Ai!TypeOK' /\ TaskBudget(t)' /\ TaskRequests(t)'
             /\ OthersWait(t)
  BY <1>0, <1>8 DEF Ai!AskAgain, Ai!Record, Ai!MayRepair
<1> QED
  BY <1>1, <1>2, <1>3, <1>4, <1>5, <1>6, <1>7, <1>8 DEF OneCalls

LEMMA Difference ==
  ASSUME NEW m \in Nat, NEW n \in Nat, n - m \in 0..MaxCost
  PROVE  \E amount \in 0..MaxCost : n = m + amount
<1>1. n = m + (n - m)
  OBVIOUS
<1> QED
  BY <1>1

LEMMA CallKeepsInv ==
  ASSUME GatewayInv, NEW t \in Task, OneCalls(t)
  PROVE  GatewayInv' /\ [Ai!Day!Next]_<<today, Uncounted>>
<1>0. Ai!TypeOK' /\ \A u \in Task : TaskBudget(u)' /\ TaskRequests(u)'
  BY CallStep DEF GatewayInv, TaskBudget, TaskRequests, Tried, OthersWait
<1>1. [Ai!Day!Next]_<<today, Uncounted>>
  <2>0. \A u \in Task \ {t} : aiAt'[u] = aiAt[u]
    BY CallStep DEF OthersWait
  <2>1. CASE /\ aiAt[t] \notin {"admitted", "answered"} /\ aiAt'[t] \notin {"admitted", "answered"}
             /\ today' = today
    BY <2>0, <2>1 DEF Uncounted
  <2>2. CASE /\ aiAt[t] \notin {"admitted", "answered"} /\ aiAt'[t] = "admitted"
             /\ today' = today /\ today + Estimated <= DailyBudget
    <3>1. Ai!Day!Admit(t)
      BY <2>0, <2>2 DEF Uncounted, Ai!Day!Admit
    <3> QED
      BY <3>1 DEF Ai!Day!Next
  <2>3. CASE /\ aiAt[t] \in {"admitted", "answered"} /\ aiAt'[t] \in {"admitted", "answered"}
             /\ today' = today
    BY <2>0, <2>3 DEF Uncounted
  <2>4. CASE /\ aiAt[t] \in {"admitted", "answered"} /\ aiAt'[t] \notin {"admitted", "answered"}
             /\ today' - today \in 0..MaxCost
    <3>1. today \in Nat /\ today' \in Nat
      BY <1>0 DEF GatewayInv, Ai!TypeOK
    <3>2. PICK amount \in 0..MaxCost : today' = today + amount
      BY <2>4, <3>1, Difference
    <3>3. Ai!Day!Settle(t, amount)
      BY <2>0, <2>4, <3>2 DEF Uncounted, Ai!Day!Settle
    <3> QED
      BY <3>3 DEF Ai!Day!Next
  <2> QED
    BY <2>1, <2>2, <2>3, <2>4, CallStep
<1>2. DaySetAside'
  BY <1>1, DayStep
<1> QED
  BY <1>0, <1>1, <1>2 DEF GatewayInv

LEMMA GatewayInvStays ==
  ASSUME GatewayInv, [Ai!Next]_(Ai!gatewayVars)
  PROVE  GatewayInv' /\ [Ai!Day!Next]_<<today, Uncounted>>
<1>1. CASE Ai!Midnight
  <2>1. UNCHANGED <<aiSpent, aiAt, try, repair, price, asked>> /\ today' = 0
    BY <1>1 DEF Ai!Midnight, Ai!callVars
  <2>2. Ai!Day!NewDay
    BY <2>1 DEF Ai!Day!NewDay
  <2>3. [Ai!Day!Next]_<<today, Uncounted>>
    BY <2>2 DEF Ai!Day!Next
  <2>4. DaySetAside'
    BY <2>3, DayStep
  <2> QED
    BY <2>1, <2>3, <2>4 DEF GatewayInv, Ai!TypeOK, TaskBudget, TaskRequests, Tried
<1>2. CASE UNCHANGED Ai!gatewayVars
  <2>1. UNCHANGED <<today, aiSpent, aiAt, try, repair, price, asked>>
    BY <1>2 DEF Ai!gatewayVars, Ai!callVars
  <2>2. UNCHANGED <<today, Uncounted>>
    BY <2>1 DEF Uncounted
  <2>3. DaySetAside'
    BY <2>2, DayStep
  <2> QED
    BY <2>1, <2>2, <2>3 DEF GatewayInv, Ai!TypeOK, TaskBudget, TaskRequests, Tried
<1> QED
  BY <1>1, <1>2, CallKeepsInv DEF Ai!Next, OneCalls

LEMMA GatewayInvSuffices ==
  GatewayInv => /\ Ai!TypeOK /\ Ai!TaskOverrunIsOneAnswer
                /\ Ai!RequestsAreBounded /\ Ai!DailyOverrunIsBounded
<1> SUFFICES ASSUME GatewayInv PROVE Ai!RequestsAreBounded /\ Ai!DailyOverrunIsBounded
  BY DEF GatewayInv, TaskBudget, Ai!TaskOverrunIsOneAnswer
<1>1. ASSUME NEW t \in Task PROVE asked[t] <= 2 * Providers
  BY GatewayAssumption DEF GatewayInv, TaskRequests, Tried, Ai!TypeOK
<1>2. Ai!Day!OverrunIsBounded
  <2>1. today \in Nat /\ Uncounted \in SUBSET Task
    BY DEF GatewayInv, Ai!TypeOK, Uncounted
  <2>2. today <= RoomFor(DailyBudget, Estimated) + Cardinality(Task) * MaxCost
    BY <2>1, GatewayAssumption, AllowanceBounds DEF GatewayInv, DaySetAside
  <2> QED
    BY <2>2 DEF Ai!Day!OverrunIsBounded, Ai!Day!Room, RoomFor, Ai!Day!Cardinality, Cardinality
<1> QED
  BY <1>1, <1>2 DEF Ai!RequestsAreBounded, Ai!DailyOverrunIsBounded

-----------------------------------------------------------------------------
(***************************************************************************)
(* The limit of a policy.  An action that is admitted counts itself, once. *)
(***************************************************************************)
Unrecorded == {a \in Act : decided[a] = "allow"}

DailyStep == [Daily!Day!Next]_<<entries, Unrecorded>>

LimitSetAside == SetAside(entries, Unrecorded, Act, MaxPerDay, 1, 1)

DailyInv == Daily!TypeOK /\ LimitSetAside

LEMMA DailyStarts == ServicesInit => DailyInv /\ Daily!Day!Init
<1> SUFFICES ASSUME Daily!Init PROVE DailyInv /\ Daily!Day!Init
  BY DEF ServicesInit
<1>1. Daily!TypeOK /\ Daily!Day!Init
  BY DEF Daily!Init, Daily!TypeOK, Daily!Day!Init
<1>2. entries = 0 /\ Unrecorded = {}
  BY DEF Daily!Init, Unrecorded
<1>3. LimitSetAside
  BY <1>2, DailyAssumption, AllowanceStarts DEF LimitSetAside
<1> QED
  BY <1>1, <1>3 DEF DailyInv

LEMMA DailyIsAllowance ==
  ASSUME Daily!TypeOK, [Daily!Next]_(Daily!limitVars)
  PROVE  Daily!TypeOK' /\ DailyStep
<1> USE DailyAssumption DEF Daily!TypeOK
<1>1. CASE UNCHANGED Daily!limitVars
  BY <1>1 DEF Daily!limitVars, DailyStep, Unrecorded
<1>2. CASE Daily!DayPasses
  <2>1. Daily!Day!NewDay /\ Daily!TypeOK'
    BY <1>2 DEF Daily!DayPasses, Daily!Day!NewDay, Unrecorded
  <2> QED
    BY <2>1 DEF DailyStep, Daily!Day!Next, Unrecorded
<1>3. ASSUME NEW a \in Act, NEW amount_ \in Amounts, Daily!Evaluate(a, amount_)
      PROVE  Daily!TypeOK' /\ DailyStep
  <2>1. Daily!Day!Admit(a) /\ Daily!TypeOK'
    BY <1>3 DEF Daily!Evaluate, Daily!Allowed, Daily!Day!Admit
  <2> QED
    BY <2>1 DEF DailyStep, Daily!Day!Next, Unrecorded
<1>4. ASSUME NEW a \in Act, Daily!RecordAutonomous(a)
      PROVE  Daily!TypeOK' /\ DailyStep
  <2>1. Daily!Day!Settle(a, 1) /\ Daily!TypeOK'
    BY <1>4 DEF Daily!RecordAutonomous, Daily!Day!Settle
  <2> QED
    BY <2>1 DEF DailyStep, Daily!Day!Next, Unrecorded
<1>5. ASSUME NEW a \in Act, Daily!Dies(a)
      PROVE  Daily!TypeOK' /\ DailyStep
  <2>1. Daily!Day!Settle(a, 0) /\ Daily!TypeOK'
    BY <1>5 DEF Daily!Dies, Daily!Day!Settle
  <2> QED
    BY <2>1 DEF DailyStep, Daily!Day!Next, Unrecorded
<1> QED
  BY <1>1, <1>2, <1>3, <1>4, <1>5 DEF Daily!Next

LEMMA DailyStays ==
  ASSUME DailyInv, [Daily!Next]_(Daily!limitVars)
  PROVE  DailyInv' /\ DailyStep
<1>1. Daily!TypeOK' /\ DailyStep
  BY DailyIsAllowance DEF DailyInv
<1>2. /\ entries \in Nat /\ Unrecorded \in SUBSET Act
      /\ IsFiniteSet(Act) /\ MaxPerDay \in Nat /\ 1 \in Nat
      /\ SetAside(entries, Unrecorded, Act, MaxPerDay, 1, 1)
  BY DailyAssumption DEF DailyInv, LimitSetAside, Daily!TypeOK, Unrecorded
<1>3. \/ \E a \in Act : a \notin Unrecorded /\ entries + 1 <= MaxPerDay
                       /\ Unrecorded' = Unrecorded \cup {a} /\ entries' = entries
      \/ \E a \in Act : \E amount \in 0..1 :
           a \in Unrecorded /\ Unrecorded' = Unrecorded \ {a} /\ entries' = entries + amount
      \/ entries' = 0 /\ Unrecorded' = Unrecorded
      \/ entries' = entries /\ Unrecorded' = Unrecorded
  BY <1>1 DEF DailyStep, Daily!Day!Next, Daily!Day!Admit, Daily!Day!Settle, Daily!Day!NewDay,
     Unrecorded
<1>4. SetAside(entries', Unrecorded', Act, MaxPerDay, 1, 1)
  BY <1>2, <1>3, AllowanceStep
<1> QED
  BY <1>1, <1>4 DEF DailyInv, LimitSetAside, SetAside

\* The limit of a policy is passed by no more than the actions that overlap.
LEMMA DailySuffices == DailyInv => Daily!TypeOK /\ Daily!Day!OverrunIsBounded
<1> SUFFICES ASSUME DailyInv PROVE Daily!Day!OverrunIsBounded
  BY DEF DailyInv
<1>1. entries \in Nat /\ Unrecorded \in SUBSET Act
  BY DEF DailyInv, Daily!TypeOK, Unrecorded
<1>2. entries <= RoomFor(MaxPerDay, 1) + Cardinality(Act) * 1
  BY <1>1, DailyAssumption, AllowanceBounds DEF DailyInv, LimitSetAside
<1> QED
  BY <1>2 DEF Daily!Day!OverrunIsBounded, Daily!Day!Room, RoomFor, Daily!Day!Cardinality,
     Cardinality

-----------------------------------------------------------------------------
(***************************************************************************)
(* Evaluations.  A slot without a task has had none inserted, and what a   *)
(* run has decided was decided on no more data than there are by now.      *)
(***************************************************************************)
Judgements == {"SCALE", "KILL", "ITERATE"}
Verdict == [at : {"none", "recording", "applying"}, decision : Decisions, running : BOOLEAN]

Tested(d) == d \in Judgements => 2 * sample >= MinSample

EvaluationInv ==
  /\ TypeOK
  /\ \A s \in 0..1 : enqueued[s] <= 1 /\ (task[s] = "none" => enqueued[s] = 0)
  /\ verdict.at = "recording" => verdict.decision # "none"
  /\ verdict.at = "applying" => verdict.decision \in DOMAIN StatusOf
  /\ verdict.at # "none" => Tested(verdict.decision)
  /\ Tested(decision)

LEMMA NoVerdictIsTyped == NoVerdict \in Verdict /\ NoVerdict.at = "none"
<1>1. FALSE \in BOOLEAN
  OBVIOUS
<1> QED
  BY <1>1 DEF NoVerdict, Verdict, Decisions

\* What the decision engine says of an experiment that hardly anybody saw.
LEMMA DecideIsSound ==
  ASSUME EvaluationInv, NEW in \in Inputs
  PROVE  Decide(in) \in Decisions \ {"none"} /\ Tested(Decide(in))
<1>1. sample \in Nat /\ MinSample \in Nat
  BY EvaluationAssumption DEF EvaluationInv, TypeOK
<1>2. in.complaints \in BOOLEAN
  BY DEF Inputs
<1>3. CASE in.complaints
  BY <1>3 DEF Decide, Decisions, Tested, Judgements
<1>4. CASE ~in.complaints /\ sample < MinSample
  BY <1>1, <1>4 DEF Decide, Decisions, Tested, Judgements
<1>5. CASE ~in.complaints /\ sample >= MinSample
  BY <1>1, <1>5 DEF Decide, Decisions, Tested, Judgements
<1> QED
  BY <1>1, <1>2, <1>3, <1>4, <1>5

LEMMA EvaluationInvStarts == ServicesInit => EvaluationInv
<1> SUFFICES ASSUME Init PROVE EvaluationInv
  BY DEF ServicesInit
<1>1. TypeOK
  <2>1. spent \in BOOLEAN
    BY DEF Init
  <2> QED
    BY <2>1, EvaluationAssumption, NoVerdictIsTyped DEF Init, TypeOK, Verdict, Decisions
<1> QED
  BY <1>1, NoVerdictIsTyped DEF Init, EvaluationInv, Tested, Judgements

LEMMA MoreIsEnough ==
  ASSUME NEW m \in Nat, NEW n \in Nat, NEW k \in Nat, m <= n
  PROVE  2 * m >= k => 2 * n >= k
OBVIOUS

LEMMA EvaluationInvStays == EvaluationInv /\ [Next]_evalVars => EvaluationInv'
<1> SUFFICES ASSUME EvaluationInv, [Next]_evalVars PROVE EvaluationInv'
  OBVIOUS
<1> USE EvaluationAssumption, NoVerdictIsTyped
<1>0. /\ slot \in 0..1 /\ ticking \in [Ticker -> {"idle", "found"}]
      /\ task \in [0..1 -> {"none", "queued", "running", "done"}] /\ enqueued \in [0..1 -> 0..2]
      /\ status \in {"running", "paused", "completed", "killed", "cancelled"}
      /\ sample \in 0..MaxSample /\ days \in 0..MaxDays /\ spent \in BOOLEAN
      /\ decision \in Decisions /\ verdict \in Verdict
      /\ \A s \in 0..1 : enqueued[s] <= 1 /\ (task[s] = "none" => enqueued[s] = 0)
      /\ verdict.at = "recording" => verdict.decision # "none"
      /\ verdict.at = "applying" => verdict.decision \in DOMAIN StatusOf
      /\ verdict.at # "none" => Tested(verdict.decision)
      /\ Tested(decision)
  BY DEF EvaluationInv, TypeOK, Verdict
<1> DEFINE Rows(t, e) == /\ t \in [0..1 -> {"none", "queued", "running", "done"}] /\ e \in [0..1 -> 0..2]
                         /\ \A s \in 0..1 : e[s] <= 1 /\ (t[s] = "none" => e[s] = 0)
           Judged(v) == /\ v \in Verdict
                        /\ v.at = "recording" => v.decision # "none"
                        /\ v.at = "applying" => v.decision \in DOMAIN StatusOf
                        /\ v.at # "none" => Tested(v.decision)
<1>1. ASSUME /\ slot' \in 0..1 /\ ticking' \in [Ticker -> {"idle", "found"}]
             /\ days' \in 0..MaxDays /\ Rows(task', enqueued')
             /\ UNCHANGED <<status, sample, spent, decision, verdict>>
      PROVE  EvaluationInv'
  BY <1>0, <1>1 DEF EvaluationInv, TypeOK, Verdict, Tested
<1>2. ASSUME UNCHANGED <<slot, ticking, enqueued, sample, days, spent>>, Rows(task', enqueued),
             status' \in {"running", "paused", "completed", "killed", "cancelled"},
             decision' \in Decisions, Tested(decision'), Judged(verdict')
      PROVE  EvaluationInv'
  BY <1>0, <1>2 DEF EvaluationInv, TypeOK, Verdict, Tested
<1>3. ASSUME UNCHANGED <<slot, ticking, task, enqueued, days, decision, verdict>>,
             status' \in {"running", "paused", "completed", "killed", "cancelled"},
             sample' \in 0..MaxSample, sample <= sample', spent' \in BOOLEAN
      PROVE  EvaluationInv'
  <2>1. sample \in Nat /\ sample' \in Nat /\ MinSample \in Nat /\ sample <= sample'
    BY <1>0, <1>3
  <2>2. 2 * sample >= MinSample => 2 * sample' >= MinSample
    BY <2>1, MoreIsEnough
  <2>3. \A d : Tested(d) => Tested(d)'
    BY <2>2 DEF Tested
  <2> QED
    BY <1>0, <1>3, <2>3 DEF EvaluationInv, TypeOK, Verdict, Tested
<1>4. CASE UNCHANGED evalVars
  BY <1>0, <1>1, <1>4 DEF evalVars
<1>5. ASSUME NEW w \in Ticker, TickCounts(w) \/ TickEnqueues(w) PROVE EvaluationInv'
  <2>1. /\ ticking' \in [Ticker -> {"idle", "found"}] /\ Rows(task', enqueued')
        /\ UNCHANGED <<slot, days, status, sample, spent, decision, verdict>>
    BY <1>0, <1>5 DEF TickCounts, TickEnqueues
  <2> QED
    BY <1>0, <1>1, <2>1
<1>6. CASE NextSlot
  <2>1. /\ slot' \in 0..1 /\ ticking' = ticking /\ days' \in 0..MaxDays /\ Rows(task', enqueued')
        /\ UNCHANGED <<status, sample, spent, decision, verdict>>
    BY <1>0, <1>6 DEF NextSlot
  <2> QED
    BY <1>0, <1>1, <2>1
<1>7. CASE Traffic
  BY <1>0, <1>3, <1>7 DEF Traffic
<1>8. CASE Spend
  <2>1. spent' \in BOOLEAN
    BY <1>8 DEF Spend
  <2> QED
    BY <1>0, <1>3, <1>8, <2>1 DEF Spend
<1>9. CASE Stop \/ Resume
  BY <1>0, <1>3, <1>9 DEF Stop, Resume
<1>10. ASSUME NEW s \in 0..1, Claim(s) PROVE EvaluationInv'
  <2>1. Rows(task', enqueued)
    BY <1>0, <1>10 DEF Claim
  <2> QED
    BY <1>0, <1>2, <1>10, <2>1 DEF Claim
<1>11. ASSUME NEW s \in 0..1, Evaluate(s) PROVE EvaluationInv'
  <2>1. PICK in \in Inputs : verdict' = [at |-> "recording", decision |-> Decide(in), running |-> TRUE]
    BY <1>11 DEF Evaluate
  <2>2. TRUE \in BOOLEAN /\ Decide(in) \in Decisions \ {"none"} /\ Tested(Decide(in))
    BY DecideIsSound
  <2>3. Judged(verdict')
    BY <2>1, <2>2 DEF Verdict
  <2> QED
    BY <1>0, <1>2, <1>11, <2>3 DEF Evaluate
<1>12. ASSUME NEW s \in 0..1, RunEnds(s) PROVE EvaluationInv'
  <2>1. Rows(task', enqueued) /\ Judged(verdict')
    BY <1>0, <1>12 DEF RunEnds
  <2> QED
    BY <1>0, <1>2, <1>12, <2>1 DEF RunEnds
<1>13. CASE Record
  <2>1. verdict.decision \in DOMAIN StatusOf \/ verdict.decision = "CONTINUE"
    BY <1>0, <1>13 DEF Record, Verdict, Decisions, StatusOf
  <2>2. Rows(task', enqueued)
    BY <1>0, <1>13 DEF Record
  <2>3. Judged(verdict')
    BY <1>0, <1>13, <2>1 DEF Record, Verdict
  <2>4. decision' \in Decisions /\ Tested(decision')
    BY <1>0, <1>13 DEF Record, Verdict
  <2> QED
    BY <1>0, <1>2, <1>13, <2>2, <2>3, <2>4 DEF Record
<1>14. CASE ApplyDecision
  <2>1. Rows(task', enqueued) /\ Judged(verdict')
    BY <1>0, <1>14 DEF ApplyDecision
  <2>2. status' \in {"running", "paused", "completed", "killed", "cancelled"}
    BY <1>0, <1>14 DEF ApplyDecision, StatusOf
  <2> QED
    BY <1>0, <1>2, <1>14, <2>1, <2>2 DEF ApplyDecision
<1> QED
  BY <1>4, <1>5, <1>6, <1>7, <1>8, <1>9, <1>10, <1>11, <1>12, <1>13, <1>14 DEF Next

LEMMA EvaluationInvSuffices == EvaluationInv => TypeOK /\ OneTaskPerSlot /\ UntestedIsNotJudged
BY DEF EvaluationInv, OneTaskPerSlot, UntestedIsNotJudged, Tested, Judgements

-----------------------------------------------------------------------------
(***************************************************************************)
(* The rate limit.  A hit leaves only when it has seen an expiry, or has   *)
(* set one.                                                                *)
(***************************************************************************)
AnswersLeaveAnExpiry ==
  \A h \in Hit : rateAt[h] # "idle" /\ rateAt'[h] = "idle" /\ deaths' = deaths
    => ttl' # -1 \/ \E g \in Hit : rateAt'[g] # "idle"

LEMMA LimiterStarts == ServicesInit => Rate!TypeOK
BY LimiterAssumption DEF ServicesInit, Rate!Init, Rate!TypeOK

LEMMA LimiterStays ==
  ASSUME Rate!TypeOK, [Rate!Next]_(Rate!limiterVars)
  PROVE  Rate!TypeOK' /\ [AnswersLeaveAnExpiry]_(Rate!limiterVars)
<1> USE LimiterAssumption DEF Rate!TypeOK, Rate!Goto, AnswersLeaveAnExpiry
<1>1. CASE UNCHANGED Rate!limiterVars
  BY <1>1 DEF Rate!limiterVars
<1>2. CASE Rate!Tick
  BY <1>2 DEF Rate!Tick
<1>3. ASSUME NEW h \in Hit, Rate!Incr(h) \/ Rate!IncrAtBound(h)
      PROVE  Rate!TypeOK' /\ AnswersLeaveAnExpiry
  BY <1>3 DEF Rate!Incr, Rate!IncrAtBound
<1>4. ASSUME NEW h \in Hit, Rate!ExpireFirst(h) \/ Rate!ExpireAgain(h)
      PROVE  Rate!TypeOK' /\ AnswersLeaveAnExpiry
  BY <1>4 DEF Rate!ExpireFirst, Rate!ExpireAgain, Rate!Expiring
<1>5. ASSUME NEW h \in Hit, Rate!Inspect(h)
      PROVE  Rate!TypeOK' /\ AnswersLeaveAnExpiry
  BY <1>5 DEF Rate!Inspect, Rate!NeedsExpiry
<1>6. ASSUME NEW h \in Hit, Rate!Die(h)
      PROVE  Rate!TypeOK' /\ AnswersLeaveAnExpiry
  BY <1>6 DEF Rate!Die
<1> QED
  BY <1>1, <1>2, <1>3, <1>4, <1>5, <1>6 DEF Rate!Next, Rate!Goes, Rate!Step

-----------------------------------------------------------------------------
(***************************************************************************)
(* The page.  Of all requests one is the latest; what it has seen, and     *)
(* what is shown when there is none and no error, is no older than what    *)
(* was shown before and than what an answered action has left.             *)
(***************************************************************************)
LoadRecord == [latest : BOOLEAN, org : Org, seen : Page!Version \cup {Page!Unseen}]
DataRecord == [org : Org, version : Page!Version] \cup {Page!NoData}
StreamRecord == [org : Org \cup {"none"}, events : BOOLEAN]

PageTypes ==
  /\ server \in [Org -> Page!Version] /\ wrote \in [Org -> Page!Version]
  /\ stored \in Org /\ session \in Org
  /\ loads \subseteq LoadRecord /\ data \in DataRecord /\ stream \in StreamRecord
  /\ due \subseteq {"load", "stream", "subscribe", "watch"}
  /\ asks \subseteq {"current", "old"}
  /\ error \in BOOLEAN /\ timer \in BOOLEAN /\ finished \in BOOLEAN /\ tabbed \in BOOLEAN
  /\ settled \in Page!Version /\ failures \in 0..MaxFailures /\ moves \in 0..MaxMoves

Latest(l) == l \in loads /\ l.latest

SeenWell(l) ==
  /\ l.seen <= server[l.org] /\ wrote[l.org] <= l.seen
  /\ data.org = l.org => data.version <= l.seen

LoadsInv ==
  /\ \A l, m \in loads : l.latest /\ m.latest => l = m
  /\ \A l \in loads : l.latest /\ l.seen # Page!Unseen => SeenWell(l)
  /\ "load" \notin due /\ ~tabbed => \A l \in loads : l.latest => l.org = session

ShownInv ==
  /\ data.org \in Org => data.version <= server[data.org]
  /\ ~error /\ (\A l \in loads : ~l.latest) =>
       /\ "load" \notin due /\ ~tabbed => data.org = session
       /\ data.org \in Org => wrote[data.org] <= data.version

PageInv ==
  /\ PageTypes /\ LoadsInv /\ ShownInv
  /\ ~tabbed => stored = session
  /\ \A o \in Org : wrote[o] <= server[o]

LEMMA VersionsAreNumbers ==
  /\ Page!Version \subseteq Nat /\ 0 \in Page!Version
  /\ Page!Unseen \notin Page!Version /\ Page!Home \in Org
BY DashboardAssumption DEF Page!Version, Page!Unseen, Page!Home

LEMMA LoadFields ==
  ASSUME NEW l \in LoadRecord
  PROVE  l.latest \in BOOLEAN /\ l.org \in Org /\ (l.seen # Page!Unseen => l.seen \in Page!Version)
BY DEF LoadRecord

LEMMA DataFields ==
  ASSUME NEW d \in DataRecord
  PROVE  d.version \in Page!Version
BY VersionsAreNumbers DEF DataRecord, Page!NoData

\* A new request is the latest, and the only one.
LEMMA IssueFacts ==
  ASSUME PageTypes
  PROVE  LET new == [latest |-> TRUE, org |-> stored, seen |-> Page!Unseen]
         IN  /\ Page!Issue(loads) \subseteq LoadRecord /\ new \in Page!Issue(loads)
             /\ \A l \in Page!Issue(loads) : l.latest => l = new
<1> DEFINE new == [latest |-> TRUE, org |-> stored, seen |-> Page!Unseen]
           stale == {[l EXCEPT !.latest = FALSE] : l \in {m \in loads : m.latest}}
<1>1. TRUE \in BOOLEAN /\ FALSE \in BOOLEAN
  OBVIOUS
<1>2. new \in LoadRecord
  BY <1>1 DEF PageTypes, LoadRecord
<1>3. ASSUME NEW l \in LoadRecord PROVE [l EXCEPT !.latest = FALSE] \in LoadRecord
  BY <1>1 DEF LoadRecord
<1>4. ASSUME NEW l \in LoadRecord PROVE ~[l EXCEPT !.latest = FALSE].latest
  BY DEF LoadRecord
<1>5. loads \subseteq LoadRecord
  BY DEF PageTypes
<1>6. stale \subseteq LoadRecord /\ \A l \in stale : ~l.latest
  BY <1>3, <1>4, <1>5
<1>7. Page!Issue(loads) = stale \cup {new}
  BY DEF Page!Issue
<1> HIDE DEF new, stale
<1>8. /\ Page!Issue(loads) \subseteq LoadRecord /\ new \in Page!Issue(loads)
      /\ \A l \in Page!Issue(loads) : l.latest => l = new
  BY <1>2, <1>6, <1>7
<1> QED
  BY <1>8 DEF new

LEMMA IssuedInv ==
  ASSUME PageInv, PageTypes', loads' = Page!Issue(loads),
         UNCHANGED <<stored, session, data, error, tabbed>>,
         \A o \in Org : server[o] <= server'[o] /\ wrote'[o] <= server'[o]
  PROVE  PageInv'
<1> DEFINE new == [latest |-> TRUE, org |-> stored, seen |-> Page!Unseen]
<1>1. /\ new \in loads' /\ new.latest /\ new.org = stored /\ new.seen = Page!Unseen
      /\ \A l \in loads' : l.latest => l = new
  BY IssueFacts DEF PageInv
<1> HIDE DEF new
<1>2. LoadsInv'
  BY <1>1 DEF PageInv, LoadsInv
<1>3. data.org \in Org => data.version <= server'[data.org]
  <2> SUFFICES ASSUME data.org \in Org PROVE data.version <= server'[data.org]
    OBVIOUS
  <2>1. data.version \in Nat /\ server[data.org] \in Nat /\ server'[data.org] \in Nat
    BY DataFields, VersionsAreNumbers DEF PageInv, PageTypes
  <2>2. data.version <= server[data.org] /\ server[data.org] <= server'[data.org]
    BY DEF PageInv, ShownInv
  <2> QED
    BY <2>1, <2>2
<1>4. ShownInv'
  BY <1>1, <1>3 DEF ShownInv
<1> QED
  BY <1>2, <1>4 DEF PageInv

LEMMA WaitingInv ==
  ASSUME PageInv, PageTypes', UNCHANGED <<stored, session, loads, data, error, wrote, tabbed>>,
         "load" \in due => "load" \in due',
         \A o \in Org : server[o] <= server'[o]
  PROVE  PageInv'
<1>1. \A o \in Org : server[o] \in Nat /\ server'[o] \in Nat /\ wrote[o] \in Nat
  BY VersionsAreNumbers DEF PageInv, PageTypes
<1>2. \A n, k, m \in Nat : n <= k /\ k <= m => n <= m
  OBVIOUS
<1>3. \A o \in Org, n \in Nat : n <= server[o] => n <= server'[o]
  BY <1>1, <1>2
<1>4. \A o \in Org : wrote'[o] <= server'[o]
  BY <1>1, <1>3 DEF PageInv
<1>5. ASSUME NEW l \in loads, l.latest, l.seen # Page!Unseen PROVE SeenWell(l)'
  <2>1. l.org \in Org /\ l.seen \in Nat
    BY <1>5, LoadFields, VersionsAreNumbers DEF PageInv, PageTypes
  <2>2. SeenWell(l)
    BY <1>5 DEF PageInv, LoadsInv
  <2> QED
    BY <1>3, <2>1, <2>2 DEF SeenWell
<1>6. data.version \in Nat
  BY DataFields, VersionsAreNumbers DEF PageInv, PageTypes
<1>7. LoadsInv'
  BY <1>5 DEF PageInv, LoadsInv
<1>8. ShownInv'
  BY <1>3, <1>6 DEF PageInv, ShownInv
<1> QED
  BY <1>4, <1>7, <1>8 DEF PageInv

LEMMA ServeInv ==
  ASSUME PageInv, NEW l \in loads, Page!Serve(l)
  PROVE  PageInv'
<1> DEFINE n == [l EXCEPT !.seen = server[l.org]]
<1>1. /\ l \in LoadRecord /\ l.org \in Org /\ server[l.org] \in Page!Version
      /\ loads \subseteq LoadRecord
  BY LoadFields DEF PageInv, PageTypes
<1>2. /\ n \in LoadRecord /\ n.latest = l.latest /\ n.org = l.org /\ n.seen = server[l.org]
  BY <1>1 DEF LoadRecord
<1>3. loads' = (loads \ {l}) \cup {n}
      /\ UNCHANGED <<server, stored, session, data, error, stream, due, timer, settled,
                     asks, finished, wrote, failures, moves, tabbed>>
  BY DEF Page!Serve
<1> HIDE DEF n
<1>4. PageTypes'
  BY <1>1, <1>2, <1>3 DEF PageInv, PageTypes
<1>5. SeenWell(n)
  <2>1. server[l.org] \in Nat
    BY <1>1, VersionsAreNumbers
  <2>2. data.org = l.org => data.version <= server[l.org]
    BY <1>1 DEF PageInv, ShownInv
  <2>3. wrote[l.org] <= server[l.org]
    BY <1>1 DEF PageInv
  <2> QED
    BY <1>2, <2>1, <2>2, <2>3 DEF SeenWell
<1>6. \A m \in loads' : m = n \/ (m \in loads /\ m # l)
  BY <1>3
<1>7. \A m \in loads' : m.latest => (m = n \/ m \in loads \ {l})
  BY <1>6
<1>8. \A m, k \in loads' : m.latest /\ k.latest => m = k
  BY <1>2, <1>6 DEF PageInv, LoadsInv
<1>9. \A m \in loads' : m.latest /\ m.seen # Page!Unseen => SeenWell(m)'
  BY <1>3, <1>5, <1>6 DEF PageInv, LoadsInv, SeenWell
<1>10. LoadsInv'
  BY <1>2, <1>3, <1>6, <1>8, <1>9 DEF PageInv, LoadsInv
<1>11. (\A m \in loads' : ~m.latest) => \A m \in loads : ~m.latest
  BY <1>2, <1>3
<1>12. ShownInv'
  BY <1>3, <1>11 DEF PageInv, ShownInv
<1> QED
  BY <1>3, <1>4, <1>10, <1>12 DEF PageInv

\* What is shown of a workspace never goes back: an answer is shown only if
\* its request is the latest.
LEMMA ReturnInv ==
  ASSUME PageInv, NEW l \in loads, Page!Return(l)
  PROVE  PageInv' /\ (data'.org = data.org => data'.version >= data.version)
<1>1. /\ l \in LoadRecord /\ l.latest \in BOOLEAN /\ l.org \in Org
      /\ l.seen \in Page!Version /\ data.version \in Nat
  BY LoadFields, DataFields, VersionsAreNumbers DEF PageInv, PageTypes, Page!Return
<1>2. /\ loads' = loads \ {l}
      /\ UNCHANGED <<server, stored, session, stream, due, timer, settled, asks,
                     finished, wrote, failures, moves, tabbed>>
  BY DEF Page!Return
<1>3. CASE ~l.latest
  <2>1. UNCHANGED <<data, error>>
    BY <1>3 DEF Page!Return, Page!IsCurrent
  <2>2. PageTypes'
    BY <1>2, <2>1 DEF PageInv, PageTypes
  <2>3. LoadsInv'
    BY <1>2, <2>1 DEF PageInv, LoadsInv, SeenWell
  <2>4. (\A m \in loads' : ~m.latest) => \A m \in loads : ~m.latest
    BY <1>2, <1>3
  <2>5. ShownInv'
    BY <1>2, <2>1, <2>4 DEF PageInv, ShownInv
  <2> QED
    BY <1>1, <1>2, <2>1, <2>2, <2>3, <2>5 DEF PageInv
<1>4. CASE l.latest
  <2>1. data' = [org |-> l.org, version |-> l.seen] /\ error' = FALSE
    BY <1>4 DEF Page!Return, Page!IsCurrent, Page!Shown
  <2>2. data'.org = l.org /\ data'.version = l.seen /\ data' \in DataRecord /\ error' \in BOOLEAN
    BY <1>1, <2>1 DEF DataRecord
  <2>3. SeenWell(l)
    BY <1>1, <1>4, VersionsAreNumbers DEF PageInv, LoadsInv
  <2>4. PageTypes'
    BY <1>2, <2>2 DEF PageInv, PageTypes
  <2>5. \A m \in loads' : ~m.latest
    BY <1>2, <1>4 DEF PageInv, LoadsInv
  <2>6. "load" \notin due /\ ~tabbed => l.org = session
    BY <1>4 DEF PageInv, LoadsInv
  <2>7. LoadsInv'
    BY <2>5 DEF LoadsInv
  <2>8. ShownInv'
    BY <1>2, <2>2, <2>3, <2>6 DEF ShownInv, SeenWell
  <2>9. data'.org = data.org => data'.version >= data.version
    <3>1. l.seen \in Nat
      BY <1>1, VersionsAreNumbers
    <3> QED
      BY <1>1, <2>2, <2>3, <3>1 DEF SeenWell
  <2> QED
    BY <1>2, <2>4, <2>7, <2>8, <2>9 DEF PageInv
<1> QED
  BY <1>1, <1>3, <1>4

LEMMA LoadFailsInv ==
  ASSUME PageInv, NEW l \in loads, Page!LoadFails(l)
  PROVE  PageInv'
<1>1. /\ loads' = loads \ {l} /\ error' = (error \/ l.latest) /\ failures' \in 0..MaxFailures
      /\ UNCHANGED <<server, stored, session, data, stream, due, timer, settled, asks,
                     finished, wrote, moves, tabbed>>
  BY DashboardAssumption DEF Page!LoadFails, PageInv, PageTypes
<1>2. error' \in BOOLEAN
  BY <1>1
<1>3. PageTypes'
  BY <1>1, <1>2 DEF PageInv, PageTypes
<1>4. LoadsInv'
  BY <1>1 DEF PageInv, LoadsInv, SeenWell
<1>5. ~error' /\ (\A m \in loads' : ~m.latest) => ~error /\ \A m \in loads : ~m.latest
  BY <1>1
<1>6. ShownInv'
  BY <1>1, <1>5 DEF PageInv, ShownInv
<1> QED
  BY <1>1, <1>3, <1>4, <1>6 DEF PageInv

LEMMA MovesInv ==
  ASSUME PageInv, NEW o \in Org, Page!SwitchOrg(o) \/ Page!OtherTab(o)
  PROVE  PageInv'
<1> DEFINE Moved == /\ UNCHANGED <<server, loads, data, error, stream, timer, settled, asks,
                                    finished, wrote, failures>>
                    /\ stored' = o /\ session' \in Org /\ moves' \in 0..MaxMoves
                    /\ due' \subseteq {"load", "stream", "subscribe", "watch"}
                    /\ tabbed' \/ ("load" \in due' /\ session' = o)
<1>1. Moved
  <2>1. moves < MaxMoves /\ moves' = moves + 1 => moves' \in 0..MaxMoves
    BY DashboardAssumption DEF PageInv, PageTypes
  <2>2. CASE Page!SwitchOrg(o)
    BY <2>1, <2>2 DEF Page!SwitchOrg, PageInv, PageTypes
  <2>3. CASE Page!OtherTab(o)
    BY <2>1, <2>3 DEF Page!OtherTab, PageInv, PageTypes
  <2> QED
    BY <2>2, <2>3
<1>2. tabbed' \in BOOLEAN
  <2>1. TRUE \in BOOLEAN
    OBVIOUS
  <2> QED
    BY <2>1 DEF Page!SwitchOrg, Page!OtherTab, PageInv, PageTypes
<1>3. PageTypes'
  BY <1>1, <1>2 DEF PageInv, PageTypes
<1>4. LoadsInv'
  BY <1>1 DEF PageInv, LoadsInv, SeenWell
<1>5. ShownInv'
  BY <1>1 DEF PageInv, ShownInv
<1> QED
  BY <1>1, <1>3, <1>4, <1>5 DEF PageInv

\* A new version of a workspace, and the event that tells of it.
LEMMA ChangeFacts ==
  ASSUME PageTypes, NEW o \in Org, server[o] < MaxVersion,
         server' = [server EXCEPT ![o] = @ + 1], Page!Published(o)
  PROVE  /\ server' \in [Org -> Page!Version] /\ stream' \in StreamRecord
         /\ server[o] + 1 \in Page!Version /\ server'[o] = server[o] + 1
         /\ \A u \in Org : server[u] <= server'[u]
<1>1. \A u \in Org : server[u] \in 0..MaxVersion
  BY DEF PageTypes, Page!Version
<1>2. server[o] + 1 \in 0..MaxVersion
  BY <1>1, DashboardAssumption
<1>3. server' \in [Org -> Page!Version] /\ server'[o] = server[o] + 1
  BY <1>2 DEF PageTypes, Page!Version
<1>4. \A u \in Org : server[u] <= server'[u]
  BY <1>1, <1>3 DEF PageTypes
<1>5. stream' \in StreamRecord
  <2>1. (stream.events \/ stream.org = o) \in BOOLEAN
    OBVIOUS
  <2> QED
    BY <2>1 DEF PageTypes, StreamRecord, Page!Published
<1> QED
  BY <1>2, <1>3, <1>4, <1>5 DEF Page!Version

LEMMA PageStays ==
  ASSUME PageInv, [Page!Next]_(Page!dashVars)
  PROVE  PageInv' /\ [data'.org = data.org => data'.version >= data.version]_(Page!dashVars)
<1>0. PageTypes /\ \A o \in Org : wrote[o] <= server[o] /\ server[o] \in Nat /\ wrote[o] \in Nat
  BY VersionsAreNumbers DEF PageInv, PageTypes
<1> DEFINE Kept == PageInv' /\ data' = data
<1>1. ASSUME NEW o \in Org, Page!Change(o) PROVE Kept
  <2>1. PageTypes' /\ \A u \in Org : server[u] <= server'[u]
    BY <1>0, <1>1, ChangeFacts DEF Page!Change, PageTypes
  <2> QED
    BY <1>1, <2>1, WaitingInv DEF Page!Change
<1>2. ASSUME Page!Settle PROVE Kept
  <2>1. PageTypes' /\ \A u \in Org : server[u] <= server'[u]
    BY <1>0, <1>2, ChangeFacts, VersionsAreNumbers DEF Page!Settle, PageTypes
  <2> QED
    <3>1. UNCHANGED <<stored, session, loads, data, error, wrote, tabbed>> /\ due' = due
      BY <1>2 DEF Page!Settle
    <3> QED
      BY <2>1, <3>1, WaitingInv
<1>3. ASSUME Page!EventArrives PROVE Kept
  <2>1. stream' \in StreamRecord /\ timer' \in BOOLEAN
    <3>1. TRUE \in BOOLEAN /\ FALSE \in BOOLEAN
      OBVIOUS
    <3> QED
      BY <1>0, <1>3, <3>1 DEF Page!EventArrives, PageTypes, StreamRecord
  <2>2. PageTypes'
    BY <1>0, <1>3, <2>1 DEF Page!EventArrives, PageTypes
  <2> QED
    <3>1. UNCHANGED <<stored, session, loads, data, error, wrote, tabbed>>
          /\ server' = server /\ due \subseteq due'
      BY <1>3 DEF Page!EventArrives
    <3>2. \A o \in Org : server[o] <= server'[o]
      BY <1>0, <3>1
    <3> QED
      BY <2>2, <3>1, <3>2, WaitingInv
<1>4. ASSUME Page!Ask PROVE Kept
  <2>1. PageTypes'
    BY <1>0, <1>4 DEF Page!Ask, PageTypes
  <2> QED
    <3>1. UNCHANGED <<stored, session, loads, data, error, wrote, tabbed>>
          /\ server' = server /\ due' = due
      BY <1>4 DEF Page!Ask
    <3>2. \A o \in Org : server[o] <= server'[o]
      BY <1>0, <3>1
    <3> QED
      BY <2>1, <3>1, <3>2, WaitingInv
<1>5. ASSUME Page!Render PROVE Kept
  <2>1. timer' \in BOOLEAN /\ finished' \in BOOLEAN
    BY <1>5 DEF Page!Render, Page!TimerAfter
  <2>2. stream' \in StreamRecord
    <3>1. (server[session] > 0) \in BOOLEAN
      OBVIOUS
    <3> QED
      BY <1>0, <1>5, <3>1 DEF Page!Render, Page!StreamAfter, PageTypes, StreamRecord
  <2>3. asks' \subseteq {"current", "old"} /\ due' \subseteq {"load", "stream", "subscribe", "watch"}
    BY <1>0, <1>5 DEF Page!Render, Page!AsksAfter, PageTypes
  <2>4. loads' \subseteq LoadRecord
    BY <1>0, <1>5, IssueFacts DEF Page!Render, PageTypes
  <2>5. PageTypes'
    BY <1>0, <1>5, <2>1, <2>2, <2>3, <2>4 DEF Page!Render, PageTypes
  <2>6. UNCHANGED <<server, stored, session, data, error, wrote, tabbed>>
    BY <1>5 DEF Page!Render
  <2>7. \A o \in Org : server[o] <= server'[o] /\ wrote'[o] <= server'[o]
    BY <1>0, <2>6
  <2>8. CASE "load" \in due
    <3>1. loads' = Page!Issue(loads)
      BY <1>5, <2>8 DEF Page!Render
    <3> QED
      BY <2>5, <2>6, <2>7, <3>1, IssuedInv
  <2>9. CASE "load" \notin due
    <3>1. loads' = loads
      BY <1>5, <2>9 DEF Page!Render
    <3> QED
      BY <2>5, <2>6, <2>7, <2>9, <3>1, WaitingInv
  <2> QED
    BY <2>6, <2>8, <2>9
<1>6. ASSUME Page!Refresh \/ Page!Poll PROVE Kept
  <2>1. timer' \in BOOLEAN
    <3>1. FALSE \in BOOLEAN
      OBVIOUS
    <3> QED
      BY <1>0, <1>6, <3>1 DEF Page!Refresh, Page!Poll, PageTypes
  <2>2. PageTypes'
    BY <1>0, <1>6, <2>1, IssueFacts DEF Page!Refresh, Page!Poll, PageTypes
  <2> QED
    <3>1. UNCHANGED <<server, stored, session, data, error, wrote, tabbed>>
          /\ loads' = Page!Issue(loads)
      BY <1>6 DEF Page!Refresh, Page!Poll
    <3>2. \A o \in Org : server[o] <= server'[o] /\ wrote'[o] <= server'[o]
      BY <1>0, <3>1
    <3> QED
      BY <2>2, <3>1, <3>2, IssuedInv
<1>7. ASSUME Page!ActionAnswered PROVE Kept
  <2>1. /\ wrote' = [wrote EXCEPT ![stored] = server[stored]] /\ loads' = Page!Issue(loads)
        /\ UNCHANGED <<server, stored, session, data, error, tabbed>>
    BY <1>7 DEF Page!ActionAnswered
  <2>2. /\ wrote' \in [Org -> Page!Version] /\ wrote'[stored] = server[stored]
        /\ \A u \in Org \ {stored} : wrote'[u] = wrote[u]
    BY <1>0, <2>1 DEF PageTypes
  <2>3. \A u \in Org : server[u] <= server'[u] /\ wrote'[u] <= server'[u]
    BY <1>0, <2>1, <2>2 DEF PageTypes
  <2>4. PageTypes'
    BY <1>0, <1>7, <2>1, <2>2, IssueFacts DEF Page!ActionAnswered, PageTypes
  <2> QED
    BY <2>1, <2>3, <2>4, IssuedInv
<1>8. ASSUME NEW a \in asks, Page!ReturnAsk(a) PROVE Kept
  <2>1. /\ asks' = asks \ {a}
        /\ UNCHANGED <<server, stored, session, data, error, stream, timer, settled,
                       wrote, failures, moves, tabbed>>
    BY <1>8 DEF Page!ReturnAsk
  <2>2. CASE Page!ReportsDone(a)
    <3>1. /\ finished' = (finished \/ a = "current") /\ loads' = Page!Issue(loads)
          /\ due' = due \cup {"watch"}
      BY <1>8, <2>2 DEF Page!ReturnAsk
    <3>2. finished' \in BOOLEAN
      BY <3>1
    <3>3. PageTypes'
      BY <1>0, <2>1, <3>1, <3>2, IssueFacts DEF PageTypes
    <3> QED
      BY <1>0, <2>1, <3>1, <3>3, IssuedInv
  <2>3. CASE ~Page!ReportsDone(a)
    <3>1. UNCHANGED <<finished, loads, due>>
      BY <1>8, <2>3 DEF Page!ReturnAsk
    <3>2. PageTypes'
      BY <1>0, <2>1, <3>1 DEF PageTypes
    <3> QED
      BY <1>0, <2>1, <3>1, <3>2, WaitingInv
  <2> QED
    BY <2>2, <2>3
<1>9. ASSUME UNCHANGED Page!dashVars PROVE Kept
  <2>1. UNCHANGED <<server, stored, session, loads, data, error, stream, due, timer,
                    settled, asks, finished, wrote, failures, moves, tabbed>>
    BY <1>9 DEF Page!dashVars
  <2>2. PageTypes'
    BY <1>0, <2>1 DEF PageTypes
  <2> QED
    BY <1>0, <1>9, <2>1, <2>2, WaitingInv
<1>10. ASSUME NEW l \in loads, Page!Serve(l) \/ Page!LoadFails(l) PROVE Kept
  BY <1>10, ServeInv, LoadFailsInv DEF Page!Serve, Page!LoadFails
<1>11. ASSUME NEW o \in Org, Page!SwitchOrg(o) \/ Page!OtherTab(o) PROVE Kept
  BY <1>11, MovesInv DEF Page!SwitchOrg, Page!OtherTab
<1>12. CASE Kept
  <2>1. data.version \in Nat
    BY <1>0, DataFields, VersionsAreNumbers DEF PageTypes
  <2> QED
    BY <1>12, <2>1
<1> QED
  BY <1>1, <1>2, <1>3, <1>4, <1>5, <1>6, <1>7, <1>8, <1>9, <1>10, <1>11, <1>12, ReturnInv DEF Page!Next

LEMMA PageStarts == ServicesInit => PageInv
<1> SUFFICES ASSUME Page!Init PROVE PageInv
  BY DEF ServicesInit
<1> USE VersionsAreNumbers, DashboardAssumption DEF Page!Init
<1>1. FALSE \in BOOLEAN
  OBVIOUS
<1>2. stream \in StreamRecord
  BY <1>1 DEF StreamRecord
<1>3. data \in DataRecord /\ data.version = 0
  BY DEF DataRecord, Page!NoData
<1>4. /\ server \in [Org -> Page!Version] /\ wrote \in [Org -> Page!Version]
      /\ settled \in Page!Version /\ failures \in 0..MaxFailures /\ moves \in 0..MaxMoves
  OBVIOUS
<1>5. due \subseteq {"load", "stream", "subscribe", "watch"}
  OBVIOUS
<1>6. error \in BOOLEAN /\ timer \in BOOLEAN /\ finished \in BOOLEAN /\ tabbed \in BOOLEAN
  BY <1>1
<1>7. PageTypes
  BY <1>2, <1>3, <1>4, <1>5, <1>6 DEF PageTypes
<1> QED
  BY <1>3, <1>7 DEF PageInv, LoadsInv, ShownInv

LEMMA PageInvSuffices == PageInv => Page!TypeOK /\ Page!PageIsCurrent
<1> SUFFICES ASSUME PageInv PROVE Page!TypeOK /\ Page!PageIsCurrent
  OBVIOUS
<1>1. Page!TypeOK
  BY DEF PageInv, PageTypes, Page!TypeOK, LoadRecord, DataRecord, StreamRecord
<1>2. data.version \in Nat /\ \A o \in Org : wrote[o] \in Nat
  BY DataFields, VersionsAreNumbers DEF PageInv, PageTypes
<1>3. Page!PageIsCurrent
  BY <1>2 DEF PageInv, ShownInv, Page!PageIsCurrent
<1> QED
  BY <1>1, <1>3

-----------------------------------------------------------------------------
(***************************************************************************)
(* The stream.  What a client has received, followed by what is on its     *)
(* way, is in order and without a gap; the cursor is at its end.           *)
(***************************************************************************)
Sorted(s) == \A i, j \in DOMAIN s : i < j => s[i] < s[j]
OnTheWay(c) == received[c] \o wire[c]
EndOf(s) == s[Len(s)]

\* Between the first and any other nothing of ids is missing.
Complete(s, ids) ==
  \A e \in ids : \A j \in DOMAIN s : s[1] < e /\ e < s[j] => \E i \in DOMAIN s : s[i] = e

ClientInv(c) ==
  /\ Sorted(OnTheWay(c)) /\ Complete(OnTheWay(c), visible \ late)
  /\ \A i \in DOMAIN OnTheWay(c) : OnTheWay(c)[i] \in visible
  /\ cursor[c] = -1 => wire[c] = <<>>
  /\ cursor[c] # -1 /\ OnTheWay(c) # <<>> => cursor[c] = EndOf(OnTheWay(c))

StreamInv == Strm!TypeOK /\ \A c \in Client : ClientInv(c)

\* The principle of the least number: what a proof by induction has here.
LEMMA Least ==
  ASSUME NEW S \in SUBSET Nat, S # {}
  PROVE  \E n \in S : \A m \in S : n <= m
<1>1. PICK n \in S : \A m \in S : ~ (<<m, n>> \in OpToRel(<, Nat))
  BY NatLessThanWellFounded, WFMin
<1>2. OpToRel(<, Nat) = {ss \in Nat \X Nat : ss[1] < ss[2]}
  BY DEF OpToRel
<1>3. ASSUME NEW m \in S, m < n PROVE <<m, n>> \in {ss \in Nat \X Nat : ss[1] < ss[2]}
  BY <1>3
<1>4. \A m \in S : ~(m < n)
  BY <1>1, <1>2, <1>3, Zenon
<1> QED
  BY <1>4

\* Every set of ids can be put in order: if not, take the least bound up to
\* which one cannot.
LEMMA OrderExists ==
  ASSUME NEW ids \in SUBSET Strm!Ids
  PROVE  \E s \in [1..Cardinality(ids) -> ids] : Sorted(s)
<1> DEFINE Part(m) == ids \cap 1..m
           Ordered(m) == \E s \in [1..Cardinality(Part(m)) -> Part(m)] : Sorted(s)
           Bad == {m \in 0..MaxEvent : ~Ordered(m)}
<1>0. MaxEvent \in Nat /\ Strm!Ids = 1..MaxEvent
  BY StreamAssumption DEF Strm!Ids
<1>1. \A m \in Nat : IsFiniteSet(Part(m)) /\ Cardinality(Part(m)) \in Nat
  <2> SUFFICES ASSUME NEW m \in Nat PROVE IsFiniteSet(Part(m)) /\ Cardinality(Part(m)) \in Nat
    OBVIOUS
  <2>1. 1 \in Int /\ m \in Int /\ Part(m) \in SUBSET (1..m)
    OBVIOUS
  <2>2. IsFiniteSet(1..m)
    BY <2>1, FS_Interval
  <2>3. IsFiniteSet(Part(m))
    BY <2>1, <2>2, FS_Subset
  <2> QED
    BY <2>3, FS_CardinalityType
<1>2. Part(MaxEvent) = ids
  BY <1>0
<1>3. CASE Bad = {}
  <2>1. MaxEvent \in 0..MaxEvent
    BY <1>0
  <2>2. Ordered(MaxEvent)
    BY <1>3, <2>1
  <2> QED
    BY <1>2, <2>2
<1>4. CASE Bad # {}
  <2>0. Bad \in SUBSET Nat
    BY <1>0
  <2>1. PICK m \in Bad : \A k \in Bad : m <= k
    <3> HIDE DEF Bad
    <3> QED
      BY <1>4, <2>0, Least
  <2>2. m \in 0..MaxEvent /\ ~Ordered(m)
    BY <2>1
  <2>3. m # 0
    <3>1. SUFFICES ASSUME m = 0 PROVE Ordered(0)
      BY <2>2
    <3>2. Part(0) = {} /\ Cardinality(Part(0)) = 0
      BY FS_EmptySet
    <3>3. <<>> \in [1..Cardinality(Part(0)) -> Part(0)] /\ Sorted(<<>>)
      BY <3>2 DEF Sorted
    <3> QED
      BY <3>3
  <2>4. m - 1 \in 0..MaxEvent /\ m - 1 \in Nat /\ m \in Nat /\ m - 1 < m
    BY <1>0, <2>2, <2>3
  <2>5. Ordered(m - 1)
    <3>1. m - 1 \notin Bad
      <4> HIDE DEF Bad
      <4> QED
        BY <2>1, <2>4
    <3> HIDE DEF Ordered
    <3> QED
      BY <2>4, <3>1
  <2>6. CASE m \notin ids
    <3>1. Part(m) = Part(m - 1)
      BY <1>0, <2>4, <2>6
    <3> QED
      BY <2>2, <2>5, <3>1
  <2>7. CASE m \in ids
    <3> DEFINE n == Cardinality(Part(m - 1))
    <3>1. Part(m) = Part(m - 1) \cup {m} /\ m \notin Part(m - 1)
      BY <1>0, <2>4, <2>7
    <3>2. n \in Nat /\ Cardinality(Part(m)) = n + 1
      BY <1>1, <2>4, <3>1, FS_AddElement
    <3>3. PICK s \in [1..n -> Part(m - 1)] : Sorted(s)
      BY <2>5
    <3>4. \A i \in 1..n : s[i] < m
      <4>1. \A e \in Part(m - 1) : e < m
        BY <2>4
      <4> HIDE DEF Part
      <4> QED
        BY <3>3, <4>1
    <3> DEFINE t == [i \in 1..(n + 1) |-> IF i = n + 1 THEN m ELSE s[i]]
    <3> HIDE DEF n
    <3>5. t \in [1..(n + 1) -> Part(m)]
      BY <3>1, <3>2, <3>3
    <3>6. Sorted(t)
      <4> SUFFICES ASSUME NEW i \in 1..(n + 1), NEW j \in 1..(n + 1), i < j PROVE t[i] < t[j]
        BY DEF Sorted
      <4>1. i \in 1..n /\ t[i] = s[i]
        BY <3>2
      <4>2. CASE j = n + 1
        BY <3>4, <4>1, <4>2
      <4>3. CASE j # n + 1
        BY <3>2, <3>3, <4>1, <4>3 DEF Sorted
      <4> QED
        BY <4>2, <4>3
    <3> QED
      BY <2>2, <3>2, <3>5, <3>6
  <2> QED
    BY <2>6, <2>7
<1> QED
  BY <1>3, <1>4

LEMMA InOrderFacts ==
  ASSUME NEW ids \in SUBSET Strm!Ids
  PROVE  /\ Strm!InOrder(ids) \in [1..Cardinality(ids) -> ids] /\ Sorted(Strm!InOrder(ids))
         /\ Cardinality(ids) \in Nat /\ (ids # {} => Cardinality(ids) # 0)
         /\ \A e \in ids : \E i \in 1..Cardinality(ids) : Strm!InOrder(ids)[i] = e
<1> DEFINE n == Cardinality(ids)
           s == Strm!InOrder(ids)
<1>0. IsFiniteSet(ids)
  <2>1. 1 \in Int /\ MaxEvent \in Int /\ ids \in SUBSET (1..MaxEvent)
    BY StreamAssumption DEF Strm!Ids
  <2>2. IsFiniteSet(1..MaxEvent)
    BY <2>1, FS_Interval
  <2> QED
    BY <2>1, <2>2, FS_Subset
<1>1. n \in Nat /\ (ids # {} => n # 0)
  BY <1>0, FS_CardinalityType, FS_EmptySet
<1>2. s = CHOOSE z \in [1..n -> ids] : Sorted(z)
  BY DEF Strm!InOrder, Sorted, Strm!Cardinality, Cardinality
<1>3. s \in [1..n -> ids] /\ Sorted(s)
  BY <1>2, OrderExists
<1> HIDE DEF s
<1>4. s \in Injection(1..n, ids)
  <2>1. \A i, j \in 1..n : i # j => s[i] # s[j]
    <3> SUFFICES ASSUME NEW i \in 1..n, NEW j \in 1..n, i < j PROVE s[i] # s[j]
      BY <1>1
    <3>1. s[i] \in ids /\ s[j] \in ids /\ i \in DOMAIN s /\ j \in DOMAIN s
      BY <1>3
    <3>2. s[i] < s[j]
      BY <1>3, <3>1 DEF Sorted
    <3>3. s[i] \in Int /\ s[j] \in Int
      <4>1. s[i] \in 1..MaxEvent /\ s[j] \in 1..MaxEvent
        BY <3>1 DEF Strm!Ids
      <4> QED
        BY <4>1
    <3> QED
      BY <3>2, <3>3
  <2> QED
    BY <1>3, <2>1 DEF Injection, IsInjective
<1>5. Cardinality(1..n) = n
  BY <1>1, FS_Interval
<1>6. s \in Surjection(1..n, ids)
  BY <1>0, <1>4, <1>5, FS_Injection
<1>7. \A e \in ids : \E i \in 1..n : s[i] = e
  BY <1>6 DEF Surjection
<1> QED
  BY <1>1, <1>3, <1>7 DEF s

\* A poll returns ids behind the cursor, in order, and up to the last that it
\* returns it leaves none out.
LEMMA TailFacts ==
  ASSUME NEW c \in Client, Strm!Behind(c) \in SUBSET Strm!Ids, Strm!Behind(c) # {}
  PROVE  /\ Strm!Tail_(c) \in Seq(Strm!Ids) /\ Strm!Tail_(c) # <<>> /\ Sorted(Strm!Tail_(c))
         /\ \A i \in DOMAIN Strm!Tail_(c) : Strm!Tail_(c)[i] \in Strm!Behind(c)
         /\ \A e \in Strm!Behind(c) : \A j \in DOMAIN Strm!Tail_(c) :
              e < Strm!Tail_(c)[j] => \E i \in DOMAIN Strm!Tail_(c) : Strm!Tail_(c)[i] = e
<1> DEFINE B == Strm!Behind(c)
           n == Cardinality(B)
           s == Strm!InOrder(B)
           k == IF Len(s) < Limit THEN Len(s) ELSE Limit
           t == SubSeq(s, 1, k)
<1>1. /\ s \in [1..n -> B] /\ Sorted(s) /\ n \in Nat /\ n # 0
      /\ \A e \in B : \E i \in 1..n : s[i] = e
  BY InOrderFacts
<1>2. Strm!Tail_(c) = t
  BY DEF Strm!Tail_
<1> HIDE DEF s, n
<1>3. s \in Seq(B) /\ Len(s) = n /\ DOMAIN s = 1..n
  BY <1>1
<1>4. k \in 1..n
  BY <1>1, <1>3, StreamAssumption
<1> HIDE DEF k
<1>5. t \in Seq(B) /\ Len(t) = k /\ DOMAIN t = 1..k /\ \A i \in 1..k : t[i] = s[i]
  BY <1>3, <1>4
<1> HIDE DEF t
<1>6. t # <<>> /\ Sorted(t)
  BY <1>1, <1>3, <1>4, <1>5 DEF Sorted
<1>7. \A i \in 1..k : t[i] \in B
  BY <1>5
<1>8. ASSUME NEW e \in B, NEW j \in 1..k, e < t[j]
      PROVE  \E i \in 1..k : t[i] = e
  <2>1. PICK i \in 1..n : s[i] = e
    BY <1>1
  <2>2. s[i] \in Int /\ s[j] \in Int /\ s[i] < s[j] /\ i \in Nat /\ j \in 1..n /\ k \in Nat /\ n \in Nat
    <3>1. s[i] \in 1..MaxEvent /\ j \in 1..n
      BY <1>1, <1>4, <2>1 DEF Strm!Ids
    <3>2. s[j] \in 1..MaxEvent
      BY <1>1, <3>1 DEF Strm!Ids
    <3> QED
      BY <1>1, <1>4, <1>5, <1>8, <2>1, <3>1, <3>2
  <2>3. i < j
    <3> SUFFICES ASSUME j <= i PROVE FALSE
      BY <2>2
    <3>1. CASE i = j
      BY <2>2, <3>1
    <3>2. CASE j < i
      <4>1. s[j] < s[i]
        BY <1>1, <1>3, <2>2, <3>2 DEF Sorted
      <4> QED
        BY <2>2, <4>1
    <3> QED
      BY <2>2, <3>1, <3>2
  <2>4. i \in 1..k
    BY <1>4, <2>2, <2>3
  <2> QED
    BY <1>5, <2>1, <2>4
<1>9. t \in Seq(Strm!Ids)
  <2> HIDE DEF B
  <2>1. B \subseteq Strm!Ids
    BY DEF B
  <2> QED
    BY <1>5, <2>1
<1> QED
  BY <1>2, <1>5, <1>6, <1>7, <1>8, <1>9

LEMMA JoinFacts ==
  ASSUME NEW r \in Seq(Strm!Ids), NEW x \in Seq(Strm!Ids)
  PROVE  /\ r \o x \in Seq(Strm!Ids) /\ Len(r \o x) = Len(r) + Len(x)
         /\ Len(r) \in Nat /\ Len(x) \in Nat
         /\ DOMAIN (r \o x) = 1..(Len(r) + Len(x)) /\ DOMAIN r = 1..Len(r) /\ DOMAIN x = 1..Len(x)
         /\ \A i \in 1..Len(r) : (r \o x)[i] = r[i]
         /\ \A i \in 1..Len(x) : (r \o x)[Len(r) + i] = x[i]
         /\ \A i \in 1..(Len(r) + Len(x)) :
              i \in 1..Len(r) \/ \E j \in 1..Len(x) : i = Len(r) + j
<1>1. Len(r) \in Nat /\ Len(x) \in Nat
  OBVIOUS
<1>2. ASSUME NEW i \in 1..(Len(r) + Len(x)), i \notin 1..Len(r)
      PROVE  \E j \in 1..Len(x) : i = Len(r) + j
  <2>1. i - Len(r) \in 1..Len(x) /\ i = Len(r) + (i - Len(r))
    BY <1>1, <1>2
  <2> QED
    BY <2>1
<1> QED
  BY <1>1, <1>2

\* What has been received is in order and without a gap if all that was sent is.
LEMMA PrefixFacts ==
  ASSUME NEW r \in Seq(Strm!Ids), NEW x \in Seq(Strm!Ids), NEW ids \in SUBSET Strm!Ids,
         Sorted(r \o x), Complete(r \o x, ids)
  PROVE  Sorted(r) /\ Complete(r, ids)
<1> DEFINE w == r \o x
<1>1. /\ DOMAIN w = 1..(Len(r) + Len(x)) /\ DOMAIN r = 1..Len(r) /\ Len(r) \in Nat /\ Len(x) \in Nat
      /\ \A i \in 1..Len(r) : w[i] = r[i] /\ i \in DOMAIN w /\ w[i] \in Nat
      /\ \A i \in DOMAIN w : w[i] \in Nat
  <2>1. \A e \in Strm!Ids : e \in Nat
    BY DEF Strm!Ids
  <2> QED
    BY <2>1, JoinFacts
<1>2. Sorted(w) /\ Complete(w, ids)
  OBVIOUS
<1> HIDE DEF w
<1>3. Sorted(r)
  BY <1>1, <1>2 DEF Sorted
<1>4. ASSUME NEW e \in ids, NEW j \in 1..Len(r), r[1] < e, e < r[j]
      PROVE  \E i \in 1..Len(r) : r[i] = e
  <2>1. 1 \in 1..Len(r) /\ w[1] = r[1] /\ w[j] = r[j]
    BY <1>1
  <2>2. PICK i \in DOMAIN w : w[i] = e
    BY <1>1, <1>2, <1>4, <2>1 DEF Complete
  <2>3. i <= Len(r)
    <3> SUFFICES ASSUME j < i PROVE FALSE
      BY <1>1, <2>2
    <3>1. w[j] < w[i]
      BY <1>1, <1>2 DEF Sorted
    <3>2. w[i] \in Nat /\ w[j] \in Nat /\ w[i] < w[j]
      BY <1>1, <1>4, <2>1, <2>2
    <3> QED
      BY <3>1, <3>2
  <2> QED
    BY <1>1, <2>2, <2>3
<1> QED
  BY <1>1, <1>3, <1>4 DEF Complete

\* A poll goes on where the last one ended.
LEMMA ExtendFacts ==
  ASSUME NEW w \in Seq(Strm!Ids), NEW x \in Seq(Strm!Ids), NEW ids \in SUBSET Strm!Ids,
         Sorted(w), Complete(w, ids), Sorted(x), x # <<>>,
         w # <<>> => \A i \in DOMAIN x : w[Len(w)] < x[i],
         \A e \in ids : \A j \in DOMAIN x :
           e < x[j] /\ (w # <<>> => w[Len(w)] < e) /\ (w = <<>> => x[1] < e) =>
             \E i \in DOMAIN x : x[i] = e
  PROVE  Sorted(w \o x) /\ Complete(w \o x, ids) /\ EndOf(w \o x) = EndOf(x)
<1> DEFINE v == w \o x
           m == Len(w)
           n == Len(x)
<1>1. /\ m \in Nat /\ n \in Nat /\ n # 0 /\ (m = 0 <=> w = <<>>)
      /\ DOMAIN v = 1..(m + n) /\ DOMAIN w = 1..m /\ DOMAIN x = 1..n /\ Len(v) = m + n
      /\ \A i \in 1..m : v[i] = w[i] /\ w[i] \in Nat
      /\ \A i \in 1..n : v[m + i] = x[i] /\ x[i] \in Nat
      /\ \A i \in 1..(m + n) : i \in 1..m \/ \E j \in 1..n : i = m + j
  <2>1. \A e \in Strm!Ids : e \in Nat
    BY DEF Strm!Ids
  <2> QED
    BY <2>1, JoinFacts
<1>2. /\ Sorted(w) /\ Complete(w, ids) /\ Sorted(x)
      /\ m # 0 => \A i \in 1..n : w[m] < x[i]
      /\ \A e \in ids : \A j \in 1..n :
           e < x[j] /\ (m # 0 => w[m] < e) /\ (m = 0 => x[1] < e) => \E i \in 1..n : x[i] = e
  BY <1>1
<1> HIDE DEF v, m, n
<1>3. \A i \in 1..m : m # 0 /\ m \in 1..m /\ w[i] <= w[m]
  <2> SUFFICES ASSUME NEW i \in 1..m PROVE m # 0 /\ m \in 1..m /\ w[i] <= w[m]
    OBVIOUS
  <2>1. m # 0 /\ m \in 1..m /\ w[i] \in Nat /\ w[m] \in Nat
    BY <1>1
  <2>2. CASE i = m
    BY <2>1, <2>2
  <2>3. CASE i < m
    <3>1. i \in DOMAIN w /\ m \in DOMAIN w
      BY <1>1, <2>1
    <3>2. w[i] < w[m]
      BY <1>2, <2>3, <3>1 DEF Sorted
    <3> QED
      BY <2>1, <3>2
  <2> QED
    BY <1>1, <2>1, <2>2, <2>3
<1>4. Sorted(v)
  <2> SUFFICES ASSUME NEW i \in 1..(m + n), NEW j \in 1..(m + n), i < j PROVE v[i] < v[j]
    BY <1>1 DEF Sorted
  <2>1. CASE i \in 1..m /\ j \in 1..m
    BY <1>1, <1>2, <2>1 DEF Sorted
  <2>2. CASE i \in 1..m /\ j \notin 1..m
    <3>1. PICK k \in 1..n : j = m + k
      BY <1>1, <2>2
    <3>2. w[i] <= w[m] /\ w[m] < x[k] /\ v[i] = w[i] /\ v[j] = x[k]
      BY <1>1, <1>2, <1>3, <2>2, <3>1
    <3>3. w[i] \in Nat /\ w[m] \in Nat /\ x[k] \in Nat
      BY <1>1, <1>3, <2>2
    <3> QED
      BY <3>2, <3>3
  <2>3. CASE i \notin 1..m
    <3>1. PICK k \in 1..n : i = m + k
      BY <1>1, <2>3
    <3>2. j \notin 1..m
      BY <1>1, <3>1
    <3>3. PICK l \in 1..n : j = m + l
      BY <1>1, <3>2
    <3>4. k < l
      BY <1>1, <3>1, <3>3
    <3>5. x[k] < x[l]
      BY <1>1, <1>2, <3>4 DEF Sorted
    <3> QED
      BY <1>1, <3>1, <3>3, <3>5
  <2> QED
    BY <2>1, <2>2, <2>3
<1>5. ASSUME NEW e \in ids, NEW j \in 1..(m + n), v[1] < e, e < v[j]
      PROVE  \E i \in 1..(m + n) : v[i] = e
  <2>0. e \in Nat
    BY DEF Strm!Ids
  <2>1. CASE m # 0 /\ e <= w[m]
    <3>0. m \in 1..m /\ 1 \in 1..m /\ v[1] = w[1] /\ w[m] \in Nat
      BY <1>1, <2>1
    <3>1. CASE e = w[m]
      BY <1>1, <3>0, <3>1
    <3>2. CASE e < w[m]
      <4>1. PICK i \in 1..m : w[i] = e
        BY <1>1, <1>2, <1>5, <3>0, <3>2 DEF Complete
      <4> QED
        BY <1>1, <4>1
    <3> QED
      BY <2>0, <2>1, <3>0, <3>1, <3>2
  <2>2. CASE ~(m # 0 /\ e <= w[m])
    <3>1. m # 0 => w[m] < e
      BY <1>1, <1>3, <2>0, <2>2
    <3>2. m = 0 => x[1] < e
      <4> SUFFICES ASSUME m = 0 PROVE x[1] < e
        OBVIOUS
      <4>1. v[0 + 1] = x[1]
        BY <1>1
      <4> QED
        BY <1>5, <4>1
    <3>3. j \notin 1..m
      <4> SUFFICES ASSUME j \in 1..m PROVE FALSE
        OBVIOUS
      <4>1. w[j] <= w[m] /\ w[m] < e /\ w[j] \in Nat /\ w[m] \in Nat /\ v[j] = w[j]
        BY <1>1, <1>3, <3>1
      <4> QED
        BY <1>5, <2>0, <4>1
    <3>4. PICK k \in 1..n : j = m + k
      BY <1>1, <3>3
    <3>5. e < x[k]
      BY <1>1, <1>5, <3>4
    <3>6. PICK i \in 1..n : x[i] = e
      BY <1>2, <3>1, <3>2, <3>5
    <3>7. m + i \in 1..(m + n) /\ v[m + i] = e
      BY <1>1, <3>6
    <3> QED
      BY <3>7
  <2> QED
    BY <2>1, <2>2
<1>6. v[m + n] = x[n]
  BY <1>1
<1> QED
  BY <1>1, <1>4, <1>5, <1>6 DEF Complete, EndOf, v, m, n

LEMMA StreamStarts == ServicesInit => StreamInv
<1> SUFFICES ASSUME Strm!Init PROVE StreamInv
  BY DEF ServicesInit
<1>1. Strm!TypeOK
  BY StreamAssumption DEF Strm!Init, Strm!TypeOK, Strm!Ids
<1>2. ASSUME NEW c \in Client PROVE ClientInv(c)
  <2>1. received[c] = <<>> /\ wire[c] = <<>> /\ cursor[c] = -1
    BY DEF Strm!Init
  <2>2. OnTheWay(c) = <<>>
    BY <2>1 DEF OnTheWay
  <2> QED
    BY <2>1, <2>2 DEF ClientInv, Sorted, Complete
<1> QED
  BY <1>1, <1>2 DEF StreamInv

\* A client that has no part in a step keeps what it has.
LEMMA ClientWaits ==
  ASSUME NEW c \in Client, ClientInv(c), UNCHANGED <<visible, late>>,
         received'[c] = received[c], wire'[c] = wire[c], cursor'[c] = cursor[c]
  PROVE  ClientInv(c)'
BY DEF ClientInv, OnTheWay

\* An event that becomes visible is behind what a client has seen, or late.
LEMMA CommitKeepsStream ==
  ASSUME StreamInv, NEW e \in Strm!Ids, Strm!CommitEvent(e)
  PROVE  StreamInv'
<1>1. /\ e \in pending /\ pending' = pending \ {e} /\ visible' = visible \cup {e}
      /\ late' = IF \E d \in visible : d > e THEN late \cup {e} ELSE late
      /\ UNCHANGED <<nextId, cursor, wire, received, closed, drops>>
  BY DEF Strm!CommitEvent, Strm!streamVars
<1>2. Strm!TypeOK'
  BY <1>1 DEF StreamInv, Strm!TypeOK
<1>3. ASSUME NEW c \in Client PROVE ClientInv(c)'
  <2> DEFINE w == OnTheWay(c)
  <2>1. w' = w
    BY <1>1 DEF OnTheWay
  <2>2. ASSUME NEW d \in visible' \ late', NEW j \in DOMAIN w, w[1] < d, d < w[j]
        PROVE  \E i \in DOMAIN w : w[i] = d
    <3>1. w[j] \in visible
      BY DEF StreamInv, ClientInv
    <3>2. d = e => \E f \in visible : f > e
      BY <2>2, <3>1
    <3>3. d \in visible \ late
      BY <1>1, <3>2
    <3> QED
      BY <2>2, <3>3 DEF StreamInv, ClientInv, Complete
  <2>3. Complete(w, visible' \ late')
    BY <2>2 DEF Complete
  <2> HIDE DEF w
  <2> QED
    BY <1>1, <2>1, <2>3 DEF StreamInv, ClientInv, w
<1> QED
  BY <1>2, <1>3 DEF StreamInv

LEMMA SequencesOfIds ==
  ASSUME StreamInv, NEW c \in Client
  PROVE  /\ received[c] \in Seq(Strm!Ids) /\ wire[c] \in Seq(Strm!Ids)
         /\ OnTheWay(c) \in Seq(Strm!Ids) /\ cursor[c] \in -1..MaxEvent
         /\ visible \ late \in SUBSET Strm!Ids /\ ClientInv(c)
  BY JoinFacts DEF StreamInv, Strm!TypeOK, OnTheWay

LEMMA JoinIsAssociative ==
  ASSUME NEW r \in Seq(Strm!Ids), NEW y \in Seq(Strm!Ids), NEW x \in Seq(Strm!Ids)
  PROVE  r \o (y \o x) = (r \o y) \o x
<1> HIDE DEF Strm!Ids
<1> QED
  OBVIOUS

LEMMA FlushKeepsStream ==
  ASSUME StreamInv, NEW c \in Client, Strm!Flush(c)
  PROVE  StreamInv'
<1> DEFINE w == OnTheWay(c)
           x == Strm!Tail_(c)
<1>1. /\ cursor[c] # -1 /\ Strm!Behind(c) # {}
      /\ wire' = [wire EXCEPT ![c] = @ \o x] /\ cursor' = [cursor EXCEPT ![c] = Strm!Last(x)]
      /\ UNCHANGED <<pending, visible, nextId, late, received, closed, drops>>
  BY DEF Strm!Flush, Strm!logVars
<1>2. Strm!Behind(c) \in SUBSET Strm!Ids /\ Strm!Behind(c) \subseteq visible
  BY DEF Strm!Behind, StreamInv, Strm!TypeOK
<1>3. /\ x \in Seq(Strm!Ids) /\ x # <<>> /\ Sorted(x)
      /\ \A i \in DOMAIN x : x[i] \in Strm!Behind(c)
      /\ \A e \in Strm!Behind(c) : \A j \in DOMAIN x : e < x[j] => \E i \in DOMAIN x : x[i] = e
  BY <1>1, <1>2, TailFacts
<1> HIDE DEF x
<1>4. Len(x) \in Nat \ {0} /\ Len(x) \in DOMAIN x /\ 1 \in DOMAIN x /\ Strm!Last(x) = x[Len(x)]
  BY <1>3 DEF Strm!Last
<1>5. /\ received[c] \in Seq(Strm!Ids) /\ wire[c] \in Seq(Strm!Ids) /\ w \in Seq(Strm!Ids)
      /\ cursor[c] \in -1..MaxEvent /\ visible \ late \in SUBSET Strm!Ids /\ ClientInv(c)
  BY SequencesOfIds
<1>6. /\ wire'[c] = wire[c] \o x /\ cursor'[c] = x[Len(x)]
      /\ \A d \in Client \ {c} : wire'[d] = wire[d] /\ cursor'[d] = cursor[d]
  BY <1>1, <1>4 DEF StreamInv, Strm!TypeOK
<1>7. OnTheWay(c)' = w \o x
  <2>1. OnTheWay(c)' = received[c] \o (wire[c] \o x)
    BY <1>1, <1>6 DEF OnTheWay
  <2>2. w = received[c] \o wire[c]
    BY DEF OnTheWay
  <2>3. received[c] \o (wire[c] \o x) = (received[c] \o wire[c]) \o x
    <3> HIDE DEF w
    <3> QED
      BY <1>3, <1>5, JoinIsAssociative, Zenon
  <2> QED
    BY <2>1, <2>2, <2>3
<1>8. w # <<>> => cursor[c] = w[Len(w)]
  BY <1>1, <1>5 DEF ClientInv, EndOf
<1>9. \A i \in DOMAIN x : x[i] \in visible /\ cursor[c] < x[i]
  BY <1>3 DEF Strm!Behind
<1>10. ASSUME NEW e \in visible \ late, NEW j \in DOMAIN x,
              e < x[j], w # <<>> => w[Len(w)] < e, w = <<>> => x[1] < e
       PROVE  \E i \in DOMAIN x : x[i] = e
  <2>1. cursor[c] < e
    <3>1. CASE w # <<>>
      BY <1>8, <1>10, <3>1
    <3>2. CASE w = <<>>
      <4>1. cursor[c] < x[1] /\ x[1] < e
        BY <1>4, <1>9, <1>10, <3>2
      <4>2. cursor[c] \in Int /\ x[1] \in Int /\ e \in Int
        BY <1>2, <1>3, <1>4, <1>5 DEF Strm!Ids
      <4> QED
        BY <4>1, <4>2
    <3> QED
      BY <3>1, <3>2
  <2>2. e \in Strm!Behind(c)
    BY <2>1 DEF Strm!Behind
  <2> QED
    BY <1>3, <1>10, <2>2
<1> HIDE DEF w
<1>11. Sorted(w \o x) /\ Complete(w \o x, visible \ late) /\ EndOf(w \o x) = EndOf(x)
  <2>1. Sorted(w) /\ Complete(w, visible \ late)
    BY <1>5 DEF ClientInv, w
  <2>2. w # <<>> => \A i \in DOMAIN x : w[Len(w)] < x[i]
    BY <1>8, <1>9
  <2> QED
    BY <1>3, <1>5, <1>10, <2>1, <2>2, ExtendFacts
<1>12. \A i \in DOMAIN (w \o x) : (w \o x)[i] \in visible
  <2>1. \A i \in DOMAIN w : w[i] \in visible
    BY <1>5 DEF ClientInv, w
  <2>2. ASSUME NEW i \in 1..(Len(w) + Len(x)) PROVE (w \o x)[i] \in visible
    <3>1. CASE i \in 1..Len(w)
      BY <1>3, <1>5, <2>1, <3>1, JoinFacts
    <3>2. CASE i \notin 1..Len(w)
      <4>1. PICK j \in 1..Len(x) : i = Len(w) + j
        BY <1>3, <1>5, <3>2, JoinFacts
      <4> QED
        BY <1>3, <1>5, <1>9, <4>1, JoinFacts
    <3> QED
      BY <3>1, <3>2
  <2> QED
    BY <1>3, <1>5, <2>2, JoinFacts
<1>13. x[Len(x)] \in Strm!Ids
  BY <1>3, <1>4
<1>14. ClientInv(c)'
  <2>1. cursor'[c] # -1
    <3>1. x[Len(x)] \in 1..MaxEvent
      BY <1>13 DEF Strm!Ids
    <3> QED
      BY <1>6, <3>1
  <2>2. cursor'[c] = EndOf(OnTheWay(c)')
    BY <1>6, <1>7, <1>11 DEF EndOf
  <2> QED
    BY <1>1, <1>7, <1>11, <1>12, <2>1, <2>2 DEF ClientInv
<1>15. \A d \in Client \ {c} : ClientInv(d)'
  BY <1>1, <1>6, ClientWaits DEF StreamInv
<1>16. Strm!TypeOK'
  <2>1. wire[c] \o x \in Seq(Strm!Ids) /\ x[Len(x)] \in -1..MaxEvent
    BY <1>3, <1>5, <1>13 DEF Strm!Ids
  <2> QED
    BY <1>1, <1>4, <2>1 DEF StreamInv, Strm!TypeOK
<1> QED
  BY <1>14, <1>15, <1>16 DEF StreamInv

LEMMA ReceiveKeepsStream ==
  ASSUME StreamInv, NEW c \in Client, Strm!Receive(c)
  PROVE  StreamInv'
<1> DEFINE r == received[c]
           s == wire[c]
<1>1. /\ s # <<>> /\ received' = [received EXCEPT ![c] = Append(r, Head(s))]
      /\ wire' = [wire EXCEPT ![c] = Tail(s)]
      /\ UNCHANGED <<pending, visible, nextId, late, cursor, closed, drops>>
  BY DEF Strm!Receive, Strm!logVars
<1>2. /\ r \in Seq(Strm!Ids) /\ s \in Seq(Strm!Ids) /\ ClientInv(c)
      /\ cursor \in [Client -> -1..MaxEvent]
      /\ received \in [Client -> Seq(Strm!Ids)] /\ wire \in [Client -> Seq(Strm!Ids)]
  BY DEF StreamInv, Strm!TypeOK
<1>3. /\ received'[c] = Append(r, Head(s)) /\ wire'[c] = Tail(s)
      /\ \A d \in Client \ {c} : received'[d] = received[d] /\ wire'[d] = wire[d]
  BY <1>1, <1>2
<1> HIDE DEF r, s
<1>4. /\ Head(s) \in Strm!Ids /\ Tail(s) \in Seq(Strm!Ids) /\ Append(r, Head(s)) \in Seq(Strm!Ids)
      /\ Append(r, Head(s)) \o Tail(s) = r \o s
  <2>1. Head(s) \in Strm!Ids /\ Tail(s) \in Seq(Strm!Ids)
    BY <1>1, <1>2
  <2>2. Append(r, Head(s)) \in Seq(Strm!Ids)
    BY <1>2, <2>1
  <2>3. Append(r, Head(s)) \o Tail(s) = r \o s
    BY <1>1, <1>2
  <2> QED
    BY <2>1, <2>2, <2>3
<1>5. OnTheWay(c)' = OnTheWay(c)
  BY <1>3, <1>4 DEF OnTheWay, r, s
<1>6. ClientInv(c)'
  <2>1. cursor[c] # -1
    BY <1>1, <1>2 DEF ClientInv, s
  <2> HIDE DEF OnTheWay
  <2> QED
    BY <1>1, <1>2, <1>5, <2>1 DEF ClientInv
<1>7. \A d \in Client \ {c} : ClientInv(d)'
  BY <1>1, <1>3, ClientWaits DEF StreamInv
<1>8. Strm!TypeOK'
  BY <1>1, <1>2, <1>4 DEF StreamInv, Strm!TypeOK, r, s
<1> QED
  BY <1>6, <1>7, <1>8 DEF StreamInv

\* What was on its way is lost, and the cursor with it: what has been received
\* is in order as it is.
LEMMA DropKeepsStream ==
  ASSUME StreamInv, NEW c \in Client, Strm!Drop(c)
  PROVE  StreamInv'
<1>1. /\ drops < MaxDrops /\ drops' = drops + 1
      /\ cursor' = [cursor EXCEPT ![c] = -1] /\ wire' = [wire EXCEPT ![c] = <<>>]
      /\ UNCHANGED <<pending, visible, nextId, late, received, closed>>
  BY DEF Strm!Drop, Strm!logVars
<1>2. /\ received[c] \in Seq(Strm!Ids) /\ wire[c] \in Seq(Strm!Ids)
      /\ visible \ late \in SUBSET Strm!Ids /\ ClientInv(c)
  BY SequencesOfIds
<1>3. /\ cursor'[c] = -1 /\ wire'[c] = <<>>
      /\ \A d \in Client \ {c} : cursor'[d] = cursor[d] /\ wire'[d] = wire[d]
  BY <1>1 DEF StreamInv, Strm!TypeOK
<1>4. OnTheWay(c)' = received[c]
  <2>1. received[c] \o <<>> = received[c]
    BY <1>2
  <2> QED
    BY <1>1, <1>3, <2>1 DEF OnTheWay
<1>5. Sorted(received[c]) /\ Complete(received[c], visible \ late)
  BY <1>2, PrefixFacts DEF ClientInv, OnTheWay
<1>6. \A i \in DOMAIN received[c] : received[c][i] \in visible
  <2>1. \A i \in 1..Len(received[c]) : i \in DOMAIN OnTheWay(c) /\ OnTheWay(c)[i] = received[c][i]
    <3> DEFINE r == received[c]
               y == wire[c]
    <3>1. r \in Seq(Strm!Ids) /\ y \in Seq(Strm!Ids)
      BY <1>2
    <3> HIDE DEF r, y
    <3>2. \A i \in 1..Len(r) : i \in DOMAIN (r \o y) /\ (r \o y)[i] = r[i]
      BY <3>1, JoinFacts
    <3> QED
      BY <3>2 DEF OnTheWay, r, y
  <2> QED
    BY <1>2, <2>1 DEF ClientInv
<1>7. ClientInv(c)'
  BY <1>1, <1>3, <1>4, <1>5, <1>6 DEF ClientInv
<1>8. \A d \in Client \ {c} : ClientInv(d)'
  BY <1>1, <1>3, ClientWaits DEF StreamInv
<1>9. Strm!TypeOK'
  <2>1. <<>> \in Seq(Strm!Ids) /\ -1 \in -1..MaxEvent /\ drops + 1 \in 0..MaxDrops
    BY <1>1, StreamAssumption DEF StreamInv, Strm!TypeOK
  <2> QED
    BY <1>1, <2>1 DEF StreamInv, Strm!TypeOK
<1> QED
  BY <1>7, <1>8, <1>9 DEF StreamInv

\* A refusal changes nothing that has been received or is on its way.
LEMMA RefuseKeepsStream ==
  ASSUME StreamInv, NEW c \in Client, Strm!Refuse(c)
  PROVE  StreamInv'
<1>1. /\ closed' = closed \cup {c}
      /\ UNCHANGED <<pending, visible, nextId, late, cursor, wire, received, drops>>
  BY DEF Strm!Refuse, Strm!logVars
<1>2. Strm!TypeOK'
  BY <1>1 DEF StreamInv, Strm!TypeOK
<1> QED
  BY <1>1, <1>2, ClientWaits DEF StreamInv

\* A client that has seen something goes on where it was; nothing is on its way.
LEMMA ConnectKeepsStream ==
  ASSUME StreamInv, NEW c \in Client, Strm!Connect(c)
  PROVE  StreamInv'
<1> DEFINE r == received[c]
           back == IF r # <<>> THEN Strm!Last(r) ELSE Strm!AtLeastZero(Strm!LatestId - Recent)
<1>1. /\ cursor[c] = -1 /\ cursor' = [cursor EXCEPT ![c] = back]
      /\ UNCHANGED <<pending, visible, nextId, late, wire, received, closed, drops>>
  BY DEF Strm!Connect, Strm!logVars
<1>2. r \in Seq(Strm!Ids) /\ wire[c] = <<>> /\ ClientInv(c) /\ visible \in SUBSET Strm!Ids
  BY <1>1 DEF StreamInv, Strm!TypeOK, ClientInv
<1>3. OnTheWay(c) = r
  BY <1>2 DEF OnTheWay
<1>4. r # <<>> => Strm!Last(r) = EndOf(r) /\ EndOf(r) \in Strm!Ids
  BY <1>2 DEF Strm!Last, EndOf
<1>5. Strm!LatestId \in 0..MaxEvent
  <2>1. CASE visible = {}
    BY <2>1, StreamAssumption DEF Strm!LatestId
  <2>2. CASE visible # {}
    <3>1. \E e \in visible : \A d \in visible : d <= e
      <4> DEFINE Below == {MaxEvent - e : e \in visible}
      <4>1. \A e \in visible : e \in Nat /\ e <= MaxEvent /\ MaxEvent \in Nat
        BY <1>2, StreamAssumption DEF Strm!Ids
      <4>2. Below \in SUBSET Nat /\ Below # {}
        BY <2>2, <4>1
      <4>3. PICK n \in Below : \A k \in Below : n <= k
        <5> HIDE DEF Below
        <5> QED
          BY <4>2, Least
      <4>4. PICK e \in visible : n = MaxEvent - e
        BY <4>3
      <4>5. ASSUME NEW d \in visible PROVE d <= e
        <5>1. MaxEvent - d \in Below
          OBVIOUS
        <5>2. MaxEvent - e <= MaxEvent - d
          BY <4>3, <4>4, <5>1
        <5> QED
          BY <4>1, <5>2
      <4> QED
        BY <4>5
    <3>2. Strm!LatestId \in visible
      BY <2>2, <3>1 DEF Strm!LatestId
    <3> QED
      BY <1>2, <3>2 DEF Strm!Ids
  <2> QED
    BY <2>1, <2>2
<1>6. Strm!AtLeastZero(Strm!LatestId - Recent) \in 0..MaxEvent
  BY <1>5, StreamAssumption DEF Strm!AtLeastZero
<1>7. back \in 0..MaxEvent
  BY <1>4, <1>6 DEF Strm!Ids
<1> HIDE DEF back
<1>8. cursor'[c] = back /\ \A d \in Client \ {c} : cursor'[d] = cursor[d]
  BY <1>1 DEF StreamInv, Strm!TypeOK
<1>9. ClientInv(c)'
  <2>1. OnTheWay(c)' = OnTheWay(c)
    BY <1>1 DEF OnTheWay
  <2>2. back # -1
    BY <1>7
  <2>3. r # <<>> => back = EndOf(r)
    BY <1>4 DEF back
  <2> HIDE DEF r
  <2> QED
    BY <1>1, <1>2, <1>3, <1>8, <2>1, <2>2, <2>3 DEF ClientInv
<1>10. \A d \in Client \ {c} : ClientInv(d)'
  BY <1>1, <1>8, ClientWaits DEF StreamInv
<1>11. Strm!TypeOK'
  <2>1. back \in -1..MaxEvent
    BY <1>7
  <2> QED
    BY <1>1, <2>1 DEF StreamInv, Strm!TypeOK
<1> QED
  BY <1>9, <1>10, <1>11 DEF StreamInv

LEMMA StreamStays ==
  ASSUME StreamInv, [Strm!Next]_(Strm!vars)
  PROVE  StreamInv'
<1>1. CASE UNCHANGED Strm!vars
  BY <1>1 DEF StreamInv, Strm!TypeOK, ClientInv, OnTheWay, Strm!vars, Strm!logVars, Strm!streamVars
<1>2. ASSUME Strm!Publish PROVE StreamInv'
  <2>1. nextId <= MaxEvent /\ pending' = pending \cup {nextId} /\ nextId' = nextId + 1
        /\ UNCHANGED <<visible, late, cursor, wire, received, closed, drops>>
    BY <1>2 DEF Strm!Publish, Strm!streamVars
  <2>2. nextId \in Strm!Ids /\ nextId + 1 \in 1..(MaxEvent + 1)
    BY <2>1, StreamAssumption DEF StreamInv, Strm!TypeOK, Strm!Ids
  <2>3. Strm!TypeOK'
    BY <2>1, <2>2 DEF StreamInv, Strm!TypeOK
  <2> QED
    BY <2>1, <2>3, ClientWaits DEF StreamInv
<1>3. ASSUME NEW e \in Strm!Ids, Strm!FailEvent(e) PROVE StreamInv'
  <2>1. pending' = pending \ {e} /\ UNCHANGED <<visible, nextId, late, cursor, wire, received, closed, drops>>
    BY <1>3 DEF Strm!FailEvent, Strm!streamVars
  <2>2. Strm!TypeOK'
    BY <2>1 DEF StreamInv, Strm!TypeOK
  <2> QED
    BY <2>1, <2>2, ClientWaits DEF StreamInv
<1>4. ASSUME NEW c \in Client,
             \/ Strm!Connect(c) \/ Strm!Refuse(c) \/ Strm!Flush(c)
             \/ Strm!Receive(c) \/ Strm!Drop(c)
      PROVE  StreamInv'
  BY <1>4, ConnectKeepsStream, RefuseKeepsStream, FlushKeepsStream, ReceiveKeepsStream,
     DropKeepsStream
<1> QED
  BY <1>1, <1>2, <1>3, <1>4, CommitKeepsStream DEF Strm!Next

LEMMA StreamSuffices == StreamInv => Strm!TypeOK /\ Strm!SeenInOrder
<1> SUFFICES ASSUME StreamInv PROVE Strm!SeenInOrder
  BY DEF StreamInv
<1> SUFFICES ASSUME NEW c \in Client
             PROVE  LET r == received[c]
                    IN /\ \A i \in 1..(Len(r) - 1) : r[i] < r[i + 1]
                       /\ r # <<>> => \A e \in visible \ late :
                            r[1] < e /\ e < Strm!Last(r) => e \in Strm!ToSet(r)
  BY DEF Strm!SeenInOrder
<1> DEFINE r == received[c]
<1>1. r \in Seq(Strm!Ids) /\ wire[c] \in Seq(Strm!Ids) /\ visible \ late \in SUBSET Strm!Ids
  BY SequencesOfIds
<1>2. Sorted(r) /\ Complete(r, visible \ late)
  BY <1>1, SequencesOfIds, PrefixFacts DEF ClientInv, OnTheWay
<1> HIDE DEF r
<1>3. Len(r) \in Nat /\ DOMAIN r = 1..Len(r)
  BY <1>1
<1>4. \A i \in 1..(Len(r) - 1) : r[i] < r[i + 1]
  BY <1>2, <1>3 DEF Sorted
<1>5. ASSUME r # <<>>, NEW e \in visible \ late, r[1] < e, e < Strm!Last(r)
      PROVE  e \in Strm!ToSet(r)
  <2>1. Len(r) \in DOMAIN r /\ Strm!Last(r) = r[Len(r)]
    BY <1>1, <1>3, <1>5 DEF Strm!Last
  <2>2. \E i \in DOMAIN r : r[i] = e
    BY <1>2, <1>5, <2>1 DEF Complete
  <2> QED
    BY <2>2 DEF Strm!ToSet
<1> QED
  BY <1>4, <1>5 DEF r

-----------------------------------------------------------------------------
(***************************************************************************)
(* All of the services: a step is of one of them, and stutters for the     *)
(* others.                                                                 *)
(***************************************************************************)
LEMMA StepIsOfOneService ==
  ASSUME [ServicesNext]_all
  PROVE  /\ [Next]_evalVars /\ [Strm!Next]_(Strm!vars) /\ [Page!Next]_(Page!dashVars)
         /\ [Rate!Next]_(Rate!limiterVars) /\ [Ai!Next]_(Ai!gatewayVars)
         /\ [Daily!Next]_(Daily!limitVars) /\ UNCHANGED service
<1> DEFINE Waits(me) ==
      /\ me # "evaluation" => UNCHANGED evalVars
      /\ me # "stream" => UNCHANGED Strm!vars
      /\ me # "dashboard" => UNCHANGED Page!dashVars
      /\ me # "limiter" => UNCHANGED Rate!limiterVars
      /\ me # "gateway" => UNCHANGED Ai!gatewayVars
      /\ me # "daily" => UNCHANGED Daily!limitVars
<1>1. ASSUME NEW me, Rest(me) PROVE Waits(me) /\ UNCHANGED service
  <2>1. UNCHANGED streamState => UNCHANGED Strm!vars
    BY DEF streamState, Strm!vars, Strm!logVars, Strm!streamVars
  <2>2. UNCHANGED dashboardState => UNCHANGED Page!dashVars
    BY DEF dashboardState, Page!dashVars
  <2>3. UNCHANGED limiterState => UNCHANGED Rate!limiterVars
    BY DEF limiterState, Rate!limiterVars
  <2>4. UNCHANGED gatewayState => UNCHANGED Ai!gatewayVars
    BY DEF gatewayState, Ai!gatewayVars, Ai!callVars
  <2>5. UNCHANGED dailyState => UNCHANGED Daily!limitVars
    BY DEF dailyState, Daily!limitVars
  <2> QED
    BY <1>1, <2>1, <2>2, <2>3, <2>4, <2>5 DEF Rest
<1>2. CASE UNCHANGED all
  <2>1. UNCHANGED Strm!vars /\ UNCHANGED Page!dashVars
    BY <1>2 DEF all, streamState, dashboardState, Strm!vars, Strm!logVars, Strm!streamVars,
       Page!dashVars
  <2>2. UNCHANGED Rate!limiterVars /\ UNCHANGED Ai!gatewayVars /\ UNCHANGED Daily!limitVars
    BY <1>2 DEF all, limiterState, gatewayState, dailyState, Rate!limiterVars, Ai!gatewayVars,
       Ai!callVars, Daily!limitVars
  <2> QED
    BY <1>2, <2>1, <2>2 DEF all
<1> HIDE DEF Waits
<1>3. CASE Next /\ Rest("evaluation")
  BY <1>1, <1>3 DEF Waits
<1>4. CASE Strm!Next /\ Rest("stream")
  BY <1>1, <1>4 DEF Waits
<1>5. CASE Page!Next /\ Rest("dashboard")
  BY <1>1, <1>5 DEF Waits
<1>6. CASE Rate!Next /\ Rest("limiter")
  BY <1>1, <1>6 DEF Waits
<1>7. CASE Ai!Next /\ Rest("gateway")
  BY <1>1, <1>7 DEF Waits
<1>8. CASE Daily!Next /\ Rest("daily")
  BY <1>1, <1>8 DEF Waits
<1> QED
  BY <1>2, <1>3, <1>4, <1>5, <1>6, <1>7, <1>8 DEF ServicesNext

ServicesInv ==
  EvaluationInv /\ StreamInv /\ PageInv /\ Rate!TypeOK /\ GatewayInv /\ DailyInv

LEMMA ServicesStart == ServicesInit => ServicesInv
BY EvaluationInvStarts, StreamStarts, PageStarts, LimiterStarts, GatewayInvStarts, DailyStarts
   DEF ServicesInv

LEMMA ServicesStay ==
  ASSUME ServicesInv, [ServicesNext]_all
  PROVE  /\ ServicesInv'
         /\ [Ai!Day!Next]_<<today, Uncounted>> /\ DailyStep
         /\ [AnswersLeaveAnExpiry]_(Rate!limiterVars)
         /\ [data'.org = data.org => data'.version >= data.version]_(Page!dashVars)
BY StepIsOfOneService, EvaluationInvStays, StreamStays, PageStays, LimiterStays, GatewayInvStays,
   DailyStays DEF ServicesInv

\* A workspace is evaluated once a slot and an experiment that hardly anybody
\* saw is not judged; a client sees the events in their order and, but for the
\* late ones, without a gap; a task overruns its budget by one answer and makes
\* no more requests than providers allow; a page at rest shows the workspace
\* that it names, if no other tab has turned to another, and nothing older than
\* the last action that reloaded it: whatever the sizes of all of these.
THEOREM LiveIsSafe == ServicesSpec => []OnceAndInOrder
<1>1. ServicesInit => ServicesInv
  BY ServicesStart
<1>2. ServicesInv /\ [ServicesNext]_all => ServicesInv'
  BY ServicesStay
<1>3. ServicesInv => OnceAndInOrder
  BY EvaluationInvSuffices, StreamSuffices, PageInvSuffices, GatewayInvSuffices, DailySuffices
     DEF ServicesInv, OnceAndInOrder
<1> QED
  BY <1>1, <1>2, <1>3, PTL DEF ServicesSpec

\* The budget guard of the gateway, and the daily limit of a policy, implement
\* an allowance: every step of either is one of the abstract specification, or
\* none.
THEOREM AllowancesAreKept == ServicesSpec => AllowancesKept
<1>1. ServicesInit => ServicesInv /\ Ai!Day!Init /\ Daily!Day!Init
  BY ServicesStart, DailyStarts DEF ServicesInit, Ai!Init, Ai!Day!Init
<1>2. ServicesInv /\ [ServicesNext]_all => ServicesInv'
  BY ServicesStay
<1>3. ServicesInv /\ [ServicesNext]_all =>
        [Ai!Day!Next]_<<today, {t \in Task : aiAt[t] \in {"admitted", "answered"}}>>
  BY ServicesStay DEF Uncounted
<1>4. ServicesInv /\ [ServicesNext]_all =>
        [Daily!Day!Next]_<<entries, {a \in Act : decided[a] = "allow"}>>
  BY ServicesStay DEF DailyStep, Unrecorded
<1>5. ServicesSpec => Ai!Day!Spec
  BY <1>1, <1>2, <1>3, PTL DEF ServicesSpec, Ai!Day!Spec
<1>6. ServicesSpec => Daily!Day!Spec
  BY <1>1, <1>2, <1>4, PTL DEF ServicesSpec, Daily!Day!Spec
<1> QED
  BY <1>5, <1>6 DEF AllowancesKept, Ai!KeepsDailyBudget, Daily!KeepsDailyLimit

\* However many ask at once, what is counted exceeds the limit by no more than
\* all of them may count after a check: for any limit, estimate and price, of
\* the budget of a day and of the limit of a policy.
THEOREM OverrunBound ==
  ServicesSpec => [](Ai!DailyOverrunIsBounded /\ Daily!Day!OverrunIsBounded)
<1>1. ServicesInit => ServicesInv
  BY ServicesStart
<1>2. ServicesInv /\ [ServicesNext]_all => ServicesInv'
  BY ServicesStay
<1>3. ServicesInv => Ai!DailyOverrunIsBounded /\ Daily!Day!OverrunIsBounded
  BY GatewayInvSuffices, DailySuffices DEF ServicesInv
<1> QED
  BY <1>1, <1>2, <1>3, PTL DEF ServicesSpec

\* No step takes the expiry of a key from it once a hit has answered, and none
\* shows an older answer of the workspace that the page shows.
THEOREM NothingGoesBackEver == ServicesSpec => NothingGoesBack
<1>1. ServicesInit => ServicesInv
  BY ServicesStart
<1>2. ServicesInv /\ [ServicesNext]_all => ServicesInv'
  BY ServicesStay
<1>3. ServicesInv /\ [ServicesNext]_all => [AnswersLeaveAnExpiry]_(Rate!limiterVars)
  BY ServicesStay
<1>4. ServicesInv /\ [ServicesNext]_all =>
        [data'.org = data.org => data'.version >= data.version]_(Page!dashVars)
  BY ServicesStay
<1>5. ServicesSpec => [][AnswersLeaveAnExpiry]_(Rate!limiterVars)
  BY <1>1, <1>2, <1>3, PTL DEF ServicesSpec
<1>6. ServicesSpec => [][data'.org = data.org => data'.version >= data.version]_(Page!dashVars)
  BY <1>1, <1>2, <1>4, PTL DEF ServicesSpec
<1> QED
  BY <1>5, <1>6 DEF NothingGoesBack, Rate!AnsweredKeyExpires, Page!NeverGoesBack,
     AnswersLeaveAnExpiry
=============================================================================
