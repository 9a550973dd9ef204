-------------------------- MODULE CampaignsProofs --------------------------
(***************************************************************************)
(* Outreach campaigns, for any number of campaigns, messages, addresses,   *)
(* requests and overlapping sends: no mail without a licence, none to an   *)
(* address that was suppressed when the send began, nothing left behind    *)
(* by a campaign that counts as sent, and the daily cap while sends follow *)
(* one another.                                                            *)
(***************************************************************************)
EXTENDS Campaigns, FiniteSetTheorems, TLAPS

-----------------------------------------------------------------------------
(* Types *)

\* A budget is a number of messages because those sent today are counted,
\* and stays one because only a message that is paid for is mailed.
BudgetInv ==
  /\ IsFiniteSet(SentToday)
  /\ \A s \in Sender : sendPhase[s] = "mailing" => budget[s] > 0

TypeInv == TypeOK /\ BudgetInv

CampTypeOK ==
  /\ campStatus \in [Campaign -> CampStatus]
  /\ approvalOf \in [Campaign -> Approval \cup {NoApproval}]

SendTypeOK ==
  /\ sendPhase \in [Sender -> SendPhase]
  /\ sendOn \in [Sender -> Campaign \cup {NoCampaign}]
  /\ known \in [Sender -> SUBSET Address]
  /\ budget \in [Sender -> 0..DailyCap]
  /\ todo \in [Sender -> SUBSET Message]
  /\ deferred \in [Sender -> BOOLEAN]
  /\ current \in [Sender -> Message \cup {NoMessage}]
  /\ reply \in [Sender -> Reply]
  /\ overlapped \in BOOLEAN

AskTypeOK ==
  /\ askPhase \in [Asker -> AskPhase]
  /\ askOn \in [Asker -> Campaign \cup {NoCampaign}]
  /\ askGot \in [Asker -> Approval \cup {NoApproval}]
  /\ asks \in 0..MaxAsks
  /\ autonomous \in [Campaign -> Nat]

BoxTypeOK ==
  /\ creating \in [Campaign -> SUBSET Message] /\ late \subseteq Message
  /\ msgStatus \in [Message -> MsgStatus]
  /\ suppressed \subseteq Address
  /\ mailed \in [Message -> Nat]
  /\ about \in [Approval -> Campaign \cup {NoCampaign}]
  /\ verdict \in [Approval -> Human!Verdict] /\ effects \in [Approval -> 0..1]

LEMMA TypeParts ==
  /\ TypeOK => CampTypeOK /\ BoxTypeOK /\ AskTypeOK /\ SendTypeOK
  /\ CampTypeOK' /\ BoxTypeOK' /\ AskTypeOK' /\ SendTypeOK' => TypeOK'
BY DEF TypeOK, CampTypeOK, BoxTypeOK, AskTypeOK, SendTypeOK

LEMMA InitTypeInv == Init => TypeInv
<1> SUFFICES ASSUME Init PROVE TypeInv
  OBVIOUS
<1>1. SendTypeOK
  <2>1. 0 \in 0..DailyCap
    BY CampaignsAssumption
  <2> QED BY <2>1 DEF Init, SendTypeOK, SendPhase, Reply
<1>2. AskTypeOK /\ CampTypeOK
  BY CampaignsAssumption DEF Init, AskTypeOK, CampTypeOK, AskPhase, CampStatus
<1>3. /\ creating \in [Campaign -> SUBSET Message] /\ late \subseteq Message
      /\ msgStatus \in [Message -> MsgStatus]
      /\ suppressed \subseteq Address
      /\ mailed \in [Message -> Nat]
      /\ about \in [Approval -> Campaign \cup {NoCampaign}]
  BY DEF Init, MsgStatus
<1>4. verdict \in [Approval -> Human!Verdict] /\ effects \in [Approval -> 0..1]
  BY DEF Init, Human!Init, Human!Verdict
<1>5. BudgetInv
  <2>1. SentToday = {}
    BY DEF Init, SentToday
  <2> QED BY <2>1, FS_EmptySet DEF Init, BudgetInv
<1> QED
  BY <1>1, <1>2, <1>3, <1>4, <1>5 DEF TypeInv, TypeOK, SendTypeOK, AskTypeOK, CampTypeOK

\* The ways a send and a request move and end keep their own types.
LEMMA SendOverType ==
  ASSUME TypeInv, NEW s \in Sender, SendOver(s)
  PROVE  SendTypeOK' /\ sendPhase'[s] = "idle"
         /\ \A q \in Sender \ {s} : sendPhase'[q] = sendPhase[q] /\ budget'[q] = budget[q]
BY CampaignsAssumption DEF TypeInv, TypeOK, SendOver, SendTypeOK, SendPhase, Reply

LEMMA AskOverType ==
  ASSUME TypeInv, NEW r \in Asker, AskOver(r), autonomous' \in [Campaign -> Nat]
  PROVE  AskTypeOK'
BY DEF TypeInv, TypeOK, AskOver, AskTypeOK, AskPhase

LEMMA BeginSendType ==
  ASSUME TypeInv, NEW s \in Sender, NEW c \in Campaign \cup {NoCampaign}, BeginSend(s, c)
  PROVE  SendTypeOK' /\ CampTypeOK' /\ BudgetInv'
<1>1. CampTypeOK'
  BY DEF TypeInv, TypeOK, BeginSend, CampTypeOK, CampStatus
<1>2. overlapped' \in BOOLEAN
  BY DEF BeginSend
<1>3. SendTypeOK'
  BY <1>2 DEF TypeInv, TypeOK, BeginSend, SendTypeOK, SendPhase
<1>4. BudgetInv'
  BY DEF TypeInv, TypeOK, BeginSend, BudgetInv, SentToday, boxVars
<1> QED
  BY <1>1, <1>3, <1>4

\* What counts as sent grows by one message at a time.
LEMMA SentStep ==
  ASSUME TypeInv, [Next]_vars
  PROVE  IsFiniteSet(SentToday')
<1> SUFFICES \E m : SentToday' \subseteq SentToday \cup {m}
  <2>1. ASSUME NEW m, SentToday' \subseteq SentToday \cup {m}
        PROVE  IsFiniteSet(SentToday')
    BY <2>1, FS_AddElement, FS_Subset DEF TypeInv, BudgetInv
  <2> QED BY <2>1
<1> USE DEF boxVars
<1>1. CASE UNCHANGED msgStatus
  BY <1>1 DEF SentToday
<1>2. ASSUME NEW c \in Campaign, NEW m \in Message, Draft(c, m)
      PROVE  SentToday' \subseteq SentToday \cup {m}
  BY <1>2 DEF Draft, SentToday, TypeInv, TypeOK
<1>3. ASSUME NEW s \in Sender, NEW m \in Message, Skip(s, m)
      PROVE  SentToday' \subseteq SentToday \cup {m}
  BY <1>3 DEF Skip, SentToday, TypeInv, TypeOK
<1>4. ASSUME NEW s \in Sender, NEW failing \in BOOLEAN, Record(s, failing)
      PROVE  SentToday' \subseteq SentToday \cup {current[s]}
  BY <1>4 DEF Record, SentToday, TypeInv, TypeOK
<1> QED
  BY <1>1, <1>2, <1>3, <1>4 DEF Next, vars, Create, CreateDies, Suppress, AskStep,
     RequestSend, PolicyAnswers, SendAtOnce, BeginSend, AskNew, AskFinds, StorePending,
     AskDies, Decide, Execute, SendStep, Count, Load, Defer, Pick, Mail, EndSend, SendDies

LEMMA SendStepType ==
  ASSUME TypeInv, NEW s \in Sender, SendStep(s), IsFiniteSet(SentToday')
  PROVE  TypeInv'
<1> USE DEF createVars, campVars, boxVars, humanVars, askVars, TypeInv
<1>1. CASE Count(s)
  <2>1. DailyCap \in Nat /\ Cardinality(SentToday) \in Nat
    BY CampaignsAssumption, FS_CardinalityType DEF BudgetInv
  <2> DEFINE b == IF Cardinality(SentToday) >= DailyCap THEN 0
                  ELSE DailyCap - Cardinality(SentToday)
  <2>2. b \in 0..DailyCap /\ budget' = [budget EXCEPT ![s] = b]
    BY <1>1, <2>1 DEF Count
  <2>3. TypeOK'
    BY <1>1, <2>2 DEF Count, SendGoto, TypeOK, SendPhase
  <2>4. BudgetInv'
    BY <1>1, <2>2 DEF Count, SendGoto, TypeOK, BudgetInv
  <2> QED BY <2>3, <2>4
<1>2. CASE Load(s)
  BY <1>2 DEF Load, SendGoto, TypeOK, SendPhase, Drafts, MessagesOf, BudgetInv
<1>3. ASSUME NEW m \in Message, Skip(s, m) PROVE TypeInv'
  BY <1>3 DEF Skip, SendGoto, TypeOK, SendPhase, MsgStatus, BudgetInv
<1>4. ASSUME NEW m \in Message, Defer(s, m) PROVE TypeInv'
  BY <1>4 DEF Defer, SendGoto, TypeOK, SendPhase, BudgetInv
<1>5. ASSUME NEW m \in Message, Pick(s, m) PROVE TypeInv'
  BY <1>5 DEF Pick, SendGoto, TypeOK, SendPhase, BudgetInv
<1>6. ASSUME NEW r \in Reply \ {"none"}, NEW delivered \in BOOLEAN, Mail(s, r, delivered)
      PROVE TypeInv'
  <2>1. budget[s] \in 1..DailyCap
    BY <1>6, CampaignsAssumption DEF Mail, TypeOK, BudgetInv
  <2>2. budget' \in [Sender -> 0..DailyCap]
    <3>1. budget[s] - 1 \in 0..DailyCap
      BY <2>1, CampaignsAssumption
    <3>2. [budget EXCEPT ![s] = budget[s] - 1] \in [Sender -> 0..DailyCap]
      BY <3>1 DEF TypeOK
    <3> QED BY <1>6, <3>2 DEF Mail, TypeOK
  <2>3. mailed' \in [Message -> Nat]
    <3>1. current[s] \in Message => mailed[current[s]] + 1 \in Nat
      BY DEF TypeOK
    <3>2. [mailed EXCEPT ![current[s]] = mailed[current[s]] + 1] \in [Message -> Nat]
      BY <3>1 DEF TypeOK
    <3> QED BY <1>6, <3>2 DEF Mail, TypeOK
  <2>4. TypeOK'
    BY <1>6, <2>2, <2>3 DEF Mail, SendGoto, TypeOK, SendPhase
  <2>5. BudgetInv'
    BY <1>6, <2>1 DEF Mail, SendGoto, TypeOK, BudgetInv
  <2> QED BY <2>4, <2>5
<1>7. ASSUME NEW failing \in BOOLEAN, Record(s, failing) PROVE TypeInv'
  BY <1>7 DEF Record, SendGoto, TypeOK, SendPhase, MsgStatus, Reply, BudgetInv
<1>8. CASE EndSend(s)
  <2>1. TypeOK'
    BY <1>8, SendOverType DEF EndSend, TypeOK, SendTypeOK, CampStatus
  <2>2. BudgetInv'
    BY <1>8, SendOverType DEF EndSend, BudgetInv
  <2> QED BY <2>1, <2>2
<1> QED
  BY <1>1, <1>2, <1>3, <1>4, <1>5, <1>6, <1>7, <1>8 DEF SendStep

LEMMA AskStepType ==
  ASSUME TypeInv, NEW r \in Asker, AskStep(r)
  PROVE  TypeInv'
<1> USE DEF createVars, campVars, boxVars, humanVars, sendVars, TypeInv
<1>0. CampTypeOK /\ BoxTypeOK /\ AskTypeOK /\ SendTypeOK /\ BudgetInv
  BY TypeParts
<1>1. BoxTypeOK'
  BY <1>0 DEF AskStep, RequestSend, PolicyAnswers, SendAtOnce, BeginSend, AskNew, AskFinds,
     StorePending, AskDies, BoxTypeOK, AskTypeOK
<1>2. ASSUME UNCHANGED sendVars, UNCHANGED boxVars PROVE SendTypeOK' /\ BudgetInv'
  BY <1>0, <1>2 DEF SendTypeOK, BudgetInv, SentToday
<1>3. ASSUME UNCHANGED campVars PROVE CampTypeOK'
  BY <1>0, <1>3 DEF CampTypeOK
<1>4. ASSUME NEW c \in Campaign, RequestSend(r, c) PROVE TypeInv'
  <2>1. asks' \in 0..MaxAsks
    BY <1>4, CampaignsAssumption DEF RequestSend, TypeOK
  <2>2. AskTypeOK'
    BY <1>4, <2>1 DEF RequestSend, TypeOK, AskTypeOK, AskPhase
  <2> QED BY <1>1, <1>2, <1>3, <1>4, <2>2, TypeParts DEF RequestSend
<1>5. ASSUME NEW d \in SendDecision, PolicyAnswers(r, d) PROVE TypeInv'
  <2>1. autonomous' \in [Campaign -> Nat]
    <3>1. askOn[r] \in Campaign => autonomous[askOn[r]] + 1 \in Nat
      BY DEF TypeOK
    <3>2. [autonomous EXCEPT ![askOn[r]] = autonomous[askOn[r]] + 1] \in [Campaign -> Nat]
      BY <3>1 DEF TypeOK
    <3> QED BY <1>5, <3>2 DEF PolicyAnswers, TypeOK
  <2>2. ASSUME NEW p \in {"sending", "asking"}, AskGoto(r, p), UNCHANGED askGot
        PROVE AskTypeOK'
    BY <2>1, <2>2 DEF AskGoto, TypeOK, AskTypeOK, AskPhase
  <2>3. AskTypeOK'
    BY <1>5, <2>1, <2>2, AskOverType DEF PolicyAnswers
  <2> QED BY <1>1, <1>2, <1>3, <1>5, <2>3, TypeParts DEF PolicyAnswers
<1>6. ASSUME NEW s \in Sender, SendAtOnce(r, s) PROVE TypeInv'
  <2>1. AskTypeOK'
    BY <1>6, AskOverType DEF SendAtOnce, TypeOK
  <2>2. askOn[r] \in Campaign \cup {NoCampaign}
    BY DEF TypeOK
  <2> QED BY <1>1, <1>6, <2>1, <2>2, BeginSendType, TypeParts DEF SendAtOnce
<1>7. ASSUME NEW a \in Approval, AskNew(r, a) \/ AskFinds(r, a) PROVE TypeInv'
  <2>1. AskTypeOK'
    BY <1>0, <1>7 DEF AskNew, AskFinds, AskGoto, AskTypeOK, AskPhase
  <2> QED BY <1>1, <1>2, <1>3, <1>7, <2>1, TypeParts DEF AskNew, AskFinds
<1>8. CASE StorePending(r)
  <2>1. AskTypeOK'
    BY <1>8, AskOverType DEF StorePending, TypeOK
  <2>2. CampTypeOK'
    BY <1>8 DEF StorePending, TypeOK, CampTypeOK, CampStatus
  <2> QED BY <1>1, <1>2, <1>8, <2>1, <2>2, TypeParts DEF StorePending
<1>9. CASE AskDies(r)
  <2>1. AskTypeOK'
    BY <1>9, AskOverType DEF AskDies, TypeOK
  <2> QED BY <1>1, <1>2, <1>3, <1>9, <2>1, TypeParts DEF AskDies
<1> QED
  BY <1>4, <1>5, <1>6, <1>7, <1>8, <1>9 DEF AskStep

\* Types and budgets: an inductive invariant of its own.
LEMMA NextTypeInv == TypeInv /\ [Next]_vars => TypeInv'
<1> SUFFICES ASSUME TypeInv, [Next]_vars PROVE TypeInv'
  OBVIOUS
<1> USE DEF createVars, campVars, boxVars, humanVars, askVars, sendVars
<1>0. CampTypeOK /\ BoxTypeOK /\ AskTypeOK /\ SendTypeOK /\ BudgetInv
  BY TypeParts DEF TypeInv
<1>1. IsFiniteSet(SentToday')
  BY SentStep
<1>2. ASSUME UNCHANGED sendVars PROVE SendTypeOK' /\ BudgetInv'
  BY <1>0, <1>1, <1>2 DEF SendTypeOK, BudgetInv
<1>3. ASSUME UNCHANGED campVars PROVE CampTypeOK'
  BY <1>0, <1>3 DEF CampTypeOK
<1>4. ASSUME UNCHANGED askVars PROVE AskTypeOK'
  BY <1>0, <1>4 DEF AskTypeOK
<1>5. CASE UNCHANGED vars
  <2>1. BoxTypeOK'
    BY <1>0, <1>5 DEF vars, BoxTypeOK
  <2> QED BY <1>2, <1>3, <1>4, <1>5, <2>1, TypeParts DEF vars, TypeInv
<1>6. ASSUME NEW c \in Campaign, NEW audience \in SUBSET MessagesOf(c), Create(c, audience)
      PROVE  TypeInv'
  <2>1. CampTypeOK' /\ BoxTypeOK'
    BY <1>0, <1>6 DEF Create, CampTypeOK, BoxTypeOK, CampStatus, MessagesOf
  <2> QED BY <1>2, <1>4, <1>6, <2>1, TypeParts DEF Create, TypeInv
<1>7. ASSUME NEW c \in Campaign, NEW m \in Message, Draft(c, m) PROVE TypeInv'
  <2>1. BoxTypeOK'
    BY <1>0, <1>7 DEF Draft, BoxTypeOK, MsgStatus
  <2> QED BY <1>2, <1>3, <1>4, <1>7, <2>1, TypeParts DEF Draft, TypeInv
<1>8. ASSUME NEW c \in Campaign, CreateDies(c) PROVE TypeInv'
  <2>1. BoxTypeOK'
    BY <1>0, <1>8 DEF CreateDies, BoxTypeOK
  <2> QED BY <1>2, <1>3, <1>4, <1>8, <2>1, TypeParts DEF CreateDies, TypeInv
<1>9. ASSUME NEW x \in Address, Suppress(x) PROVE TypeInv'
  <2>1. BoxTypeOK'
    BY <1>0, <1>9 DEF Suppress, BoxTypeOK
  <2> QED BY <1>2, <1>3, <1>4, <1>9, <2>1, TypeParts DEF Suppress, TypeInv
<1>10. ASSUME NEW a \in Approval, NEW v \in Human!Verdict, Decide(a, v) PROVE TypeInv'
  <2>1. BoxTypeOK'
    BY <1>0, <1>10 DEF Decide, Human!Rule, BoxTypeOK
  <2> QED BY <1>2, <1>3, <1>4, <1>10, <2>1, TypeParts DEF Decide, TypeInv
<1>11. ASSUME NEW a \in Approval, NEW s \in Sender, Execute(a, s) PROVE TypeInv'
  <2>1. BoxTypeOK'
    BY <1>0, <1>11 DEF Execute, BeginSend, Human!Perform, BoxTypeOK
  <2>2. SendTypeOK' /\ CampTypeOK' /\ BudgetInv'
    BY <1>0, <1>11, BeginSendType DEF Execute, BoxTypeOK
  <2> QED BY <1>4, <1>11, <2>1, <2>2, TypeParts DEF Execute, TypeInv
<1>12. ASSUME NEW s \in Sender, SendDies(s) PROVE TypeInv'
  <2>1. BoxTypeOK'
    BY <1>0, <1>12 DEF SendDies, BoxTypeOK
  <2>2. SendTypeOK' /\ BudgetInv'
    BY <1>0, <1>1, <1>12, SendOverType DEF SendDies, BudgetInv
  <2> QED BY <1>3, <1>4, <1>12, <2>1, <2>2, TypeParts DEF SendDies, TypeInv
<1> QED
  BY <1>1, <1>5, <1>6, <1>7, <1>8, <1>9, <1>10, <1>11, <1>12, SendStepType, AskStepType
  DEF Next

LEMMA TypeInvHolds == Spec => []TypeInv
BY InitTypeInv, NextTypeInv, PTL DEF Spec

-----------------------------------------------------------------------------
(* Where a send is *)

(***************************************************************************)
(* What a send relies on between its statements: its campaign is there and *)
(* was taken out of 'draft' by its first statement, what it has still to   *)
(* handle are messages of that campaign and do not include the one it has  *)
(* in hand, and the addresses it knew suppressed still are.                *)
(***************************************************************************)
InHand == {"mailing", "recording"}

SendInv(s) ==
  /\ sendPhase[s] = "idle" => current[s] = NoMessage /\ todo[s] = {}
  /\ sendPhase[s] # "idle" => /\ sendOn[s] \in Campaign
                              /\ campStatus[sendOn[s]] \notin {"absent", "draft"}
  /\ sendPhase[s] \in {"counting", "loading"} => todo[s] = {}
  /\ current[s] # NoMessage <=> sendPhase[s] \in InHand
  /\ todo[s] \subseteq MessagesOf(sendOn[s]) \ {current[s]}
  /\ sendPhase[s] \in InHand => /\ CampaignOf[current[s]] = sendOn[s]
                                /\ To[current[s]] \notin known[s]
  /\ known[s] \subseteq suppressed

\* A request is about a campaign, an approval without one is undecided, and
\* an approval that is not granted was not carried out.
AskInv ==
  /\ \A r \in Asker : askPhase[r] # "idle" => askOn[r] \in Campaign
  /\ \A c \in Campaign : creating[c] \subseteq MessagesOf(c)
  /\ \A a \in Approval : /\ about[a] = NoCampaign => verdict[a] = "none"
                         /\ verdict[a] # "approved" => effects[a] = 0

FlowInv == AskInv /\ \A s \in Sender : SendInv(s)

LEMMA InitFlowInv == Init => FlowInv
BY DEF Init, Human!Init, FlowInv, AskInv, SendInv, InHand

\* Nobody puts a campaign back among the drafts.
LEMMA LeavesDraft ==
  ASSUME TypeInv, FlowInv, [Next]_vars, NEW c \in Campaign,
         campStatus[c] \notin {"absent", "draft"}
  PROVE  campStatus'[c] \notin {"absent", "draft"}
<1> USE DEF campVars, TypeInv
<1>1. CASE UNCHANGED campStatus
  BY <1>1
<1>2. ASSUME NEW s \in Sender, NEW d, BeginSend(s, d) PROVE campStatus'[c] \notin {"absent", "draft"}
  BY <1>2 DEF BeginSend, TypeOK
<1>3. ASSUME NEW d \in Campaign, NEW audience \in SUBSET MessagesOf(d), Create(d, audience)
      PROVE  campStatus'[c] \notin {"absent", "draft"}
  BY <1>3 DEF Create, TypeOK
<1>4. ASSUME NEW r \in Asker, StorePending(r) PROVE campStatus'[c] \notin {"absent", "draft"}
  BY <1>4 DEF StorePending, TypeOK
<1>5. ASSUME NEW s \in Sender, EndSend(s) PROVE campStatus'[c] \notin {"absent", "draft"}
  BY <1>5 DEF EndSend, TypeOK
<1> QED
  BY <1>1, <1>2, <1>3, <1>4, <1>5 DEF Next, vars, Draft, CreateDies, Suppress, AskStep,
     RequestSend, PolicyAnswers, SendAtOnce, AskNew, AskFinds, AskDies, Decide, Execute,
     SendStep, Count, Load, Skip, Defer, Pick, Mail, Record, SendDies

\* A send that does not take the step keeps what it relies on.
LEMMA OthersSend ==
  ASSUME TypeInv, FlowInv, [Next]_vars, NEW q \in Sender,
         sendPhase'[q] = sendPhase[q], sendOn'[q] = sendOn[q], known'[q] = known[q],
         todo'[q] = todo[q], current'[q] = current[q]
  PROVE  SendInv(q)'
<1>1. SendInv(q)
  BY DEF FlowInv
<1>2. sendPhase[q] # "idle" => campStatus'[sendOn[q]] \notin {"absent", "draft"}
  BY <1>1, LeavesDraft DEF SendInv
<1>3. suppressed \subseteq suppressed'
  BY DEF Next, vars, boxVars, Create, Draft, CreateDies, Suppress, AskStep, RequestSend,
     PolicyAnswers, SendAtOnce, BeginSend, AskNew, AskFinds, StorePending, AskDies, Decide,
     Execute, SendStep, Count, Load, Skip, Defer, Pick, Mail, Record, EndSend, SendDies
<1> QED
  BY <1>1, <1>2, <1>3 DEF SendInv, MessagesOf

\* The sends after the step of one of them.
LEMMA OneSend ==
  ASSUME TypeInv, FlowInv, [Next]_vars, NEW s \in Sender, SendInv(s)',
         \A q \in Sender \ {s} :
           /\ sendPhase'[q] = sendPhase[q] /\ sendOn'[q] = sendOn[q]
           /\ known'[q] = known[q] /\ todo'[q] = todo[q] /\ current'[q] = current[q]
  PROVE  \A q \in Sender : SendInv(q)'
BY OthersSend

LEMMA BeginSendInv ==
  ASSUME TypeInv, FlowInv, [Next]_vars, NEW s \in Sender, NEW c \in Campaign,
         BeginSend(s, c)
  PROVE  \A q \in Sender : SendInv(q)'
<1>1. SendInv(s)
  BY DEF FlowInv
<1>2. SendInv(s)'
  BY <1>1 DEF BeginSend, SendInv, TypeInv, TypeOK, boxVars, InHand
<1> QED
  BY <1>2, OneSend DEF BeginSend, TypeInv, TypeOK

LEMMA OverSendInv ==
  ASSUME TypeInv, FlowInv, [Next]_vars, NEW s \in Sender, SendOver(s)
  PROVE  \A q \in Sender : SendInv(q)'
<1>1. SendInv(s)'
  BY DEF SendOver, SendInv, TypeInv, TypeOK, InHand
<1> QED
  BY <1>1, OneSend DEF SendOver, TypeInv, TypeOK

LEMMA SendStepInv ==
  ASSUME TypeInv, FlowInv, [Next]_vars, NEW s \in Sender, SendStep(s)
  PROVE  \A q \in Sender : SendInv(q)'
<1> USE DEF TypeInv, boxVars, campVars
<1>0. SendInv(s) /\ NoMessage \notin Message
  BY CampaignsAssumption DEF FlowInv
<1>1. ASSUME SendInv(s)', ~EndSend(s) PROVE \A q \in Sender : SendInv(q)'
  BY <1>1, OneSend DEF SendStep, Count, Load, Skip, Defer, Pick, Mail, Record, SendGoto, TypeOK
<1>2. CASE Count(s)
  BY <1>0, <1>1, <1>2 DEF Count, SendGoto, SendInv, InHand, TypeOK, SendStep, EndSend
<1>3. CASE Load(s)
  <2>1. /\ sendPhase[s] = "loading" /\ sendPhase'[s] = "looping" /\ current' = current
        /\ todo'[s] = Drafts(sendOn[s])
        /\ UNCHANGED <<sendOn, known, campStatus, suppressed, msgStatus>>
    BY <1>3 DEF Load, SendGoto, TypeOK
  <2>2. Drafts(sendOn[s]) \subseteq MessagesOf(sendOn[s]) \ {NoMessage}
    BY <1>0 DEF Drafts, MessagesOf
  <2>3. SendInv(s)'
    BY <1>0, <2>1, <2>2 DEF SendInv, InHand, MessagesOf
  <2> QED BY <1>1, <1>3, <2>3 DEF Load, EndSend
<1>4. ASSUME NEW m \in Message, Skip(s, m) \/ Defer(s, m) PROVE \A q \in Sender : SendInv(q)'
  <2>1. SendInv(s)'
    BY <1>0, <1>4 DEF Skip, Defer, SendGoto, SendInv, InHand, TypeOK, MessagesOf
  <2>2. todo[s] # {}
    BY <1>4 DEF Skip, Defer
  <2> QED BY <1>1, <2>1, <2>2 DEF EndSend
<1>5. ASSUME NEW m \in Message, Pick(s, m) PROVE \A q \in Sender : SendInv(q)'
  <2>1. /\ sendPhase[s] = "looping" /\ sendPhase'[s] = "mailing" /\ current'[s] = m
        /\ m \in todo[s] /\ todo'[s] = todo[s] \ {m} /\ To[m] \notin suppressed
        /\ UNCHANGED <<sendOn, known, campStatus, suppressed>>
    BY <1>5 DEF Pick, SendGoto, TypeOK
  <2>2. SendInv(s)'
    BY <1>0, <2>1 DEF SendInv, InHand, MessagesOf
  <2> QED BY <1>1, <2>1, <2>2 DEF EndSend
<1>6. ASSUME NEW r \in Reply \ {"none"}, NEW delivered \in BOOLEAN, Mail(s, r, delivered)
      PROVE \A q \in Sender : SendInv(q)'
  <2>1. /\ sendPhase[s] = "mailing" /\ sendPhase'[s] = "recording"
        /\ UNCHANGED <<sendOn, known, campStatus, suppressed, todo, current>>
    BY <1>6 DEF Mail, SendGoto, TypeOK
  <2>2. SendInv(s)'
    BY <1>0, <2>1 DEF SendInv, InHand, MessagesOf
  <2> QED BY <1>1, <2>1, <2>2 DEF EndSend
<1>7. ASSUME NEW failing \in BOOLEAN, Record(s, failing) PROVE \A q \in Sender : SendInv(q)'
  <2>1. /\ sendPhase[s] = "recording" /\ sendPhase'[s] = "looping" /\ current'[s] = NoMessage
        /\ UNCHANGED <<sendOn, known, campStatus, suppressed, todo>>
    BY <1>7 DEF Record, SendGoto, TypeOK
  <2>2. SendInv(s)'
    BY <1>0, <2>1 DEF SendInv, InHand, MessagesOf, TypeOK
  <2> QED BY <1>1, <2>1, <2>2 DEF EndSend
<1>8. CASE EndSend(s)
  BY <1>8, OverSendInv DEF EndSend
<1> QED
  BY <1>2, <1>3, <1>4, <1>5, <1>6, <1>7, <1>8 DEF SendStep

LEMMA NextAskInv ==
  ASSUME TypeInv, FlowInv, [Next]_vars
  PROVE  AskInv'
<1> USE DEF createVars, humanVars, askVars, TypeInv
<1>0. AskInv
  BY DEF FlowInv
<1>1. CASE UNCHANGED <<askPhase, askOn, creating, humanVars>>
  BY <1>0, <1>1 DEF AskInv, MessagesOf
<1>2. ASSUME NEW c \in Campaign, NEW audience \in SUBSET MessagesOf(c), Create(c, audience)
      PROVE  AskInv'
  BY <1>0, <1>2 DEF Create, AskInv, MessagesOf, TypeOK
<1>3. ASSUME NEW c \in Campaign, CreateDies(c) \/ \E m \in Message : Draft(c, m)
      PROVE  AskInv'
  <2>1. \A d \in Campaign : creating'[d] \subseteq creating[d]
    BY <1>3 DEF CreateDies, Draft, TypeOK
  <2>2. UNCHANGED <<askPhase, askOn, humanVars>>
    BY <1>3 DEF CreateDies, Draft
  <2> QED BY <1>0, <2>1, <2>2 DEF AskInv, MessagesOf
<1>4. ASSUME NEW r \in Asker, AskStep(r) PROVE AskInv'
  <2>1. ASSUME NEW a \in Approval, AskNew(r, a) PROVE AskInv'
    BY <1>0, <2>1 DEF AskNew, AskGoto, AskInv, MessagesOf, TypeOK
  <2>2. ASSUME NEW c \in Campaign, RequestSend(r, c) PROVE AskInv'
    BY <1>0, <2>2 DEF RequestSend, AskInv, MessagesOf, TypeOK
  <2>3. ASSUME AskOver(r), UNCHANGED <<creating, humanVars>> PROVE AskInv'
    BY <1>0, <2>3 DEF AskOver, AskInv, MessagesOf, TypeOK
  <2>4. ASSUME NEW p, AskGoto(r, p), askPhase[r] # "idle", UNCHANGED <<creating, humanVars>>
        PROVE AskInv'
    BY <1>0, <2>4 DEF AskGoto, AskInv, MessagesOf, TypeOK
  <2> QED
    BY <1>4, <2>1, <2>2, <2>3, <2>4 DEF AskStep, PolicyAnswers, SendAtOnce, BeginSend,
       AskFinds, StorePending, AskDies
<1>5. ASSUME NEW a \in Approval, NEW v \in Human!Verdict, Decide(a, v) PROVE AskInv'
  BY <1>0, <1>5 DEF Decide, Human!Rule, AskInv, MessagesOf, TypeOK
<1>6. ASSUME NEW a \in Approval, NEW s \in Sender, Execute(a, s) PROVE AskInv'
  BY <1>0, <1>6 DEF Execute, BeginSend, Human!Perform, AskInv, MessagesOf, TypeOK
<1> QED
  BY <1>1, <1>2, <1>3, <1>4, <1>5, <1>6 DEF Next, vars, Suppress, SendStep, Count, Load,
     Skip, Defer, Pick, Mail, Record, EndSend, SendDies

LEMMA NextFlowInv ==
  ASSUME TypeInv, FlowInv, [Next]_vars
  PROVE  FlowInv'
<1>1. CASE UNCHANGED <<sendPhase, sendOn, known, todo, current>>
  BY <1>1, NextAskInv, OthersSend DEF FlowInv
<1>2. ASSUME NEW r \in Asker, NEW s \in Sender, SendAtOnce(r, s)
      PROVE  \A q \in Sender : SendInv(q)'
  <2>1. askOn[r] \in Campaign
    BY <1>2 DEF SendAtOnce, FlowInv, AskInv
  <2> QED BY <1>2, <2>1, BeginSendInv DEF SendAtOnce
<1>3. ASSUME NEW a \in Approval, NEW s \in Sender, Execute(a, s)
      PROVE  \A q \in Sender : SendInv(q)'
  <2>1. about[a] \in Campaign
    BY <1>3 DEF Execute, TypeInv, TypeOK
  <2> QED BY <1>3, <2>1, BeginSendInv DEF Execute
<1>4. ASSUME NEW s \in Sender, SendStep(s) \/ SendDies(s)
      PROVE  \A q \in Sender : SendInv(q)'
  BY <1>4, SendStepInv, OverSendInv DEF SendDies
<1> QED
  BY <1>1, <1>2, <1>3, <1>4, NextAskInv DEF FlowInv, Next, vars, sendVars, Create, Draft,
     CreateDies, Suppress, AskStep, RequestSend, PolicyAnswers, AskNew, AskFinds,
     StorePending, AskDies, Decide

LEMMA FlowInvHolds == Spec => [](TypeInv /\ FlowInv)
<1>1. TypeInv /\ FlowInv /\ [Next]_vars => (TypeInv /\ FlowInv)'
  BY NextTypeInv, NextFlowInv
<1> QED
  BY InitTypeInv, InitFlowInv, <1>1, PTL DEF Spec

\* An address on the suppression list when a send began is mailed nothing by
\* it, through any number of overlapping sends.
THEOREM SuppressedAreSpared == Spec => []SuppressedGetNothing
<1>1. FlowInv => SuppressedGetNothing
  BY DEF FlowInv, SendInv, SuppressedGetNothing
<1> QED
  BY FlowInvHolds, <1>1, PTL

-----------------------------------------------------------------------------
(* What a send leaves behind *)

(***************************************************************************)
(* The strengthening of SentMeansHandled: a send that deferred nothing has *)
(* every draft of its campaign still before it or in hand, but for those   *)
(* that create added when the campaign had left 'draft'.                   *)
(***************************************************************************)
Looping == {"looping"} \cup InHand

HandledInv ==
  /\ \A c \in Campaign : campStatus[c] = "sent" => Drafts(c) \subseteq late
  /\ \A s \in Sender :
       sendPhase[s] \in Looping /\ ~deferred[s] =>
         Drafts(sendOn[s]) \subseteq todo[s] \cup {current[s]} \cup late

\* What is drafted to a campaign that has left 'draft' is late.
LEMMA NewDraftsAreLate ==
  ASSUME TypeInv, FlowInv, [Next]_vars, NEW c \in Campaign, campStatus[c] # "draft"
  PROVE  Drafts(c)' \subseteq Drafts(c) \cup late' /\ late \subseteq late'
<1> USE DEF boxVars, createVars, TypeInv
<1>1. CASE UNCHANGED msgStatus /\ late' = late
  BY <1>1 DEF Drafts, MessagesOf
<1>2. ASSUME NEW d \in Campaign, NEW m \in Message, Draft(d, m)
      PROVE  Drafts(c)' \subseteq Drafts(c) \cup late' /\ late \subseteq late'
  <2>1. CampaignOf[m] = d
    BY <1>2 DEF Draft, FlowInv, AskInv, MessagesOf
  <2> QED BY <1>2, <2>1 DEF Draft, Drafts, MessagesOf, TypeOK
<1>3. ASSUME NEW m, NEW v, v # "drafted", msgStatus' = [msgStatus EXCEPT ![m] = v],
             late' = late
      PROVE  Drafts(c)' \subseteq Drafts(c) \cup late' /\ late \subseteq late'
  BY <1>3 DEF Drafts, MessagesOf, TypeOK
<1>4. ASSUME NEW s \in Sender, NEW failing \in BOOLEAN, Record(s, failing)
      PROVE  Drafts(c)' \subseteq Drafts(c) \cup late' /\ late \subseteq late'
  BY <1>3, <1>4 DEF Record
<1>5. ASSUME NEW s \in Sender, NEW m \in Message, Skip(s, m)
      PROVE  Drafts(c)' \subseteq Drafts(c) \cup late' /\ late \subseteq late'
  BY <1>3, <1>5 DEF Skip
<1> QED
  BY <1>1, <1>2, <1>4, <1>5 DEF Next, vars, Create, CreateDies, Suppress, AskStep,
     RequestSend, PolicyAnswers, SendAtOnce, BeginSend, AskNew, AskFinds, StorePending,
     AskDies, Decide, Execute, SendStep, Count, Load, Defer, Pick, Mail, EndSend, SendDies

\* A send that keeps its place keeps its drafts before it.
LEMMA OthersHandle ==
  ASSUME TypeInv, FlowInv, HandledInv, [Next]_vars, NEW q \in Sender,
         sendPhase'[q] = sendPhase[q], sendOn'[q] = sendOn[q], todo'[q] = todo[q],
         deferred'[q] = deferred[q], current'[q] = current[q],
         sendPhase[q] \in Looping, ~deferred[q]
  PROVE  (Drafts(sendOn[q]) \subseteq todo[q] \cup {current[q]} \cup late)'
<1>1. sendOn[q] \in Campaign /\ campStatus[sendOn[q]] # "draft"
  BY DEF FlowInv, SendInv, Looping, InHand
<1>2. Drafts(sendOn[q])' = {m \in MessagesOf(sendOn[q]) : msgStatus'[m] = "drafted"}
  BY DEF Drafts, MessagesOf
<1> QED
  BY <1>1, <1>2, NewDraftsAreLate DEF HandledInv, Drafts, MessagesOf

\* Whatever a looping send does to a message, it keeps account of it.
LEMMA OwnHandle ==
  ASSUME TypeInv, FlowInv, HandledInv, [Next]_vars, NEW s \in Sender, SendStep(s),
         sendPhase'[s] \in Looping, ~deferred'[s]
  PROVE  (Drafts(sendOn[s]) \subseteq todo[s] \cup {current[s]} \cup late)'
<1> USE DEF TypeInv, createVars, boxVars, Looping, InHand
<1>0. HandledInv /\ SendInv(s)
  BY DEF FlowInv
<1>1. CASE Count(s)
  BY <1>1 DEF Count, SendGoto, TypeOK
<1>2. CASE Load(s)
  BY <1>2 DEF Load, SendGoto, TypeOK, Drafts, MessagesOf
<1>3. ASSUME NEW m \in Message, Skip(s, m)
      PROVE  (Drafts(sendOn[s]) \subseteq todo[s] \cup {current[s]} \cup late)'
  BY <1>0, <1>3 DEF Skip, SendGoto, TypeOK, HandledInv, Drafts, MessagesOf
<1>4. ASSUME NEW m \in Message, Defer(s, m) PROVE FALSE
  BY <1>4 DEF Defer, TypeOK
<1>5. ASSUME NEW m \in Message, Pick(s, m)
      PROVE  (Drafts(sendOn[s]) \subseteq todo[s] \cup {current[s]} \cup late)'
  <2>1. current[s] = NoMessage /\ NoMessage \notin Message
    BY <1>0, <1>5, CampaignsAssumption DEF Pick, SendInv
  <2> QED BY <1>0, <1>5, <2>1 DEF Pick, SendGoto, TypeOK, HandledInv, Drafts, MessagesOf
<1>6. ASSUME NEW r \in Reply \ {"none"}, NEW delivered \in BOOLEAN, Mail(s, r, delivered)
      PROVE  (Drafts(sendOn[s]) \subseteq todo[s] \cup {current[s]} \cup late)'
  BY <1>0, <1>6 DEF Mail, SendGoto, TypeOK, HandledInv, Drafts, MessagesOf
<1>7. ASSUME NEW failing \in BOOLEAN, Record(s, failing)
      PROVE  (Drafts(sendOn[s]) \subseteq todo[s] \cup {current[s]} \cup late)'
  <2>1. /\ sendPhase[s] = "recording" /\ UNCHANGED <<todo, late, sendOn, deferred>>
        /\ msgStatus'[current[s]] # "drafted" \/ current[s] \notin Message
        /\ \A m \in Message \ {current[s]} : msgStatus'[m] = msgStatus[m]
    BY <1>7 DEF Record, SendGoto, TypeOK
  <2> QED BY <1>0, <2>1 DEF HandledInv, Drafts, MessagesOf
<1>8. CASE EndSend(s)
  BY <1>8, SendOverType DEF EndSend
<1> QED
  BY <1>1, <1>2, <1>3, <1>4, <1>5, <1>6, <1>7, <1>8 DEF SendStep

LEMMA NextHandledInv ==
  ASSUME TypeInv, FlowInv, HandledInv, [Next]_vars
  PROVE  HandledInv'
<1> USE DEF TypeInv, campVars
<1>1. ASSUME NEW c \in Campaign, campStatus[c] = "sent" PROVE (Drafts(c) \subseteq late)'
  BY <1>1, NewDraftsAreLate DEF HandledInv
<1>2. ASSUME NEW c \in Campaign, campStatus'[c] = "sent", campStatus[c] # "sent"
      PROVE  (Drafts(c) \subseteq late)'
  <2>1. PICK s \in Sender : EndSend(s)
    BY <1>2 DEF Next, vars, Create, Draft, CreateDies, Suppress, AskStep, RequestSend,
       PolicyAnswers, SendAtOnce, BeginSend, AskNew, AskFinds, StorePending, AskDies,
       Decide, Execute, SendStep, Count, Load, Skip, Defer, Pick, Mail, Record, SendDies,
       TypeOK
  <2>2. /\ c = sendOn[s] /\ ~deferred[s] /\ todo[s] = {} /\ sendPhase[s] = "looping"
        /\ UNCHANGED <<late, msgStatus>>
    BY <1>2, <2>1 DEF EndSend, TypeOK, createVars, boxVars
  <2>3. current[s] = NoMessage /\ NoMessage \notin Message
    BY <2>2, CampaignsAssumption DEF FlowInv, SendInv, InHand
  <2>4. Drafts(c) \subseteq late
    BY <2>2, <2>3 DEF HandledInv, Looping, Drafts, MessagesOf
  <2> QED BY <2>2, <2>4 DEF Drafts, MessagesOf
<1>3. ASSUME NEW q \in Sender, sendPhase'[q] \in Looping, ~deferred'[q]
      PROVE  (Drafts(sendOn[q]) \subseteq todo[q] \cup {current[q]} \cup late)'
  <2>1. CASE /\ sendPhase'[q] = sendPhase[q] /\ sendOn'[q] = sendOn[q]
             /\ todo'[q] = todo[q] /\ deferred'[q] = deferred[q] /\ current'[q] = current[q]
    BY <1>3, <2>1, OthersHandle
  <2>2. ASSUME NEW s \in Sender, SendStep(s), s # q
        PROVE  /\ sendPhase'[q] = sendPhase[q] /\ sendOn'[q] = sendOn[q]
               /\ todo'[q] = todo[q] /\ deferred'[q] = deferred[q] /\ current'[q] = current[q]
    BY <2>2 DEF SendStep, Count, Load, Skip, Defer, Pick, Mail, Record, EndSend, SendGoto,
       SendOver, TypeOK
  <2>3. ASSUME NEW s \in Sender, NEW d, BeginSend(s, d)
        PROVE  (Drafts(sendOn[q]) \subseteq todo[q] \cup {current[q]} \cup late)'
    BY <1>3, <2>1, <2>3 DEF BeginSend, TypeOK, Looping, InHand
  <2>4. ASSUME NEW s \in Sender, SendDies(s)
        PROVE  (Drafts(sendOn[q]) \subseteq todo[q] \cup {current[q]} \cup late)'
    BY <1>3, <2>1, <2>4 DEF SendDies, SendOver, TypeOK, Looping, InHand
  <2> QED
    BY <1>3, <2>1, <2>2, <2>3, <2>4, OwnHandle DEF Next, vars, sendVars, Create, Draft,
       CreateDies, Suppress, AskStep, RequestSend, PolicyAnswers, SendAtOnce, AskNew,
       AskFinds, StorePending, AskDies, Decide, Execute
<1> QED
  BY <1>1, <1>2, <1>3 DEF HandledInv

\* A campaign that counts as sent left no draft unhandled, however many
\* sends it took and whatever they overlapped with.
THEOREM SentIsComplete == Spec => []SentMeansHandled
<1>1. Init => HandledInv
  BY DEF Init, HandledInv, Looping, InHand
<1>2. TypeInv /\ FlowInv /\ HandledInv /\ [Next]_vars => HandledInv'
  BY NextHandledInv
<1>3. HandledInv => SentMeansHandled
  BY DEF HandledInv, SentMeansHandled
<1> QED
  BY FlowInvHolds, <1>1, <1>2, <1>3, PTL DEF Spec

-----------------------------------------------------------------------------
(* What a send is licensed by *)

(***************************************************************************)
(* The strengthening of OneMailPerLicence.  A licence is an approval that  *)
(* was carried out or a send the policy let go; it is owed to each message *)
(* of the campaign once, and is either used up by a delivery, still with a *)
(* send that may yet mail the message, or with the call that is about to   *)
(* begin one.                                                              *)
(***************************************************************************)
MayMail(s, m) ==
  /\ sendOn[s] = CampaignOf[m]
  /\ \/ sendPhase[s] \in {"counting", "loading"}
     \/ m \in todo[s]
     \/ sendPhase[s] = "mailing" /\ current[s] = m

Pending(m) == {s \in Sender : MayMail(s, m)}
LetGo(c) == {r \in Asker : askPhase[r] = "sending" /\ askOn[r] = c}
Used(c) == {a \in Approval : about[a] = c /\ verdict[a] = "approved" /\ effects[a] = 1}

LicenceOf(m) ==
  /\ IsFiniteSet(Pending(m)) /\ IsFiniteSet(LetGo(CampaignOf[m]))
  /\ IsFiniteSet(Used(CampaignOf[m]))
  /\ mailed[m] + Cardinality(Pending(m)) + Cardinality(LetGo(CampaignOf[m]))
       <= autonomous[CampaignOf[m]] + Cardinality(Used(CampaignOf[m]))

LicenceInv == \A m \in Message : LicenceOf(m)

\* A step that grants nothing and mails nothing leaves the account in order.
LEMMA QuietLicence ==
  ASSUME TypeInv, NEW m \in Message, LicenceOf(m),
         mailed'[m] = mailed[m], Pending(m)' \subseteq Pending(m),
         LetGo(CampaignOf[m])' \subseteq LetGo(CampaignOf[m]),
         Used(CampaignOf[m])' = Used(CampaignOf[m]),
         autonomous'[CampaignOf[m]] = autonomous[CampaignOf[m]]
  PROVE  LicenceOf(m)'
<1> DEFINE c == CampaignOf[m]
<1>1. /\ IsFiniteSet(Pending(m)') /\ Cardinality(Pending(m)') <= Cardinality(Pending(m))
      /\ IsFiniteSet(LetGo(c)') /\ Cardinality(LetGo(c)') <= Cardinality(LetGo(c))
  BY FS_Subset DEF LicenceOf
<1>2. /\ Cardinality(Pending(m)') \in Nat /\ Cardinality(LetGo(c)') \in Nat
      /\ Cardinality(Pending(m)) \in Nat /\ Cardinality(LetGo(c)) \in Nat
      /\ Cardinality(Used(c)) \in Nat
  BY <1>1, FS_CardinalityType DEF LicenceOf
<1>3. c \in Campaign /\ mailed[m] \in Nat /\ autonomous[c] \in Nat
  BY CampaignsAssumption DEF TypeInv, TypeOK
<1> QED
  BY <1>1, <1>2, <1>3 DEF LicenceOf

\* A send begins: it may mail every message of its campaign, and no other.
LEMMA BeginPending ==
  ASSUME TypeInv, FlowInv, NEW s \in Sender, NEW d \in Campaign, BeginSend(s, d),
         NEW m \in Message
  PROVE  /\ s \notin Pending(m)
         /\ Pending(m)' = IF d = CampaignOf[m] THEN Pending(m) \cup {s} ELSE Pending(m)
<1>1. sendPhase[s] = "idle" /\ todo[s] = {} /\ todo' = todo /\ current' = current
  BY DEF BeginSend, FlowInv, SendInv
<1>2. /\ sendPhase'[s] = "counting" /\ sendOn'[s] = d
      /\ \A q \in Sender \ {s} : sendPhase'[q] = sendPhase[q] /\ sendOn'[q] = sendOn[q]
  BY DEF BeginSend, TypeInv, TypeOK
<1> QED
  BY <1>1, <1>2 DEF Pending, MayMail

\* The steps of a send: only a delivery is charged, to the message in hand.
LEMMA SendLicence ==
  ASSUME TypeInv, FlowInv, NEW s \in Sender, SendStep(s), NEW m \in Message, LicenceOf(m)
  PROVE  LicenceOf(m)'
<1> USE DEF TypeInv, boxVars, askVars, humanVars
<1>1. /\ LetGo(CampaignOf[m])' = LetGo(CampaignOf[m])
      /\ Used(CampaignOf[m])' = Used(CampaignOf[m])
      /\ autonomous' = autonomous
  BY DEF SendStep, Count, Load, Skip, Defer, Pick, Mail, Record, EndSend, LetGo, Used
<1>2. \A q \in Sender \ {s} : MayMail(q, m)' = MayMail(q, m)
  BY DEF SendStep, Count, Load, Skip, Defer, Pick, Mail, Record, EndSend, SendGoto,
     SendOver, MayMail, TypeOK
<1>3. CampaignOf[m] \in Campaign /\ NoCampaign \notin Campaign /\ NoMessage \notin Message
  BY CampaignsAssumption
<1>4. ASSUME MayMail(s, m)', ~ MayMail(s, m) PROVE FALSE
  <2>1. CASE Count(s)
    BY <1>4, <2>1 DEF Count, SendGoto, MayMail, TypeOK
  <2>2. CASE Load(s)
    BY <1>4, <2>2 DEF Load, SendGoto, MayMail, TypeOK
  <2>3. ASSUME NEW n \in Message, Skip(s, n) \/ Defer(s, n) \/ Pick(s, n) PROVE FALSE
    BY <1>4, <2>3 DEF Skip, Defer, Pick, SendGoto, MayMail, TypeOK
  <2>4. ASSUME NEW r \in Reply \ {"none"}, NEW delivered \in BOOLEAN, Mail(s, r, delivered)
        PROVE FALSE
    BY <1>4, <2>4 DEF Mail, SendGoto, MayMail, TypeOK
  <2>5. ASSUME NEW failing \in BOOLEAN, Record(s, failing) PROVE FALSE
    BY <1>4, <2>5 DEF Record, SendGoto, MayMail, TypeOK
  <2>6. CASE EndSend(s)
    BY <1>3, <1>4, <2>6 DEF EndSend, SendOver, MayMail, TypeOK
  <2> QED BY <2>1, <2>2, <2>3, <2>4, <2>5, <2>6 DEF SendStep
<1>5. Pending(m)' \subseteq Pending(m)
  BY <1>2, <1>4 DEF Pending
<1>6. CASE mailed'[m] = mailed[m]
  BY <1>1, <1>5, <1>6, QuietLicence
<1>7. CASE mailed'[m] # mailed[m]
  <2>1. PICK r \in Reply \ {"none"}, delivered \in BOOLEAN : Mail(s, r, delivered)
    BY <1>7 DEF SendStep, Count, Load, Skip, Defer, Pick, Record, EndSend
  <2>2. current[s] = m /\ mailed'[m] = mailed[m] + 1 /\ sendPhase[s] = "mailing"
    BY <1>7, <2>1 DEF Mail, TypeOK
  <2>3. s \in Pending(m)
    BY <2>2 DEF Pending, MayMail, FlowInv, SendInv, InHand
  <2>4. s \notin Pending(m)'
    <3>1. sendPhase'[s] = "recording" /\ m \notin todo'[s]
      BY <2>1, <2>2 DEF Mail, SendGoto, TypeOK, FlowInv, SendInv
    <3> QED BY <3>1 DEF Pending, MayMail
  <2>5. Pending(m)' = Pending(m) \ {s}
    BY <1>2, <2>3, <2>4 DEF Pending
  <2>6. /\ IsFiniteSet(Pending(m)')
        /\ Cardinality(Pending(m)') = Cardinality(Pending(m)) - 1
    BY <2>3, <2>5, FS_RemoveElement DEF LicenceOf
  <2>7. /\ Cardinality(Pending(m)) \in Nat /\ mailed[m] \in Nat
        /\ Cardinality(LetGo(CampaignOf[m])) \in Nat
        /\ autonomous[CampaignOf[m]] \in Nat /\ Cardinality(Used(CampaignOf[m])) \in Nat
    BY <1>3, FS_CardinalityType DEF LicenceOf, TypeOK
  <2> QED BY <1>1, <2>2, <2>6, <2>7 DEF LicenceOf
<1> QED
  BY <1>6, <1>7

\* A subset of a finite set with one element more.
LEMMA OneMore ==
  ASSUME NEW S, IsFiniteSet(S), NEW g, NEW T, T \subseteq S \cup {g}
  PROVE  /\ IsFiniteSet(T) /\ Cardinality(T) \in Nat
         /\ Cardinality(T) <= Cardinality(S) + 1
         /\ T \subseteq S => Cardinality(T) <= Cardinality(S)
<1>1. Cardinality(S) \in Nat
  BY FS_CardinalityType
<1>2. IsFiniteSet(S \cup {g}) /\ Cardinality(S \cup {g}) <= Cardinality(S) + 1
  <2>1. CASE g \in S
    <3>1. S \cup {g} = S
      BY <2>1
    <3> QED BY <1>1, <3>1
  <2>2. CASE g \notin S
    <3>1. IsFiniteSet(S \cup {g}) /\ Cardinality(S \cup {g}) = Cardinality(S) + 1
      BY <2>2, FS_AddElement
    <3> QED BY <1>1, <3>1
  <2> QED BY <2>1, <2>2
<1>3. /\ IsFiniteSet(T) /\ Cardinality(T) <= Cardinality(S \cup {g})
      /\ T \subseteq S => Cardinality(T) <= Cardinality(S)
  BY <1>2, FS_Subset
<1>4. Cardinality(T) \in Nat /\ Cardinality(S \cup {g}) \in Nat
  BY <1>2, <1>3, FS_CardinalityType
<1> QED
  BY <1>1, <1>2, <1>3, <1>4

\* A grant to a message's campaign is handed to the send or to the call.
LEMMA GrantLicence ==
  ASSUME TypeInv, FlowInv, NEW m \in Message, LicenceOf(m), mailed'[m] = mailed[m],
         NEW g,
         \/ /\ Pending(m)' \subseteq Pending(m) \cup {g}
            /\ LetGo(CampaignOf[m])' \subseteq LetGo(CampaignOf[m])
         \/ /\ Pending(m)' \subseteq Pending(m)
            /\ LetGo(CampaignOf[m])' \subseteq LetGo(CampaignOf[m]) \cup {g},
         \/ /\ autonomous'[CampaignOf[m]] = autonomous[CampaignOf[m]] + 1
            /\ Used(CampaignOf[m])' = Used(CampaignOf[m])
         \/ /\ autonomous'[CampaignOf[m]] = autonomous[CampaignOf[m]]
            /\ \E a : /\ a \notin Used(CampaignOf[m])
                      /\ Used(CampaignOf[m])' = Used(CampaignOf[m]) \cup {a}
  PROVE  LicenceOf(m)'
<1> DEFINE P == Cardinality(Pending(m))
           L == Cardinality(LetGo(CampaignOf[m]))
           U == Cardinality(Used(CampaignOf[m]))
           c == CampaignOf[m]
<1>1. /\ P \in Nat /\ L \in Nat /\ U \in Nat /\ mailed[m] \in Nat /\ autonomous[c] \in Nat
      /\ mailed[m] + P + L <= autonomous[c] + U
  BY FS_CardinalityType, CampaignsAssumption DEF LicenceOf, TypeInv, TypeOK
<1>3. /\ IsFiniteSet(Pending(m)') /\ P' \in Nat
      /\ IsFiniteSet(LetGo(c)') /\ L' \in Nat
      /\ P' + L' <= P + L + 1
  <2>1. IsFiniteSet(Pending(m)') /\ P' \in Nat /\ IsFiniteSet(LetGo(c)') /\ L' \in Nat
    BY OneMore DEF LicenceOf
  <2>2. \/ P' <= P + 1 /\ L' <= L
        \/ P' <= P /\ L' <= L + 1
    BY OneMore DEF LicenceOf
  <2> QED BY <1>1, <2>1, <2>2
<1>4. /\ IsFiniteSet(Used(c)') /\ U' \in Nat
      /\ autonomous'[c] + U' = autonomous[c] + U + 1
  <2>1. CASE autonomous'[c] = autonomous[c] + 1 /\ Used(c)' = Used(c)
    BY <1>1, <2>1 DEF LicenceOf
  <2>2. ASSUME NEW a, a \notin Used(c), Used(c)' = Used(c) \cup {a},
               autonomous'[c] = autonomous[c]
        PROVE  /\ IsFiniteSet(Used(c)') /\ U' \in Nat
               /\ autonomous'[c] + U' = autonomous[c] + U + 1
    <3>1. /\ IsFiniteSet(Used(c) \cup {a})
          /\ Cardinality(Used(c) \cup {a}) = Cardinality(Used(c)) + 1
      BY <2>2, FS_AddElement DEF LicenceOf
    <3>2. IsFiniteSet(Used(c)') /\ U' = U + 1
      BY <2>2, <3>1
    <3>3. U' \in Nat
      BY <1>1, <3>2
    <3>4. autonomous'[c] + U' = autonomous[c] + U + 1
      BY <1>1, <2>2, <3>2
    <3> QED BY <3>2, <3>3, <3>4
  <2> QED BY <2>1, <2>2
<1>5. mailed[m] + P' + L' <= autonomous'[c] + U'
  BY <1>1, <1>3, <1>4, CampaignsAssumption DEF TypeInv, TypeOK
<1> QED
  BY <1>3, <1>4, <1>5 DEF LicenceOf

LEMMA NextLicence ==
  ASSUME TypeInv, FlowInv, [Next]_vars, NEW m \in Message, LicenceOf(m)
  PROVE  LicenceOf(m)'
<1> DEFINE c == CampaignOf[m]
<1> USE DEF TypeInv, boxVars, askVars, humanVars
<1>0. c \in Campaign /\ NoCampaign \notin Campaign /\ AskInv
  BY CampaignsAssumption DEF FlowInv
<1>1. ASSUME UNCHANGED <<mailed, autonomous, sendPhase, sendOn, todo, current>>,
             LetGo(c)' \subseteq LetGo(c), Used(c)' = Used(c)
      PROVE  LicenceOf(m)'
  <2>1. Pending(m)' = Pending(m)
    BY <1>1 DEF Pending, MayMail
  <2> QED BY <1>1, <2>1, QuietLicence
<1>2. CASE UNCHANGED <<sendVars, humanVars, askVars, mailed>>
  BY <1>1, <1>2 DEF sendVars, LetGo, Used
<1>3. ASSUME NEW r \in Asker, NEW s \in Sender, SendAtOnce(r, s) PROVE LicenceOf(m)'
  <2>1. askOn[r] \in Campaign /\ askPhase[r] = "sending" /\ BeginSend(s, askOn[r])
    BY <1>0, <1>3 DEF SendAtOnce, AskInv
  <2>2. /\ LetGo(c)' = LetGo(c) \ {r} /\ Used(c)' = Used(c)
        /\ UNCHANGED <<mailed, autonomous>>
    BY <1>0, <1>3, <2>1 DEF SendAtOnce, AskOver, BeginSend, LetGo, Used, TypeOK
  <2>3. CASE askOn[r] # c
    BY <2>1, <2>2, <2>3, BeginPending, QuietLicence
  <2>4. CASE askOn[r] = c
    <3>1. r \in LetGo(c)
      BY <2>1, <2>4 DEF LetGo
    <3>2. /\ s \notin Pending(m) /\ Pending(m)' = Pending(m) \cup {s}
      BY <2>1, <2>4, BeginPending
    <3>3. /\ IsFiniteSet(Pending(m)')
          /\ Cardinality(Pending(m)') = Cardinality(Pending(m)) + 1
          /\ IsFiniteSet(LetGo(c)')
          /\ Cardinality(LetGo(c)') = Cardinality(LetGo(c)) - 1
      <4>1. /\ IsFiniteSet(Pending(m) \cup {s})
            /\ Cardinality(Pending(m) \cup {s}) = Cardinality(Pending(m)) + 1
        BY <3>2, FS_AddElement DEF LicenceOf
      <4>2. /\ IsFiniteSet(LetGo(c) \ {r})
            /\ Cardinality(LetGo(c) \ {r}) = Cardinality(LetGo(c)) - 1
        BY <3>1, FS_RemoveElement DEF LicenceOf
      <4> QED BY <2>2, <3>2, <4>1, <4>2
    <3>4. /\ Cardinality(Pending(m)) \in Nat /\ Cardinality(LetGo(c)) \in Nat
          /\ mailed[m] \in Nat
      BY <1>0, FS_CardinalityType DEF LicenceOf, TypeOK
    <3>5. mailed[m] + Cardinality(Pending(m)') + Cardinality(LetGo(c)')
            = mailed[m] + Cardinality(Pending(m)) + Cardinality(LetGo(c))
      BY <3>3, <3>4
    <3> QED BY <2>2, <3>3, <3>5 DEF LicenceOf
  <2> QED BY <2>3, <2>4
<1>4. ASSUME NEW r \in Asker, NEW d \in SendDecision, PolicyAnswers(r, d)
      PROVE  LicenceOf(m)'
  <2>0. /\ askOn[r] \in Campaign
        /\ UNCHANGED <<mailed, sendPhase, sendOn, todo, current>> /\ Used(c)' = Used(c)
    BY <1>0, <1>4 DEF PolicyAnswers, AskInv, sendVars, Used
  <2>1. CASE d = "allow" /\ askOn[r] = c
    <3>1. autonomous'[c] = autonomous[c] + 1
      BY <1>0, <1>4, <2>1 DEF PolicyAnswers, TypeOK
    <3>2. LetGo(c)' \subseteq LetGo(c) \cup {r}
      BY <1>4, <2>1 DEF PolicyAnswers, AskGoto, LetGo, TypeOK
    <3>3. Pending(m)' \subseteq Pending(m)
      BY <2>0 DEF Pending, MayMail
    <3> QED BY <2>0, <3>1, <3>2, <3>3, GrantLicence
  <2>2. CASE ~(d = "allow" /\ askOn[r] = c)
    <3>1. autonomous'[c] = autonomous[c]
      BY <1>4, <2>0, <2>2 DEF PolicyAnswers, TypeOK
    <3>2. LetGo(c)' \subseteq LetGo(c)
      BY <1>0, <1>4, <2>2 DEF PolicyAnswers, AskGoto, AskOver, LetGo, TypeOK
    <3>3. Pending(m)' \subseteq Pending(m)
      BY <2>0 DEF Pending, MayMail
    <3> QED BY <2>0, <3>1, <3>2, <3>3, QuietLicence
  <2> QED BY <2>1, <2>2
<1>5. ASSUME NEW r \in Asker,
             \/ \E d \in Campaign : RequestSend(r, d)
             \/ \E a \in Approval : AskNew(r, a) \/ AskFinds(r, a)
             \/ StorePending(r) \/ AskDies(r)
      PROVE  LicenceOf(m)'
  <2>1. UNCHANGED <<mailed, autonomous, sendPhase, sendOn, todo, current, verdict, effects>>
    BY <1>5 DEF RequestSend, AskNew, AskFinds, StorePending, AskDies, sendVars
  <2>2. LetGo(c)' \subseteq LetGo(c)
    BY <1>0, <1>5 DEF RequestSend, AskNew, AskFinds, StorePending, AskDies, AskGoto, AskOver,
       LetGo, TypeOK
  <2>3. \A a \in Approval : verdict[a] = "approved" => about'[a] = about[a]
    BY <1>0, <1>5 DEF RequestSend, AskNew, AskFinds, StorePending, AskDies, AskInv, TypeOK
  <2>4. Used(c)' = Used(c)
    BY <2>1, <2>3 DEF Used
  <2> QED BY <1>1, <2>1, <2>2, <2>4
<1>6. ASSUME NEW a \in Approval, NEW v \in Human!Verdict, Decide(a, v) PROVE LicenceOf(m)'
  <2>1. Used(c)' = Used(c)
    BY <1>0, <1>6 DEF Decide, Human!Rule, AskInv, Used, TypeOK
  <2> QED BY <1>1, <1>6, <2>1 DEF Decide, sendVars, LetGo
<1>7. ASSUME NEW a \in Approval, NEW s \in Sender, Execute(a, s) PROVE LicenceOf(m)'
  <2>1. about[a] \in Campaign /\ BeginSend(s, about[a])
    BY <1>7 DEF Execute, TypeOK
  <2>2. LetGo(c)' = LetGo(c) /\ UNCHANGED <<mailed, autonomous>>
    BY <1>7 DEF Execute, BeginSend, LetGo
  <2>3. CASE about[a] # c
    <3>1. Used(c)' = Used(c)
      BY <1>7, <2>3 DEF Execute, Human!Perform, Used, TypeOK
    <3> QED BY <2>1, <2>2, <2>3, <3>1, BeginPending, QuietLicence
  <2>4. CASE about[a] = c
    <3>1. a \notin Used(c) /\ Used(c)' = Used(c) \cup {a}
      BY <1>7, <2>4 DEF Execute, Human!Perform, Used, TypeOK
    <3>2. Pending(m)' = Pending(m) \cup {s}
      BY <2>1, <2>4, BeginPending
    <3> QED BY <2>2, <3>1, <3>2, GrantLicence
  <2> QED BY <2>3, <2>4
<1>8. ASSUME NEW s \in Sender, SendDies(s) PROVE LicenceOf(m)'
  <2>1. Pending(m)' \subseteq Pending(m)
    BY <1>0, <1>8 DEF SendDies, SendOver, Pending, MayMail, TypeOK
  <2> QED BY <1>8, <2>1, QuietLicence DEF SendDies, LetGo, Used
<1> QED
  BY <1>2, <1>3, <1>4, <1>5, <1>6, <1>7, <1>8, SendLicence DEF Next, vars, Create, Draft,
     CreateDies, Suppress, AskStep

\* A message is delivered no more often than its campaign was approved or let
\* go, whatever sends overlap, die or are asked for again.
THEOREM MailNeedsLicence == Spec => []OneMailPerLicence
<1>1. Init => LicenceInv
  <2> SUFFICES ASSUME Init, NEW m \in Message PROVE LicenceOf(m)
    BY DEF LicenceInv
  <2>1. CampaignOf[m] \in Campaign /\ NoCampaign \notin Campaign
    BY CampaignsAssumption
  <2>2. Pending(m) = {} /\ LetGo(CampaignOf[m]) = {} /\ Used(CampaignOf[m]) = {}
    BY <2>1 DEF Init, Human!Init, Pending, MayMail, LetGo, Used
  <2>3. mailed[m] = 0 /\ autonomous[CampaignOf[m]] = 0
    BY <2>1 DEF Init
  <2> QED BY <2>2, <2>3, FS_EmptySet DEF LicenceOf
<1>2. TypeInv /\ FlowInv /\ LicenceInv /\ [Next]_vars => LicenceInv'
  BY NextLicence DEF LicenceInv
<1>3. TypeInv /\ LicenceInv => OneMailPerLicence
  <2> SUFFICES ASSUME TypeInv, LicenceInv, NEW m \in Message
               PROVE  mailed[m] <= autonomous[CampaignOf[m]]
                                    + Cardinality(Used(CampaignOf[m]))
    BY DEF OneMailPerLicence, Used
  <2>1. /\ Cardinality(Pending(m)) \in Nat /\ Cardinality(LetGo(CampaignOf[m])) \in Nat
        /\ Cardinality(Used(CampaignOf[m])) \in Nat
        /\ mailed[m] \in Nat /\ autonomous[CampaignOf[m]] \in Nat
    BY FS_CardinalityType, CampaignsAssumption DEF LicenceInv, LicenceOf, TypeInv, TypeOK
  <2> QED BY <2>1 DEF LicenceInv, LicenceOf
<1> QED
  BY FlowInvHolds, <1>1, <1>2, <1>3, PTL DEF Spec

-----------------------------------------------------------------------------
(* The daily cap, while sends follow one another *)

(***************************************************************************)
(* The strengthening of CapAppliesAlone: a send that is alone from its     *)
(* count to its end has reserved, in its budget and in the acceptance it   *)
(* is about to record, no more than the cap leaves it.                     *)
(***************************************************************************)
InFlight(s) == IF sendPhase[s] = "recording" /\ reply[s] = "accepted" THEN 1 ELSE 0

Reserved(s) == Cardinality(SentToday) + budget[s] + InFlight(s) <= DailyCap

CapInv ==
  ~overlapped =>
    /\ \A p, q \in Sender : sendPhase[p] # "idle" /\ sendPhase[q] # "idle" => p = q
    /\ Cardinality(SentToday) <= DailyCap
    /\ \A s \in Sender : sendPhase[s] \in {"loading"} \cup Looping => Reserved(s)

\* While no message becomes 'sent', a send keeps within what it reserved.
LEMMA QuietCap ==
  ASSUME TypeInv, CapInv, ~overlapped, ~overlapped', TypeInv',
         SentToday' \subseteq SentToday,
         \A s \in Sender : sendPhase'[s] # "idle" =>
            /\ sendPhase[s] # "idle"
            /\ sendPhase'[s] \in {"loading"} \cup Looping =>
                 /\ sendPhase[s] \in {"loading"} \cup Looping
                 /\ budget'[s] + InFlight(s)' <= budget[s] + InFlight(s)
  PROVE  CapInv'
<1>1. /\ Cardinality(SentToday) \in Nat /\ Cardinality(SentToday') \in Nat
      /\ Cardinality(SentToday') <= Cardinality(SentToday) /\ DailyCap \in Nat
  BY FS_Subset, FS_CardinalityType, CampaignsAssumption DEF TypeInv, BudgetInv
<1>2. ASSUME NEW s \in Sender
      PROVE  budget[s] \in Nat /\ budget'[s] \in Nat
  BY CampaignsAssumption DEF TypeInv, TypeOK
<1>3. ASSUME NEW s \in Sender
      PROVE  InFlight(s) \in Nat /\ InFlight(s)' \in Nat
  BY DEF InFlight
<1>4. ASSUME NEW s \in Sender, sendPhase'[s] \in {"loading"} \cup Looping
      PROVE  Reserved(s)'
  <2>1. sendPhase'[s] # "idle"
    BY <1>4 DEF Looping, InHand
  <2>2. Reserved(s) /\ budget'[s] + InFlight(s)' <= budget[s] + InFlight(s)
    BY <1>4, <2>1 DEF CapInv
  <2> QED BY <1>1, <1>2, <1>3, <2>2 DEF Reserved
<1>5. Cardinality(SentToday') <= DailyCap
  BY <1>1 DEF CapInv
<1> QED
  BY <1>4, <1>5 DEF CapInv

\* A send that begins alone holds nothing yet.
LEMMA BeginCap ==
  ASSUME TypeInv, CapInv, NEW s \in Sender, NEW d \in Campaign, BeginSend(s, d)
  PROVE  CapInv'
<1> SUFFICES ASSUME ~overlapped' PROVE CapInv'
  BY DEF CapInv
<1>1. /\ ~overlapped /\ \A q \in Sender : sendPhase[q] = "idle"
      /\ sendPhase'[s] = "counting" /\ \A q \in Sender \ {s} : sendPhase'[q] = "idle"
      /\ SentToday' = SentToday
  BY DEF BeginSend, TypeInv, TypeOK, boxVars, SentToday
<1> QED
  BY <1>1 DEF CapInv, Looping, InHand

\* The steps of the one send that is under way.
LEMMA SendStepCap ==
  ASSUME TypeInv, TypeInv', FlowInv, CapInv, NEW s \in Sender, SendStep(s)
  PROVE  CapInv'
<1> SUFFICES ASSUME ~overlapped' PROVE CapInv'
  BY DEF CapInv
<1> USE DEF boxVars
<1>1. ~overlapped /\ sendPhase[s] # "idle"
  BY DEF SendStep, Count, Load, Skip, Defer, Pick, Mail, Record, EndSend, SendGoto, SendOver
<1>2. \A q \in Sender \ {s} : sendPhase[q] = "idle"
  BY <1>1 DEF CapInv
<1>3. \A q \in Sender \ {s} : sendPhase'[q] = "idle"
  BY <1>2 DEF SendStep, Count, Load, Skip, Defer, Pick, Mail, Record, EndSend, SendGoto,
     SendOver, TypeInv, TypeOK
<1>4. /\ Cardinality(SentToday) \in Nat /\ Cardinality(SentToday') \in Nat
      /\ DailyCap \in Nat /\ budget[s] \in Nat /\ budget'[s] \in Nat
  BY FS_CardinalityType, CampaignsAssumption DEF TypeInv, BudgetInv, TypeOK
<1>5. Cardinality(SentToday) <= DailyCap
  BY <1>1 DEF CapInv
<1>6. CASE Count(s)
  <2>1. /\ SentToday' = SentToday /\ sendPhase'[s] = "loading"
        /\ budget'[s] = IF Cardinality(SentToday) >= DailyCap THEN 0
                        ELSE DailyCap - Cardinality(SentToday)
    BY <1>6 DEF Count, SendGoto, SentToday, TypeInv, TypeOK
  <2>2. Reserved(s)'
    BY <1>4, <1>5, <2>1 DEF Reserved, InFlight
  <2> QED BY <1>3, <1>5, <2>1, <2>2 DEF CapInv, Looping, InHand
<1>7. CASE Load(s)
  <2>1. /\ sendPhase[s] = "loading" /\ sendPhase'[s] = "looping"
        /\ UNCHANGED <<msgStatus, budget>>
    BY <1>7 DEF Load, SendGoto, TypeInv, TypeOK
  <2> QED BY <1>1, <1>3, <1>4, <2>1, QuietCap DEF SentToday, InFlight, Looping
<1>8. ASSUME NEW m \in Message, Skip(s, m) \/ Defer(s, m) \/ Pick(s, m) PROVE CapInv'
  <2>1. /\ sendPhase[s] = "looping" /\ sendPhase'[s] \in {"looping", "mailing"}
        /\ budget' = budget
    BY <1>8 DEF Skip, Defer, Pick, SendGoto, TypeInv, TypeOK
  <2>2. SentToday' \subseteq SentToday
    BY <1>8 DEF Skip, Defer, Pick, SentToday, TypeInv, TypeOK
  <2> QED BY <1>1, <1>3, <1>4, <2>1, <2>2, QuietCap DEF InFlight, Looping, InHand
<1>9. ASSUME NEW r \in Reply \ {"none"}, NEW delivered \in BOOLEAN, Mail(s, r, delivered)
      PROVE CapInv'
  <2>1. /\ sendPhase[s] = "mailing" /\ sendPhase'[s] = "recording" /\ reply'[s] = r
        /\ UNCHANGED msgStatus
        /\ budget'[s] = IF r = "accepted" THEN budget[s] - 1 ELSE budget[s]
    BY <1>9 DEF Mail, SendGoto, TypeInv, TypeOK
  <2>2. budget'[s] + InFlight(s)' <= budget[s] + InFlight(s)
    BY <1>4, <2>1 DEF InFlight
  <2> QED BY <1>1, <1>3, <2>1, <2>2, QuietCap DEF SentToday, Looping, InHand
<1>10. ASSUME NEW failing \in BOOLEAN, Record(s, failing) PROVE CapInv'
  <2>1. /\ sendPhase[s] = "recording" /\ sendPhase'[s] = "looping" /\ budget' = budget
    BY <1>10 DEF Record, SendGoto, TypeInv, TypeOK
  <2>2. InFlight(s)' = 0 /\ InFlight(s) \in {0, 1}
    BY <2>1 DEF InFlight
  <2>3. CASE reply[s] # "accepted"
    <3>1. SentToday' \subseteq SentToday
      BY <1>10, <2>3 DEF Record, SentToday, TypeInv, TypeOK
    <3> QED BY <1>1, <1>3, <1>4, <2>1, <2>2, <3>1, QuietCap DEF Looping, InHand
  <2>4. CASE reply[s] = "accepted"
    <3>1. SentToday' \subseteq SentToday \cup {current[s]}
      BY <1>10 DEF Record, SentToday, TypeInv, TypeOK
    <3>2. Cardinality(SentToday') <= Cardinality(SentToday) + 1
      BY <3>1, OneMore DEF TypeInv, BudgetInv
    <3>3. Cardinality(SentToday) + budget[s] + 1 <= DailyCap
      BY <1>1, <2>1, <2>4 DEF CapInv, Reserved, InFlight, Looping, InHand
    <3>4. Reserved(s)' /\ Cardinality(SentToday') <= DailyCap
      BY <1>4, <2>1, <2>2, <3>2, <3>3 DEF Reserved
    <3> QED BY <1>3, <3>4 DEF CapInv, Looping, InHand
  <2> QED BY <2>3, <2>4
<1>11. CASE EndSend(s)
  <2>1. sendPhase'[s] = "idle" /\ SentToday' = SentToday
    BY <1>11, SendOverType DEF EndSend, SentToday
  <2> QED BY <1>1, <1>3, <2>1, QuietCap
<1> QED
  BY <1>6, <1>7, <1>8, <1>9, <1>10, <1>11 DEF SendStep

LEMMA NextCapInv ==
  ASSUME TypeInv, TypeInv', FlowInv, CapInv, [Next]_vars
  PROVE  CapInv'
<1> USE DEF boxVars, sendVars
<1>1. ASSUME UNCHANGED sendVars, SentToday' \subseteq SentToday PROVE CapInv'
  <2> SUFFICES ASSUME ~overlapped' PROVE CapInv'
    BY DEF CapInv
  <2>1. ASSUME NEW s \in Sender
        PROVE  budget'[s] + InFlight(s)' <= budget[s] + InFlight(s)
    BY <1>1, CampaignsAssumption DEF InFlight, TypeInv, TypeOK
  <2> QED BY <1>1, <2>1, QuietCap
<1>2. CASE UNCHANGED <<sendVars, msgStatus>>
  BY <1>1, <1>2 DEF SentToday
<1>3. ASSUME NEW c \in Campaign, NEW m \in Message, Draft(c, m) PROVE CapInv'
  BY <1>1, <1>3 DEF Draft, SentToday, TypeInv, TypeOK
<1>4. ASSUME NEW r \in Asker, NEW s \in Sender, SendAtOnce(r, s) PROVE CapInv'
  <2>1. askOn[r] \in Campaign
    BY <1>4 DEF SendAtOnce, FlowInv, AskInv
  <2> QED BY <1>4, <2>1, BeginCap DEF SendAtOnce
<1>5. ASSUME NEW a \in Approval, NEW s \in Sender, Execute(a, s) PROVE CapInv'
  <2>1. about[a] \in Campaign
    BY <1>5 DEF Execute, TypeInv, TypeOK
  <2> QED BY <1>5, <2>1, BeginCap DEF Execute
<1>6. ASSUME NEW s \in Sender, SendDies(s) PROVE CapInv'
  <2> SUFFICES ASSUME ~overlapped' PROVE CapInv'
    BY DEF CapInv
  <2>1. /\ ~overlapped /\ sendPhase[s] # "idle" /\ sendPhase'[s] = "idle"
        /\ \A q \in Sender \ {s} : sendPhase'[q] = sendPhase[q]
        /\ SentToday' = SentToday
    BY <1>6, SendOverType DEF SendDies, SendOver, SentToday
  <2>2. \A q \in Sender : sendPhase'[q] = "idle"
    BY <2>1 DEF CapInv
  <2> QED BY <2>1, <2>2, QuietCap
<1> QED
  BY <1>2, <1>3, <1>4, <1>5, <1>6, SendStepCap DEF Next, vars, Create, CreateDies,
     Suppress, AskStep, RequestSend, PolicyAnswers, AskNew, AskFinds, StorePending,
     AskDies, Decide

\* While sends follow one another, also when they die half-way, no more than
\* DailyCap messages count as sent.
THEOREM CapHoldsAlone == Spec => []CapAppliesAlone
<1>1. Init => CapInv
  <2> SUFFICES ASSUME Init PROVE CapInv
    OBVIOUS
  <2>1. SentToday = {} /\ \A s \in Sender : sendPhase[s] = "idle"
    BY DEF Init, SentToday
  <2> QED BY <2>1, FS_EmptySet, CampaignsAssumption DEF CapInv, Looping, InHand
<1>2. TypeInv /\ FlowInv /\ CapInv /\ [Next]_vars => CapInv'
  BY NextTypeInv, NextCapInv
<1>3. CapInv => CapAppliesAlone
  BY DEF CapInv, CapAppliesAlone
<1> QED
  BY FlowInvHolds, <1>1, <1>2, <1>3, PTL DEF Spec
=============================================================================
