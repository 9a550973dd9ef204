---------------------------- MODULE AccessProofs ----------------------------
(***************************************************************************)
(* For any sets of users, requests, processes and rows, and any bounds,    *)
(* what MCAccess checks of the guards on small ones.  Each service has an  *)
(* inductive invariant of its own; a step is a step of one service, and    *)
(* keeps what the others keep (StepIsOfOneService).                        *)
(*                                                                         *)
(* First, policies: no action is ever freer than its default or what a     *)
(* human approved.                                                         *)
(***************************************************************************)
EXTENDS MCAccess, Sequences, FiniteSetTheorems, TLAPS

(***************************************************************************)
(* The inductive invariant.  A call that applies its change was covered    *)
(* when it was compared with the policy in force, and stays covered: what  *)
(* an approved request would change is fixed, whatever the policy becomes  *)
(* in between.                                                             *)
(***************************************************************************)
CallInv(c) ==
  phase[c] = "applying" => Covered(wanted[c].action, wanted[c].mode, wanted[c].limit)

RequestInv(a) == payload[a] = NoChange => verdict[a] = "none"

CoverInv ==
  /\ \A c \in Changer : CallInv(c)
  /\ \A a \in Approval : RequestInv(a)
  /\ NeverBeyondApproved

-----------------------------------------------------------------------------
(* Comparing policies *)

LEMMA NoFreerReflexive ==
  ASSUME NEW m \in Mode, NEW l \in Limit
  PROVE  NoFreer(m, l, m, l)
BY PoliciesAssumption DEF NoFreer, Mode, Rank, Limit

LEMMA NoFreerTransitive ==
  ASSUME NEW m \in Mode, NEW l \in Limit, NEW n \in Mode, NEW k \in Limit,
         NEW p \in Mode, NEW j \in Limit,
         NoFreer(m, l, n, k), NoFreer(n, k, p, j)
  PROVE  NoFreer(m, l, p, j)
BY PoliciesAssumption DEF NoFreer, Mode, Rank, Limit

\* A change that is not a relaxation is no freer than the policy in force.
LEMMA TighteningIsNoFreer ==
  ASSUME TypeOK, NEW x \in Action, NEW m \in Mode, NEW l \in Limit, ~IsRelaxation(x, m, l)
  PROVE  NoFreer(m, l, mode[x], limit[x])
<1>1. mode[x] \in Mode /\ limit[x] \in Limit
  BY DEF TypeOK
<1> QED
  BY <1>1, PoliciesAssumption DEF NoFreer, Mode, Rank, Limit, IsRelaxation

LEMMA CoveredByCovered ==
  ASSUME TypeOK, NEW x \in Action, NEW m \in Mode, NEW l \in Limit,
         Covered(x, mode[x], limit[x]), NoFreer(m, l, mode[x], limit[x])
  PROVE  Covered(x, m, l)
<1>1. /\ mode[x] \in Mode /\ limit[x] \in Limit
      /\ Default[x] \in Mode /\ Unlimited \in Limit
      /\ \A a \in Approval : payload[a].mode \in Mode /\ payload[a].limit \in Limit
  BY PoliciesAssumption DEF TypeOK, Change, Limit, Unlimited
<1>2. CASE NoFreer(mode[x], limit[x], Default[x], Unlimited)
  BY <1>1, <1>2, NoFreerTransitive DEF Covered
<1>3. ASSUME NEW a \in Approval, payload[a].action = x, verdict[a] = "approved",
             NoFreer(mode[x], limit[x], payload[a].mode, payload[a].limit)
      PROVE  Covered(x, m, l)
  BY <1>1, <1>3, NoFreerTransitive DEF Covered
<1> QED
  BY <1>2, <1>3 DEF Covered

-----------------------------------------------------------------------------
(* Types *)

LEMMA InitTypeOK == Init => TypeOK
BY PoliciesAssumption DEF Init, TypeOK, Human!Init, Human!Verdict, Change, NoChange, Mode,
   Limit, Unlimited

LEMMA NextTypeOK == TypeOK /\ [Next]_vars => TypeOK'
<1> SUFFICES ASSUME TypeOK, [Next]_vars PROVE TypeOK'
  OBVIOUS
<1> USE DEF TypeOK, policyVars, callVars, humanVars
<1>0. NoChange \in Change
  BY PoliciesAssumption DEF NoChange, Change, Mode, Limit
<1>1. CASE UNCHANGED vars
  BY <1>1 DEF vars
<1>2. ASSUME NEW c \in Changer, NEW x \in Action, NEW m \in Mode, NEW l \in Limit,
             RequestChange(c, x, m, l)
      PROVE  TypeOK'
  <2>1. [action |-> x, mode |-> m, limit |-> l] \in Change
    BY DEF Change
  <2> QED
    BY <1>2, <2>1 DEF RequestChange
<1>3. ASSUME NEW c \in Changer, ApplyAtOnce(c) PROVE TypeOK'
  <2>1. wanted[c].mode \in Mode /\ wanted[c].limit \in Limit
    BY DEF Change
  <2> QED
    BY <1>0, <1>3, <2>1 DEF ApplyAtOnce, Apply, CallOver
<1>4. ASSUME NEW c \in Changer, NEW a \in Approval, AskApproval(c, a) PROVE TypeOK'
  BY <1>0, <1>4 DEF AskApproval, CallOver
<1>5. ASSUME NEW c \in Changer, CallDies(c) PROVE TypeOK'
  BY <1>0, <1>5 DEF CallDies, CallOver
<1>6. ASSUME NEW a \in Approval, Execute(a) PROVE TypeOK'
  <2>1. payload[a].mode \in Mode /\ payload[a].limit \in Limit
    BY DEF Change
  <2>2. mode' \in [Action -> Mode] /\ limit' \in [Action -> Limit]
    BY <1>6, <2>1 DEF Execute, Apply
  <2>3. effects' \in [Approval -> 0..1]
    BY <1>6 DEF Execute, Human!Perform
  <2> QED
    BY <1>6, <2>2, <2>3 DEF Execute, Human!Perform
<1>7. ASSUME NEW a \in Approval, NEW v \in Human!Verdict, Decide(a, v) PROVE TypeOK'
  BY <1>7 DEF Decide, Human!Rule
<1> QED
  BY <1>1, <1>2, <1>3, <1>4, <1>5, <1>6, <1>7 DEF Next

\* The tables and calls keep their types.
THEOREM TypeCorrect == Spec => []TypeOK
BY InitTypeOK, NextTypeOK, PTL DEF Spec

-----------------------------------------------------------------------------
(* The invariant *)

LEMMA InitCoverInv == Init => CoverInv
<1> SUFFICES ASSUME Init PROVE CoverInv
  OBVIOUS
<1>1. \A c \in Changer : CallInv(c)
  BY DEF Init, CallInv
<1>2. \A a \in Approval : RequestInv(a)
  BY DEF Init, RequestInv, Human!Init
<1>3. NeverBeyondApproved
  <2> SUFFICES ASSUME NEW x \in Action
               PROVE  /\ Rank[mode[x]] <= Rank[Ceiling[x]]
                      /\ Covered(x, mode[x], limit[x])
    BY DEF NeverBeyondApproved
  <2>1. mode[x] = Default[x] /\ limit[x] = Unlimited /\ Default[x] \in Mode
    BY PoliciesAssumption DEF Init
  <2> QED
    BY <2>1, PoliciesAssumption, NoFreerReflexive DEF Covered, Limit, Unlimited
<1> QED
  BY <1>1, <1>2, <1>3 DEF CoverInv

\* What a step has to show, when every approved request is kept: that the
\* policies it writes, and the calls it starts, are covered.
LEMMA CoverInvStays ==
  ASSUME CoverInv,
         \A a \in Approval : verdict[a] = "approved" =>
                               payload'[a] = payload[a] /\ verdict'[a] = "approved",
         \A a \in Approval : RequestInv(a)',
         \A c \in Changer : \/ phase'[c] # "applying"
                            \/ phase'[c] = phase[c] /\ wanted'[c] = wanted[c]
                            \/ CallInv(c)',
         \A x \in Action :
           \/ mode'[x] = mode[x] /\ limit'[x] = limit[x]
           \/ /\ Rank[mode'[x]] <= Rank[Ceiling[x]]
              /\ Covered(x, mode[x], limit[x])'
  PROVE  CoverInv'
<1>1. ASSUME NEW c \in Changer PROVE CallInv(c)'
  <2>1. CASE phase'[c] # "applying"
    BY <2>1 DEF CallInv
  <2>2. CASE phase'[c] = phase[c] /\ wanted'[c] = wanted[c] /\ phase[c] = "applying"
    <3>1. Covered(wanted[c].action, wanted[c].mode, wanted[c].limit)
      BY <2>2 DEF CoverInv, CallInv
    <3>2. Covered(wanted[c].action, wanted[c].mode, wanted[c].limit)'
      BY <3>1, <2>2 DEF Covered, NoFreer
    <3> QED
      BY <3>2, <2>2 DEF CallInv
  <2> QED
    BY <2>1, <2>2
<1>2. ASSUME NEW x \in Action
      PROVE  Rank[mode'[x]] <= Rank[Ceiling[x]] /\ Covered(x, mode[x], limit[x])'
  <2>1. Rank[mode[x]] <= Rank[Ceiling[x]] /\ Covered(x, mode[x], limit[x])
    BY DEF CoverInv, NeverBeyondApproved
  <2>2. CASE mode'[x] = mode[x] /\ limit'[x] = limit[x]
    BY <2>1, <2>2 DEF Covered, NoFreer
  <2> QED
    BY <2>2
<1> QED
  BY <1>1, <1>2 DEF CoverInv, NeverBeyondApproved

LEMMA NextCoverInv == TypeOK /\ CoverInv /\ [Next]_vars => CoverInv'
<1> SUFFICES ASSUME TypeOK, CoverInv, [Next]_vars PROVE CoverInv'
  OBVIOUS
<1> USE DEF policyVars, callVars, humanVars
<1>1. CASE UNCHANGED vars
  BY <1>1, CoverInvStays DEF vars, CoverInv, RequestInv
<1>2. ASSUME NEW c \in Changer, NEW x \in Action, NEW m \in Mode, NEW l \in Limit,
             RequestChange(c, x, m, l)
      PROVE  CoverInv'
  <2>1. CASE ~IsRelaxation(x, m, l)
    <3>1. Covered(x, m, l)
      BY <2>1, TighteningIsNoFreer, CoveredByCovered DEF CoverInv, NeverBeyondApproved
    <3>2. CallInv(c)'
      BY <1>2, <3>1 DEF RequestChange, CallInv, Covered, NoFreer, TypeOK
    <3> QED
      BY <1>2, <3>2, CoverInvStays DEF RequestChange, TypeOK, CoverInv, RequestInv
  <2>2. CASE IsRelaxation(x, m, l)
    BY <1>2, <2>2, CoverInvStays DEF RequestChange, TypeOK, CoverInv, RequestInv
  <2> QED
    BY <2>1, <2>2
<1>3. ASSUME NEW c \in Changer, ApplyAtOnce(c) PROVE CoverInv'
  <2>1. ASSUME NEW x \in Action, x = wanted[c].action
        PROVE  /\ Rank[mode'[x]] <= Rank[Ceiling[x]]
               /\ Covered(x, mode[x], limit[x])'
    <3>1. Covered(x, wanted[c].mode, wanted[c].limit)
      BY <1>3, <2>1 DEF ApplyAtOnce, CoverInv, CallInv
    <3>2. mode'[x] = wanted[c].mode /\ limit'[x] = wanted[c].limit
      BY <1>3, <2>1 DEF ApplyAtOnce, Apply, TypeOK
    <3> QED
      BY <1>3, <2>1, <3>1, <3>2 DEF ApplyAtOnce, Apply, Allowed, Covered, NoFreer
  <2>2. ASSUME NEW x \in Action, x # wanted[c].action
        PROVE  mode'[x] = mode[x] /\ limit'[x] = limit[x]
    BY <1>3, <2>2 DEF ApplyAtOnce, Apply, TypeOK
  <2>3. \A d \in Changer : phase'[d] # "applying" \/ (phase'[d] = phase[d] /\ wanted'[d] = wanted[d])
    BY <1>3 DEF ApplyAtOnce, CallOver, TypeOK
  <2> QED
    BY <1>3, <2>1, <2>2, <2>3, CoverInvStays DEF ApplyAtOnce, CoverInv, RequestInv
<1>4. ASSUME NEW c \in Changer, NEW a \in Approval, AskApproval(c, a) PROVE CoverInv'
  <2>1. verdict[a] = "none"
    BY <1>4 DEF AskApproval, CoverInv, RequestInv
  <2> QED
    BY <1>4, <2>1, CoverInvStays DEF AskApproval, CallOver, TypeOK, CoverInv, RequestInv
<1>5. ASSUME NEW c \in Changer, CallDies(c) PROVE CoverInv'
  BY <1>5, CoverInvStays DEF CallDies, CallOver, TypeOK, CoverInv, RequestInv
<1>6. ASSUME NEW a \in Approval, Execute(a) PROVE CoverInv'
  <2>1. ASSUME NEW x \in Action, x = payload[a].action
        PROVE  /\ Rank[mode'[x]] <= Rank[Ceiling[x]]
               /\ Covered(x, mode[x], limit[x])'
    <3>1. payload[a].mode \in Mode /\ payload[a].limit \in Limit
      BY DEF TypeOK, Change
    <3>2. mode'[x] = payload[a].mode /\ limit'[x] = payload[a].limit
      BY <1>6, <2>1 DEF Execute, Apply, TypeOK
    <3>3. payload'[a] = payload[a] /\ verdict'[a] = "approved"
      BY <1>6 DEF Execute, Human!Perform
    <3>4. NoFreer(payload[a].mode, payload[a].limit, payload[a].mode, payload[a].limit)
      BY <3>1, NoFreerReflexive
    <3>5. Covered(x, mode[x], limit[x])'
      BY <2>1, <3>2, <3>3, <3>4 DEF Covered, NoFreer
    <3> QED
      BY <1>6, <2>1, <3>2, <3>5 DEF Execute, Apply, Allowed
  <2>2. ASSUME NEW x \in Action, x # payload[a].action
        PROVE  mode'[x] = mode[x] /\ limit'[x] = limit[x]
    BY <1>6, <2>2 DEF Execute, Apply, TypeOK
  <2> QED
    BY <1>6, <2>1, <2>2, CoverInvStays DEF Execute, Human!Perform, CoverInv, RequestInv
<1>7. ASSUME NEW a \in Approval, NEW v \in Human!Verdict, Decide(a, v) PROVE CoverInv'
  <2>1. \A b \in Approval : RequestInv(b)'
    BY <1>7 DEF Decide, Human!Rule, TypeOK, CoverInv, RequestInv
  <2> QED
    BY <1>7, <2>1, CoverInvStays DEF Decide, Human!Rule, TypeOK
<1> QED
  BY <1>1, <1>2, <1>3, <1>4, <1>5, <1>6, <1>7 DEF Next

\* No action is ever freer than its default or what a human approved for it.
THEOREM StaysWithinApproved == Spec => []NeverBeyondApproved
<1>1. Init /\ [][Next]_vars => [](TypeOK /\ CoverInv)
  BY InitTypeOK, NextTypeOK, InitCoverInv, NextCoverInv, PTL
<1>2. CoverInv => NeverBeyondApproved
  BY DEF CoverInv
<1> QED
  BY <1>1, <1>2, PTL DEF Spec

-----------------------------------------------------------------------------
(* A behaviour is that of one service *)

\* Each step is one of a service, and the others keep their state.
LEMMA StepIsOfOneService ==
  ASSUME [ServicesNext]_all
  PROVE  /\ [Next]_vars
         /\ [Acc!Next]_(Acc!vars) /\ [Acc!LoginNext]_(Acc!loginVars)
         /\ [Req!Next]_(Req!requestVars) /\ [Fetch!Next]_(Fetch!fetchVars)
         /\ [Audit!Next]_(Audit!vars) /\ [Sett!Next]_(Sett!settingsVars)
         /\ [Secr!Next]_(Secr!keyVars) /\ [Start!Next]_(Start!startVars)
         /\ [Depl!Next]_(Depl!deployVars) /\ [Depl!TestsNext]_(Depl!sandboxVars)
         /\ UNCHANGED service
BY DEF ServicesNext, Rest, all, vars, accountsState, lockoutState, requestsState, fetchState,
   auditState, settingsState, secretsState, startupState, deploymentsState, sandboxState,
   Acc!vars, Acc!data, Acc!history, Acc!loginVars, Req!requestVars, Fetch!fetchVars,
   Audit!vars, Sett!settingsVars, Secr!keyVars, Start!startVars,
   Depl!deployVars, Depl!buildVars, Depl!startVars, Depl!childVars, Depl!sandboxVars

-----------------------------------------------------------------------------
(***************************************************************************)
(* Requests to others.  While credentials are carried, every request so    *)
(* far went to the origin of the current URL; while a request is under     *)
(* way, nothing has been sent that should have stopped its body.           *)
(***************************************************************************)
FetchSent == [origin : Origin, address : {"public", "private"}, method : {"GET", "POST"},
              body : BOOLEAN, credentials : BOOLEAN, status : Fetch!Redirects \cup {0}]

FetchTypes ==
  /\ Fetch!TypeOK
  /\ sent \in Seq(FetchSent)
  /\ fetchStep = "send" => Len(sent) = hop
  /\ fetchStep = "answer" => Len(sent) = hop + 1
  /\ body => method = "POST"

CredentialsInv ==
  /\ fetchStep # "done" /\ credentials => \A i \in DOMAIN sent : sent[i].origin = url.origin
  /\ Fetch!CredentialsStayHome

PolicyInv ==
  /\ Fetch!Valid(url)
  /\ fetchStep # "done" => outcome = "none"
  /\ fetchStep = "answer" => size <= MaxBytes
  /\ Fetch!StaysInPolicy

AskedForGet(i) == sent[i].body /\ sent[i].status \in {301, 302, 303}

BodyInv ==
  /\ fetchStep # "done" =>
       \A i \in DOMAIN sent : AskedForGet(i) => ~body /\ method = "GET"
  /\ fetchStep = "answer" =>
       sent[Len(sent)].body = body /\ sent[Len(sent)].method = method /\ sent[Len(sent)].status = 0
  /\ Fetch!BodyGoesOnce

FetchInv == FetchTypes /\ CredentialsInv /\ PolicyInv /\ BodyInv

LEMMA FetchStarts == ServicesInit => FetchInv
<1> SUFFICES ASSUME Fetch!Init PROVE FetchInv
  BY DEF ServicesInit
<1> USE DEF Fetch!Init
<1>1. sent = <<>> /\ DOMAIN sent = {} /\ Len(sent) = 0
  OBVIOUS
<1>2. FetchTypes
  <2>1. body \in BOOLEAN /\ credentials \in BOOLEAN
    OBVIOUS
  <2>2. {body, credentials} \subseteq BOOLEAN
    BY <2>1
  <2>3. sent \in Seq(FetchSent)
    BY <1>1
  <2>4. body => method = "POST"
    OBVIOUS
  <2> QED
    BY <1>1, <2>2, <2>3, <2>4, FetchAssumption DEF FetchTypes, Fetch!TypeOK
<1>3. CredentialsInv
  BY <1>1 DEF CredentialsInv, Fetch!CredentialsStayHome
<1>4. PolicyInv
  BY <1>1 DEF PolicyInv, Fetch!StaysInPolicy
<1>5. BodyInv
  BY <1>1 DEF BodyInv, Fetch!BodyGoesOnce, AskedForGet
<1> QED
  BY <1>2, <1>3, <1>4, <1>5 DEF FetchInv

\* A request that is sent.
LEMMA SendKeepsFetchInv ==
  ASSUME FetchInv, Fetch!Send
  PROVE  FetchInv'
<1> USE FetchAssumption
<1>0. PICK addresses \in SUBSET {"public", "private"} :
        \/ /\ Fetch!Resolves(addresses)
           /\ \E a \in addresses :
                sent' = Append(sent, [origin |-> url.origin, address |-> a,
                                      method |-> method, body |-> body,
                                      credentials |-> credentials, status |-> 0])
           /\ fetchStep' = "answer" /\ size' = 0
           /\ UNCHANGED outcome
        \/ /\ fetchStep' = "done" /\ outcome' = "error"
           /\ UNCHANGED <<sent, size>>
  BY DEF Fetch!Send, Fetch!Ends, Fetch!Addresses
<1>1. UNCHANGED <<url, method, body, credentials, hop>> /\ fetchStep = "send"
  BY DEF Fetch!Send
<1>2. CASE fetchStep' = "done" /\ outcome' = "error" /\ UNCHANGED <<sent, size>>
  <2>1. FetchTypes'
    BY <1>1, <1>2 DEF FetchInv, FetchTypes, Fetch!TypeOK
  <2>2. CredentialsInv'
    BY <1>1, <1>2 DEF FetchInv, CredentialsInv, Fetch!CredentialsStayHome
  <2>3. PolicyInv'
    BY <1>1, <1>2 DEF FetchInv, PolicyInv, Fetch!StaysInPolicy, Fetch!Valid
  <2>4. BodyInv'
    BY <1>1, <1>2 DEF FetchInv, BodyInv, Fetch!BodyGoesOnce, AskedForGet
  <2> QED
    BY <2>1, <2>2, <2>3, <2>4 DEF FetchInv
<1>3. ASSUME NEW a \in addresses, Fetch!Resolves(addresses),
             sent' = Append(sent, [origin |-> url.origin, address |-> a,
                                   method |-> method, body |-> body,
                                   credentials |-> credentials, status |-> 0]),
             fetchStep' = "answer", size' = 0, UNCHANGED outcome
      PROVE  FetchInv'
  <2> DEFINE new == [origin |-> url.origin, address |-> a, method |-> method, body |-> body,
                     credentials |-> credentials, status |-> 0]
  <2>1. new \in FetchSent
    BY DEF FetchInv, FetchTypes, Fetch!TypeOK, Fetch!Url, FetchSent
  <2>2. /\ sent \in Seq(FetchSent) /\ Len(sent) = hop /\ Len(sent) \in Nat
        /\ sent' \in Seq(FetchSent) /\ Len(sent') = Len(sent) + 1
        /\ DOMAIN sent = 1 .. Len(sent) /\ DOMAIN sent' = 1 .. Len(sent) + 1
        /\ \A i \in 1 .. Len(sent) : sent'[i] = sent[i]
        /\ sent'[Len(sent) + 1] = new
    BY <1>1, <1>3, <2>1 DEF FetchInv, FetchTypes
  <2> HIDE DEF new
  <2>3. FetchTypes'
    BY <1>1, <1>3, <2>2 DEF FetchInv, FetchTypes, Fetch!TypeOK
  <2>4. CredentialsInv'
    <3>1. new.origin = url.origin /\ new.credentials = credentials
      BY DEF new
    <3>2. credentials => \A i \in DOMAIN sent' : sent'[i].origin = url.origin
      BY <1>1, <2>2, <3>1 DEF FetchInv, CredentialsInv
    <3>3. Fetch!CredentialsStayHome'
      <4> SUFFICES ASSUME NEW j \in DOMAIN sent', sent'[j].credentials, NEW i \in 1 .. j
                   PROVE  sent'[i].origin = sent'[1].origin
        BY DEF Fetch!CredentialsStayHome
      <4>1. CASE j \in 1 .. Len(sent)
        BY <4>1, <2>2 DEF FetchInv, CredentialsInv, Fetch!CredentialsStayHome
      <4>2. CASE j = Len(sent) + 1
        BY <4>2, <2>2, <3>1, <3>2
      <4> QED
        BY <4>1, <4>2, <2>2
    <3> QED
      BY <1>1, <3>2, <3>3 DEF CredentialsInv
  <2>5. PolicyInv'
    <3>1. ~AllowPrivate => new.address = "public"
      BY <1>3 DEF new, Fetch!Resolves
    <3> QED
      BY <1>1, <1>3, <2>2, <3>1 DEF FetchInv, PolicyInv, Fetch!StaysInPolicy, Fetch!Valid
  <2>6. BodyInv'
    <3>1. new.body = body /\ new.method = method /\ new.status = 0
      BY DEF new
    <3>2. \A i \in DOMAIN sent' : AskedForGet(i)' => ~body /\ method = "GET"
      BY <1>1, <2>2, <3>1 DEF FetchInv, BodyInv, AskedForGet
    <3>3. Fetch!BodyGoesOnce'
      <4> SUFFICES ASSUME NEW i \in DOMAIN sent', NEW j \in DOMAIN sent', i < j,
                          AskedForGet(i)'
                   PROVE  ~sent'[j].body /\ sent'[j].method = "GET"
        BY DEF Fetch!BodyGoesOnce, AskedForGet
      <4>1. CASE j \in 1 .. Len(sent)
        BY <4>1, <2>2 DEF FetchInv, BodyInv, Fetch!BodyGoesOnce, AskedForGet
      <4>2. CASE j = Len(sent) + 1
        BY <4>2, <2>2, <3>1, <3>2
      <4> QED
        BY <4>1, <4>2, <2>2
    <3> QED
      BY <1>1, <1>3, <2>2, <3>1, <3>2, <3>3 DEF BodyInv
  <2> QED
    BY <2>3, <2>4, <2>5, <2>6 DEF FetchInv
<1> QED
  BY <1>0, <1>2, <1>3

\* A redirect: its status goes to the request that it answers.
LEMMA RedirectKeepsFetchInv ==
  ASSUME FetchInv, NEW status_ \in Fetch!Redirects, NEW next \in Fetch!Url,
         Fetch!Redirect(status_, next)
  PROVE  FetchInv'
<1> USE FetchAssumption
<1> DEFINE n == Len(sent)
<1>1. /\ fetchStep = "answer" /\ n = hop + 1 /\ n \in Nat /\ n \in DOMAIN sent
      /\ sent' = [sent EXCEPT ![n].status = status_] /\ UNCHANGED size
      /\ sent \in Seq(FetchSent) /\ DOMAIN sent = 1 .. n
  BY DEF Fetch!Redirect, FetchInv, FetchTypes, Fetch!TypeOK
<1>2. sent[n] \in FetchSent
  BY <1>1
<1>3. /\ Len(sent') = n /\ DOMAIN sent' = 1 .. n
      /\ sent'[n] = [sent[n] EXCEPT !.status = status_]
      /\ \A i \in 1 .. n : i # n => sent'[i] = sent[i]
  BY <1>1
<1>4. [sent[n] EXCEPT !.status = status_] \in FetchSent
  BY <1>2 DEF FetchSent
<1>5. sent' \in Seq(FetchSent)
  BY <1>1, <1>4
<1>6. /\ \A i \in DOMAIN sent' : /\ sent'[i].origin = sent[i].origin
                                /\ sent'[i].address = sent[i].address
                                /\ sent'[i].body = sent[i].body
                                /\ sent'[i].method = sent[i].method
                                /\ sent'[i].credentials = sent[i].credentials
      /\ \A i \in DOMAIN sent' : i # n => sent'[i].status = sent[i].status
      /\ sent'[n].status = status_
  <2> SUFFICES ASSUME NEW i \in 1 .. n
               PROVE  /\ sent'[i].origin = sent[i].origin
                      /\ sent'[i].address = sent[i].address
                      /\ sent'[i].body = sent[i].body
                      /\ sent'[i].method = sent[i].method
                      /\ sent'[i].credentials = sent[i].credentials
                      /\ i # n => sent'[i].status = sent[i].status
                      /\ i = n => sent'[i].status = status_
    BY <1>1, <1>3
  <2>1. CASE i = n
    BY <2>1, <1>2, <1>3 DEF FetchSent
  <2>2. CASE i # n
    BY <2>2, <1>3
  <2> QED
    BY <2>1, <2>2
<1> HIDE DEF n
<1>7. /\ Fetch!CredentialsStayHome'
      /\ \A i \in DOMAIN sent' : sent'[i].origin = sent[i].origin
  BY <1>1, <1>3, <1>6 DEF FetchInv, CredentialsInv, Fetch!CredentialsStayHome
<1>8. ~AllowPrivate => \A i \in DOMAIN sent' : sent'[i].address = "public"
  BY <1>1, <1>3, <1>6 DEF FetchInv, PolicyInv, Fetch!StaysInPolicy
<1>9. Fetch!BodyGoesOnce'
  <2> SUFFICES ASSUME NEW i \in DOMAIN sent', NEW j \in DOMAIN sent', i < j, AskedForGet(i)'
               PROVE  ~sent'[j].body /\ sent'[j].method = "GET"
    BY DEF Fetch!BodyGoesOnce, AskedForGet
  <2>1. i # n /\ i \in DOMAIN sent /\ j \in DOMAIN sent
    BY <1>1, <1>3
  <2> QED
    BY <2>1, <1>6 DEF FetchInv, BodyInv, Fetch!BodyGoesOnce, AskedForGet
<1>10. CASE /\ Fetch!Valid(next) /\ hop < MaxRedirects
            /\ credentials' = Fetch!KeepsCredentials(next)
            /\ method' = IF Fetch!BecomesGet(status_) THEN "GET" ELSE method
            /\ body' = (body /\ ~Fetch!BecomesGet(status_))
            /\ url' = next /\ hop' = hop + 1 /\ fetchStep' = "send"
            /\ UNCHANGED outcome
  <2>1. FetchTypes'
    <3>1. body' \in BOOLEAN /\ credentials' \in BOOLEAN
      BY <1>10 DEF Fetch!KeepsCredentials
    <3>2. {body, credentials}' \subseteq BOOLEAN
      BY <3>1
    <3>3. method' \in {"GET", "POST"} /\ (body' => method' = "POST")
      BY <1>10 DEF FetchInv, FetchTypes, Fetch!TypeOK
    <3> QED
      BY <1>1, <1>3, <1>5, <1>10, <3>2, <3>3 DEF FetchInv, FetchTypes, Fetch!TypeOK
  <2>2. CredentialsInv'
    BY <1>1, <1>3, <1>7, <1>10 DEF FetchInv, CredentialsInv, Fetch!KeepsCredentials
  <2>3. PolicyInv'
    BY <1>1, <1>8, <1>10 DEF FetchInv, PolicyInv, Fetch!StaysInPolicy, Fetch!Valid
  <2>4. \A i \in DOMAIN sent' : AskedForGet(i)' => ~body' /\ method' = "GET"
    <3> SUFFICES ASSUME NEW i \in DOMAIN sent', AskedForGet(i)'
                 PROVE  ~body' /\ method' = "GET"
      OBVIOUS
    <3>1. CASE i = n
      <4>1. body /\ status_ \in {301, 302, 303}
        <5>1. sent'[n].body /\ sent'[n].status \in {301, 302, 303}
          BY <3>1 DEF AskedForGet
        <5>2. sent'[n].body = sent[n].body /\ sent'[n].status = status_
          BY <1>1, <1>3, <1>6
        <5>3. sent[n].body = body
          BY <1>1 DEF FetchInv, BodyInv, n
        <5> QED
          BY <5>1, <5>2, <5>3
      <4>2. method = "POST"
        BY <4>1 DEF FetchInv, FetchTypes
      <4>3. Fetch!BecomesGet(status_)
        BY <4>1, <4>2 DEF Fetch!BecomesGet
      <4> QED
        BY <4>3, <1>10
    <3>2. CASE i # n
      BY <3>2, <1>1, <1>3, <1>6, <1>10 DEF FetchInv, BodyInv, AskedForGet
    <3> QED
      BY <3>1, <3>2
  <2>5. BodyInv'
    BY <1>9, <1>10, <2>4 DEF BodyInv
  <2> QED
    BY <2>1, <2>2, <2>3, <2>5 DEF FetchInv
<1>11. CASE /\ fetchStep' = "done" /\ outcome' = "error"
            /\ UNCHANGED <<url, method, body, credentials, hop>>
  <2>1. FetchTypes'
    BY <1>1, <1>3, <1>5, <1>11 DEF FetchInv, FetchTypes, Fetch!TypeOK
  <2>2. CredentialsInv'
    BY <1>7, <1>11 DEF CredentialsInv
  <2>3. PolicyInv'
    BY <1>1, <1>8, <1>11 DEF FetchInv, PolicyInv, Fetch!StaysInPolicy, Fetch!Valid
  <2>4. BodyInv'
    BY <1>9, <1>11 DEF BodyInv
  <2> QED
    BY <2>1, <2>2, <2>3, <2>4 DEF FetchInv
<1> QED
  BY <1>10, <1>11 DEF Fetch!Redirect, Fetch!Ends

LEMMA FetchInvStays == FetchInv /\ [Fetch!Next]_(Fetch!fetchVars) => FetchInv'
<1> SUFFICES ASSUME FetchInv, [Fetch!Next]_(Fetch!fetchVars) PROVE FetchInv'
  OBVIOUS
<1>1. CASE UNCHANGED Fetch!fetchVars
  <2>1. FetchTypes'
    BY <1>1 DEF Fetch!fetchVars, FetchInv, FetchTypes, Fetch!TypeOK
  <2>2. CredentialsInv'
    BY <1>1 DEF Fetch!fetchVars, FetchInv, CredentialsInv, Fetch!CredentialsStayHome
  <2>3. PolicyInv'
    BY <1>1 DEF Fetch!fetchVars, FetchInv, PolicyInv, Fetch!StaysInPolicy, Fetch!Valid
  <2>4. BodyInv'
    BY <1>1 DEF Fetch!fetchVars, FetchInv, BodyInv, Fetch!BodyGoesOnce, AskedForGet
  <2> QED
    BY <2>1, <2>2, <2>3, <2>4 DEF FetchInv
<1>2. ASSUME Fetch!Data \/ Fetch!Fail \/ Fetch!End PROVE FetchInv'
  <2>1. /\ fetchStep = "answer" /\ UNCHANGED <<url, method, body, credentials, hop, sent>>
        /\ \/ /\ fetchStep' = "answer" /\ outcome' = outcome
              /\ size' = size + 1 /\ size + 1 <= MaxBytes
           \/ fetchStep' = "done" /\ outcome' = "error" /\ size' \in {size, size + 1}
           \/ fetchStep' = "done" /\ outcome' = "answer" /\ size' = size
    BY <1>2, FetchAssumption
       DEF FetchInv, FetchTypes, Fetch!TypeOK, Fetch!Data, Fetch!Fail, Fetch!End, Fetch!Ends
  <2>2. size \in Nat /\ size <= MaxBytes
    BY <2>1, FetchAssumption DEF FetchInv, PolicyInv, FetchTypes, Fetch!TypeOK
  <2>3. FetchTypes'
    BY <2>1, <2>2, FetchAssumption DEF FetchInv, FetchTypes, Fetch!TypeOK
  <2>4. CredentialsInv'
    BY <2>1 DEF FetchInv, CredentialsInv, Fetch!CredentialsStayHome
  <2>5. PolicyInv'
    BY <2>1, <2>2 DEF FetchInv, PolicyInv, Fetch!StaysInPolicy, Fetch!Valid
  <2>6. BodyInv'
    BY <2>1 DEF FetchInv, BodyInv, Fetch!BodyGoesOnce, AskedForGet
  <2> QED
    BY <2>3, <2>4, <2>5, <2>6 DEF FetchInv
<1> QED
  BY <1>1, <1>2, SendKeepsFetchInv, RedirectKeepsFetchInv DEF Fetch!Next

\* Through every redirect credentials stay home, excluded addresses are not
\* asked, and a body is not sent again once a GET was asked for.
THEOREM FetchesAreSafe == ServicesSpec => []FetchesKeepToPolicy
<1>1. FetchInv => FetchesKeepToPolicy
  BY DEF FetchInv, FetchTypes, CredentialsInv, PolicyInv, BodyInv, FetchesKeepToPolicy
<1>2. FetchInv /\ [ServicesNext]_all => FetchInv'
  BY StepIsOfOneService, FetchInvStays
<1> QED
  BY <1>1, <1>2, FetchStarts, PTL DEF ServicesSpec

-----------------------------------------------------------------------------
(* Requests of others: what the tables of routes say *)

\* Which rows change in answer to a GET.
ReadsOnly(rt) ==
  rt.method = "GET" /\ rt.writes # Req!Nothing =>
    rt.url \in {"sources", "leads/export", "agents", "public/unsubscribe"}

\* A route that runs a command asks for what the command needs.
AsksForCommand(rt) ==
  rt.command # "none" =>
    /\ rt.permission # Req!Anyone
    /\ rt.url = "commands" \/ rt.permission = Req!CommandPermissions[rt.command]

\* What a route changes that those who may only read are let through to.
ForViewers(rt) ==
  /\ rt.permission \in Req!Read /\ rt.writes # Req!Nothing
  /\ rt.url = "commands" => Req!CommandPermissions[rt.command] \in Req!Read
  => \/ rt.writes \in {"reports", "alerts"}
     \/ rt.writes \in {"sources", "agents"} /\ rt.method = "GET"
     \/ rt.writes = "tasks" /\ rt.command \in {"finance", "report"}

Tables(rt) == ReadsOnly(rt) /\ AsksForCommand(rt) /\ ForViewers(rt)

LEMMA ViewersOnlyRead ==
  /\ Req!Roles = {"owner", "admin", "operator", "analyst", "viewer"}
  /\ \A p : Req!Can("viewer", p) => p \in Req!Read
  /\ \A p : ~Req!Can(Req!NotMember, p)
BY DEF Req!Roles, Req!RolePermissions, Req!Can, Req!NotMember

LEMMA CommandNeeds ==
  /\ DOMAIN Req!CommandPermissions = {"research", "analyze", "build", "launch", "experiment",
                                      "growth", "finance", "audit", "status", "report", "help"}
  /\ Req!CommandPermissions["research"] = "research:run"
  /\ Req!CommandPermissions["analyze"] = "research:run"
  /\ Req!CommandPermissions["build"] = "build:run"
  /\ Req!CommandPermissions["launch"] = "deploy:run"
  /\ Req!CommandPermissions["experiment"] = "experiment:write"
  /\ Req!CommandPermissions["growth"] = "campaign:write"
  /\ Req!CommandPermissions["audit"] = "audit:read"
BY DEF Req!CommandPermissions

LEMMA TriggersFit == \A rt \in Req!Triggers : Tables(rt)
BY CommandNeeds DEF Req!Triggers, Req!Trigger, Req!Route, Req!Nothing, Req!Anyone, Req!Read, Tables, ReadsOnly,
   AsksForCommand, ForViewers

LEMMA GetsFit ==
  ASSUME NEW permission, NEW urls, NEW rt \in Req!Gets(permission, urls)
  PROVE  Tables(rt)
BY DEF Req!Gets, Req!Route, Req!Nothing, Tables, ReadsOnly, AsksForCommand, ForViewers

\* A form that changes something the routes of viewers do not.
LEMMA PostsFit ==
  ASSUME NEW permission, NEW writes, NEW urls, NEW rt \in Req!Posts(permission, writes, urls),
         permission \in Req!Read => writes \in {Req!Nothing, "reports", "alerts"}
  PROVE  Tables(rt)
BY DEF Req!Posts, Req!Route, Req!Nothing, Tables, ReadsOnly, AsksForCommand, ForViewers

LEMMA OpportunityFits == \A rt \in Req!OpportunityRoutes : Tables(rt)
<1> SUFFICES ASSUME NEW rt \in Req!OpportunityRoutes PROVE Tables(rt)
  OBVIOUS
<1>1. CASE rt \in {Req!Route("PATCH", "opportunities/:id", "opportunity:write", "opportunities"),
                   Req!Route("PATCH", "sources/:id", "settings:write", "sources"),
                   Req!Route("GET", "sources", "org:read", "sources")}
  BY <1>1 DEF Req!Route, Req!Nothing, Req!Read, Tables, ReadsOnly, AsksForCommand, ForViewers
<1>2. /\ "research:run" \notin Req!Read /\ "opportunity:write" \notin Req!Read
      /\ "settings:write" \notin Req!Read
  BY DEF Req!Read
<1> QED
  BY <1>1, <1>2, TriggersFit, GetsFit, PostsFit DEF Req!OpportunityRoutes

LEMMA OperationsFit == \A rt \in Req!OperationsRoutes : Tables(rt)
<1> SUFFICES ASSUME NEW rt \in Req!OperationsRoutes PROVE Tables(rt)
  OBVIOUS
<1>1. CASE rt \in {Req!Route("PATCH", "leads/:id", "lead:write", "leads"),
                   Req!Route("GET", "leads/export", "lead:export", "approvals")}
  BY <1>1 DEF Req!Route, Req!Nothing, Req!Read, Tables, ReadsOnly, AsksForCommand, ForViewers
<1>2. \A p \in {"experiment:write", "revenue:write", "opportunity:write", "deploy:run",
                "lead:write", "campaign:write"} : p \notin Req!Read
  BY DEF Req!Read
<1> QED
  BY <1>1, <1>2, GetsFit, PostsFit DEF Req!OperationsRoutes

LEMMA FinanceFits == \A rt \in Req!FinanceRoutes : Tables(rt)
<1> SUFFICES ASSUME NEW rt \in Req!FinanceRoutes PROVE Tables(rt)
  OBVIOUS
<1>1. CASE rt = Req!Route("PUT", "roadmap/assumptions", "org:write", "settings")
  BY <1>1 DEF Req!Route, Req!Nothing, Req!Read, Tables, ReadsOnly, AsksForCommand, ForViewers
<1>2. "revenue:write" \notin Req!Read
  BY DEF Req!Read
<1> QED
  BY <1>1, <1>2, GetsFit, PostsFit DEF Req!FinanceRoutes

LEMMA SystemFits == \A rt \in Req!SystemRoutes : Tables(rt)
<1> SUFFICES ASSUME NEW rt \in Req!SystemRoutes PROVE Tables(rt)
  OBVIOUS
<1>1. CASE rt \in {Req!Route("GET", "agents", "agent:read", "agents"),
                   Req!Route("PATCH", "agents/:name", "agent:manage", "agents"),
                   Req!Route("PUT", "policies", "policy:write", "policies"),
                   Req!Route("PUT", "secrets", "secrets:write", "secrets"),
                   Req!Route("DELETE", "secrets/:name", "secrets:write", "secrets"),
                   Req!Route("PUT", "ai/pricing", "settings:write", "prices"),
                   Req!Route("GET", "health", Req!Anyone, Req!Nothing)}
  BY <1>1 DEF Req!Route, Req!Nothing, Req!Anyone, Req!Read, Tables, ReadsOnly, AsksForCommand,
     ForViewers
<1>2. ASSUME NEW c \in DOMAIN Req!CommandPermissions,
             rt = [Req!Route("POST", "commands", "org:read",
                             IF c \in Req!StartsTasks THEN "tasks" ELSE Req!Nothing)
                     EXCEPT !.command = c]
      PROVE  Tables(rt)
  <2>1. /\ rt.method = "POST" /\ rt.url = "commands" /\ rt.permission = "org:read"
        /\ rt.command = c /\ (c \in Req!StartsTasks => rt.writes = "tasks")
        /\ (c \notin Req!StartsTasks => rt.writes = Req!Nothing)
    BY <1>2 DEF Req!Route
  <2>2. c \in Req!StartsTasks /\ Req!CommandPermissions[c] \in Req!Read => c \in {"finance", "report"}
    BY CommandNeeds DEF Req!StartsTasks, Req!Read
  <2> QED
    BY <2>1, <2>2 DEF Req!Anyone, Req!Nothing, Tables, ReadsOnly, AsksForCommand, ForViewers
<1>3. \A p \in {"agent:run", "approval:decide"} : p \notin Req!Read
  BY DEF Req!Read
<1> QED
  BY <1>1, <1>2, <1>3, GetsFit, PostsFit DEF Req!SystemRoutes

LEMMA AuthFits == \A rt \in Req!AuthRoutes : Tables(rt)
<1> SUFFICES ASSUME NEW rt \in Req!AuthRoutes PROVE Tables(rt)
  OBVIOUS
<1>1. CASE rt \in {Req!Route("DELETE", "api-keys/:id", "settings:write", "keys"),
                   Req!Route("PATCH", "org", "org:write", "settings")}
  BY <1>1 DEF Req!Route, Req!Nothing, Req!Read, Tables, ReadsOnly, AsksForCommand, ForViewers
<1>2. \A p \in {Req!Anyone, "settings:write", "members:manage", "org:write"} : p \notin Req!Read
  BY DEF Req!Read, Req!Anyone
<1> QED
  BY <1>1, <1>2, GetsFit, PostsFit DEF Req!AuthRoutes

LEMMA PublicFits == \A rt \in Req!PublicRoutes : Tables(rt)
BY DEF Req!PublicRoutes, Req!Route, Req!Anyone, Req!Nothing, Req!Read, Tables, ReadsOnly,
   AsksForCommand, ForViewers

LEMMA RoutesFit == \A rt \in Req!Routes : Tables(rt)
BY OpportunityFits, OperationsFit, FinanceFits, SystemFits, AuthFits, PublicFits DEF Req!Routes

-----------------------------------------------------------------------------
(***************************************************************************)
(* A request on its way.  Who it is from is known from its authentication  *)
(* on; a token is echoed from the check on, if it had to be; and once the  *)
(* handler runs, one of the roles that the caller has had since the check  *)
(* held every permission that the route asks for.                          *)
(***************************************************************************)
Sane ==
  /\ requestRequest \in [phase : {"idle", "limited", "unknown", "known", "checked", "allowed",
                                 "answered"},
                        route : Req!Routes \cup {Req!Idle.route}, via : Req!Credentials,
                        echoes : BOOLEAN, principal : BOOLEAN]
  /\ Req!TypeOK

Known ==
  requestRequest.principal =>
    /\ requestRequest.route.url \notin Req!Unauthenticated
    /\ requestRequest.via \in {"session", "api_key"}

Checked == Req!NeedsToken => requestRequest.echoes

\* What authed has found, unless the route is open to anyone.
Authed ==
  requestRequest.route.permission # Req!Anyone =>
    /\ requestRequest.principal
    /\ \E r \in seen :
         /\ Req!Can(r, requestRequest.route.permission)
         /\ requestRequest.route.url = "commands" =>
              Req!Can(r, Req!CommandPermissions[requestRequest.route.command])

RouteInv ==
  /\ Sane /\ Known
  /\ requestRequest.phase \in {"checked", "allowed"} => Checked /\ requestRole \in seen
  /\ requestRequest.phase = "allowed" => Authed
  /\ Req!Wrote => Checked /\ Authed /\ answered.wrote = requestRequest.route.writes

\* What the properties say follows from the tables.
LEMMA RouteInvSuffices == RouteInv => RequestsAreAuthorised
<1> SUFFICES ASSUME RouteInv
             PROVE  /\ Req!TypeOK /\ Req!WritesEchoTheToken
                    /\ Req!CommandsNeedTheirPermission /\ Req!ViewersReadOnly
  BY DEF RequestsAreAuthorised
<1> DEFINE rt == requestRequest.route
<1>1. Req!TypeOK
  BY DEF RouteInv, Sane
<1>2. Tables(rt)
  <2>1. Tables(Req!Idle.route)
    BY DEF Req!Idle, Req!Route, Req!Nothing, Req!Anyone, Req!Read, Tables, ReadsOnly,
       AsksForCommand, ForViewers
  <2> QED
    BY <2>1, RoutesFit DEF RouteInv, Sane
<1>3. Req!Wrote => Checked /\ Authed /\ answered.wrote = rt.writes /\ rt.writes # Req!Nothing
  BY DEF RouteInv, Req!Wrote
<1>4. Known
  BY DEF RouteInv
<1> HIDE DEF rt
<1>5. Req!WritesEchoTheToken
  BY <1>2, <1>3, <1>4 DEF Req!WritesEchoTheToken, Checked, Req!NeedsToken, Known, Tables,
     ReadsOnly, Req!Unauthenticated, rt
<1>6. Req!CommandsNeedTheirPermission
  BY <1>2, <1>3 DEF Req!CommandsNeedTheirPermission, Authed, Tables, AsksForCommand, rt
<1>7. Req!ViewersReadOnly
  <2> SUFFICES ASSUME Req!Wrote, rt.permission # Req!Anyone, seen \subseteq {"viewer", Req!NotMember}
               PROVE  \/ answered.wrote \in {"reports", "alerts"}
                      \/ answered.wrote \in {"sources", "agents"} /\ rt.method = "GET"
                      \/ answered.wrote = "tasks" /\ rt.command \in {"finance", "report"}
    BY <1>3 DEF Req!ViewersReadOnly, Authed, rt
  <2>1. PICK r \in seen : /\ Req!Can(r, rt.permission)
                          /\ rt.url = "commands" => Req!Can(r, Req!CommandPermissions[rt.command])
    BY <1>3 DEF Authed, rt
  <2>2. r = "viewer"
    BY <2>1, ViewersOnlyRead
  <2> QED
    BY <1>2, <1>3, <2>1, <2>2, ViewersOnlyRead DEF Tables, ForViewers
<1> QED
  BY <1>1, <1>5, <1>6, <1>7

LEMMA RouteInvStarts == ServicesInit => RouteInv
<1> SUFFICES ASSUME Req!Init PROVE RouteInv
  BY DEF ServicesInit
<1>1. requestRequest = Req!Idle /\ requestRequest.phase = "idle"
  BY DEF Req!Init, Req!Idle
<1>2. Sane
  BY <1>1 DEF Req!Init, Req!Idle, Sane, Req!TypeOK, Req!Credentials
<1>3. Known /\ ~Req!Wrote
  BY <1>1 DEF Known, Req!Wrote, Req!Idle
<1> QED
  BY <1>1, <1>2, <1>3 DEF RouteInv

LEMMA RouteInvStays == RouteInv /\ [Req!Next]_(Req!requestVars) => RouteInv'
<1> SUFFICES ASSUME RouteInv, [Req!Next]_(Req!requestVars) PROVE RouteInv'
  OBVIOUS
<1> USE DEF RouteInv
<1> DEFINE Was == requestRequest
           Is == requestRequest'
\* What an answer, and a further phase, keep.
<1>a. ASSUME NEW status_, Req!Answer(status_, Req!Nothing), UNCHANGED <<requestRole, seen>>
      PROVE  RouteInv'
  <2>1. /\ Is = [Was EXCEPT !.phase = "answered"] /\ ~Req!Wrote'
    BY <1>a DEF Req!Answer, Req!Wrote
  <2>2. Sane'
    BY <1>a, <2>1 DEF Sane, Req!TypeOK
  <2>3. Known' /\ Is.phase = "answered"
    BY <2>1 DEF Sane, Known
  <2> QED
    BY <2>1, <2>2, <2>3
<1>1. CASE UNCHANGED Req!requestVars
  BY <1>1 DEF Req!requestVars, Sane, Known, Checked, Authed, Req!TypeOK, Req!Wrote, Req!NeedsToken
<1>2. CASE Req!Arrive
  <2>1. PICK route \in Req!Routes, via \in Req!Credentials, echoes \in BOOLEAN :
          Is = [phase |-> "limited", route |-> route, via |-> via, echoes |-> echoes,
                principal |-> FALSE]
    BY <1>2 DEF Req!Arrive
  <2>2. Sane'
    BY <1>2, <2>1 DEF Req!Arrive, Sane, Req!TypeOK
  <2>3. Known' /\ Is.phase = "limited" /\ ~Req!Wrote'
    BY <2>1 DEF Known, Req!Wrote
  <2> QED
    BY <2>2, <2>3
<1>3. CASE Req!Limit
  <2>1. CASE Req!To("unknown")
    <3>1. Is = [Was EXCEPT !.phase = "unknown"] /\ UNCHANGED <<answered, requestRole, seen>>
      BY <1>3, <2>1 DEF Req!Limit, Req!To
    <3>2. Sane'
      BY <3>1 DEF Sane, Req!TypeOK
    <3>3. Known' /\ Is.phase = "unknown" /\ ~Req!Wrote'
      BY <3>1 DEF Sane, Known, Req!Wrote
    <3> QED
      BY <3>2, <3>3
  <2> QED
    BY <1>3, <1>a, <2>1 DEF Req!Limit
<1>4. CASE Req!Authenticate
  <2>1. CASE Is = [Was EXCEPT !.phase = "known",
                              !.principal = /\ Was.route.url \notin Req!Unauthenticated
                                            /\ Was.via \in {"session", "api_key"}]
             /\ UNCHANGED answered
    <3>1. /\ Is.phase = "known" /\ Is.route = Was.route /\ Is.via = Was.via
          /\ Is.principal = (/\ Was.route.url \notin Req!Unauthenticated
                             /\ Was.via \in {"session", "api_key"})
      BY <2>1 DEF Sane
    <3>2. Sane'
      BY <1>4, <2>1 DEF Req!Authenticate, Sane, Req!TypeOK
    <3>3. Known' /\ ~Req!Wrote'
      BY <3>1 DEF Known, Req!Wrote
    <3> QED
      BY <3>1, <3>2, <3>3
  <2> QED
    BY <1>4, <1>a, <2>1 DEF Req!Authenticate
<1>5. CASE Req!BadBody
  BY <1>5, <1>a DEF Req!BadBody
<1>6. CASE Req!CheckCsrf
  <2>1. seen' = {requestRole} /\ UNCHANGED requestRole /\ requestRole \in Req!Roles \cup {Req!NotMember}
    BY <1>6 DEF Req!CheckCsrf, Sane, Req!TypeOK
  <2>2. CASE Is = [Was EXCEPT !.phase = "answered"] /\ answered' = [status |-> 403, wrote |-> Req!Nothing]
    <3>1. Sane'
      BY <2>1, <2>2 DEF Sane, Req!TypeOK
    <3>2. Known' /\ Is.phase = "answered" /\ ~Req!Wrote'
      BY <2>2 DEF Sane, Known, Req!Wrote
    <3> QED
      BY <3>1, <3>2
  <2>3. CASE (Req!NeedsToken => Was.echoes) /\ Is = [Was EXCEPT !.phase = "checked"] /\ UNCHANGED answered
    <3>1. Sane'
      BY <2>1, <2>3 DEF Sane, Req!TypeOK
    <3>2. /\ Is.phase = "checked" /\ Is.via = Was.via /\ Is.route = Was.route
          /\ Is.principal = Was.principal /\ Is.echoes = Was.echoes
      BY <2>3 DEF Sane
    <3>3. Known' /\ Checked' /\ ~Req!Wrote'
      BY <2>3, <3>2 DEF Known, Checked, Req!NeedsToken, Req!Wrote
    <3> QED
      BY <2>1, <3>1, <3>2, <3>3
  <2> QED
    BY <1>6, <2>2, <2>3 DEF Req!CheckCsrf, Req!Answer, Req!To
<1>7. CASE Req!RequireOrg \/ Req!OpenRoute
  <2>1. UNCHANGED <<requestRole, seen>> /\ Was.phase = "checked"
    BY <1>7 DEF Req!RequireOrg, Req!OpenRoute
  <2>2. CASE Req!To("allowed") /\ Authed
    <3>1. Is = [Was EXCEPT !.phase = "allowed"] /\ UNCHANGED answered
      BY <2>2 DEF Req!To
    <3>2. Sane'
      BY <2>1, <3>1 DEF Sane, Req!TypeOK
    <3>3. /\ Is.phase = "allowed" /\ Is.via = Was.via /\ Is.route = Was.route
          /\ Is.principal = Was.principal /\ Is.echoes = Was.echoes
      BY <3>1 DEF Sane
    <3>4. Known' /\ Checked' /\ Authed' /\ ~Req!Wrote'
      BY <2>1, <2>2, <3>3 DEF Known, Checked, Authed, Req!NeedsToken, Req!Wrote
    <3> QED
      BY <2>1, <3>2, <3>3, <3>4
  <2>3. CASE Req!To("allowed") /\ Req!OpenRoute
    <3>1. Authed
      BY <2>3 DEF Req!OpenRoute, Authed
    <3> QED
      BY <2>2, <2>3, <3>1
  <2>4. CASE Req!To("allowed") /\ Req!RequireOrg
    <3>1. Is.phase = "allowed"
      BY <2>4 DEF Req!To, Sane
    <3>2. ~Req!Answer(401, Req!Nothing) /\ ~Req!Answer(403, Req!Nothing)
      BY <3>1 DEF Req!Answer, Sane
    <3>3. Was.principal /\ requestRole \in seen
      BY <2>1, <2>4, <3>2 DEF Req!RequireOrg
    <3>4. /\ Req!Can(requestRole, Was.route.permission)
          /\ Was.route.url = "commands" =>
               Req!Can(requestRole, Req!CommandPermissions[Was.route.command])
      BY <2>4, <3>2 DEF Req!RequireOrg
    <3> QED
      BY <2>2, <2>4, <3>3, <3>4 DEF Authed
  <2> QED
    BY <1>7, <1>a, <2>1, <2>3, <2>4 DEF Req!RequireOrg, Req!OpenRoute
<1>8. CASE Req!Handle
  <2>1. ASSUME NEW status_, Req!Answer(status_, Was.route.writes) PROVE RouteInv'
    <3>1. /\ Is = [Was EXCEPT !.phase = "answered"] /\ answered'.wrote = Was.route.writes
          /\ UNCHANGED <<requestRole, seen>> /\ Was.phase = "allowed"
      BY <1>8, <2>1 DEF Req!Handle, Req!Answer
    <3>2. Sane'
      BY <3>1 DEF Sane, Req!TypeOK
    <3>3. /\ Is.phase = "answered" /\ Is.via = Was.via /\ Is.route = Was.route
          /\ Is.principal = Was.principal /\ Is.echoes = Was.echoes
      BY <3>1 DEF Sane
    <3>4. Known' /\ Checked' /\ Authed'
      BY <3>1, <3>3 DEF Known, Checked, Authed, Req!NeedsToken
    <3> QED
      BY <3>1, <3>2, <3>3, <3>4
  <2> QED
    BY <1>8, <1>a, <2>1 DEF Req!Handle
<1>9. CASE Req!Done
  <2>1. Is = Req!Idle /\ Is.phase = "idle" /\ seen' = {} /\ UNCHANGED requestRole
    BY <1>9 DEF Req!Done, Req!Idle
  <2>2. Sane'
    BY <2>1 DEF Req!Idle, Sane, Req!TypeOK, Req!Credentials
  <2>3. Known' /\ ~Req!Wrote'
    BY <2>1 DEF Known, Req!Wrote, Req!Idle
  <2> QED
    BY <2>1, <2>2, <2>3
<1>10. ASSUME NEW r \in Req!Roles \cup {Req!NotMember}, Req!ChangeRole(r) PROVE RouteInv'
  <2>1. /\ UNCHANGED <<requestRequest, answered>> /\ requestRole' = r /\ seen' = seen \cup {r}
        /\ Was.phase \in {"checked", "allowed"}
    BY <1>10 DEF Req!ChangeRole
  <2>2. Sane'
    BY <2>1 DEF Sane, Req!TypeOK
  <2>3. (Known => Known') /\ (Checked => Checked') /\ (Authed => Authed') /\ ~Req!Wrote'
    BY <2>1 DEF Known, Checked, Authed, Req!NeedsToken, Req!Wrote
  <2> QED
    BY <2>1, <2>2, <2>3
<1> QED
  BY <1>1, <1>2, <1>3, <1>4, <1>5, <1>6, <1>7, <1>8, <1>9, <1>10 DEF Req!Next

\* What changes is asked for with the token of the session, but for three
\* requests that change rows in answer to a GET, and by somebody who may ask
\* for it, whatever route, credential and change of role.
THEOREM RequestsAreChecked == ServicesSpec => []RequestsAreAuthorised
<1>1. RouteInv /\ [ServicesNext]_all => RouteInv'
  BY StepIsOfOneService, RouteInvStays
<1> QED
  BY <1>1, RouteInvStarts, RouteInvSuffices, PTL DEF ServicesSpec

-----------------------------------------------------------------------------
(***************************************************************************)
(* Accounts.  A request that is about to write a membership or a key keeps *)
(* what its check has found, in terms of "top", which never falls: the     *)
(* roles themselves may have changed since.                                *)
(***************************************************************************)
RequestRecord ==
  [phase : Acc!Phases, user : User \cup {Acc!NoUser}, by : Session \cup Key \cup {Acc!NoUser},
   permission : Acc!Permission, target : User \cup {Acc!NoUser},
   role : Acc!Roles \cup {Acc!NoRole}]

\* What a request in a phase has established.
Established(f) ==
  /\ f.phase # "idle" => f.user \in User
  /\ f.phase \in {"idle", "registering"} => f.by = Acc!NoUser
  /\ f.phase = "granting" => f.target \in User /\ f.role \in Grantable /\ top[f.user] = 4
  /\ f.phase = "minting" => f.role \in Grantable /\ Acc!Rank[f.role] <= top[f.user]

TopInv ==
  /\ \A u \in User : accountRole[u] # Acc!NoRole => Acc!Rank[accountRole[u]] <= top[u]
  /\ \A r \in Request : Established(accountRequest[r])
  /\ \A k \in Key : keyOf[k] # Acc!None => keyOf[k].owner \in User /\ keyOf[k].role \in Acc!Roles
  /\ Acc!RolesDoNotClimb

Registering(r) == accountRequest[r].phase = "registering"

FounderInv ==
  /\ Acc!OneFounder
  /\ ~overlap =>
       /\ \A r, q \in Request : Registering(r) /\ Registering(q) => r = q
       /\ \A r \in Request : Registering(r) => registrants = {}

AccountInv == Acc!TypeOK /\ TopInv /\ Acc!RevokedIsOut /\ FounderInv

LEMMA RankIsANumber ==
  /\ \A r \in Acc!Roles : Acc!Rank[r] \in 0..4
  /\ Acc!Rank["owner"] = 4 /\ Acc!NoRole \notin Acc!Roles
BY DEF Acc!Rank, Acc!Roles, Acc!NoRole

LEMMA WhoMay ==
  ASSUME NEW role_ \in Acc!Roles \cup {Acc!NoRole}
  PROVE  /\ Acc!Can(role_, "members:manage") => role_ = "owner"
         /\ \A p : Acc!Can(role_, p) => role_ \in Acc!Roles
BY DEF Acc!Can, Acc!RolePermissions, Acc!Permission, Acc!Roles, Acc!NoRole

LEMMA HigherIsMax ==
  ASSUME NEW a \in -1..4, NEW b \in -1..4
  PROVE  Acc!Higher(a, b) \in -1..4 /\ Acc!Higher(a, b) >= a /\ Acc!Higher(a, b) >= b
BY DEF Acc!Higher

LEMMA IdleIsTyped == Acc!Idle \in RequestRecord /\ Acc!Idle.phase = "idle" /\ Acc!Idle.by = Acc!NoUser
BY DEF Acc!Idle, RequestRecord, Acc!Phases, Acc!Permission

LEMMA AccountInvStarts == ServicesInit => AccountInv
<1> SUFFICES ASSUME Acc!Init PROVE AccountInv
  BY DEF ServicesInit
<1> USE DEF Acc!Init
<1>1. \A r \in Request : accountRequest[r] = Acc!Idle
  OBVIOUS
<1>2. Acc!TypeOK
  <2>1. Acc!None \in [owner : User \cup {Acc!NoUser}, role : Acc!Roles \cup {Acc!NoRole}]
    BY DEF Acc!None
  <2>2. accountRequest \in [Request -> RequestRecord]
    BY IdleIsTyped
  <2>3. /\ accountRole \in [User -> Acc!Roles \cup {Acc!NoRole}]
        /\ sessionOf \in [Session -> User \cup {Acc!NoUser}]
        /\ top \in [User -> -1..4] /\ grantor \in [User -> User \cup {Acc!NoUser}]
        /\ users \subseteq User /\ revoked \subseteq Session \cup Key
        /\ registrants \subseteq users /\ early \subseteq Request
    OBVIOUS
  <2>4. overlap \in BOOLEAN
    OBVIOUS
  <2>5. keyOf \in [Key -> [owner : User \cup {Acc!NoUser}, role : Acc!Roles \cup {Acc!NoRole}]]
    BY <2>1
  <2> QED
    BY <2>2, <2>3, <2>4, <2>5 DEF Acc!TypeOK, RequestRecord
<1>3. TopInv
  BY <1>1, IdleIsTyped DEF TopInv, Established, Acc!RolesDoNotClimb
<1>4. Acc!RevokedIsOut
  BY DEF Acc!RevokedIsOut
<1>5. FounderInv
  BY <1>1, IdleIsTyped DEF FounderInv, Registering, Acc!OneFounder
<1> QED
  BY <1>2, <1>3, <1>4, <1>5 DEF AccountInv

\* One request changes, and what users have had only rises.
LEMMA OneRequestChanges ==
  ASSUME AccountInv, NEW r \in Request, NEW f \in RequestRecord, Acc!Set(r, f),
         top' \in [User -> -1..4], \A u \in User : top[u] <= top'[u],
         Established(f)'
  PROVE  /\ accountRequest' \in [Request -> RequestRecord] /\ accountRequest'[r] = f
         /\ \A q \in Request \ {r} : accountRequest'[q] = accountRequest[q]
         /\ \A q \in Request : Established(accountRequest[q])'
<1>1. /\ accountRequest \in [Request -> RequestRecord]
      /\ accountRequest' = [accountRequest EXCEPT ![r] = f]
  BY DEF AccountInv, Acc!TypeOK, RequestRecord, Acc!Set
<1>2. /\ accountRequest' \in [Request -> RequestRecord] /\ accountRequest'[r] = f
      /\ \A q \in Request \ {r} : accountRequest'[q] = accountRequest[q]
  BY <1>1
<1>3. ASSUME NEW q \in Request, q # r PROVE Established(accountRequest[q])'
  <2> DEFINE g == accountRequest[q]
  <2>1. Established(g) /\ g \in RequestRecord
    BY <1>1 DEF AccountInv, TopInv
  <2>2. accountRequest'[q] = g
    BY <1>2, <1>3
  <2>3. top \in [User -> -1..4]
    BY DEF AccountInv, Acc!TypeOK
  <2>4. g.phase = "granting" => top'[g.user] = 4
    BY <2>1, <2>3 DEF Established
  <2>5. g.phase = "minting" => Acc!Rank[g.role] <= top'[g.user]
    BY <2>1, <2>3, RankIsANumber, AccountsAssumption DEF Established
  <2> QED
    BY <2>1, <2>2, <2>4, <2>5 DEF Established
<1>4. Established(accountRequest[r])'
  BY <1>2 DEF Established
<1> QED
  BY <1>2, <1>3, <1>4

\* ... and it serves no credential that is revoked, unless it was early.
LEMMA OneRequestServes ==
  ASSUME AccountInv, NEW r \in Request, NEW f \in RequestRecord,
         \A q \in Request \ {r} : accountRequest'[q] = accountRequest[q],
         accountRequest'[r] = f, revoked' = revoked, early \ {r} \subseteq early',
         f.by \in revoked => r \in early'
  PROVE  Acc!RevokedIsOut'
BY DEF AccountInv, Acc!RevokedIsOut

LEMMA AccountInvStays == AccountInv /\ [Acc!Next]_(Acc!vars) => AccountInv'
<1> SUFFICES ASSUME AccountInv, [Acc!Next]_(Acc!vars) PROVE AccountInv'
  OBVIOUS
<1> USE AccountsAssumption
<1> DEFINE asked_(r) == accountRequest[r]
<1>0. /\ accountRequest \in [Request -> RequestRecord] /\ top \in [User -> -1..4]
      /\ accountRole \in [User -> Acc!Roles \cup {Acc!NoRole}]
      /\ grantor \in [User -> User \cup {Acc!NoUser}]
      /\ keyOf \in [Key -> [owner : User \cup {Acc!NoUser}, role : Acc!Roles \cup {Acc!NoRole}]]
      /\ sessionOf \in [Session -> User \cup {Acc!NoUser}]
  BY DEF AccountInv, Acc!TypeOK, RequestRecord
<1>1. CASE UNCHANGED Acc!vars
  BY <1>1 DEF Acc!vars, Acc!data, Acc!history, AccountInv, Acc!TypeOK, TopInv, Established,
     Acc!RolesDoNotClimb, Acc!RevokedIsOut, FounderInv, Acc!OneFounder, Registering
<1>2. ASSUME NEW s \in Session, NEW u \in User, Acc!Login(s, u) PROVE AccountInv'
  <2>1. /\ sessionOf' = [sessionOf EXCEPT ![s] = u]
        /\ UNCHANGED <<users, accountRole, keyOf, revoked, accountRequest, registrants,
                       overlap, top, grantor, early>>
    BY <1>2 DEF Acc!Login, Acc!history
  <2>2. Acc!TypeOK'
    BY <2>1 DEF AccountInv, Acc!TypeOK
  <2> QED
    BY <2>1, <2>2 DEF AccountInv, TopInv, Established, Acc!RolesDoNotClimb, Acc!RevokedIsOut,
       FounderInv, Acc!OneFounder, Registering
<1>3. ASSUME NEW c \in Session \cup Key, Acc!Revoke(c), UNCHANGED accountRequest PROVE AccountInv'
  <2>1. /\ revoked' = revoked \cup {c}
        /\ early' = early \cup {r \in Request : accountRequest[r].by = c}
        /\ UNCHANGED <<users, accountRole, sessionOf, keyOf, accountRequest, registrants,
                       overlap, top, grantor>>
    BY <1>3 DEF Acc!Revoke
  <2>2. Acc!TypeOK'
    BY <2>1 DEF AccountInv, Acc!TypeOK
  <2> QED
    BY <2>1, <2>2 DEF AccountInv, TopInv, Established, Acc!RolesDoNotClimb, Acc!RevokedIsOut,
       FounderInv, Acc!OneFounder, Registering
<1>4. ASSUME NEW r \in Request, NEW f \in RequestRecord, Acc!Set(r, f), Established(f),
             f.phase # "registering", f.by \in revoked => r \in early',
             early' \in {early, early \ {r}},
             UNCHANGED <<users, accountRole, sessionOf, keyOf, revoked, registrants, overlap,
                         top, grantor>>
      PROVE  AccountInv'
  <2>1. Established(f)'
    BY <1>4 DEF Established
  <2>2. /\ accountRequest' \in [Request -> RequestRecord] /\ accountRequest'[r] = f
        /\ \A q \in Request \ {r} : accountRequest'[q] = accountRequest[q]
        /\ \A q \in Request : Established(accountRequest[q])'
    BY <1>0, <1>4, <2>1, OneRequestChanges
  <2>3. Acc!TypeOK'
    BY <1>4, <2>2 DEF AccountInv, Acc!TypeOK, RequestRecord
  <2>4. TopInv'
    BY <1>4, <2>2 DEF AccountInv, TopInv, Acc!RolesDoNotClimb
  <2>5. Acc!RevokedIsOut'
    BY <1>4, <2>2, OneRequestServes
  <2>6. FounderInv'
    BY <1>4, <2>2 DEF AccountInv, FounderInv, Acc!OneFounder, Registering
  <2> QED
    BY <2>3, <2>4, <2>5, <2>6 DEF AccountInv
<1>5. ASSUME NEW r \in Request, Acc!End(r),
             UNCHANGED <<users, accountRole, sessionOf, keyOf, revoked, registrants, overlap,
                         top, grantor>>
      PROVE  AccountInv'
  <2>1. Established(Acc!Idle) /\ Acc!Idle.by \notin revoked
    BY IdleIsTyped DEF Established, AccountInv, Acc!TypeOK
  <2> QED
    BY <1>4, <1>5, <2>1, IdleIsTyped DEF Acc!End
<1>6. ASSUME NEW r \in Request, NEW c \in Session \cup Key, Acc!Authenticate(r, c) PROVE AccountInv'
  <2> DEFINE f == [Acc!Idle EXCEPT !.phase = "authenticated", !.user = Acc!Owner(c), !.by = c]
  <2>1. Acc!Owner(c) \in User /\ c \notin revoked
    BY <1>0, <1>6 DEF Acc!Authenticate, Acc!Valid, Acc!Owner
  <2>2. /\ f \in RequestRecord /\ f.phase = "authenticated" /\ f.user \in User /\ f.by = c
    BY <2>1, IdleIsTyped DEF RequestRecord, Acc!Phases
  <2>3. Established(f)
    BY <2>2 DEF Established
  <2> QED
    BY <1>4, <1>6, <2>1, <2>2, <2>3 DEF Acc!Authenticate, Acc!data, Acc!history
<1>7. ASSUME NEW r \in Request, NEW p \in Acc!Permission, Acc!Authorise(r, p) PROVE AccountInv'
  <2> DEFINE f == [asked_(r) EXCEPT !.phase = "authorised", !.permission = p]
  <2>1. asked_(r) \in RequestRecord /\ asked_(r).phase = "authenticated" /\ Established(asked_(r))
    BY <1>0, <1>7 DEF Acc!Authorise, AccountInv, TopInv
  <2>2. /\ f \in RequestRecord /\ f.phase = "authorised" /\ f.user = asked_(r).user
        /\ f.by = asked_(r).by
    BY <2>1 DEF RequestRecord, Acc!Phases
  <2>3. Established(f)
    BY <2>1, <2>2 DEF Established
  <2>4. f.by \in revoked => r \in early
    BY <2>2 DEF AccountInv, Acc!RevokedIsOut
  <2> QED
    BY <1>4, <1>5, <1>7, <2>2, <2>3, <2>4 DEF Acc!Authorise, Acc!data
<1>8. ASSUME NEW r \in Request, NEW u \in User, NEW new \in Grantable, Acc!CheckGrant(r, u, new)
      PROVE  AccountInv'
  <2> DEFINE f == [asked_(r) EXCEPT !.phase = "granting", !.target = u, !.role = new]
  <2>1. asked_(r) \in RequestRecord /\ asked_(r).phase = "authorised" /\ asked_(r).user \in User
    BY <1>0, <1>8 DEF Acc!CheckGrant, AccountInv, TopInv, Established
  <2>2. /\ f \in RequestRecord /\ f.phase = "granting" /\ f.user = asked_(r).user
        /\ f.by = asked_(r).by /\ f.target = u /\ f.role = new
    BY <2>1 DEF RequestRecord, Acc!Phases
  <2>3. accountRole[asked_(r).user] = "owner"
    BY <1>0, <1>8, <2>1, WhoMay DEF Acc!CheckGrant, Acc!CanGrant
  <2>4. top[asked_(r).user] = 4
    BY <1>0, <2>1, <2>3, RankIsANumber DEF AccountInv, TopInv, Acc!NoRole
  <2>5. Established(f)
    BY <2>1, <2>2, <2>4 DEF Established
  <2>6. f.by \in revoked => r \in early
    BY <2>2 DEF AccountInv, Acc!RevokedIsOut
  <2> QED
    BY <1>4, <1>8, <2>2, <2>5, <2>6 DEF Acc!CheckGrant, Acc!data, Acc!history
<1>9. ASSUME NEW r \in Request, NEW new \in Grantable, Acc!CheckMint(r, new) PROVE AccountInv'
  <2> DEFINE f == [asked_(r) EXCEPT !.phase = "minting", !.role = new]
  <2>1. asked_(r) \in RequestRecord /\ asked_(r).phase = "authorised" /\ asked_(r).user \in User
    BY <1>0, <1>9 DEF Acc!CheckMint, AccountInv, TopInv, Established
  <2>2. /\ f \in RequestRecord /\ f.phase = "minting" /\ f.user = asked_(r).user
        /\ f.by = asked_(r).by /\ f.role = new
    BY <2>1 DEF RequestRecord, Acc!Phases
  <2>3. accountRole[asked_(r).user] \in Acc!Roles /\ Acc!Rank[new] <= Acc!Rank[accountRole[asked_(r).user]]
    BY <1>0, <1>9, <2>1, WhoMay, RankIsANumber DEF Acc!CheckMint, Acc!MayMint, Acc!AtLeast
  <2>4. Acc!Rank[new] <= top[asked_(r).user]
    BY <1>0, <2>1, <2>3, RankIsANumber DEF AccountInv, TopInv
  <2>5. Established(f)
    BY <2>1, <2>2, <2>4 DEF Established
  <2>6. f.by \in revoked => r \in early
    BY <2>2 DEF AccountInv, Acc!RevokedIsOut
  <2> QED
    BY <1>4, <1>9, <2>2, <2>5, <2>6 DEF Acc!CheckMint, Acc!data, Acc!history
<1>10. ASSUME NEW r \in Request, NEW u \in User, Acc!StartRegister(r, u) PROVE AccountInv'
  <2> DEFINE f == [Acc!Idle EXCEPT !.phase = "registering", !.user = u]
  <2>1. /\ f \in RequestRecord /\ f.phase = "registering" /\ f.user = u /\ f.by = Acc!NoUser
    BY IdleIsTyped DEF RequestRecord, Acc!Phases
  <2>2. /\ Acc!Set(r, f) /\ users = {}
        /\ overlap' = (overlap \/ \E q \in Request : accountRequest[q].phase = "registering")
        /\ UNCHANGED <<users, accountRole, sessionOf, keyOf, revoked, registrants, top, grantor,
                       early>>
    BY <1>10 DEF Acc!StartRegister, Acc!data
  <2>3. Established(f)'
    BY <2>1 DEF Established
  <2>4. /\ accountRequest' \in [Request -> RequestRecord] /\ accountRequest'[r] = f
        /\ \A q \in Request \ {r} : accountRequest'[q] = accountRequest[q]
        /\ \A q \in Request : Established(accountRequest[q])'
    BY <1>0, <2>1, <2>2, <2>3, OneRequestChanges
  <2>5. overlap' \in BOOLEAN
    BY <2>2
  <2>6. Acc!TypeOK'
    BY <2>2, <2>4, <2>5 DEF AccountInv, Acc!TypeOK, RequestRecord
  <2>7. TopInv'
    BY <2>2, <2>4 DEF AccountInv, TopInv, Acc!RolesDoNotClimb
  <2>8. Acc!RevokedIsOut'
    <3>1. f.by \notin revoked
      BY <2>1 DEF AccountInv, Acc!TypeOK
    <3> QED
      BY <2>1, <2>2, <2>4, <3>1, OneRequestServes
  <2>9. FounderInv'
    <3>1. registrants = {}
      BY <2>2 DEF AccountInv, Acc!TypeOK
    <3>2. ~overlap' => \A q \in Request : ~Registering(q)
      BY <2>2 DEF Registering
    <3>3. ~overlap' => \A q \in Request : Registering(q)' => q = r
      BY <2>4, <3>2 DEF Registering
    <3> QED
      BY <2>2, <3>1, <3>3 DEF FounderInv, Acc!OneFounder
  <2> QED
    BY <2>6, <2>7, <2>8, <2>9 DEF AccountInv
\* The steps that write end their request.
<1>11. ASSUME NEW r \in Request, Acc!End(r), top' \in [User -> -1..4],
              \A u \in User : top[u] <= top'[u], revoked' = revoked
       PROVE  /\ accountRequest' \in [Request -> RequestRecord] /\ ~Registering(r)'
              /\ \A q \in Request \ {r} : Registering(q)' <=> Registering(q)
              /\ \A q \in Request : Established(accountRequest[q])'
              /\ Acc!RevokedIsOut' /\ early' \subseteq Request
  <2>1. Established(Acc!Idle)' /\ Acc!Set(r, Acc!Idle) /\ early' = early \ {r}
    BY <1>11, IdleIsTyped DEF Established, Acc!End
  <2>2. /\ accountRequest' \in [Request -> RequestRecord] /\ accountRequest'[r] = Acc!Idle
        /\ \A q \in Request \ {r} : accountRequest'[q] = accountRequest[q]
        /\ \A q \in Request : Established(accountRequest[q])'
    BY <1>11, <2>1, IdleIsTyped, OneRequestChanges
  <2>3. Acc!Idle.by \notin revoked
    BY IdleIsTyped DEF AccountInv, Acc!TypeOK
  <2>4. Acc!RevokedIsOut'
    BY <1>11, <2>1, <2>2, <2>3, IdleIsTyped, OneRequestServes
  <2>5. early' \subseteq Request
    BY <2>1 DEF AccountInv, Acc!TypeOK
  <2> QED
    BY <2>2, <2>4, <2>5, IdleIsTyped DEF Registering
<1>12. ASSUME NEW r \in Request, Acc!Register(r) PROVE AccountInv'
  <2> DEFINE u == asked_(r).user
  <2>1. /\ Registering(r) /\ u \in User /\ Acc!End(r)
        /\ UNCHANGED <<sessionOf, keyOf, revoked, overlap, grantor>>
    BY <1>0, <1>12 DEF Acc!Register, Registering, AccountInv, TopInv, Established
  <2>2. CASE UNCHANGED <<users, registrants, accountRole, top>>
    BY <1>5, <2>1, <2>2
  <2>3. CASE /\ users' = users \cup {u} /\ registrants' = registrants \cup {u}
             /\ accountRole' = [accountRole EXCEPT ![u] = IF @ = Acc!NoRole THEN "owner" ELSE @]
             /\ top' = [top EXCEPT ![u] = Acc!Higher(@, Acc!Rank[accountRole'[u]])]
    <3>1. /\ accountRole' \in [User -> Acc!Roles \cup {Acc!NoRole}] /\ accountRole'[u] \in Acc!Roles
          /\ \A v \in User \ {u} : accountRole'[v] = accountRole[v]
      BY <1>0, <2>1, <2>3 DEF Acc!Roles
    <3>2. Acc!Rank[accountRole'[u]] \in 0..4 /\ top[u] \in -1..4
      BY <1>0, <2>1, <3>1, RankIsANumber
    <3>3. /\ top' \in [User -> -1..4] /\ \A v \in User : top[v] <= top'[v]
          /\ \A v \in User \ {u} : top'[v] = top[v]
          /\ Acc!Rank[accountRole'[u]] <= top'[u]
      BY <1>0, <2>1, <2>3, <3>2, HigherIsMax
    <3>4. /\ accountRequest' \in [Request -> RequestRecord] /\ ~Registering(r)'
          /\ \A q \in Request \ {r} : Registering(q)' <=> Registering(q)
          /\ \A q \in Request : Established(accountRequest[q])'
          /\ Acc!RevokedIsOut' /\ early' \subseteq Request
      BY <1>11, <2>1, <3>3
    <3>5. Acc!TypeOK'
      BY <2>1, <2>3, <3>1, <3>3, <3>4 DEF AccountInv, Acc!TypeOK, RequestRecord
    <3>6. \A v \in User : accountRole'[v] # Acc!NoRole => Acc!Rank[accountRole'[v]] <= top'[v]
      BY <3>1, <3>3 DEF AccountInv, TopInv
    <3>7. Acc!RolesDoNotClimb'
      <4>1. ASSUME NEW v \in User, grantor'[v] # Acc!NoUser PROVE top'[grantor'[v]] = 4
        BY <1>0, <2>1, <3>3, <4>1, RankIsANumber DEF AccountInv, TopInv, Acc!RolesDoNotClimb
      <4>2. ASSUME NEW k \in Key, keyOf'[k] # Acc!None
            PROVE  Acc!Rank[keyOf'[k].role] <= top'[keyOf'[k].owner]
        BY <1>0, <2>1, <3>3, <4>2, RankIsANumber DEF AccountInv, TopInv, Acc!RolesDoNotClimb
      <4> QED
        BY <4>1, <4>2, RankIsANumber DEF Acc!RolesDoNotClimb
    <3>8. TopInv'
      BY <2>1, <3>4, <3>6, <3>7 DEF AccountInv, TopInv
    <3>9. FounderInv'
      BY <2>1, <2>3, <3>4 DEF AccountInv, FounderInv, Acc!OneFounder
    <3> QED
      BY <3>4, <3>5, <3>8, <3>9 DEF AccountInv
  <2> QED
    BY <1>12, <2>2, <2>3 DEF Acc!Register
<1>13. ASSUME NEW r \in Request, Acc!Grant(r) PROVE AccountInv'
  <2> DEFINE f == asked_(r)
             u == asked_(r).target
  <2>1. /\ u \in User /\ f.user \in User /\ f.role \in Acc!Roles /\ top[f.user] = 4 /\ Acc!End(r)
        /\ UNCHANGED <<sessionOf, keyOf, revoked, overlap, registrants>>
    BY <1>0, <1>13 DEF Acc!Grant, AccountInv, TopInv, Established
  <2>2. /\ users' = users \cup {u} /\ accountRole' = [accountRole EXCEPT ![u] = f.role]
        /\ top' = [top EXCEPT ![u] = Acc!Higher(@, Acc!Rank[f.role])]
        /\ grantor' = [grantor EXCEPT ![u] = f.user]
    BY <1>13 DEF Acc!Grant
  <2> HIDE DEF f, u
  <2>3. /\ accountRole' \in [User -> Acc!Roles \cup {Acc!NoRole}] /\ accountRole'[u] = f.role
        /\ \A v \in User \ {u} : accountRole'[v] = accountRole[v]
    BY <1>0, <2>1, <2>2
  <2>4. Acc!Rank[f.role] \in 0..4 /\ top[u] \in -1..4
    BY <1>0, <2>1, RankIsANumber
  <2>5. /\ top' \in [User -> -1..4] /\ \A v \in User : top[v] <= top'[v]
        /\ \A v \in User \ {u} : top'[v] = top[v]
        /\ Acc!Rank[f.role] <= top'[u]
    BY <1>0, <2>1, <2>2, <2>4, HigherIsMax
  <2>6. /\ accountRequest' \in [Request -> RequestRecord] /\ ~Registering(r)'
        /\ \A q \in Request \ {r} : Registering(q)' <=> Registering(q)
        /\ \A q \in Request : Established(accountRequest[q])'
        /\ Acc!RevokedIsOut' /\ early' \subseteq Request
    BY <1>11, <2>1, <2>5
  <2>7. Acc!TypeOK'
    BY <1>0, <2>1, <2>2, <2>3, <2>5, <2>6 DEF AccountInv, Acc!TypeOK, RequestRecord
  <2>8. \A v \in User : accountRole'[v] # Acc!NoRole => Acc!Rank[accountRole'[v]] <= top'[v]
    BY <2>3, <2>5 DEF AccountInv, TopInv
  <2>9. top'[f.user] = 4
    BY <1>0, <2>1, <2>5
  <2>10. Acc!RolesDoNotClimb'
    <3>1. ASSUME NEW v \in User, grantor'[v] # Acc!NoUser PROVE top'[grantor'[v]] = 4
      <4>1. CASE v = u
        BY <1>0, <2>1, <2>2, <2>9, <4>1
      <4>2. CASE v # u
        BY <1>0, <2>1, <2>2, <2>5, <3>1, <4>2, RankIsANumber
           DEF AccountInv, TopInv, Acc!RolesDoNotClimb
      <4> QED
        BY <4>1, <4>2
    <3>2. ASSUME NEW k \in Key, keyOf'[k] # Acc!None
          PROVE  Acc!Rank[keyOf'[k].role] <= top'[keyOf'[k].owner]
      BY <1>0, <2>1, <2>5, <3>2, RankIsANumber DEF AccountInv, TopInv, Acc!RolesDoNotClimb
    <3> QED
      BY <3>1, <3>2, RankIsANumber DEF Acc!RolesDoNotClimb
  <2>11. TopInv'
    BY <2>1, <2>6, <2>8, <2>10 DEF AccountInv, TopInv
  <2>12. FounderInv'
    BY <2>1, <2>6 DEF AccountInv, FounderInv, Acc!OneFounder
  <2> QED
    BY <2>6, <2>7, <2>11, <2>12 DEF AccountInv
<1>14. ASSUME NEW r \in Request, NEW k \in Key, Acc!Mint(r, k) PROVE AccountInv'
  <2> DEFINE f == asked_(r)
  <2>1. /\ f.user \in User /\ f.role \in Acc!Roles /\ Acc!Rank[f.role] <= top[f.user] /\ Acc!End(r)
        /\ keyOf' = [keyOf EXCEPT ![k] = [owner |-> f.user, role |-> f.role]]
        /\ UNCHANGED <<users, accountRole, sessionOf, revoked, registrants, overlap, top, grantor>>
    BY <1>0, <1>14 DEF Acc!Mint, AccountInv, TopInv, Established
  <2> HIDE DEF f
  <2>2. /\ keyOf' \in [Key -> [owner : User \cup {Acc!NoUser}, role : Acc!Roles \cup {Acc!NoRole}]]
        /\ keyOf'[k].owner = f.user /\ keyOf'[k].role = f.role
        /\ \A j \in Key \ {k} : keyOf'[j] = keyOf[j]
    BY <1>0, <2>1
  <2>3. top' \in [User -> -1..4] /\ \A u \in User : top[u] <= top'[u]
    BY <1>0, <2>1
  <2>4. /\ accountRequest' \in [Request -> RequestRecord] /\ ~Registering(r)'
        /\ \A q \in Request \ {r} : Registering(q)' <=> Registering(q)
        /\ \A q \in Request : Established(accountRequest[q])'
        /\ Acc!RevokedIsOut' /\ early' \subseteq Request
    BY <1>11, <2>1, <2>3
  <2>5. Acc!TypeOK'
    BY <2>1, <2>2, <2>3, <2>4 DEF AccountInv, Acc!TypeOK, RequestRecord
  <2>6. Acc!RolesDoNotClimb'
    BY <2>1, <2>2 DEF AccountInv, TopInv, Acc!RolesDoNotClimb
  <2>7. TopInv'
    BY <2>1, <2>2, <2>4, <2>6 DEF AccountInv, TopInv
  <2>8. FounderInv'
    BY <2>1, <2>4 DEF AccountInv, FounderInv, Acc!OneFounder
  <2> QED
    BY <2>4, <2>5, <2>7, <2>8 DEF AccountInv
<1>15. ASSUME NEW r \in Request, NEW k \in Key, Acc!RevokeKey(r, k) PROVE AccountInv'
  <2>1. /\ revoked' = revoked \cup {k} /\ Acc!Set(r, Acc!Idle)
        /\ early' = (early \cup {q \in Request : accountRequest[q].by = k}) \ {r}
        /\ UNCHANGED <<users, accountRole, sessionOf, keyOf, registrants, overlap, top, grantor>>
    BY <1>15 DEF Acc!RevokeKey
  <2>2. Established(Acc!Idle)'
    BY IdleIsTyped DEF Established
  <2>3. /\ accountRequest' \in [Request -> RequestRecord] /\ accountRequest'[r] = Acc!Idle
        /\ \A q \in Request \ {r} : accountRequest'[q] = accountRequest[q]
        /\ \A q \in Request : Established(accountRequest[q])'
    BY <1>0, <2>1, <2>2, IdleIsTyped, OneRequestChanges
  <2>4. Acc!TypeOK'
    BY <2>1, <2>3 DEF AccountInv, Acc!TypeOK, RequestRecord
  <2>5. TopInv'
    BY <2>1, <2>3 DEF AccountInv, TopInv, Acc!RolesDoNotClimb
  <2>6. Acc!RevokedIsOut'
    <3>1. Acc!Idle.by \notin revoked'
      BY <2>1, IdleIsTyped DEF AccountInv, Acc!TypeOK
    <3> QED
      BY <2>1, <2>3, <3>1 DEF AccountInv, Acc!RevokedIsOut
  <2>7. FounderInv'
    BY <2>1, <2>3, IdleIsTyped DEF AccountInv, FounderInv, Acc!OneFounder, Registering
  <2> QED
    BY <2>4, <2>5, <2>6, <2>7 DEF AccountInv
<1>16. ASSUME NEW r \in Request, Acc!Fail(r) PROVE AccountInv'
  BY <1>5, <1>16 DEF Acc!Fail, Acc!data
<1>17. ASSUME NEW s \in Session, Acc!Logout(s) PROVE AccountInv'
  BY <1>3, <1>17 DEF Acc!Logout
<1> QED
  BY <1>1, <1>2, <1>6, <1>7, <1>8, <1>9, <1>10, <1>12, <1>13, <1>14, <1>15, <1>16, <1>17
     DEF Acc!Next

-----------------------------------------------------------------------------
(***************************************************************************)
(* Wrong passwords.  No count exceeds the wrong passwords there have been; *)
(* while attempts do not overlap, the one at work has read the count as it *)
(* is.                                                                     *)
(***************************************************************************)
LockoutInv ==
  /\ Acc!LoginTypeOK
  /\ failed <= bad /\ since <= bad
  /\ \A a \in Attempt : saw[a] <= bad
  /\ ~loginOverlapped =>
       /\ \A a \in Acc!AtWork : saw[a] = failed
       /\ \A a, b \in Acc!AtWork : a = b
  /\ Acc!LockFollowsFailures

LEMMA LockoutStarts == ServicesInit => LockoutInv
<1> SUFFICES ASSUME Acc!LoginInit PROVE LockoutInv
  BY DEF ServicesInit
<1> USE DEF Acc!LoginInit
<1>1. Acc!AtWork = {} /\ saw \in [Attempt -> -1..MaxBad]
  BY LockoutAssumption DEF Acc!AtWork
<1>2. locked = FALSE /\ loginOverlapped = FALSE /\ locked \in BOOLEAN /\ loginOverlapped \in BOOLEAN
  OBVIOUS
<1> QED
  BY <1>1, <1>2, LockoutAssumption DEF LockoutInv, Acc!LoginTypeOK, Acc!LockFollowsFailures

LEMMA LockoutStays ==
  LockoutInv /\ [Acc!LoginNext]_(Acc!loginVars) =>
    /\ LockoutInv'
    /\ bad' > bad /\ ~loginOverlapped /\ since' >= LockAfter => locked'
<1> SUFFICES ASSUME LockoutInv, [Acc!LoginNext]_(Acc!loginVars)
             PROVE  /\ LockoutInv'
                    /\ bad' > bad /\ ~loginOverlapped /\ since' >= LockAfter => locked'
  OBVIOUS
<1> USE LockoutAssumption
<1>0. /\ failed \in 0..MaxBad /\ saw \in [Attempt -> -1..MaxBad] /\ bad \in 0..MaxBad
      /\ since \in 0..MaxBad /\ locked \in BOOLEAN /\ loginOverlapped \in BOOLEAN
      /\ failed <= bad /\ since <= bad /\ (locked => bad >= LockAfter)
      /\ (~loginOverlapped => failed = since)
  BY DEF LockoutInv, Acc!LoginTypeOK, Acc!LockFollowsFailures
<1>1. CASE UNCHANGED Acc!loginVars
  BY <1>0, <1>1 DEF Acc!loginVars, LockoutInv, Acc!LoginTypeOK, Acc!AtWork, Acc!LockFollowsFailures
<1>2. ASSUME NEW a \in Attempt, Acc!Read(a)
      PROVE  LockoutInv' /\ bad' = bad
  <2>1. /\ saw' = [saw EXCEPT ![a] = failed] /\ saw[a] = -1
        /\ loginOverlapped' = (loginOverlapped \/ Acc!AtWork # {})
        /\ UNCHANGED <<failed, locked, bad, since>>
    BY <1>2 DEF Acc!Read
  <2>2. /\ saw' \in [Attempt -> -1..MaxBad] /\ saw'[a] = failed
        /\ \A b \in Attempt \ {a} : saw'[b] = saw[b]
    BY <1>0, <2>1
  <2>3. loginOverlapped' \in BOOLEAN
    BY <2>1
  <2>4. ~loginOverlapped' => ~loginOverlapped /\ Acc!AtWork = {}
    BY <2>1
  <2>5. ~loginOverlapped' => \A b \in Acc!AtWork' : b = a
    BY <2>2, <2>4 DEF Acc!AtWork
  <2>6. Acc!LoginTypeOK'
    BY <1>0, <2>1, <2>2, <2>3 DEF Acc!LoginTypeOK
  <2>7. Acc!LockFollowsFailures'
    BY <1>0, <2>1, <2>4 DEF Acc!LockFollowsFailures
  <2>8. \A b \in Attempt : saw'[b] <= bad'
    BY <1>0, <2>1, <2>2 DEF LockoutInv
  <2> QED
    BY <1>0, <2>1, <2>2, <2>5, <2>6, <2>7, <2>8 DEF LockoutInv
<1>3. ASSUME NEW a \in Attempt, Acc!WrongPassword(a)
      PROVE  /\ LockoutInv'
             /\ ~loginOverlapped /\ since' >= LockAfter => locked'
  <2>1. /\ saw[a] # -1 /\ bad < MaxBad /\ failed' = saw[a] + 1
        /\ locked' = (locked \/ Acc!Locks(saw[a] + 1))
        /\ bad' = bad + 1 /\ since' = since + 1 /\ saw' = [saw EXCEPT ![a] = -1]
        /\ loginOverlapped' = loginOverlapped
    BY <1>3 DEF Acc!WrongPassword
  <2>2. /\ saw[a] \in 0..MaxBad /\ saw[a] <= bad /\ a \in Acc!AtWork
        /\ (~loginOverlapped => saw[a] = failed)
    BY <1>0, <2>1 DEF LockoutInv, Acc!AtWork
  <2>3. /\ saw' \in [Attempt -> -1..MaxBad] /\ saw'[a] = -1
        /\ \A b \in Attempt \ {a} : saw'[b] = saw[b]
    BY <1>0, <2>1
  <2>4. /\ failed' \in 0..MaxBad /\ bad' \in 0..MaxBad /\ since' \in 0..MaxBad
        /\ failed' <= bad' /\ since' <= bad'
    BY <1>0, <2>1, <2>2
  <2>5. locked' \in BOOLEAN
    BY <2>1
  <2>6. locked' <=> locked \/ saw[a] + 1 >= LockAfter
    BY <2>1 DEF Acc!Locks
  <2>7. (locked' => bad' >= LockAfter) /\ (~loginOverlapped => failed' = since')
    BY <1>0, <2>1, <2>2, <2>6
  <2>8. ~loginOverlapped /\ since' >= LockAfter => locked'
    BY <1>0, <2>1, <2>2, <2>6
  <2>9. ~loginOverlapped => Acc!AtWork' = {}
    BY <2>2, <2>3 DEF LockoutInv, Acc!AtWork
  <2>10. \A b \in Attempt : saw'[b] <= bad'
    BY <1>0, <2>1, <2>3 DEF LockoutInv
  <2>11. Acc!LoginTypeOK' /\ Acc!LockFollowsFailures'
    BY <1>0, <2>1, <2>3, <2>4, <2>5, <2>7 DEF Acc!LoginTypeOK, Acc!LockFollowsFailures
  <2> QED
    BY <2>1, <2>4, <2>8, <2>9, <2>10, <2>11 DEF LockoutInv
<1>4. ASSUME NEW a \in Attempt, Acc!RightPassword(a)
      PROVE  LockoutInv' /\ bad' = bad
  <2>1. /\ failed' = 0 /\ locked' = FALSE /\ saw' = [saw EXCEPT ![a] = -1] /\ since' = 0
        /\ loginOverlapped' = (Acc!AtWork # {a}) /\ bad' = bad
    BY <1>4 DEF Acc!RightPassword
  <2>2. /\ saw' \in [Attempt -> -1..MaxBad] /\ saw'[a] = -1
        /\ \A b \in Attempt \ {a} : saw'[b] = saw[b]
    BY <1>0, <2>1
  <2>3. ~loginOverlapped' => Acc!AtWork' = {}
    BY <2>1, <2>2 DEF Acc!AtWork
  <2>4. loginOverlapped' \in BOOLEAN /\ locked' \in BOOLEAN
    BY <2>1
  <2>5. Acc!LoginTypeOK' /\ Acc!LockFollowsFailures'
    BY <1>0, <2>1, <2>2, <2>4 DEF Acc!LoginTypeOK, Acc!LockFollowsFailures
  <2>6. \A b \in Attempt : saw'[b] <= bad'
    BY <1>0, <2>1, <2>2 DEF LockoutInv
  <2> QED
    BY <1>0, <2>1, <2>3, <2>5, <2>6 DEF LockoutInv
<1>5. CASE Acc!LockEnds
  <2>1. locked' = FALSE /\ UNCHANGED <<failed, saw, bad, since, loginOverlapped>>
    BY <1>5 DEF Acc!LockEnds
  <2>2. Acc!LoginTypeOK' /\ Acc!LockFollowsFailures' /\ Acc!AtWork' = Acc!AtWork
    BY <1>0, <2>1 DEF Acc!LoginTypeOK, Acc!LockFollowsFailures, Acc!AtWork
  <2> QED
    BY <1>0, <2>1, <2>2 DEF LockoutInv
<1> QED
  BY <1>0, <1>1, <1>2, <1>3, <1>4, <1>5 DEF Acc!LoginNext, Acc!loginVars

\* Roles do not climb, what was revoked serves nobody who comes later, a
\* closed system has one founder, and locks follow failures.
THEOREM AccountsAreSafe == ServicesSpec => []AccountsAreKept
<1> DEFINE I == TypeOK /\ AccountInv /\ LockoutInv
<1>1. ServicesInit => I
  BY InitTypeOK, AccountInvStarts, LockoutStarts DEF ServicesInit
<1>2. I /\ [ServicesNext]_all => I'
  BY StepIsOfOneService, NextTypeOK, AccountInvStays, LockoutStays
<1>3. I => AccountsAreKept
  BY DEF AccountsAreKept, AccountInv, TopInv, FounderInv, LockoutInv
<1> QED
  BY <1>1, <1>2, <1>3, PTL DEF ServicesSpec

\* A wrong password that makes it LockAfter in a row locks the account, unless
\* two attempts on it have overlapped.
THEOREM EnoughFailuresDoLock == ServicesSpec => EnoughFailuresLock
<1> DEFINE A == [bad' > bad /\ ~loginOverlapped /\ since' >= LockAfter => locked']_(Acc!loginVars)
<1>1. LockoutInv /\ [ServicesNext]_all => LockoutInv' /\ A
  BY StepIsOfOneService, LockoutStays
<1> QED
  BY <1>1, LockoutStarts, PTL DEF ServicesSpec, EnoughFailuresLock, Acc!EnoughFailuresLock

-----------------------------------------------------------------------------
(***************************************************************************)
(* Starts.  The lock belongs to the one process that reads or applies, the *)
(* migrations that a process has passed are in place and it remembers if   *)
(* one differs, and every start creates at most one demo workspace.        *)
(***************************************************************************)
StartRecord == [at : Start!Steps, files : 1..2, next : 1..(Migrations + 1),
                drift : BOOLEAN, org : Nat]

StartTypes ==
  /\ Start!TypeOK
  /\ proc \in [StartProcess -> StartRecord]
  /\ demo \in [id : Nat, done : Nat]

\* Processes that may yet create a workspace.
BeforeCreation == {"connecting", "preparing", "tabling", "migrating", "reading", "applying", "looking", "creating"}
Pending == {p \in StartProcess : proc[p].at \in BeforeCreation}
SeedCount == seeds + Cardinality(Pending) <= starts

LockInv ==
  \A p \in StartProcess :
    /\ proc[p].at \in {"reading", "applying"} <=> startLock = p
    /\ startLock = p => proc[p].next <= Migrations

Passed(p) ==
  \A v \in 1..Migrations :
    v < proc[p].next => schema[v] # 0 /\ (schema[v] # Start!Content(p, v) => proc[p].drift)

SchemaInv == Start!MigrationsDoNotCollide /\ \A p \in StartProcess : Passed(p)

ServeInv ==
  \A p \in StartProcess :
    proc[p].at \in {"looking", "creating", "seeding", "up"}
      => proc[p].next = Migrations + 1 /\ ~(strict /\ proc[p].drift)

DemoInv ==
  /\ demo.id <= seeds
  /\ \A p \in StartProcess : proc[p].at = "seeding" => proc[p].org > 0
  /\ Start!DemoIsWhole

StartInv == StartTypes /\ SeedCount /\ LockInv /\ SchemaInv /\ ServeInv /\ DemoInv

LEMMA OffIsTyped == /\ Start!Off \in StartRecord /\ Start!Off.at = "off"
                    /\ Start!Off.next = 1 /\ Start!Off.org = 0
BY StartupAssumption DEF Start!Off, StartRecord, Start!Steps

LEMMA StartInvStarts == ServicesInit => StartInv
<1> SUFFICES ASSUME Start!Init PROVE StartInv
  BY DEF ServicesInit
<1> USE StartupAssumption, OffIsTyped DEF Start!Init
<1>1. \A p \in StartProcess : proc[p] = Start!Off
  OBVIOUS
<1>2. proc \in [StartProcess -> StartRecord] /\ demo \in [id : Nat, done : Nat]
  OBVIOUS
<1>3. Start!TypeOK
  <2>1. strict \in BOOLEAN /\ launched \in BOOLEAN /\ died \in BOOLEAN /\ tabled \in BOOLEAN
    OBVIOUS
  <2>2. {strict, tabled, launched, died} \subseteq BOOLEAN
    BY <2>1
  <2>3. \A p \in StartProcess :
          /\ proc[p].at \in Start!Steps
          /\ proc[p].files \in 1..2 /\ proc[p].next \in 1..(Migrations + 1)
          /\ proc[p].drift \in BOOLEAN /\ proc[p].org \in 0..seeds
    BY <1>1 DEF StartRecord
  <2> QED
    BY <2>2, <2>3 DEF Start!TypeOK, Start!Versions
<1>4. Pending = {}
  BY <1>1 DEF Pending, BeforeCreation
<1>5. SeedCount
  BY <1>4, FS_EmptySet DEF SeedCount
<1>6. LockInv /\ ServeInv
  BY <1>1 DEF LockInv, ServeInv
<1>7. SchemaInv
  BY <1>1 DEF SchemaInv, Passed, Start!MigrationsDoNotCollide, Start!Versions, Start!At
<1>8. DemoInv
  BY <1>1 DEF DemoInv, Start!DemoIsWhole, Start!At
<1> QED
  BY <1>2, <1>3, <1>5, <1>6, <1>7, <1>8 DEF StartInv, StartTypes

\* A step of one start leaves the others where they are.
OfOneStart(p) ==
  \/ Start!Start(p) \/ Start!Connect(p) \/ Start!LookForTable(p) \/ Start!CreateTable(p)
  \/ Start!TakeLock(p) \/ Start!Read(p) \/ Start!Apply(p)
  \/ Start!Migrated(p) \/ Start!Look(p) \/ Start!CreateDemo(p) \/ Start!SeedStage(p)
  \/ Start!Seeded(p) \/ Start!Die(p)

LEMMA PendingIsFinite == IsFiniteSet(Pending) /\ Cardinality(Pending) \in Nat
<1>1. Pending \subseteq StartProcess
  BY DEF Pending
<1> QED
  BY <1>1, StartupAssumption, FS_Subset, FS_CardinalityType

LEMMA OneStarts ==
  ASSUME StartInv, NEW p \in StartProcess, OfOneStart(p)
  PROVE  /\ proc' \in [StartProcess -> StartRecord]
         /\ \A q \in StartProcess \ {p} : proc'[q] = proc[q]
         /\ UNCHANGED <<strict, launched>> /\ tabled' \in BOOLEAN
<1> USE StartupAssumption, OffIsTyped DEF StartInv, StartTypes
<1>0. proc[p] \in StartRecord /\ seeds \in Nat /\ tabled \in BOOLEAN
  BY DEF Start!TypeOK
<1>1. CASE Start!Start(p)
  <2>1. PICK f \in 1..2 :
          proc' = [proc EXCEPT ![p] = [Start!Off EXCEPT !.at = "connecting", !.files = f]]
    BY <1>1 DEF Start!Start
  <2>2. [Start!Off EXCEPT !.at = "connecting", !.files = f] \in StartRecord
    BY DEF StartRecord, Start!Steps
  <2> QED
    BY <1>0, <1>1, <2>1, <2>2 DEF Start!Start
<1>2. CASE Start!Connect(p) \/ Start!LookForTable(p) \/ Start!CreateTable(p)
                            \/ Start!TakeLock(p) \/ Start!Migrated(p) \/ Start!Look(p)
             \/ Start!SeedStage(p) \/ Start!Seeded(p) \/ Start!Die(p)
  <2>1. PICK s \in Start!Steps : proc' = [proc EXCEPT ![p].at = s] \/ proc' = proc
    BY <1>2 DEF Start!Connect, Start!LookForTable, Start!CreateTable, Start!TakeLock,
       Start!Migrated, Start!Look, Start!SeedStage,
       Start!Seeded, Start!Die, Start!Go, Start!Steps
  <2>2. UNCHANGED <<strict, launched>> /\ tabled' \in {tabled, TRUE}
    BY <1>2 DEF Start!Connect, Start!LookForTable, Start!CreateTable, Start!TakeLock,
       Start!Migrated, Start!Look, Start!SeedStage,
       Start!Seeded, Start!Die
  <2>3. tabled' \in BOOLEAN
    BY <1>0, <2>2
  <2>4. proc' \in [StartProcess -> StartRecord] /\ \A q \in StartProcess \ {p} : proc'[q] = proc[q]
    BY <1>0, <2>1 DEF StartRecord
  <2> QED
    BY <2>2, <2>3, <2>4
<1>3. CASE Start!Read(p)
  <2>1. proc[p].next <= Migrations
    BY <1>3 DEF Start!Read, Start!At, LockInv
  <2>2. proc' = [proc EXCEPT ![p].at = "applying"]
        \/ proc' = [proc EXCEPT ![p].at = "migrating", ![p].next = proc[p].next + 1,
                                ![p].drift = @ \/ schema[proc[p].next] # Start!Content(p,
                                proc[p].next)]
    BY <1>3 DEF Start!Read, Start!Go
  <2> QED
    BY <1>0, <1>3, <2>1, <2>2 DEF Start!Read, StartRecord, Start!Steps
<1>4. CASE Start!Apply(p)
  <2>1. proc[p].next <= Migrations
    BY <1>4 DEF Start!Apply, Start!At, LockInv
  <2> QED
    BY <1>0, <1>4, <2>1 DEF Start!Apply, StartRecord, Start!Steps
<1>5. CASE Start!CreateDemo(p)
  BY <1>0, <1>5 DEF Start!CreateDemo, Start!Go, StartRecord, Start!Steps
<1> QED
  BY <1>1, <1>2, <1>3, <1>4, <1>5 DEF OfOneStart

\* A start is pending until it creates a workspace or ends.
LEMMA SeedCountStays ==
  ASSUME StartInv, NEW p \in StartProcess, OfOneStart(p)
  PROVE  /\ SeedCount' /\ seeds' \in 0..MaxStarts /\ starts' \in 0..MaxStarts /\ seeds <= seeds'
<1> USE StartupAssumption DEF StartInv, StartTypes
<1>0. /\ \A q \in StartProcess \ {p} : proc'[q] = proc[q]
      /\ seeds \in Nat /\ starts \in 0..MaxStarts /\ proc' \in [StartProcess -> StartRecord]
      /\ proc \in [StartProcess -> StartRecord]
  BY OneStarts DEF Start!TypeOK
<1>1. CASE Start!Start(p)
  <2>1. Pending' \subseteq Pending \cup {p}
    BY <1>0 DEF Pending
  <2>2. Cardinality(Pending') <= Cardinality(Pending \cup {p}) /\ Cardinality(Pending') \in Nat
        /\ Cardinality(Pending \cup {p}) <= Cardinality(Pending) + 1
        /\ Cardinality(Pending \cup {p}) \in Nat
    BY <2>1, PendingIsFinite, FS_AddElement, FS_Subset, FS_CardinalityType
  <2>3. seeds' = seeds /\ starts' = starts + 1 /\ starts < MaxStarts
    BY <1>1 DEF Start!Start
  <2> QED
    BY <1>0, <2>2, <2>3, PendingIsFinite DEF SeedCount
<1>2. CASE Start!CreateDemo(p) /\ demo.id = 0
  <2>1. seeds' = seeds + 1 /\ starts' = starts /\ proc'[p].at = "seeding" /\ p \in Pending
    BY <1>0, <1>2 DEF Start!CreateDemo, Pending, BeforeCreation, Start!At, StartRecord
  <2>2. Pending' = Pending \ {p}
    BY <1>0, <2>1 DEF Pending, BeforeCreation
  <2>3. Cardinality(Pending') = Cardinality(Pending) - 1 /\ Cardinality(Pending') \in Nat
    BY <2>1, <2>2, PendingIsFinite, FS_RemoveElement, FS_Subset, FS_CardinalityType
  <2> QED
    BY <1>0, <2>1, <2>3, PendingIsFinite DEF SeedCount
<1>3. CASE ~Start!Start(p) /\ ~(Start!CreateDemo(p) /\ demo.id = 0)
  <2>1. seeds' = seeds /\ starts' = starts
    BY <1>3 DEF OfOneStart, Start!Connect, Start!LookForTable, Start!CreateTable, Start!TakeLock,
       Start!Migrated, Start!Look,
       Start!SeedStage, Start!Seeded, Start!Die, Start!Read, Start!Apply, Start!CreateDemo
  <2>2. proc'[p].at \in BeforeCreation => proc[p].at \in BeforeCreation
    BY <1>0, <1>3 DEF OfOneStart, Start!Connect, Start!LookForTable, Start!CreateTable,
       Start!TakeLock, Start!Migrated, Start!Look,
       Start!SeedStage, Start!Seeded, Start!Die, Start!Read, Start!Apply, Start!CreateDemo,
       Start!Go, Start!At, BeforeCreation, StartRecord
  <2>3. Pending' \subseteq Pending
    BY <1>0, <2>2 DEF Pending
  <2>4. Cardinality(Pending') <= Cardinality(Pending) /\ Cardinality(Pending') \in Nat
    BY <2>3, PendingIsFinite, FS_Subset, FS_CardinalityType
  <2> QED
    BY <1>0, <2>1, <2>4, PendingIsFinite DEF SeedCount
<1> QED
  BY <1>1, <1>2, <1>3

\* The schema as it was: the others have passed what they had passed.
LEMMA SameSchema ==
  ASSUME StartInv, NEW p \in StartProcess, schema' = schema, Passed(p)',
         \A q \in StartProcess \ {p} : proc'[q] = proc[q],
         proc'[p].at = "applying" => schema[proc'[p].next] = 0
  PROVE  SchemaInv'
<1>1. \A q \in StartProcess \ {p} : Passed(q)'
  BY DEF StartInv, SchemaInv, Passed, Start!Content
<1>2. \A v \in 2..Migrations : schema'[v] # 0 => schema'[v - 1] # 0
  BY DEF StartInv, SchemaInv, Start!MigrationsDoNotCollide, Start!Versions
<1>3. \A q \in StartProcess : proc'[q].at = "applying" => schema'[proc'[q].next] = 0
  BY DEF StartInv, SchemaInv, Start!MigrationsDoNotCollide, Start!At
<1>4. Start!MigrationsDoNotCollide'
  BY <1>2, <1>3 DEF Start!MigrationsDoNotCollide, Start!Versions, Start!At
<1> QED
  BY <1>1, <1>4 DEF SchemaInv

\* What the migrations of one start do to the schema: a file is applied
\* where there was none, under the lock.
LEMMA MigrationsOfOneStart ==
  ASSUME StartInv, NEW p \in StartProcess, OfOneStart(p)
  PROVE  LockInv' /\ SchemaInv' /\ ServeInv'
<1> USE StartupAssumption, OffIsTyped
<1>0. /\ \A q \in StartProcess \ {p} : proc'[q] = proc[q]
      /\ proc' \in [StartProcess -> StartRecord] /\ proc \in [StartProcess -> StartRecord]
      /\ strict' = strict /\ schema \in [1..Migrations -> 0..2]
  BY OneStarts DEF Start!TypeOK, Start!Versions, StartInv, StartTypes
<1>01. LockInv /\ SchemaInv /\ ServeInv /\ Passed(p)
  BY DEF StartInv, SchemaInv
<1>02. /\ proc[p].next \in 1..(Migrations + 1) /\ proc[p].files \in 1..2
       /\ startLock \in StartProcess \cup {StartNoOne}
  BY <1>0 DEF StartRecord, Start!TypeOK, StartInv, StartTypes
<1>1. CASE Start!Start(p)
  <2>1. /\ proc'[p].at = "connecting" /\ proc'[p].next = 1
        /\ proc[p].at \in {"off", "failed"} /\ UNCHANGED <<schema, startLock>>
    BY <1>0, <1>1 DEF Start!Start
  <2>2. LockInv' /\ ServeInv'
    BY <1>0, <1>01, <2>1 DEF LockInv, ServeInv
  <2>3. Passed(p)'
    BY <2>1 DEF Passed
  <2> QED
    BY <1>0, <2>1, <2>2, <2>3, SameSchema
<1>2. CASE Start!TakeLock(p)
  <2>1. /\ proc'[p].at = "reading" /\ proc[p].at = "migrating"
        /\ proc[p].next <= Migrations /\ startLock = StartNoOne /\ startLock' = p
        /\ UNCHANGED schema
        /\ proc'[p].next = proc[p].next /\ proc'[p].drift = proc[p].drift
        /\ proc'[p].files = proc[p].files
    BY <1>0, <1>2 DEF Start!TakeLock, Start!Go, Start!At, StartRecord
  <2>2. LockInv' /\ ServeInv'
    BY <1>0, <1>01, <2>1 DEF LockInv, ServeInv
  <2>3. Passed(p)'
    BY <1>01, <2>1 DEF Passed, Start!Content
  <2> QED
    BY <1>0, <2>1, <2>2, <2>3, SameSchema
<1>3. CASE Start!Read(p)
  <2> DEFINE v == proc[p].next
  <2>1. proc[p].at = "reading" /\ startLock = p /\ v \in 1..Migrations /\ UNCHANGED schema
    BY <1>0, <1>01, <1>02, <1>3 DEF Start!Read, Start!At, LockInv
  <2>2. CASE schema[v] = 0
    <3>1. /\ proc'[p].at = "applying" /\ UNCHANGED startLock
          /\ proc'[p].next = v /\ proc'[p].drift = proc[p].drift /\ proc'[p].files = proc[p].files
      BY <1>0, <1>3, <2>2 DEF Start!Read, Start!Go, StartRecord
    <3>2. LockInv' /\ ServeInv'
      BY <1>0, <1>01, <2>1, <3>1 DEF LockInv, ServeInv
    <3>3. Passed(p)'
      BY <1>01, <2>1, <3>1 DEF Passed, Start!Content
    <3> QED
      BY <1>0, <2>1, <2>2, <3>1, <3>2, <3>3, SameSchema
  <2>3. CASE schema[v] # 0
    <3>1. /\ proc'[p].at = "migrating" /\ proc'[p].next = v + 1
          /\ proc[p].drift \/ schema[v] # Start!Content(p, v) => proc'[p].drift
          /\ proc'[p].files = proc[p].files /\ startLock' = StartNoOne
      BY <1>0, <1>3, <2>1, <2>3 DEF Start!Read, Start!Release, StartRecord
    <3>2. LockInv' /\ ServeInv'
      BY <1>0, <1>01, <2>1, <3>1 DEF LockInv, ServeInv
    <3>3. Passed(p)'
      <4>1. \A u \in 1..Migrations : u < v + 1 => u < v \/ u = v
        BY <1>02
      <4> QED
        BY <1>01, <2>1, <2>3, <3>1, <4>1 DEF Passed, Start!Content
    <3> QED
      BY <1>0, <2>1, <3>1, <3>2, <3>3, SameSchema
  <2> QED
    BY <2>2, <2>3
<1>4. CASE Start!Apply(p)
  <2> DEFINE v == proc[p].next
  <2>1. proc[p].at = "applying" /\ startLock = p /\ v \in 1..Migrations /\ schema[v] = 0
    BY <1>0, <1>01, <1>02, <1>4 DEF Start!Apply, Start!At, LockInv, SchemaInv,
       Start!MigrationsDoNotCollide
  <2>2. /\ proc'[p].at = "migrating" /\ proc'[p].next = v + 1 /\ proc'[p].drift = proc[p].drift
        /\ proc'[p].files = proc[p].files
        /\ startLock' = StartNoOne /\ schema' = [schema EXCEPT ![v] = Start!Content(p, v)]
    BY <1>0, <1>4, <2>1 DEF Start!Apply, Start!Release, StartRecord
  <2>3. Start!Content(p, v) \in 1..2
    BY <1>02 DEF Start!Content
  <2>4. LockInv' /\ ServeInv'
    BY <1>0, <1>01, <2>1, <2>2 DEF LockInv, ServeInv
  <2>5. Start!MigrationsDoNotCollide'
    <3>1. \A u \in 1..Migrations : u < v => schema[u] # 0
      BY <1>01 DEF Passed
    <3>2. \A q \in StartProcess : proc'[q].at # "applying"
      BY <1>0, <1>01, <2>1, <2>2 DEF LockInv
    <3>3. \A u \in 2..Migrations : schema'[u] # 0 => schema'[u - 1] # 0
      BY <1>0, <1>01, <2>1, <2>2, <2>3, <3>1 DEF SchemaInv, Start!MigrationsDoNotCollide,
         Start!Versions
    <3> QED
      BY <3>2, <3>3 DEF Start!MigrationsDoNotCollide, Start!At, Start!Versions
  <2>6. Passed(p)'
    BY <1>0, <1>01, <2>1, <2>2, <2>3 DEF Passed, Start!Content
  <2>7. \A q \in StartProcess \ {p} : Passed(q)'
    BY <1>0, <1>01, <2>1, <2>2, <2>3 DEF SchemaInv, Passed, Start!Content
  <2> QED
    BY <2>4, <2>5, <2>6, <2>7 DEF SchemaInv
<1>5. CASE Start!Die(p)
  <2>1. /\ proc'[p].at = "off" /\ UNCHANGED schema
        /\ startLock' = IF startLock = p THEN StartNoOne ELSE startLock
        /\ proc'[p].next = proc[p].next /\ proc'[p].drift = proc[p].drift
        /\ proc'[p].files = proc[p].files
    BY <1>0, <1>5 DEF Start!Die, Start!Go, Start!Release, StartRecord
  <2>2. LockInv' /\ ServeInv'
    BY <1>0, <1>01, <2>1 DEF LockInv, ServeInv
  <2>3. Passed(p)'
    BY <1>01, <2>1 DEF Passed, Start!Content
  <2> QED
    BY <1>0, <2>1, <2>2, <2>3, SameSchema
<1>6. CASE \/ Start!Connect(p) \/ Start!LookForTable(p) \/ Start!CreateTable(p) \/ Start!Migrated(p)
           \/ Start!Look(p) \/ Start!CreateDemo(p) \/ Start!SeedStage(p) \/ Start!Seeded(p)
  <2>1. /\ UNCHANGED <<schema, startLock>>
        /\ proc'[p].next = proc[p].next /\ proc'[p].drift = proc[p].drift
        /\ proc'[p].files = proc[p].files
        /\ proc[p].at \notin {"reading", "applying"} /\ proc'[p].at \notin {"reading", "applying"}
    BY <1>0, <1>6 DEF Start!Connect, Start!LookForTable, Start!CreateTable, Start!Migrated,
       Start!Look, Start!CreateDemo, Start!SeedStage,
       Start!Seeded, Start!Go, Start!At, StartRecord
  <2>2. LockInv'
    BY <1>0, <1>01, <2>1 DEF LockInv
  <2>3. Passed(p)'
    BY <1>01, <2>1 DEF Passed, Start!Content
  <2>4. CASE Start!Connect(p) \/ Start!LookForTable(p) \/ Start!CreateTable(p)
    <3>1. proc'[p].at \in {"preparing", "tabling", "migrating", "failed", "embedded"}
      BY <1>0, <2>4 DEF Start!Connect, Start!LookForTable, Start!CreateTable, Start!Go, StartRecord
    <3> QED
      BY <1>0, <1>01, <2>1, <2>2, <2>3, <3>1, SameSchema DEF ServeInv
  <2>5. CASE Start!Migrated(p)
    <3>1. /\ proc[p].next = Migrations + 1
          /\ proc'[p].at \in {"up", "looking"} => ~(strict /\ proc[p].drift)
          /\ proc'[p].at \in {"up", "looking", "failed"}
      BY <1>0, <1>02, <2>5 DEF Start!Migrated, Start!Go, Start!MayServe, StartRecord
    <3> QED
      BY <1>0, <1>01, <2>1, <2>2, <2>3, <3>1, SameSchema DEF ServeInv
  <2>6. CASE Start!Look(p) \/ Start!CreateDemo(p) \/ Start!SeedStage(p) \/ Start!Seeded(p)
    <3>1. proc[p].at \in {"looking", "creating", "seeding"}
      BY <2>6 DEF Start!Look, Start!CreateDemo, Start!SeedStage, Start!Seeded, Start!At
    <3> QED
      BY <1>0, <1>01, <2>1, <2>2, <2>3, <3>1, SameSchema DEF ServeInv
  <2> QED
    BY <1>6, <2>4, <2>5, <2>6
<1> QED
  BY <1>1, <1>2, <1>3, <1>4, <1>5, <1>6 DEF OfOneStart

\* The demo workspace: whoever creates it goes on to build it.
LEMMA DemoOfOneStart ==
  ASSUME StartInv, NEW p \in StartProcess, OfOneStart(p)
  PROVE  /\ DemoInv' /\ demo' \in [id : Nat, done : Nat] /\ demo'.done <= Stages
         /\ proc'[p].org <= seeds' /\ died' \in BOOLEAN
<1> USE StartupAssumption, OffIsTyped
<1>0. /\ \A q \in StartProcess \ {p} : proc'[q] = proc[q]
      /\ proc' \in [StartProcess -> StartRecord] /\ proc \in [StartProcess -> StartRecord]
      /\ seeds \in Nat /\ demo \in [id : Nat, done : Nat] /\ demo.done <= Stages
      /\ died \in BOOLEAN
      /\ \A q \in StartProcess : proc[q].org \in Nat /\ proc[q].org <= seeds
  BY OneStarts DEF Start!TypeOK, StartInv, StartTypes
<1>1. /\ demo.id <= seeds
      /\ \A q \in StartProcess : proc[q].at = "seeding" => proc[q].org > 0
      /\ demo.id # 0 /\ demo.done < Stages /\ ~died
           => \E q \in StartProcess : proc[q].at = "seeding" /\ proc[q].org = demo.id
      /\ \A q, r \in StartProcess :
            proc[q].at = "seeding" /\ proc[r].at = "seeding" /\ q # r => proc[q].org # proc[r].org
  BY DEF StartInv, DemoInv, Start!DemoIsWhole, Start!At
<1>2. CASE \/ Start!Start(p) \/ Start!Connect(p) \/ Start!LookForTable(p)
           \/ Start!CreateTable(p) \/ Start!TakeLock(p) \/ Start!Read(p)
           \/ Start!Apply(p) \/ Start!Migrated(p)
  <2>1. UNCHANGED <<demo, seeds, died>>
    BY <1>2 DEF Start!Start, Start!Connect, Start!LookForTable, Start!CreateTable, Start!TakeLock,
       Start!Read, Start!Apply, Start!Migrated
  <2>2. /\ proc'[p].org \in {0, proc[p].org}
        /\ proc[p].at # "seeding" /\ proc'[p].at # "seeding"
    <3>1. CASE Start!Start(p)
      BY <1>0, <3>1 DEF Start!Start
    <3>2. CASE Start!Connect(p) \/ Start!LookForTable(p) \/ Start!CreateTable(p)
                                \/ Start!TakeLock(p) \/ Start!Migrated(p)
      BY <1>0, <3>2 DEF Start!Connect, Start!LookForTable, Start!CreateTable, Start!TakeLock,
         Start!Migrated, Start!Go, Start!At, StartRecord
    <3>3. CASE Start!Read(p) \/ Start!Apply(p)
      BY <1>0, <3>3 DEF Start!Read, Start!Apply, Start!Go, Start!At, StartRecord
    <3> QED
      BY <1>2, <3>1, <3>2, <3>3
  <2> QED
    BY <1>0, <1>1, <2>1, <2>2 DEF DemoInv, Start!DemoIsWhole, Start!At
<1>3. CASE Start!Look(p)
  <2>1. /\ demo' = demo \/ demo' = [id |-> 0, done |-> 0]
        /\ UNCHANGED <<seeds, died>> /\ proc'[p].org = proc[p].org
        /\ proc[p].at = "looking" /\ proc'[p].at \in {"up", "creating"}
    BY <1>0, <1>3 DEF Start!Look, Start!Go, Start!At, StartRecord
  <2>2. demo'.id = 0 \/ demo' = demo
    BY <2>1
  <2>3. demo' \in [id : Nat, done : Nat] /\ demo'.done <= Stages /\ demo'.id <= seeds
    BY <1>0, <1>1, <2>1
  <2> QED
    BY <1>0, <1>1, <2>1, <2>2, <2>3 DEF DemoInv, Start!DemoIsWhole, Start!At
<1>4. CASE Start!CreateDemo(p)
  <2>1. CASE demo.id = 0
    <3>1. /\ seeds' = seeds + 1 /\ demo' = [id |-> seeds + 1, done |-> 0] /\ UNCHANGED died
          /\ proc'[p].at = "seeding" /\ proc'[p].org = seeds + 1
      BY <1>0, <1>4, <2>1 DEF Start!CreateDemo, StartRecord
    <3> QED
      BY <1>0, <1>1, <3>1 DEF DemoInv, Start!DemoIsWhole, Start!At
  <2>2. CASE demo.id # 0
    <3>1. /\ UNCHANGED <<seeds, demo, died>> /\ proc[p].at = "creating"
          /\ proc'[p].at = "failed" /\ proc'[p].org = proc[p].org
      BY <1>0, <1>4, <2>2 DEF Start!CreateDemo, Start!Go, Start!At, StartRecord
    <3> QED
      BY <1>0, <1>1, <3>1 DEF DemoInv, Start!DemoIsWhole, Start!At
  <2> QED
    BY <2>1, <2>2
<1>5. CASE Start!SeedStage(p)
  <2>1. CASE demo.id = proc[p].org
    <3>1. /\ demo' = [demo EXCEPT !.done = @ + 1] /\ UNCHANGED <<seeds, proc, died>>
          /\ proc[p].at = "seeding" /\ demo.done < Stages
      BY <1>5, <2>1 DEF Start!SeedStage, Start!At
    <3>2. demo'.id = demo.id /\ demo'.done = demo.done + 1 /\ demo' \in [id : Nat, done : Nat]
      BY <1>0, <3>1
    <3> QED
      BY <1>0, <1>1, <2>1, <3>1, <3>2 DEF DemoInv, Start!DemoIsWhole, Start!At
  <2>2. CASE demo.id # proc[p].org
    <3>1. /\ UNCHANGED <<seeds, demo, died>> /\ proc'[p].at = "failed" /\ proc'[p].org = proc[p].org
      BY <1>0, <1>5, <2>2 DEF Start!SeedStage, Start!Go, StartRecord
    <3> QED
      BY <1>0, <1>1, <2>2, <3>1 DEF DemoInv, Start!DemoIsWhole, Start!At
  <2> QED
    BY <2>1, <2>2
<1>6. CASE Start!Seeded(p)
  <2>1. /\ UNCHANGED <<seeds, demo, died>> /\ demo.done = Stages
        /\ proc'[p].at = "up" /\ proc'[p].org = proc[p].org
    BY <1>0, <1>6 DEF Start!Seeded, Start!Go, StartRecord
  <2> QED
    BY <1>0, <1>1, <2>1 DEF DemoInv, Start!DemoIsWhole, Start!At
<1>7. CASE Start!Die(p)
  <2>1. /\ UNCHANGED <<seeds, demo>> /\ proc'[p].at = "off" /\ proc'[p].org = proc[p].org
    BY <1>0, <1>7 DEF Start!Die, Start!Go, StartRecord
  <2>2. died' \in BOOLEAN /\ (died => died') /\ (proc[p].at = "seeding" => died')
    BY <1>0, <1>7 DEF Start!Die
  <2> QED
    BY <1>0, <1>1, <2>1, <2>2 DEF DemoInv, Start!DemoIsWhole, Start!At
<1> QED
  BY <1>2, <1>3, <1>4, <1>5, <1>6, <1>7 DEF OfOneStart

LEMMA OneStartKeepsInv ==
  ASSUME StartInv, NEW p \in StartProcess, OfOneStart(p)
  PROVE  StartInv'
<1>1. /\ proc' \in [StartProcess -> StartRecord] /\ UNCHANGED <<strict, launched>>
      /\ tabled' \in BOOLEAN
      /\ \A q \in StartProcess \ {p} : proc'[q] = proc[q]
      /\ SeedCount' /\ seeds' \in 0..MaxStarts /\ starts' \in 0..MaxStarts /\ seeds <= seeds'
      /\ LockInv' /\ SchemaInv' /\ ServeInv' /\ DemoInv'
      /\ demo' \in [id : Nat, done : Nat] /\ demo'.done <= Stages
      /\ proc'[p].org <= seeds' /\ died' \in BOOLEAN
  BY OneStarts, SeedCountStays, MigrationsOfOneStart, DemoOfOneStart
<1>2. schema' \in [1..Migrations -> 0..2]
  <2>1. schema \in [1..Migrations -> 0..2] /\ proc[p] \in StartRecord
    BY DEF StartInv, StartTypes, Start!TypeOK, Start!Versions
  <2>2. Start!Content(p, proc[p].next) \in 0..2
    BY <2>1 DEF Start!Content, StartRecord
  <2> QED
    BY <2>1, <2>2 DEF OfOneStart, Start!Start, Start!Connect, Start!LookForTable,
       Start!CreateTable, Start!TakeLock, Start!Read, Start!Apply,
       Start!Migrated, Start!Look, Start!CreateDemo, Start!SeedStage, Start!Seeded, Start!Die
<1>3. startLock' \in StartProcess \cup {StartNoOne}
  <2>1. startLock \in StartProcess \cup {StartNoOne}
    BY DEF StartInv, StartTypes, Start!TypeOK
  <2> QED
    BY <2>1 DEF OfOneStart, Start!Start, Start!Connect, Start!LookForTable, Start!CreateTable,
       Start!TakeLock, Start!Read, Start!Apply,
       Start!Migrated, Start!Look, Start!CreateDemo, Start!SeedStage, Start!Seeded, Start!Die,
       Start!Release
<1>4. \A q \in StartProcess :
         /\ proc'[q].at \in Start!Steps
         /\ proc'[q].files \in 1..2 /\ proc'[q].next \in 1..(Migrations + 1)
         /\ proc'[q].drift \in BOOLEAN /\ proc'[q].org \in Nat
  BY <1>1 DEF StartRecord
<1>5. \A q \in StartProcess : proc'[q].org \in 0..seeds'
  <2>1. \A q \in StartProcess : proc[q].org <= seeds /\ seeds \in Nat
    BY DEF StartInv, StartTypes, Start!TypeOK
  <2> QED
    BY <1>1, <1>4, <2>1
<1>6. {strict', tabled', launched', died'} \subseteq BOOLEAN
  <2>1. strict \in BOOLEAN /\ launched \in BOOLEAN
    BY DEF StartInv, StartTypes, Start!TypeOK
  <2>2. strict' \in BOOLEAN /\ launched' \in BOOLEAN /\ died' \in BOOLEAN /\ tabled' \in BOOLEAN
    BY <1>1, <2>1
  <2> QED
    BY <2>2
<1>7. demo'.id \in 0..seeds' /\ demo'.done \in 0..Stages
  BY <1>1, StartupAssumption DEF DemoInv
<1>8. Start!TypeOK'
  BY <1>1, <1>2, <1>3, <1>4, <1>5, <1>6, <1>7 DEF Start!TypeOK, Start!Versions
<1> QED
  BY <1>1, <1>8 DEF StartInv, StartTypes

LEMMA StartInvStays == StartInv /\ [Start!Next]_(Start!startVars) => StartInv'
<1>1. CASE StartInv /\ \E p \in StartProcess : OfOneStart(p)
  BY <1>1, OneStartKeepsInv
<1>2. CASE StartInv /\ Start!Launch
  <2> USE StartupAssumption, OffIsTyped
  <2>1. /\ \A p \in StartProcess : proc[p].at \in {"off", "failed"} /\ proc'[p] = Start!Off
        /\ proc' = [p \in StartProcess |-> Start!Off]
        /\ launched' \in BOOLEAN /\ UNCHANGED <<strict, tabled, schema, startLock, demo, seeds, starts, died>>
    BY <1>2 DEF Start!Launch
  <2>2. StartTypes'
    <3>1. proc' \in [StartProcess -> StartRecord] /\ seeds \in Nat
      BY <1>2, <2>1 DEF StartInv, StartTypes, Start!TypeOK
    <3>2. \A q \in StartProcess :
         /\ proc'[q].at \in Start!Steps
         /\ proc'[q].files \in 1..2 /\ proc'[q].next \in 1..(Migrations + 1)
         /\ proc'[q].drift \in BOOLEAN /\ proc'[q].org \in 0..seeds
      BY <2>1, <3>1 DEF StartRecord
    <3>3. strict \in BOOLEAN /\ died \in BOOLEAN /\ tabled \in BOOLEAN
      BY <1>2 DEF StartInv, StartTypes, Start!TypeOK
    <3>4. {strict', tabled', launched', died'} \subseteq BOOLEAN
      BY <2>1, <3>3
    <3> QED
      BY <1>2, <2>1, <3>1, <3>2, <3>4 DEF StartInv, StartTypes, Start!TypeOK
  <2>3. Pending = {} /\ Pending' = {}
    BY <2>1 DEF Pending, BeforeCreation
  <2>4. SeedCount'
    BY <1>2, <2>1, <2>3 DEF StartInv, SeedCount
  <2>5. LockInv' /\ ServeInv'
    BY <1>2, <2>1 DEF StartInv, LockInv, ServeInv
  <2>6. SchemaInv'
    BY <1>2, <2>1 DEF StartInv, SchemaInv, Passed, Start!MigrationsDoNotCollide, Start!Versions,
       Start!At
  <2>7. DemoInv'
    BY <1>2, <2>1 DEF StartInv, DemoInv, Start!DemoIsWhole, Start!At
  <2> QED
    BY <2>2, <2>4, <2>5, <2>6, <2>7 DEF StartInv
<1>3. CASE StartInv /\ UNCHANGED Start!startVars
  BY <1>3 DEF Start!startVars, StartInv, StartTypes, SeedCount, Pending, LockInv, SchemaInv, Passed,
     ServeInv, DemoInv, Start!TypeOK, Start!MigrationsDoNotCollide, Start!DemoIsWhole, Start!At,
     Start!Content
<1> QED
  BY <1>1, <1>2, <1>3 DEF Start!Next, OfOneStart

LEMMA StartInvSuffices == StartInv => StartsAreOrderly
<1> SUFFICES ASSUME StartInv PROVE Start!ServesOnItsSchema
  BY DEF StartInv, StartTypes, SchemaInv, DemoInv, StartsAreOrderly
<1>1. ASSUME NEW p \in StartProcess, proc[p].at = "up", NEW v \in 1..Migrations
      PROVE  schema[v] # 0 /\ (strict => schema[v] = Start!Content(p, v))
  <2>1. v < proc[p].next /\ ~(strict /\ proc[p].drift)
    BY <1>1, StartupAssumption DEF StartInv, ServeInv
  <2> QED
    BY <2>1 DEF StartInv, SchemaInv, Passed
<1> QED
  BY <1>1 DEF Start!ServesOnItsSchema, Start!Versions, Start!At

\* A process serves on a schema with its tables, no two apply one migration,
\* and while no process has died in its start, a demo workspace that lacks
\* parts is being built.
THEOREM StartsAreSafe == ServicesSpec => []StartsAreOrderly
<1>1. StartInv /\ [ServicesNext]_all => StartInv'
  BY StepIsOfOneService, StartInvStays
<1> QED
  BY <1>1, StartInvStarts, StartInvSuffices, PTL DEF ServicesSpec

-----------------------------------------------------------------------------
(***************************************************************************)
(* Generated code.  Whatever is past its first step is a project that was  *)
(* scanned; a deployment without a row has no child, and a child that a    *)
(* process knows is alive, unless it is a container.                       *)
(***************************************************************************)
ScanInv ==
  /\ \A p \in Project : status[p] \in Depl!Built => p \in scanned
  /\ \A d \in Deployment : deployPhase[d] # "idle" => of[d] \in scanned /\ caller[d] \in DeployProcess
  /\ Depl!ExecutedWasScanned

ChildInv ==
  /\ \A d \in Deployment :
       /\ row[d] = "none" => deployPhase[d] = "idle" /\ child[d] = "none"
       /\ deployPhase[d] \in {"allocating", "spawning"} => child[d] = "none"
       /\ ~containers /\ knows[d] # Depl!NoProcess => child[d] # "none"
  /\ \A d, e \in Deployment :
       d # e /\ Depl!Holds(d) /\ Depl!Holds(e) => port[d] # port[e]

DeployInv == Depl!TypeOK /\ ScanInv /\ ChildInv

LEMMA DeployInvStarts == ServicesInit => DeployInv
<1> SUFFICES ASSUME Depl!Init PROVE DeployInv
  BY DEF ServicesInit
<1> USE DEF Depl!Init
<1>1. Depl!TypeOK
  <2>1. containers \in BOOLEAN
    OBVIOUS
  <2> QED
    BY <2>1, DeploymentsAssumption DEF Depl!TypeOK, Depl!Phases
<1>2. ScanInv /\ ChildInv
  BY DEF ScanInv, ChildInv, Depl!Holds, Depl!ExecutedWasScanned, Depl!Built
<1> QED
  BY <1>1, <1>2 DEF DeployInv

LEMMA BuildKeepsDeployInv ==
  ASSUME DeployInv, UNCHANGED containers,
         NEW p \in Project, NEW passes \in BOOLEAN, NEW tests \in Depl!Tested,
         Depl!Build(p, passes, tests)
  PROVE  DeployInv'
<1>1. /\ Depl!BuildStatus(passes, tests) \in Depl!Built \cup Depl!BuildFailed
      /\ ~passes => Depl!BuildStatus(passes, tests) = "scan_failed"
  BY DEF Depl!BuildStatus, Depl!Tested, Depl!Built, Depl!BuildFailed
<1>2. /\ status' = [status EXCEPT ![p] = Depl!BuildStatus(passes, tests)]
      /\ scanned' = IF passes THEN scanned \cup {p} ELSE scanned
      /\ executed' = IF tests # "skipped" THEN executed \cup {p} ELSE executed
      /\ ~passes => tests = "skipped"
      /\ UNCHANGED <<row, of, deployPhase, port, caller, child, knows, stopping, restarts>>
  BY DEF Depl!Build, Depl!startVars
<1>3. Depl!TypeOK'
  BY <1>1, <1>2 DEF DeployInv, Depl!TypeOK
<1>4. ScanInv'
  BY <1>1, <1>2 DEF DeployInv, ScanInv, Depl!ExecutedWasScanned, Depl!TypeOK, Depl!Built
<1>5. ChildInv'
  BY <1>2 DEF DeployInv, ChildInv, Depl!Holds
<1> QED
  BY <1>3, <1>4, <1>5 DEF DeployInv

\* The steps of one deployment.
LEMMA OneDeploymentKeepsInv ==
  ASSUME DeployInv, UNCHANGED containers, NEW d \in Deployment,
         \/ \E p \in Project, w \in DeployProcess : Depl!Begin(d, p, w)
         \/ Depl!StartStep(d) \/ Depl!Bind(d) \/ Depl!ChildDies(d) \/ Depl!MarkStopped(d)
         \/ \E w \in DeployProcess : Depl!StopChild(d, w)
  PROVE  DeployInv'
<1> USE DEF DeployInv, Depl!buildVars, Depl!startVars, Depl!childVars, Depl!To, Depl!Gone,
        Depl!Holds
<1>0. Depl!NoProcess \notin DeployProcess
  BY DeploymentsAssumption
<1>1. ASSUME NEW p \in Project, NEW w \in DeployProcess, Depl!Begin(d, p, w)
      PROVE  DeployInv'
  <2>1. Depl!TypeOK'
    BY <1>1 DEF Depl!Begin, Depl!TypeOK, Depl!Phases
  <2>2. ScanInv'
    BY <1>1 DEF Depl!Begin, Depl!TypeOK, ScanInv, Depl!ExecutedWasScanned
  <2>3. ChildInv'
    BY <1>1 DEF Depl!Begin, Depl!TypeOK, ChildInv
  <2> QED
    BY <2>1, <2>2, <2>3
<1>2. CASE Depl!Allocate(d)
  <2>1. Depl!TypeOK'
    BY <1>2 DEF Depl!Allocate, Depl!TypeOK, Depl!Phases, Depl!FreePorts
  <2>2. ScanInv'
    BY <1>2 DEF Depl!Allocate, Depl!TypeOK, ScanInv, Depl!ExecutedWasScanned
  <2>3. ChildInv'
    BY <1>2 DEF Depl!Allocate, Depl!TypeOK, ChildInv
  <2> QED
    BY <2>1, <2>2, <2>3
<1>3. CASE Depl!Spawn(d)
  <2>1. Depl!TypeOK'
    BY <1>3 DEF Depl!Spawn, Depl!Runs, Depl!TypeOK, Depl!Phases, ScanInv
  <2>2. ScanInv'
    BY <1>3 DEF Depl!Spawn, Depl!Runs, Depl!TypeOK, ScanInv, Depl!ExecutedWasScanned
  <2>3. ChildInv'
    BY <1>3 DEF Depl!Spawn, Depl!Runs, Depl!Taken, Depl!TypeOK, ChildInv
  <2> QED
    BY <2>1, <2>2, <2>3
<1>4. CASE Depl!Healthy(d) \/ Depl!NotHealthy(d) \/ Depl!MarkRunning(d) \/ Depl!Finish(d)
             \/ Depl!MarkFailed(d)
  <2>1. Depl!TypeOK'
    BY <1>4 DEF Depl!Healthy, Depl!NotHealthy, Depl!Stop, Depl!MarkRunning, Depl!Finish,
       Depl!MarkFailed, Depl!TypeOK, Depl!Phases, Depl!Built
  <2>2. ScanInv'
    BY <1>4 DEF Depl!Healthy, Depl!NotHealthy, Depl!Stop, Depl!MarkRunning, Depl!Finish,
       Depl!MarkFailed, Depl!TypeOK, ScanInv, Depl!ExecutedWasScanned, Depl!Built
  <2>3. ChildInv'
    BY <1>4 DEF Depl!Healthy, Depl!NotHealthy, Depl!Stop, Depl!MarkRunning, Depl!Finish,
       Depl!MarkFailed, Depl!TypeOK, ChildInv
  <2> QED
    BY <2>1, <2>2, <2>3
<1>5. CASE Depl!Bind(d)
  <2>1. Depl!TypeOK'
    BY <1>5 DEF Depl!Bind, Depl!TypeOK
  <2>2. ScanInv'
    BY <1>5 DEF Depl!Bind, ScanInv, Depl!ExecutedWasScanned
  <2>3. ChildInv'
    BY <1>5 DEF Depl!Bind, Depl!TypeOK, ChildInv, Depl!Listening
  <2> QED
    BY <2>1, <2>2, <2>3
<1>6. CASE Depl!ChildDies(d) \/ Depl!MarkStopped(d) \/ \E w \in DeployProcess : Depl!StopChild(d, w)
  <2>1. Depl!TypeOK'
    BY <1>6 DEF Depl!ChildDies, Depl!MarkStopped, Depl!StopChild, Depl!Stop, Depl!TypeOK
  <2>2. ScanInv'
    BY <1>6 DEF Depl!ChildDies, Depl!MarkStopped, Depl!StopChild, Depl!Stop, ScanInv,
       Depl!ExecutedWasScanned
  <2>3. ChildInv'
    BY <1>6 DEF Depl!ChildDies, Depl!MarkStopped, Depl!StopChild, Depl!Stop, Depl!TypeOK, ChildInv
  <2> QED
    BY <2>1, <2>2, <2>3
<1> QED
  BY <1>1, <1>2, <1>3, <1>4, <1>5, <1>6 DEF Depl!StartStep

LEMMA RestartKeepsDeployInv ==
  ASSUME DeployInv, UNCHANGED containers,
         NEW w \in DeployProcess, NEW orderly \in BOOLEAN, Depl!Restart(w, orderly)
  PROVE  DeployInv'
<1>1. Depl!TypeOK'
  BY DeploymentsAssumption DEF DeployInv, Depl!Restart, Depl!TypeOK, Depl!Phases, Depl!Reconciled,
     Depl!buildVars
<1>2. ScanInv'
  BY DEF DeployInv, Depl!Restart, Depl!TypeOK, ScanInv, Depl!ExecutedWasScanned, Depl!buildVars
<1>3. ChildInv'
  BY DeploymentsAssumption DEF DeployInv, Depl!Restart, Depl!TypeOK, ChildInv, Depl!Holds,
     Depl!Reconciled
<1> QED
  BY <1>1, <1>2, <1>3 DEF DeployInv

LEMMA DeployInvStays == DeployInv /\ [Depl!Next]_(Depl!deployVars) => DeployInv'
<1>1. CASE DeployInv /\ UNCHANGED Depl!deployVars
  BY <1>1 DEF Depl!deployVars, Depl!buildVars, Depl!startVars, Depl!childVars, DeployInv, Depl!TypeOK,
     ScanInv, ChildInv, Depl!Holds, Depl!ExecutedWasScanned
<1> QED
  BY <1>1, BuildKeepsDeployInv, OneDeploymentKeepsInv, RestartKeepsDeployInv
     DEF Depl!Next, Depl!DeployNext

LEMMA DeployInvSuffices == DeployInv => Depl!TypeOK /\ Depl!ExecutedWasScanned /\ Depl!ShownRunningLives
BY DeploymentsAssumption
   DEF DeployInv, ScanInv, ChildInv, Depl!ShownRunningLives, Depl!Shown

-----------------------------------------------------------------------------
(***************************************************************************)
(* The tests of generated code.  While the limit is set, the tests are no  *)
(* older than it; when it has passed, they were killed or were missed.     *)
(***************************************************************************)
TestsInv ==
  /\ Depl!TestsTypeOK
  /\ waiter = "idle" => suite = "none" /\ tester = "none" /\ timer = "off" /\ waited = 0 /\ age = 0
                         /\ result = "none" /\ ~missed
  /\ waiter = "waiting" => timer # "off" /\ tester # "none"
  /\ timer = "set" => waiter = "waiting" /\ age <= waited /\ ~missed
  /\ timer = "fired" => missed \/ (Depl!Over /\ age <= TimeoutMs)
  /\ suite = "running" => tester = "running"
  /\ tester = "none" => suite = "none"
  /\ driver # "docker" /\ tester # "none" => suite # "none"
  /\ waiter = "resolved" => tester # "running" /\ (missed \/ age <= TimeoutMs)
  /\ result # "none" => waiter = "resolved"
  /\ result = "passed" => suite = "passed" /\ age <= TimeoutMs

LEMMA TestsInvStarts == ServicesInit => TestsInv
<1> SUFFICES ASSUME Depl!TestsInit PROVE TestsInv
  BY DEF ServicesInit
<1> USE DeploymentsAssumption DEF Depl!TestsInit
<1>1. Depl!TestsTypeOK
  <2>1. scratch \in BOOLEAN /\ missed \in BOOLEAN
    OBVIOUS
  <2> QED
    BY <2>1 DEF Depl!TestsTypeOK
<1> QED
  BY <1>1 DEF TestsInv

LEMMA TestsInvStays == TestsInv /\ [Depl!TestsNext]_(Depl!sandboxVars) => TestsInv'
<1> SUFFICES ASSUME TestsInv, [Depl!TestsNext]_(Depl!sandboxVars) PROVE TestsInv'
  OBVIOUS
<1> USE DeploymentsAssumption DEF TestsInv, Depl!TestsTypeOK, Depl!Over
<1>1. ASSUME NEW available \in BOOLEAN, Depl!Pick(available) PROVE TestsInv'
  <2>1. CASE driver = "disabled" \/ (driver = "docker" /\ ~available)
    BY <1>1, <2>1 DEF Depl!Pick
  <2>2. CASE ~(driver = "disabled" \/ (driver = "docker" /\ ~available))
    <3>1. /\ waiter = "idle" /\ waiter' = "waiting" /\ timer' = "set" /\ tester' = "running"
          /\ suite' = (IF driver = "process" THEN "running" ELSE "none")
          /\ UNCHANGED <<driver, waited, age, missed, result>>
      BY <1>1, <2>2 DEF Depl!Pick
    <3>2. scratch' \in BOOLEAN
      BY <1>1, <2>2 DEF Depl!Pick
    <3> QED
      BY <2>2, <3>1, <3>2
  <2> QED
    BY <2>1, <2>2
<1>2. CASE Depl!ContainerStarts
  BY <1>2 DEF Depl!ContainerStarts
<1>3. CASE Depl!ChildCloses
  BY <1>3 DEF Depl!ChildCloses
<1>4. CASE Depl!TimerFires
  BY <1>4 DEF Depl!TimerFires, Depl!Kill
<1>5. CASE Depl!Resolve
  <2>1. /\ waiter = "waiting" /\ tester = "closed" /\ waiter' = "resolved"
        /\ timer' = (IF timer = "set" THEN "off" ELSE timer)
        /\ result' = (IF timer = "fired" THEN "timeout" ELSE IF suite = "passed" THEN "passed" ELSE "failed")
        /\ UNCHANGED <<driver, waited, tester, suite, age, missed>>
    BY <1>5 DEF Depl!Resolve
  <2>2. scratch' \in BOOLEAN
    BY <1>5 DEF Depl!Resolve
  <2>3. missed \/ age <= TimeoutMs
    BY <2>1
  <2>4. timer # "fired" => age <= TimeoutMs
    BY <2>1
  <2> QED
    BY <2>1, <2>2, <2>3, <2>4
<1>6. CASE Depl!CallerDies
  BY <1>6 DEF Depl!CallerDies
<1>7. CASE Depl!Tick
  BY <1>7 DEF Depl!Tick
<1>8. CASE Depl!Again
  <2>1. missed' \in BOOLEAN /\ ~missed'
    BY <1>8 DEF Depl!Again
  <2> QED
    BY <1>8, <2>1 DEF Depl!Again
<1>9. ASSUME NEW how \in {"passed", "failed"}, Depl!TestsEnd(how) PROVE TestsInv'
  BY <1>9 DEF Depl!TestsEnd
<1>10. CASE UNCHANGED Depl!sandboxVars
  BY <1>10 DEF Depl!sandboxVars
<1> QED
  BY <1>1, <1>2, <1>3, <1>4, <1>5, <1>6, <1>7, <1>8, <1>9, <1>10 DEF Depl!TestsNext

LEMMA TestsInvSuffices == TestsInv => Depl!TestsTypeOK /\ Depl!CodeIsStopped
<1> SUFFICES ASSUME TestsInv PROVE Depl!CodeIsStopped
  BY DEF TestsInv
<1>1. waiter \in {"idle", "waiting", "resolved", "dead"} /\ timer \in {"off", "set", "fired"}
      /\ age \in Nat /\ waited \in Nat /\ waited <= TimeoutMs
  BY DeploymentsAssumption DEF TestsInv, Depl!TestsTypeOK
<1>2. CASE waiter = "waiting"
  BY <1>1, <1>2, DeploymentsAssumption DEF TestsInv, Depl!CodeIsStopped
<1>3. CASE waiter # "waiting"
  BY <1>1, <1>3, DeploymentsAssumption DEF TestsInv, Depl!CodeIsStopped
<1> QED
  BY <1>2, <1>3

\* Nothing runs that was not scanned.  Without docker a preview that is shown
\* as running is a child that lives; with either driver no two previews have
\* one port.  Tests run no longer than their limit, unless their worker died
\* or the kill came before the container.
THEOREM GeneratedCodeIsSafe == ServicesSpec => []GeneratedCodeIsKept
<1> DEFINE I == DeployInv /\ TestsInv
<1>1. ServicesInit => I
  BY DeployInvStarts, TestsInvStarts
<1>2. I /\ [ServicesNext]_all => I'
  BY StepIsOfOneService, DeployInvStays, TestsInvStays
<1>3. I => GeneratedCodeIsKept
  BY DeployInvSuffices, TestsInvSuffices DEF GeneratedCodeIsKept
<1> QED
  BY <1>1, <1>2, <1>3, PTL DEF ServicesSpec

-----------------------------------------------------------------------------
(***************************************************************************)
(* Keys of providers.  What is cached, or read by a call, was in the row   *)
(* not longer ago than the ages on its way add up to; and while a rotation *)
(* is under way all processes write with the newest key.                   *)
(***************************************************************************)
\* A value that a call read from the row, or took from the copy.
CopyBound == MaxCallAge + SecretAge - 1

AgeInv ==
  /\ gone[secret.value] = 0
  /\ \A p \in SecretProcess :
       /\ copy[p].age < SecretAge => gone[copy[p].value] <= MaxCallAge + copy[p].age
       /\ router[p].age < RouterAge => gone[router[p].value] <= CopyBound + MaxCallAge + router[p].age
  /\ \A c \in Call :
       /\ asking[c].at # "idle" => asking[c].process \in SecretProcess
       /\ asking[c].at = "read" => gone[asking[c].value] <= asking[c].age
       /\ asking[c].at = "building" => gone[asking[c].value] <= CopyBound + asking[c].age

Readable(row_, k) == row_.value = 0 \/ row_.key = k

RotationInv ==
  /\ Secr!NewestOpensAll
  /\ \A p \in SecretProcess : key[p] \in {newest, newest - 1}
  /\ rotated \/ rotating.at = "read" => \A p \in SecretProcess : key[p] = newest
  /\ rotated => Readable(secret, newest)
  /\ rotating.at = "read" /\ Readable(rotating, newest) => Readable(secret, newest)

SecretInv == Secr!TypeOK /\ AgeInv /\ RotationInv

LEMMA SecretInvStarts == ServicesInit => SecretInv
<1> SUFFICES ASSUME Secr!Init PROVE SecretInv
  BY DEF ServicesInit
<1> USE SecretsAssumption DEF Secr!Init, Secr!Old, Secr!Quiet, Secr!NoRotation, Secr!Longest, Secr!Values
<1>1. Secr!TypeOK
  BY DEF Secr!TypeOK
<1>2. AgeInv
  BY DEF AgeInv
<1>3. RotationInv
  BY DEF RotationInv, Readable, Secr!NewestOpensAll, Secr!Opens
<1> QED
  BY <1>1, <1>2, <1>3 DEF SecretInv

\* The sets that the variables range over.
CacheEntry == [value : Secr!Values, age : 0..RouterAge]
CallOfRouter == [at : {"idle", "reading", "read", "building"},
                 process : SecretProcess \cup {SecretNoOne},
                 value : Secr!Values, age : 0..MaxCallAge]

LEMMA SecretTypes ==
  ASSUME Secr!TypeOK
  PROVE  /\ secret.value \in Secr!Values /\ secret.key \in 1..MaxKeys
         /\ secret = [value |-> secret.value, key |-> secret.key]
         /\ gone \in [Secr!Values -> Nat] /\ newest \in 1..MaxKeys
         /\ copy \in [SecretProcess -> CacheEntry] /\ router \in [SecretProcess -> CacheEntry]
         /\ asking \in [Call -> CallOfRouter]
         /\ rotating.value \in Secr!Values /\ rotating.key \in 1..MaxKeys
<1>1. Secr!Longest \in Int
  BY SecretsAssumption DEF Secr!Longest
<1>2. 0..(Secr!Longest + 1) \subseteq Nat
  BY <1>1
<1>3. gone \in [Secr!Values -> Nat]
  BY <1>2 DEF Secr!TypeOK
<1> QED
  BY <1>3 DEF Secr!TypeOK, CacheEntry, CallOfRouter

LEMMA FreshEntries ==
  /\ 0 \in Secr!Values /\ Secr!Old \in CacheEntry /\ Secr!Old.age = RouterAge
  /\ Secr!Quiet \in CallOfRouter /\ Secr!Quiet.at = "idle"
  /\ \A v \in Secr!Values : [value |-> v, age |-> 0] \in CacheEntry
BY SecretsAssumption DEF Secr!Values, Secr!Old, Secr!Quiet, CacheEntry, CallOfRouter

LEMMA SecretInvStays == SecretInv /\ [Secr!Next]_(Secr!keyVars) => SecretInv'
<1> SUFFICES ASSUME SecretInv, [Secr!Next]_(Secr!keyVars) PROVE SecretInv'
  OBVIOUS
<1> USE SecretsAssumption, FreshEntries
<1>0. Secr!TypeOK /\ AgeInv /\ RotationInv
  BY DEF SecretInv
<1>01. /\ secret.value \in Secr!Values /\ secret.key \in 1..MaxKeys
       /\ gone \in [Secr!Values -> Nat] /\ newest \in 1..MaxKeys
       /\ copy \in [SecretProcess -> CacheEntry] /\ router \in [SecretProcess -> CacheEntry]
       /\ asking \in [Call -> CallOfRouter]
  BY <1>0, SecretTypes
<1>02. /\ \A p \in SecretProcess : /\ copy[p].value \in Secr!Values /\ copy[p].age \in 0..RouterAge
                                   /\ router[p].value \in Secr!Values /\ router[p].age \in 0..RouterAge
       /\ \A c \in Call : asking[c].value \in Secr!Values /\ asking[c].age \in 0..MaxCallAge
  BY <1>01 DEF CacheEntry, CallOfRouter
<1>1. ASSUME NEW p \in SecretProcess, NEW v \in Secr!Values, Secr!Set(p, v) PROVE SecretInv'
  <2>0. /\ secret'.value = v /\ secret'.key = key[p] /\ gone' = [gone EXCEPT ![v] = 0]
        /\ copy' = [copy EXCEPT ![p] = Secr!Old] /\ router' = [router EXCEPT ![p] = Secr!Old]
        /\ sets' = sets + 1 /\ sets < MaxSets
        /\ UNCHANGED <<newest, key, asking, rotating, rotated>>
    BY <1>1 DEF Secr!Set, Secr!Hold
  <2>1. Secr!TypeOK'
    <3>1. key[p] \in 1..MaxKeys
      BY <1>0 DEF Secr!TypeOK
    <3>2. 0 \in 0..(Secr!Longest + 1)
      BY DEF Secr!Longest
    <3>3. secret' \in [value : Secr!Values, key : 1..MaxKeys]
      BY <1>1, <3>1 DEF Secr!Set
    <3> QED
      BY <1>0, <2>0, <3>2, <3>3 DEF Secr!TypeOK, CacheEntry
  <2>2. AgeInv'
    BY <1>0, <1>01, <1>02, <2>0 DEF AgeInv, CopyBound
  <2>3. RotationInv'
    BY <1>0, <1>1 DEF Secr!Set, Secr!TypeOK, RotationInv, Readable, Secr!NewestOpensAll, Secr!Opens
  <2> QED
    BY <2>1, <2>2, <2>3 DEF SecretInv
<1>2. ASSUME NEW p \in SecretProcess, Secr!Restart(p) PROVE SecretInv'
  <2>0. /\ copy' = [copy EXCEPT ![p] = Secr!Old] /\ router' = [router EXCEPT ![p] = Secr!Old]
        /\ asking' = [c \in Call |-> IF asking[c].process = p THEN Secr!Quiet ELSE asking[c]]
        /\ key' = [key EXCEPT ![p] = newest]
        /\ UNCHANGED <<secret, gone, newest, rotating, rotated, sets>>
    BY <1>2 DEF Secr!Restart
  <2>1. Secr!TypeOK'
    BY <1>0, <1>01, <2>0 DEF Secr!TypeOK, CacheEntry, CallOfRouter
  <2>2. AgeInv'
    BY <1>0, <1>01, <1>02, <2>0 DEF AgeInv, CopyBound
  <2>3. RotationInv'
    BY <1>0, <1>2 DEF Secr!Restart, Secr!TypeOK, RotationInv, Readable, Secr!NewestOpensAll, Secr!Opens
  <2> QED
    BY <2>1, <2>2, <2>3 DEF SecretInv
<1>3. ASSUME NEW c \in Call, NEW p \in SecretProcess, Secr!Ask(c, p) PROVE SecretInv'
  <2> DEFINE new == IF copy[p].age < SecretAge
                    THEN [at |-> "building", process |-> p, value |-> copy[p].value, age |-> 0]
                    ELSE [at |-> "reading", process |-> p, value |-> 0, age |-> 0]
  <2>0. /\ asking' = [asking EXCEPT ![c] = new]
        /\ UNCHANGED <<secret, gone, newest, key, copy, router, rotating, rotated, sets>>
    BY <1>3 DEF Secr!Ask
  <2>1. /\ new \in CallOfRouter /\ new.process = p /\ new.age = 0 /\ new.at # "read"
        /\ new.at = "building" => new.value = copy[p].value /\ copy[p].age < SecretAge
    BY <1>02 DEF CallOfRouter
  <2> HIDE DEF new
  <2>2. AgeInv'
    BY <1>0, <1>01, <1>02, <2>0, <2>1 DEF AgeInv, CopyBound
  <2>3. Secr!TypeOK' /\ RotationInv'
    BY <1>0, <1>01, <2>0, <2>1 DEF Secr!TypeOK, CallOfRouter, RotationInv, Readable, Secr!NewestOpensAll, Secr!Opens
  <2> QED
    BY <2>2, <2>3 DEF SecretInv
<1>4. ASSUME NEW c \in Call, Secr!ReadRow(c) PROVE SecretInv'
  <2> DEFINE new == IF Secr!Opens(key[asking[c].process], secret)
                    THEN [asking[c] EXCEPT !.at = "read", !.value = secret.value] ELSE Secr!Quiet
  <2>0. /\ asking' = [asking EXCEPT ![c] = new] /\ asking[c].at = "reading"
        /\ UNCHANGED <<secret, gone, newest, key, copy, router, rotating, rotated, sets>>
    BY <1>4 DEF Secr!ReadRow
  <2>1. /\ new \in CallOfRouter /\ new.at \in {"idle", "read"}
        /\ new.at = "read" => new.value = secret.value /\ new.process = asking[c].process
    BY <1>01 DEF CallOfRouter
  <2> HIDE DEF new
  <2>2. new.age \in Nat
    BY <2>1 DEF CallOfRouter
  <2>3. AgeInv'
    BY <1>0, <1>01, <2>0, <2>1, <2>2 DEF AgeInv
  <2>4. Secr!TypeOK' /\ RotationInv'
    BY <1>0, <1>01, <2>0, <2>1 DEF Secr!TypeOK, CallOfRouter, RotationInv, Readable, Secr!NewestOpensAll, Secr!Opens
  <2> QED
    BY <2>3, <2>4 DEF SecretInv
<1>5. ASSUME NEW c \in Call, Secr!KeepCopy(c) PROVE SecretInv'
  <2> DEFINE entry == [value |-> asking[c].value, age |-> 0]
             new == [asking[c] EXCEPT !.at = "building"]
  <2>0. /\ asking' = [asking EXCEPT ![c] = new] /\ asking[c].at = "read"
        /\ copy' = [copy EXCEPT ![asking[c].process] = entry]
        /\ UNCHANGED <<secret, gone, newest, key, router, rotating, rotated, sets>>
    BY <1>5 DEF Secr!KeepCopy
  <2>1. /\ new \in CallOfRouter /\ new.at = "building" /\ new.value = asking[c].value
        /\ new.process = asking[c].process /\ new.age = asking[c].age
        /\ entry \in CacheEntry /\ entry.value = asking[c].value /\ entry.age = 0
    BY <1>01, <1>02 DEF CallOfRouter
  <2> HIDE DEF new, entry
  <2>2. AgeInv'
    BY <1>0, <1>01, <1>02, <2>0, <2>1 DEF AgeInv, CopyBound
  <2>3. Secr!TypeOK' /\ RotationInv'
    BY <1>0, <1>01, <2>0, <2>1 DEF Secr!TypeOK, CallOfRouter, CacheEntry, RotationInv, Readable,
       Secr!NewestOpensAll, Secr!Opens
  <2> QED
    BY <2>2, <2>3 DEF SecretInv
<1>6. ASSUME NEW c \in Call, Secr!Build(c) PROVE SecretInv'
  <2> DEFINE entry == [value |-> asking[c].value, age |-> 0]
  <2>0. /\ asking' = [asking EXCEPT ![c] = Secr!Quiet] /\ asking[c].at = "building"
        /\ router' = [router EXCEPT ![asking[c].process] = entry]
        /\ UNCHANGED <<secret, gone, newest, key, copy, rotating, rotated, sets>>
    BY <1>6 DEF Secr!Build
  <2>1. entry \in CacheEntry /\ entry.value = asking[c].value /\ entry.age = 0
    BY <1>02
  <2> HIDE DEF entry
  <2>2. AgeInv'
    BY <1>0, <1>01, <1>02, <2>0, <2>1 DEF AgeInv, CopyBound
  <2>3. Secr!TypeOK' /\ RotationInv'
    BY <1>0, <1>01, <2>0, <2>1 DEF Secr!TypeOK, CallOfRouter, CacheEntry, RotationInv, Readable,
       Secr!NewestOpensAll, Secr!Opens
  <2> QED
    BY <2>2, <2>3 DEF SecretInv
<1>7. CASE Secr!NewKey
  <2>1. Secr!TypeOK'
    <3>1. key \in [SecretProcess -> 1..newest'] /\ newest' \in 1..MaxKeys
      BY <1>0, <1>01, <1>7 DEF Secr!NewKey, Secr!TypeOK
    <3> QED
      BY <1>0, <1>7, <3>1 DEF Secr!NewKey, Secr!TypeOK
  <2>2. AgeInv'
    BY <1>0, <1>7 DEF Secr!NewKey, AgeInv
  <2>3. RotationInv'
    BY <1>0, <1>7 DEF Secr!NewKey, Secr!TypeOK, RotationInv, Readable, Secr!NewestOpensAll, Secr!Opens
  <2> QED
    BY <2>1, <2>2, <2>3 DEF SecretInv
<1>8. CASE Secr!RotateReads \/ Secr!RotateDies
  <2>1. Secr!TypeOK'
    BY <1>0, <1>8 DEF Secr!RotateReads, Secr!RotateDies, Secr!TypeOK, Secr!NoRotation
  <2>2. AgeInv'
    BY <1>0, <1>8 DEF Secr!RotateReads, Secr!RotateDies, AgeInv
  <2>3. RotationInv'
    BY <1>0, <1>8 DEF Secr!RotateReads, Secr!RotateDies, Secr!TypeOK, Secr!NoRotation, RotationInv,
       Readable, Secr!NewestOpensAll, Secr!Opens
  <2> QED
    BY <2>1, <2>2, <2>3 DEF SecretInv
<1>9. CASE Secr!RotateWrites
  <2>0. /\ \/ /\ secret' = [value |-> rotating.value, key |-> newest]
              /\ gone' = [gone EXCEPT ![rotating.value] = 0]
           \/ UNCHANGED <<secret, gone>>
        /\ rotating' = Secr!NoRotation /\ rotated' = TRUE
        /\ UNCHANGED <<newest, key, copy, router, asking, sets>>
    BY <1>9 DEF Secr!RotateWrites, Secr!Hold
  <2>1. rotating.value \in Secr!Values /\ 0 \in 0..(Secr!Longest + 1)
    BY <1>0, SecretTypes DEF Secr!Longest
  <2>2. Secr!TypeOK'
    BY <1>0, <1>01, <2>0, <2>1 DEF Secr!TypeOK, Secr!NoRotation
  <2>3. AgeInv'
    BY <1>0, <1>01, <1>02, <2>0, <2>1 DEF AgeInv, CopyBound
  <2>4. RotationInv'
    BY <1>0, <1>9 DEF Secr!RotateWrites, Secr!TypeOK, Secr!NoRotation, RotationInv,
       Readable, Secr!NewestOpensAll, Secr!Opens
  <2> QED
    BY <2>2, <2>3, <2>4 DEF SecretInv
<1>10. CASE Secr!Tick
  <2>0. /\ gone' = [v \in Secr!Values |-> IF v = secret.value THEN 0
                       ELSE IF gone[v] > Secr!Longest THEN gone[v] ELSE gone[v] + 1]
        /\ copy' = [p \in SecretProcess |-> Secr!Older(copy[p], SecretAge)]
        /\ router' = [p \in SecretProcess |-> Secr!Older(router[p], RouterAge)]
        /\ asking' = [c \in Call |-> IF asking[c].at = "idle" THEN Secr!Quiet
                                     ELSE [asking[c] EXCEPT !.age = @ + 1]]
        /\ \A c \in Call : asking[c].age < MaxCallAge
        /\ UNCHANGED <<secret, newest, key, rotating, rotated, sets>>
    BY <1>0, <1>10 DEF Secr!Tick, Secr!TypeOK
  <2>1. ASSUME NEW e \in CacheEntry, NEW bound \in 0..RouterAge
        PROVE  /\ Secr!Older(e, bound) \in CacheEntry
               /\ Secr!Older(e, bound).age < bound
                    => e.age < bound /\ Secr!Older(e, bound).value = e.value
                         /\ Secr!Older(e, bound).age = e.age + 1
    BY DEF Secr!Older, CacheEntry
  <2>2. SecretAge \in 0..RouterAge /\ RouterAge \in 0..RouterAge
    OBVIOUS
  <2>3. /\ copy' \in [SecretProcess -> CacheEntry] /\ router' \in [SecretProcess -> CacheEntry]
        /\ \A p \in SecretProcess :
             /\ copy'[p].age < SecretAge
                  => copy[p].age < SecretAge /\ copy'[p].value = copy[p].value
                       /\ copy'[p].age = copy[p].age + 1
             /\ router'[p].age < RouterAge
                  => router[p].age < RouterAge /\ router'[p].value = router[p].value
                       /\ router'[p].age = router[p].age + 1
    BY <1>01, <2>0, <2>1, <2>2
  <2>4. \A c \in Call :
          /\ asking'[c] \in CallOfRouter
          /\ asking'[c].at = "idle" \/ (asking'[c].at = asking[c].at /\ asking'[c].value = asking[c].value
                /\ asking'[c].process = asking[c].process /\ asking'[c].age = asking[c].age + 1)
    BY <1>01, <2>0 DEF CallOfRouter
  <2>5. asking' \in [Call -> CallOfRouter]
    BY <2>0, <2>4
  <2>6. /\ gone' \in [Secr!Values -> 0..(Secr!Longest + 1)]
        /\ \A v \in Secr!Values : gone'[v] <= gone[v] + 1 /\ gone'[v] \in Nat
                                     /\ (v = secret.value => gone'[v] = 0)
    <3>1. Secr!Longest \in Int
      BY DEF Secr!Longest
    <3>2. \A v \in Secr!Values : gone[v] \in 0..(Secr!Longest + 1)
      BY <1>0 DEF Secr!TypeOK
    <3>3. 0 \in 0..(Secr!Longest + 1)
      BY <1>01, <3>1, <3>2
    <3> QED
      BY <2>0, <3>1, <3>2, <3>3
  <2>7. Secr!TypeOK'
    BY <1>0, <2>0, <2>3, <2>5, <2>6 DEF Secr!TypeOK, CacheEntry, CallOfRouter
  <2>8. AgeInv'
    <3>1. ASSUME NEW p \in SecretProcess
          PROVE  /\ copy'[p].age < SecretAge
                      => gone'[copy'[p].value] <= MaxCallAge + copy'[p].age
                 /\ router'[p].age < RouterAge
                      => gone'[router'[p].value] <= CopyBound + MaxCallAge + router'[p].age
      BY <1>0, <1>01, <1>02, <2>3, <2>6 DEF AgeInv, CopyBound
    <3>2. ASSUME NEW c \in Call, asking'[c].at # "idle"
          PROVE  /\ asking'[c].process \in SecretProcess
                 /\ asking'[c].at = "read" => gone'[asking'[c].value] <= asking'[c].age
                 /\ asking'[c].at = "building" => gone'[asking'[c].value] <= CopyBound + asking'[c].age
      BY <1>0, <1>01, <1>02, <2>4, <2>6, <3>2 DEF AgeInv, CopyBound
    <3>3. gone'[secret'.value] = 0
      BY <1>01, <2>0, <2>6
    <3> QED
      BY <3>1, <3>2, <3>3 DEF AgeInv
  <2>9. RotationInv'
    BY <1>0, <2>0 DEF RotationInv, Readable, Secr!NewestOpensAll, Secr!Opens
  <2> QED
    BY <2>7, <2>8, <2>9 DEF SecretInv
<1>11. CASE UNCHANGED Secr!keyVars
  BY <1>0, <1>11 DEF Secr!keyVars, SecretInv, Secr!TypeOK, AgeInv, RotationInv, Readable,
     Secr!NewestOpensAll, Secr!Opens
<1> QED
  BY <1>1, <1>2, <1>3, <1>4, <1>5, <1>6, <1>7, <1>8, <1>9, <1>10, <1>11 DEF Secr!Next

LEMMA SecretInvSuffices ==
  SecretInv => Secr!TypeOK /\ Secr!ReplacedKeyDiesOut /\ Secr!NewestOpensAll
<1> SUFFICES ASSUME SecretInv PROVE Secr!ReplacedKeyDiesOut
  BY DEF SecretInv, RotationInv
<1>1. /\ gone \in [Secr!Values -> Nat] /\ router \in [SecretProcess -> CacheEntry]
  BY SecretTypes DEF SecretInv
<1>2. \A p \in SecretProcess : router[p].age \in Nat /\ router[p].value \in Secr!Values
  BY <1>1, SecretsAssumption DEF CacheEntry
<1> QED
  BY <1>1, <1>2, SecretsAssumption DEF SecretInv, AgeInv, CopyBound, Secr!ReplacedKeyDiesOut, Secr!Longest

-----------------------------------------------------------------------------
(***************************************************************************)
(* The audit log.  What a writer has inserted and not committed follows    *)
(* what is committed, under a lock that nobody else holds; together they   *)
(* are a chain, unless somebody has edited an entry.                       *)
(***************************************************************************)
\* The entries of an organisation that a writer sees: the committed ones and its own.
Visible(w, o) == Audit!RowsOf(log \cup own[w], o)
Committed(o) == Audit!RowsOf(log, o)

Before(rows, r) == {q \in rows : q.seq < r.seq}
Linked(rows, r) == r.prev = Audit!LastHash(Before(rows, r)) /\ r.hash = Append(r.prev, r.entry)
Chain(rows) == \A r \in rows : Linked(rows, r)

\* There is a last one: LastHash is the hash of an entry.
HasLast(rows) == rows = {} \/ \E r \in rows : \A q \in rows : q.seq <= r.seq

\* An entry whose hash is not that of what it says.
Broken(rows) == \E r \in rows : r.hash # Append(Audit!LastHash(Before(rows, r)), r.entry)

AuditTypes == Audit!TypeOK /\ own \in [Writer -> SUBSET Audit!Rows]

OwnInv ==
  /\ \A r \in log : r.seq < nextSeq
  /\ \A w \in Writer : \A r \in own[w] :
       /\ r.seq < nextSeq /\ auditLock[r.org] = w
       /\ \A q \in log : q.org = r.org => q.seq < r.seq
  /\ \A o \in Org : HasLast(Committed(o)) /\ \A w \in Writer : HasLast(Visible(w, o))
  /\ \A o, p \in Org : auditLock[o] \in Writer /\ auditLock[o] = auditLock[p] => o = p

ChainInv ==
  \A o \in Org \ tampered :
    /\ Chain(Committed(o))
    /\ \A w \in Writer :
         /\ Chain(Visible(w, o))
         /\ auditStep[w] = "read" /\ auditLock[o] = w => prev[w] = Audit!LastHash(Visible(w, o))

TamperInv == \A o \in tampered : Broken(Committed(o))

AuditInv == AuditTypes /\ OwnInv /\ ChainInv /\ TamperInv

-----------------------------------------------------------------------------
(* Entries in their order *)

LEMMA LastHashIsAHash ==
  ASSUME NEW rows \in SUBSET Audit!Rows, HasLast(rows)
  PROVE  Audit!LastHash(rows) \in Seq(Entry)
<1>1. CASE rows = {}
  BY <1>1 DEF Audit!LastHash
<1>2. CASE rows # {}
  <2>1. PICK r \in rows : \A q \in rows : q.seq <= r.seq
    BY <1>2 DEF HasLast
  <2>2. (CHOOSE x \in rows : \A q \in rows : q.seq <= x.seq) \in rows
    BY <2>1
  <2>3. \A x \in rows : x.hash \in Seq(Entry)
    BY DEF Audit!Rows
  <2> QED
    BY <1>2, <2>2, <2>3 DEF Audit!LastHash
<1> QED
  BY <1>1, <1>2

\* An entry at the end prolongs the chain and is the last.
LEMMA EntryAtTheEnd ==
  ASSUME NEW rows \in SUBSET Audit!Rows, NEW r \in Audit!Rows, \A q \in rows : q.seq < r.seq
  PROVE  /\ HasLast(rows \cup {r})
         /\ Chain(rows) /\ Linked(rows, r) => Chain(rows \cup {r})
<1>1. \A q \in rows \cup {r} : q.seq \in Int
  BY DEF Audit!Rows
<1>2. HasLast(rows \cup {r})
  BY <1>1 DEF HasLast
<1>3. \A q \in rows \cup {r} : Before(rows \cup {r}, q) = Before(rows, q)
  BY <1>1 DEF Before
<1> QED
  BY <1>2, <1>3 DEF Chain, Linked

\* An edited entry keeps its place, and gives itself away.
LEMMA EditBreaks ==
  ASSUME NEW rows \in SUBSET Audit!Rows, NEW r \in rows, NEW e \in Entry,
         NEW edited, edited = (rows \ {r}) \cup {[r EXCEPT !.entry = e]}
  PROVE  /\ edited \subseteq Audit!Rows
         /\ HasLast(rows) => HasLast(edited)
         /\ Chain(rows) /\ e # r.entry => Broken(edited)
<1> DEFINE s == [r EXCEPT !.entry = e]
<1>1. /\ s \in Audit!Rows /\ s.seq = r.seq /\ s.hash = r.hash /\ s.entry = e
      /\ s \in edited /\ r.seq \in Int /\ r.prev \in Seq(Entry) /\ r.entry \in Entry
  BY DEF Audit!Rows
<1> HIDE DEF s
<1>2. edited = (rows \ {r}) \cup {s}
  BY DEF s
<1>3. HasLast(rows) => HasLast(edited)
  BY <1>1, <1>2 DEF HasLast
<1>4. Before(edited, s) = Before(rows, r)
  BY <1>1, <1>2 DEF Before
<1>5. ASSUME Chain(rows), e # r.entry PROVE Broken(edited)
  <2>1. s.hash = Append(r.prev, r.entry) /\ Audit!LastHash(Before(edited, s)) = r.prev
    BY <1>1, <1>4, <1>5 DEF Chain, Linked
  <2>2. Append(r.prev, r.entry) # Append(r.prev, e)
    BY <1>1, <1>5
  <2> QED
    BY <1>1, <2>1, <2>2 DEF Broken
<1> QED
  BY <1>1, <1>2, <1>3, <1>5

\* No later entry mends what is broken.
LEMMA LaterEntriesDoNotMend ==
  ASSUME NEW rows \in SUBSET Audit!Rows, NEW more \in SUBSET Audit!Rows,
         \A q \in rows, r \in more : q.seq < r.seq, Broken(rows)
  PROVE  Broken(rows \cup more)
<1>1. PICK r \in rows : r.hash # Append(Audit!LastHash(Before(rows, r)), r.entry)
  BY DEF Broken
<1>2. \A q \in rows \cup more : q.seq \in Int
  BY DEF Audit!Rows
<1>3. Before(rows \cup more, r) = Before(rows, r)
  BY <1>2 DEF Before
<1> QED
  BY <1>1, <1>3 DEF Broken

-----------------------------------------------------------------------------
LEMMA AuditInvStarts == ServicesInit => AuditInv
<1> SUFFICES ASSUME Audit!Init PROVE AuditInv
  BY DEF ServicesInit
<1> USE AuditAssumption DEF Audit!Init
<1>1. AuditTypes
  BY DEF AuditTypes, Audit!TypeOK
<1>2. \A o \in Org : Committed(o) = {} /\ \A w \in Writer : Visible(w, o) = {}
  BY DEF Committed, Visible, Audit!RowsOf
<1>3. OwnInv /\ ChainInv /\ TamperInv
  BY <1>2 DEF OwnInv, ChainInv, TamperInv, Chain, HasLast
<1> QED
  BY <1>1, <1>3 DEF AuditInv

LEMMA VisibleRows ==
  ASSUME AuditTypes, NEW o \in Org
  PROVE  /\ Committed(o) \in SUBSET Audit!Rows
         /\ \A w \in Writer : Visible(w, o) \in SUBSET Audit!Rows
BY DEF AuditTypes, Audit!TypeOK, Committed, Visible, Audit!RowsOf

\* A step that leaves the entries as they are.
LEMMA SameEntries ==
  ASSUME UNCHANGED <<log, own>>
  PROVE  /\ \A o : Committed(o)' = Committed(o)
         /\ \A w, o : Visible(w, o)' = Visible(w, o)
BY DEF Committed, Visible

LEMMA TakeKeepsAuditInv ==
  ASSUME AuditInv, NEW w \in Writer, NEW o \in Org, Audit!Take(w, o)
  PROVE  AuditInv'
<1> USE AuditAssumption DEF AuditInv
<1>1. AuditTypes'
  BY DEF Audit!Take, AuditTypes, Audit!TypeOK
<1>2. /\ UNCHANGED <<log, own, nextSeq, prev, tampered>>
      /\ auditLock' = [auditLock EXCEPT ![o] = w]
      /\ auditStep' = [auditStep EXCEPT ![w] = "locked"] /\ auditLock[o] \in {Audit!NoWriter, w}
      /\ \A p \in Org : auditLock[p] = w => p = o
      /\ auditLock \in [Org -> Writer \cup {Audit!NoWriter}]
      /\ auditStep \in [Writer -> {"idle", "locked", "read", "inserted"}]
      /\ \A r \in log : r.org \in Org
      /\ \A v \in Writer : \A r \in own[v] : r.org \in Org
  BY DEF Audit!Take, Audit!Holds, AuditTypes, Audit!TypeOK, Audit!Rows
<1>3. OwnInv'
  BY <1>2, SameEntries DEF OwnInv
<1>4. TamperInv'
  BY <1>2, SameEntries DEF TamperInv
<1>5. ChainInv'
  <2>1. \A p \in Org, v \in Writer :
          auditStep'[v] = "read" /\ auditLock'[p] = v => auditStep[v] = "read" /\ auditLock[p] = v
    <3>1. ASSUME NEW v \in Writer, auditStep'[v] = "read" PROVE v # w /\ auditStep[v] = "read"
      <4>1. auditStep' = [auditStep EXCEPT ![w] = "locked"]
        BY DEF Audit!Take
      <4>2. auditStep \in [Writer -> {"idle", "locked", "read", "inserted"}]
        BY DEF AuditTypes, Audit!TypeOK
      <4> QED
        BY <3>1, <4>1, <4>2
    <3>2. ASSUME NEW p \in Org, NEW v \in Writer, v # w, auditLock'[p] = v PROVE auditLock[p] = v
      BY <1>2, <3>2
    <3> QED
      BY <3>1, <3>2
  <2> QED
    BY <1>2, <2>1, SameEntries DEF ChainInv
<1> QED
  BY <1>1, <1>3, <1>4, <1>5

LEMMA ReadKeepsAuditInv ==
  ASSUME AuditInv, NEW w \in Writer, NEW o \in Org, Audit!ReadPrev(w, o)
  PROVE  AuditInv'
<1> USE AuditAssumption DEF AuditInv
<1>1. /\ UNCHANGED <<log, own, nextSeq, auditLock, tampered>> /\ auditLock[o] = w
      /\ prev' = [prev EXCEPT ![w] = Audit!LastHash(Visible(w, o))]
      /\ auditStep' = [auditStep EXCEPT ![w] = "read"]
      /\ auditLock \in [Org -> Writer \cup {Audit!NoWriter}]
      /\ auditStep \in [Writer -> {"idle", "locked", "read", "inserted"}]
      /\ prev \in [Writer -> Seq(Entry)]
  BY DEF Audit!ReadPrev, Audit!Holds, AuditTypes, Audit!TypeOK, Visible
<1>2. Audit!LastHash(Visible(w, o)) \in Seq(Entry)
  BY VisibleRows, LastHashIsAHash DEF OwnInv
<1>3. AuditTypes'
  BY <1>1, <1>2 DEF AuditTypes, Audit!TypeOK
<1>4. OwnInv' /\ TamperInv'
  BY <1>1, SameEntries DEF OwnInv, TamperInv
<1>5. ChainInv'
  BY <1>1, SameEntries DEF ChainInv, OwnInv
<1> QED
  BY <1>3, <1>4, <1>5

LEMMA InsertKeepsAuditInv ==
  ASSUME AuditInv, NEW w \in Writer, NEW o \in Org, NEW e \in Entry, Audit!InsertRow(w, o, e)
  PROVE  AuditInv'
<1> USE AuditAssumption DEF AuditInv
<1> DEFINE new == [seq |-> nextSeq, org |-> o, entry |-> e, prev |-> prev[w],
                   hash |-> Append(prev[w], e)]
<1>1. /\ UNCHANGED <<log, auditLock, prev, tampered>> /\ auditLock[o] = w /\ auditStep[w] = "read"
      /\ own' = [own EXCEPT ![w] = @ \cup {new}] /\ nextSeq' = nextSeq + 1 /\ nextSeq <= MaxSeq
      /\ auditStep' = [auditStep EXCEPT ![w] = "inserted"]
  BY DEF Audit!InsertRow, Audit!Holds
<1>2. /\ nextSeq \in 1..(MaxSeq + 1) /\ prev[w] \in Seq(Entry) /\ tampered \subseteq Org
      /\ own \in [Writer -> SUBSET Audit!Rows] /\ log \subseteq Audit!Rows
      /\ auditLock \in [Org -> Writer \cup {Audit!NoWriter}]
      /\ auditStep \in [Writer -> {"idle", "locked", "read", "inserted"}]
  BY DEF AuditTypes, Audit!TypeOK
<1>3. /\ new \in Audit!Rows /\ new.seq = nextSeq /\ new.org = o /\ new.prev = prev[w]
      /\ new.hash = Append(new.prev, new.entry)
  BY <1>1, <1>2 DEF Audit!Rows
<1> HIDE DEF new
<1>4. AuditTypes'
  BY <1>1, <1>2, <1>3 DEF AuditTypes, Audit!TypeOK
<1>5. /\ \A p \in Org : Committed(p)' = Committed(p)
      /\ \A v \in Writer, p \in Org :
           Visible(v, p)' = IF v = w /\ p = o THEN Visible(w, o) \cup {new} ELSE Visible(v, p)
  BY <1>1, <1>2, <1>3 DEF Committed, Visible, Audit!RowsOf
<1>6. Visible(w, o) \in SUBSET Audit!Rows /\ \A q \in Visible(w, o) : q.seq < new.seq
  BY <1>2, <1>3, VisibleRows DEF OwnInv, Visible, Audit!RowsOf
<1>7. HasLast(Visible(w, o) \cup {new})
  BY <1>3, <1>6, EntryAtTheEnd
<1>8. o \notin tampered => Chain(Visible(w, o) \cup {new})
  <2> SUFFICES ASSUME o \notin tampered PROVE Chain(Visible(w, o) \cup {new})
    OBVIOUS
  <2>1. prev[w] = Audit!LastHash(Visible(w, o)) /\ Chain(Visible(w, o))
    BY <1>1 DEF ChainInv
  <2>2. Before(Visible(w, o), new) = Visible(w, o)
    BY <1>6 DEF Before
  <2> QED
    BY <1>3, <1>6, <2>1, <2>2, EntryAtTheEnd DEF Linked
<1>9. OwnInv'
  <2>1. \A r \in log : r.seq < nextSeq' /\ r.seq \in Int
    BY <1>1, <1>2 DEF OwnInv, Audit!Rows
  <2>2. \A v \in Writer : \A r \in own'[v] :
          /\ r.seq < nextSeq' /\ auditLock'[r.org] = v
          /\ \A q \in log' : q.org = r.org => q.seq < r.seq
    BY <1>1, <1>2, <1>3 DEF OwnInv, Audit!Rows
  <2>3. \A p \in Org : HasLast(Committed(p))' /\ \A v \in Writer : HasLast(Visible(v, p))'
    BY <1>5, <1>7 DEF OwnInv, HasLast
  <2>4. \A q, p \in Org : auditLock'[q] \in Writer /\ auditLock'[q] = auditLock'[p] => q = p
    BY <1>1 DEF OwnInv
  <2> QED
    BY <1>1, <2>1, <2>2, <2>3, <2>4 DEF OwnInv
<1>10. TamperInv'
  BY <1>1, <1>2, <1>5 DEF TamperInv
<1>11. ChainInv'
  <2> SUFFICES ASSUME NEW p \in Org, p \notin tampered
               PROVE  /\ Chain(Committed(p)')
                      /\ \A v \in Writer :
                           /\ Chain(Visible(v, p)')
                           /\ auditStep'[v] = "read" /\ auditLock[p] = v
                                => prev[v] = Audit!LastHash(Visible(v, p)')
    BY <1>1 DEF ChainInv
  <2>1. Chain(Committed(p)') /\ \A v \in Writer : Chain(Visible(v, p)')
    BY <1>5, <1>8 DEF ChainInv
  <2>2. ASSUME NEW v \in Writer, auditStep'[v] = "read", auditLock[p] = v
        PROVE  prev[v] = Audit!LastHash(Visible(v, p)')
    BY <1>1, <1>2, <1>5, <2>2 DEF ChainInv
  <2> QED
    BY <2>1, <2>2
<1> QED
  BY <1>4, <1>9, <1>10, <1>11

\* A transaction that ends, with or without what it has inserted.
LEMMA EndKeepsAuditInv ==
  ASSUME AuditInv, NEW w \in Writer, Audit!Commit(w) \/ Audit!Abort(w)
  PROVE  AuditInv'
<1> USE AuditAssumption DEF AuditInv
<1>1. /\ log' = log \cup own[w] \/ log' = log
      /\ own' = [own EXCEPT ![w] = {}] /\ prev' = [prev EXCEPT ![w] = <<>>]
      /\ auditStep' = [auditStep EXCEPT ![w] = "idle"]
      /\ auditLock' = [o \in Org |-> IF auditLock[o] = w THEN Audit!NoWriter ELSE auditLock[o]]
      /\ UNCHANGED <<nextSeq, tampered>>
  BY DEF Audit!Commit, Audit!Abort, Audit!EndTx, Audit!Holds
<1>2. /\ nextSeq \in 1..(MaxSeq + 1) /\ tampered \subseteq Org
      /\ own \in [Writer -> SUBSET Audit!Rows] /\ log \subseteq Audit!Rows
      /\ auditLock \in [Org -> Writer \cup {Audit!NoWriter}]
      /\ auditStep \in [Writer -> {"idle", "locked", "read", "inserted"}]
      /\ prev \in [Writer -> Seq(Entry)]
      /\ \A v \in Writer : \A r \in own[v] : auditLock[r.org] = v /\ r.org \in Org
  BY DEF AuditTypes, Audit!TypeOK, OwnInv, Audit!Rows
<1>3. AuditTypes'
  <2>1. <<>> \in Seq(Entry)
    OBVIOUS
  <2> QED
    BY <1>1, <1>2, <2>1 DEF AuditTypes, Audit!TypeOK
<1>4. ASSUME NEW o \in Org
      PROVE  /\ Committed(o)' = Committed(o) \/ Committed(o)' = Visible(w, o)
             /\ Visible(w, o)' = Committed(o)'
             /\ \A v \in Writer \ {w} :
                  /\ Visible(v, o)' = Committed(o)' \/ Visible(v, o)' = Visible(v, o)
                  /\ auditLock[o] = v => Visible(v, o)' = Visible(v, o)
  <2>1. Committed(o)' = Committed(o) \/ Committed(o)' = Visible(w, o)
    BY <1>1 DEF Committed, Visible, Audit!RowsOf
  <2>2. Visible(w, o)' = Committed(o)'
    BY <1>1, <1>2 DEF Committed, Visible, Audit!RowsOf
  <2>3. ASSUME NEW v \in Writer \ {w}
        PROVE  /\ Visible(v, o)' = Committed(o)' \/ Visible(v, o)' = Visible(v, o)
               /\ auditLock[o] = v => Visible(v, o)' = Visible(v, o)
    <3>1. own'[v] = own[v]
      BY <1>1, <1>2
    <3>2. CASE auditLock[o] = v
      <4>1. \A r \in own[w] : r.org # o
        BY <1>2, <3>2
      <4> QED
        BY <1>1, <3>1, <4>1 DEF Visible, Audit!RowsOf
    <3>3. CASE auditLock[o] # v
      <4>1. \A r \in own[v] : r.org # o
        BY <1>2, <3>3
      <4> QED
        BY <3>1, <3>3, <4>1 DEF Committed, Visible, Audit!RowsOf
    <3> QED
      BY <3>2, <3>3
  <2> QED
    BY <2>1, <2>2, <2>3
<1>5. OwnInv'
  <2>1. \A r \in log' : r.seq < nextSeq'
    BY <1>1 DEF OwnInv
  <2>2. \A v \in Writer : \A r \in own'[v] :
          /\ r.seq < nextSeq' /\ auditLock'[r.org] = v
          /\ \A q \in log' : q.org = r.org => q.seq < r.seq
    BY <1>1, <1>2 DEF OwnInv
  <2>3. \A p \in Org : HasLast(Committed(p)') /\ \A v \in Writer : HasLast(Visible(v, p)')
    BY <1>4 DEF OwnInv
  <2>4. \A q, p \in Org : auditLock'[q] \in Writer /\ auditLock'[q] = auditLock'[p] => q = p
    BY <1>1 DEF OwnInv
  <2> QED
    BY <2>1, <2>2, <2>3, <2>4 DEF OwnInv
<1>6. ChainInv'
  <2> SUFFICES ASSUME NEW p \in Org, p \notin tampered
               PROVE  /\ Chain(Committed(p)')
                      /\ \A v \in Writer :
                           /\ Chain(Visible(v, p)')
                           /\ auditStep'[v] = "read" /\ auditLock'[p] = v
                                => prev'[v] = Audit!LastHash(Visible(v, p)')
    BY <1>1 DEF ChainInv
  <2>1. Chain(Committed(p)') /\ \A v \in Writer : Chain(Visible(v, p)')
    BY <1>4 DEF ChainInv
  <2>2. ASSUME NEW v \in Writer, auditStep'[v] = "read", auditLock'[p] = v
        PROVE  prev'[v] = Audit!LastHash(Visible(v, p)')
    <3>1. v # w /\ auditLock[p] = v /\ auditStep[v] = "read" /\ prev'[v] = prev[v]
      BY <1>1, <1>2, <2>2
    <3> QED
      BY <1>4, <3>1 DEF ChainInv
  <2> QED
    BY <2>1, <2>2
<1>7. TamperInv'
  <2> SUFFICES ASSUME NEW o \in tampered PROVE Broken(Committed(o)')
    BY <1>1 DEF TamperInv
  <2>0. o \in Org /\ Broken(Committed(o))
    BY <1>2 DEF TamperInv
  <2> DEFINE more == Audit!RowsOf(own[w], o)
  <2>1. more \in SUBSET Audit!Rows /\ \A q \in Committed(o), r \in more : q.seq < r.seq
    BY <1>2 DEF OwnInv, Committed, Audit!RowsOf
  <2>2. Visible(w, o) = Committed(o) \cup more
    BY DEF Visible, Committed, Audit!RowsOf
  <2> HIDE DEF more
  <2>3. Broken(Visible(w, o))
    BY <2>0, <2>1, <2>2, VisibleRows, LaterEntriesDoNotMend
  <2> QED
    BY <1>4, <2>0, <2>3
<1> QED
  BY <1>3, <1>5, <1>6, <1>7

LEMMA TamperKeepsAuditInv ==
  ASSUME AuditInv, NEW r \in log, NEW e \in Entry, r.org \notin tampered, Audit!Tamper(r, e)
  PROVE  AuditInv'
<1> USE AuditAssumption DEF AuditInv
<1> DEFINE s == [r EXCEPT !.entry = e]
<1>1. /\ e # r.entry /\ log' = (log \ {r}) \cup {s} /\ tampered' = tampered \cup {r.org}
      /\ UNCHANGED <<nextSeq, auditLock, prev, auditStep, own>>
  BY DEF Audit!Tamper
<1>2. /\ tampered \subseteq Org
      /\ own \in [Writer -> SUBSET Audit!Rows] /\ log \subseteq Audit!Rows
  BY DEF AuditTypes, Audit!TypeOK
<1>3. s \in Audit!Rows /\ s.seq = r.seq /\ s.org = r.org /\ r.org \in Org /\ r.seq \in Int
  <2>1. r \in Audit!Rows
    BY <1>2
  <2> QED
    BY <2>1 DEF Audit!Rows
<1>4. AuditTypes'
  BY <1>1, <1>2, <1>3 DEF AuditTypes, Audit!TypeOK
<1>5. \A v \in Writer : r \notin own[v]
  BY <1>3 DEF OwnInv
<1>6. /\ Committed(r.org)' = (Committed(r.org) \ {r}) \cup {s}
      /\ \A v \in Writer : Visible(v, r.org)' = (Visible(v, r.org) \ {r}) \cup {s}
      /\ r \in Committed(r.org) /\ \A v \in Writer : r \in Visible(v, r.org)
  BY <1>1, <1>3, <1>5 DEF Committed, Visible, Audit!RowsOf
<1>7. \A o \in Org \ {r.org} : /\ Committed(o)' = Committed(o)
                              /\ \A v \in Writer : Visible(v, o)' = Visible(v, o)
  BY <1>1, <1>3, <1>5 DEF Committed, Visible, Audit!RowsOf
<1>8. /\ HasLast(Committed(r.org)') /\ Broken(Committed(r.org)')
      /\ \A v \in Writer : HasLast(Visible(v, r.org)')
  <2>1. /\ HasLast(Committed(r.org)) /\ Chain(Committed(r.org))
        /\ \A v \in Writer : HasLast(Visible(v, r.org))
    BY <1>3 DEF OwnInv, ChainInv
  <2>2. /\ Committed(r.org) \in SUBSET Audit!Rows
        /\ \A v \in Writer : Visible(v, r.org) \in SUBSET Audit!Rows
    BY <1>3, VisibleRows
  <2>3. HasLast(Committed(r.org)') /\ Broken(Committed(r.org)')
    BY <1>1, <1>6, <2>1, <2>2, EditBreaks
  <2>4. ASSUME NEW v \in Writer PROVE HasLast(Visible(v, r.org)')
    BY <1>6, <2>1, <2>2, EditBreaks
  <2> QED
    BY <2>3, <2>4
<1> HIDE DEF s
<1>9. OwnInv'
  <2>1. \A q \in log' : q.seq < nextSeq'
    BY <1>1, <1>3 DEF OwnInv
  <2>2. \A v \in Writer : \A x \in own'[v] :
          /\ x.seq < nextSeq' /\ auditLock'[x.org] = v
          /\ \A q \in log' : q.org = x.org => q.seq < x.seq
    BY <1>1, <1>3 DEF OwnInv
  <2>3. \A p \in Org : HasLast(Committed(p)') /\ \A v \in Writer : HasLast(Visible(v, p)')
    BY <1>7, <1>8 DEF OwnInv
  <2>4. \A q, p \in Org : auditLock'[q] \in Writer /\ auditLock'[q] = auditLock'[p] => q = p
    BY <1>1 DEF OwnInv
  <2> QED
    BY <2>1, <2>2, <2>3, <2>4 DEF OwnInv
<1>10. ChainInv'
  <2> SUFFICES ASSUME NEW p \in Org, p \notin tampered'
               PROVE  /\ Chain(Committed(p)')
                      /\ \A v \in Writer :
                           /\ Chain(Visible(v, p)')
                           /\ auditStep'[v] = "read" /\ auditLock'[p] = v
                                => prev'[v] = Audit!LastHash(Visible(v, p)')
    BY DEF ChainInv
  <2> QED
    BY <1>1, <1>7 DEF ChainInv
<1>11. TamperInv'
  <2> SUFFICES ASSUME NEW o \in tampered' PROVE Broken(Committed(o)')
    BY DEF TamperInv
  <2> QED
    BY <1>1, <1>2, <1>7, <1>8 DEF TamperInv
<1> QED
  BY <1>4, <1>9, <1>10, <1>11

LEMMA AuditInvStays == AuditInv /\ [Audit!Next]_(Audit!vars) => AuditInv'
<1>1. CASE AuditInv /\ UNCHANGED Audit!vars
  BY <1>1, SameEntries DEF Audit!vars, AuditInv, AuditTypes, Audit!TypeOK, OwnInv, ChainInv, TamperInv
<1> QED
  BY <1>1, TakeKeepsAuditInv, ReadKeepsAuditInv, InsertKeepsAuditInv, EndKeepsAuditInv,
     TamperKeepsAuditInv DEF Audit!Next

\* The chain verifies exactly when it was not edited.
LEMMA AuditInvSuffices == AuditInv => Audit!TypeOK /\ Audit!ChainTellsTampering
<1> SUFFICES ASSUME AuditInv, NEW o \in Org PROVE Audit!VerifyChain(o) <=> o \notin tampered
  BY DEF AuditInv, AuditTypes, Audit!ChainTellsTampering
<1>1. ASSUME o \notin tampered PROVE Audit!VerifyChain(o)
  BY <1>1 DEF AuditInv, ChainInv, Audit!VerifyChain, Chain, Linked, Before, Committed
<1>2. ASSUME o \in tampered PROVE ~Audit!VerifyChain(o)
  BY <1>2 DEF AuditInv, TamperInv, Audit!VerifyChain, Broken, Before, Committed
<1> QED
  BY <1>1, <1>2

-----------------------------------------------------------------------------
(***************************************************************************)
(* Settings.  As long as no write has fallen between a read and a write,   *)
(* what a caller is about to write is the document as it is, with its own  *)
(* change.                                                                 *)
(***************************************************************************)
Document == [Sett!Item -> 0..1]
Patches == UNION {[keys -> 0..1] : keys \in SUBSET Sett!Item}
ChangeCall == [at : {"idle", "read", "get", "write"}, own : Patches, patch : Patches,
               seen : Document, marks : BOOLEAN]

SettingsTypes ==
  /\ settings \in Document /\ asked \in Document
  /\ call \in [Caller -> ChangeCall]
  /\ changes \in 0..MaxChanges /\ settingsOverlapped \in BOOLEAN

\* The keys of a change are of one nested object.
OfOnePart(keys) ==
  keys # {} /\ \E part \in {Step, SettingsLimit, Assumption} : keys \subseteq part

\* A patch is the document with a change, on the keys that it has.
Fits(patch, own_) ==
  /\ DOMAIN own_ \subseteq DOMAIN patch
  /\ \A i \in DOMAIN patch : patch[i] = IF i \in DOMAIN own_ THEN own_[i] ELSE settings[i]

ChangesInv ==
  \A c \in Caller :
    /\ call[c].at # "idle" => OfOnePart(DOMAIN call[c].own)
    /\ call[c].at = "read" => call[c].patch = Sett!NoChange
    /\ ~settingsOverlapped =>
         /\ call[c].at = "write" => call[c].seen = settings
         /\ call[c].at \in {"get", "write"} /\ call[c].patch # Sett!NoChange
              => Fits(call[c].patch, call[c].own)

SettingsInv == SettingsTypes /\ ChangesInv /\ Sett!ChangesStand

LEMMA PatchFacts ==
  /\ \A f \in Patches : DOMAIN f \subseteq Sett!Item /\ \A i \in DOMAIN f : f[i] \in 0..1
  /\ \A keys \in SUBSET Sett!Item : \A f \in [keys -> 0..1] : f \in Patches
  /\ Sett!NoChange \in Patches
<1>1. \A keys \in SUBSET Sett!Item : \A f \in [keys -> 0..1] : f \in Patches
  BY DEF Patches
<1>2. Sett!NoChange \in [{} -> 0..1] /\ {} \in SUBSET Sett!Item
  BY DEF Sett!NoChange
<1> QED
  BY <1>1, <1>2 DEF Patches

LEMMA OverrideFacts ==
  ASSUME NEW old, NEW new, DOMAIN old \subseteq Sett!Item, DOMAIN new \subseteq Sett!Item,
         \A i \in DOMAIN old : old[i] \in 0..1, \A i \in DOMAIN new : new[i] \in 0..1
  PROVE  /\ Sett!Override(old, new) \in Patches
         /\ DOMAIN Sett!Override(old, new) = DOMAIN old \cup DOMAIN new
         /\ \A i \in DOMAIN old \cup DOMAIN new :
              Sett!Override(old, new)[i] = IF i \in DOMAIN new THEN new[i] ELSE old[i]
         /\ DOMAIN old = Sett!Item => Sett!Override(old, new) \in Document
<1>1. Sett!Override(old, new) \in [DOMAIN old \cup DOMAIN new -> 0..1]
  BY DEF Sett!Override
<1>2. DOMAIN old \cup DOMAIN new \in SUBSET Sett!Item
  OBVIOUS
<1>3. Sett!Override(old, new) \in Patches
  BY <1>1, <1>2, PatchFacts
<1>4. \A i \in DOMAIN old \cup DOMAIN new :
        Sett!Override(old, new)[i] = IF i \in DOMAIN new THEN new[i] ELSE old[i]
  BY DEF Sett!Override
<1>5. DOMAIN old = Sett!Item => DOMAIN old \cup DOMAIN new = Sett!Item
  OBVIOUS
<1> QED
  BY <1>1, <1>3, <1>4, <1>5 DEF Document

LEMMA IdleCall ==
  /\ Sett!Idle \in ChangeCall /\ Sett!Idle.at = "idle" /\ Sett!Idle.patch = Sett!NoChange
BY PatchFacts DEF Sett!Idle, ChangeCall, Document

LEMMA SettingsInvStarts == ServicesInit => SettingsInv
<1> SUFFICES ASSUME Sett!Init PROVE SettingsInv
  BY DEF ServicesInit
<1>1. SettingsTypes
  <2>1. settingsOverlapped \in BOOLEAN
    BY DEF Sett!Init
  <2>2. settings \in Document /\ asked \in Document
    BY DEF Sett!Init, Document
  <2>3. call \in [Caller -> ChangeCall] /\ changes \in 0..MaxChanges
    BY IdleCall, SettingsAssumption DEF Sett!Init
  <2> QED
    BY <2>1, <2>2, <2>3 DEF SettingsTypes
<1>2. ChangesInv /\ Sett!ChangesStand
  BY IdleCall DEF Sett!Init, ChangesInv, Sett!ChangesStand
<1> QED
  BY <1>1, <1>2 DEF SettingsInv

\* A change that is asked for.
LEMMA AskKeepsSettingsInv ==
  ASSUME SettingsInv, NEW c \in Caller, NEW at_ \in {"read", "get"}, NEW keys \in SUBSET Sett!Item,
         OfOnePart(keys), NEW own_ \in [keys -> 0..1], NEW marks \in BOOLEAN,
         Sett!Asks(c, at_, own_, marks)
  PROVE  SettingsInv'
<1> DEFINE new == [Sett!Idle EXCEPT !.at = at_, !.own = own_, !.marks = marks]
<1>1. /\ call' = [call EXCEPT ![c] = new] /\ changes' = changes + 1 /\ changes < MaxChanges
      /\ UNCHANGED <<settings, asked, settingsOverlapped>>
  BY DEF Sett!Asks
<1>2. own_ \in Patches /\ DOMAIN own_ = keys
  BY PatchFacts
<1>3. /\ new \in ChangeCall /\ new.at = at_ /\ new.own = own_ /\ new.patch = Sett!NoChange
  BY <1>2, IdleCall DEF ChangeCall
<1> HIDE DEF new
<1>4. SettingsTypes'
  BY <1>1, <1>3, SettingsAssumption DEF SettingsInv, SettingsTypes
<1>5. \A d \in Caller : call'[d] = IF d = c THEN new ELSE call[d]
  BY <1>1 DEF SettingsInv, SettingsTypes
<1>6. ChangesInv'
  BY <1>1, <1>2, <1>3, <1>5 DEF SettingsInv, ChangesInv, Fits
<1>7. Sett!ChangesStand'
  BY <1>1 DEF SettingsInv, Sett!ChangesStand
<1> QED
  BY <1>4, <1>6, <1>7 DEF SettingsInv

\* A write: if nobody else has read, the others have nothing to lose.
LEMMA WriteKeepsOthers ==
  ASSUME SettingsInv, NEW c \in Caller, NEW new, NEW own_, Sett!Writes(c, new, own_),
         NEW d \in Caller, d # c, call'[d] = call[d]
  PROVE  /\ call'[d].at # "idle" => OfOnePart(DOMAIN call'[d].own)
         /\ call'[d].at = "read" => call'[d].patch = Sett!NoChange
         /\ ~settingsOverlapped' =>
              /\ call'[d].at # "write"
              /\ call'[d].at = "get" => call'[d].patch = Sett!NoChange
BY DEF SettingsInv, ChangesInv, Sett!Writes, Sett!HasRead

LEMMA MarkStepKeepsSettingsInv ==
  ASSUME SettingsInv, NEW c \in Caller, NEW step_ \in Step, Sett!MarkStep(c, step_)
  PROVE  SettingsInv'
<1> DEFINE own_ == [i \in {step_} |-> 1]
<1>1. /\ call[c] = Sett!Idle /\ changes < MaxChanges /\ changes' = changes + 1 /\ UNCHANGED call
      /\ settings' = [settings EXCEPT ![step_] = 1]
      /\ asked' = Sett!Override(asked, own_)
      /\ Sett!Writes(c, [settings EXCEPT ![step_] = 1], own_)
  BY DEF Sett!MarkStep, Sett!Writes
<1>2. settingsOverlapped' \in BOOLEAN /\ (settingsOverlapped => settingsOverlapped')
  BY DEF SettingsInv, SettingsTypes, Sett!MarkStep, Sett!Writes
<1>3. /\ step_ \in Sett!Item /\ DOMAIN own_ = {step_} /\ own_[step_] = 1
      /\ settings \in Document /\ asked \in Document
  BY DEF Sett!Item, SettingsInv, SettingsTypes
<1>4. /\ asked' \in Document
      /\ \A i \in Sett!Item : asked'[i] = IF i = step_ THEN 1 ELSE asked[i]
  <2>1. /\ DOMAIN asked = Sett!Item /\ \A i \in DOMAIN asked : asked[i] \in 0..1
        /\ DOMAIN own_ \subseteq Sett!Item /\ \A i \in DOMAIN own_ : own_[i] \in 0..1
    BY <1>3 DEF Document
  <2> HIDE DEF own_
  <2>2. /\ Sett!Override(asked, own_) \in Document
        /\ \A i \in DOMAIN asked \cup DOMAIN own_ :
             Sett!Override(asked, own_)[i] = IF i \in DOMAIN own_ THEN own_[i] ELSE asked[i]
    BY <2>1, OverrideFacts
  <2> QED
    BY <1>1, <1>3, <2>1, <2>2
<1>5. settings' \in Document /\ (settings = asked => settings' = asked')
  BY <1>1, <1>3, <1>4 DEF Document
<1>6. SettingsTypes'
  BY <1>1, <1>2, <1>4, <1>5, SettingsAssumption DEF SettingsInv, SettingsTypes
<1>7. ChangesInv'
  BY <1>1, IdleCall, WriteKeepsOthers DEF ChangesInv
<1>8. Sett!ChangesStand'
  BY <1>2, <1>5 DEF SettingsInv, Sett!ChangesStand
<1> QED
  BY <1>6, <1>7, <1>8 DEF SettingsInv

LEMMA ReadFirstKeepsSettingsInv ==
  ASSUME SettingsInv, NEW c \in Caller, Sett!ReadFirst(c)
  PROVE  SettingsInv'
<1> DEFINE own_ == call[c].own
           first == CHOOSE i \in DOMAIN own_ : TRUE
           part == Sett!PartOf(first)
           patch == Sett!Override([i \in part |-> settings[i]], own_)
           new == [call[c] EXCEPT !.patch = patch, !.at = "get"]
<1>1. /\ call[c].at = "read" /\ call' = [call EXCEPT ![c] = new]
      /\ UNCHANGED <<settings, asked, changes, settingsOverlapped>>
  <2>1. /\ call[c].at = "read" /\ UNCHANGED <<settings, asked, changes, settingsOverlapped>>
        /\ call' = [call EXCEPT ![c].patch = patch, ![c].at = "get"]
    BY DEF Sett!ReadFirst
  <2>2. call \in [Caller -> ChangeCall]
    BY DEF SettingsInv, SettingsTypes
  <2> HIDE DEF patch
  <2> QED
    BY <2>1, <2>2 DEF ChangeCall
<1>2. /\ call[c] \in ChangeCall /\ settings \in Document /\ OfOnePart(DOMAIN own_)
      /\ DOMAIN own_ \subseteq Sett!Item /\ \A i \in DOMAIN own_ : own_[i] \in 0..1
  BY <1>1, PatchFacts DEF SettingsInv, SettingsTypes, ChangesInv, ChangeCall
<1>3. first \in DOMAIN own_
  BY <1>2 DEF OfOnePart
<1>4. PICK p \in {Step, SettingsLimit, Assumption} : DOMAIN own_ \subseteq p
  BY <1>2 DEF OfOnePart
<1>5. part = p /\ p \subseteq Sett!Item
  <2>1. \A q \in {Step, SettingsLimit, Assumption} : first \in q => q = p
    BY <1>3, <1>4, SettingsAssumption
  <2>2. part \in {Step, SettingsLimit, Assumption} /\ first \in part
    BY <1>3, <1>4 DEF Sett!PartOf
  <2>3. part = p
    BY <2>1, <2>2
  <2> QED
    BY <2>3 DEF Sett!Item
<1>6. /\ patch \in Patches /\ DOMAIN patch = p \cup DOMAIN own_
      /\ \A i \in DOMAIN patch : patch[i] = IF i \in DOMAIN own_ THEN own_[i] ELSE settings[i]
  <2> DEFINE old == [i \in part |-> settings[i]]
  <2>1. DOMAIN old = p /\ \A i \in p : old[i] = settings[i] /\ old[i] \in 0..1
    BY <1>2, <1>5 DEF Document
  <2>2. patch = Sett!Override(old, own_)
    OBVIOUS
  <2> HIDE DEF old, patch
  <2>3. /\ DOMAIN old \subseteq Sett!Item /\ \A i \in DOMAIN old : old[i] \in 0..1
    BY <1>5, <2>1
  <2>4. /\ patch \in Patches /\ DOMAIN patch = DOMAIN old \cup DOMAIN own_
        /\ \A i \in DOMAIN old \cup DOMAIN own_ :
             patch[i] = IF i \in DOMAIN own_ THEN own_[i] ELSE old[i]
    BY <1>2, <2>2, <2>3, OverrideFacts
  <2> QED
    BY <2>1, <2>4
<1> HIDE DEF patch, part, first
<1>7. new \in ChangeCall /\ new.at = "get" /\ new.own = own_ /\ new.patch = patch
  BY <1>2, <1>6 DEF ChangeCall
<1> HIDE DEF new
<1>8. \A d \in Caller : call'[d] = IF d = c THEN new ELSE call[d]
  BY <1>1 DEF SettingsInv, SettingsTypes
<1>9. SettingsTypes'
  BY <1>1, <1>7 DEF SettingsInv, SettingsTypes
<1>10. Fits(patch, own_)
  BY <1>6 DEF Fits
<1>11. ChangesInv'
  <2> SUFFICES ASSUME NEW d \in Caller
               PROVE  /\ call'[d].at # "idle" => OfOnePart(DOMAIN call'[d].own)
                      /\ call'[d].at = "read" => call'[d].patch = Sett!NoChange
                      /\ ~settingsOverlapped =>
                           /\ call'[d].at = "write" => call'[d].seen = settings
                           /\ call'[d].at \in {"get", "write"} /\ call'[d].patch # Sett!NoChange
                                => Fits(call'[d].patch, call'[d].own)
    BY <1>1 DEF ChangesInv, Fits
  <2>1. CASE d = c
    BY <1>2, <1>7, <1>8, <1>10, <2>1
  <2>2. CASE d # c
    BY <1>8, <2>2 DEF SettingsInv, ChangesInv
  <2> QED
    BY <2>1, <2>2
<1>12. Sett!ChangesStand'
  BY <1>1 DEF SettingsInv, Sett!ChangesStand
<1> QED
  BY <1>9, <1>11, <1>12 DEF SettingsInv

LEMMA GetKeepsSettingsInv ==
  ASSUME SettingsInv, NEW c \in Caller, Sett!Get(c) \/ Sett!Dies(c)
  PROVE  SettingsInv'
<1> DEFINE new == IF Sett!Get(c) THEN [call[c] EXCEPT !.seen = settings, !.at = "write"] ELSE Sett!Idle
<1>1. /\ Sett!Get(c) => call[c].at = "get"
      /\ call' = [call EXCEPT ![c] = new]
      /\ UNCHANGED <<settings, asked, changes, settingsOverlapped>>
  BY DEF Sett!Get, Sett!Dies, SettingsInv, SettingsTypes
<1>2. /\ new \in ChangeCall
      /\ Sett!Get(c) => new.at = "write" /\ new.seen = settings /\ new.own = call[c].own
                          /\ new.patch = call[c].patch
      /\ ~Sett!Get(c) => new.at = "idle"
  BY IdleCall DEF SettingsInv, SettingsTypes, ChangeCall
<1> HIDE DEF new
<1>3. \A d \in Caller : call'[d] = IF d = c THEN new ELSE call[d]
  BY <1>1 DEF SettingsInv, SettingsTypes
<1>4. SettingsTypes'
  BY <1>1, <1>2 DEF SettingsInv, SettingsTypes
<1>5. ChangesInv'
  BY <1>1, <1>2, <1>3 DEF SettingsInv, ChangesInv, Fits
<1>6. Sett!ChangesStand'
  BY <1>1 DEF SettingsInv, Sett!ChangesStand
<1> QED
  BY <1>4, <1>5, <1>6 DEF SettingsInv

LEMMA WriteKeepsSettingsInv ==
  ASSUME SettingsInv, NEW c \in Caller, Sett!Write(c)
  PROVE  SettingsInv'
<1> DEFINE own_ == call[c].own
           patch == IF call[c].patch = Sett!NoChange THEN own_ ELSE call[c].patch
           next == [Sett!Idle EXCEPT !.at = "read", !.own = [i \in {ConstraintsStep} |-> 1]]
           new == IF call[c].marks THEN next ELSE Sett!Idle
<1>1. /\ call[c].at = "write" /\ call' = [call EXCEPT ![c] = new] /\ UNCHANGED changes
      /\ settings' = Sett!Override(call[c].seen, patch) /\ asked' = Sett!Override(asked, own_)
      /\ Sett!Writes(c, Sett!Override(call[c].seen, patch), own_)
  BY DEF Sett!Write, Sett!Writes, Sett!Merged
<1>2. settingsOverlapped' \in BOOLEAN /\ (settingsOverlapped => settingsOverlapped')
  BY <1>1 DEF SettingsInv, SettingsTypes, Sett!Writes
<1>3. /\ call[c] \in ChangeCall /\ settings \in Document /\ asked \in Document
      /\ call[c].seen \in Document /\ own_ \in Patches /\ patch \in Patches
  BY DEF SettingsInv, SettingsTypes, ChangeCall
<1>4. /\ ~settingsOverlapped => call[c].seen = settings /\ settings = asked
      /\ ~settingsOverlapped => Fits(patch, own_)
  BY <1>1, <1>3 DEF SettingsInv, ChangesInv, Sett!ChangesStand, Fits
<1> HIDE DEF patch
<1>5. /\ settings' \in Document /\ asked' \in Document
      /\ \A i \in Sett!Item :
           /\ settings'[i] = IF i \in DOMAIN patch THEN patch[i] ELSE call[c].seen[i]
           /\ asked'[i] = IF i \in DOMAIN own_ THEN own_[i] ELSE asked[i]
  <2>1. /\ DOMAIN call[c].seen = Sett!Item /\ \A i \in DOMAIN call[c].seen : call[c].seen[i] \in 0..1
        /\ DOMAIN asked = Sett!Item /\ \A i \in DOMAIN asked : asked[i] \in 0..1
    BY <1>3 DEF Document
  <2>2. /\ DOMAIN patch \subseteq Sett!Item /\ \A i \in DOMAIN patch : patch[i] \in 0..1
        /\ DOMAIN own_ \subseteq Sett!Item /\ \A i \in DOMAIN own_ : own_[i] \in 0..1
    BY <1>3, PatchFacts
  <2>3. /\ settings' \in Document
        /\ \A i \in DOMAIN call[c].seen \cup DOMAIN patch :
             settings'[i] = IF i \in DOMAIN patch THEN patch[i] ELSE call[c].seen[i]
    BY <1>1, <2>1, <2>2, OverrideFacts
  <2>4. /\ asked' \in Document
        /\ \A i \in DOMAIN asked \cup DOMAIN own_ :
             asked'[i] = IF i \in DOMAIN own_ THEN own_[i] ELSE asked[i]
    BY <1>1, <2>1, <2>2, OverrideFacts
  <2> QED
    BY <2>1, <2>3, <2>4
<1>6. ~settingsOverlapped => settings' = asked'
  BY <1>3, <1>4, <1>5 DEF Fits, Document
<1>7. /\ new \in ChangeCall
      /\ new.at \in {"idle", "read"} /\ new.patch = Sett!NoChange
      /\ new.at = "read" => DOMAIN new.own = {ConstraintsStep}
  <2>1. [i \in {ConstraintsStep} |-> 1] \in Patches
    <3>1. {ConstraintsStep} \in SUBSET Sett!Item /\ [i \in {ConstraintsStep} |-> 1] \in [{ConstraintsStep} -> 0..1]
      BY SettingsAssumption DEF Sett!Item
    <3> QED
      BY <3>1, PatchFacts
  <2>2. /\ next \in ChangeCall /\ next.at = "read" /\ next.patch = Sett!NoChange
        /\ DOMAIN next.own = {ConstraintsStep}
    BY <2>1, IdleCall DEF ChangeCall
  <2> HIDE DEF next
  <2> QED
    BY <2>2, IdleCall
<1>8. new.at # "idle" => OfOnePart(DOMAIN new.own)
  BY <1>7, SettingsAssumption DEF OfOnePart
<1> HIDE DEF new
<1>9. call'[c] = new /\ \A d \in Caller \ {c} : call'[d] = call[d]
  BY <1>1 DEF SettingsInv, SettingsTypes
<1>10. SettingsTypes'
  BY <1>1, <1>2, <1>5, <1>7 DEF SettingsInv, SettingsTypes
<1>11. ChangesInv'
  <2> SUFFICES ASSUME NEW d \in Caller
               PROVE  /\ call'[d].at # "idle" => OfOnePart(DOMAIN call'[d].own)
                      /\ call'[d].at = "read" => call'[d].patch = Sett!NoChange
                      /\ ~settingsOverlapped' =>
                           /\ call'[d].at # "write"
                           /\ call'[d].at = "get" => call'[d].patch = Sett!NoChange
    BY DEF ChangesInv
  <2>1. CASE d = c
    BY <1>7, <1>8, <1>9, <2>1
  <2>2. CASE d # c
    BY <1>1, <1>9, <2>2, WriteKeepsOthers
  <2> QED
    BY <2>1, <2>2
<1>12. Sett!ChangesStand'
  BY <1>2, <1>6 DEF Sett!ChangesStand
<1> QED
  BY <1>10, <1>11, <1>12 DEF SettingsInv

LEMMA SettingsInvStays == SettingsInv /\ [Sett!Next]_(Sett!settingsVars) => SettingsInv'
<1> SUFFICES ASSUME SettingsInv, [Sett!Next]_(Sett!settingsVars) PROVE SettingsInv'
  OBVIOUS
<1>1. \A keys : OfOnePart(keys) => keys \in SUBSET Sett!Item
  BY DEF OfOnePart, Sett!Item
<1>2. ASSUME NEW c \in Caller, Sett!PatchOrg(c) PROVE SettingsInv'
  <2>1. PICK keys \in (SUBSET SettingsLimit) \ {{}}, value \in 0..1 :
          Sett!Asks(c, "get", [i \in keys |-> value], TRUE)
    BY <1>2 DEF Sett!PatchOrg
  <2>2. OfOnePart(keys) /\ [i \in keys |-> value] \in [keys -> 0..1] /\ TRUE \in BOOLEAN
    BY DEF OfOnePart
  <2> QED
    BY <1>1, <2>1, <2>2, AskKeepsSettingsInv
<1>3. ASSUME NEW c \in Caller, NEW step_ \in Step, NEW done \in 0..1, Sett!MarkOnboarding(c, step_, done)
      PROVE  SettingsInv'
  <2>1. Sett!Asks(c, "read", [i \in {step_} |-> done], FALSE)
    BY <1>3 DEF Sett!MarkOnboarding
  <2>2. OfOnePart({step_}) /\ [i \in {step_} |-> done] \in [{step_} -> 0..1] /\ FALSE \in BOOLEAN
    BY DEF OfOnePart
  <2> QED
    BY <1>1, <2>1, <2>2, AskKeepsSettingsInv
<1>4. ASSUME NEW c \in Caller, Sett!SaveRoadmapAssumptions(c) PROVE SettingsInv'
  <2>1. PICK keys \in (SUBSET Assumption) \ {{}}, value \in 0..1 :
          Sett!Asks(c, "read", [i \in keys |-> value], FALSE)
    BY <1>4 DEF Sett!SaveRoadmapAssumptions
  <2>2. OfOnePart(keys) /\ [i \in keys |-> value] \in [keys -> 0..1] /\ FALSE \in BOOLEAN
    BY DEF OfOnePart
  <2> QED
    BY <1>1, <2>1, <2>2, AskKeepsSettingsInv
<1>5. CASE UNCHANGED Sett!settingsVars
  BY <1>5 DEF Sett!settingsVars, SettingsInv, SettingsTypes, ChangesInv, Fits, Sett!ChangesStand
<1> QED
  BY <1>2, <1>3, <1>4, <1>5, MarkStepKeepsSettingsInv, ReadFirstKeepsSettingsInv, GetKeepsSettingsInv,
     WriteKeepsSettingsInv DEF Sett!Next

LEMMA SettingsInvSuffices == SettingsInv => Sett!TypeOK /\ Sett!ChangesStand
BY PatchFacts DEF SettingsInv, SettingsTypes, Sett!TypeOK, Document, ChangeCall

\* The chain of the audit log tells tampering, changes of the settings stand,
\* and the key that was replaced dies out.
THEOREM RecordsAreSafe == ServicesSpec => []RecordsStand
<1> DEFINE I == AuditInv /\ SettingsInv /\ SecretInv
<1>1. ServicesInit => I
  BY AuditInvStarts, SettingsInvStarts, SecretInvStarts
<1>2. I /\ [ServicesNext]_all => I'
  BY StepIsOfOneService, AuditInvStays, SettingsInvStays, SecretInvStays
<1>3. I => RecordsStand
  BY AuditInvSuffices, SettingsInvSuffices, SecretInvSuffices DEF RecordsStand
<1> QED
  BY <1>1, <1>2, <1>3, PTL DEF ServicesSpec

=============================================================================
