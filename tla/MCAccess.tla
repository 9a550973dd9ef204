------------------------------ MODULE MCAccess ------------------------------
(***************************************************************************)
(* The guards: what the policy allows, who may ask for it, what is kept    *)
(* from whom and written down about it, when a process may serve at all    *)
(* and generated code may run, each on a small instance.  They are checked *)
(* side by side: a behaviour is that of one service, chosen at the start,  *)
(* and a property of another says nothing of it.                           *)
(***************************************************************************)
EXTENDS Policies, FiniteSets, TLC

CONSTANTS
  spend, trade,
  User, Session, Key, Request, Grantable,
  Attempt, LockAfter, MaxBad,
  Origin, AllowPrivate, MaxRedirects, MaxBytes,
  Writer, Org, Entry, MaxSeq,
  Step, SettingsLimit, Assumption, ConstraintsStep, Caller, MaxChanges,
  SecretProcess, Call, SecretAge, RouterAge, MaxCallAge, MaxSets, MaxKeys,
    SecretNoOne,
  StartProcess, StartApi, Worker, Migrations, Stages, MaxStarts, StartNoOne,
  Project, Deployment, DeployProcess, DeployApi, Ports, MaxRestarts,
    TimeoutMs, MaxAge

VARIABLES
  service,   \* the service that this behaviour is about
  users, accountRole, sessionOf, keyOf, revoked, accountRequest, registrants,
    overlap, top, grantor, early,
  failed, locked, saw, bad, since, loginOverlapped,
  requestRequest, requestRole, answered, seen,
  url, method, body, credentials, hop, fetchStep, size, sent, outcome,
  log, nextSeq, auditLock, prev, auditStep, own, tampered,
  settings, asked, call, changes, settingsOverlapped,
  secret, gone, newest, key, copy, router, asking, rotating, rotated, sets,
  strict, tabled, launched, schema, startLock, proc, demo, seeds, starts, died,
  containers, status, scanned, executed, row, of, deployPhase, port, child, knows, caller,
    stopping, restarts,
  driver, waiter, timer, waited, tester, suite, age, scratch, result, missed

\* An action like spend.commit (approval by default, AUTONOMOUS at most) and
\* one like financial.trade (SIMULATE).
MCDefault == [x \in Action |-> IF x = spend THEN "REQUIRE_APPROVAL" ELSE "SIMULATE"]
MCCeiling == [x \in Action |-> IF x = spend THEN "AUTONOMOUS" ELSE "SIMULATE"]

Acc == INSTANCE Access WITH
          role <- accountRole, request <- accountRequest,
          overlapped <- loginOverlapped
Req == INSTANCE Requests WITH
          request <- requestRequest, role <- requestRole
Fetch == INSTANCE SafeFetch WITH
          step <- fetchStep
Audit == INSTANCE AuditLog WITH
          lock <- auditLock, step <- auditStep
Sett == INSTANCE Settings WITH
          Limit <- SettingsLimit, overlapped <- settingsOverlapped
Secr == INSTANCE Secrets WITH
          Process <- SecretProcess, NoOne <- SecretNoOne
Start == INSTANCE Startup WITH
          Process <- StartProcess, Api <- StartApi, NoOne <- StartNoOne,
          lock <- startLock
Depl == INSTANCE Deployments WITH
          Process <- DeployProcess, Api <- DeployApi, phase <- deployPhase

ASSUME FetchAssumption ==
  /\ AllowPrivate \in BOOLEAN
  /\ MaxRedirects \in Nat /\ MaxBytes \in Nat

ASSUME AccountsAssumption ==
  /\ Acc!NoUser \notin User \cup Session \cup Key
  /\ Session \cap Key = {}
  /\ Grantable \subseteq Acc!Roles

ASSUME LockoutAssumption == MaxBad \in Nat /\ LockAfter \in Nat

ASSUME StartupAssumption ==
  /\ Migrations \in Nat /\ Stages \in Nat /\ MaxStarts \in Nat
  /\ IsFiniteSet(StartProcess) /\ StartNoOne \notin StartProcess

ASSUME DeploymentsAssumption ==
  /\ Depl!NoProcess \notin DeployProcess
  /\ MaxRestarts \in Nat /\ TimeoutMs \in Nat /\ MaxAge \in Nat

ASSUME AuditAssumption == Audit!NoWriter \notin Writer /\ MaxSeq \in Nat

\* An item belongs to one of the nested objects.
ASSUME SettingsAssumption ==
  /\ Step \cap SettingsLimit = {} /\ Step \cap Assumption = {}
  /\ SettingsLimit \cap Assumption = {}
  /\ ConstraintsStep \in Step /\ MaxChanges \in Nat

ASSUME SecretsAssumption ==
  /\ SecretAge \in Nat \ {0} /\ RouterAge \in Nat /\ SecretAge <= RouterAge
  /\ MaxCallAge \in Nat /\ MaxSets \in Nat /\ MaxKeys \in Nat \ {0}

Services == {"policies", "accounts", "lockout", "requests", "fetch", "audit",
              "settings", "secrets", "startup", "deployments", "sandbox"}

accountsState == <<users, accountRole, sessionOf, keyOf, revoked,
                   accountRequest, registrants, overlap, top, grantor, early>>
lockoutState == <<failed, locked, saw, bad, since, loginOverlapped>>
requestsState == <<requestRequest, requestRole, answered, seen>>
fetchState == <<url, method, body, credentials, hop, fetchStep, size, sent,
                outcome>>
auditState == <<log, nextSeq, auditLock, prev, auditStep, own, tampered>>
settingsState == <<settings, asked, call, changes, settingsOverlapped>>
secretsState == <<secret, gone, newest, key, copy, router, asking, rotating,
                  rotated, sets>>
startupState == <<strict, tabled, launched, schema, startLock, proc, demo, seeds,
                  starts, died>>
deploymentsState == <<containers, status, scanned, executed, row, of, deployPhase, port,
                      child, knows, caller, stopping, restarts>>
sandboxState == <<driver, waiter, timer, waited, tester, suite, age, scratch,
                  result, missed>>

all ==
  <<service, vars,
    accountsState, lockoutState, requestsState, fetchState, auditState,
    settingsState, secretsState, startupState, deploymentsState, sandboxState>>

\* What the services other than one keep does not change.
Rest(me) ==
  /\ UNCHANGED service
  /\ IF me = "policies" THEN TRUE ELSE UNCHANGED vars
  /\ IF me = "accounts" THEN TRUE ELSE UNCHANGED accountsState
  /\ IF me = "lockout" THEN TRUE ELSE UNCHANGED lockoutState
  /\ IF me = "requests" THEN TRUE ELSE UNCHANGED requestsState
  /\ IF me = "fetch" THEN TRUE ELSE UNCHANGED fetchState
  /\ IF me = "audit" THEN TRUE ELSE UNCHANGED auditState
  /\ IF me = "settings" THEN TRUE ELSE UNCHANGED settingsState
  /\ IF me = "secrets" THEN TRUE ELSE UNCHANGED secretsState
  /\ IF me = "startup" THEN TRUE ELSE UNCHANGED startupState
  /\ IF me = "deployments" THEN TRUE ELSE UNCHANGED deploymentsState
  /\ IF me = "sandbox" THEN TRUE ELSE UNCHANGED sandboxState

FirstUrl == [origin |-> CHOOSE o \in Origin : TRUE, kind |-> "fine"]

ServicesInit ==
  /\ service \in Services
  /\ Init
  /\ Acc!Init
  /\ Acc!LoginInit
  /\ Req!Init
  /\ service = "requests" \/ requestRole = "viewer"
  /\ Fetch!Init
  /\ service = "fetch" \/ (url = FirstUrl /\ method = "GET" /\ ~credentials)
  /\ Audit!Init
  /\ Sett!Init
  /\ Secr!Init
  /\ Start!Init
  /\ service = "startup" \/ ~(strict \/ launched)
  /\ Depl!Init
  /\ service = "deployments" \/ ~containers
  /\ Depl!TestsInit
  /\ service = "sandbox" \/ driver = "docker"

ServicesNext ==
  \/ service = "policies" /\ Next /\ Rest("policies")
  \/ service = "accounts" /\ Acc!Next /\ Rest("accounts")
  \/ service = "lockout" /\ Acc!LoginNext /\ Rest("lockout")
  \/ service = "requests" /\ Req!Next /\ Rest("requests")
  \/ service = "fetch" /\ Fetch!Next /\ Rest("fetch")
  \/ service = "audit" /\ Audit!Next /\ Rest("audit")
  \/ service = "settings" /\ Sett!Next /\ Rest("settings")
  \/ service = "secrets" /\ Secr!Next /\ Rest("secrets")
  \/ service = "startup" /\ Start!Next /\ Rest("startup")
  \/ service = "deployments" /\ Depl!Next /\ Rest("deployments")
  \/ service = "sandbox" /\ Depl!TestsNext /\ Rest("sandbox")

ServicesSpec == ServicesInit /\ [][ServicesNext]_all

-----------------------------------------------------------------------------
(* However requests overlap: a role is granted by somebody who has had one *)
(* as high, a session or a key that was revoked serves no request that     *)
(* authenticates later, a closed system has one founder, and an account is *)
(* locked only by as many failures as it says.  The rows of policies keep  *)
(* their types.                                                            *)
AccountsAreKept ==
  /\ service = "policies" => TypeOK
  /\ service = "accounts" => Acc!TypeOK /\ Acc!RolesDoNotClimb /\ Acc!RevokedIsOut /\ Acc!OneFounder
  /\ service = "lockout" => Acc!LoginTypeOK /\ Acc!LockFollowsFailures

(* A wrong password that makes it LockAfter in a row locks the account,    *)
(* also when a lock has ended before, as long as no two attempts on it     *)
(* have overlapped.                                                        *)
EnoughFailuresLock == Acc!EnoughFailuresLock

(* A request that changes anything and comes with a cookie echoes the      *)
(* token of its session, but for the three that change rows in answer to a *)
(* GET; a command runs for somebody who may give it, whichever of the      *)
(* routes leads to it; and those who are no more than viewers change only  *)
(* what viewers may.                                                       *)
RequestsAreAuthorised ==
  service = "requests" =>
    Req!TypeOK /\ Req!WritesEchoTheToken /\ Req!CommandsNeedTheirPermission /\ Req!ViewersReadOnly

(* Through every redirect, credentials reach only the origin that they are *)
(* for, no address is asked that the policy excludes, and a body is not    *)
(* sent again once a server has asked for a GET.                           *)
FetchesKeepToPolicy ==
  service = "fetch" =>
    Fetch!TypeOK /\ Fetch!CredentialsStayHome /\ Fetch!StaysInPolicy /\ Fetch!BodyGoesOnce

(* What is written stands: an edit of the audit log shows, and nothing     *)
(* else breaks its chain; a change of the settings does not undo another,  *)
(* unless the two overlap; a secret opens with the newest key, and the one *)
(* it replaced is used no longer than the caches last.                     *)
RecordsStand ==
  /\ service = "audit" => Audit!TypeOK /\ Audit!ChainTellsTampering
  /\ service = "settings" => Sett!TypeOK /\ Sett!ChangesStand
  /\ service = "secrets" => Secr!TypeOK /\ Secr!ReplacedKeyDiesOut /\ Secr!NewestOpensAll

(* A process serves on a schema that has every table it knows, however     *)
(* many start at once no two apply one migration, and a demo workspace     *)
(* that lacks parts is being built, unless a process has died.             *)
StartsAreOrderly ==
  service = "startup" =>
    Start!TypeOK /\ Start!ServesOnItsSchema /\ Start!MigrationsDoNotCollide /\ Start!DemoIsWhole

(* Generated code is kept in hand: it runs only after its scan; without    *)
(* docker the previews that are shown as running are children that live,   *)
(* with either driver no two have one port; and tests that were given up   *)
(* are stopped, unless their worker died or the kill came too soon.        *)
GeneratedCodeIsKept ==
  /\ service = "deployments" => Depl!TypeOK /\ Depl!ExecutedWasScanned /\ Depl!ShownRunningLives
  /\ service = "sandbox" => Depl!TestsTypeOK /\ Depl!CodeIsStopped
=============================================================================
