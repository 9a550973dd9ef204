------------------------------- MODULE Access -------------------------------
(***************************************************************************)
(* Who may do what in a workspace (packages/core/src/auth.ts,              *)
(* packages/security/src/rbac.ts, apps/api/src/context.ts): registration,  *)
(* sessions, API keys and roles.  A request is authenticated, authorised,  *)
(* checks what it is about to write and writes it, in separate statements; *)
(* in between, others are granted roles and credentials are revoked.       *)
(* One workspace, registration closed (ALLOW_REGISTRATION=false).          *)
(*                                                                         *)
(* The second part is the lockout after wrong passwords: logins of one     *)
(* account that overlap, with variables and a specification of their own.  *)
(***************************************************************************)
EXTENDS Integers

CONSTANTS
  User, Session, Key,   \* ids, each session and key is made once
  Request,              \* requests being served
  Grantable             \* bound of the model: the roles that requests ask for

Roles == {"viewer", "analyst", "operator", "admin", "owner"}
NoRole == "none"
Rank == [r \in Roles |-> CASE r = "viewer" -> 0 [] r = "analyst" -> 1 [] r = "operator" -> 2
                           [] r = "admin" -> 3 [] r = "owner" -> 4]

\* Of the 27 permissions, the two that the writing calls below need; requests
\* that only read are left out.
Permission == {"settings:write", "members:manage"}
RolePermissions ==
  [r \in Roles |-> CASE r = "owner" -> Permission
                     [] r = "admin" -> Permission \ {"members:manage"}
                     [] OTHER -> {}]
Can(role, permission) == role # NoRole /\ permission \in RolePermissions[role]
AtLeast(role, min) == Rank[role] >= Rank[min]
CanGrant(actor, target) == Can(actor, "members:manage") /\ AtLeast(actor, target)

VARIABLES
  users,       \* registered or invited
  role,        \* [User -> role]: memberships
  sessionOf,   \* [Session -> User], or NoUser before it is made
  keyOf,       \* [Key -> [owner, role]]
  revoked,     \* sessions and keys with revoked_at
  request,     \* [Request -> what it has established so far]
  registrants, \* history: users that registered themselves
  overlap,     \* history: two registrations went on at once
  top,         \* [User -> -1..4]: history, the highest rank the user had
  grantor,     \* [User -> User]: history, who wrote the membership
  early        \* history: requests authenticated before their credential was revoked

data == <<users, role, sessionOf, keyOf, revoked>>
history == <<registrants, overlap, top, grantor, early>>
vars == <<data, request, history>>

NoUser == "nobody"
None == [owner |-> NoUser, role |-> NoRole]
Idle == [phase |-> "idle", user |-> NoUser, by |-> NoUser, permission |-> "settings:write",
         target |-> NoUser, role |-> NoRole]
Phases == {"idle", "registering", "authenticated", "authorised", "granting", "minting"}

TypeOK ==
  /\ users \subseteq User
  /\ role \in [User -> Roles \cup {NoRole}]
  /\ sessionOf \in [Session -> User \cup {NoUser}]
  /\ keyOf \in [Key -> [owner : User \cup {NoUser}, role : Roles \cup {NoRole}]]
  /\ revoked \subseteq Session \cup Key
  /\ request \in [Request -> [phase : Phases, user : User \cup {NoUser},
                              by : Session \cup Key \cup {NoUser}, permission : Permission,
                              target : User \cup {NoUser}, role : Roles \cup {NoRole}]]
  /\ registrants \subseteq users /\ overlap \in BOOLEAN /\ early \subseteq Request
  /\ top \in [User -> -1..4] /\ grantor \in [User -> User \cup {NoUser}]

Init ==
  /\ users = {} /\ role = [u \in User |-> NoRole]
  /\ sessionOf = [s \in Session |-> NoUser] /\ keyOf = [k \in Key |-> None]
  /\ revoked = {}
  /\ request = [r \in Request |-> Idle]
  /\ registrants = {} /\ overlap = FALSE /\ early = {}
  /\ top = [u \in User |-> -1] /\ grantor = [u \in User |-> NoUser]

Higher(a, b) == IF a > b THEN a ELSE b
Set(r, f) == request' = [request EXCEPT ![r] = f]
End(r) == Set(r, Idle) /\ early' = early \ {r}

\* Mutant: the count is not looked at.
StartRegisterAlways(r, u) ==
  /\ request[r].phase = "idle"
  /\ Set(r, [Idle EXCEPT !.phase = "registering", !.user = u])
  /\ overlap' = (overlap \/ \E q \in Request : request[q].phase = "registering")
  /\ UNCHANGED <<data, registrants, top, grantor, early>>

\* register: the count of users is read before the transaction; the e-mail is
\* unique.  The workspace stands for the demo one, whose owner every
\* registered user becomes unless a member already.
StartRegister(r, u) ==
  /\ request[r].phase = "idle" /\ users = {}
  /\ Set(r, [Idle EXCEPT !.phase = "registering", !.user = u])
  /\ overlap' = (overlap \/ \E q \in Request : request[q].phase = "registering")
  /\ UNCHANGED <<data, registrants, top, grantor, early>>

Register(r) ==
  LET u == request[r].user
  IN /\ request[r].phase = "registering"
     /\ \/ /\ u \notin users
           /\ users' = users \cup {u} /\ registrants' = registrants \cup {u}
           /\ role' = [role EXCEPT ![u] = IF @ = NoRole THEN "owner" ELSE @]
           /\ top' = [top EXCEPT ![u] = Higher(@, Rank[role'[u]])]
        \/ u \in users /\ UNCHANGED <<users, registrants, role, top>>
     /\ End(r)
     /\ UNCHANGED <<sessionOf, keyOf, revoked, overlap, grantor>>

\* login with the right password (the wrong ones are below), and logout.
Login(s, u) ==
  /\ u \in users /\ sessionOf[s] = NoUser
  /\ sessionOf' = [sessionOf EXCEPT ![s] = u]
  /\ UNCHANGED <<users, role, keyOf, revoked, request, history>>

Revoke(c) ==
  /\ revoked' = revoked \cup {c}
  /\ early' = early \cup {r \in Request : request[r].by = c}
  /\ UNCHANGED <<users, role, sessionOf, keyOf, registrants, overlap, top, grantor>>

Logout(s) == sessionOf[s] # NoUser /\ Revoke(s) /\ UNCHANGED request

Owner(c) == IF c \in Session THEN sessionOf[c] ELSE keyOf[c].owner

\* Mutant: revoked_at is not looked at.
ValidOnceMade(c) == Owner(c) # NoUser

\* validateSession and validateApiKey: one SELECT each.
Valid(c) == Owner(c) # NoUser /\ c \notin revoked

Authenticate(r, c) ==
  /\ request[r].phase = "idle" /\ Valid(c)
  /\ Set(r, [Idle EXCEPT !.phase = "authenticated", !.user = Owner(c), !.by = c])
  /\ UNCHANGED <<data, history>>

\* requireOrg: a key has the role it was made with, whatever its owner is now.
ResolveRole(r) == IF request[r].by \in Key THEN keyOf[request[r].by].role ELSE role[request[r].user]

Authorise(r, p) ==
  /\ request[r].phase = "authenticated"
  /\ \/ Can(ResolveRole(r), p) /\ Set(r, [request[r] EXCEPT !.phase = "authorised", !.permission = p])
                               /\ UNCHANGED early
     \/ ~Can(ResolveRole(r), p) /\ End(r)
  /\ UNCHANGED <<data, registrants, overlap, top, grantor>>

\* addMember checks the role of the acting user (of a key: of its owner) ...
CheckGrant(r, u, new) ==
  /\ request[r].phase = "authorised" /\ request[r].permission = "members:manage"
  /\ CanGrant(role[request[r].user], new)
  /\ Set(r, [request[r] EXCEPT !.phase = "granting", !.target = u, !.role = new])
  /\ UNCHANGED <<data, history>>

\* ... and writes: a member that exists takes the new role.
Grant(r) ==
  LET u == request[r].target
  IN /\ request[r].phase = "granting"
     /\ users' = users \cup {u}
     /\ role' = [role EXCEPT ![u] = request[r].role]
     /\ top' = [top EXCEPT ![u] = Higher(@, Rank[request[r].role])]
     /\ grantor' = [grantor EXCEPT ![u] = request[r].user]
     /\ End(r)
     /\ UNCHANGED <<sessionOf, keyOf, revoked, registrants, overlap>>

\* Mutant: an API key may have any role.
MayMintAny(u, new) == Can(role[u], "settings:write")

\* createApiKey: as a membership is granted.
MayMint(u, new) == Can(role[u], "settings:write") /\ AtLeast(role[u], new)

CheckMint(r, new) ==
  /\ request[r].phase = "authorised" /\ request[r].permission = "settings:write"
  /\ MayMint(request[r].user, new)
  /\ Set(r, [request[r] EXCEPT !.phase = "minting", !.role = new])
  /\ UNCHANGED <<data, history>>

Mint(r, k) ==
  /\ request[r].phase = "minting" /\ keyOf[k] = None
  /\ keyOf' = [keyOf EXCEPT ![k] = [owner |-> request[r].user, role |-> request[r].role]]
  /\ End(r)
  /\ UNCHANGED <<users, role, sessionOf, revoked, registrants, overlap, top, grantor>>

RevokeKey(r, k) ==
  /\ request[r].phase = "authorised" /\ request[r].permission = "settings:write"
  /\ keyOf[k] # None
  /\ revoked' = revoked \cup {k}
  /\ early' = (early \cup {q \in Request : request[q].by = k}) \ {r}
  /\ Set(r, Idle)
  /\ UNCHANGED <<users, role, sessionOf, keyOf, registrants, overlap, top, grantor>>

Fail(r) ==
  /\ request[r].phase # "idle" /\ End(r)
  /\ UNCHANGED <<data, registrants, overlap, top, grantor>>

Next ==
  \/ \E s \in Session : Logout(s) \/ \E u \in User : Login(s, u)
  \/ \E r \in Request :
       \/ \E u \in User : StartRegister(r, u) \/ \E new \in Grantable : CheckGrant(r, u, new)
       \/ Register(r) \/ Grant(r) \/ Fail(r)
       \/ \E c \in Session \cup Key : Authenticate(r, c)
       \/ \E p \in Permission : Authorise(r, p)
       \/ \E new \in Grantable : CheckMint(r, new)
       \/ \E k \in Key : Mint(r, k) \/ RevokeKey(r, k)

Spec == Init /\ [][Next]_vars

\* Roles do not climb: a membership that was granted was granted by someone
\* who has been an owner, and no API key has a role above all that the user
\* who made it ever had, however grants, demotions and requests overlap.
RolesDoNotClimb ==
  /\ \A u \in User : grantor[u] # NoUser => top[grantor[u]] = Rank["owner"]
  /\ \A k \in Key : keyOf[k] # None => Rank[keyOf[k].role] <= top[keyOf[k].owner]

\* A revoked session or key serves no request but one that had passed the
\* authentication before ("logout", DELETE /api/api-keys/:id).
RevokedIsOut ==
  \A r \in Request : request[r].by \in revoked => r \in early

\* With registration closed nobody registers after the first user, unless two
\* visitors of an empty system did so at once.
OneFounder == ~overlap => \A u, v \in registrants : u = v

-----------------------------------------------------------------------------
(***************************************************************************)
(* AuthService.login (packages/core/src/auth.ts): the failures of one      *)
(* account are counted by reading the row, verifying the password and      *)
(* writing the count that was read plus one.                               *)
(***************************************************************************)
CONSTANTS
  Attempt,     \* concurrent calls of login for the account
  LockAfter,   \* LOCK_AFTER_FAILURES
  MaxBad       \* bound of the model: wrong passwords

VARIABLES
  failed, locked,   \* failed_logins, and locked_until in the future
  saw,              \* [Attempt -> Int]: failed_logins as read, -1 when not at work
  bad,              \* history: wrong passwords in all
  since,            \* history: wrong passwords since the count was last reset
  overlapped        \* history: two attempts went on at once since then

loginVars == <<failed, locked, saw, bad, since, overlapped>>

LoginTypeOK ==
  /\ failed \in 0..MaxBad /\ locked \in BOOLEAN
  /\ saw \in [Attempt -> -1..MaxBad]
  /\ bad \in 0..MaxBad /\ since \in 0..MaxBad /\ overlapped \in BOOLEAN

LoginInit ==
  /\ failed = 0 /\ locked = FALSE
  /\ saw = [a \in Attempt |-> -1]
  /\ bad = 0 /\ since = 0 /\ overlapped = FALSE

AtWork == {a \in Attempt : saw[a] # -1}

\* A locked account is refused at once.
Read(a) ==
  /\ saw[a] = -1 /\ ~locked
  /\ saw' = [saw EXCEPT ![a] = failed]
  /\ overlapped' = (overlapped \/ AtWork # {})
  /\ UNCHANGED <<failed, locked, bad, since>>

\* Mutant: the account is locked one failure too early.
LocksEarly(failures) == failures >= LockAfter - 1

Locks(failures) == failures >= LockAfter

\* Mutant: only an account that is not locked is counted on, by the row as it
\* is now, and the count that was read is kept when it is zero.
WrongPasswordFirst(a) ==
  /\ saw[a] # -1 /\ bad < MaxBad
  /\ failed' = IF saw[a] = 0 THEN 0 ELSE saw[a] + 1
  /\ locked' = (locked \/ Locks(saw[a] + 1))
  /\ bad' = bad + 1 /\ since' = since + 1
  /\ saw' = [saw EXCEPT ![a] = -1]
  /\ UNCHANGED overlapped

WrongPassword(a) ==
  /\ saw[a] # -1 /\ bad < MaxBad
  /\ failed' = saw[a] + 1
  /\ locked' = (locked \/ Locks(saw[a] + 1))
  /\ bad' = bad + 1 /\ since' = since + 1
  /\ saw' = [saw EXCEPT ![a] = -1]
  /\ UNCHANGED overlapped

RightPassword(a) ==
  /\ saw[a] # -1
  /\ failed' = 0 /\ locked' = FALSE
  /\ saw' = [saw EXCEPT ![a] = -1]
  /\ since' = 0 /\ overlapped' = (AtWork # {a})
  /\ UNCHANGED bad

\* LOCK_MINUTES go by; the count stays.
LockEnds ==
  /\ locked /\ locked' = FALSE
  /\ UNCHANGED <<failed, saw, bad, since, overlapped>>

LoginNext ==
  \/ \E a \in Attempt : Read(a) \/ WrongPassword(a) \/ RightPassword(a)
  \/ LockEnds

LoginSpec == LoginInit /\ [][LoginNext]_loginVars

\* An account is locked only after LockAfter wrong passwords, however many
\* attempts overlap; and of attempts that do not overlap none is lost: the
\* count is exact, so that the lock comes with the LockAfter-th in a row.
LockFollowsFailures ==
  /\ locked => bad >= LockAfter
  /\ ~overlapped => failed = since

\* A wrong password that makes it LockAfter in a row locks the account, also
\* when a lock has ended before and only one more follows.
EnoughFailuresLock ==
  [][bad' > bad /\ ~overlapped /\ since' >= LockAfter => locked']_loginVars
=============================================================================
