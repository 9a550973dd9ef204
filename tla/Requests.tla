------------------------------- MODULE Requests -------------------------------
(***************************************************************************)
(* A request on its way through the HTTP API (apps/api/src/server.ts,      *)
(* context.ts and the route files): rate limit, authentication, CSRF       *)
(* check, organisation and permission, handler, answer.  Meanwhile owners  *)
(* change the role of the caller.  The routes are the tables at the start; *)
(* "writes" names the rows a handler is for, audit rows aside.             *)
(***************************************************************************)
EXTENDS Naturals

-----------------------------------------------------------------------------
(* Roles and permissions *)

Read == {"org:read", "opportunity:read", "experiment:read", "revenue:read",
         "approval:read", "agent:read", "report:read", "settings:read"}
Permissions == Read \cup
  {"org:write", "members:manage", "opportunity:write", "research:run", "build:run",
   "deploy:run", "experiment:write", "revenue:write", "lead:read", "lead:write",
   "lead:export", "campaign:write", "approval:decide", "agent:run", "agent:manage",
   "audit:read", "settings:write", "secrets:write", "policy:write"}

RolePermissions ==
  [owner |-> Permissions,
   admin |-> Permissions \ {"members:manage"},
   operator |-> Read \cup {"lead:read", "opportunity:write", "research:run", "build:run",
                           "deploy:run", "experiment:write", "lead:write", "campaign:write",
                           "agent:run", "revenue:write"},
   analyst |-> Read \cup {"lead:read", "opportunity:write", "research:run", "agent:run"},
   viewer |-> Read]
Roles == DOMAIN RolePermissions
NotMember == "not_member"
Can(role, permission) == role \in Roles /\ permission \in RolePermissions[role]

-----------------------------------------------------------------------------
(* Routes *)

Nothing == "nothing"
Anyone == "anyone"     \* registered without requireOrg
Route(method, url, permission, writes) ==
  [method |-> method, url |-> url, permission |-> permission, writes |-> writes, command |-> "none"]
Gets(permission, urls) == {Route("GET", url, permission, Nothing) : url \in urls}
Posts(permission, writes, urls) == {Route("POST", url, permission, writes) : url \in urls}

CommandPermissions ==
  [research |-> "research:run", analyze |-> "research:run", build |-> "build:run",
   launch |-> "deploy:run", experiment |-> "experiment:write", growth |-> "campaign:write",
   finance |-> "revenue:read", audit |-> "audit:read", status |-> "org:read",
   report |-> "report:read", help |-> "org:read"]
StartsTasks == DOMAIN CommandPermissions \ {"status", "help"}

\* Routes that do what a command does.
Trigger(command, permission) ==
  [Route("POST", "opportunities/:id/trigger", permission, "tasks") EXCEPT !.command = command]

\* A variant in which the launch button asks for what the build button does.
TriggersOfBuild ==
  {Trigger("analyze", "research:run"), Trigger("build", "build:run"),
   Trigger("experiment", "experiment:write"), Trigger("launch", "opportunity:write"),
   Trigger("growth", "campaign:write")}

Triggers ==
  {Trigger("analyze", "research:run"), Trigger("build", "build:run"),
   Trigger("experiment", "experiment:write"), Trigger("launch", "deploy:run"),
   Trigger("growth", "campaign:write")}

\* The list of sources first inserts the default ones.
OpportunityRoutes == Triggers
  \cup Gets("opportunity:read", {"opportunities", "opportunities/:id", "opportunities/:id/graph"})
  \cup Posts("research:run", "tasks", {"opportunities/discover"})
  \cup Posts("opportunity:write", "opportunities", {"opportunities", "hypotheses/select"})
  \cup Posts("settings:write", "sources", {"sources", "sources/dataset"})
  \cup {Route("PATCH", "opportunities/:id", "opportunity:write", "opportunities"),
        Route("PATCH", "sources/:id", "settings:write", "sources"),
        Route("GET", "sources", "org:read", "sources")}

\* The export of leads answers a GET by asking for an approval.
OperationsRoutes ==
       Gets("experiment:read", {"experiments", "experiments/:id"})
  \cup Posts("experiment:write", "experiments",
             {"experiments", "experiments/:id/start", "experiments/:id/evaluate", "experiments/:id/stop"})
  \cup Posts("revenue:write", "expenses", {"experiments/:id/spend"})
  \cup Gets("opportunity:read", {"products", "products/:id", "projects", "projects/:id",
                                 "projects/:id/file", "deployments"})
  \cup Posts("opportunity:write", "products", {"products"})
  \cup Posts("deploy:run", "deployments", {"projects/:id/deploy", "deployments/:id/stop"})
  \cup Posts("deploy:run", "tasks", {"projects/:id/production"})
  \cup Gets("lead:read", {"leads", "pipeline", "campaigns", "campaigns/:id"})
  \cup Posts("lead:write", "leads", {"leads", "leads/import"})
  \cup Posts("campaign:write", "campaigns", {"campaigns", "campaigns/:id/send"})
  \cup {Route("PATCH", "leads/:id", "lead:write", "leads"),
        Route("GET", "leads/export", "lead:export", "approvals")}

FinanceRoutes ==
       Gets("revenue:read", {"revenue", "revenue/events", "revenue/cashflow", "expenses",
                             "portfolio", "roadmap", "ledger"})
  \cup Posts("revenue:write", "revenue", {"revenue/events", "revenue/stripe/sync"})
  \cup Posts("revenue:write", "expenses", {"expenses"})
  \cup Posts("revenue:read", Nothing, {"portfolio/allocate", "roadmap/preview"})
  \cup {Route("PUT", "roadmap/assumptions", "org:write", "settings")}

\* The list of agents first inserts those the organisation lacks, and renews
\* the descriptions of the others (ensureAgents).
SystemRoutes ==
       Gets("org:read", {"system/status", "alerts", "events", "events/stream"})
  \cup Gets("agent:read", {"tasks", "tasks/:id", "workflows/:id"})
  \cup Posts("agent:run", "tasks", {"tasks/:id/cancel", "tasks/:id/retry"})
  \cup {[Route("POST", "commands", "org:read", IF c \in StartsTasks THEN "tasks" ELSE Nothing)
           EXCEPT !.command = c] : c \in DOMAIN CommandPermissions}
  \cup Gets("approval:read", {"approvals", "approvals/:id"})
  \cup Posts("approval:decide", "approvals", {"approvals/:id/approve", "approvals/:id/reject"})
  \cup Gets("audit:read", {"audit", "audit/verify"})
  \cup Gets("report:read", {"reports", "reports/:id", "recommendations"})
  \cup Posts("report:read", "reports", {"reports/generate"})
  \cup Gets("opportunity:read", {"graph", "graph/nodes/:id"})
  \cup Posts("org:read", "alerts", {"alerts/:id/ack"})
  \cup Gets("settings:read", {"policies", "secrets", "ai/providers", "ai/usage", "ai/pricing",
                              "integrations", "metrics"})
  \cup {Route("GET", "agents", "agent:read", "agents"),
        Route("PATCH", "agents/:name", "agent:manage", "agents"),
        Route("PUT", "policies", "policy:write", "policies"),
        Route("PUT", "secrets", "secrets:write", "secrets"),
        Route("DELETE", "secrets/:name", "secrets:write", "secrets"),
        Route("PUT", "ai/pricing", "settings:write", "prices"),
        Route("GET", "health", Anyone, Nothing)}

AuthRoutes ==
       Gets(Anyone, {"auth/state", "auth/me"})
  \cup Posts(Anyone, "sessions", {"auth/register", "auth/login", "auth/demo", "auth/logout"})
  \cup Gets("settings:read", {"api-keys"})
  \cup Posts("settings:write", "keys", {"api-keys"})
  \cup Gets("org:read", {"members", "org"})
  \cup Posts("members:manage", "members", {"members"})
  \cup Posts("org:write", "settings", {"onboarding/step"})
  \cup Posts("settings:write", "demo", {"demo/seed"})
  \cup {Route("DELETE", "api-keys/:id", "settings:write", "keys"),
        Route("PATCH", "org", "org:write", "settings")}

\* Each has a proof of its own: a write key, a link with an HMAC, a signature.
PublicRoutes ==
  {Route("POST", "track", Anyone, "events"),
   Route("GET", "public/unsubscribe", Anyone, "leads"),
   Route("POST", "webhooks/stripe", Anyone, "revenue")}

Routes == OpportunityRoutes \cup OperationsRoutes \cup FinanceRoutes \cup SystemRoutes
            \cup AuthRoutes \cup PublicRoutes

\* PUBLIC_PREFIXES
Unauthenticated == {"track", "public/unsubscribe", "webhooks/stripe", "health"}
Unlimited == {"health", "metrics", "events/stream"}

-----------------------------------------------------------------------------
VARIABLES
  request,   \* the request under way: its route, its credential, how far it is
  role,      \* memberships.role of the caller now, or the role of its key
  answered,  \* [status, wrote] of the request, or NoAnswer
  seen       \* history: the roles the caller had since the request was checked

requestVars == <<request, role, answered, seen>>

Idle == [phase |-> "idle", route |-> Route("GET", "health", Anyone, Nothing), via |-> "none",
         echoes |-> FALSE, principal |-> FALSE]
NoAnswer == [status |-> 0, wrote |-> Nothing]
Credentials == {"none", "session", "ended_session", "api_key", "wrong_key"}

Init ==
  /\ request = Idle /\ role \in Roles \cup {NotMember}
  /\ answered = NoAnswer /\ seen = {}

\* "echoes": the header repeats the session's CSRF token.
Arrive ==
  /\ request.phase = "idle"
  /\ \E route \in Routes, via \in Credentials, echoes \in BOOLEAN :
       /\ echoes => via = "session"
       /\ request' = [phase |-> "limited", route |-> route, via |-> via, echoes |-> echoes,
                      principal |-> FALSE]
  /\ UNCHANGED <<role, answered, seen>>

To(phase) == request' = [request EXCEPT !.phase = phase] /\ UNCHANGED answered
Answer(status, wrote) ==
  /\ request' = [request EXCEPT !.phase = "answered"]
  /\ answered' = [status |-> status, wrote |-> wrote]

\* onRequest: the limit, also of those who are not logged in (RateLimit says
\* when an address has used it up).
Limit ==
  /\ request.phase = "limited"
  /\ To("unknown") \/ (request.route.url \notin Unlimited /\ Answer(429, Nothing))
  /\ UNCHANGED <<role, seen>>

\* onRequest: an unknown key is an error, an ended session is nobody.
Authenticate ==
  /\ request.phase = "unknown"
  /\ IF request.route.url \notin Unauthenticated /\ request.via = "wrong_key"
       THEN Answer(401, Nothing)
       ELSE /\ request' = [request EXCEPT !.phase = "known",
                             !.principal = /\ request.route.url \notin Unauthenticated
                                           /\ request.via \in {"session", "api_key"}]
            /\ UNCHANGED answered
  /\ UNCHANGED <<role, seen>>

\* The parser of application/json.
BadBody ==
  /\ request.phase = "known" /\ request.route.method # "GET"
  /\ Answer(400, Nothing)
  /\ UNCHANGED <<role, seen>>

\* A variant that knows of forms only.
NeedsTokenIfPosted == request.principal /\ request.via = "session" /\ request.route.method = "POST"

NeedsToken == request.principal /\ request.via = "session" /\ request.route.method # "GET"

CheckCsrf ==
  /\ request.phase = "known"
  /\ IF NeedsToken /\ ~request.echoes THEN Answer(403, Nothing) ELSE To("checked")
  /\ seen' = {role}
  /\ UNCHANGED role

\* authed: the role is read here, once, and so it counts for the command.
RequireOrg ==
  LET route == request.route
      needed == {route.permission}
                  \cup (IF route.url = "commands" THEN {CommandPermissions[route.command]} ELSE {})
  IN /\ request.phase = "checked" /\ route.permission # Anyone
     /\ \/ ~request.principal /\ Answer(401, Nothing)
        \/ request.principal /\ (\E p \in needed : ~Can(role, p)) /\ Answer(403, Nothing)
        \/ request.principal /\ (\A p \in needed : Can(role, p)) /\ To("allowed")
     /\ UNCHANGED <<role, seen>>

\* Routes that are not authed go to their handler at once; the public ones
\* may turn the request away, and so may the limits of the login.
OpenRoute ==
  /\ request.phase = "checked" /\ request.route.permission = Anyone
  /\ \/ To("allowed")
     \/ request.route.writes # Nothing /\ \E status \in {401, 429} : Answer(status, Nothing)
  /\ UNCHANGED <<role, seen>>

\* The handler: it answers, or throws an error that has a status or has not,
\* before it writes or after.
Handle ==
  /\ request.phase = "allowed"
  /\ \E status \in {200, 404, 409, 500}, wrote \in {Nothing, request.route.writes} :
       Answer(status, wrote)
  /\ UNCHANGED <<role, seen>>

Done ==
  /\ request.phase = "answered"
  /\ request' = Idle /\ answered' = NoAnswer /\ seen' = {}
  /\ UNCHANGED role

\* The owners, once while a request is on its way; a key keeps its role.
ChangeRole(r) ==
  /\ request.phase \in {"checked", "allowed"} /\ request.via # "api_key"
  /\ seen = {role} /\ r # role
  /\ role' = r /\ seen' = seen \cup {r}
  /\ UNCHANGED <<request, answered>>

Next ==
  \/ Arrive \/ Limit \/ Authenticate \/ BadBody \/ CheckCsrf \/ RequireOrg \/ OpenRoute \/ Handle \/ Done
  \/ \E r \in Roles \cup {NotMember} : ChangeRole(r)

Spec == Init /\ [][Next]_requestVars

-----------------------------------------------------------------------------
TypeOK ==
  /\ request.via \in Credentials
  /\ request.phase \in {"idle", "limited", "unknown", "known", "checked", "allowed", "answered"}
  /\ role \in Roles \cup {NotMember}
  /\ seen \subseteq Roles \cup {NotMember}

Wrote == request.phase = "answered" /\ answered.wrote # Nothing

\* "cookie-authenticated, state-changing requests must echo the session's
\* CSRF token", all but the three that change rows in answer to a GET.
WritesEchoTheToken ==
  Wrote /\ request.principal /\ request.via = "session" /\ ~request.echoes =>
    request.route.url \in {"sources", "leads/export", "agents"} /\ request.route.method = "GET"

\* A command needs its permission, typed or by one of the buttons that stand
\* for it: agents are set to work by callers who held it while they asked.
CommandsNeedTheirPermission ==
  Wrote /\ request.route.command # "none" =>
    \E r \in seen : Can(r, CommandPermissions[request.route.command])

\* Those who never had more than "viewer" change nothing but reports, the
\* marks on alerts, the default sources, the rows of agents as the code
\* defines them and the tasks of /finance and /report; strangers nothing but
\* what the open routes are for.
ViewersReadOnly ==
  Wrote /\ request.route.permission # Anyone =>
    /\ request.principal
    /\ seen \subseteq {"viewer", NotMember} =>
         \/ answered.wrote \in {"reports", "alerts"}
         \/ answered.wrote \in {"sources", "agents"} /\ request.route.method = "GET"
         \/ answered.wrote = "tasks" /\ request.route.command \in {"finance", "report"}
=============================================================================
