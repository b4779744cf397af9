-------------------------------- MODULE Gateway --------------------------------
(***************************************************************************)
(* ragx/api/app.py and its middlewares around the routes: a request passes *)
(* Audit, the IP ring, Auth, Quota, RateLimit and Trace, in this order,    *)
(* reaches its route, and returns through Quota and Audit.  Every          *)
(* middleware is a task of its own, so requests interleave between them.   *)
(* What a route does to documents and queries is left to the modules that  *)
(* model it; here a route answers, is refused or raises.                   *)
(***************************************************************************)
EXTENDS RateLimiter, TenantQuota, McpSessions, PluginRegistry, HttpErrors

CONSTANTS
    Request,
    Identity,      \* key or JWT -> its tenant and access list, and whether it is enabled
    StaticKeys,    \* keys of Settings.security.api_keys
    KeyRows,       \* keys of the api_keys table
    Claims,        \* JWT -> its expiry
    Malformed,     \* JWTs whose header is no object or whose expiry is no number
    Anonymous, DefaultTenant,
    Scenarios,     \* settings, requests, stdio lines and events that come together
    MaxEntries,    \* of InMemoryAuditStore
    MaxStarts

VARIABLES
    req,        \* the way of each request
    audit,      \* rows, the newest last
    app,        \* whether the process is created, serving or stopped
    given       \* the scenario
ask == given.ask          \* request -> what is asked, of the requests that come
wiring == given.wiring
Happens(event) == event \in given.world

gatewayVars == <<req, audit, app>>
vars == <<limiterVars, quotaVars, mcpVars, instances, gatewayVars, given>>

(* Settings: Redis for the buckets, a metadata database for usage and audit *)
(* rows, the IP ring, whether keys or JWT are configured.                  *)
Wiring == [redis : BOOLEAN, metadata : BOOLEAN, ip : BOOLEAN, auth : BOOLEAN, jwt : BOOLEAN]

(* A request: its peer, credential, route, knowledge base or tenant asked  *)
(* for, declared size, what the answer uses, and a message with a session. *)
(* mcp_sse draws a new id for every session, so no two requests open one.  *)
ASSUME GatewayConstants ==
    /\ IsFiniteSet(Request)
    /\ \A c \in DOMAIN Identity : Identity[c].tenant \in Tenant
    /\ DefaultTenant \in Tenant
    /\ MaxEntries \in Nat \ {0} /\ MaxStarts \in Nat
    /\ \A x \in Scenarios :
        /\ x.wiring \in Wiring /\ (x.wiring.jwt => x.wiring.auth)
        /\ DOMAIN x.ask \subseteq Request
        /\ \A r \in DOMAIN x.ask :
            /\ x.ask[r].cred \in DOMAIN Identity
            /\ x.ask[r].size \in Nat /\ x.ask[r].session \in Session
        /\ \A r, q \in DOMAIN x.ask :
            /\ x.ask[r].route = "sse" /\ x.ask[q].route = "sse"
            /\ x.ask[r].session = x.ask[q].session
            => r = q

Nobody == [key |-> Anonymous, tenant |-> DefaultTenant, acl |-> Unrestricted, known |-> FALSE]
NewRequest == [phase |-> "new", who |-> Nobody, period |-> 0, status |-> 0,
               traced |-> FALSE, body |-> TRUE, rows |-> {}]

Init ==
    /\ given \in Scenarios /\ McpInit(given.lines)
    /\ LimiterInit /\ QuotaInit
    /\ instances = <<>>
    /\ req = [r \in Request |-> NewRequest]
    /\ audit = <<>>
    /\ app = [phase |-> "created", starts |-> 0]

Serving == app.phase = "serving"
At(r, phase) == Serving /\ req[r].phase = phase

MoveOn(r, record) == req' = [req EXCEPT ![r] = record]
Pass(r, phase) == MoveOn(r, [req[r] EXCEPT !.phase = phase])

(* A middleware or a route answers; raising, it passes by Audit.  Both are *)
(* followed by UNCHANGED of what the step did not touch.                   *)
Reply(r, phase, code) == MoveOn(r, [req[r] EXCEPT !.phase = phase, !.status = HttpStatus(code)])
Raise(r) == MoveOn(r, [req[r] EXCEPT !.phase = "raised", !.status = ErrorResponse(Unhandled).status])

FirstPhase == IF wiring.ip THEN "ip" ELSE "auth"

Arrive(r) ==
    /\ r \in DOMAIN ask
    /\ At(r, "new") /\ Pass(r, FirstPhase)
    /\ UNCHANGED <<limiterVars, quotaVars, mcpVars, instances, audit, app, given>>

(* IpRateLimitMiddleware *)
IpLimit(r) ==
    /\ At(r, "ip")
    /\ \E ok \in BOOLEAN :
        /\ Acquire(wiring.redis, <<"ip", ask[r].peer>>, ok)
        /\ IF ok THEN Pass(r, "auth") ELSE Reply(r, "audit", 1004)
    /\ UNCHANGED <<quotaVars, mcpVars, instances, audit, app, given>>

(* verify_jwt and _resolve_api_key: the identity behind a credential, in   *)
(* this order.  A disabled key and an unknown one are both 1002.           *)
Resolved(cred) ==
    IF wiring.jwt /\ cred \in DOMAIN Claims
    THEN {i \in {Identity[cred]} : Claims[cred] >= now}
    ELSE {Identity[k] : k \in {k \in {cred} \cap (StaticKeys \cup KeyRows) : Identity[k].enabled}}

Known(cred, i) == [key |-> cred, tenant |-> i.tenant, acl |-> i.acl, known |-> TRUE]
LooksUpRow(cred) == ~(wiring.jwt /\ cred \in DOMAIN Claims) /\ cred \notin StaticKeys

(* verify_jwt catches what cannot be decoded, not what has another shape. *)
Unreadable(cred) == wiring.jwt /\ cred \in Malformed

MutantAuth(r) ==
    /\ At(r, "auth")
    /\ Pass(r, "quota")
    /\ UNCHANGED <<limiterVars, quotaVars, mcpVars, instances, audit, app, given>>

(* AuthMiddleware; the lookup of a row may raise what is no RAGXError, and *)
(* reading a malformed JWT does.                                           *)
Auth(r) ==
    /\ At(r, "auth")
    /\ \/ ~wiring.auth /\ Pass(r, "quota")
       \/ /\ wiring.auth /\ ~Unreadable(ask[r].cred)
          /\ IF Resolved(ask[r].cred) = {} THEN Reply(r, "audit", 1002)
             ELSE \E i \in Resolved(ask[r].cred) :
                    MoveOn(r, [req[r] EXCEPT !.phase = "quota", !.who = Known(ask[r].cred, i)])
       \/ /\ wiring.auth /\ ask[r].cred # Anonymous
          /\ LooksUpRow(ask[r].cred) \/ Unreadable(ask[r].cred)
          /\ Raise(r)
    /\ UNCHANGED <<limiterVars, quotaVars, mcpVars, instances, audit, app, given>>

Counted(r) == ask[r].route = "upload" /\ UploadCap > 0
Compare(r, account) ==
    IF WithinUploadCap(quota'[account], ask[r].size)
    THEN Pass(r, "limit") /\ Grant(account, ask[r].size)
    ELSE Reply(r, "audit", 1004) /\ UNCHANGED granted

(* QuotaMiddleware before the route.  In the process the usage is added    *)
(* and compared at once; the table is written, committed and read again.   *)
Quota(r) ==
    /\ At(r, "quota")
    /\ \/ ~Counted(r) /\ Pass(r, "limit") /\ UNCHANGED <<quota, granted>>
       \/ /\ Counted(r) /\ ~wiring.metadata
          /\ Bump(req[r].who.tenant, "upload_bytes", ask[r].size)
          /\ Compare(r, <<req[r].who.tenant, period>>)
       \/ /\ Counted(r) /\ wiring.metadata
          /\ Bump(req[r].who.tenant, "upload_bytes", ask[r].size)
          /\ MoveOn(r, [req[r] EXCEPT !.phase = "read", !.period = period])
          /\ UNCHANGED granted
       \/ Counted(r) /\ wiring.metadata /\ Raise(r) /\ UNCHANGED <<quota, granted>>
    /\ UNCHANGED <<limiterVars, period, mcpVars, instances, audit, app, given>>

(* get_quota, of the period the usage was added to. *)
QuotaRead(r) ==
    /\ At(r, "read")
    /\ UNCHANGED quota
    /\ \/ Compare(r, <<req[r].who.tenant, req[r].period>>)
       \/ Raise(r) /\ UNCHANGED granted
    /\ UNCHANGED <<limiterVars, period, mcpVars, instances, audit, app, given>>

(* RateLimitMiddleware, then TraceMiddleware, which gives the request its  *)
(* trace id; a refused request has none.                                   *)
Limit(r) ==
    /\ At(r, "limit")
    /\ \E ok \in BOOLEAN :
        /\ Acquire(wiring.redis, <<"key", req[r].who.key>>, ok)
        /\ IF ok THEN MoveOn(r, [req[r] EXCEPT !.phase = "route", !.traced = TRUE])
                 ELSE Reply(r, "audit", 1004)
    /\ UNCHANGED <<quotaVars, mcpVars, instances, audit, app, given>>

(* require_kb_access and require_tenant_access *)
MayUse(r, kb) == ~req[r].who.known \/ InScope(req[r].who.acl, kb)
MayRead(r, tenant) == ~req[r].who.known \/ req[r].who.tenant = tenant

(* Codes that stand for the statuses a route answers with by itself. *)
Ok200 == 2004
Bad400 == 1001
Missing404 == 4001

(* The routes that name a knowledge base: upload, chat, search, traces.    *)
(* They resolve its plugins and answer, fail with a code of their own, or  *)
(* raise.                                                                  *)
KbRoute(r) ==
    LET made == ResolveAll(instances, ask[r].kb)
    IN  /\ At(r, "route") /\ ask[r].route \in {"upload", "chat", "stream"}
        /\ IF ~MayUse(r, ask[r].kb) THEN Reply(r, "fill", 1003) /\ UNCHANGED instances
           ELSE /\ instances' = made.insts
                /\ IF made.ok
                   THEN Reply(r, "fill", Ok200) \/ Reply(r, "fill", 6001) \/ Raise(r)
                   ELSE Reply(r, "fill", 9003) \/ Raise(r)
        /\ UNCHANGED <<limiterVars, quotaVars, mcpVars, audit, app, given>>

(* health and metrics: nothing is asked of the caller. *)
OpenRoute(r) ==
    /\ At(r, "route") /\ ask[r].route = "health"
    /\ Reply(r, "fill", Ok200)
    /\ UNCHANGED <<limiterVars, quotaVars, mcpVars, instances, audit, app, given>>

RowsOf(tenant) == {audit[i] : i \in {j \in DOMAIN audit : audit[j].tenant = tenant}}

(* list_audit_entries: the tenant asked for, else the caller's. *)
AuditRoute(r) ==
    LET tenant == IF ask[r].tenant = Anonymous THEN req[r].who.tenant ELSE ask[r].tenant
    IN  /\ At(r, "route") /\ ask[r].route = "audit"
        /\ IF ask[r].tenant # Anonymous /\ ~MayRead(r, tenant) THEN Reply(r, "fill", 1003)
           ELSE MoveOn(r, [req[r] EXCEPT !.phase = "fill", !.status = 200,
                            !.rows = RowsOf(tenant)])
        /\ UNCHANGED <<limiterVars, quotaVars, mcpVars, instances, audit, app, given>>

(* mcp_sse *)
SseRoute(r) ==
    /\ At(r, "route") /\ ask[r].route = "sse"
    /\ OpenSession(ask[r].session, req[r].who.acl)
    /\ Reply(r, "fill", Ok200)
    /\ UNCHANGED <<limiterVars, quotaVars, stdin, instances, audit, app, given>>

(* mcp_messages: 404 without an entry in the registry, 400 when the        *)
(* session's transport has closed it; only a tool is waited for.  A body   *)
(* that is no object names no session either: where the query does not, it *)
(* is an unknown one, or the route raises looking for it.                  *)
MessageRoute(r) ==
    LET s == ask[r].session
        msg == ask[r].msg
        taken == Taken(session[s], msg)
        waits == Tool(msg) /\ session[s].ready /\ (Reads(msg) => InScope(session[s].acl, msg.kb))
    IN  /\ At(r, "route") /\ ask[r].route = "message"
        /\ \/ /\ ~session[s].known \/ msg.method = "garbage"
              /\ Reply(r, "fill", Missing404) /\ UNCHANGED session
           \/ msg.method = "garbage" /\ Raise(r) /\ UNCHANGED session
           \/ /\ session[s].known /\ ~session[s].open
              /\ Reply(r, "fill", Bad400) /\ UNCHANGED session
           \/ /\ Found(s)
              /\ IF waits THEN Pass(r, "tool") /\ session' = [session EXCEPT ![s] = taken]
                 ELSE /\ Reply(r, "fill", Ok200)
                      /\ session' = [session EXCEPT ![s] = Answered(taken, msg,
                            HandleRequest(msg, session[s].ready, session[s].acl, TRUE))]
        /\ UNCHANGED <<limiterVars, quotaVars, stdin, instances, audit, app, given>>

(* The tool returns or raises, which its handler turns into an answer. *)
ToolReturns(r) ==
    LET s == ask[r].session
        msg == ask[r].msg
        made == IF msg.method = "ragx_list_kbs" THEN [ok |-> TRUE, insts |-> instances]
                ELSE ResolveAll(instances, msg.kb)
    IN  /\ At(r, "tool")
        /\ instances' = made.insts
        /\ \E works \in BOOLEAN :
            session' = [session EXCEPT ![s] = Answered(@, msg,
                            HandleRequest(msg, TRUE, session[s].acl, works /\ made.ok))]
        /\ Reply(r, "fill", Ok200)
        /\ UNCHANGED <<limiterVars, quotaVars, stdin, audit, app, given>>

(* QuotaMiddleware behind the route: the usage of a JSON answer is added,  *)
(* past the cap too.  When that fails the body, already read, is lost.     *)
Fill(r) ==
    LET used == ask[r].route = "chat" /\ req[r].status = 200 /\ TokenCap > 0
    IN  /\ At(r, "fill")
        /\ \/ ~used /\ Pass(r, "audit") /\ UNCHANGED quota
           \/ used /\ Bump(req[r].who.tenant, "tokens", ask[r].size) /\ Pass(r, "audit")
           \/ /\ used /\ wiring.metadata /\ UNCHANGED quota
              /\ MoveOn(r, [req[r] EXCEPT !.phase = "audit", !.body = FALSE])
        /\ UNCHANGED <<limiterVars, period, granted, mcpVars, instances, audit, app, given>>

Row(r) == [by |-> r, tenant |-> req[r].who.tenant, key |-> req[r].who.key,
           status |-> req[r].status, traced |-> req[r].traced]

LastEntries(s) == IF Len(s) > MaxEntries THEN Tail(s) ELSE s

(* The store in the process keeps the last entries only. *)
Appended(row) == IF wiring.metadata THEN Append(audit, row) ELSE LastEntries(Append(audit, row))

(* AuditMiddleware behind everything; the database may fail. *)
Audit(r) ==
    /\ At(r, "audit")
    /\ \/ audit' = Appended(Row(r)) /\ Pass(r, "done")
       \/ wiring.metadata /\ Pass(r, "unaudited") /\ UNCHANGED audit
    /\ UNCHANGED <<limiterVars, quotaVars, mcpVars, instances, app, given>>

RequestStep(r) ==
    \/ Arrive(r) \/ IpLimit(r) \/ Auth(r) \/ Quota(r) \/ QuotaRead(r) \/ Limit(r)
    \/ KbRoute(r) \/ OpenRoute(r) \/ AuditRoute(r) \/ SseRoute(r) \/ MessageRoute(r)
    \/ ToolReturns(r) \/ Fill(r) \/ Audit(r)

(* create_app resolves the plugins of the default knowledge base; lifespan *)
(* starts them.                                                            *)
Start ==
    /\ ~Serving /\ app.starts < MaxStarts
    /\ LET made == ResolveAll(<<>>, DefaultKb)
       IN  \E raised \in SUBSET DOMAIN made.insts :
            /\ raised # {} => Happens("failing hooks")
            /\ instances' = StartupAll(made.insts, raised)
            /\ app' = [phase |-> IF made.ok /\ raised = {} THEN "serving" ELSE "created",
                       starts |-> app.starts + 1]
    /\ UNCHANGED <<limiterVars, quotaVars, mcpVars, req, audit, given>>

Underway(r) == req[r].phase \notin {"new", "done", "unaudited", "raised", "dropped"}

(* What ends with the process: requests under way, sessions, buckets,      *)
(* usage and audit entries kept in it.                                     *)
Ended ==
    /\ req' = [r \in Request |-> IF Underway(r) THEN [req[r] EXCEPT !.phase = "dropped"]
                                 ELSE req[r]]
    /\ session' = [s \in Session |-> NoSession]
    /\ audit' = IF wiring.metadata THEN audit ELSE <<>>
    /\ LimiterRestart(wiring.redis)
    /\ QuotaRestart(wiring.metadata)
    /\ UNCHANGED <<stdin, given>>

(* The end of lifespan: queue, limiters, plugins, then the stores. *)
Stop ==
    /\ Serving
    /\ Happens("end")
    /\ \E raised \in SUBSET DOMAIN instances :
        (raised # {} => Happens("failing hooks")) /\ ShutdownAll(raised)
    /\ app' = [app EXCEPT !.phase = "stopped"]
    /\ Ended

Crash ==
    /\ Serving /\ Happens("end")
    /\ instances' = <<>>
    /\ app' = [app EXCEPT !.phase = "created"]
    /\ Ended

(* The world around: clocks, Redis, MCP clients, and the token dimension.  *)
Environment ==
    \/ /\ \/ Happens("time") /\ Tick
          \/ Happens("outage") /\ (RedisGoesDown \/ RedisComesBack)
          \/ wiring.redis /\ \E k \in DOMAIN bucket : ExpireBucket(k)
          \/ Happens("charges") /\ Serving
             /\ \E k \in DOMAIN bucket, count \in LlmTokens : AddTokens(wiring.redis, k, count)
       /\ UNCHANGED <<quotaVars, mcpVars, instances, gatewayVars, given>>
    \/ /\ Happens("month") /\ NextMonth
       /\ UNCHANGED <<limiterVars, mcpVars, instances, gatewayVars, given>>
    \/ /\ (\E s \in Session : CloseSession(s)) \/ StdioLine
       /\ UNCHANGED <<limiterVars, quotaVars, instances, gatewayVars, given>>

Deliver(s) == Push(s) /\ UNCHANGED <<limiterVars, quotaVars, instances, gatewayVars, given>>

Next ==
    \/ \E r \in Request : RequestStep(r)
    \/ \E s \in Session : Deliver(s)
    \/ Start \/ Stop \/ Crash \/ Environment

(* The event loop runs what is ready: a handler that waits for a store, a  *)
(* model or Redis gets an answer or an error, and a stream with an event   *)
(* sends it.  Nobody promises the clock, a client or a restart.            *)
Spec == Init /\ [][Next]_vars
             /\ WF_vars(\E r \in Request : RequestStep(r))
             /\ WF_vars(\E s \in Session : Deliver(s))

(* The tenant whose credential the request carries. *)
Owner(r) == IF wiring.auth THEN Identity[ask[r].cred].tenant ELSE DefaultTenant

(* Whatever uploads run at the same time, refused ones and those of two    *)
(* months included, the bytes let through for a tenant in a month stay     *)
(* within the cap, and a tenant's counters move only by requests made with *)
(* its own credentials (QuotaMiddleware behind AuthMiddleware, bump_quota).*)
QuotaHolds ==
    \A a \in Account :
        /\ UploadCap > 0 => granted[a] <= UploadCap
        /\ quota[a] # NoUsage =>
            \E r \in DOMAIN ask : ask[r].route \in {"upload", "chat"} /\ Owner(r) = a[1]

(* A request that was answered has its one row, with the status its client *)
(* got and, when it got past authentication, its caller, unless the ring   *)
(* in the process dropped it or the process ended; only a request that     *)
(* raised what no handler of the routes takes, or whose row could not be   *)
(* written, has none.  Rows are shown to callers of their tenant only      *)
(* (AuditMiddleware outermost, list_audit_entries).                        *)
AuditIsComplete ==
    \A r \in DOMAIN ask :
        /\ LET rows == {i \in DOMAIN audit : audit[i].by = r}
           IN  /\ Cardinality(rows) <= 1
               /\ \A i \in rows : /\ req[r].phase = "done" /\ audit[i].status = req[r].status
                                  /\ audit[i].traced => audit[i].tenant = Owner(r)
               /\ req[r].phase = "done" /\ rows = {} =>
                    ~wiring.metadata /\ (Len(audit) = MaxEntries \/ app.starts > 1 \/ ~Serving)
        /\ wiring.auth => \A row \in req[r].rows : row.tenant = Owner(r)

InTool(s) == {r \in DOMAIN ask : req[r].phase = "tool" /\ ask[r].session = s}
Sent(s) == {r \in DOMAIN ask : ask[r].route = "message" /\ ask[r].session = s}

Opener(s) == CHOOSE r \in DOMAIN ask : ask[r].route = "sse" /\ ask[r].session = s

(* What the key that opened the session gives access to; without           *)
(* authentication there is no key and no limit.                            *)
OpenerAcl(s) == IF wiring.auth THEN Identity[ask[Opener(s)].cred].acl ELSE Unrestricted

(* An open session owes one answer for every message it took up: seen,     *)
(* queued or still with its tool; no answer belongs to another session's   *)
(* message, and a tool answers for a knowledge base within the list of the *)
(* key that opened the session only, whoever posts (deliver_message).      *)
SessionsAnswerOnce ==
    \A s \in Session :
        LET answers == session[s].seen \o session[s].queue
        IN  session[s].open =>
            /\ Len(answers) + Cardinality(InTool(s)) = session[s].owed
            /\ \A i \in DOMAIN answers :
                \/ answers[i].code = PARSE_ERROR
                \/ \E r \in Sent(s) :
                    /\ ask[r].msg.id = answers[i].id
                    /\ answers[i].code = Ok /\ Reads(ask[r].msg) => InScope(OpenerAcl(s), ask[r].msg.kb)

(* Instances follow the application: one that serves has started what it   *)
(* resolved for the default knowledge base, one that was stopped has       *)
(* offered every instance its shutdown hook, also behind one that raised,  *)
(* and no plugin has two instances for a knowledge base (startup_all,      *)
(* shutdown_all, resolve).                                                 *)
PluginsFollowTheApp ==
    /\ Serving => \A i \in DOMAIN KbConfig :
        \E j \in DOMAIN instances :
            instances[j] = [plugin |-> KbConfig[i], kb |-> DefaultKb, state |-> "started"]
    /\ app.phase = "stopped" => \A i \in DOMAIN instances : instances[i].state \in {"closed", "failed"}
    /\ \A i, j \in DOMAIN instances :
        instances[i].plugin = instances[j].plugin /\ instances[i].kb = instances[j].kb => i = j

(* Again and again nothing waits: every request that arrived is answered,  *)
(* raises or is dropped with its process, and every message a session took *)
(* up reaches its client while the stream is open, whatever is refused or  *)
(* fails meanwhile (dispatch of the middlewares, deliver_message,          *)
(* sse_stream).                                                            *)
RequestsAreAnswered ==
    []<>/\ \A r \in Request : ~Underway(r)
        /\ \A s \in Session : session[s].open => Len(session[s].seen) = session[s].owed
================================================================================
