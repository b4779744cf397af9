----------------------------- MODULE GatewayProofs -----------------------------
(***************************************************************************)
(* Proofs about Gateway for any set of requests, tenants, keys, sessions   *)
(* and scenarios, and for every limit.                                     *)
(*                                                                         *)
(* Four invariants.  Callers: a request past authentication is known by    *)
(* the tenant and the access list of the credential it carries, also when  *)
(* a row, a charge or a session is written on its behalf later.  Charges:  *)
(* each byte of the usage belongs to at most one upload, granted or still  *)
(* between writing and reading the table, so that an upload which reads a  *)
(* usage within the cap leaves room for those granted before it.  Trail:   *)
(* which requests have a row and which lost it, to the ring or with the    *)
(* process.  Talks: every message a session took up is seen, queued or     *)
(* with its tool, and a session has one opener.  The instances of plugins  *)
(* have an invariant of their own, PluginInv, at the end.                  *)
(***************************************************************************)
EXTENDS Gateway, RateLimiterProofs, FiniteSetTheorems, SequenceTheorems, WellFoundedInduction

Phases == {"new", "ip", "auth", "quota", "read", "limit", "route", "tool", "fill", "audit",
           "done", "unaudited", "raised", "dropped"}

Cred == DOMAIN Identity \cup {Anonymous}
Acls == {Identity[c].acl : c \in DOMAIN Identity} \cup {Unrestricted}
Caller == [key : Cred, tenant : Tenant, acl : Acls, known : BOOLEAN]
AuditRow == [by : Request, tenant : Tenant, key : Cred, status : Int, traced : BOOLEAN]
RequestState == [phase : Phases, who : Caller, period : 0..MaxPeriod, status : Int,
                 traced : BOOLEAN, body : BOOLEAN, rows : SUBSET AuditRow]

GatewayType ==
    /\ given \in Scenarios
    /\ req \in [Request -> RequestState]
    /\ period \in 0..MaxPeriod

OwnerAcl(r) == IF wiring.auth THEN Identity[ask[r].cred].acl ELSE Unrestricted

Outside == {"new", "ip", "auth"}
Passed(r) == req[r].traced \/ req[r].phase \in {"quota", "read", "limit", "route", "tool", "fill"}

Callers ==
    \A r \in Request :
        /\ req[r].phase # "new" => r \in DOMAIN ask
        /\ req[r].phase \in Outside => ~req[r].traced /\ req[r].who = Nobody
        /\ Passed(r) => /\ req[r].who.tenant = Owner(r) /\ req[r].who.acl = OwnerAcl(r)
                        /\ wiring.auth => req[r].who.known
        /\ wiring.auth => \A row \in req[r].rows : row.tenant = Owner(r)

Usage == [tokens : Nat, upload_bytes : Nat]

QuotaType == quota \in [Account -> Usage] /\ granted \in [Account -> Nat]

(* Uploads between writing the usage and reading it. *)
Pending(a) == {r \in Request : req[r].phase = "read" /\ <<req[r].who.tenant, req[r].period>> = a}

(* The bytes of an account's usage: paid, those let through, and own, those *)
(* of each pending upload.                                                 *)
Divides(a, paid, own) ==
    /\ paid \in SUBSET (0..(quota[a].upload_bytes - 1))
    /\ own \in [Pending(a) -> SUBSET (0..(quota[a].upload_bytes - 1))]
    /\ Cardinality(paid) = granted[a]
    /\ \A r \in Pending(a) : Cardinality(own[r]) = ask[r].size /\ own[r] \cap paid = {}
    /\ \A r, q \in Pending(a) : r # q => own[r] \cap own[q] = {}

Charges ==
    \A a \in Account :
        /\ granted[a] <= UploadCap
        /\ \E paid : \E own : Divides(a, paid, own)

Users ==
    \A a \in Account :
        quota[a] # NoUsage =>
            \E r \in DOMAIN ask : ask[r].route \in {"upload", "chat"} /\ Owner(r) = a[1]

TrailType == audit \in Seq(AuditRow) /\ app \in [phase : {"created", "serving", "stopped"}, starts : Nat]

OneRow == \A i, j \in DOMAIN audit : audit[i].by = audit[j].by => i = j

TrueRows ==
    \A i \in DOMAIN audit :
        /\ req[audit[i].by].phase = "done" /\ audit[i].status = req[audit[i].by].status
        /\ audit[i].traced => audit[i].tenant = Owner(audit[i].by)

NoRow(r) == \A i \in DOMAIN audit : audit[i].by # r

LostRows ==
    \A r \in Request :
        req[r].phase = "done" /\ NoRow(r) =>
            ~wiring.metadata /\ (Len(audit) = MaxEntries \/ app.starts > 1 \/ ~Serving)

Ring == ~wiring.metadata => Len(audit) <= MaxEntries

Started == Serving \/ (\E r \in Request : req[r].phase = "done") => app.starts >= 1

Trail == TrailType /\ OneRow /\ TrueRows /\ LostRows /\ Ring /\ Started

Ids == {0} \cup UNION {{x.ask[r].msg.id : r \in DOMAIN x.ask} : x \in Scenarios}
AnswerType == [id : Ids, code : Int]
SessionState == [known : BOOLEAN, open : BOOLEAN, acl : Acls, ready : BOOLEAN,
                 queue : Seq(AnswerType), seen : Seq(AnswerType), owed : Nat]

(* The request that opened a session has been at its route. *)
Before == {"new", "ip", "auth", "quota", "read", "limit", "route"}

Proper(s, answer) ==
    \/ answer.code = PARSE_ERROR
    \/ \E r \in Sent(s) :
        /\ ask[r].msg.id = answer.id
        /\ answer.code = Ok /\ Reads(ask[r].msg) => InScope(OpenerAcl(s), ask[r].msg.kb)

Opened ==
    \A s \in Session :
        /\ session[s].open => session[s].known
        /\ session[s].known =>
            /\ session[s].acl = OpenerAcl(s)
            /\ \E r \in DOMAIN ask :
                ask[r].route = "sse" /\ ask[r].session = s /\ req[r].phase \notin Before

Tools ==
    \A r \in Request :
        req[r].phase = "tool" => ask[r].route = "message" /\ session[ask[r].session].known

Owing ==
    \A s \in Session : session[s].open =>
        /\ Len(session[s].seen) + Len(session[s].queue) + Cardinality(InTool(s)) = session[s].owed
        /\ \A i \in DOMAIN session[s].seen : Proper(s, session[s].seen[i])
        /\ \A i \in DOMAIN session[s].queue : Proper(s, session[s].queue[i])

Talks == session \in [Session -> SessionState] /\ Opened /\ Tools /\ Owing

-------------------------------------------------------------------------------
(* r goes on and the others stay where they are. *)
Onward(r) ==
    /\ Serving /\ given' = given /\ app' = app
    /\ req' \in [Request -> RequestState]
    /\ \A q \in Request \ {r} : req'[q] = req[q]

(* As which caller it does, and in which month, does not change, nor what  *)
(* it was shown.                                                           *)
Same(r) ==
    /\ req'[r].who = req[r].who /\ req'[r].period = req[r].period
    /\ req'[r].traced = req[r].traced /\ req'[r].rows = req[r].rows

Moves(r, from, to) ==
    Onward(r) /\ Same(r) /\ req[r].phase \in from /\ req'[r].phase \in to

LEMMA StatusType ==
    ASSUME NEW code
    PROVE  HttpStatus(code) \in Int /\ ErrorResponse(Unhandled).status \in Int
<1>1. ErrorResponse(Unhandled) = [status |-> 500, code |-> 5000]
  BY DEF ErrorResponse
<1>2. HttpStatus(code) \in Int
  BY DEF HttpStatus
<1> QED
  BY <1>1, <1>2

(* The three ways on: to the next middleware, an answer, an exception. *)
LEMMA PassMoves ==
    ASSUME GatewayType, NEW r \in Request, NEW p \in Phases, Pass(r, p),
           Serving, given' = given, app' = app
    PROVE  Moves(r, {req[r].phase}, {p}) /\ req'[r].status = req[r].status
<1>1. req \in [Request -> RequestState] /\ req' = [req EXCEPT ![r] = [req[r] EXCEPT !.phase = p]]
  BY DEF GatewayType, Pass, MoveOn
<1>2. [req[r] EXCEPT !.phase = p] \in RequestState
  BY <1>1 DEF RequestState
<1> QED
  BY <1>1, <1>2 DEF Moves, Onward, Same, RequestState

LEMMA ReplyMoves ==
    ASSUME GatewayType, NEW r \in Request, NEW p \in Phases, NEW code, Reply(r, p, code),
           Serving, given' = given, app' = app
    PROVE  Moves(r, {req[r].phase}, {p})
<1>1. PICK st \in Int : st = HttpStatus(code)
  BY StatusType
<1>2. req \in [Request -> RequestState]
      /\ req' = [req EXCEPT ![r] = [req[r] EXCEPT !.phase = p, !.status = st]]
  BY <1>1 DEF GatewayType, Reply, MoveOn
<1>3. [req[r] EXCEPT !.phase = p, !.status = st] \in RequestState
  BY <1>2 DEF RequestState
<1> QED
  BY <1>2, <1>3 DEF Moves, Onward, Same, RequestState

LEMMA RaiseMoves ==
    ASSUME GatewayType, NEW r \in Request, Raise(r), Serving, given' = given, app' = app
    PROVE  Moves(r, {req[r].phase}, {"raised"})
<1>1. PICK st \in Int : st = ErrorResponse(Unhandled).status
  BY StatusType
<1>2. req \in [Request -> RequestState]
      /\ req' = [req EXCEPT ![r] = [req[r] EXCEPT !.phase = "raised", !.status = st]]
  BY <1>1 DEF GatewayType, Raise, MoveOn
<1>3. [req[r] EXCEPT !.phase = "raised", !.status = st] \in RequestState
  BY <1>2 DEF RequestState, Phases
<1> QED
  BY <1>2, <1>3 DEF Moves, Onward, Same, RequestState

(* Every handler has its place on the way of a request. *)
LEMMA Places ==
    ASSUME NEW r
    PROVE  /\ Arrive(r) => req[r].phase = "new"
           /\ IpLimit(r) => req[r].phase = "ip"
           /\ Auth(r) => req[r].phase = "auth"
           /\ Quota(r) => req[r].phase = "quota"
           /\ QuotaRead(r) => req[r].phase = "read"
           /\ Limit(r) => req[r].phase = "limit"
           /\ KbRoute(r) => req[r].phase = "route"
           /\ OpenRoute(r) => req[r].phase = "route"
           /\ AuditRoute(r) => req[r].phase = "route"
           /\ SseRoute(r) => req[r].phase = "route"
           /\ MessageRoute(r) => req[r].phase = "route"
           /\ ToolReturns(r) => req[r].phase = "tool"
           /\ Fill(r) => req[r].phase = "fill"
           /\ Audit(r) => req[r].phase = "audit"
<1>1. Arrive(r) => req[r].phase = "new"
  BY DEF Arrive, At
<1>2. IpLimit(r) => req[r].phase = "ip"
  BY DEF IpLimit, At
<1>3. Auth(r) => req[r].phase = "auth"
  BY DEF Auth, At
<1>4. Quota(r) => req[r].phase = "quota"
  BY DEF Quota, At
<1>5. QuotaRead(r) => req[r].phase = "read"
  BY DEF QuotaRead, At
<1>6. Limit(r) => req[r].phase = "limit"
  BY DEF Limit, At
<1>7. KbRoute(r) => req[r].phase = "route"
  BY DEF KbRoute, At
<1>8. OpenRoute(r) => req[r].phase = "route"
  BY DEF OpenRoute, At
<1>9. AuditRoute(r) => req[r].phase = "route"
  BY DEF AuditRoute, At
<1>10. SseRoute(r) => req[r].phase = "route"
  BY DEF SseRoute, At
<1>11. MessageRoute(r) => req[r].phase = "route"
  BY DEF MessageRoute, At
<1>12. ToolReturns(r) => req[r].phase = "tool"
  BY DEF ToolReturns, At
<1>13. Fill(r) => req[r].phase = "fill"
  BY DEF Fill, At
<1>14. Audit(r) => req[r].phase = "audit"
  BY DEF Audit, At
<1> QED
  BY <1>1, <1>2, <1>3, <1>4, <1>5, <1>6, <1>7,
     <1>8, <1>9, <1>10, <1>11, <1>12, <1>13, <1>14

(* No route touches a bucket, a counter or a row. *)
LEMMA RoutesLeave ==
    ASSUME NEW r, KbRoute(r) \/ OpenRoute(r) \/ AuditRoute(r) \/ SseRoute(r) \/ MessageRoute(r)
    PROVE  UNCHANGED <<limiterVars, quotaVars, audit>>
<1>1. CASE KbRoute(r)
  BY <1>1 DEF KbRoute
<1>2. CASE OpenRoute(r)
  BY <1>2 DEF OpenRoute
<1>3. CASE AuditRoute(r)
  BY <1>3 DEF AuditRoute
<1>4. CASE SseRoute(r)
  BY <1>4 DEF SseRoute
<1>5. CASE MessageRoute(r)
  BY <1>5 DEF MessageRoute
<1> QED
  BY <1>1, <1>2, <1>3, <1>4, <1>5
-------------------------------------------------------------------------------
(* The way of a request, action by action. *)
LEMMA ArriveMoves ==
    ASSUME GatewayType, NEW r \in Request, Arrive(r)
    PROVE  Moves(r, {"new"}, {"ip", "auth"}) /\ r \in DOMAIN ask
<1>1. PICK p \in {"ip", "auth"} : Pass(r, p)
  BY DEF Arrive, FirstPhase
<1>2. p \in Phases
  BY DEF Phases
<1>3. Serving /\ given' = given /\ app' = app /\ req[r].phase = "new" /\ r \in DOMAIN ask
  BY DEF Arrive, At
<1>4. Moves(r, {req[r].phase}, {p})
  BY <1>1, <1>2, <1>3, PassMoves
<1> QED
  BY <1>3, <1>4 DEF Moves

LEMMA IpLimitMoves ==
    ASSUME GatewayType, NEW r \in Request, IpLimit(r)
    PROVE  Moves(r, {"ip"}, {"auth", "audit"})
<1>1. Pass(r, "auth") \/ Reply(r, "audit", 1004)
  BY DEF IpLimit
<1>2. "auth" \in Phases /\ "audit" \in Phases
  BY DEF Phases
<1>3. Serving /\ given' = given /\ app' = app /\ req[r].phase = "ip"
  BY DEF IpLimit, At
<1>4. Moves(r, {req[r].phase}, {"auth"}) \/ Moves(r, {req[r].phase}, {"audit"})
  BY <1>1, <1>2, <1>3, PassMoves, ReplyMoves
<1> QED
  BY <1>3, <1>4 DEF Moves

(* The caller becomes known. *)
Enters(r) ==
    /\ Onward(r) /\ wiring.auth
    /\ req[r].phase = "auth" /\ req'[r].phase = "quota"
    /\ req'[r].traced = req[r].traced /\ req'[r].rows = req[r].rows
    /\ req'[r].who.tenant = Identity[ask[r].cred].tenant
    /\ req'[r].who.acl = Identity[ask[r].cred].acl
    /\ req'[r].who.known = TRUE

LEMMA AuthMoves ==
    ASSUME GatewayType, NEW r \in Request, r \in DOMAIN ask, Auth(r)
    PROVE  \/ Moves(r, {"auth"}, {"quota"}) /\ ~wiring.auth
           \/ Moves(r, {"auth"}, {"audit", "raised"})
           \/ Enters(r)
<1>0. "quota" \in Phases /\ "audit" \in Phases
  BY DEF Phases
<1>1. Serving /\ given' = given /\ app' = app /\ req[r].phase = "auth"
  BY DEF Auth, At
<1>2. CASE ~wiring.auth /\ Pass(r, "quota")
  <2>1. Moves(r, {req[r].phase}, {"quota"})
    BY <1>0, <1>1, <1>2, PassMoves
  <2> QED
    BY <1>1, <1>2, <2>1 DEF Moves
<1>3. CASE Reply(r, "audit", 1002)
  <2>1. Moves(r, {req[r].phase}, {"audit"})
    BY <1>0, <1>1, <1>3, ReplyMoves
  <2> QED
    BY <1>1, <2>1 DEF Moves
<1>4. CASE wiring.auth /\ \E i \in Resolved(ask[r].cred) :
              MoveOn(r, [req[r] EXCEPT !.phase = "quota", !.who = Known(ask[r].cred, i)])
  <2>1. PICK i \in Resolved(ask[r].cred) :
            MoveOn(r, [req[r] EXCEPT !.phase = "quota", !.who = Known(ask[r].cred, i)])
    BY <1>4
  <2>2. i = Identity[ask[r].cred]
    BY <2>1 DEF Resolved
  <2>3. ask[r].cred \in DOMAIN Identity /\ Identity[ask[r].cred].tenant \in Tenant
    BY GatewayConstants DEF GatewayType, ask
  <2>4. PICK who \in Caller : /\ who = Known(ask[r].cred, i)
                              /\ who.tenant = Identity[ask[r].cred].tenant
                              /\ who.acl = Identity[ask[r].cred].acl
                              /\ who.known = TRUE
    <3>1. PICK c \in Cred, t \in Tenant, a \in Acls :
              c = ask[r].cred /\ t = i.tenant /\ a = i.acl
      BY <2>2, <2>3 DEF Cred, Acls
    <3>2. Known(ask[r].cred, i) = [key |-> c, tenant |-> t, acl |-> a, known |-> TRUE]
      BY <3>1 DEF Known
    <3>3. [key |-> c, tenant |-> t, acl |-> a, known |-> TRUE] \in Caller
      BY DEF Caller
    <3> QED
      BY <2>2, <3>1, <3>2, <3>3
  <2>5. req \in [Request -> RequestState]
        /\ req' = [req EXCEPT ![r] = [req[r] EXCEPT !.phase = "quota", !.who = who]]
    BY <2>1, <2>4 DEF GatewayType, MoveOn
  <2>6. [req[r] EXCEPT !.phase = "quota", !.who = who] \in RequestState
    BY <1>0, <2>5 DEF RequestState
  <2> QED
    BY <1>1, <1>4, <2>4, <2>5, <2>6 DEF Enters, Onward, RequestState
<1>5. CASE Raise(r)
  <2>1. Moves(r, {req[r].phase}, {"raised"})
    BY <1>1, <1>5, RaiseMoves
  <2> QED
    BY <1>1, <2>1 DEF Moves
<1>6. \/ ~wiring.auth /\ Pass(r, "quota")
      \/ wiring.auth /\ (IF Resolved(ask[r].cred) = {} THEN Reply(r, "audit", 1002)
                         ELSE \E i \in Resolved(ask[r].cred) :
                            MoveOn(r, [req[r] EXCEPT !.phase = "quota", !.who = Known(ask[r].cred, i)]))
      \/ Raise(r)
  BY DEF Auth
<1>7. CASE wiring.auth /\ (IF Resolved(ask[r].cred) = {} THEN Reply(r, "audit", 1002)
                          ELSE \E i \in Resolved(ask[r].cred) :
                            MoveOn(r, [req[r] EXCEPT !.phase = "quota", !.who = Known(ask[r].cred, i)]))
  <2>1. CASE Resolved(ask[r].cred) = {}
    BY <1>3, <1>7, <2>1
  <2>2. CASE Resolved(ask[r].cred) # {}
    BY <1>4, <1>7, <2>2
  <2> QED
    BY <2>1, <2>2
<1> QED
  BY <1>2, <1>5, <1>6, <1>7

(* The usage is written to the table, for the month it is then. *)
Books(r) ==
    /\ Onward(r)
    /\ req[r].phase = "quota" /\ req'[r].phase = "read"
    /\ req'[r].period = period /\ req'[r].who = req[r].who
    /\ req'[r].traced = req[r].traced /\ req'[r].rows = req[r].rows

LEMMA CompareMoves ==
    ASSUME GatewayType, NEW r \in Request, NEW account, Compare(r, account),
           Serving, given' = given, app' = app
    PROVE  \/ /\ Moves(r, {req[r].phase}, {"limit"}) /\ Grant(account, ask[r].size)
              /\ WithinUploadCap(quota'[account], ask[r].size)
           \/ Moves(r, {req[r].phase}, {"audit"}) /\ UNCHANGED granted
<1>1. "limit" \in Phases /\ "audit" \in Phases
  BY DEF Phases
<1>2. CASE WithinUploadCap(quota'[account], ask[r].size)
  BY <1>1, <1>2, PassMoves DEF Compare
<1>3. CASE ~WithinUploadCap(quota'[account], ask[r].size)
  BY <1>1, <1>3, ReplyMoves DEF Compare
<1> QED
  BY <1>2, <1>3

LEMMA BooksMoves ==
    ASSUME GatewayType, NEW r \in Request, Serving, given' = given, app' = app,
           req[r].phase = "quota",
           MoveOn(r, [req[r] EXCEPT !.phase = "read", !.period = period])
    PROVE  Books(r)
<1>1. req \in [Request -> RequestState] /\ period \in 0..MaxPeriod
      /\ req' = [req EXCEPT ![r] = [req[r] EXCEPT !.phase = "read", !.period = period]]
  BY DEF GatewayType, MoveOn
<1>2. "read" \in Phases
  BY DEF Phases
<1>3. [req[r] EXCEPT !.phase = "read", !.period = period] \in RequestState
  BY <1>1, <1>2 DEF RequestState
<1> QED
  BY <1>1, <1>3 DEF Books, Onward, RequestState

LEMMA QuotaMoves ==
    ASSUME GatewayType, NEW r \in Request, Quota(r)
    PROVE  Moves(r, {"quota"}, {"limit", "audit", "raised"}) \/ Books(r)
<1>0. "limit" \in Phases
  BY DEF Phases
<1>1. Serving /\ given' = given /\ app' = app /\ req[r].phase = "quota"
  BY DEF Quota, At
<1>2. CASE Pass(r, "limit")
  <2>1. Moves(r, {req[r].phase}, {"limit"})
    BY <1>0, <1>1, <1>2, PassMoves
  <2> QED
    BY <1>1, <2>1 DEF Moves
<1>3. CASE Compare(r, <<req[r].who.tenant, period>>)
  <2>1. Moves(r, {req[r].phase}, {"limit"}) \/ Moves(r, {req[r].phase}, {"audit"})
    BY <1>1, <1>3, CompareMoves
  <2> QED
    BY <1>1, <2>1 DEF Moves
<1>4. CASE MoveOn(r, [req[r] EXCEPT !.phase = "read", !.period = period])
  BY <1>1, <1>4, BooksMoves
<1>5. CASE Raise(r)
  <2>1. Moves(r, {req[r].phase}, {"raised"})
    BY <1>1, <1>5, RaiseMoves
  <2> QED
    BY <1>1, <2>1 DEF Moves
<1> QED
  BY <1>2, <1>3, <1>4, <1>5 DEF Quota

LEMMA QuotaReadMoves ==
    ASSUME GatewayType, NEW r \in Request, QuotaRead(r)
    PROVE  Moves(r, {"read"}, {"limit", "audit", "raised"})
<1>1. Serving /\ given' = given /\ app' = app /\ req[r].phase = "read"
  BY DEF QuotaRead, At
<1>2. CASE Compare(r, <<req[r].who.tenant, req[r].period>>)
  <2>1. Moves(r, {req[r].phase}, {"limit"}) \/ Moves(r, {req[r].phase}, {"audit"})
    BY <1>1, <1>2, CompareMoves
  <2> QED
    BY <1>1, <2>1 DEF Moves
<1>3. CASE Raise(r)
  <2>1. Moves(r, {req[r].phase}, {"raised"})
    BY <1>1, <1>3, RaiseMoves
  <2> QED
    BY <1>1, <2>1 DEF Moves
<1> QED
  BY <1>2, <1>3 DEF QuotaRead

(* The request gets its trace id. *)
IsTraced(r) ==
    /\ Onward(r)
    /\ req[r].phase = "limit" /\ req'[r].phase = "route"
    /\ req'[r].who = req[r].who /\ req'[r].rows = req[r].rows

LEMMA LimitMoves ==
    ASSUME GatewayType, NEW r \in Request, Limit(r)
    PROVE  Moves(r, {"limit"}, {"audit"}) \/ IsTraced(r)
<1>0. "route" \in Phases /\ "audit" \in Phases
  BY DEF Phases
<1>1. Serving /\ given' = given /\ app' = app /\ req[r].phase = "limit"
  BY DEF Limit, At
<1>2. CASE Reply(r, "audit", 1004)
  <2>1. Moves(r, {req[r].phase}, {"audit"})
    BY <1>0, <1>1, <1>2, ReplyMoves
  <2> QED
    BY <1>1, <2>1 DEF Moves
<1>3. CASE MoveOn(r, [req[r] EXCEPT !.phase = "route", !.traced = TRUE])
  <2>1. req \in [Request -> RequestState]
        /\ req' = [req EXCEPT ![r] = [req[r] EXCEPT !.phase = "route", !.traced = TRUE]]
    BY <1>3 DEF GatewayType, MoveOn
  <2>2. [req[r] EXCEPT !.phase = "route", !.traced = TRUE] \in RequestState
    BY <1>0, <2>1 DEF RequestState
  <2> QED
    BY <1>1, <2>1, <2>2 DEF IsTraced, Onward, RequestState
<1> QED
  BY <1>2, <1>3 DEF Limit

LEMMA KbRouteMoves ==
    ASSUME GatewayType, NEW r \in Request, KbRoute(r)
    PROVE  Moves(r, {"route"}, {"fill", "raised"}) /\ ask[r].route \in {"upload", "chat", "stream"}
<1>0. "fill" \in Phases
  BY DEF Phases
<1>1. /\ Serving /\ given' = given /\ app' = app /\ req[r].phase = "route"
      /\ ask[r].route \in {"upload", "chat", "stream"}
  BY DEF KbRoute, At
<1>2. \/ Reply(r, "fill", 1003) \/ Reply(r, "fill", Ok200) \/ Reply(r, "fill", 6001)
      \/ Reply(r, "fill", 9003) \/ Raise(r)
  BY DEF KbRoute
<1>3. Moves(r, {req[r].phase}, {"fill"}) \/ Moves(r, {req[r].phase}, {"raised"})
  BY <1>0, <1>1, <1>2, ReplyMoves, RaiseMoves
<1> QED
  BY <1>1, <1>3 DEF Moves

LEMMA OpenRouteMoves ==
    ASSUME GatewayType, NEW r \in Request, OpenRoute(r)
    PROVE  Moves(r, {"route"}, {"fill"})
<1>0. "fill" \in Phases
  BY DEF Phases
<1>1. Serving /\ given' = given /\ app' = app /\ req[r].phase = "route" /\ Reply(r, "fill", Ok200)
  BY DEF OpenRoute, At
<1>2. Moves(r, {req[r].phase}, {"fill"})
  BY <1>0, <1>1, ReplyMoves
<1> QED
  BY <1>1, <1>2 DEF Moves

(* The caller is shown rows: of its tenant, or of one it may read. *)
Shown(r) ==
    /\ Onward(r)
    /\ req[r].phase = "route" /\ req'[r].phase = "fill" /\ ask[r].route = "audit"
    /\ req'[r].who = req[r].who /\ req'[r].traced = req[r].traced
    /\ \A row \in req'[r].rows : row.tenant = req[r].who.tenant \/ MayRead(r, row.tenant)

LEMMA AuditRouteMoves ==
    ASSUME GatewayType, TrailType, NEW r \in Request, AuditRoute(r)
    PROVE  (Moves(r, {"route"}, {"fill"}) /\ ask[r].route = "audit") \/ Shown(r)
<1>0. "fill" \in Phases
  BY DEF Phases
<1>1. /\ Serving /\ given' = given /\ app' = app /\ req[r].phase = "route"
      /\ ask[r].route = "audit"
  BY DEF AuditRoute, At
<1>2. PICK tenant : /\ tenant = (IF ask[r].tenant = Anonymous THEN req[r].who.tenant ELSE ask[r].tenant)
                    /\ tenant = req[r].who.tenant \/ tenant = ask[r].tenant
  OBVIOUS
<1>3. CASE Reply(r, "fill", 1003)
  <2>1. Moves(r, {req[r].phase}, {"fill"})
    BY <1>0, <1>1, <1>3, ReplyMoves
  <2> QED
    BY <1>1, <2>1 DEF Moves
<1>4. CASE /\ ~(ask[r].tenant # Anonymous /\ ~MayRead(r, tenant))
           /\ MoveOn(r, [req[r] EXCEPT !.phase = "fill", !.status = 200, !.rows = RowsOf(tenant)])
  <2>1. PICK rows \in SUBSET AuditRow :
            rows = RowsOf(tenant) /\ \A row \in rows : row.tenant = tenant
    <3>1. RowsOf(tenant) \in SUBSET AuditRow /\ \A row \in RowsOf(tenant) : row.tenant = tenant
      BY DEF RowsOf, TrailType
    <3> QED
      BY <3>1
  <2>2. req \in [Request -> RequestState]
        /\ req' = [req EXCEPT ![r] = [req[r] EXCEPT !.phase = "fill", !.status = 200, !.rows = rows]]
    BY <1>4, <2>1 DEF GatewayType, MoveOn
  <2>3. /\ [req[r] EXCEPT !.phase = "fill", !.status = 200, !.rows = rows] \in RequestState
        /\ [req[r] EXCEPT !.phase = "fill", !.status = 200, !.rows = rows].rows = rows
    <3>1. PICK st \in Int : st = 200
      OBVIOUS
    <3>2. /\ [req[r] EXCEPT !.phase = "fill", !.status = st, !.rows = rows] \in RequestState
          /\ [req[r] EXCEPT !.phase = "fill", !.status = st, !.rows = rows].rows = rows
      BY <1>0, <2>1, <2>2 DEF RequestState
    <3> QED
      BY <3>1, <3>2
  <2>4. /\ req' \in [Request -> RequestState] /\ \A q \in Request \ {r} : req'[q] = req[q]
        /\ req'[r].phase = "fill" /\ req'[r].rows = rows
        /\ req'[r].who = req[r].who /\ req'[r].traced = req[r].traced
    BY <2>2, <2>3 DEF RequestState
  <2>5. tenant = req[r].who.tenant \/ MayRead(r, tenant)
    BY <1>2, <1>4
  <2> QED
    BY <1>1, <2>1, <2>4, <2>5 DEF Shown, Onward
<1> QED
  BY <1>2, <1>3, <1>4 DEF AuditRoute

LEMMA SseRouteMoves ==
    ASSUME GatewayType, NEW r \in Request, SseRoute(r)
    PROVE  Moves(r, {"route"}, {"fill"}) /\ ask[r].route = "sse"
<1>0. "fill" \in Phases
  BY DEF Phases
<1>1. /\ Serving /\ given' = given /\ app' = app /\ req[r].phase = "route"
      /\ Reply(r, "fill", Ok200) /\ ask[r].route = "sse"
  BY DEF SseRoute, At
<1>2. Moves(r, {req[r].phase}, {"fill"})
  BY <1>0, <1>1, ReplyMoves
<1> QED
  BY <1>1, <1>2 DEF Moves

(* The ends of a message: no such session or no session named, a closed    *)
(* one, a body that raises, a tool that is waited for, an answer at once.  *)
Waits(r) ==
    LET s == ask[r].session
        msg == ask[r].msg
    IN  Tool(msg) /\ session[s].ready /\ (Reads(msg) => InScope(session[s].acl, msg.kb))

LEMMA MessageRouteMoves ==
    ASSUME GatewayType, NEW r \in Request, MessageRoute(r)
    PROVE  /\ ask[r].route = "message"
           /\ \/ Moves(r, {"route"}, {"fill"}) /\ UNCHANGED session
              \/ Moves(r, {"route"}, {"raised"}) /\ UNCHANGED session
              \/ /\ Moves(r, {"route"}, {"tool"}) /\ Found(ask[r].session) /\ Waits(r)
                 /\ session' = [session EXCEPT ![ask[r].session] = Taken(session[ask[r].session], ask[r].msg)]
              \/ /\ Moves(r, {"route"}, {"fill"}) /\ Found(ask[r].session) /\ ~Waits(r)
                 /\ session' = [session EXCEPT ![ask[r].session] =
                        Answered(Taken(session[ask[r].session], ask[r].msg), ask[r].msg,
                            HandleRequest(ask[r].msg, session[ask[r].session].ready,
                                          session[ask[r].session].acl, TRUE))]
<1>0. "fill" \in Phases /\ "tool" \in Phases
  BY DEF Phases
<1>1. /\ Serving /\ given' = given /\ app' = app /\ req[r].phase = "route"
      /\ ask[r].route = "message"
  BY DEF MessageRoute, At
<1>2. ASSUME NEW code, Reply(r, "fill", code) PROVE Moves(r, {"route"}, {"fill"})
  <2>1. Moves(r, {req[r].phase}, {"fill"})
    BY <1>0, <1>1, <1>2, ReplyMoves
  <2> QED
    BY <1>1, <2>1 DEF Moves
<1>3. ASSUME Pass(r, "tool") PROVE Moves(r, {"route"}, {"tool"})
  <2>1. Moves(r, {req[r].phase}, {"tool"})
    BY <1>0, <1>1, <1>3, PassMoves
  <2> QED
    BY <1>1, <2>1 DEF Moves
<1>4. ASSUME Raise(r) PROVE Moves(r, {"route"}, {"raised"})
  <2>1. Moves(r, {req[r].phase}, {"raised"})
    BY <1>1, <1>4, RaiseMoves
  <2> QED
    BY <1>1, <2>1 DEF Moves
<1>5. CASE (\E code : Reply(r, "fill", code)) /\ UNCHANGED session
  <2>1. Moves(r, {"route"}, {"fill"})
    BY <1>2, <1>5
  <2> QED
    BY <1>1, <1>5, <2>1
<1>6. CASE Raise(r) /\ UNCHANGED session
  BY <1>1, <1>4, <1>6
<1>7. ASSUME Found(ask[r].session), Waits(r), Pass(r, "tool"),
             session' = [session EXCEPT ![ask[r].session] = Taken(session[ask[r].session], ask[r].msg)]
      PROVE  /\ Moves(r, {"route"}, {"tool"}) /\ Found(ask[r].session) /\ Waits(r)
             /\ session' = [session EXCEPT ![ask[r].session] = Taken(session[ask[r].session], ask[r].msg)]
  BY <1>3, <1>7
<1>8. ASSUME Found(ask[r].session), ~Waits(r), Reply(r, "fill", Ok200),
             session' = [session EXCEPT ![ask[r].session] =
                Answered(Taken(session[ask[r].session], ask[r].msg), ask[r].msg,
                    HandleRequest(ask[r].msg, session[ask[r].session].ready,
                                  session[ask[r].session].acl, TRUE))]
      PROVE  /\ Moves(r, {"route"}, {"fill"}) /\ Found(ask[r].session) /\ ~Waits(r)
             /\ session' = [session EXCEPT ![ask[r].session] =
                    Answered(Taken(session[ask[r].session], ask[r].msg), ask[r].msg,
                        HandleRequest(ask[r].msg, session[ask[r].session].ready,
                                      session[ask[r].session].acl, TRUE))]
  BY <1>2, <1>8
<1>9. \/ (\E code : Reply(r, "fill", code)) /\ UNCHANGED session
      \/ Raise(r) /\ UNCHANGED session
      \/ /\ Found(ask[r].session)
         /\ IF Waits(r)
            THEN /\ Pass(r, "tool")
                 /\ session' = [session EXCEPT ![ask[r].session] =
                                Taken(session[ask[r].session], ask[r].msg)]
            ELSE /\ Reply(r, "fill", Ok200)
                 /\ session' = [session EXCEPT ![ask[r].session] =
                        Answered(Taken(session[ask[r].session], ask[r].msg), ask[r].msg,
                            HandleRequest(ask[r].msg, session[ask[r].session].ready,
                                          session[ask[r].session].acl, TRUE))]
  BY Zenon DEF MessageRoute, Waits
<1>10. CASE Found(ask[r].session) /\ Waits(r)
  BY <1>1, <1>5, <1>6, <1>7, <1>9, <1>10, Zenon
<1>11. CASE Found(ask[r].session) /\ ~Waits(r)
  BY <1>1, <1>5, <1>6, <1>8, <1>9, <1>11, Zenon
<1> QED
  BY <1>5, <1>6, <1>9, <1>10, <1>11, Zenon

LEMMA ToolReturnsMoves ==
    ASSUME GatewayType, NEW r \in Request, ToolReturns(r)
    PROVE  Moves(r, {"tool"}, {"fill"})
<1>0. "fill" \in Phases
  BY DEF Phases
<1>1. Serving /\ given' = given /\ app' = app /\ req[r].phase = "tool" /\ Reply(r, "fill", Ok200)
  BY DEF ToolReturns, At
<1>2. Moves(r, {req[r].phase}, {"fill"})
  BY <1>0, <1>1, ReplyMoves
<1> QED
  BY <1>1, <1>2 DEF Moves

LEMMA FillMoves ==
    ASSUME GatewayType, NEW r \in Request, Fill(r)
    PROVE  Moves(r, {"fill"}, {"audit"})
<1>0. "audit" \in Phases
  BY DEF Phases
<1>1. Serving /\ given' = given /\ app' = app /\ req[r].phase = "fill"
  BY DEF Fill, At
<1>2. CASE Pass(r, "audit")
  <2>1. Moves(r, {req[r].phase}, {"audit"})
    BY <1>0, <1>1, <1>2, PassMoves
  <2> QED
    BY <1>1, <2>1 DEF Moves
<1>3. CASE MoveOn(r, [req[r] EXCEPT !.phase = "audit", !.body = FALSE])
  <2>1. req \in [Request -> RequestState]
        /\ req' = [req EXCEPT ![r] = [req[r] EXCEPT !.phase = "audit", !.body = FALSE]]
    BY <1>3 DEF GatewayType, MoveOn
  <2>2. [req[r] EXCEPT !.phase = "audit", !.body = FALSE] \in RequestState
    BY <1>0, <2>1 DEF RequestState
  <2> QED
    BY <1>1, <2>1, <2>2 DEF Moves, Onward, Same, RequestState
<1> QED
  BY <1>2, <1>3 DEF Fill

LEMMA AuditMoves ==
    ASSUME GatewayType, NEW r \in Request, Audit(r)
    PROVE  /\ \/ Moves(r, {"audit"}, {"done"}) /\ audit' = Appended(Row(r))
              \/ Moves(r, {"audit"}, {"unaudited"}) /\ audit' = audit
           /\ req'[r].status = req[r].status
<1>0. "done" \in Phases /\ "unaudited" \in Phases
  BY DEF Phases
<1>1. Serving /\ given' = given /\ app' = app /\ req[r].phase = "audit"
  BY DEF Audit, At
<1>2. CASE audit' = Appended(Row(r)) /\ Pass(r, "done")
  <2>1. Moves(r, {req[r].phase}, {"done"}) /\ req'[r].status = req[r].status
    BY <1>0, <1>1, <1>2, PassMoves
  <2> QED
    BY <1>1, <1>2, <2>1 DEF Moves
<1>3. CASE Pass(r, "unaudited") /\ UNCHANGED audit
  <2>1. Moves(r, {req[r].phase}, {"unaudited"}) /\ req'[r].status = req[r].status
    BY <1>0, <1>1, <1>3, PassMoves
  <2> QED
    BY <1>1, <1>3, <2>1 DEF Moves
<1> QED
  BY <1>2, <1>3 DEF Audit

Inner == {"quota", "read", "limit", "route", "tool", "fill"}

(* The ways of a request, all of them. *)
Way(r) ==
    \/ Moves(r, {"new"}, {"ip", "auth"})
    \/ Moves(r, {"ip"}, {"auth", "audit"})
    \/ Moves(r, {"auth"}, {"quota"}) /\ ~wiring.auth
    \/ Moves(r, {"auth"}, {"audit", "raised"})
    \/ Enters(r) \/ Books(r) \/ IsTraced(r) \/ Shown(r)
    \/ Moves(r, Inner, {"limit", "tool", "fill", "audit", "raised"})
    \/ Moves(r, {"audit"}, {"done", "unaudited"})

LEMMA RequestWay ==
    ASSUME GatewayType, TrailType, Callers, NEW r \in Request, RequestStep(r)
    PROVE  r \in DOMAIN ask /\ Way(r)
<1>0. req[r].phase = "new" \/ r \in DOMAIN ask
  BY DEF Callers
<1>1. CASE Arrive(r)
  BY <1>1, ArriveMoves DEF Way
<1>2. CASE IpLimit(r)
  BY <1>0, <1>2, IpLimitMoves DEF Way, IpLimit, At
<1>3. CASE Auth(r)
  <2>1. r \in DOMAIN ask
    BY <1>0, <1>3 DEF Auth, At
  <2> QED
    BY <1>3, <2>1, AuthMoves DEF Way
<1>4. CASE Quota(r)
  <2>1. Moves(r, {"quota"}, {"limit", "audit", "raised"}) \/ Books(r)
    BY <1>4, QuotaMoves
  <2> QED
    BY <1>0, <2>1 DEF Way, Moves, Books, Inner
<1>5. CASE QuotaRead(r)
  <2>1. Moves(r, {"read"}, {"limit", "audit", "raised"})
    BY <1>5, QuotaReadMoves
  <2> QED
    BY <1>0, <2>1 DEF Way, Moves, Inner
<1>6. CASE Limit(r)
  <2>1. Moves(r, {"limit"}, {"audit"}) \/ IsTraced(r)
    BY <1>6, LimitMoves
  <2> QED
    BY <1>0, <2>1 DEF Way, Moves, IsTraced, Inner
<1>7. CASE KbRoute(r) \/ OpenRoute(r) \/ SseRoute(r)
  <2>1. Moves(r, {"route"}, {"fill", "raised"}) \/ Moves(r, {"route"}, {"fill"})
    BY <1>7, KbRouteMoves, OpenRouteMoves, SseRouteMoves
  <2> QED
    BY <1>0, <2>1 DEF Way, Moves, Inner
<1>8. CASE AuditRoute(r)
  <2>1. Moves(r, {"route"}, {"fill"}) \/ Shown(r)
    BY <1>8, AuditRouteMoves
  <2> QED
    BY <1>0, <2>1 DEF Way, Moves, Shown, Inner
<1>9. CASE MessageRoute(r)
  <2>1. \/ Moves(r, {"route"}, {"fill"}) \/ Moves(r, {"route"}, {"tool"})
        \/ Moves(r, {"route"}, {"raised"})
    BY <1>9, MessageRouteMoves
  <2> QED
    BY <1>0, <2>1 DEF Way, Moves, Inner
<1>10. CASE ToolReturns(r) \/ Fill(r)
  <2>1. Moves(r, {"tool"}, {"fill"}) \/ Moves(r, {"fill"}, {"audit"})
    BY <1>10, ToolReturnsMoves, FillMoves
  <2> QED
    BY <1>0, <2>1 DEF Way, Moves, Inner
<1>11. CASE Audit(r)
  <2>1. Moves(r, {"audit"}, {"done"}) \/ Moves(r, {"audit"}, {"unaudited"})
    BY <1>11, AuditMoves
  <2> QED
    BY <1>0, <2>1 DEF Way, Moves
<1> QED
  BY <1>1, <1>2, <1>3, <1>4, <1>5, <1>6, <1>7, <1>8, <1>9, <1>10, <1>11 DEF RequestStep

(* What every way has in common. *)
LEMMA WayOnward ==
    ASSUME NEW r \in Request, Way(r)
    PROVE  Onward(r)
BY DEF Way, Moves, Enters, Books, IsTraced, Shown

(* The scenario does not change, nor who is meant to own what. *)
LEMMA SameOwners ==
    ASSUME given' = given
    PROVE  /\ ask' = ask /\ wiring' = wiring
           /\ \A r : Owner(r)' = Owner(r) /\ OwnerAcl(r)' = OwnerAcl(r)
BY DEF ask, wiring, Owner, OwnerAcl

(* Past authentication, a request is its credential's. *)
LEMMA CallersOnward ==
    ASSUME GatewayType, Callers, NEW r \in Request, r \in DOMAIN ask, Way(r)
    PROVE  Callers'
<1>0. Onward(r)
  BY WayOnward
<1>1. given' = given /\ \A q \in Request \ {r} : req'[q] = req[q]
  BY <1>0 DEF Onward
<1>2. /\ ask' = ask /\ wiring' = wiring
      /\ \A q : Owner(q)' = Owner(q) /\ OwnerAcl(q)' = OwnerAcl(q)
  BY <1>1, SameOwners
<1> DEFINE Fine(q, record) ==
        /\ record.phase # "new" => q \in DOMAIN ask
        /\ record.phase \in Outside => ~record.traced /\ record.who = Nobody
        /\ record.traced \/ record.phase \in Inner =>
              /\ record.who.tenant = Owner(q) /\ record.who.acl = OwnerAcl(q)
              /\ wiring.auth => record.who.known
        /\ wiring.auth => \A row \in record.rows : row.tenant = Owner(q)
<1>3. \A q \in Request : Fine(q, req[q])
  BY DEF Callers, Passed, Inner
<1>4. Fine(r, req'[r])
  <2>0. Fine(r, req[r])
    BY <1>3
  <2>1. CASE Moves(r, {"new"}, {"ip", "auth"}) \/ Moves(r, {"ip"}, {"auth", "audit"})
             \/ Moves(r, {"auth"}, {"audit", "raised"})
    <3>1. /\ Same(r) /\ req[r].phase \in Outside
          /\ req'[r].phase \in {"ip", "auth", "audit", "raised"}
      BY <2>1 DEF Moves, Outside
    <3> QED
      BY <2>0, <3>1 DEF Same, Outside, Inner
  <2>2. CASE Moves(r, {"auth"}, {"quota"}) /\ ~wiring.auth
    <3>1. Same(r) /\ req[r].phase \in Outside /\ req'[r].phase = "quota"
      BY <2>2 DEF Moves, Outside
    <3>2. req'[r].who = Nobody /\ Nobody.tenant = DefaultTenant /\ Nobody.acl = Unrestricted
      BY <2>0, <3>1 DEF Same, Nobody
    <3>3. Owner(r) = DefaultTenant /\ OwnerAcl(r) = Unrestricted
      BY <2>2 DEF Owner, OwnerAcl
    <3> QED
      BY <2>2, <3>1, <3>2, <3>3 DEF Outside
  <2>3. CASE Enters(r)
    <3>1. Owner(r) = Identity[ask[r].cred].tenant /\ OwnerAcl(r) = Identity[ask[r].cred].acl
      BY <2>3 DEF Enters, Owner, OwnerAcl
    <3> QED
      BY <2>0, <2>3, <3>1 DEF Enters, Outside
  <2>4. CASE Books(r) \/ IsTraced(r)
    BY <2>0, <2>4 DEF Books, IsTraced, Inner, Outside
  <2>5. CASE Shown(r)
    BY <2>0, <2>5 DEF Shown, MayRead, Inner, Outside
  <2>6. CASE Moves(r, Inner, {"limit", "tool", "fill", "audit", "raised"})
    BY <2>0, <2>6 DEF Moves, Same, Inner, Outside
  <2>7. CASE Moves(r, {"audit"}, {"done", "unaudited"})
    BY <2>0, <2>7 DEF Moves, Same, Inner, Outside
  <2> QED
    BY <2>1, <2>2, <2>3, <2>4, <2>5, <2>6, <2>7 DEF Way
<1>5. \A q \in Request : Fine(q, req'[q])
  BY <1>1, <1>3, <1>4
<1> QED
  BY <1>2, <1>5 DEF Callers, Passed, Inner

(* Nor do the end of the process and what goes on around the requests      *)
(* change whose they are.                                                  *)
Drops ==
    /\ given' = given
    /\ req' \in [Request -> RequestState]
    /\ \A r \in Request :
        \/ req'[r] = req[r]
        \/ /\ req[r].phase \notin {"new", "done", "unaudited", "raised", "dropped"}
           /\ req'[r].phase = "dropped" /\ Same(r) /\ req'[r].status = req[r].status

LEMMA EndedDrops ==
    ASSUME GatewayType, Ended
    PROVE  Drops /\ \A r \in Request : req'[r].phase \in {"new", "done", "unaudited", "raised", "dropped"}
<1>1. req \in [Request -> RequestState] /\ given' = given
      /\ req' = [r \in Request |-> IF Underway(r) THEN [req[r] EXCEPT !.phase = "dropped"]
                                   ELSE req[r]]
  BY DEF GatewayType, Ended
<1>2. \A r \in Request : [req[r] EXCEPT !.phase = "dropped"] \in RequestState
  BY <1>1 DEF RequestState, Phases
<1>3. req' \in [Request -> RequestState]
  BY <1>1, <1>2
<1>4. ASSUME NEW r \in Request
      PROVE  /\ \/ req'[r] = req[r] /\ ~Underway(r)
                \/ Underway(r) /\ req'[r].phase = "dropped" /\ Same(r) /\ req'[r].status = req[r].status
  BY <1>1 DEF Same, RequestState
<1> QED
  BY <1>1, <1>3, <1>4 DEF Drops, Underway

LEMMA DropsCallers ==
    ASSUME Callers, Drops
    PROVE  Callers'
<1>1. /\ ask' = ask /\ wiring' = wiring
      /\ \A q : Owner(q)' = Owner(q) /\ OwnerAcl(q)' = OwnerAcl(q)
  BY SameOwners DEF Drops
<1>2. ASSUME NEW r \in Request
      PROVE  /\ req'[r].phase # "new" => r \in DOMAIN ask
             /\ req'[r].phase \in Outside => ~req'[r].traced /\ req'[r].who = Nobody
             /\ Passed(r)' => /\ req'[r].who.tenant = Owner(r) /\ req'[r].who.acl = OwnerAcl(r)
                              /\ wiring.auth => req'[r].who.known
             /\ wiring.auth => \A row \in req'[r].rows : row.tenant = Owner(r)
  <2>1. CASE req'[r] = req[r]
    BY <2>1 DEF Callers, Passed
  <2>2. CASE req'[r] # req[r]
    BY <2>2 DEF Drops, Same, Callers, Passed, Outside
  <2> QED
    BY <2>1, <2>2
<1> QED
  BY <1>1, <1>2 DEF Callers

-------------------------------------------------------------------------------
(* The bytes of an upload. *)
LEMMA Bytes ==
    ASSUME NEW m \in Nat, NEW n \in Nat
    PROVE  /\ Cardinality(m..(m + n - 1)) = n /\ IsFiniteSet(m..(m + n - 1))
           /\ \A s \in SUBSET (0..(m - 1)) : s \cap (m..(m + n - 1)) = {}
           /\ m..(m + n - 1) \in SUBSET (0..(m + n - 1))
           /\ SUBSET (0..(m - 1)) \subseteq SUBSET (0..(m + n - 1))
<1>1. Cardinality(m..(m + n - 1)) = n /\ IsFiniteSet(m..(m + n - 1))
  BY FS_Interval
<1>2. 0..(m - 1) \subseteq 0..(m + n - 1)
  OBVIOUS
<1>3. m..(m + n - 1) \subseteq 0..(m + n - 1)
  OBVIOUS
<1>4. (0..(m - 1)) \cap (m..(m + n - 1)) = {}
  OBVIOUS
<1> QED
  BY <1>1, <1>2, <1>3, <1>4

(* No set of bytes is larger than the usage. *)
LEMMA WithinUsage ==
    ASSUME NEW m \in Nat, NEW s \in SUBSET (0..(m - 1))
    PROVE  IsFiniteSet(s) /\ Cardinality(s) \in Nat /\ Cardinality(s) <= m
<1>1. IsFiniteSet(0..(m - 1)) /\ Cardinality(0..(m - 1)) = m
  BY FS_Interval
<1> QED
  BY <1>1, FS_Subset, FS_CardinalityType

LEMMA Together ==
    ASSUME NEW m \in Nat, NEW s \in SUBSET (0..(m - 1)), NEW t \in SUBSET (0..(m - 1)),
           s \cap t = {}
    PROVE  Cardinality(s \cup t) = Cardinality(s) + Cardinality(t)
<1>1. IsFiniteSet(s) /\ IsFiniteSet(t) /\ Cardinality(s) \in Nat /\ Cardinality(t) \in Nat
  BY WithinUsage
<1>2. Cardinality(s \cap t) = 0
  BY FS_EmptySet
<1> QED
  <2>1. Cardinality(s \cup t) = Cardinality(s) + Cardinality(t) - Cardinality(s \cap t)
    BY <1>1, FS_Union
  <2> QED
    BY <1>1, <1>2, <2>1

(* Uploads leave an account, whose usage and grants do not change. *)
LEMMA AccountShrinks ==
    ASSUME Charges, ask' = ask, NEW a \in Account,
           quota'[a].upload_bytes = quota[a].upload_bytes, granted'[a] = granted[a],
           Pending(a)' \subseteq Pending(a)
    PROVE  granted'[a] <= UploadCap /\ \E paid : \E own : Divides(a, paid, own)'
<1>1. granted'[a] <= UploadCap
  BY DEF Charges
<1>2. PICK paid, own : Divides(a, paid, own)
  BY DEF Charges
<1>3. PICK own2 : own2 = [r \in Pending(a)' |-> own[r]]
  OBVIOUS
<1>4. Divides(a, paid, own2)'
  <2>1. /\ own2 \in [Pending(a)' -> SUBSET (0..(quota'[a].upload_bytes - 1))]
        /\ \A r \in Pending(a)' : own2[r] = own[r]
    BY <1>2, <1>3 DEF Divides
  <2> QED
    BY <1>2, <2>1 DEF Divides
<1> QED
  BY <1>1, <1>4

(* That happens to all of them. *)
LEMMA ChargesShrink ==
    ASSUME Charges, ask' = ask,
           \A a \in Account : /\ quota'[a].upload_bytes = quota[a].upload_bytes
                              /\ granted'[a] = granted[a]
                              /\ Pending(a)' \subseteq Pending(a)
    PROVE  Charges'
BY AccountShrinks DEF Charges

(* The account of a request, of the month m. *)
LEMMA AccountOf ==
    ASSUME GatewayType, NEW r \in Request, NEW m \in 0..MaxPeriod
    PROVE  <<req[r].who.tenant, m>> \in Account
BY DEF GatewayType, RequestState, Caller, Account

(* bump_quota on upload_bytes. *)
LEMMA BumpUpload ==
    ASSUME QuotaType, NEW a \in Account, NEW size \in Nat,
           quota' = [quota EXCEPT ![a]["upload_bytes"] = @ + size]
    PROVE  /\ quota' \in [Account -> Usage]
           /\ quota'[a].upload_bytes = quota[a].upload_bytes + size
           /\ \A o \in Account \ {a} : quota'[o] = quota[o]
<1>1. quota[a] \in Usage /\ quota[a].upload_bytes \in Nat
  BY DEF QuotaType, Usage
<1>2. PICK n \in Nat : n = quota[a].upload_bytes + size
  BY <1>1
<1>3. quota' = [quota EXCEPT ![a] = [quota[a] EXCEPT !.upload_bytes = n]]
  BY <1>2 DEF QuotaType
<1>4. [quota[a] EXCEPT !.upload_bytes = n] \in Usage /\ [quota[a] EXCEPT !.upload_bytes = n].upload_bytes = n
  BY <1>1 DEF Usage
<1> QED
  BY <1>2, <1>3, <1>4 DEF QuotaType

LEMMA BumpTokens ==
    ASSUME QuotaType, NEW a \in Account, NEW size \in Nat,
           quota' = [quota EXCEPT ![a]["tokens"] = @ + size]
    PROVE  /\ quota' \in [Account -> Usage]
           /\ \A o \in Account : quota'[o].upload_bytes = quota[o].upload_bytes
           /\ \A o \in Account \ {a} : quota'[o] = quota[o]
<1>1. quota[a] \in Usage /\ quota[a].tokens \in Nat
  BY DEF QuotaType, Usage
<1>2. PICK n \in Nat : n = quota[a].tokens + size
  BY <1>1
<1>3. quota' = [quota EXCEPT ![a] = [quota[a] EXCEPT !.tokens = n]]
  BY <1>2 DEF QuotaType
<1>4. /\ [quota[a] EXCEPT !.tokens = n] \in Usage
      /\ [quota[a] EXCEPT !.tokens = n].upload_bytes = quota[a].upload_bytes
  BY <1>1 DEF Usage
<1> QED
  BY <1>3, <1>4 DEF QuotaType

LEMMA GrantType ==
    ASSUME QuotaType, NEW a \in Account, NEW size \in Nat, Grant(a, size)
    PROVE  /\ granted' \in [Account -> Nat] /\ granted'[a] = granted[a] + size
           /\ \A o \in Account \ {a} : granted'[o] = granted[o]
<1>1. granted[a] \in Nat /\ granted[a] + size \in Nat
  BY DEF QuotaType
<1> QED
  BY <1>1 DEF QuotaType, Grant

(* Which uploads are pending after a request went on. *)
LEMMA PendingOnward ==
    ASSUME NEW r \in Request, Onward(r), req'[r].phase # "read", NEW a
    PROVE  Pending(a)' = Pending(a) \ {r}
BY DEF Pending, Onward

LEMMA PendingBooked ==
    ASSUME NEW r \in Request, Books(r), NEW a
    PROVE  /\ a = <<req[r].who.tenant, period>> => Pending(a)' = Pending(a) \cup {r}
           /\ a # <<req[r].who.tenant, period>> => Pending(a)' = Pending(a)
           /\ r \notin Pending(a)
<1>1. /\ req'[r].phase = "read" /\ req[r].phase = "quota"
      /\ <<req'[r].who.tenant, req'[r].period>> = <<req[r].who.tenant, period>>
      /\ \A q \in Request \ {r} : req'[q] = req[q]
  BY DEF Books, Onward
<1> QED
  BY <1>1 DEF Pending

(* The table: the usage is written, and compared later. *)
LEMMA BookedCharges ==
    ASSUME GatewayType, QuotaType, Charges, NEW r \in Request, ask' = ask, ask[r].size \in Nat,
           Books(r), Bump(req[r].who.tenant, "upload_bytes", ask[r].size), UNCHANGED granted
    PROVE  Charges'
<1>1. PICK a \in Account : a = <<req[r].who.tenant, period>>
  BY AccountOf DEF GatewayType
<1>2. PICK m \in Nat, n \in Nat : m = quota[a].upload_bytes /\ n = ask[r].size
  BY DEF QuotaType, Usage
<1>3. /\ quota'[a].upload_bytes = m + n /\ \A o \in Account \ {a} : quota'[o] = quota[o]
  <2>1. quota' = [quota EXCEPT ![a]["upload_bytes"] = @ + ask[r].size]
    BY <1>1 DEF Bump
  <2> QED
    BY <1>2, <2>1, BumpUpload
<1>4. ASSUME NEW o \in Account \ {a}
      PROVE  granted'[o] <= UploadCap /\ \E paid : \E own : Divides(o, paid, own)'
  <2>1. Pending(o)' = Pending(o)
    BY <1>1, <1>4, PendingBooked
  <2> QED
    BY <1>3, <2>1, AccountShrinks
<1>5. PICK paid, own : Divides(a, paid, own)
  BY DEF Charges
<1>6. /\ paid \in SUBSET (0..(m - 1)) /\ own \in [Pending(a) -> SUBSET (0..(m - 1))]
      /\ Cardinality(paid) = granted[a]
      /\ \A q \in Pending(a) : Cardinality(own[q]) = ask[q].size /\ own[q] \cap paid = {}
      /\ \A p, q \in Pending(a) : p # q => own[p] \cap own[q] = {}
  BY <1>2, <1>5 DEF Divides
<1>7. PICK new : new = m..(m + n - 1)
  OBVIOUS
<1>8. /\ Cardinality(new) = n /\ new \in SUBSET (0..(m + n - 1))
      /\ \A s \in SUBSET (0..(m - 1)) : s \cap new = {}
      /\ SUBSET (0..(m - 1)) \subseteq SUBSET (0..(m + n - 1))
  BY <1>7, Bytes
<1>9. Pending(a)' = Pending(a) \cup {r} /\ r \notin Pending(a)
  BY <1>1, PendingBooked
<1>10. PICK own2 : own2 = [q \in Pending(a)' |-> IF q = r THEN new ELSE own[q]]
  OBVIOUS
<1>11. /\ own2 \in [Pending(a)' -> SUBSET (0..(m + n - 1))]
       /\ own2[r] = new /\ \A q \in Pending(a) : own2[q] = own[q]
  BY <1>6, <1>8, <1>9, <1>10
<1>12. Divides(a, paid, own2)'
  <2>1. paid \in SUBSET (0..(m + n - 1)) /\ Cardinality(paid) = granted'[a]
    BY <1>6, <1>8
  <2>2. \A q \in Pending(a)' : Cardinality(own2[q]) = ask[q].size /\ own2[q] \cap paid = {}
    BY <1>2, <1>6, <1>8, <1>9, <1>11
  <2>3. \A p, q \in Pending(a)' : p # q => own2[p] \cap own2[q] = {}
    BY <1>6, <1>8, <1>9, <1>11
  <2> QED
    BY <1>3, <1>11, <2>1, <2>2, <2>3 DEF Divides
<1>13. granted'[a] <= UploadCap
  BY DEF Charges
<1> QED
  BY <1>4, <1>12, <1>13 DEF Charges

(* The usage is added and compared at once: granted or refused. *)
LEMMA ComparedCharges ==
    ASSUME GatewayType, QuotaType, Charges, NEW r \in Request, ask' = ask, ask[r].size \in Nat,
           Onward(r), req[r].phase = "quota", req'[r].phase # "read",
           Bump(req[r].who.tenant, "upload_bytes", ask[r].size),
           \/ UNCHANGED granted
           \/ /\ Grant(<<req[r].who.tenant, period>>, ask[r].size)
              /\ WithinUploadCap(quota'[<<req[r].who.tenant, period>>], ask[r].size)
    PROVE  Charges' /\ granted' \in [Account -> Nat]
<1>1. PICK a \in Account : a = <<req[r].who.tenant, period>>
  BY AccountOf DEF GatewayType
<1>2. PICK m \in Nat, n \in Nat : m = quota[a].upload_bytes /\ n = ask[r].size
  BY DEF QuotaType, Usage
<1>3. /\ quota'[a].upload_bytes = m + n /\ \A o \in Account \ {a} : quota'[o] = quota[o]
  BY <1>1, <1>2, BumpUpload, ZenonT(60) DEF Bump
<1>4. \/ granted' = granted
      \/ /\ granted'[a] = granted[a] + n /\ m + n <= UploadCap
         /\ granted' \in [Account -> Nat]
         /\ \A o \in Account \ {a} : granted'[o] = granted[o]
  <2>1. CASE Grant(a, n) /\ WithinUploadCap(quota'[a], n)
    BY <1>3, <2>1, GrantType DEF WithinUploadCap
  <2> QED
    BY <1>1, <1>2, <2>1
<1>5. \A o \in Account : Pending(o)' = Pending(o)
  <2>1. \A o \in Account : r \notin Pending(o)
    BY DEF Pending
  <2>2. \A o \in Account : Pending(o)' = Pending(o) \ {r}
    BY PendingOnward
  <2> QED
    BY <2>1, <2>2
<1>6. ASSUME NEW o \in Account \ {a}
      PROVE  granted'[o] <= UploadCap /\ \E paid : \E own : Divides(o, paid, own)'
  <2>1. granted'[o] = granted[o] /\ Pending(o)' \subseteq Pending(o) /\ quota'[o] = quota[o]
    BY <1>3, <1>4, <1>5
  <2> QED
    BY <2>1, AccountShrinks
<1>7. PICK paid, own : Divides(a, paid, own)
  BY DEF Charges
<1>8. /\ paid \in SUBSET (0..(m - 1)) /\ own \in [Pending(a) -> SUBSET (0..(m - 1))]
      /\ Cardinality(paid) = granted[a]
      /\ \A q \in Pending(a) : Cardinality(own[q]) = ask[q].size /\ own[q] \cap paid = {}
      /\ \A p, q \in Pending(a) : p # q => own[p] \cap own[q] = {}
  BY <1>2, <1>7 DEF Divides
<1>9. PICK new : new = m..(m + n - 1)
  OBVIOUS
<1>10. /\ Cardinality(new) = n /\ new \in SUBSET (0..(m + n - 1))
       /\ \A s \in SUBSET (0..(m - 1)) : s \cap new = {}
       /\ SUBSET (0..(m - 1)) \subseteq SUBSET (0..(m + n - 1))
  BY <1>9, Bytes
<1>11. own \in [Pending(a)' -> SUBSET (0..(m + n - 1))] /\ m + n \in Nat
  BY <1>5, <1>8, <1>10
<1>12. CASE granted' = granted
  <2>1. Divides(a, paid, own)'
    BY <1>3, <1>5, <1>8, <1>10, <1>11, <1>12 DEF Divides
  <2> QED
    BY <1>6, <1>12, <2>1 DEF Charges, QuotaType
<1>13. CASE /\ granted'[a] = granted[a] + n /\ m + n <= UploadCap
            /\ granted' \in [Account -> Nat]
  <2>1. PICK paid2 : paid2 = paid \cup new
    OBVIOUS
  <2>2. paid2 \in SUBSET (0..(m + n - 1)) /\ Cardinality(paid2) = granted'[a]
    <3>1. paid \in SUBSET (0..(m + n - 1)) /\ paid \cap new = {}
      BY <1>8, <1>10
    <3>2. Cardinality(paid \cup new) = Cardinality(paid) + Cardinality(new)
      <4>1. PICK k \in Nat : k = m + n
        BY <1>11
      <4>2. paid \in SUBSET (0..(k - 1)) /\ new \in SUBSET (0..(k - 1))
        BY <1>10, <3>1, <4>1
      <4> QED
        BY <3>1, <4>2, Together
    <3> QED
      BY <1>8, <1>10, <1>13, <2>1, <3>1, <3>2
  <2>3. Divides(a, paid2, own)'
    <3>1. \A q \in Pending(a)' : Cardinality(own[q]) = ask[q].size /\ own[q] \cap paid2 = {}
      BY <1>5, <1>8, <1>10, <2>1
    <3> QED
      BY <1>3, <1>5, <1>8, <1>11, <2>2, <3>1 DEF Divides
  <2>4. granted'[a] <= UploadCap
    <3>1. Cardinality(paid2) <= m + n
      BY <1>11, <2>2, WithinUsage
    <3> QED
      BY <1>13, <2>2, <3>1, QuotaConstants
  <2> QED
    BY <1>6, <1>13, <2>3, <2>4 DEF Charges
<1> QED
  BY <1>4, <1>12, <1>13

(* The table is read: what the upload added is in the usage it reads, so   *)
(* are the bytes granted before it, and no byte counts twice.              *)
LEMMA ReadCharges ==
    ASSUME GatewayType, QuotaType, Charges, NEW r \in Request, ask' = ask, ask[r].size \in Nat,
           Onward(r), req[r].phase = "read", req'[r].phase # "read", quota' = quota,
           Grant(<<req[r].who.tenant, req[r].period>>, ask[r].size),
           WithinUploadCap(quota'[<<req[r].who.tenant, req[r].period>>], ask[r].size)
    PROVE  Charges' /\ granted' \in [Account -> Nat]
<1>1. PICK a \in Account : a = <<req[r].who.tenant, req[r].period>>
  <2>1. req[r].period \in 0..MaxPeriod
    BY DEF GatewayType, RequestState
  <2> QED
    BY <2>1, AccountOf
<1>2. PICK m \in Nat, n \in Nat : m = quota[a].upload_bytes /\ n = ask[r].size
  BY DEF QuotaType, Usage
<1>3. /\ granted'[a] = granted[a] + n /\ m <= UploadCap
      /\ granted' \in [Account -> Nat]
      /\ \A o \in Account \ {a} : granted'[o] = granted[o]
  <2>1. Grant(a, n) /\ WithinUploadCap(quota[a], n)
    BY <1>1, <1>2
  <2> QED
    BY <1>2, <2>1, GrantType DEF WithinUploadCap
<1>4. \A o \in Account : Pending(o)' = Pending(o) \ {r}
  BY PendingOnward
<1>5. r \in Pending(a)
  BY <1>1 DEF Pending
<1>6. ASSUME NEW o \in Account \ {a}
      PROVE  granted'[o] <= UploadCap /\ \E paid : \E own : Divides(o, paid, own)'
  <2>1. granted'[o] = granted[o] /\ Pending(o)' \subseteq Pending(o) /\ quota'[o] = quota[o]
    BY <1>3, <1>4
  <2> QED
    BY <2>1, AccountShrinks
<1>7. PICK paid, own : Divides(a, paid, own)
  BY DEF Charges
<1>8. /\ paid \in SUBSET (0..(m - 1)) /\ own \in [Pending(a) -> SUBSET (0..(m - 1))]
      /\ Cardinality(paid) = granted[a]
      /\ \A q \in Pending(a) : Cardinality(own[q]) = ask[q].size /\ own[q] \cap paid = {}
      /\ \A p, q \in Pending(a) : p # q => own[p] \cap own[q] = {}
  BY <1>2, <1>7 DEF Divides
<1>9. PICK mine, paid2, own2 : /\ mine = own[r] /\ paid2 = paid \cup mine
                               /\ own2 = [q \in Pending(a)' |-> own[q]]
  OBVIOUS
<1>10. /\ own2 \in [Pending(a)' -> SUBSET (0..(m - 1))]
       /\ \A q \in Pending(a)' : own2[q] = own[q]
  BY <1>4, <1>8, <1>9
<1>11. paid2 \in SUBSET (0..(m - 1)) /\ Cardinality(paid2) = granted'[a]
  <2>1. mine \in SUBSET (0..(m - 1)) /\ paid \cap mine = {} /\ Cardinality(mine) = n
    BY <1>2, <1>5, <1>8, <1>9
  <2>2. Cardinality(paid \cup mine) = Cardinality(paid) + Cardinality(mine)
    BY <1>8, <2>1, Together
  <2> QED
    BY <1>3, <1>8, <1>9, <2>1, <2>2
<1>12. Divides(a, paid2, own2)'
  <2>1. \A q \in Pending(a)' : Cardinality(own2[q]) = ask[q].size /\ own2[q] \cap paid2 = {}
    BY <1>4, <1>5, <1>8, <1>9, <1>10
  <2>2. \A p, q \in Pending(a)' : p # q => own2[p] \cap own2[q] = {}
    BY <1>4, <1>8, <1>10
  <2> QED
    BY <1>2, <1>10, <1>11, <2>1, <2>2 DEF Divides
<1>13. granted'[a] <= UploadCap
  <2>1. Cardinality(paid2) <= m
    BY <1>11, WithinUsage
  <2> QED
    BY <1>3, <1>11, <2>1, QuotaConstants
<1> QED
  BY <1>3, <1>6, <1>12, <1>13 DEF Charges

(* Only QuotaMiddleware makes an upload pending. *)
LEMMA OnlyQuotaBooks ==
    ASSUME NEW r \in Request, RequestStep(r), ~Quota(r), Way(r)
    PROVE  req'[r].phase # "read"
<1>1. req[r].phase # "quota"
  BY Places DEF RequestStep
<1> QED
  BY <1>1 DEF Way, Moves, Enters, Books, IsTraced, Shown

(* A charge is made on the account of the tenant whose credential the      *)
(* request carries.                                                        *)
LEMMA UsersCharged ==
    ASSUME Users, given' = given, NEW r \in Request, r \in DOMAIN ask,
           ask[r].route \in {"upload", "chat"}, NEW a \in Account, a[1] = Owner(r),
           \A o \in Account \ {a} : quota'[o] = quota[o]
    PROVE  Users'
<1>1. /\ ask' = ask
      /\ \A q : Owner(q)' = Owner(q) /\ OwnerAcl(q)' = OwnerAcl(q)
  BY SameOwners
<1> QED
  BY <1>1 DEF Users

LEMMA UsersKept ==
    ASSUME Users, given' = given, quota' = quota
    PROVE  Users'
<1>1. /\ ask' = ask
      /\ \A q : Owner(q)' = Owner(q) /\ OwnerAcl(q)' = OwnerAcl(q)
  BY SameOwners
<1> QED
  BY <1>1 DEF Users

QuotaInv == QuotaType /\ Charges /\ Users

(* A request keeps the quota's invariant. *)
LEMMA QuotaOnward ==
    ASSUME GatewayType, TrailType, Callers, QuotaInv, NEW r \in Request, RequestStep(r)
    PROVE  QuotaInv'
<1>0. r \in DOMAIN ask /\ Way(r) /\ Onward(r) /\ given' = given
  BY RequestWay, WayOnward DEF Onward
<1>1. QuotaType /\ Charges /\ Users /\ ask' = ask
  BY <1>0, SameOwners DEF QuotaInv
<1>2. ask[r].size \in Nat
  BY <1>0, GatewayConstants DEF GatewayType, ask
<1>3. req[r].phase \in Inner => req[r].who.tenant = Owner(r)
  BY DEF Callers, Passed, Inner
<1>4. PICK a \in Account : a = <<req[r].who.tenant, period>> /\ a[1] = req[r].who.tenant
  <2>1. <<req[r].who.tenant, period>> \in Account
    BY AccountOf DEF GatewayType
  <2> QED
    BY <2>1
<1>5. ASSUME UNCHANGED <<quota, granted>>, req'[r].phase # "read" PROVE QuotaInv'
  <2>1. \A o \in Account : Pending(o)' = Pending(o) \ {r}
    BY <1>0, <1>5, PendingOnward
  <2>2. Charges'
    BY <1>1, <1>5, <2>1, ChargesShrink
  <2> QED
    BY <1>0, <1>1, <1>5, <2>2, UsersKept DEF QuotaInv, QuotaType
<1>6. CASE Quota(r)
  <2>0. req[r].phase = "quota" /\ Owner(r) = a[1] /\ Serving /\ app' = app
    BY <1>3, <1>4, <1>6 DEF Quota, At, Inner
  <2>1. CASE Pass(r, "limit") /\ UNCHANGED <<quota, granted>>
    <3>1. Moves(r, {req[r].phase}, {"limit"})
      BY <1>0, <2>0, <2>1, PassMoves DEF Phases
    <3> QED
      BY <1>5, <2>1, <3>1 DEF Moves
  <2>2. CASE /\ Counted(r) /\ Bump(req[r].who.tenant, "upload_bytes", ask[r].size)
             /\ Compare(r, <<req[r].who.tenant, period>>)
    <3>1. /\ req'[r].phase # "read"
          /\ \/ UNCHANGED granted
             \/ /\ Grant(<<req[r].who.tenant, period>>, ask[r].size)
                /\ WithinUploadCap(quota'[<<req[r].who.tenant, period>>], ask[r].size)
      BY <1>0, <2>0, <2>2, CompareMoves DEF Moves
    <3>2. Charges' /\ granted' \in [Account -> Nat]
      BY <1>0, <1>1, <1>2, <2>0, <2>2, <3>1, ComparedCharges
    <3>3. quota' \in [Account -> Usage] /\ \A o \in Account \ {a} : quota'[o] = quota[o]
      BY <1>1, <1>2, <1>4, <2>2, BumpUpload DEF Bump
    <3>4. Users'
      BY <1>0, <1>1, <2>0, <2>2, <3>3, UsersCharged DEF Counted
    <3> QED
      BY <3>2, <3>3, <3>4 DEF QuotaInv, QuotaType
  <2>3. CASE /\ Counted(r) /\ Bump(req[r].who.tenant, "upload_bytes", ask[r].size)
             /\ MoveOn(r, [req[r] EXCEPT !.phase = "read", !.period = period])
             /\ UNCHANGED granted
    <3>1. Books(r)
      BY <1>0, <2>0, <2>3, BooksMoves
    <3>2. Charges'
      BY <1>1, <1>2, <2>3, <3>1, BookedCharges
    <3>3. quota' \in [Account -> Usage] /\ \A o \in Account \ {a} : quota'[o] = quota[o]
      BY <1>1, <1>2, <1>4, <2>3, BumpUpload DEF Bump
    <3>4. Users'
      BY <1>0, <1>1, <2>0, <2>3, <3>3, UsersCharged DEF Counted
    <3> QED
      BY <1>1, <2>3, <3>2, <3>3, <3>4 DEF QuotaInv, QuotaType
  <2>4. CASE Raise(r) /\ UNCHANGED <<quota, granted>>
    <3>1. Moves(r, {req[r].phase}, {"raised"})
      BY <1>0, <2>0, <2>4, RaiseMoves
    <3> QED
      BY <1>5, <2>4, <3>1 DEF Moves
  <2> QED
    BY <1>6, <2>1, <2>2, <2>3, <2>4 DEF Quota
<1>7. CASE QuotaRead(r)
  <2>0. /\ req[r].phase = "read" /\ Serving /\ app' = app /\ quota' = quota
        /\ Moves(r, {"read"}, {"limit", "audit", "raised"}) /\ req'[r].phase # "read"
    BY <1>7, QuotaReadMoves DEF QuotaRead, At, Moves
  <2>1. CASE UNCHANGED granted
    BY <1>5, <2>0, <2>1
  <2>2. CASE /\ Grant(<<req[r].who.tenant, req[r].period>>, ask[r].size)
             /\ WithinUploadCap(quota'[<<req[r].who.tenant, req[r].period>>], ask[r].size)
    <3>1. Charges' /\ granted' \in [Account -> Nat]
      BY <1>0, <1>1, <1>2, <2>0, <2>2, ReadCharges
    <3> QED
      BY <1>0, <1>1, <2>0, <3>1, UsersKept DEF QuotaInv, QuotaType
  <2>3. \/ UNCHANGED granted
        \/ /\ Grant(<<req[r].who.tenant, req[r].period>>, ask[r].size)
           /\ WithinUploadCap(quota'[<<req[r].who.tenant, req[r].period>>], ask[r].size)
    BY <1>0, <1>7, <2>0, CompareMoves DEF QuotaRead
  <2> QED
    BY <2>1, <2>2, <2>3
<1>8. CASE Fill(r)
  <2>0. /\ req[r].phase = "fill" /\ granted' = granted /\ Owner(r) = a[1]
        /\ req'[r].phase # "read"
    BY <1>3, <1>4, <1>8, FillMoves DEF Fill, At, Moves, Inner
  <2>1. CASE quota' = quota
    BY <1>5, <2>0, <2>1
  <2>2. CASE ask[r].route = "chat" /\ Bump(req[r].who.tenant, "tokens", ask[r].size)
    <3>1. /\ quota' \in [Account -> Usage]
          /\ \A o \in Account : quota'[o].upload_bytes = quota[o].upload_bytes
          /\ \A o \in Account \ {a} : quota'[o] = quota[o]
      BY <1>1, <1>2, <1>4, <2>2, BumpTokens DEF Bump
    <3>2. \A o \in Account : Pending(o)' = Pending(o) \ {r}
      BY <1>0, <2>0, PendingOnward
    <3>3. Charges'
      BY <1>1, <2>0, <3>1, <3>2, ChargesShrink
    <3>4. Users'
      BY <1>0, <1>1, <2>0, <2>2, <3>1, UsersCharged
    <3> QED
      BY <1>1, <2>0, <3>1, <3>3, <3>4 DEF QuotaInv, QuotaType
  <2> QED
    BY <1>8, <2>1, <2>2 DEF Fill
<1>9. CASE ~Quota(r) /\ ~QuotaRead(r) /\ ~Fill(r)
  <2>1. UNCHANGED <<quota, granted>>
    <3>1. CASE Arrive(r) \/ IpLimit(r) \/ Auth(r) \/ Limit(r)
      BY <3>1 DEF Arrive, IpLimit, Auth, Limit, quotaVars
    <3>2. CASE KbRoute(r) \/ OpenRoute(r) \/ AuditRoute(r) \/ SseRoute(r) \/ MessageRoute(r)
      BY <3>2, RoutesLeave DEF quotaVars
    <3>3. CASE ToolReturns(r) \/ Audit(r)
      BY <3>3 DEF ToolReturns, Audit, quotaVars
    <3> QED
      BY <1>9, <3>1, <3>2, <3>3 DEF RequestStep
  <2>2. req'[r].phase # "read"
    BY <1>0, <1>9, OnlyQuotaBooks
  <2> QED
    BY <1>5, <2>1, <2>2
<1> QED
  BY <1>6, <1>7, <1>8, <1>9

(* The end of the process drops pending uploads, and with them the usage   *)
(* unless it is in the table; a new month leaves the old ones alone.       *)
LEMMA QuotaAround ==
    ASSUME QuotaInv, Drops,
           \/ UNCHANGED <<quota, granted>>
           \/ /\ quota' = [a \in Account |-> NoUsage] /\ granted' = [a \in Account |-> 0]
              /\ \A r \in Request : req'[r].phase # "read"
    PROVE  QuotaInv'
<1>0. QuotaType /\ Charges /\ Users /\ given' = given /\ ask' = ask
  BY SameOwners DEF QuotaInv, Drops
<1>1. CASE UNCHANGED <<quota, granted>>
  <2>1. \A a \in Account : Pending(a)' \subseteq Pending(a)
    BY DEF Pending, Drops, Same
  <2>2. Charges'
    BY <1>0, <1>1, <2>1, ChargesShrink
  <2> QED
    BY <1>0, <1>1, <2>2, UsersKept DEF QuotaInv, QuotaType
<1>2. CASE /\ quota' = [a \in Account |-> NoUsage] /\ granted' = [a \in Account |-> 0]
           /\ \A r \in Request : req'[r].phase # "read"
  <2>1. NoUsage \in Usage /\ NoUsage.upload_bytes = 0
    BY DEF NoUsage, Usage
  <2>2. QuotaType'
    BY <1>2, <2>1 DEF QuotaType
  <2>3. Users'
    BY <1>2 DEF Users
  <2>4. Charges'
    <3> SUFFICES ASSUME NEW a \in Account
                 PROVE  granted'[a] <= UploadCap /\ \E paid : \E own : Divides(a, paid, own)'
      BY DEF Charges
    <3>1. Pending(a)' = {} /\ quota'[a].upload_bytes = 0 /\ granted'[a] = 0
      BY <1>2, <2>1 DEF Pending
    <3>2. PICK own : own = [r \in Pending(a)' |-> {}]
      OBVIOUS
    <3>3. Cardinality({}) = 0
      BY FS_EmptySet
    <3>4. Divides(a, {}, own)'
      BY <3>1, <3>2, <3>3 DEF Divides
    <3> QED
      BY <3>1, <3>4, QuotaConstants
  <2> QED
    BY <2>2, <2>3, <2>4 DEF QuotaInv
<1> QED
  BY <1>1, <1>2

-------------------------------------------------------------------------------
(* Rows and requests that have theirs stay as they are. *)
LEMMA TrailKept ==
    ASSUME Trail, given' = given, audit' = audit, app' = app,
           \A q \in Request : /\ req'[q].phase = "done" <=> req[q].phase = "done"
                              /\ req[q].phase = "done" => req'[q].status = req[q].status
    PROVE  Trail'
<1>1. /\ ask' = ask /\ wiring' = wiring
      /\ \A q : Owner(q)' = Owner(q) /\ OwnerAcl(q)' = OwnerAcl(q)
  BY SameOwners
<1>2. \A i \in DOMAIN audit : audit[i].by \in Request
  <2>1. audit \in Seq(AuditRow)
    BY DEF Trail, TrailType
  <2>2. \A i \in DOMAIN audit : audit[i] \in AuditRow
    BY <2>1
  <2> QED
    BY <2>2 DEF AuditRow
<1>3. TrailType' /\ OneRow' /\ Ring' /\ Started'
  BY <1>1 DEF Trail, TrailType, OneRow, Ring, Started, Serving
<1>4. TrueRows'
  BY <1>1, <1>2 DEF Trail, TrueRows
<1>5. LostRows'
  BY <1>1 DEF Trail, LostRows, NoRow, Serving
<1> QED
  BY <1>3, <1>4, <1>5 DEF Trail

(* The store: the row comes last, and the first may go. *)
LEMMA AppendedRows ==
    ASSUME Trail, NEW row \in AuditRow, audit' = Appended(row)
    PROVE  /\ audit' \in Seq(AuditRow)
           /\ \E i \in DOMAIN audit' : audit'[i] = row
           /\ \A i \in DOMAIN audit' : audit'[i] = row \/ \E j \in DOMAIN audit : audit'[i] = audit[j]
           /\ (\A j \in DOMAIN audit : audit[j].by # row.by) =>
                \A i, j \in DOMAIN audit' : audit'[i].by = audit'[j].by => i = j
           /\ \/ /\ wiring.metadata \/ Len(audit) < MaxEntries
                 /\ Len(audit') = Len(audit) + 1
                 /\ \A j \in DOMAIN audit : \E i \in DOMAIN audit' : audit'[i] = audit[j]
              \/ ~wiring.metadata /\ Len(audit') = MaxEntries
<1>0. audit \in Seq(AuditRow) /\ OneRow /\ Ring /\ MaxEntries \in Nat \ {0}
  BY GatewayConstants DEF Trail, TrailType
<1>1. PICK n \in Nat : n = Len(audit) /\ DOMAIN audit = 1..n
  <2>0. audit \in Seq(AuditRow)
    BY <1>0
  <2>1. Len(audit) \in Nat
    BY <2>0
  <2>2. DOMAIN audit = 1..Len(audit)
    BY <2>0
  <2> QED
    BY <2>1, <2>2
<1>2. PICK all \in Seq(AuditRow) : all = Append(audit, row)
  <2>0. audit \in Seq(AuditRow)
    BY <1>0
  <2>1. Append(audit, row) \in Seq(AuditRow)
    BY <2>0
  <2> QED
    BY <2>1
<1>3. /\ Len(all) = n + 1 /\ DOMAIN all = 1..(n + 1) /\ all[n + 1] = row
      /\ \A i \in 1..n : all[i] = audit[i]
  BY <1>0, <1>1, <1>2
<1>4. \A i, j \in 1..n : audit[i].by = audit[j].by => i = j
  BY <1>0, <1>1 DEF OneRow
<1>5. (\A j \in 1..n : audit[j].by # row.by) =>
          \A i, j \in 1..(n + 1) : all[i].by = all[j].by => i = j
  <2> SUFFICES ASSUME \A j \in 1..n : audit[j].by # row.by,
                      NEW i \in 1..(n + 1), NEW j \in 1..(n + 1), all[i].by = all[j].by
               PROVE  i = j
    OBVIOUS
  <2>1. CASE i \in 1..n /\ j \in 1..n
    BY <1>3, <1>4, <2>1
  <2>2. CASE i = n + 1 /\ j \in 1..n
    BY <1>3, <2>2
  <2>3. CASE i \in 1..n /\ j = n + 1
    BY <1>3, <2>3
  <2> QED
    BY <2>1, <2>2, <2>3
<1>6. CASE audit' = all /\ (wiring.metadata \/ n < MaxEntries)
  <2>1. \A i \in 1..(n + 1) : all[i] = row \/ \E j \in 1..n : all[i] = audit[j]
    <3> TAKE i \in 1..(n + 1)
    <3>1. i \in 1..n \/ i = n + 1
      OBVIOUS
    <3> QED
      BY <1>3, <3>1
  <2>2. \A j \in 1..n : j \in 1..(n + 1) /\ all[j] = audit[j]
    BY <1>3
  <2>3. n + 1 \in 1..(n + 1)
    OBVIOUS
  <2>4. DOMAIN audit' = 1..(n + 1) /\ Len(audit') = Len(audit) + 1
    BY <1>1, <1>3, <1>6
  <2>5. audit' \in Seq(AuditRow) /\ \E i \in DOMAIN audit' : audit'[i] = row
    BY <1>2, <1>3, <1>6, <2>3, <2>4
  <2>6. \A i \in DOMAIN audit' : audit'[i] = row \/ \E j \in DOMAIN audit : audit'[i] = audit[j]
    BY <1>1, <1>6, <2>1, <2>4
  <2>7. (\A j \in DOMAIN audit : audit[j].by # row.by) =>
            \A i, j \in DOMAIN audit' : audit'[i].by = audit'[j].by => i = j
    BY <1>1, <1>5, <1>6, <2>4
  <2>8. \A j \in DOMAIN audit : \E i \in DOMAIN audit' : audit'[i] = audit[j]
    BY <1>1, <1>6, <2>2, <2>4
  <2> QED
    BY <1>1, <1>6, <2>4, <2>5, <2>6, <2>7, <2>8
<1>7. CASE audit' = Tail(all) /\ ~wiring.metadata /\ n = MaxEntries
  <2>1. /\ Tail(all) \in Seq(AuditRow) /\ Len(Tail(all)) = n /\ DOMAIN Tail(all) = 1..n
        /\ \A i \in 1..n : Tail(all)[i] = all[i + 1]
    BY <1>2, <1>3
  <2>2. n \in 1..n /\ Tail(all)[n] = row
    BY <1>0, <1>3, <1>7, <2>1
  <2>3. \A i \in 1..n : Tail(all)[i] = row \/ \E j \in 1..n : Tail(all)[i] = audit[j]
    <3> TAKE i \in 1..n
    <3>1. i + 1 \in 1..n \/ i + 1 = n + 1
      OBVIOUS
    <3> QED
      BY <1>3, <2>1, <3>1
  <2>4. (\A j \in 1..n : audit[j].by # row.by) =>
            \A i, j \in 1..n : Tail(all)[i].by = Tail(all)[j].by => i = j
    <3> SUFFICES ASSUME \A j \in 1..n : audit[j].by # row.by,
                        NEW i \in 1..n, NEW j \in 1..n, Tail(all)[i].by = Tail(all)[j].by
                 PROVE  i = j
      OBVIOUS
    <3>1. all[i + 1].by = all[j + 1].by /\ i + 1 \in 1..(n + 1) /\ j + 1 \in 1..(n + 1)
      BY <2>1
    <3>2. i + 1 = j + 1
      BY <1>5, <3>1
    <3> QED
      BY <3>2
  <2>5. audit' \in Seq(AuditRow) /\ Len(audit') = MaxEntries /\ DOMAIN audit' = 1..n
    BY <1>7, <2>1
  <2>6. \E i \in DOMAIN audit' : audit'[i] = row
    BY <1>7, <2>2, <2>5
  <2>7. \A i \in DOMAIN audit' : audit'[i] = row \/ \E j \in DOMAIN audit : audit'[i] = audit[j]
    BY <1>1, <1>7, <2>3, <2>5
  <2>8. (\A j \in DOMAIN audit : audit[j].by # row.by) =>
            \A i, j \in DOMAIN audit' : audit'[i].by = audit'[j].by => i = j
    BY <1>1, <1>7, <2>4, <2>5
  <2> QED
    BY <1>7, <2>5, <2>6, <2>7, <2>8
<1>8. \/ audit' = all /\ (wiring.metadata \/ n < MaxEntries)
      \/ audit' = Tail(all) /\ ~wiring.metadata /\ n = MaxEntries
  <2>1. CASE wiring.metadata
    BY <1>2, <2>1 DEF Appended
  <2>2. CASE ~wiring.metadata
    <3>1. n <= MaxEntries
      BY <1>0, <1>1, <2>2 DEF Ring
    <3>2. audit' = LastEntries(all)
      BY <1>2, <2>2 DEF Appended
    <3>3. CASE n + 1 > MaxEntries
      BY <1>0, <1>3, <2>2, <3>1, <3>2, <3>3 DEF LastEntries
    <3>4. CASE ~(n + 1 > MaxEntries)
      BY <1>0, <1>3, <2>2, <3>1, <3>2, <3>4 DEF LastEntries
    <3> QED
      BY <3>3, <3>4
  <2> QED
    BY <2>1, <2>2
<1> QED
  BY <1>6, <1>7, <1>8

(* Only AuditMiddleware writes rows, and behind it a request is over. *)
LEMMA OnlyAuditWrites ==
    ASSUME NEW r \in Request, RequestStep(r), Way(r), ~Audit(r)
    PROVE  audit' = audit /\ req[r].phase # "done" /\ req'[r].phase # "done"
<1>1. req[r].phase # "audit"
  BY Places DEF RequestStep
<1>2. audit' = audit
  <2>1. CASE Arrive(r) \/ IpLimit(r) \/ Auth(r) \/ Quota(r) \/ QuotaRead(r) \/ Limit(r)
    BY <2>1 DEF Arrive, IpLimit, Auth, Quota, QuotaRead, Limit
  <2>2. CASE KbRoute(r) \/ OpenRoute(r) \/ AuditRoute(r) \/ SseRoute(r) \/ MessageRoute(r)
    BY <2>2, RoutesLeave
  <2>3. CASE ToolReturns(r) \/ Fill(r)
    BY <2>3 DEF ToolReturns, Fill
  <2> QED
    BY <2>1, <2>2, <2>3 DEF RequestStep
<1> QED
  BY <1>1, <1>2 DEF Way, Moves, Enters, Books, IsTraced, Shown, Inner

(* A request keeps the trail. *)
LEMMA TrailOnward ==
    ASSUME GatewayType, Callers, Trail, NEW r \in Request, RequestStep(r)
    PROVE  Trail'
<1>0. /\ r \in DOMAIN ask /\ Way(r) /\ Onward(r)
  <2>1. TrailType
    BY DEF Trail
  <2> QED
    BY <2>1, RequestWay, WayOnward
<1>1. /\ given' = given /\ app' = app /\ Serving
      /\ \A q \in Request \ {r} : req'[q] = req[q]
  BY <1>0 DEF Onward
<1>2. ASSUME audit' = audit, req[r].phase # "done", req'[r].phase # "done"
      PROVE  Trail'
  <2>1. \A q \in Request : /\ req'[q].phase = "done" <=> req[q].phase = "done"
                           /\ req[q].phase = "done" => req'[q].status = req[q].status
    <3> TAKE q \in Request
    <3> QED
      BY <1>1, <1>2
  <2> QED
    BY <1>1, <1>2, <2>1, TrailKept
<1>3. CASE ~Audit(r)
  <2>1. audit' = audit /\ req[r].phase # "done" /\ req'[r].phase # "done"
    BY <1>0, <1>3, OnlyAuditWrites
  <2> QED
    BY <1>2, <2>1
<1>4. CASE Moves(r, {"audit"}, {"unaudited"}) /\ audit' = audit
  BY <1>2, <1>4 DEF Moves
<1>5. CASE Moves(r, {"audit"}, {"done"}) /\ audit' = Appended(Row(r)) /\ req'[r].status = req[r].status
  <2>0. req[r].phase = "audit" /\ req'[r].phase = "done"
    BY <1>5 DEF Moves
  <2>1. PICK row \in AuditRow : /\ row = Row(r) /\ row.by = r /\ row.status = req[r].status
                                /\ row.traced = req[r].traced /\ row.tenant = req[r].who.tenant
    <3>1. req[r] \in RequestState
      BY DEF GatewayType
    <3>2. /\ req[r].who \in Caller /\ req[r].status \in Int /\ req[r].traced \in BOOLEAN
      BY <3>1 DEF RequestState
    <3>3. req[r].who.tenant \in Tenant /\ req[r].who.key \in Cred
      BY <3>2 DEF Caller
    <3>4. Row(r) \in AuditRow
      BY <3>2, <3>3 DEF Row, AuditRow
    <3> QED
      BY <3>4 DEF Row
  <2>2. \A j \in DOMAIN audit : audit[j].by # r
    BY <2>0 DEF Trail, TrueRows
  <2>3. audit' = Appended(row) /\ \A j \in DOMAIN audit : audit[j].by # row.by
    BY <1>5, <2>1, <2>2
  <2>4. /\ audit' \in Seq(AuditRow)
        /\ \E i \in DOMAIN audit' : audit'[i] = row
        /\ \A i \in DOMAIN audit' : audit'[i] = row \/ \E j \in DOMAIN audit : audit'[i] = audit[j]
        /\ \A i, j \in DOMAIN audit' : audit'[i].by = audit'[j].by => i = j
        /\ \/ /\ wiring.metadata \/ Len(audit) < MaxEntries
              /\ Len(audit') = Len(audit) + 1
              /\ \A j \in DOMAIN audit : \E i \in DOMAIN audit' : audit'[i] = audit[j]
           \/ ~wiring.metadata /\ Len(audit') = MaxEntries
    BY <2>3, AppendedRows
  <2>5. /\ ask' = ask /\ wiring' = wiring
        /\ \A q : Owner(q)' = Owner(q) /\ OwnerAcl(q)' = OwnerAcl(q)
    BY <1>1, SameOwners
  <2>6. TrailType' /\ OneRow'
    BY <1>1, <2>4 DEF Trail, TrailType, OneRow
  <2>7. Ring'
    <3>1. Len(audit) \in Nat
      BY DEF Trail, TrailType
    <3> QED
      BY <2>4, <2>5, <3>1, GatewayConstants DEF Ring
  <2>8. Started'
    <3>1. app.starts >= 1
      BY <1>1 DEF Trail, Started
    <3> QED
      BY <1>1, <3>1 DEF Started
  <2>9. TrueRows'
    <3> SUFFICES ASSUME NEW i \in DOMAIN audit'
                 PROVE  /\ req'[audit'[i].by].phase = "done"
                        /\ audit'[i].status = req'[audit'[i].by].status
                        /\ audit'[i].traced => audit'[i].tenant = Owner(audit'[i].by)
      BY <2>5 DEF TrueRows
    <3>1. CASE audit'[i] = row
      <4>1. row.traced => row.tenant = Owner(r)
        BY <2>1 DEF Callers, Passed
      <4> QED
        BY <1>5, <2>0, <2>1, <3>1, <4>1
    <3>2. CASE \E j \in DOMAIN audit : audit'[i] = audit[j]
      <4>1. PICK j \in DOMAIN audit : audit'[i] = audit[j]
        BY <3>2
      <4>2. audit[j].by \in Request \ {r}
        <5>1. audit \in Seq(AuditRow)
          BY DEF Trail, TrailType
        <5>2. audit[j] \in AuditRow
          BY <5>1
        <5> QED
          BY <2>2, <5>2 DEF AuditRow
      <4>3. req'[audit[j].by] = req[audit[j].by]
        BY <1>1, <4>2
      <4> QED
        BY <4>1, <4>3 DEF Trail, TrueRows
    <3> QED
      BY <2>4, <3>1, <3>2
  <2>10. LostRows'
    <3> SUFFICES ASSUME NEW q \in Request, req'[q].phase = "done",
                        \A i \in DOMAIN audit' : audit'[i].by # q
                 PROVE  ~wiring.metadata /\ (Len(audit') = MaxEntries \/ app.starts > 1)
      BY <1>1, <2>5 DEF LostRows, NoRow
    <3>1. q # r
      BY <2>1, <2>4
    <3>2. req[q].phase = "done"
      BY <1>1, <3>1
    <3>3. CASE Len(audit') = MaxEntries /\ ~wiring.metadata
      BY <3>3
    <3>4. CASE /\ wiring.metadata \/ Len(audit) < MaxEntries
               /\ \A j \in DOMAIN audit : \E i \in DOMAIN audit' : audit'[i] = audit[j]
      <4>1. NoRow(q)
        BY <3>4 DEF NoRow
      <4>2. ~wiring.metadata /\ (Len(audit) = MaxEntries \/ app.starts > 1)
        BY <1>1, <3>2, <4>1 DEF Trail, LostRows
      <4>3. Len(audit) \in Nat /\ MaxEntries \in Nat
        BY GatewayConstants DEF Trail, TrailType
      <4> QED
        BY <3>4, <4>2, <4>3
    <3> QED
      BY <2>4, <3>3, <3>4
  <2> QED
    BY <2>6, <2>7, <2>8, <2>9, <2>10 DEF Trail
<1> QED
  BY <1>3, <1>4, <1>5, AuditMoves

(* The end of the process keeps the table, or loses every row. *)
LEMMA TrailEnded ==
    ASSUME GatewayType, Trail, Ended, Serving, app'.phase \in {"created", "stopped"},
           app'.starts = app.starts, app' \in [phase : {"created", "serving", "stopped"}, starts : Nat]
    PROVE  Trail'
<1>1. Drops /\ given' = given
  BY EndedDrops DEF Drops
<1>2. \A q \in Request : /\ req'[q].phase = "done" <=> req[q].phase = "done"
                         /\ req[q].phase = "done" => req'[q].status = req[q].status
  BY <1>1 DEF Drops
<1>3. /\ ask' = ask /\ wiring' = wiring
      /\ \A q : Owner(q)' = Owner(q) /\ OwnerAcl(q)' = OwnerAcl(q)
  BY <1>1, SameOwners
<1>4. ~Serving' /\ (Started' \/ app'.starts >= 1)
  BY DEF Serving, Trail, Started
<1>5. Started'
  BY <1>4 DEF Started
<1>6. CASE wiring.metadata
  <2>1. audit' = audit
    BY <1>6 DEF Ended
  <2>2. \A i \in DOMAIN audit : audit[i].by \in Request
    <3>1. audit \in Seq(AuditRow)
      BY DEF Trail, TrailType
    <3>2. \A i \in DOMAIN audit : audit[i] \in AuditRow
      BY <3>1
    <3> QED
      BY <3>2 DEF AuditRow
  <2>3. TrailType' /\ OneRow' /\ Ring'
    BY <1>3, <1>6, <2>1 DEF Trail, TrailType, OneRow, Ring
  <2>4. TrueRows'
    BY <1>2, <1>3, <2>1, <2>2 DEF Trail, TrueRows
  <2>5. LostRows'
    BY <1>2, <1>3, <1>6, <2>1 DEF Trail, LostRows, NoRow
  <2> QED
    BY <1>5, <2>3, <2>4, <2>5 DEF Trail
<1>7. CASE ~wiring.metadata
  <2>1. audit' = <<>>
    BY <1>7 DEF Ended
  <2>2. audit' \in Seq(AuditRow) /\ DOMAIN audit' = {} /\ Len(audit') = 0
    BY <2>1
  <2>3. TrailType' /\ OneRow' /\ TrueRows'
    BY <2>2 DEF TrailType, OneRow, TrueRows
  <2>4. Ring'
    BY <2>2, GatewayConstants DEF Ring
  <2>5. LostRows'
    BY <1>3, <1>4, <1>7 DEF LostRows
  <2> QED
    BY <1>5, <2>3, <2>4, <2>5 DEF Trail
<1> QED
  BY <1>6, <1>7

(* A start that is not the first may find rows lost. *)
LEMMA TrailStart ==
    ASSUME Trail, given' = given, req' = req, audit' = audit, ~Serving,
           app'.starts = app.starts + 1, app' \in [phase : {"created", "serving", "stopped"}, starts : Nat]
    PROVE  Trail'
<1>1. /\ ask' = ask /\ wiring' = wiring
      /\ \A q : Owner(q)' = Owner(q) /\ OwnerAcl(q)' = OwnerAcl(q)
  BY SameOwners
<1>2. app.starts \in Nat
  BY DEF Trail, TrailType
<1>3. TrailType' /\ OneRow' /\ Ring' /\ TrueRows'
  BY <1>1 DEF Trail, TrailType, OneRow, Ring, TrueRows
<1>4. Started'
  BY <1>2 DEF Started
<1>5. LostRows'
  <2> SUFFICES ASSUME NEW q \in Request, req[q].phase = "done", NoRow(q)
               PROVE  ~wiring.metadata /\ app'.starts > 1
    BY <1>1 DEF LostRows, NoRow
  <2>1. ~wiring.metadata /\ app.starts >= 1
    BY DEF Trail, LostRows, Started
  <2> QED
    BY <1>2, <2>1
<1> QED
  BY <1>3, <1>4, <1>5 DEF Trail

-------------------------------------------------------------------------------
(* What every scenario says of a request that comes. *)
LEMMA Asked ==
    ASSUME GatewayType
    PROVE  /\ DOMAIN ask \subseteq Request
           /\ \A r \in DOMAIN ask : ask[r].session \in Session /\ ask[r].msg.id \in Ids
           /\ \A r, q \in DOMAIN ask :
                /\ ask[r].route = "sse" /\ ask[q].route = "sse" /\ ask[r].session = ask[q].session
                => r = q
<1>1. given \in Scenarios /\ ask = given.ask
  BY DEF GatewayType, ask
<1>2. \A r \in DOMAIN ask : ask[r].msg.id \in Ids
  BY <1>1 DEF Ids
<1> QED
  BY <1>1, <1>2, GatewayConstants

LEMMA ToolsAreFew ==
    ASSUME GatewayType, NEW s
    PROVE  IsFiniteSet(InTool(s)) /\ Cardinality(InTool(s)) \in Nat
<1>1. InTool(s) \subseteq Request /\ IsFiniteSet(Request)
  BY Asked, GatewayConstants DEF InTool
<1>2. IsFiniteSet(InTool(s))
  BY <1>1, FS_Subset
<1> QED
  BY <1>2, FS_CardinalityType

(* Behind its route a request does not come back to it. *)
LEMMA PastTheRoute ==
    ASSUME GatewayType, NEW r \in Request, RequestStep(r), req[r].phase \notin Before
    PROVE  req'[r].phase \notin Before
<1>1. ToolReturns(r) \/ Fill(r) \/ Audit(r)
  BY Places DEF RequestStep, Before
<1>2. \/ Moves(r, {"tool"}, {"fill"}) \/ Moves(r, {"fill"}, {"audit"})
      \/ Moves(r, {"audit"}, {"done"}) \/ Moves(r, {"audit"}, {"unaudited"})
  BY <1>1, ToolReturnsMoves, FillMoves, AuditMoves
<1> QED
  BY <1>2 DEF Moves, Before

(* Only two of the routes of MCP and the return of a tool touch a session. *)
LEMMA OnlyMcpTalks ==
    ASSUME GatewayType, TrailType, Callers, NEW r \in Request, RequestStep(r),
           ~SseRoute(r), ~MessageRoute(r), ~ToolReturns(r)
    PROVE  session' = session /\ req[r].phase # "tool" /\ req'[r].phase # "tool"
<1>0. r \in DOMAIN ask /\ Way(r)
  BY RequestWay
<1>1. session' = session
  <2>1. CASE Arrive(r) \/ IpLimit(r) \/ Auth(r) \/ Quota(r) \/ QuotaRead(r) \/ Limit(r)
    BY <2>1 DEF Arrive, IpLimit, Auth, Quota, QuotaRead, Limit, mcpVars
  <2>2. CASE KbRoute(r) \/ OpenRoute(r) \/ AuditRoute(r) \/ Fill(r) \/ Audit(r)
    BY <2>2 DEF KbRoute, OpenRoute, AuditRoute, Fill, Audit, mcpVars
  <2> QED
    BY <2>1, <2>2 DEF RequestStep
<1>2. req[r].phase # "tool"
  BY Places DEF RequestStep
<1>3. req'[r].phase # "tool"
  <2>1. CASE Arrive(r)
    BY <2>1, ArriveMoves DEF Moves
  <2>2. CASE IpLimit(r)
    BY <2>2, IpLimitMoves DEF Moves
  <2>3. CASE Auth(r)
    BY <1>0, <2>3, AuthMoves DEF Moves, Enters
  <2>4. CASE Quota(r)
    BY <2>4, QuotaMoves DEF Moves, Books
  <2>5. CASE QuotaRead(r)
    BY <2>5, QuotaReadMoves DEF Moves
  <2>6. CASE Limit(r)
    BY <2>6, LimitMoves DEF Moves, IsTraced
  <2>7. CASE KbRoute(r)
    BY <2>7, KbRouteMoves DEF Moves
  <2>8. CASE OpenRoute(r)
    BY <2>8, OpenRouteMoves DEF Moves
  <2>9. CASE AuditRoute(r)
    BY <2>9, AuditRouteMoves DEF Moves, Shown
  <2>10. CASE Fill(r)
    BY <2>10, FillMoves DEF Moves
  <2>11. CASE Audit(r)
    BY <2>11, AuditMoves DEF Moves
  <2> QED
    BY <2>1, <2>2, <2>3, <2>4, <2>5, <2>6, <2>7, <2>8, <2>9, <2>10, <2>11 DEF RequestStep
<1> QED
  BY <1>1, <1>2, <1>3

(* Nobody talks: the sessions stay, and so do the requests at their tools. *)
LEMMA TalksKept ==
    ASSUME GatewayType, Talks, given' = given, session' = session,
           \A q \in Request : /\ req'[q].phase = "tool" <=> req[q].phase = "tool"
                              /\ req[q].phase \notin Before => req'[q].phase \notin Before
    PROVE  Talks'
<1>1. ask' = ask /\ wiring' = wiring
  BY SameOwners
<1>2. DOMAIN ask \subseteq Request
  BY Asked
<1>3. \A s \in Session : InTool(s)' = InTool(s)
  BY <1>1, <1>2 DEF InTool
<1>4. \A s : OpenerAcl(s)' = OpenerAcl(s) /\ Sent(s)' = Sent(s)
  BY <1>1 DEF OpenerAcl, Opener, Sent
<1>5. \A s, answer : Proper(s, answer)' <=> Proper(s, answer)
  BY <1>1, <1>4 DEF Proper
<1>6. Opened' /\ Tools'
  BY <1>1, <1>2, <1>4 DEF Talks, Opened, Tools
<1>7. Owing'
  BY <1>3, <1>5 DEF Talks, Owing
<1> QED
  BY <1>6, <1>7 DEF Talks

(* One session moves. *)
LEMMA OneSession ==
    ASSUME GatewayType, Callers, Talks, given' = given,
           NEW s \in Session, NEW record \in SessionState,
           session' = [session EXCEPT ![s] = record],
           \A o \in Session \ {s} : InTool(o)' = InTool(o),
           \A q \in Request : req[q].phase \notin Before => req'[q].phase \notin Before,
           \A q \in Request : req'[q].phase = "tool" =>
                req[q].phase = "tool" \/ (ask[q].route = "message" /\ ask[q].session = s),
           session[s].known => record.known,
           (\E q \in Request : req'[q].phase = "tool" /\ req[q].phase # "tool") => record.known,
           record.open => record.known,
           record.known =>
                /\ record.acl = OpenerAcl(s)
                /\ \E r \in DOMAIN ask :
                    ask[r].route = "sse" /\ ask[r].session = s /\ req'[r].phase \notin Before,
           record.open =>
                /\ Len(record.seen) + Len(record.queue) + Cardinality(InTool(s)') = record.owed
                /\ \A i \in DOMAIN record.seen : Proper(s, record.seen[i])
                /\ \A i \in DOMAIN record.queue : Proper(s, record.queue[i])
    PROVE  Talks'
<1>1. ask' = ask /\ wiring' = wiring
  BY SameOwners
<1>2. DOMAIN ask \subseteq Request
  BY Asked
<1>3. /\ session \in [Session -> SessionState] /\ session' \in [Session -> SessionState]
      /\ session'[s] = record /\ \A o \in Session \ {s} : session'[o] = session[o]
  BY DEF Talks
<1>4. \A o : OpenerAcl(o)' = OpenerAcl(o) /\ Sent(o)' = Sent(o)
  BY <1>1 DEF OpenerAcl, Opener, Sent
<1>5. \A o, answer : Proper(o, answer)' <=> Proper(o, answer)
  BY <1>1, <1>4 DEF Proper
<1>6. Opened'
  <2> SUFFICES ASSUME NEW o \in Session
               PROVE  /\ session'[o].open => session'[o].known
                      /\ session'[o].known =>
                            /\ session'[o].acl = OpenerAcl(o)
                            /\ \E r \in DOMAIN ask :
                                ask[r].route = "sse" /\ ask[r].session = o /\ req'[r].phase \notin Before
    BY <1>1, <1>4 DEF Opened
  <2>1. CASE o = s
    BY <1>3, <2>1
  <2>2. CASE o # s
    <3>1. session'[o] = session[o]
      BY <1>3, <2>2
    <3> QED
      BY <1>2, <3>1 DEF Talks, Opened
  <2> QED
    BY <2>1, <2>2
<1>7. Tools'
  <2> SUFFICES ASSUME NEW q \in Request, req'[q].phase = "tool"
               PROVE  ask[q].route = "message" /\ session'[ask[q].session].known
    BY <1>1 DEF Tools
  <2>1. CASE req[q].phase = "tool"
    <3>1. q \in DOMAIN ask /\ ask[q].route = "message" /\ session[ask[q].session].known
      BY <2>1 DEF Callers, Talks, Tools
    <3>2. ask[q].session \in Session
      BY <3>1, Asked
    <3> QED
      BY <1>3, <3>1, <3>2
  <2>2. CASE req[q].phase # "tool"
    BY <1>3, <2>2
  <2> QED
    BY <2>1, <2>2
<1>8. Owing'
  <2> SUFFICES ASSUME NEW o \in Session, session'[o].open
               PROVE  /\ Len(session'[o].seen) + Len(session'[o].queue) + Cardinality(InTool(o)')
                            = session'[o].owed
                      /\ \A i \in DOMAIN session'[o].seen : Proper(o, session'[o].seen[i])
                      /\ \A i \in DOMAIN session'[o].queue : Proper(o, session'[o].queue[i])
    BY <1>5 DEF Owing
  <2>1. CASE o = s
    BY <1>3, <2>1
  <2>2. CASE o # s
    <3>1. session'[o] = session[o] /\ InTool(o)' = InTool(o)
      BY <1>3, <2>2
    <3> QED
      BY <3>1 DEF Talks, Owing
  <2> QED
    BY <2>1, <2>2
<1> QED
  BY <1>3, <1>6, <1>7, <1>8 DEF Talks

(* The methods that reach no tool's handler. *)
Elsewhere == {"garbage", "initialize", "tools/list", "no arguments", "no such method", "no such tool"}

(* What a server answers, and that a tool which read a knowledge base was  *)
(* within the access list.                                                 *)
LEMMA Handled ==
    ASSUME NEW msg, NEW ready \in BOOLEAN, NEW acl, NEW works \in BOOLEAN
    PROVE  LET code == HandleRequest(msg, ready, acl, works)
           IN  code \in Int /\ (code = Ok /\ Reads(msg) => InScope(acl, msg.kb))
<1>1. ASSUME msg.method \in {"garbage", "initialize"}
      PROVE  HandleRequest(msg, ready, acl, works) \in {PARSE_ERROR, Ok} /\ ~Reads(msg)
  <2>1. CASE msg.method = "garbage"
    <3>1. HandleRequest(msg, ready, acl, works) = PARSE_ERROR
      BY <2>1 DEF HandleRequest, Reads
    <3> QED
      BY <2>1, <3>1 DEF Reads
  <2>2. CASE msg.method = "initialize"
    <3>1. HandleRequest(msg, ready, acl, works) = Ok
      BY <2>2 DEF HandleRequest, Reads
    <3> QED
      BY <2>2, <3>1 DEF Reads
  <2> QED
    BY <1>1, <2>1, <2>2
<1>2. ASSUME msg.method \notin {"garbage", "initialize"}, ~ready
      PROVE  HandleRequest(msg, ready, acl, works) = INVALID_REQUEST
  BY <1>2 DEF HandleRequest, Reads
<1>3. ASSUME ready, msg.method \in {"tools/list", "no such method", "no such tool"}
      PROVE  /\ HandleRequest(msg, ready, acl, works) \in {Ok, METHOD_NOT_FOUND, INVALID_PARAMS}
             /\ ~Reads(msg)
  BY <1>3 DEF HandleRequest, Reads
<1>4. ASSUME ready, msg.method \notin Elsewhere,
             Reads(msg), ~InScope(acl, msg.kb)
      PROVE  HandleRequest(msg, ready, acl, works) = IsError
  BY <1>4 DEF HandleRequest, Elsewhere
<1>5. ASSUME ready, msg.method \notin Elsewhere,
             ~(Reads(msg) /\ ~InScope(acl, msg.kb))
      PROVE  HandleRequest(msg, ready, acl, works) \in {Ok, IsError}
  BY <1>5 DEF HandleRequest, Elsewhere
<1>6. /\ {PARSE_ERROR, Ok, INVALID_REQUEST, METHOD_NOT_FOUND, INVALID_PARAMS, INTERNAL_ERROR, IsError}
            \subseteq Int
      /\ INVALID_REQUEST # Ok /\ IsError # Ok
  BY DEF PARSE_ERROR, Ok, INVALID_REQUEST, METHOD_NOT_FOUND, INVALID_PARAMS, INTERNAL_ERROR, IsError
<1>7. CASE msg.method \in {"garbage", "initialize"}
  BY <1>1, <1>6, <1>7
<1>8. CASE msg.method \notin {"garbage", "initialize"} /\ ~ready
  BY <1>2, <1>6, <1>8
<1>9. CASE ready /\ msg.method \in {"tools/list", "no such method", "no such tool"}
  BY <1>3, <1>6, <1>9
<1>10. CASE ready /\ msg.method = "no arguments"
  <2>1. HandleRequest(msg, ready, acl, works) \in {INTERNAL_ERROR, IsError} /\ ~Reads(msg)
    BY <1>10 DEF HandleRequest, Reads
  <2> QED
    BY <1>6, <2>1
<1>11. CASE ready /\ msg.method \notin Elsewhere
  BY <1>4, <1>5, <1>6, <1>11
<1> QED
  BY <1>7, <1>8, <1>9, <1>10, <1>11 DEF Elsewhere

(* An answer belongs to the request it answers. *)
LEMMA AnswerIsProper ==
    ASSUME GatewayType, NEW r \in DOMAIN ask, ask[r].route = "message", NEW code \in Int,
           code = Ok /\ Reads(ask[r].msg) => InScope(OpenerAcl(ask[r].session), ask[r].msg.kb)
    PROVE  Answer(ask[r].msg, code) \in AnswerType /\ Proper(ask[r].session, Answer(ask[r].msg, code))
<1>1. r \in Sent(ask[r].session) /\ ask[r].msg.id \in Ids /\ 0 \in Ids
  BY Asked DEF Sent, Ids
<1> QED
  BY <1>1 DEF Answer, AnswerType, Proper

(* A message is taken up and answered. *)
LEMMA TakenRecord ==
    ASSUME NEW record \in SessionState, NEW msg
    PROVE  /\ Taken(record, msg) \in SessionState
           /\ Taken(record, msg).known = record.known /\ Taken(record, msg).open = record.open
           /\ Taken(record, msg).acl = record.acl /\ Taken(record, msg).seen = record.seen
           /\ Taken(record, msg).queue = record.queue
           /\ Taken(record, msg).owed = record.owed + 1
<1>1. PICK ready \in BOOLEAN : ready = (record.ready \/ msg.method = "initialize")
  OBVIOUS
<1>2. record.owed \in Nat
  BY DEF SessionState
<1>3. PICK owed \in Nat : owed = record.owed + 1
  BY <1>2
<1>4. Taken(record, msg) = [record EXCEPT !.owed = owed, !.ready = ready]
  BY <1>1, <1>3 DEF Taken, SessionState
<1>5. LET new == [record EXCEPT !.owed = owed, !.ready = ready]
      IN  /\ new \in SessionState
          /\ new.known = record.known /\ new.open = record.open /\ new.acl = record.acl
          /\ new.seen = record.seen /\ new.queue = record.queue /\ new.owed = owed
  BY DEF SessionState
<1> QED
  BY <1>3, <1>4, <1>5

LEMMA AnsweredRecord ==
    ASSUME NEW record \in SessionState, NEW msg, NEW code, Answer(msg, code) \in AnswerType
    PROVE  LET new == Answered(record, msg, code)
           IN  /\ new \in SessionState
               /\ new.known = record.known /\ new.open = record.open /\ new.acl = record.acl
               /\ new.seen = record.seen /\ new.owed = record.owed
               /\ record.open =>
                    /\ Len(new.queue) = Len(record.queue) + 1
                    /\ \A i \in DOMAIN new.queue :
                        \/ new.queue[i] = Answer(msg, code)
                        \/ i \in DOMAIN record.queue /\ new.queue[i] = record.queue[i]
<1>1. record.queue \in Seq(AnswerType) /\ record.open \in BOOLEAN
  BY DEF SessionState
<1>2. PICK answer \in AnswerType : answer = Answer(msg, code)
  OBVIOUS
<1>3. Append(record.queue, answer) \in Seq(AnswerType)
  BY <1>1
<1>4. PICK queue \in Seq(AnswerType) :
          queue = IF record.open THEN Append(record.queue, answer) ELSE record.queue
  BY <1>1, <1>3
<1>5. Answered(record, msg, code) = [record EXCEPT !.queue = queue]
  BY <1>2, <1>4 DEF Answered, SessionState
<1>6. LET new == [record EXCEPT !.queue = queue]
      IN  /\ new \in SessionState
          /\ new.known = record.known /\ new.open = record.open /\ new.acl = record.acl
          /\ new.seen = record.seen /\ new.owed = record.owed /\ new.queue = queue
  BY DEF SessionState
<1>7. ASSUME record.open
      PROVE  /\ Len(queue) = Len(record.queue) + 1
             /\ \A i \in DOMAIN queue :
                    queue[i] = answer \/ (i \in DOMAIN record.queue /\ queue[i] = record.queue[i])
  <2>1. queue = Append(record.queue, answer)
    BY <1>4, <1>7
  <2>2. PICK n \in Nat : n = Len(record.queue) /\ DOMAIN record.queue = 1..n
    <3>1. Len(record.queue) \in Nat
      BY <1>1
    <3>2. DOMAIN record.queue = 1..Len(record.queue)
      BY <1>1
    <3> QED
      BY <3>1, <3>2
  <2>3. /\ Len(queue) = n + 1 /\ DOMAIN queue = 1..(n + 1) /\ queue[n + 1] = answer
        /\ \A i \in 1..n : queue[i] = record.queue[i]
    BY <1>1, <2>1, <2>2
  <2>4. \A i \in 1..(n + 1) : i \in 1..n \/ i = n + 1
    OBVIOUS
  <2> QED
    BY <2>2, <2>3, <2>4
<1> QED
  BY <1>2, <1>5, <1>6, <1>7

(* A request opens the session that is its own. *)
LEMMA SseTalks ==
    ASSUME GatewayType, TrailType, Callers, Talks, NEW r \in Request, SseRoute(r)
    PROVE  Talks'
<1>1. /\ Moves(r, {"route"}, {"fill"}) /\ ask[r].route = "sse"
  BY SseRouteMoves
<1>2. /\ given' = given /\ req[r].phase = "route" /\ req'[r].phase = "fill"
      /\ \A q \in Request \ {r} : req'[q] = req[q]
  BY <1>1 DEF Moves, Onward
<1>3. r \in DOMAIN ask /\ req[r].who.acl = OwnerAcl(r)
  BY <1>2 DEF Callers, Passed
<1>4. PICK s \in Session : s = ask[r].session
  BY <1>3, Asked
<1>5. \A q \in DOMAIN ask : ask[q].route = "sse" /\ ask[q].session = s => q = r
  BY <1>1, <1>3, <1>4, Asked
<1>6. OpenerAcl(s) = OwnerAcl(r)
  <2>1. Opener(s) = r
    BY <1>1, <1>3, <1>4, <1>5 DEF Opener
  <2> QED
    BY <2>1 DEF OpenerAcl, OwnerAcl
<1>7. PICK acl \in Acls : acl = OpenerAcl(s)
  <2>1. ask[r].cred \in DOMAIN Identity
    BY <1>3, GatewayConstants DEF GatewayType, ask
  <2>2. OwnerAcl(r) \in Acls
    BY <2>1 DEF OwnerAcl, Acls
  <2> QED
    BY <1>6, <2>2
<1>8. PICK record \in SessionState :
        /\ record = [NoSession EXCEPT !.known = TRUE, !.open = TRUE, !.acl = acl]
        /\ record.known = TRUE /\ record.open = TRUE /\ record.acl = acl
        /\ record.seen = <<>> /\ record.queue = <<>> /\ record.owed = 0
  <2>0. <<>> \in Seq(AnswerType)
    OBVIOUS
  <2>1. PICK none \in Seq(AnswerType) : none = <<>>
    BY <2>0
  <2>2. PICK blank \in SessionState :
          /\ blank = NoSession
          /\ blank.seen = none /\ blank.queue = none /\ blank.owed = 0
    <3>1. NoSession = [known |-> FALSE, open |-> FALSE, acl |-> Unrestricted, ready |-> FALSE,
                       queue |-> none, seen |-> none, owed |-> 0]
      BY <2>1 DEF NoSession
    <3>2. NoSession \in SessionState
      BY <3>1 DEF SessionState, Acls
    <3> QED
      BY <3>1, <3>2
  <2>3. LET new == [blank EXCEPT !.known = TRUE, !.open = TRUE, !.acl = acl]
        IN  /\ new \in SessionState
            /\ new.known = TRUE /\ new.open = TRUE /\ new.acl = acl
            /\ new.seen = blank.seen /\ new.queue = blank.queue /\ new.owed = blank.owed
    BY DEF SessionState
  <2> QED
    BY <2>1, <2>2, <2>3
<1>9. session' = [session EXCEPT ![s] = record]
  BY <1>3, <1>4, <1>6, <1>7, <1>8 DEF SseRoute, OpenSession
<1>10. ~session[s].known
  BY <1>2, <1>3, <1>5 DEF Talks, Opened, Before
<1>11. DOMAIN ask \subseteq Request /\ ask' = ask
  BY <1>2, Asked, SameOwners
<1>12. \A o \in Session : InTool(o)' = InTool(o)
  BY <1>2, <1>11 DEF InTool
<1>13. InTool(s) = {}
  BY <1>10, <1>11 DEF InTool, Talks, Tools
<1>14. Len(record.seen) + Len(record.queue) + Cardinality(InTool(s)') = record.owed
  <2>1. Cardinality(InTool(s)') = 0
    BY <1>12, <1>13, FS_EmptySet
  <2>2. record.seen = <<>> /\ record.queue = <<>> /\ record.owed = 0
    BY <1>8
  <2>3. Len(record.seen) = 0 /\ Len(record.queue) = 0
    BY <2>2
  <2> QED
    BY <2>1, <2>2, <2>3
<1>15. DOMAIN record.seen = {} /\ DOMAIN record.queue = {}
  BY <1>8
<1>16. \A q \in Request : req[q].phase \notin Before => req'[q].phase \notin Before
  BY <1>2 DEF Before
<1>17. \A q \in Request : req'[q].phase = "tool" => req[q].phase = "tool"
  BY <1>2
<1>18. \E q \in DOMAIN ask : ask[q].route = "sse" /\ ask[q].session = s /\ req'[q].phase \notin Before
  BY <1>1, <1>2, <1>3, <1>4 DEF Before
<1> QED
  BY <1>2, <1>7, <1>8, <1>9, <1>12, <1>14, <1>15, <1>16, <1>17, <1>18, OneSession

(* A message is answered at once, waits for its tool, or finds nobody. *)
LEMMA MessageTalks ==
    ASSUME GatewayType, TrailType, Callers, Talks, NEW r \in Request, MessageRoute(r)
    PROVE  Talks'
<1>0. /\ ask[r].route = "message" /\ given' = given /\ req[r].phase = "route"
      /\ req'[r].phase \in {"fill", "tool", "raised"}
      /\ \A q \in Request \ {r} : req'[q] = req[q]
  BY MessageRouteMoves DEF Moves, Onward
<1>1. r \in DOMAIN ask /\ DOMAIN ask \subseteq Request /\ ask' = ask
  BY <1>0, Asked, SameOwners DEF Callers
<1>2. PICK s \in Session : s = ask[r].session
  BY <1>1, Asked
<1>3. PICK old \in SessionState : old = session[s]
  BY DEF Talks
<1>4. \A q \in Request : req[q].phase \notin Before => req'[q].phase \notin Before
  BY <1>0 DEF Before
<1>5. \A o \in Session \ {s} : InTool(o)' = InTool(o)
  BY <1>0, <1>1, <1>2 DEF InTool
<1>6. r \notin InTool(s) /\ IsFiniteSet(InTool(s)) /\ Cardinality(InTool(s)) \in Nat
  BY <1>0, ToolsAreFew DEF InTool
<1>7. /\ old.open => old.known
      /\ old.known =>
            /\ old.acl = OpenerAcl(s)
            /\ \E q \in DOMAIN ask :
                ask[q].route = "sse" /\ ask[q].session = s /\ req'[q].phase \notin Before
      /\ old.open =>
            /\ Len(old.seen) + Len(old.queue) + Cardinality(InTool(s)) = old.owed
            /\ \A i \in DOMAIN old.seen : Proper(s, old.seen[i])
            /\ \A i \in DOMAIN old.queue : Proper(s, old.queue[i])
  BY <1>1, <1>3, <1>4 DEF Talks, Opened, Owing
<1>8. /\ Len(old.seen) \in Nat /\ Len(old.queue) \in Nat /\ old.owed \in Nat
      /\ old.ready \in BOOLEAN
  <2>1. old.seen \in Seq(AnswerType) /\ old.queue \in Seq(AnswerType)
    BY DEF SessionState
  <2> QED
    BY <2>1 DEF SessionState
<1>9. PICK taken \in SessionState :
        /\ taken = Taken(session[ask[r].session], ask[r].msg)
        /\ taken.known = old.known /\ taken.open = old.open /\ taken.acl = old.acl
        /\ taken.seen = old.seen /\ taken.queue = old.queue /\ taken.owed = old.owed + 1
  BY <1>2, <1>3, TakenRecord
<1>10. CASE (Moves(r, {"route"}, {"fill"}) \/ Moves(r, {"route"}, {"raised"})) /\ UNCHANGED session
  <2>1. \A q \in Request : /\ req'[q].phase = "tool" <=> req[q].phase = "tool"
    BY <1>0, <1>10 DEF Moves
  <2> QED
    BY <1>0, <1>4, <1>10, <2>1, TalksKept
<1>11. CASE /\ Moves(r, {"route"}, {"tool"}) /\ Found(ask[r].session)
            /\ session' = [session EXCEPT ![ask[r].session] = Taken(session[ask[r].session], ask[r].msg)]
  <2>1. req'[r].phase = "tool" /\ old.known /\ session' = [session EXCEPT ![s] = taken]
    BY <1>2, <1>3, <1>9, <1>11 DEF Moves, Found
  <2>2. InTool(s)' = InTool(s) \cup {r}
    BY <1>0, <1>1, <1>2, <2>1 DEF InTool
  <2>3. Cardinality(InTool(s)') = Cardinality(InTool(s)) + 1
    BY <1>6, <2>2, FS_AddElement
  <2>4. ASSUME taken.open
        PROVE  Len(taken.seen) + Len(taken.queue) + Cardinality(InTool(s)') = taken.owed
    <3>1. old.open /\ taken.seen = old.seen /\ taken.queue = old.queue /\ taken.owed = old.owed + 1
      BY <1>9, <2>4
    <3>2. Len(old.seen) + Len(old.queue) + Cardinality(InTool(s)) = old.owed
      BY <1>7, <3>1
    <3>3. PICK m \in Nat, n \in Nat, k \in Nat :
              m = Len(old.seen) /\ n = Len(old.queue) /\ k = Cardinality(InTool(s))
      BY <1>6, <1>8
    <3>4. Cardinality(InTool(s)') = k + 1 /\ old.owed = m + n + k
      BY <2>3, <3>2, <3>3
    <3>5. Len(taken.seen) = m /\ Len(taken.queue) = n /\ taken.owed = m + n + k + 1
      BY <3>1, <3>3, <3>4
    <3> QED
      BY <3>4, <3>5
  <2>5. \A q \in Request : req'[q].phase = "tool" =>
            req[q].phase = "tool" \/ (ask[q].route = "message" /\ ask[q].session = s)
    BY <1>0, <1>2
  <2>6. taken.open => /\ \A i \in DOMAIN taken.seen : Proper(s, taken.seen[i])
                      /\ \A i \in DOMAIN taken.queue : Proper(s, taken.queue[i])
    BY <1>7, <1>9
  <2>7. /\ taken.known /\ taken.acl = OpenerAcl(s)
        /\ \E q \in DOMAIN ask :
            ask[q].route = "sse" /\ ask[q].session = s /\ req'[q].phase \notin Before
    BY <1>7, <1>9, <2>1
  <2> QED
    BY <1>0, <1>4, <1>5, <2>1, <2>4, <2>5, <2>6, <2>7, OneSession
<1>12. CASE /\ Moves(r, {"route"}, {"fill"}) /\ Found(ask[r].session)
            /\ session' = [session EXCEPT ![ask[r].session] =
                   Answered(Taken(session[ask[r].session], ask[r].msg), ask[r].msg,
                       HandleRequest(ask[r].msg, session[ask[r].session].ready,
                                     session[ask[r].session].acl, TRUE))]
  <2>0. req'[r].phase = "fill" /\ old.known /\ old.open
    BY <1>2, <1>3, <1>12 DEF Moves, Found
  <2>1. PICK code \in Int :
            /\ code = HandleRequest(ask[r].msg, old.ready, old.acl, TRUE)
            /\ code = Ok /\ Reads(ask[r].msg) => InScope(old.acl, ask[r].msg.kb)
    BY <1>8, Handled
  <2>2. code = Ok /\ Reads(ask[r].msg) => InScope(OpenerAcl(ask[r].session), ask[r].msg.kb)
    BY <1>2, <1>7, <2>0, <2>1
  <2>3. Answer(ask[r].msg, code) \in AnswerType /\ Proper(s, Answer(ask[r].msg, code))
    BY <1>0, <1>1, <1>2, <2>2, AnswerIsProper
  <2>4. PICK new \in SessionState :
            /\ new = Answered(taken, ask[r].msg, code)
            /\ new.known = old.known /\ new.open = old.open /\ new.acl = old.acl
            /\ new.seen = old.seen /\ new.owed = old.owed + 1
            /\ Len(new.queue) = Len(old.queue) + 1
            /\ \A i \in DOMAIN new.queue :
                    \/ new.queue[i] = Answer(ask[r].msg, code)
                    \/ i \in DOMAIN old.queue /\ new.queue[i] = old.queue[i]
    <3>1. taken.open /\ taken.known = old.known /\ taken.open = old.open /\ taken.acl = old.acl
          /\ taken.seen = old.seen /\ taken.queue = old.queue /\ taken.owed = old.owed + 1
      BY <1>9, <2>0
    <3>2. /\ Answered(taken, ask[r].msg, code) \in SessionState
          /\ Answered(taken, ask[r].msg, code).known = taken.known
          /\ Answered(taken, ask[r].msg, code).open = taken.open
          /\ Answered(taken, ask[r].msg, code).acl = taken.acl
          /\ Answered(taken, ask[r].msg, code).seen = taken.seen
          /\ Answered(taken, ask[r].msg, code).owed = taken.owed
      BY <2>3, AnsweredRecord
    <3>3. /\ Len(Answered(taken, ask[r].msg, code).queue) = Len(taken.queue) + 1
          /\ \A i \in DOMAIN Answered(taken, ask[r].msg, code).queue :
                \/ Answered(taken, ask[r].msg, code).queue[i] = Answer(ask[r].msg, code)
                \/ /\ i \in DOMAIN taken.queue
                   /\ Answered(taken, ask[r].msg, code).queue[i] = taken.queue[i]
      BY <2>3, <3>1, AnsweredRecord
    <3> QED
      BY <3>1, <3>2, <3>3
  <2>5. session' = [session EXCEPT ![s] = new]
    BY <1>2, <1>3, <1>9, <1>12, <2>1, <2>4
  <2>6. InTool(s)' = InTool(s)
    BY <1>0, <1>1, <2>0 DEF InTool
  <2>7. Len(new.seen) + Len(new.queue) + Cardinality(InTool(s)') = new.owed
    <3>1. /\ new.seen = old.seen /\ new.owed = old.owed + 1
          /\ Len(new.queue) = Len(old.queue) + 1
      BY <2>4
    <3>2. Len(old.seen) + Len(old.queue) + Cardinality(InTool(s)) = old.owed
      BY <1>7, <2>0
    <3>3. PICK m \in Nat, n \in Nat, k \in Nat :
              m = Len(old.seen) /\ n = Len(old.queue) /\ k = Cardinality(InTool(s))
      BY <1>6, <1>8
    <3>4. Cardinality(InTool(s)') = k /\ new.owed = m + n + k + 1
      BY <2>6, <3>1, <3>2, <3>3
    <3>5. Len(new.seen) = m /\ Len(new.queue) = n + 1
      BY <3>1, <3>3
    <3> QED
      BY <3>4, <3>5
  <2>8. \A i \in DOMAIN new.queue : Proper(s, new.queue[i])
    BY <1>7, <2>0, <2>3, <2>4
  <2>9. \A q \in Request : req'[q].phase = "tool" => req[q].phase = "tool"
    BY <1>0, <2>0
  <2>10. /\ new \in SessionState /\ new.known /\ new.acl = OpenerAcl(s)
         /\ \A o \in Session \ {s} : InTool(o)' = InTool(o)
    BY <1>5, <1>7, <2>0, <2>4
  <2>11. /\ \E q \in DOMAIN ask :
              ask[q].route = "sse" /\ ask[q].session = s /\ req'[q].phase \notin Before
         /\ \A i \in DOMAIN new.seen : Proper(s, new.seen[i])
    BY <1>4, <1>7, <2>0, <2>4
  <2> QED
    BY <1>0, <1>4, <2>5, <2>7, <2>8, <2>9, <2>10, <2>11, OneSession
<1> QED
  BY <1>10, <1>11, <1>12, MessageRouteMoves

(* The tool's answer goes to the queue its message was found with, or to   *)
(* nobody.                                                                 *)
LEMMA ToolTalks ==
    ASSUME GatewayType, TrailType, Callers, Talks, NEW r \in Request, ToolReturns(r)
    PROVE  Talks'
<1>0. /\ given' = given /\ req[r].phase = "tool" /\ req'[r].phase = "fill"
      /\ \A q \in Request \ {r} : req'[q] = req[q]
  BY ToolReturnsMoves DEF Moves, Onward
<1>1. r \in DOMAIN ask /\ DOMAIN ask \subseteq Request /\ ask' = ask
  BY <1>0, Asked, SameOwners DEF Callers
<1>2. ask[r].route = "message" /\ session[ask[r].session].known
  BY <1>0 DEF Talks, Tools
<1>3. PICK s \in Session : s = ask[r].session
  BY <1>1, Asked
<1>4. PICK old \in SessionState : old = session[s]
  BY DEF Talks
<1>5. \A q \in Request : req[q].phase \notin Before => req'[q].phase \notin Before
  BY <1>0 DEF Before
<1>6. \A o \in Session \ {s} : InTool(o)' = InTool(o)
  BY <1>0, <1>1, <1>3 DEF InTool
<1>7. /\ r \in InTool(s) /\ IsFiniteSet(InTool(s)) /\ Cardinality(InTool(s)) \in Nat
      /\ InTool(s)' = InTool(s) \ {r}
  <2>1. r \in InTool(s) /\ InTool(s)' = InTool(s) \ {r}
    BY <1>0, <1>1, <1>3 DEF InTool
  <2> QED
    BY <2>1, ToolsAreFew
<1>8. /\ old.known /\ old.acl = OpenerAcl(s)
      /\ \E q \in DOMAIN ask :
            ask[q].route = "sse" /\ ask[q].session = s /\ req'[q].phase \notin Before
      /\ old.open =>
            /\ Len(old.seen) + Len(old.queue) + Cardinality(InTool(s)) = old.owed
            /\ \A i \in DOMAIN old.seen : Proper(s, old.seen[i])
            /\ \A i \in DOMAIN old.queue : Proper(s, old.queue[i])
  BY <1>1, <1>2, <1>3, <1>4, <1>5 DEF Talks, Opened, Owing
<1>9. Len(old.seen) \in Nat /\ Len(old.queue) \in Nat /\ old.owed \in Nat
  <2>1. old.seen \in Seq(AnswerType) /\ old.queue \in Seq(AnswerType)
    BY DEF SessionState
  <2> QED
    BY <2>1 DEF SessionState
<1>10. PICK works \in BOOLEAN :
          session' = [session EXCEPT ![s] =
                        Answered(old, ask[r].msg, HandleRequest(ask[r].msg, TRUE, old.acl, works))]
  <2>1. PICK ok : \E works \in BOOLEAN :
            session' = [session EXCEPT ![s] =
                Answered(old, ask[r].msg, HandleRequest(ask[r].msg, TRUE, old.acl, works /\ ok))]
    BY <1>3, <1>4 DEF ToolReturns
  <2>2. PICK works \in BOOLEAN :
            session' = [session EXCEPT ![s] =
                Answered(old, ask[r].msg, HandleRequest(ask[r].msg, TRUE, old.acl, works /\ ok))]
    BY <2>1
  <2>3. PICK both \in BOOLEAN : both = (works /\ ok)
    OBVIOUS
  <2> QED
    BY <2>2, <2>3
<1>11. PICK code \in Int :
          /\ code = HandleRequest(ask[r].msg, TRUE, old.acl, works)
          /\ code = Ok /\ Reads(ask[r].msg) => InScope(old.acl, ask[r].msg.kb)
  <2>1. PICK ready \in BOOLEAN : ready = TRUE
    OBVIOUS
  <2>2. /\ HandleRequest(ask[r].msg, ready, old.acl, works) \in Int
        /\ HandleRequest(ask[r].msg, ready, old.acl, works) = Ok /\ Reads(ask[r].msg)
              => InScope(old.acl, ask[r].msg.kb)
    BY Handled
  <2> QED
    BY <2>1, <2>2
<1>12. code = Ok /\ Reads(ask[r].msg) => InScope(OpenerAcl(ask[r].session), ask[r].msg.kb)
  BY <1>3, <1>8, <1>11
<1>13. Answer(ask[r].msg, code) \in AnswerType /\ Proper(s, Answer(ask[r].msg, code))
  BY <1>1, <1>2, <1>3, <1>12, AnswerIsProper
<1>14. PICK new \in SessionState :
          /\ new = Answered(old, ask[r].msg, code)
          /\ new.known = old.known /\ new.open = old.open /\ new.acl = old.acl
          /\ new.seen = old.seen /\ new.owed = old.owed
          /\ old.open =>
                /\ Len(new.queue) = Len(old.queue) + 1
                /\ \A i \in DOMAIN new.queue :
                    \/ new.queue[i] = Answer(ask[r].msg, code)
                    \/ i \in DOMAIN old.queue /\ new.queue[i] = old.queue[i]
  BY <1>13, AnsweredRecord
<1>15. session' = [session EXCEPT ![s] = new]
  BY <1>10, <1>11, <1>14
<1>16. ASSUME new.open
       PROVE  /\ Len(new.seen) + Len(new.queue) + Cardinality(InTool(s)') = new.owed
              /\ \A i \in DOMAIN new.seen : Proper(s, new.seen[i])
              /\ \A i \in DOMAIN new.queue : Proper(s, new.queue[i])
  <2>1. /\ old.open /\ new.seen = old.seen /\ new.owed = old.owed
        /\ Len(new.queue) = Len(old.queue) + 1
        /\ \A i \in DOMAIN new.queue :
                \/ new.queue[i] = Answer(ask[r].msg, code)
                \/ i \in DOMAIN old.queue /\ new.queue[i] = old.queue[i]
    BY <1>14, <1>16
  <2>2. PICK m \in Nat, n \in Nat, k \in Nat :
            m = Len(old.seen) /\ n = Len(old.queue) /\ k = Cardinality(InTool(s))
    BY <1>7, <1>9
  <2>3. Cardinality(InTool(s)') = k - 1
    <3>1. Cardinality(InTool(s)') = Cardinality(InTool(s)) - 1
      BY <1>7, FS_RemoveElement
    <3> QED
      BY <2>2, <3>1
  <2>4. old.owed = m + n + k
    BY <1>8, <2>1, <2>2
  <2>5. Len(new.seen) = m /\ Len(new.queue) = n + 1 /\ new.owed = m + n + k
    BY <2>1, <2>2, <2>4
  <2>6. Len(new.seen) + Len(new.queue) + Cardinality(InTool(s)') = new.owed
    BY <2>3, <2>5
  <2> QED
    BY <1>8, <1>13, <2>1, <2>6
<1>17. \A q \in Request : req'[q].phase = "tool" => req[q].phase = "tool"
  BY <1>0
<1>18. /\ new.known /\ new.acl = OpenerAcl(s)
  BY <1>8, <1>14
<1> QED
  BY <1>0, <1>5, <1>6, <1>8, <1>15, <1>16, <1>17, <1>18, OneSession

(* A request keeps the sessions' invariant. *)
LEMMA TalksOnward ==
    ASSUME GatewayType, TrailType, Callers, Talks, NEW r \in Request, RequestStep(r)
    PROVE  Talks'
<1>1. CASE SseRoute(r) \/ MessageRoute(r) \/ ToolReturns(r)
  BY <1>1, SseTalks, MessageTalks, ToolTalks
<1>2. CASE ~SseRoute(r) /\ ~MessageRoute(r) /\ ~ToolReturns(r)
  <2>1. /\ session' = session /\ req[r].phase # "tool" /\ req'[r].phase # "tool"
    BY <1>2, OnlyMcpTalks
  <2>2. req[r].phase \notin Before => req'[r].phase \notin Before
    BY PastTheRoute
  <2>3. given' = given /\ \A q \in Request \ {r} : req'[q] = req[q]
    BY RequestWay, WayOnward DEF Onward
  <2>4. \A q \in Request : /\ req'[q].phase = "tool" <=> req[q].phase = "tool"
                           /\ req[q].phase \notin Before => req'[q].phase \notin Before
    <3> TAKE q \in Request
    <3> QED
      BY <2>1, <2>2, <2>3
  <2> QED
    BY <2>1, <2>3, <2>4, TalksKept
<1> QED
  BY <1>1, <1>2

(* An event goes from the queue to the client. *)
LEMMA PushTalks ==
    ASSUME GatewayType, Callers, Talks, NEW s \in Session, Deliver(s)
    PROVE  Talks'
<1>0. given' = given /\ req' = req /\ ask' = ask
  BY SameOwners DEF Deliver, gatewayVars
<1>1. PICK old \in SessionState : old = session[s]
  BY DEF Talks
<1>2. old.seen \in Seq(AnswerType) /\ old.queue \in Seq(AnswerType) /\ old.queue # <<>>
      /\ old.open /\ old.owed \in Nat
  BY <1>1 DEF SessionState, Deliver, Push
<1>3. PICK n \in Nat, m \in Nat : /\ n = Len(old.queue) /\ DOMAIN old.queue = 1..n /\ n > 0
                                  /\ m = Len(old.seen) /\ DOMAIN old.seen = 1..m
  <2>1. Len(old.queue) \in Nat /\ Len(old.seen) \in Nat
    BY <1>2
  <2>2. DOMAIN old.queue = 1..Len(old.queue) /\ DOMAIN old.seen = 1..Len(old.seen)
    BY <1>2
  <2>3. Len(old.queue) > 0
    BY <1>2, <2>1
  <2> QED
    BY <2>1, <2>2, <2>3
<1>4. Head(old.queue) = old.queue[1] /\ old.queue[1] \in AnswerType
  BY <1>2, <1>3
<1>5. PICK seen \in Seq(AnswerType) :
        /\ seen = Append(old.seen, Head(old.queue))
        /\ Len(seen) = m + 1 /\ DOMAIN seen = 1..(m + 1) /\ seen[m + 1] = old.queue[1]
        /\ \A i \in 1..m : seen[i] = old.seen[i]
  <2>1. PICK event \in AnswerType : event = Head(old.queue)
    BY <1>4
  <2>2. Append(old.seen, event) \in Seq(AnswerType)
    BY <1>2
  <2>3. /\ Len(Append(old.seen, event)) = m + 1 /\ DOMAIN Append(old.seen, event) = 1..(m + 1)
        /\ Append(old.seen, event)[m + 1] = event
        /\ \A i \in 1..m : Append(old.seen, event)[i] = old.seen[i]
    BY <1>2, <1>3
  <2> QED
    BY <1>4, <2>1, <2>2, <2>3
<1>6. PICK queue \in Seq(AnswerType) :
        /\ queue = Tail(old.queue) /\ Len(queue) = n - 1 /\ DOMAIN queue = 1..(n - 1)
        /\ \A i \in 1..(n - 1) : queue[i] = old.queue[i + 1]
  <2>1. Tail(old.queue) \in Seq(AnswerType)
    BY <1>2
  <2>2. /\ Len(Tail(old.queue)) = n - 1 /\ DOMAIN Tail(old.queue) = 1..(n - 1)
        /\ \A i \in 1..(n - 1) : Tail(old.queue)[i] = old.queue[i + 1]
    BY <1>2, <1>3
  <2> QED
    BY <2>1, <2>2
<1>7. PICK new \in SessionState :
        /\ new = [old EXCEPT !.seen = seen, !.queue = queue]
        /\ new.known = old.known /\ new.open = old.open /\ new.acl = old.acl
        /\ new.seen = seen /\ new.queue = queue /\ new.owed = old.owed
  <2> HIDE <1>5, <1>6
  <2>1. LET record == [old EXCEPT !.seen = seen, !.queue = queue]
        IN  /\ record \in SessionState
            /\ record.known = old.known /\ record.open = old.open /\ record.acl = old.acl
            /\ record.seen = seen /\ record.queue = queue /\ record.owed = old.owed
    BY DEF SessionState
  <2> QED
    BY <2>1
<1>8. session' = [session EXCEPT ![s] = new]
  <2>1. session' = [session EXCEPT ![s].seen = Append(@, Head(session[s].queue)),
                                   ![s].queue = Tail(@)]
    BY DEF Deliver, Push
  <2>2. session \in [Session -> SessionState]
    BY DEF Talks
  <2> QED
    BY <1>1, <1>5, <1>6, <1>7, <2>1, <2>2 DEF SessionState
<1>9. /\ old.known /\ old.acl = OpenerAcl(s)
      /\ \E q \in DOMAIN ask :
            ask[q].route = "sse" /\ ask[q].session = s /\ req[q].phase \notin Before
      /\ Len(old.seen) + Len(old.queue) + Cardinality(InTool(s)) = old.owed
      /\ \A i \in DOMAIN old.seen : Proper(s, old.seen[i])
      /\ \A i \in DOMAIN old.queue : Proper(s, old.queue[i])
  BY <1>1, <1>2 DEF Talks, Opened, Owing
<1>10. \A o : InTool(o)' = InTool(o)
  BY <1>0 DEF InTool
<1>11. Len(new.seen) + Len(new.queue) + Cardinality(InTool(s)') = new.owed
  <2>1. PICK k \in Nat : k = Cardinality(InTool(s))
    BY ToolsAreFew
  <2>2. old.owed = m + n + k
    BY <1>3, <1>9, <2>1
  <2>3. Cardinality(InTool(s)') = k
    BY <1>10, <2>1
  <2>4. Len(new.seen) = m + 1 /\ Len(new.queue) = n - 1 /\ new.owed = m + n + k
    BY <1>5, <1>6, <1>7, <2>2
  <2> QED
    BY <2>3, <2>4
<1>12. \A i \in DOMAIN new.seen : Proper(s, new.seen[i])
  <2> SUFFICES ASSUME NEW i \in 1..(m + 1) PROVE Proper(s, seen[i])
    BY <1>5, <1>7
  <2>1. CASE i \in 1..m
    BY <1>3, <1>5, <1>9, <2>1
  <2>2. CASE i = m + 1
    BY <1>3, <1>5, <1>9, <2>2, SMTT(30)
  <2> QED
    BY <2>1, <2>2
<1>13. \A i \in DOMAIN new.queue : Proper(s, new.queue[i])
  <2> SUFFICES ASSUME NEW i \in 1..(n - 1) PROVE Proper(s, queue[i])
    BY <1>6, <1>7
  <2>1. i + 1 \in 1..n
    OBVIOUS
  <2> QED
    BY <1>3, <1>6, <1>9, <2>1
<1>14. new.known /\ new.acl = OpenerAcl(s)
  BY <1>7, <1>9
<1> QED
  BY <1>0, <1>8, <1>9, <1>10, <1>11, <1>12, <1>13, <1>14, OneSession

(* A closed session is owed nothing more. *)
LEMMA CloseTalks ==
    ASSUME GatewayType, Callers, Talks, NEW s \in Session, CloseSession(s),
           UNCHANGED <<gatewayVars, given>>
    PROVE  Talks'
<1>0. given' = given /\ req' = req /\ ask' = ask
  BY SameOwners DEF gatewayVars
<1>1. PICK old \in SessionState : old = session[s]
  BY DEF Talks
<1>2. PICK new \in SessionState :
        /\ new = [old EXCEPT !.open = FALSE, !.queue = <<>>]
        /\ new.known = old.known /\ new.open = FALSE /\ new.acl = old.acl
  <2>1. <<>> \in Seq(AnswerType)
    OBVIOUS
  <2>2. PICK none \in Seq(AnswerType) : none = <<>>
    BY <2>1
  <2>3. LET record == [old EXCEPT !.open = FALSE, !.queue = none]
        IN  /\ record \in SessionState
            /\ record.known = old.known /\ record.open = FALSE /\ record.acl = old.acl
    BY DEF SessionState
  <2> QED
    BY <2>2, <2>3
<1>3. session' = [session EXCEPT ![s] = new]
  <2>1. session' = [session EXCEPT ![s].open = FALSE, ![s].queue = <<>>]
    BY DEF CloseSession
  <2>2. session \in [Session -> SessionState]
    BY DEF Talks
  <2> QED
    BY <1>1, <1>2, <2>1, <2>2 DEF SessionState
<1>4. old.known =>
        /\ old.acl = OpenerAcl(s)
        /\ \E q \in DOMAIN ask :
            ask[q].route = "sse" /\ ask[q].session = s /\ req[q].phase \notin Before
  BY <1>1 DEF Talks, Opened
<1>5. \A o : InTool(o)' = InTool(o)
  BY <1>0 DEF InTool
<1> QED
  BY <1>0, <1>1, <1>2, <1>3, <1>4, <1>5, OneSession

(* The sessions end with their process. *)
LEMMA EndedTalks ==
    ASSUME GatewayType, Ended
    PROVE  Talks'
<1>1. session' = [s \in Session |-> NoSession]
  BY DEF Ended
<1>2. NoSession \in SessionState /\ ~NoSession.known /\ ~NoSession.open
  <2>1. <<>> \in Seq(AnswerType)
    OBVIOUS
  <2> QED
    BY <2>1 DEF NoSession, SessionState, Acls
<1>3. \A r \in Request : req'[r].phase # "tool"
  BY EndedDrops
<1>4. session' \in [Session -> SessionState]
      /\ \A s \in Session : ~session'[s].known /\ ~session'[s].open
  BY <1>1, <1>2
<1> QED
  BY <1>3, <1>4 DEF Talks, Opened, Tools, Owing

-------------------------------------------------------------------------------
(* The two rings take from their own buckets. *)
LEMMA LimiterOnward ==
    ASSUME LimiterInv, NEW r \in Request, RequestStep(r)
    PROVE  LimiterInv'
<1>1. CASE IpLimit(r)
  <2>1. PICK ok \in BOOLEAN : Acquire(wiring.redis, <<"ip", ask[r].peer>>, ok)
    BY <1>1 DEF IpLimit
  <2>2. PICK k : k = <<"ip", ask[r].peer>> /\ k[1] \in Rings
    <3>1. <<"ip", ask[r].peer>>[1] = "ip"
      OBVIOUS
    <3> QED
      BY <3>1 DEF Rings
  <2>3. Acquire(wiring.redis, k, ok)
    BY <2>1, <2>2
  <2> QED
    BY <2>2, <2>3, AcquireKeeps
<1>2. CASE Limit(r)
  <2>1. PICK ok \in BOOLEAN : Acquire(wiring.redis, <<"key", req[r].who.key>>, ok)
    BY <1>2 DEF Limit
  <2>2. PICK k : k = <<"key", req[r].who.key>> /\ k[1] \in Rings
    <3>1. <<"key", req[r].who.key>>[1] = "key"
      OBVIOUS
    <3> QED
      BY <3>1 DEF Rings
  <2>3. Acquire(wiring.redis, k, ok)
    BY <2>1, <2>2
  <2> QED
    BY <2>2, <2>3, AcquireKeeps
<1>3. CASE ~IpLimit(r) /\ ~Limit(r)
  <2>1. UNCHANGED limiterVars
    <3>1. CASE Arrive(r) \/ Auth(r) \/ Quota(r) \/ QuotaRead(r)
      BY <3>1 DEF Arrive, Auth, Quota, QuotaRead
    <3>2. CASE KbRoute(r) \/ OpenRoute(r) \/ AuditRoute(r) \/ SseRoute(r) \/ MessageRoute(r)
      BY <3>2, RoutesLeave
    <3>3. CASE ToolReturns(r) \/ Fill(r) \/ Audit(r)
      BY <3>3 DEF ToolReturns, Fill, Audit
    <3> QED
      BY <1>3, <3>1, <3>2, <3>3 DEF RequestStep
  <2> QED
    BY <2>1, LossKeeps DEF limiterVars
<1> QED
  BY <1>1, <1>2, <1>3

(* No request moves the clock of the months. *)
LEMMA PeriodOnward ==
    ASSUME NEW r \in Request, RequestStep(r)
    PROVE  period' = period
<1>1. CASE Arrive(r) \/ IpLimit(r) \/ Auth(r) \/ Quota(r) \/ QuotaRead(r) \/ Limit(r)
  BY <1>1 DEF Arrive, IpLimit, Auth, Quota, QuotaRead, Limit, quotaVars
<1>2. CASE KbRoute(r) \/ OpenRoute(r) \/ AuditRoute(r) \/ SseRoute(r) \/ MessageRoute(r)
  BY <1>2, RoutesLeave DEF quotaVars
<1>3. CASE ToolReturns(r) \/ Fill(r) \/ Audit(r)
  BY <1>3 DEF ToolReturns, Fill, Audit, quotaVars
<1> QED
  BY <1>1, <1>2, <1>3 DEF RequestStep

GatewayInv == GatewayType /\ Callers /\ QuotaInv /\ Trail /\ Talks /\ LimiterInv

LEMMA RequestKeeps ==
    ASSUME GatewayInv, NEW r \in Request, RequestStep(r)
    PROVE  GatewayInv'
<1>0. GatewayType /\ Callers /\ QuotaInv /\ Trail /\ Talks /\ LimiterInv /\ TrailType
  BY DEF GatewayInv, Trail
<1>1. r \in DOMAIN ask /\ Way(r) /\ Onward(r)
  BY <1>0, RequestWay, WayOnward
<1>2. GatewayType'
  BY <1>0, <1>1, PeriodOnward DEF GatewayType, Onward
<1>3. Callers'
  BY <1>0, <1>1, CallersOnward
<1>4. QuotaInv'
  BY <1>0, QuotaOnward
<1>5. Trail'
  BY <1>0, TrailOnward
<1>6. Talks'
  BY <1>0, TalksOnward
<1>7. LimiterInv'
  BY <1>0, LimiterOnward
<1> QED
  BY <1>2, <1>3, <1>4, <1>5, <1>6, <1>7 DEF GatewayInv

(* Nothing happens to the requests. *)
LEMMA RequestsStay ==
    ASSUME GatewayInv, given' = given, req' = req, period' \in 0..MaxPeriod,
           quota' = quota, granted' = granted
    PROVE  GatewayType' /\ Callers' /\ QuotaInv'
<1>0. GatewayType /\ Callers /\ QuotaInv
  BY DEF GatewayInv
<1>1. Drops
  BY <1>0 DEF GatewayType, Drops
<1>2. GatewayType'
  BY <1>0 DEF GatewayType
<1>3. Callers'
  BY <1>0, <1>1, DropsCallers
<1>4. QuotaInv'
  BY <1>0, <1>1, QuotaAround
<1> QED
  BY <1>2, <1>3, <1>4

LEMMA TrailStays ==
    ASSUME GatewayInv, given' = given, req' = req, audit' = audit, app' = app
    PROVE  Trail'
<1>0. Trail
  BY DEF GatewayInv
<1> QED
  BY <1>0, TrailKept

LEMMA TalksStay ==
    ASSUME GatewayInv, given' = given, req' = req, session' = session
    PROVE  Talks'
<1>0. GatewayType /\ Talks
  BY DEF GatewayInv
<1> QED
  BY <1>0, TalksKept

LEMMA DeliverKeeps ==
    ASSUME GatewayInv, NEW s \in Session, Deliver(s)
    PROVE  GatewayInv'
<1>0. GatewayType /\ Callers /\ Talks /\ LimiterInv
  BY DEF GatewayInv
<1>1. /\ given' = given /\ req' = req /\ audit' = audit /\ app' = app
      /\ quota' = quota /\ granted' = granted /\ period' = period
      /\ now' = now /\ bucket' = bucket /\ spent' = spent
  BY DEF Deliver, gatewayVars, quotaVars, limiterVars
<1>2. period' \in 0..MaxPeriod
  BY <1>0, <1>1 DEF GatewayType
<1>3. GatewayType' /\ Callers' /\ QuotaInv'
  BY <1>1, <1>2, RequestsStay
<1>4. Trail'
  BY <1>1, TrailStays
<1>5. Talks'
  BY <1>0, PushTalks
<1>6. LimiterInv'
  BY <1>0, <1>1, LossKeeps
<1> QED
  BY <1>3, <1>4, <1>5, <1>6 DEF GatewayInv

LEMMA StartKeeps ==
    ASSUME GatewayInv, Start
    PROVE  GatewayInv'
<1>0. GatewayType /\ Trail /\ TrailType /\ LimiterInv
  BY DEF GatewayInv, Trail
<1>1. /\ given' = given /\ req' = req /\ audit' = audit /\ session' = session
      /\ quota' = quota /\ granted' = granted /\ period' = period
      /\ now' = now /\ bucket' = bucket /\ spent' = spent
  BY DEF Start, mcpVars, quotaVars, limiterVars
<1>2. PICK phase \in {"created", "serving", "stopped"} :
          ~Serving /\ app' = [phase |-> phase, starts |-> app.starts + 1]
  <2>1. \/ app' = [phase |-> "serving", starts |-> app.starts + 1]
        \/ app' = [phase |-> "created", starts |-> app.starts + 1]
    BY DEF Start
  <2> QED
    BY <2>1 DEF Start
<1>3. app'.starts = app.starts + 1 /\ app' \in [phase : {"created", "serving", "stopped"}, starts : Nat]
  BY <1>0, <1>2 DEF TrailType
<1>4. Trail'
  BY <1>0, <1>1, <1>2, <1>3, TrailStart
<1>5. period' \in 0..MaxPeriod
  BY <1>0, <1>1 DEF GatewayType
<1>6. GatewayType' /\ Callers' /\ QuotaInv'
  BY <1>1, <1>5, RequestsStay
<1>7. Talks'
  BY <1>1, TalksStay
<1>8. LimiterInv'
  BY <1>0, <1>1, LossKeeps
<1> QED
  BY <1>4, <1>6, <1>7, <1>8 DEF GatewayInv

LEMMA EndKeeps ==
    ASSUME GatewayInv, Stop \/ Crash
    PROVE  GatewayInv'
<1>0. GatewayType /\ Callers /\ QuotaInv /\ Trail /\ TrailType /\ LimiterInv
  BY DEF GatewayInv, Trail
<1>1. /\ Ended /\ Serving
      /\ app' = [app EXCEPT !.phase = "stopped"] \/ app' = [app EXCEPT !.phase = "created"]
  BY DEF Stop, Crash
<1>2. /\ app'.phase \in {"created", "stopped"} /\ app'.starts = app.starts
      /\ app' \in [phase : {"created", "serving", "stopped"}, starts : Nat]
  BY <1>0, <1>1 DEF TrailType
<1>3. Trail'
  BY <1>0, <1>1, <1>2, TrailEnded
<1>4. /\ Drops
      /\ \A r \in Request : req'[r].phase \in {"new", "done", "unaudited", "raised", "dropped"}
  BY <1>0, <1>1, EndedDrops
<1>5. /\ period' = period /\ now' = now
      /\ \/ UNCHANGED <<quota, granted>>
         \/ quota' = [a \in Account |-> NoUsage] /\ granted' = [a \in Account |-> 0]
      /\ UNCHANGED <<bucket, spent>> \/ (bucket' = <<>> /\ spent' = <<>>)
  <2>1. LimiterRestart(wiring.redis) /\ QuotaRestart(wiring.metadata)
    BY <1>1 DEF Ended
  <2>2. \/ UNCHANGED <<quota, granted>>
        \/ quota' = [a \in Account |-> NoUsage] /\ granted' = [a \in Account |-> 0]
    BY <2>1 DEF QuotaRestart
  <2>3. UNCHANGED <<bucket, spent>> \/ (bucket' = <<>> /\ spent' = <<>>)
    BY <2>1 DEF LimiterRestart
  <2> QED
    BY <2>1, <2>2, <2>3 DEF LimiterRestart, QuotaRestart
<1>6. GatewayType'
  BY <1>0, <1>4, <1>5 DEF GatewayType, Drops
<1>7. Callers'
  BY <1>0, <1>4, DropsCallers
<1>8. QuotaInv'
  <2>1. \A r \in Request : req'[r].phase # "read"
    BY <1>4
  <2> QED
    BY <1>0, <1>4, <1>5, <2>1, QuotaAround
<1>9. Talks'
  BY <1>0, <1>1, EndedTalks
<1>10. LimiterInv'
  BY <1>0, <1>5, LossKeeps
<1> QED
  BY <1>3, <1>6, <1>7, <1>8, <1>9, <1>10 DEF GatewayInv

LEMMA EnvironmentKeeps ==
    ASSUME GatewayInv, Environment
    PROVE  GatewayInv'
<1>0. GatewayType /\ Callers /\ Talks /\ LimiterInv
  BY DEF GatewayInv
<1>1. CASE /\ \/ Happens("time") /\ Tick
              \/ Happens("outage") /\ (RedisGoesDown \/ RedisComesBack)
              \/ wiring.redis /\ \E k \in DOMAIN bucket : ExpireBucket(k)
              \/ Happens("charges") /\ Serving
                 /\ \E k \in DOMAIN bucket, count \in LlmTokens : AddTokens(wiring.redis, k, count)
           /\ UNCHANGED <<quotaVars, mcpVars, instances, gatewayVars, given>>
  <2>1. /\ given' = given /\ req' = req /\ audit' = audit /\ app' = app /\ session' = session
        /\ quota' = quota /\ granted' = granted /\ period' = period
    BY <1>1 DEF gatewayVars, quotaVars, mcpVars
  <2>2. period' \in 0..MaxPeriod
    BY <1>0, <2>1 DEF GatewayType
  <2>3. GatewayType' /\ Callers' /\ QuotaInv'
    BY <2>1, <2>2, RequestsStay
  <2>4. Trail' /\ Talks'
    BY <2>1, TrailStays, TalksStay
  <2>5. LimiterInv'
    <3>1. CASE Tick
      BY <1>0, <3>1, TickKeeps
    <3>2. CASE RedisGoesDown
      BY <1>0, <3>2, LossKeeps DEF RedisGoesDown
    <3>3. CASE RedisComesBack
      <4>1. now' = now /\ (UNCHANGED <<bucket, spent>> \/ (bucket' = <<>> /\ spent' = <<>>))
        BY <3>3 DEF RedisComesBack
      <4> QED
        BY <1>0, <4>1, LossKeeps
    <3>4. CASE \E k \in DOMAIN bucket : ExpireBucket(k)
      BY <1>0, <3>4, ExpireKeeps
    <3>5. CASE \E k \in DOMAIN bucket, count \in LlmTokens : AddTokens(wiring.redis, k, count)
      BY <1>0, <3>5, AddTokensKeeps
    <3> QED
      BY <1>1, <3>1, <3>2, <3>3, <3>4, <3>5
  <2> QED
    BY <2>3, <2>4, <2>5 DEF GatewayInv
<1>2. CASE /\ Happens("month") /\ NextMonth
           /\ UNCHANGED <<limiterVars, mcpVars, instances, gatewayVars, given>>
  <2>1. /\ given' = given /\ req' = req /\ audit' = audit /\ app' = app /\ session' = session
        /\ quota' = quota /\ granted' = granted
        /\ now' = now /\ bucket' = bucket /\ spent' = spent
    BY <1>2 DEF gatewayVars, limiterVars, mcpVars, NextMonth
  <2>2. period' \in 0..MaxPeriod
    BY <1>0, <1>2, QuotaConstants DEF GatewayType, NextMonth
  <2>3. GatewayType' /\ Callers' /\ QuotaInv'
    BY <2>1, <2>2, RequestsStay
  <2>4. Trail' /\ Talks'
    BY <2>1, TrailStays, TalksStay
  <2>5. LimiterInv'
    BY <1>0, <2>1, LossKeeps
  <2> QED
    BY <2>3, <2>4, <2>5 DEF GatewayInv
<1>3. CASE /\ (\E s \in Session : CloseSession(s)) \/ StdioLine
           /\ UNCHANGED <<limiterVars, quotaVars, instances, gatewayVars, given>>
  <2>1. /\ given' = given /\ req' = req /\ audit' = audit /\ app' = app
        /\ quota' = quota /\ granted' = granted /\ period' = period
        /\ now' = now /\ bucket' = bucket /\ spent' = spent
    BY <1>3 DEF gatewayVars, limiterVars, quotaVars
  <2>2. period' \in 0..MaxPeriod
    BY <1>0, <2>1 DEF GatewayType
  <2>3. GatewayType' /\ Callers' /\ QuotaInv'
    BY <2>1, <2>2, RequestsStay
  <2>4. Trail'
    BY <2>1, TrailStays
  <2>5. Talks'
    <3>1. CASE \E s \in Session : CloseSession(s)
      <4>1. UNCHANGED <<gatewayVars, given>>
        BY <1>3
      <4> QED
        BY <1>0, <3>1, <4>1, CloseTalks
    <3>2. CASE StdioLine
      BY <2>1, <3>2, TalksStay DEF StdioLine
    <3> QED
      BY <1>3, <3>1, <3>2
  <2>6. LimiterInv'
    BY <1>0, <2>1, LossKeeps
  <2> QED
    BY <2>3, <2>4, <2>5, <2>6 DEF GatewayInv
<1> QED
  BY <1>1, <1>2, <1>3 DEF Environment

LEMMA StutterKeeps ==
    ASSUME GatewayInv, UNCHANGED vars
    PROVE  GatewayInv'
<1>0. GatewayType /\ LimiterInv
  BY DEF GatewayInv
<1>1. /\ given' = given /\ req' = req /\ audit' = audit /\ app' = app /\ session' = session
      /\ quota' = quota /\ granted' = granted /\ period' = period
      /\ now' = now /\ bucket' = bucket /\ spent' = spent
  BY DEF vars, gatewayVars, limiterVars, quotaVars, mcpVars
<1>2. period' \in 0..MaxPeriod
  BY <1>0, <1>1 DEF GatewayType
<1>3. GatewayType' /\ Callers' /\ QuotaInv'
  BY <1>1, <1>2, RequestsStay
<1>4. Trail' /\ Talks'
  BY <1>1, TrailStays, TalksStay
<1>5. LimiterInv'
  BY <1>0, <1>1, LossKeeps
<1> QED
  BY <1>3, <1>4, <1>5 DEF GatewayInv

-------------------------------------------------------------------------------
LEMMA InitHolds ==
    ASSUME Init
    PROVE  GatewayInv
<1>0. /\ given \in Scenarios /\ req = [r \in Request |-> NewRequest] /\ audit = <<>>
      /\ app = [phase |-> "created", starts |-> 0]
      /\ quota = [a \in Account |-> NoUsage] /\ granted = [a \in Account |-> 0] /\ period = 0
      /\ session = [s \in Session |-> NoSession]
      /\ bucket = <<>> /\ spent = <<>> /\ now = 0
  BY DEF Init, QuotaInit, McpInit, LimiterInit
<1>1. NewRequest \in RequestState
  <2>1. Nobody \in Caller
    BY GatewayConstants DEF Nobody, Caller, Cred, Acls
  <2>2. 0 \in 0..MaxPeriod
    BY QuotaConstants
  <2> QED
    BY <2>1, <2>2 DEF NewRequest, RequestState, Phases
<1>2. \A r \in Request : /\ req[r] = NewRequest /\ req[r].phase = "new" /\ ~req[r].traced
                         /\ req[r].who = Nobody /\ req[r].rows = {}
  BY <1>0 DEF NewRequest
<1>3. GatewayType
  BY <1>0, <1>1, QuotaConstants DEF GatewayType
<1>4. Callers
  BY <1>2 DEF Callers, Passed
<1>5. QuotaInv
  <2>1. NoUsage \in Usage /\ NoUsage.upload_bytes = 0
    BY DEF NoUsage, Usage
  <2>2. QuotaType
    BY <1>0, <2>1 DEF QuotaType
  <2>3. Users
    BY <1>0 DEF Users
  <2>4. Charges
    <3> SUFFICES ASSUME NEW a \in Account
                 PROVE  granted[a] <= UploadCap /\ \E paid : \E own : Divides(a, paid, own)
      BY DEF Charges
    <3>1. Pending(a) = {} /\ quota[a].upload_bytes = 0 /\ granted[a] = 0
      BY <1>0, <1>2, <2>1 DEF Pending
    <3>2. PICK own : own = [r \in Pending(a) |-> {}]
      OBVIOUS
    <3>3. Cardinality({}) = 0
      BY FS_EmptySet
    <3>4. Divides(a, {}, own)
      BY <3>1, <3>2, <3>3 DEF Divides
    <3> QED
      BY <3>1, <3>4, QuotaConstants
  <2> QED
    BY <2>2, <2>3, <2>4 DEF QuotaInv
<1>6. Trail
  <2>1. audit \in Seq(AuditRow) /\ DOMAIN audit = {} /\ Len(audit) = 0
    BY <1>0
  <2>2. TrailType /\ OneRow /\ TrueRows
    BY <1>0, <2>1 DEF TrailType, OneRow, TrueRows
  <2>3. LostRows /\ Started
    BY <1>0, <1>2 DEF LostRows, Started, Serving
  <2>4. Ring
    BY <2>1, GatewayConstants DEF Ring
  <2> QED
    BY <2>2, <2>3, <2>4 DEF Trail
<1>7. Talks
  <2>1. NoSession \in SessionState /\ ~NoSession.known /\ ~NoSession.open
    <3>1. <<>> \in Seq(AnswerType)
      OBVIOUS
    <3> QED
      BY <3>1 DEF NoSession, SessionState, Acls
  <2>2. session \in [Session -> SessionState]
        /\ \A s \in Session : ~session[s].known /\ ~session[s].open
    BY <1>0, <2>1
  <2> QED
    BY <1>2, <2>2 DEF Talks, Opened, Tools, Owing
<1>8. LimiterInv
  BY <1>0 DEF LimiterInv, Histories, Levels, Expired
<1> QED
  BY <1>3, <1>4, <1>5, <1>6, <1>7, <1>8 DEF GatewayInv

(* Whatever requests, clients, the clock, Redis and restarts do in any     *)
(* order, callers, charges, rows, sessions and buckets stay accounted for  *)
(* (the middlewares of create_app, the routes, lifespan).                  *)
THEOREM GatewayInvariant == Spec => []GatewayInv
<1>1. Init => GatewayInv
  BY InitHolds
<1>2. GatewayInv /\ [Next]_vars => GatewayInv'
  <2> SUFFICES ASSUME GatewayInv, [Next]_vars PROVE GatewayInv'
    OBVIOUS
  <2>1. CASE \E r \in Request : RequestStep(r)
    BY <2>1, RequestKeeps
  <2>2. CASE \E s \in Session : Deliver(s)
    BY <2>2, DeliverKeeps
  <2>3. CASE Start
    BY <2>3, StartKeeps
  <2>4. CASE Stop \/ Crash
    BY <2>4, EndKeeps
  <2>5. CASE Environment
    BY <2>5, EnvironmentKeeps
  <2>6. CASE UNCHANGED vars
    BY <2>6, StutterKeeps
  <2> QED
    BY <2>1, <2>2, <2>3, <2>4, <2>5, <2>6 DEF Next
<1> QED
  BY <1>1, <1>2, PTL DEF Spec

(* A bucket lets through no more than its burst and what was refilled      *)
(* since it came into being, however requests, refusals, charges, expiry   *)
(* and failures of Redis interleave (ratelimit.py, _TOKEN_BUCKET_LUA).     *)
THEOREM BucketsAlwaysHold == Spec => []BucketsHold
<1>1. GatewayInv => BucketsHold
  BY InvariantHoldsBuckets DEF GatewayInv
<1> QED
  BY <1>1, GatewayInvariant, PTL

(* The bytes let through for a tenant in a month stay within its cap and   *)
(* only its own credentials move its counters, also while uploads run      *)
(* between writing and reading the table (QuotaMiddleware, bump_quota).    *)
THEOREM UploadsStayWithinTheCap == Spec => []QuotaHolds
<1>1. GatewayInv => QuotaHolds
  BY DEF GatewayInv, QuotaInv, Charges, Users, QuotaHolds
<1> QED
  BY <1>1, GatewayInvariant, PTL

(* A request has at most one row, a true one, and loses it only to the     *)
(* ring in the process or with the process; rows are shown to their tenant *)
(* only (AuditMiddleware, list_audit_entries).                             *)
THEOREM EveryAnswerLeavesItsRow == Spec => []AuditIsComplete
<1>1. GatewayInv => AuditIsComplete
  <2> SUFFICES ASSUME GatewayInv, NEW r \in DOMAIN ask
               PROVE  /\ LET rows == {i \in DOMAIN audit : audit[i].by = r}
                         IN  /\ Cardinality(rows) <= 1
                             /\ \A i \in rows :
                                    /\ req[r].phase = "done" /\ audit[i].status = req[r].status
                                    /\ audit[i].traced => audit[i].tenant = Owner(r)
                             /\ req[r].phase = "done" /\ rows = {} =>
                                  ~wiring.metadata /\ (Len(audit) = MaxEntries \/ app.starts > 1 \/ ~Serving)
                      /\ wiring.auth => \A row \in req[r].rows : row.tenant = Owner(r)
    BY DEF AuditIsComplete
  <2>0. GatewayType /\ Callers /\ OneRow /\ TrueRows /\ LostRows
    BY DEF GatewayInv, Trail
  <2>1. r \in Request
    BY <2>0, Asked
  <2> DEFINE rows == {i \in DOMAIN audit : audit[i].by = r}
  <2>2. Cardinality(rows) <= 1
    <3>1. CASE rows = {}
      <4>1. Cardinality(rows) = 0
        BY <3>1, FS_EmptySet
      <4> QED
        BY <4>1
    <3>2. CASE rows # {}
      <4>1. PICK i \in rows : TRUE
        BY <3>2
      <4>2. rows = {i}
        BY <2>0, <4>1 DEF OneRow
      <4>3. Cardinality({i}) = 1
        BY FS_Singleton
      <4> QED
        BY <4>2, <4>3
    <3> QED
      BY <3>1, <3>2
  <2>3. \A i \in rows : /\ req[r].phase = "done" /\ audit[i].status = req[r].status
                        /\ audit[i].traced => audit[i].tenant = Owner(r)
    BY <2>0 DEF TrueRows
  <2>4. req[r].phase = "done" /\ rows = {} =>
            ~wiring.metadata /\ (Len(audit) = MaxEntries \/ app.starts > 1 \/ ~Serving)
    BY <2>0, <2>1 DEF LostRows, NoRow
  <2>5. wiring.auth => \A row \in req[r].rows : row.tenant = Owner(r)
    BY <2>0, <2>1 DEF Callers
  <2> QED
    BY <2>2, <2>3, <2>4, <2>5
<1> QED
  BY <1>1, GatewayInvariant, PTL

(* An open session owes each message it took up one answer, its own, and   *)
(* answers for no knowledge base beyond the list of the key that opened    *)
(* it, however tools return and clients leave (mcp_sse, mcp_messages,      *)
(* deliver_message, sse_stream).                                           *)
THEOREM EveryMessageIsAnsweredOnce == Spec => []SessionsAnswerOnce
<1>1. GatewayInv => SessionsAnswerOnce
  <2> SUFFICES ASSUME GatewayInv, NEW s \in Session, session[s].open
               PROVE  LET answers == session[s].seen \o session[s].queue
                      IN  /\ Len(answers) + Cardinality(InTool(s)) = session[s].owed
                          /\ \A i \in DOMAIN answers : Proper(s, answers[i])
    BY DEF SessionsAnswerOnce, Proper
  <2>0. GatewayType /\ Talks
    BY DEF GatewayInv
  <2>1. PICK seen \in Seq(AnswerType), queue \in Seq(AnswerType) :
            seen = session[s].seen /\ queue = session[s].queue
    <3>1. session[s] \in SessionState
      BY <2>0 DEF Talks
    <3> QED
      BY <3>1 DEF SessionState
  <2>2. /\ Len(seen) + Len(queue) + Cardinality(InTool(s)) = session[s].owed
        /\ \A i \in DOMAIN seen : Proper(s, seen[i])
        /\ \A i \in DOMAIN queue : Proper(s, queue[i])
    BY <2>0, <2>1 DEF Talks, Owing
  <2>3. PICK m \in Nat, n \in Nat : /\ m = Len(seen) /\ n = Len(queue)
                                    /\ DOMAIN seen = 1..m /\ DOMAIN queue = 1..n
    <3>1. Len(seen) \in Nat /\ Len(queue) \in Nat
      BY <2>1
    <3>2. DOMAIN seen = 1..Len(seen) /\ DOMAIN queue = 1..Len(queue)
      BY <2>1
    <3> QED
      BY <3>1, <3>2
  <2>4. /\ Len(seen \o queue) = m + n /\ DOMAIN (seen \o queue) = 1..(m + n)
        /\ \A i \in 1..m : (seen \o queue)[i] = seen[i]
        /\ \A i \in (m + 1)..(m + n) : (seen \o queue)[i] = queue[i - m]
    <3>1. seen \o queue \in Seq(AnswerType) /\ Len(seen \o queue) = Len(seen) + Len(queue)
      OBVIOUS
    <3>2. \A i \in 1..Len(seen) : (seen \o queue)[i] = seen[i]
      OBVIOUS
    <3>3. \A i \in (Len(seen) + 1)..(Len(seen) + Len(queue)) :
              (seen \o queue)[i] = queue[i - Len(seen)]
      OBVIOUS
    <3>4. DOMAIN (seen \o queue) = 1..Len(seen \o queue)
      BY <3>1
    <3> QED
      BY <2>3, <3>1, <3>2, <3>3, <3>4
  <2>5. \A i \in 1..(m + n) : Proper(s, (seen \o queue)[i])
    <3> TAKE i \in 1..(m + n)
    <3>1. CASE i \in 1..m
      BY <2>2, <2>3, <2>4, <3>1
    <3>2. CASE i \in (m + 1)..(m + n)
      <4>1. i - m \in 1..n
        BY <3>2
      <4> QED
        BY <2>2, <2>3, <2>4, <3>2, <4>1
    <3>3. i \in 1..m \/ i \in (m + 1)..(m + n)
      OBVIOUS
    <3> QED
      BY <3>1, <3>2, <3>3
  <2> QED
    BY <2>1, <2>2, <2>3, <2>4, <2>5
<1> QED
  BY <1>1, GatewayInvariant, PTL
-------------------------------------------------------------------------------
(* The knowledge bases that instances are made for. *)
Kbs == {DefaultKb} \cup {x.ask[r].kb : x \in Scenarios, r \in Request}
                   \cup {x.ask[r].msg.kb : x \in Scenarios, r \in Request}
Instance == [plugin : Plugin, kb : Kbs, state : {"cold", "started", "closed", "failed"}]

OneEach(insts) == \A i, j \in DOMAIN insts :
    insts[i].plugin = insts[j].plugin /\ insts[i].kb = insts[j].kb => i = j

(* What has been made of cached after n plugins of the configuration. *)
Holding(made, n, cached, kb) ==
    /\ made.insts \in Seq(Instance) /\ OneEach(made.insts)
    /\ Len(cached) <= Len(made.insts)
    /\ \A i \in 1..Len(cached) : made.insts[i] = cached[i]
    /\ made.ok => \A i \in 1..n : Cached(made.insts, KbConfig[i], kb)

PluginInv ==
    /\ given \in Scenarios
    /\ app \in [phase : {"created", "serving", "stopped"}, starts : Nat]
    /\ instances \in Seq(Instance)
    /\ PluginsFollowTheApp

(* Every nonempty set of numbers has a least one. *)
LEMMA LeastNumber ==
    ASSUME NEW T \in SUBSET Nat, T # {}
    PROVE  \E x \in T : \A y \in T : x <= y
<1> DEFINE less == {ss \in Nat \X Nat : ss[1] < ss[2]}
<1>1. IsWellFoundedOn(less, Nat)
  BY NatLessThanWellFounded, Zenon DEF OpToRel
<1>2. \E x \in T : \A y \in T : ~ (<<y, x>> \in less)
  <2> HIDE DEF IsWellFoundedOn
  <2>1. PICK R : R = less
    OBVIOUS
  <2>2. IsWellFoundedOn(R, Nat)
    BY <1>1, <2>1
  <2>3. \E x \in T : \A y \in T : ~ (<<y, x>> \in R)
    BY <2>2, WFMin
  <2> QED
    BY <2>1, <2>3
<1>3. \A x, y \in Nat : y < x => <<y, x>> \in less
  OBVIOUS
<1>4. PICK x \in T : \A y \in T : ~ (<<y, x>> \in less)
  BY <1>2
<1>5. \A y \in T : ~ (y < x)
  BY <1>3, <1>4
<1>6. x \in Nat /\ \A y \in T : y \in Nat
  OBVIOUS
<1> QED
  BY <1>5, <1>6

(* resolve makes at most one instance, the last, and leaves the others. *)
LEMMA ResolveKeeps ==
    ASSUME NEW cached \in Seq(Instance), NEW kb \in Kbs, NEW n \in Nat, NEW p \in Plugin,
           n + 1 \in DOMAIN KbConfig, p = KbConfig[n + 1],
           NEW m, Holding(m, n, cached, kb)
    PROVE  Holding(Resolve(m, p, kb), n + 1, cached, kb)
<1> DEFINE new == [plugin |-> p, kb |-> kb, state |-> "cold"]
<1>1. PICK s : s = m.insts
  OBVIOUS
<1>2. /\ s \in Seq(Instance) /\ OneEach(s) /\ Len(cached) <= Len(s)
      /\ \A i \in 1..Len(cached) : s[i] = cached[i]
      /\ m.ok => \A i \in 1..n : Cached(s, KbConfig[i], kb)
  BY <1>1 DEF Holding
<1>3. \A i \in 1..(n + 1) : i \in 1..n \/ i = n + 1
  OBVIOUS
<1>4. CASE ~m.ok \/ Cached(s, p, kb)
  <2>1. Resolve(m, p, kb) = m
    BY <1>1, <1>4 DEF Resolve
  <2>2. m.ok => \A i \in 1..(n + 1) : Cached(s, KbConfig[i], kb)
    BY <1>2, <1>3, <1>4
  <2> QED
    BY <1>1, <1>2, <2>1, <2>2 DEF Holding
<1>5. CASE m.ok /\ ~Cached(s, p, kb) /\ ~Resolvable(p, kb)
  <2>1. Resolve(m, p, kb) = [ok |-> FALSE, insts |-> s]
    BY <1>1, <1>5 DEF Resolve
  <2> QED
    BY <1>2, <2>1 DEF Holding
<1>6. CASE m.ok /\ ~Cached(s, p, kb) /\ Resolvable(p, kb)
  <2>1. Resolve(m, p, kb) = [ok |-> TRUE, insts |-> Append(s, new)]
    BY <1>1, <1>6 DEF Resolve
  <2>2. new \in Instance
    BY DEF Instance
  <2>3. PICK t : t = Append(s, new)
    OBVIOUS
  <2>4. PICK k \in Nat : k = Len(s)
    BY <1>2, LenProperties
  <2>5. DOMAIN s = 1..k
    BY <1>2, <2>4, LenProperties
  <2>6. /\ t \in Seq(Instance) /\ Len(t) = k + 1 /\ DOMAIN t = 1..(k + 1)
        /\ \A i \in 1..k : t[i] = s[i]
        /\ t[k + 1] = new
    <3> HIDE DEF new
    <3>1. t \in Seq(Instance) /\ Len(t) = k + 1
      BY <1>2, <2>2, <2>3, <2>4, AppendProperties
    <3>2. \A i \in 1..k : t[i] = s[i]
      BY <1>2, <2>2, <2>3, <2>4, AppendProperties
    <3>3. t[k + 1] = new
      BY <1>2, <2>2, <2>3, <2>4, AppendProperties
    <3> QED
      BY <3>1, <3>2, <3>3, LenProperties
  <2>7. \A i \in 1..k : ~(s[i].plugin = p /\ s[i].kb = kb)
    BY <1>6, <2>5 DEF Cached
  <2>8. t[k + 1].plugin = p /\ t[k + 1].kb = kb
    BY <2>6
  <2>9. \A i \in 1..(k + 1) : i \in 1..k \/ i = k + 1
    OBVIOUS
  <2>10. OneEach(t)
    <3> SUFFICES ASSUME NEW i \in 1..(k + 1), NEW j \in 1..(k + 1),
                        t[i].plugin = t[j].plugin /\ t[i].kb = t[j].kb
                 PROVE  i = j
      BY <2>6 DEF OneEach
    <3>1. CASE i \in 1..k /\ j \in 1..k
      BY <1>2, <2>5, <2>6, <3>1 DEF OneEach
    <3>2. CASE i = k + 1 /\ j \in 1..k
      BY <2>6, <2>7, <2>8, <3>2
    <3>3. CASE i \in 1..k /\ j = k + 1
      BY <2>6, <2>7, <2>8, <3>3
    <3> QED
      BY <2>9, <3>1, <3>2, <3>3
  <2>11. \A x : Cached(s, x, kb) => Cached(t, x, kb)
    <3> SUFFICES ASSUME NEW x, NEW i \in 1..k, s[i].plugin = x /\ s[i].kb = kb
                 PROVE  \E j \in 1..(k + 1) : t[j].plugin = x /\ t[j].kb = kb
      BY <2>5, <2>6 DEF Cached
    <3>1. i \in 1..(k + 1) /\ t[i] = s[i]
      BY <2>6
    <3> QED
      BY <3>1
  <2>12. Cached(t, p, kb)
    <3>1. k + 1 \in DOMAIN t
      BY <2>6
    <3> QED
      BY <2>8, <3>1 DEF Cached
  <2>13. \A i \in 1..(n + 1) : Cached(t, KbConfig[i], kb)
    BY <1>2, <1>3, <1>6, <2>11, <2>12
  <2>14. Len(cached) \in Nat
    BY LenProperties
  <2>15. Len(cached) <= Len(t) /\ \A i \in 1..Len(cached) : t[i] = cached[i]
    <3>1. \A i \in 1..Len(cached) : i \in 1..k
      BY <1>2, <2>4, <2>14
    <3> QED
      BY <1>2, <2>4, <2>6, <2>14, <3>1
  <2>16. PICK made : made = [ok |-> TRUE, insts |-> t]
    OBVIOUS
  <2>17. made.insts = t /\ Resolve(m, p, kb) = made
    BY <2>1, <2>3, <2>16
  <2> QED
    BY <2>6, <2>10, <2>13, <2>15, <2>17 DEF Holding
<1> QED
  BY <1>4, <1>5, <1>6

(* What was cached stays in its place, nothing is made twice, and without  *)
(* a failure every plugin of the configuration has its instance.           *)
LEMMA ResolveAllKeeps ==
    ASSUME NEW cached \in Seq(Instance), OneEach(cached), NEW kb \in Kbs
    PROVE  Holding(ResolveAll(cached, kb), Len(KbConfig), cached, kb)
<1> DEFINE N == Len(KbConfig)
           first == [ok |-> TRUE, insts |-> cached]
           Step(f, i) == IF i = 0 THEN first ELSE Resolve(f[i - 1], KbConfig[i], kb)
           Made(f) == f = [i \in 0..N |-> Step(f, i)]
           Upto(f, n) == f = [i \in 0..n |-> f[i]] /\ \A i \in 0..n : f[i] = Step(f, i)
           bad == {n \in Nat : n <= N /\ ~(\E f : Upto(f, n))}
<1>1. N \in Nat /\ DOMAIN KbConfig = 1..N /\ \A i \in 1..N : KbConfig[i] \in Plugin
  BY RegistryConstants, LenProperties
<1>2. bad = {}
  <2> SUFFICES ASSUME bad # {} PROVE FALSE
    OBVIOUS
  <2>1. bad \in SUBSET Nat
    OBVIOUS
  <2>2. PICK n \in bad : \A m \in bad : n <= m
    BY <2>1, LeastNumber
  <2>3. CASE n = 0
    <3> DEFINE g == [i \in 0..0 |-> first]
    <3>1. \A i \in 0..0 : i = 0
      OBVIOUS
    <3>2. g = [i \in 0..0 |-> g[i]] /\ \A i \in 0..0 : g[i] = first
      OBVIOUS
    <3>3. Upto(g, 0)
      <4> HIDE DEF g, first
      <4> QED
        BY <3>1, <3>2
    <3> QED
      BY <2>3, <3>3
  <2>4. CASE n # 0
    <3>1. n \in Nat /\ n <= N /\ n - 1 \in Nat /\ n - 1 <= N
      BY <1>1, <2>4
    <3>2. n - 1 \notin bad
      <4>1. ~(n <= n - 1)
        BY <3>1
      <4> HIDE DEF bad
      <4> QED
        BY <2>2, <4>1
    <3>3. PICK f : Upto(f, n - 1)
      BY <3>1, <3>2
    <3> DEFINE g == [i \in 0..n |-> IF i = n THEN Step(f, n) ELSE f[i]]
    <3>4. \A i \in 0..n : g[i] = Step(g, i)
      <4> TAKE i \in 0..n
      <4>1. CASE i = n
        <5>1. n - 1 \in 0..n /\ n - 1 # n
          BY <3>1
        <5>2. g[n - 1] = f[n - 1]
          BY <5>1
        <5> QED
          BY <4>1, <5>2
      <4>2. CASE i # n
        <5>1. i \in 0..(n - 1)
          BY <3>1, <4>2
        <5>2. f[i] = Step(f, i)
          BY <3>3, <5>1
        <5>3. i # 0 => i - 1 \in 0..n /\ i - 1 # n
          BY <3>1, <5>1
        <5>4. i # 0 => g[i - 1] = f[i - 1]
          BY <5>3
        <5>5. g[i] = f[i]
          BY <4>2
        <5> QED
          BY <5>2, <5>4, <5>5
      <4> QED
        BY <4>1, <4>2
    <3>5. g = [i \in 0..n |-> g[i]]
      OBVIOUS
    <3>6. Upto(g, n)
      <4> HIDE DEF g, Step
      <4> QED
        BY <3>4, <3>5
    <3> QED
      BY <3>6
  <2> QED
    BY <2>3, <2>4
<1>3. PICK f : Upto(f, N)
  <2> HIDE DEF Upto, N
  <2>1. N \in Nat /\ N <= N
    BY <1>1
  <2>2. N \notin bad
    <3> HIDE DEF bad
    <3> QED
      BY <1>2
  <2> QED
    BY <2>1, <2>2
<1>4. Made(f)
  <2> HIDE DEF Step
  <2>1. \A i \in 0..N : f[i] = Step(f, i)
    BY <1>3
  <2>2. f = [i \in 0..N |-> f[i]]
    BY <1>3
  <2>3. [i \in 0..N |-> f[i]] = [i \in 0..N |-> Step(f, i)]
    BY <2>1
  <2> QED
    BY <2>2, <2>3
<1>5. ResolveAll(cached, kb) = (CHOOSE h : Made(h))[N]
  BY DEF ResolveAll
<1> HIDE DEF Made
<1>6. PICK h : Made(h) /\ h = CHOOSE k : Made(k)
  BY <1>4
<1>7. \A i \in 0..N : h[i] = Step(h, i)
  <2> HIDE DEF Step
  <2>1. h = [i \in 0..N |-> Step(h, i)]
    BY <1>6 DEF Made
  <2> QED
    BY <2>1
<1> DEFINE wrong == {i \in 0..N : ~Holding(h[i], i, cached, kb)}
<1>8. wrong = {}
  <2> SUFFICES ASSUME wrong # {} PROVE FALSE
    OBVIOUS
  <2>1. wrong \in SUBSET Nat
    OBVIOUS
  <2>2. PICK n \in wrong : \A m \in wrong : n <= m
    BY <2>1, LeastNumber
  <2>3. n \in 0..N /\ ~Holding(h[n], n, cached, kb) /\ n \in Nat
    OBVIOUS
  <2>4. CASE n = 0
    <3>1. h[0] = first
      BY <1>7, <2>3, <2>4
    <3>2. Len(cached) \in Nat
      BY LenProperties
    <3>3. Holding(first, 0, cached, kb)
      BY <3>2 DEF Holding
    <3> QED
      BY <2>3, <2>4, <3>1, <3>3
  <2>5. CASE n # 0
    <3>1. PICK k \in Nat : k = n - 1 /\ k \in 0..N /\ k + 1 = n /\ n \in 1..N /\ ~(n <= k)
      BY <1>1, <2>3, <2>5
    <3>2. Holding(h[k], k, cached, kb)
      BY <2>2, <3>1
    <3>3. h[n] = Resolve(h[k], KbConfig[n], kb)
      BY <1>7, <2>3, <2>5, <3>1
    <3>4. KbConfig[n] \in Plugin /\ k + 1 \in DOMAIN KbConfig
      BY <1>1, <3>1
    <3>5. Holding(Resolve(h[k], KbConfig[n], kb), k + 1, cached, kb)
      BY <3>1, <3>2, <3>4, ResolveKeeps
    <3> QED
      BY <2>3, <3>1, <3>3, <3>5
  <2> QED
    BY <2>4, <2>5
<1>9. Holding(h[N], N, cached, kb)
  <2>1. N \in 0..N /\ N \notin wrong
    BY <1>1, <1>8
  <2> QED
    BY <2>1
<1> QED
  BY <1>5, <1>6, <1>9

LEMMA InstancesGrow ==
    ASSUME PluginInv, Serving, app' = app, given' = given, NEW kb \in Kbs,
           instances' = ResolveAll(instances, kb).insts
    PROVE  PluginInv'
<1>1. PICK made : made = ResolveAll(instances, kb)
  OBVIOUS
<1>2. instances \in Seq(Instance) /\ OneEach(instances)
  BY DEF PluginInv, PluginsFollowTheApp, OneEach
<1>3. Holding(made, Len(KbConfig), instances, kb)
  BY <1>1, <1>2, ResolveAllKeeps
<1>4. PICK m \in Nat, n \in Nat : /\ m = Len(instances) /\ DOMAIN instances = 1..m
                                  /\ n = Len(instances') /\ DOMAIN instances' = 1..n
  BY <1>1, <1>2, <1>3, LenProperties DEF Holding
<1>5. /\ instances' \in Seq(Instance) /\ OneEach(instances')
      /\ m <= n /\ \A i \in 1..m : instances'[i] = instances[i]
  BY <1>1, <1>3, <1>4 DEF Holding
<1>6. ASSUME NEW i \in DOMAIN KbConfig
      PROVE  \E j \in DOMAIN instances' :
                instances'[j] = [plugin |-> KbConfig[i], kb |-> DefaultKb, state |-> "started"]
  <2>1. PICK j \in 1..m :
            instances[j] = [plugin |-> KbConfig[i], kb |-> DefaultKb, state |-> "started"]
    BY <1>4 DEF PluginInv, PluginsFollowTheApp
  <2>2. j \in 1..n /\ instances'[j] = instances[j]
    BY <1>5
  <2> QED
    BY <1>4, <2>1, <2>2
<1>7. /\ app'.phase # "stopped" /\ given' \in Scenarios
      /\ app' \in [phase : {"created", "serving", "stopped"}, starts : Nat]
  BY DEF Serving, PluginInv
<1> QED
  BY <1>5, <1>6, <1>7 DEF PluginInv, PluginsFollowTheApp, OneEach

LEMMA InstancesStay ==
    ASSUME PluginInv, app' = app, given' = given, instances' = instances
    PROVE  PluginInv'
BY DEF PluginInv, PluginsFollowTheApp, Serving

LEMMA InstancesStart ==
    ASSUME PluginInv, Start
    PROVE  PluginInv'
<1>1. PICK made : made = ResolveAll(<<>>, DefaultKb)
  OBVIOUS
<1>2. PICK raised \in SUBSET DOMAIN made.insts :
        /\ instances' = StartupAll(made.insts, raised)
        /\ app' = [phase |-> IF made.ok /\ raised = {} THEN "serving" ELSE "created",
                   starts |-> app.starts + 1]
  BY <1>1 DEF Start
<1>3. /\ given' \in Scenarios
      /\ app' \in [phase : {"created", "serving", "stopped"}, starts : Nat]
  <2>1. given' = given /\ given \in Scenarios /\ app.starts \in Nat
    BY DEF Start, PluginInv
  <2>2. \E phase \in {"created", "serving"} : app' = [phase |-> phase, starts |-> app.starts + 1]
    BY <1>2
  <2> QED
    BY <2>1, <2>2
<1>4. <<>> \in Seq(Instance) /\ DOMAIN <<>> = {} /\ OneEach(<<>>) /\ DefaultKb \in Kbs
  BY EmptySeq DEF OneEach, Kbs
<1>5. Holding(made, Len(KbConfig), <<>>, DefaultKb)
  BY <1>1, <1>4, ResolveAllKeeps
<1>6. PICK s \in Seq(Instance) : /\ s = made.insts /\ OneEach(s)
                                 /\ made.ok => \A i \in 1..Len(KbConfig) : Cached(s, KbConfig[i], DefaultKb)
  BY <1>5 DEF Holding
<1>7. PICK n \in Nat : n = Len(s) /\ DOMAIN s = 1..n /\ \A i \in 1..n : s[i] \in Instance
  BY LenProperties, ElementOfSeq
<1>8. PICK t : t = instances'
  OBVIOUS
<1>9. t = [i \in 1..n |-> IF \E j \in raised : j <= i THEN s[i]
                          ELSE [s[i] EXCEPT !.state = "started"]]
  BY <1>2, <1>6, <1>7, <1>8 DEF StartupAll
<1>10. ASSUME NEW i \in 1..n
       PROVE  /\ t[i] \in Instance /\ t[i].plugin = s[i].plugin /\ t[i].kb = s[i].kb
              /\ raised = {} => t[i].state = "started"
  <2>1. s[i] \in Instance
    BY <1>7
  <2>2. t[i] = s[i] \/ t[i] = [s[i] EXCEPT !.state = "started"]
    BY <1>9
  <2>3. raised = {} => t[i] = [s[i] EXCEPT !.state = "started"]
    BY <1>9
  <2> QED
    BY <2>1, <2>2, <2>3 DEF Instance
<1>11. DOMAIN t = 1..n
  BY <1>9
<1>12. t \in Seq(Instance)
  <2>1. t \in [1..n -> Instance]
    BY <1>9, <1>10
  <2> QED
    BY <2>1, SeqDef
<1>13. OneEach(t)
  BY <1>6, <1>7, <1>10, <1>11 DEF OneEach
<1>14. Len(KbConfig) \in Nat /\ DOMAIN KbConfig = 1..Len(KbConfig)
  BY RegistryConstants, LenProperties
<1>15. ASSUME made.ok, raised = {}, NEW i \in DOMAIN KbConfig
       PROVE  \E j \in DOMAIN t : t[j] = [plugin |-> KbConfig[i], kb |-> DefaultKb, state |-> "started"]
  <2>1. Cached(s, KbConfig[i], DefaultKb)
    BY <1>6, <1>14, <1>15
  <2>2. PICK j \in 1..n : s[j].plugin = KbConfig[i] /\ s[j].kb = DefaultKb
    BY <1>7, <2>1 DEF Cached
  <2>3. /\ t[j] \in Instance /\ t[j].plugin = KbConfig[i] /\ t[j].kb = DefaultKb
        /\ t[j].state = "started"
    BY <1>10, <1>15, <2>2
  <2>4. t[j] = [plugin |-> KbConfig[i], kb |-> DefaultKb, state |-> "started"]
    BY <2>3 DEF Instance
  <2> QED
    BY <1>11, <2>4
<1>16. app'.phase # "stopped" /\ (app'.phase = "serving" => made.ok /\ raised = {})
  BY <1>2
<1> QED
  BY <1>3, <1>8, <1>12, <1>13, <1>15, <1>16 DEF PluginInv, PluginsFollowTheApp, Serving, OneEach

LEMMA InstancesEnd ==
    ASSUME PluginInv, Stop \/ Crash
    PROVE  PluginInv'
<1> DEFINE App == [phase : {"created", "serving", "stopped"}, starts : Nat]
<1>1. given' \in Scenarios /\ app \in App
  BY DEF Stop, Crash, Ended, PluginInv
<1>2. CASE Crash
  <2>1. instances' = <<>> /\ app' = [app EXCEPT !.phase = "created"]
    BY <1>2 DEF Crash
  <2>2. app' \in App /\ app'.phase = "created"
    BY <1>1, <2>1
  <2>3. <<>> \in Seq(Instance) /\ DOMAIN <<>> = {}
    BY EmptySeq
  <2> QED
    BY <1>1, <2>1, <2>2, <2>3 DEF PluginInv, PluginsFollowTheApp, Serving
<1>3. CASE Stop
  <2>1. PICK raised : ShutdownAll(raised)
    BY <1>3 DEF Stop
  <2>2. app' \in App /\ app'.phase = "stopped"
    <3>1. app' = [app EXCEPT !.phase = "stopped"]
      BY <1>3 DEF Stop
    <3> QED
      BY <1>1, <3>1
  <2>3. PICK n \in Nat : DOMAIN instances = 1..n /\ \A i \in 1..n : instances[i] \in Instance
    BY LenProperties, ElementOfSeq DEF PluginInv
  <2>4. PICK t : t = instances'
    OBVIOUS
  <2>5. t = [i \in 1..n |->
                [instances[i] EXCEPT !.state = IF i \in raised THEN "failed" ELSE "closed"]]
    BY <2>1, <2>3, <2>4 DEF ShutdownAll
  <2>6. ASSUME NEW i \in 1..n
        PROVE  /\ t[i] \in Instance /\ t[i].plugin = instances[i].plugin /\ t[i].kb = instances[i].kb
               /\ t[i].state \in {"closed", "failed"}
    <3>1. instances[i] \in Instance
      BY <2>3
    <3>2. \/ t[i] = [instances[i] EXCEPT !.state = "failed"]
          \/ t[i] = [instances[i] EXCEPT !.state = "closed"]
      BY <2>5
    <3> QED
      BY <3>1, <3>2 DEF Instance
  <2>7. DOMAIN t = 1..n
    BY <2>5
  <2>8. t \in Seq(Instance)
    <3>1. t \in [1..n -> Instance]
      BY <2>5, <2>6
    <3> QED
      BY <3>1, SeqDef
  <2>9. OneEach(instances)
    BY DEF PluginInv, PluginsFollowTheApp, OneEach
  <2>10. OneEach(t)
    BY <2>3, <2>6, <2>7, <2>9 DEF OneEach
  <2> QED
    BY <1>1, <2>2, <2>4, <2>6, <2>7, <2>8, <2>10
       DEF PluginInv, PluginsFollowTheApp, Serving, OneEach
<1> QED
  BY <1>2, <1>3

(* Only the routes of a knowledge base and the tools make instances. *)
LEMMA InstancesOfRequests ==
    ASSUME PluginInv, NEW r \in Request, RequestStep(r)
    PROVE  PluginInv'
<1>1. CASE KbRoute(r)
  <2>1. Serving /\ app' = app /\ given' = given
    BY <1>1 DEF KbRoute, At
  <2>2. instances' = instances \/ instances' = ResolveAll(instances, ask[r].kb).insts
    BY <1>1 DEF KbRoute
  <2>3. ask[r].kb \in Kbs
    BY DEF PluginInv, Kbs, ask
  <2> QED
    BY <2>1, <2>2, <2>3, InstancesGrow, InstancesStay
<1>2. CASE ToolReturns(r)
  <2>1. Serving /\ app' = app /\ given' = given
    BY <1>2 DEF ToolReturns, At
  <2>2. instances' = instances \/ instances' = ResolveAll(instances, ask[r].msg.kb).insts
    BY <1>2 DEF ToolReturns
  <2>3. ask[r].msg.kb \in Kbs
    BY DEF PluginInv, Kbs, ask
  <2> QED
    BY <2>1, <2>2, <2>3, InstancesGrow, InstancesStay
<1>3. CASE Arrive(r) \/ IpLimit(r) \/ Auth(r) \/ Quota(r) \/ QuotaRead(r) \/ Limit(r)
  <2>1. app' = app /\ given' = given /\ instances' = instances
    BY <1>3 DEF Arrive, IpLimit, Auth, Quota, QuotaRead, Limit
  <2> QED
    BY <2>1, InstancesStay
<1>4. CASE OpenRoute(r) \/ AuditRoute(r) \/ SseRoute(r) \/ Fill(r) \/ Audit(r)
  <2>1. app' = app /\ given' = given /\ instances' = instances
    BY <1>4 DEF OpenRoute, AuditRoute, SseRoute, Fill, Audit
  <2> QED
    BY <2>1, InstancesStay
<1>5. CASE MessageRoute(r)
  <2>1. app' = app /\ given' = given /\ instances' = instances
    BY <1>5 DEF MessageRoute
  <2> QED
    BY <2>1, InstancesStay
<1> QED
  BY <1>1, <1>2, <1>3, <1>4, <1>5 DEF RequestStep

(* An application that serves has started every plugin of its default      *)
(* knowledge base, one that was stopped has offered each instance its      *)
(* shutdown hook, also behind one that raised, and no plugin has two       *)
(* instances for a knowledge base, whatever requests resolve in between    *)
(* and wherever a factory fails (resolve, startup_all, shutdown_all).      *)
THEOREM InstancesFollowTheApp == Spec => []PluginsFollowTheApp
<1>1. Init => PluginInv
  <2> SUFFICES ASSUME Init PROVE PluginInv
    OBVIOUS
  <2>1. /\ given \in Scenarios /\ instances = <<>>
        /\ app = [phase |-> "created", starts |-> 0]
    BY DEF Init
  <2>2. <<>> \in Seq(Instance) /\ DOMAIN <<>> = {}
    BY EmptySeq
  <2> QED
    BY <2>1, <2>2 DEF PluginInv, PluginsFollowTheApp, Serving
<1>2. PluginInv /\ [Next]_vars => PluginInv'
  <2> SUFFICES ASSUME PluginInv, [Next]_vars PROVE PluginInv'
    OBVIOUS
  <2>1. CASE \E r \in Request : RequestStep(r)
    BY <2>1, InstancesOfRequests
  <2>2. CASE \E s \in Session : Deliver(s)
    <3>1. app' = app /\ given' = given /\ instances' = instances
      BY <2>2 DEF Deliver, gatewayVars
    <3> QED
      BY <3>1, InstancesStay
  <2>3. CASE Start
    BY <2>3, InstancesStart
  <2>4. CASE Stop \/ Crash
    BY <2>4, InstancesEnd
  <2>5. CASE Environment
    <3>1. app' = app /\ given' = given /\ instances' = instances
      BY <2>5 DEF Environment, gatewayVars
    <3> QED
      BY <3>1, InstancesStay
  <2>6. CASE UNCHANGED vars
    <3>1. app' = app /\ given' = given /\ instances' = instances
      BY <2>6 DEF vars, gatewayVars
    <3> QED
      BY <3>1, InstancesStay
  <2> QED
    BY <2>1, <2>2, <2>3, <2>4, <2>5, <2>6 DEF Next
<1>3. PluginInv => PluginsFollowTheApp
  BY DEF PluginInv
<1> QED
  BY <1>1, <1>2, <1>3, PTL DEF Spec
===============================================================================
