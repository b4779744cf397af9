------------------------------- MODULE MCGateway -------------------------------
(* Groups of requests that meet: uploads of two tenants at the cap, callers *)
(* with and without valid credentials at the limits, readers of the audit   *)
(* rows, an MCP session with its messages, and a stdio client.              *)
EXTENDS Gateway

CONSTANTS r1, r2, r3, alice, bob, carol, jane, odd, ta, tb, ka, kb1, kb2, s1, emb, vec

MCIdentity ==
    (alice :> [tenant |-> ta, acl |-> {ka}, enabled |-> TRUE])
    @@ (bob :> [tenant |-> tb, acl |-> Unrestricted, enabled |-> TRUE])
    @@ (carol :> [tenant |-> tb, acl |-> Unrestricted, enabled |-> FALSE])
    @@ (jane :> [tenant |-> ta, acl |-> Unrestricted, enabled |-> TRUE])
    @@ (odd :> [tenant |-> ta, acl |-> Unrestricted, enabled |-> TRUE])
    @@ (Anonymous :> [tenant |-> DefaultTenant, acl |-> Unrestricted, enabled |-> FALSE])
MCClaims == jane :> 1
MCBurst == [ip |-> 4, key |-> 4]
MCRate == [ip |-> 2, key |-> 2]
MCKbConfig == <<emb, vec>>
MCBroken == {<<vec, kb1>>}

Hello == [id |-> 1, method |-> "initialize", kb |-> ka]
Asked == [peer |-> "here", cred |-> alice, route |-> "health", kb |-> ka, tenant |-> Anonymous,
          size |-> 1, session |-> s1, msg |-> Hello]
Upload == [Asked EXCEPT !.route = "upload"]
Chat == [Asked EXCEPT !.route = "chat"]
Rows == [Asked EXCEPT !.route = "audit"]
Posted(id, method, kb) == [Asked EXCEPT !.route = "message",
                                        !.msg = [id |-> id, method |-> method, kb |-> kb]]
Plain == [redis |-> FALSE, metadata |-> FALSE, ip |-> FALSE, auth |-> TRUE, jwt |-> FALSE]
Full == [Plain EXCEPT !.metadata = TRUE, !.jwt = TRUE]
Scenario(asks, wired, world) == [ask |-> asks, wiring |-> wired, lines |-> <<>>, world |-> world]
By(who, a) == [a EXCEPT !.cred = who]
Two(a, b) == (r1 :> a) @@ (r2 :> b)
Three(a, b, c) == Two(a, b) @@ (r3 :> c)

MCScenarios ==
    {Scenario(Three(Upload, By(jane, [Upload EXCEPT !.size = 2]), By(bob, Upload)), Full, {"month"}),
     Scenario(Three(Upload, [Upload EXCEPT !.size = 2], [Upload EXCEPT !.kb = kb1]), Plain, {"month"}),
     Scenario(Two(By(bob, [Chat EXCEPT !.kb = kb1]), Upload), Plain, {"end", "failing hooks", "charges"}),
     Scenario(Two(By(jane, Chat), By(bob, [Chat EXCEPT !.route = "stream"])), Full, {"time", "end"}),
     Scenario(Three(Asked, By(carol, Asked), Asked), [Plain EXCEPT !.ip = TRUE], {"time"}),
     Scenario(Two(Asked, Asked), [Plain EXCEPT !.redis = TRUE], {"time", "outage", "charges"}),
     Scenario(Two(Asked, Asked), [Plain EXCEPT !.redis = TRUE, !.ip = TRUE], {"outage", "end"}),
     Scenario(Three(By(odd, Asked), [Rows EXCEPT !.tenant = tb], By(bob, Rows)), Full, {}),
     Scenario(Three(By(Anonymous, Asked), By(Anonymous, Chat), [Rows EXCEPT !.tenant = ta]),
              [Plain EXCEPT !.auth = FALSE], {"end"})}
    \cup {Scenario(Three(By(talk[1], [Asked EXCEPT !.route = "sse"]),
                         By(bob, Posted(1, "initialize", ka)), By(bob, Posted(2, method, talk[2]))),
                   [Plain EXCEPT !.jwt = TRUE], {}) :
            talk \in {<<alice, kb2>>, <<jane, kb2>>, <<jane, kb1>>}, method \in Methods}
    \cup {[Scenario(<<>>, Plain, {}) EXCEPT !.lines = <<Posted(1, "ragx_search", ka).msg, Hello,
                   Posted(2, "ragx_search", ka).msg, Posted(3, "ragx_list_kbs", ka).msg>>]}
================================================================================
