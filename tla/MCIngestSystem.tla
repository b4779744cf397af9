---------------------------- MODULE MCIngestSystem ----------------------------
(* IngestSystem with two knowledge bases and four uploads: u1 and u2 have  *)
(* the same content and knowledge base, u4 has that content in the other   *)
(* knowledge base.  The deployments: lite (one process, in-process queue,  *)
(* in-memory database), lite with its database on disk, two API processes  *)
(* on Redis with one database, and an API process with the separate worker *)
(* of the compose profile, each with its own in-memory database.           *)
EXTENDS IngestSystem, TLC

CONSTANTS p1, p2, k1, k2, u1, u2, u3, u4

MCKbOf == [u \in Upload |-> IF u = u4 THEN k2 ELSE k1]
MCHashOf == [u \in Upload |-> IF u = u3 THEN 2 ELSE 1]

Lite == [driver |-> "in_process", api |-> {p1}, consumers |-> {p1},
         db |-> [p \in Proc |-> p1], durable |-> FALSE, uploads |-> {u1, u2, u3, u4}]

LiteOnDisk == [Lite EXCEPT !.durable = TRUE, !.uploads = {u1, u2, u4}]

OneDatabase == [driver |-> "redis", api |-> {p1, p2}, consumers |-> {p1, p2},
                db |-> [p \in Proc |-> p1], durable |-> TRUE, uploads |-> {u1, u3}]

Compose == [driver |-> "redis", api |-> {p1}, consumers |-> {p2},
            db |-> [p \in Proc |-> p], durable |-> FALSE, uploads |-> {u1, u2}]

MCDeployments == {Lite, LiteOnDisk, OneDatabase, Compose}
OneProcess == {[OneDatabase EXCEPT !.api = {p1}, !.consumers = {p1}]}
===============================================================================
