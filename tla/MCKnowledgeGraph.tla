--------------------------- MODULE MCKnowledgeGraph ---------------------------
(* Two documents.  d1 has two chunks, which name one entity in two ways;   *)
(* d2 names it in the short way, with a second entity that d1 also has and *)
(* a third whose description is close to the first's; what the small       *)
(* extractor finds is the same relation in both.                           *)
EXTENDS KnowledgeGraph

CONSTANTS d1, d2, c1, c2, c3, acme, acmeInc, bolt, corp, noise

MCChunksOf == (d1 :> <<c1, c2>>) @@ (d2 :> <<c3>>)
MCNameNorm == (acme :> acme) @@ (acmeInc :> acme) @@ (bolt :> bolt) @@ (corp :> corp)
                @@ (noise :> noise)
MCNameLen == (acme :> 4) @@ (acmeInc :> 8) @@ (bolt :> 4) @@ (corp :> 4) @@ (noise :> 5)
MCAlikeName == {<<corp, acme>>, <<corp, acmeInc>>}
Said(names, rels) == [names |-> names, rels |-> rels]
MCByModel ==
    (c1 :> Said(<<acme, bolt, noise>>, {<<acme, bolt>>, <<bolt, noise>>}))
    @@ (c2 :> Said(<<acmeInc>>, {}))
    @@ (c3 :> Said(<<corp, bolt>>, {<<bolt, corp>>}))
MCByRules ==
    (c1 :> Said(<<acme, bolt>>, {<<acme, bolt>>}))
    @@ (c2 :> Said(<<>>, {}))
    @@ (c3 :> Said(<<bolt, acme>>, {<<acme, bolt>>}))
Wired(store, mode, persist) == [store |-> store, mode |-> mode, persist |-> persist]
MCWirings == {Wired("nx", "llm", FALSE), Wired("nx", "hybrid", TRUE), Wired("nx", "small", TRUE),
              Wired("neo4j", "llm", FALSE), Wired("neo4j", "small", FALSE)}
================================================================================
