---------------------------- MODULE KnowledgeGraph ----------------------------
(***************************************************************************)
(* ragx/kg and the graph stores: KGBuilder.build_for_chunks (extraction,   *)
(* confidence filter, two-level merge, upsert), the deletion of a document *)
(* from the graph, and the rebuild of an incremental reindex, for          *)
(* documents of one knowledge base that are worked on at the same time.    *)
(*                                                                         *)
(* store is "nx" (NetworkXGraphStore: each call runs under one lock and    *)
(* ends by writing the whole graph to persist_path, if there is one) or    *)
(* "neo4j" (a transaction per statement, any of which may fail).  The      *)
(* process may die at any time, also while it writes that file.            *)
(* Descriptions, confidences and weights only grow and are left out, as    *)
(* are the attributes networkx keeps on nodes and edges, which nothing     *)
(* reads.  A relation has one type, and equal relations are one: networkx  *)
(* keys a relation by its ends, neo4j by an id that each build draws anew. *)
(***************************************************************************)
EXTENDS Integers, SequencesExt, TLC

CONSTANTS
    Doc, Chunk,
    ChunksOf,     \* Doc -> its chunks, a sequence
    Name,         \* entity names as extracted
    NameNorm,     \* Name -> normalize_name of it
    NameLen,      \* Name -> its length
    Doubtful,     \* names extracted with a confidence below CONFIDENCE_MIN
    AlikeName,    \* pairs of names of one type whose descriptions are near
    ByModel,      \* Chunk -> what the language model extracts
    ByRules,      \* Chunk -> what the small extractor extracts
    Skipped,      \* no extraction
    Wirings,      \* store, extractor mode, and whether persist_path is set
    MaxReruns     \* bound: how often a graph stage is run again

VARIABLES
    entities,     \* name_norm -> [norm, id, name, docs, vec: the name it was embedded under]
    nodes,        \* the node ids of the networkx graph
    edges,        \* its edges, pairs of node ids
    relations,    \* <<head id, tail id, whose build made it>> -> source_doc_ids
    job,          \* what is being done for a document
    disk,         \* the file of the networkx store
    crashes,      \* history: none, one that kept the graph, one that lost it
    reruns,       \* history: how many graph stages were run again
    mixed,        \* history: a deletion ran while another job held a batch
    wiring        \* the store and the extractor mode

graph == <<entities, nodes, edges, relations>>
history == <<crashes, reruns, mixed>>
vars == <<graph, job, disk, history, wiring>>

ASSUME GraphConstants ==
    /\ ChunksOf \in [Doc -> Seq(Chunk)]
    /\ NameLen \in [Name -> Nat]
    /\ AlikeName \subseteq Name \X Name
    /\ Wirings \subseteq [store : {"nx", "neo4j"}, mode : {"llm", "small", "hybrid"},
                          persist : BOOLEAN]
    /\ MaxReruns \in Nat

NoJob == [phase |-> "new", todo |-> <<>>, found |-> <<>>, said |-> {}, own |-> <<>>,
          batch |-> <<>>, links |-> {}, kept |-> {}, rebuild |-> FALSE]

Empty == [ents |-> <<>>, nodes |-> {}, edges |-> {}, rels |-> <<>>]

Init ==
    /\ entities = <<>> /\ nodes = {} /\ edges = {} /\ relations = <<>> /\ disk = Empty
    /\ crashes = "none" /\ reruns = 0
    /\ job = [d \in Doc |-> NoJob]
    /\ mixed = FALSE
    /\ wiring \in Wirings

Nx == wiring.store = "nx"
Working(d) == job[d].phase \in {"extract", "merge", "upsert", "relate"}
Ids == {entities[n].id : n \in DOMAIN entities}
UsedIds == Ids \cup nodes
             \cup (UNION {{l[1], l[2]} : l \in DOMAIN relations \cup (UNION {job[d].links : d \in Doc})})
             \cup (UNION {{e.id : e \in ToSet(job[d].batch \o job[d].own)} : d \in Doc})
FreshId == CHOOSE id \in 0..Cardinality(UsedIds) : id \notin UsedIds     \* uuid4

(* _dump_locked, at the end of a call that changes the graph. *)
Dump(called) ==
    disk' = IF called /\ wiring.persist
            THEN [ents |-> entities', nodes |-> nodes', edges |-> edges', rels |-> relations']
            ELSE disk

(* A job that raised or was cut off.  The graph stage of an ingest task is *)
(* run again; a reindex or a deletion is not.                              *)
Broken(d) == [NoJob EXCEPT !.phase = IF job[d].rebuild THEN "aborted" ELSE "raised"]

To(d, record) == job' = [job EXCEPT ![d] = record]

(* The graph stage of an ingest task, first or run again after it raised.  *)
StartBuild(d) ==
    /\ \/ job[d].phase = "new" /\ UNCHANGED reruns
       \/ job[d].phase = "raised" /\ reruns < MaxReruns /\ reruns' = reruns + 1
    /\ To(d, [NoJob EXCEPT !.phase = "extract", !.todo = ChunksOf[d]])
    /\ UNCHANGED <<graph, disk, crashes, mixed, wiring>>

(* extract_auto: the language model is asked twice before a chunk is       *)
(* skipped; the small extractor always answers; in hybrid mode its answer  *)
(* stands when the augmentation fails, unless it is empty.                 *)
ExtractAuto(c) ==
    LET fallback == {ByModel[c], Skipped}
    IN  CASE wiring.mode = "small" -> {ByRules[c]}
          [] wiring.mode = "hybrid" /\ ByRules[c].names # <<>> -> {ByModel[c], ByRules[c]}
          [] OTHER -> fallback

(* filter_low_confidence *)
FilterLowConfidence(r) ==
    LET valid == SelectSeq(r.names, LAMBDA n : n \notin Doubtful)
    IN  [names |-> valid, rels |-> {l \in r.rels : l[1] \in ToSet(valid) /\ l[2] \in ToSet(valid)}]

Extract(d) ==
    /\ job[d].phase = "extract" /\ job[d].todo # <<>>
    /\ \E r \in ExtractAuto(Head(job[d].todo)) :
        IF r = Skipped THEN To(d, [job[d] EXCEPT !.todo = Tail(@)])
        ELSE LET kept == FilterLowConfidence(r)
             IN  To(d, [job[d] EXCEPT !.phase = "merge", !.found = kept.names, !.said = kept.rels])
    /\ UNCHANGED <<graph, disk, history, wiring>>

NewEntity(d, name) ==
    [norm |-> NameNorm[name], id |-> FreshId, name |-> name, docs |-> {d}, vec |-> name]

(* What merge_entities makes of an extracted name: the entity stored under *)
(* the same normal form with the longer name, else one with a near vector, *)
(* else a new one.  A store that shows no entities never has the first two.*)
Merged(d, name) ==
    LET norm == NameNorm[name]
        near == {n \in DOMAIN entities \ {norm} : <<name, entities[n].vec>> \in AlikeName}
        with(e) == [e EXCEPT !.docs = @ \cup {d}]
    IN  CASE Nx /\ norm \in DOMAIN entities ->
                {[with(entities[norm]) EXCEPT
                    !.name = IF NameLen[@] >= NameLen[name] THEN @ ELSE name]}
          [] Nx /\ norm \notin DOMAIN entities /\ near # {} -> {with(entities[n]) : n \in near}
          [] OTHER -> {NewEntity(d, name)}

(* One round of merge_entities.  A failed embedding or search skips the    *)
(* chunk with what it had merged.                                          *)
MergeEntity(d) ==
    /\ job[d].phase = "merge" /\ job[d].found # <<>>
    /\ \/ \E e \in Merged(d, Head(job[d].found)) :
            To(d, [job[d] EXCEPT !.found = Tail(@), !.own = Append(@, e)])
       \/ To(d, [job[d] EXCEPT !.phase = "extract", !.todo = Tail(@), !.found = <<>>,
                               !.said = {}, !.own = <<>>])
    /\ UNCHANGED <<graph, disk, history, wiring>>

(* _build_relations: by the names the merged entities now have, then by    *)
(* those in the store; a relation with an unknown name is dropped, also    *)
(* one whose entity was found under a longer name.                         *)
IdsNamed(d, name) ==
    LET own == {i \in DOMAIN job[d].own : job[d].own[i].name = name}
        stored == {n \in DOMAIN entities : Nx /\ entities[n].name = name}
    IN  IF own # {} THEN {job[d].own[Max(own)].id} ELSE {entities[n].id : n \in stored}

FinishChunk(d) ==
    /\ job[d].phase = "merge" /\ job[d].found = <<>>
    /\ To(d, [job[d] EXCEPT
            !.phase = "extract", !.todo = Tail(@), !.said = {}, !.own = <<>>,
            !.batch = @ \o job[d].own,
            !.links = @ \cup UNION {IdsNamed(d, l[1]) \X IdsNamed(d, l[2]) : l \in job[d].said}])
    /\ UNCHANGED <<graph, disk, history, wiring>>

EndExtraction(d) ==
    /\ job[d].phase = "extract" /\ job[d].todo = <<>>
    /\ To(d, [job[d] EXCEPT !.phase = "upsert", !.kept = {e.norm : e \in ToSet(job[d].batch)}])
    /\ UNCHANGED <<graph, disk, history, wiring>>

MutantStored(old, e) == [old EXCEPT !.docs = e.docs]

(* What an upsert makes of an entity already stored under the key. *)
Stored(old, e) == [old EXCEPT !.docs = @ \cup e.docs]

(* upsert_entities of networkx: the batch under one lock, stopped by the   *)
(* node of an entity that was merged under another id (KeyError).          *)
First(batch, i) ==
    batch[i].norm \notin DOMAIN entities /\ \A j \in 1..(i - 1) : batch[j].norm # batch[i].norm
NodesBefore(batch, i) == nodes \cup {batch[j].id : j \in {k \in 1..(i - 1) : First(batch, k)}}
Raises(batch, i) == ~First(batch, i) /\ batch[i].id \notin NodesBefore(batch, i)
Reached(batch) == {i \in DOMAIN batch : \A j \in 1..(i - 1) : ~Raises(batch, j)}

UpsertAll(batch) ==
    LET reached == Reached(batch)
        made == {i \in reached : First(batch, i)}
        into(n) == {i \in reached : batch[i].norm = n}
        before(n) == IF n \in DOMAIN entities THEN entities[n]
                     ELSE batch[CHOOSE i \in made : batch[i].norm = n]
    IN  [ents |-> [n \in DOMAIN entities \cup {batch[i].norm : i \in made} |->
                    Stored(before(n), [docs |-> UNION {batch[i].docs : i \in into(n)}])],
         nodes |-> nodes \cup {batch[i].id : i \in made},
         ok |-> \A i \in DOMAIN batch : ~Raises(batch, i)]

UpsertEntitiesNx(d) ==
    LET done == UpsertAll(job[d].batch)
    IN  /\ Nx /\ job[d].phase = "upsert"
        /\ entities' = done.ents /\ nodes' = done.nodes
        /\ To(d, IF done.ok THEN [job[d] EXCEPT !.phase = "relate", !.batch = <<>>]
                 ELSE Broken(d))
        /\ UNCHANGED <<edges, relations, history, wiring>>
        /\ Dump(done.ok /\ job[d].batch # <<>>)

(* upsert_entities of neo4j: one MERGE after the other; the entity keeps   *)
(* the id it was created with.                                             *)
UpsertEntityNeo4j(d) ==
    /\ ~Nx /\ job[d].phase = "upsert" /\ job[d].batch # <<>>
    /\ LET e == Head(job[d].batch)
           grown(old) == [Stored(old, e) EXCEPT
                            !.name = IF NameLen[e.name] >= NameLen[@] THEN e.name ELSE @]
       IN  entities' = [n \in DOMAIN entities \cup {e.norm} |->
                            IF n # e.norm THEN entities[n]
                            ELSE IF n \in DOMAIN entities THEN grown(entities[n]) ELSE e]
    /\ To(d, [job[d] EXCEPT !.batch = Tail(@)])
    /\ UNCHANGED <<nodes, edges, relations, disk, history, wiring>>

EndEntitiesNeo4j(d) ==
    /\ ~Nx /\ job[d].phase = "upsert" /\ job[d].batch = <<>>
    /\ To(d, [job[d] EXCEPT !.phase = "relate"])
    /\ UNCHANGED <<graph, disk, history, wiring>>

Key(d, l) == <<l[1], l[2], IF Nx THEN {} ELSE {d}>>

(* upsert_relations of networkx, under one lock: a relation that is not in *)
(* the dictionary gets an edge, and with it any missing node.              *)
UpsertRelationsNx(d) ==
    LET keys == {Key(d, l) : l \in job[d].links}
        added == keys \ DOMAIN relations
    IN  /\ Nx /\ job[d].phase = "relate"
        /\ relations' = [k \in DOMAIN relations \cup keys |->
                            IF k \in added THEN {d}
                            ELSE IF k \in keys THEN relations[k] \cup {d} ELSE relations[k]]
        /\ edges' = edges \cup {<<k[1], k[2]>> : k \in added}
        /\ nodes' = nodes \cup UNION {{k[1], k[2]} : k \in added}
        /\ To(d, [job[d] EXCEPT !.phase = "built", !.links = {}])
        /\ UNCHANGED <<entities, history, wiring>>
        /\ Dump(keys # {})

(* upsert_relations of neo4j: one statement after the other, which matches *)
(* both ends first and otherwise does nothing.                             *)
UpsertRelationNeo4j(d) ==
    /\ ~Nx /\ job[d].phase = "relate"
    /\ \E l \in job[d].links :
        LET matched == {k \in {Key(d, l)} : k[1] \in Ids /\ k[2] \in Ids}
        IN  /\ relations' = [k \in DOMAIN relations \cup matched |->
                                IF k \in matched THEN {d} ELSE relations[k]]
            /\ To(d, [job[d] EXCEPT !.links = @ \ {l}])
    /\ UNCHANGED <<entities, nodes, edges, disk, history, wiring>>

EndRelationsNeo4j(d) ==
    /\ ~Nx /\ job[d].phase = "relate" /\ job[d].links = {}
    /\ To(d, [job[d] EXCEPT !.phase = "built"])
    /\ UNCHANGED <<graph, disk, history, wiring>>

(* A statement fails: what went before stays, the job is given up. *)
StoreFails(d) ==
    /\ ~Nx /\ job[d].phase \in {"upsert", "relate", "delete", "detach", "unlink", "prune"}
    /\ To(d, Broken(d))
    /\ UNCHANGED <<graph, disk, history, wiring>>

(* incremental_reindex with a graph store: the document is deleted from    *)
(* the graph, then the one edited chunk is built again.                    *)
StartReindex(d) ==
    /\ job[d].phase = "built" /\ ~job[d].rebuild
    /\ \E i \in DOMAIN ChunksOf[d] :
        To(d, [NoJob EXCEPT !.phase = "delete", !.todo = <<ChunksOf[d][i]>>, !.rebuild = TRUE])
    /\ UNCHANGED <<graph, disk, history, wiring>>

(* delete_chunk_from_graph: neo4j deletes the document; with networkx the  *)
(* counts are taken down by an upsert, which only adds, and the store has  *)
(* no operation that would remove an entity.                               *)
DeleteChunkFromGraph(d) ==
    LET remaining == [n \in {m \in DOMAIN entities : d \in entities[m].docs /\ entities[m].docs # {d}} |->
                        [entities[n] EXCEPT !.docs = @ \ {d}]]
    IN  /\ job[d].phase = "built" /\ ~job[d].rebuild
        /\ entities' = IF Nx
                       THEN [n \in DOMAIN entities |->
                                IF n \in DOMAIN remaining THEN Stored(entities[n], remaining[n])
                                ELSE entities[n]]
                       ELSE entities
        /\ To(d, IF Nx THEN [job[d] EXCEPT !.rebuild = TRUE]
                 ELSE [NoJob EXCEPT !.phase = "delete", !.rebuild = TRUE])
        /\ UNCHANGED <<nodes, edges, relations, history, wiring>>
        /\ Dump(remaining # <<>>)

Without(d) == [n \in DOMAIN entities |-> [entities[n] EXCEPT !.docs = @ \ {d}]]
Referenced(ents) == [n \in {m \in DOMAIN ents : ents[m].docs # {}} |-> ents[n]]
Unlisted(d, rels) == [l \in DOMAIN rels |-> rels[l] \ {d}]
Listed(rels) == [l \in {k \in DOMAIN rels : rels[k] # {}} |-> rels[l]]
AmongIds(rels, ids) == [l \in {k \in DOMAIN rels : k[1] \in ids /\ k[2] \in ids} |-> rels[l]]

Mix(d) == mixed' = (mixed \/ \E o \in Doc \ {d} : Working(o))
AfterDelete(d) == IF job[d].todo = <<>> THEN "gone" ELSE "extract"

MutantDeleteNx(d) ==
    /\ Nx /\ job[d].phase = "delete"
    /\ entities' = Referenced(Without(d))
    /\ relations' = Listed(Unlisted(d, relations))
    /\ UNCHANGED <<nodes, edges>>
    /\ Dump(TRUE) /\ Mix(d)
    /\ To(d, [job[d] EXCEPT !.phase = AfterDelete(d)])
    /\ UNCHANGED <<crashes, reruns, wiring>>

(* delete_by_doc of networkx, under one lock: entities nobody references   *)
(* go, with their node, its edges and their relations.  A relation nobody  *)
(* lists leaves the dictionary, but its edge stays between two nodes that  *)
(* stay.                                                                   *)
DeleteNx(d) ==
    /\ Nx /\ job[d].phase = "delete"
    /\ entities' = Referenced(Without(d))
    /\ LET removed == {entities[n].id : n \in DOMAIN entities \ DOMAIN entities'}
           left == {l \in DOMAIN relations : l[1] \notin removed /\ l[2] \notin removed}
       IN  /\ relations' = Listed(Unlisted(d, [l \in left |-> relations[l]]))
           /\ nodes' = nodes \ removed
           /\ edges' = {e \in edges : e[1] \notin removed /\ e[2] \notin removed}
    /\ Dump(TRUE) /\ Mix(d)
    /\ To(d, [job[d] EXCEPT !.phase = AfterDelete(d)])
    /\ UNCHANGED <<crashes, reruns, wiring>>

(* delete_by_doc of neo4j: the document leaves the entities ...            *)
DeleteNeo4j(d) ==
    /\ ~Nx /\ job[d].phase = "delete"
    /\ entities' = Without(d)
    /\ Mix(d)
    /\ To(d, [job[d] EXCEPT !.phase = "detach"])
    /\ UNCHANGED <<nodes, edges, relations, disk, crashes, reruns, wiring>>

(* ... every entity without documents goes with its relations, whoever     *)
(* left it so ...                                                          *)
DetachNeo4j(d) ==
    /\ ~Nx /\ job[d].phase = "detach"
    /\ entities' = Referenced(entities)
    /\ relations' = AmongIds(relations, {entities'[n].id : n \in DOMAIN entities'})
    /\ Mix(d)
    /\ To(d, [job[d] EXCEPT !.phase = "unlink"])
    /\ UNCHANGED <<nodes, edges, disk, crashes, reruns, wiring>>

(* ... the document leaves the relations ...                               *)
UnlinkNeo4j(d) ==
    /\ ~Nx /\ job[d].phase = "unlink"
    /\ relations' = Unlisted(d, relations)
    /\ Mix(d)
    /\ To(d, [job[d] EXCEPT !.phase = "prune"])
    /\ UNCHANGED <<entities, nodes, edges, disk, crashes, reruns, wiring>>

MutantPruneNeo4j(d) ==
    /\ ~Nx /\ job[d].phase = "prune"
    /\ Mix(d)
    /\ To(d, [job[d] EXCEPT !.phase = AfterDelete(d)])
    /\ UNCHANGED <<graph, disk, crashes, reruns, wiring>>

(* ... and every relation without documents goes, whoever left it so.      *)
PruneNeo4j(d) ==
    /\ ~Nx /\ job[d].phase = "prune"
    /\ relations' = Listed(relations)
    /\ Mix(d)
    /\ To(d, [job[d] EXCEPT !.phase = AfterDelete(d)])
    /\ UNCHANGED <<entities, nodes, edges, disk, crashes, reruns, wiring>>

(* _load after the process died, perhaps while it wrote the file: one that *)
(* cannot be read is passed over, and the graph is empty.                  *)
Load(file) ==
    /\ entities' = file.ents /\ nodes' = file.nodes
    /\ edges' = file.edges /\ relations' = file.rels

MayDump(d) == job[d].phase \in {"upsert", "relate", "delete"} \/ (job[d].phase = "built" /\ ~job[d].rebuild)

Crash ==
    /\ crashes = "none"
    /\ \/ ~Nx /\ crashes' = "kept" /\ UNCHANGED <<graph, disk>>
       \/ Nx /\ wiring.persist /\ crashes' = "kept" /\ Load(disk) /\ UNCHANGED disk
       \/ /\ Nx /\ (~wiring.persist \/ \E d \in Doc : MayDump(d))
          /\ crashes' = "lost" /\ Load(Empty) /\ disk' = Empty
    /\ job' = [d \in Doc |-> IF job[d].phase \in {"new", "built", "gone", "aborted"}
                            THEN job[d] ELSE Broken(d)]
    /\ UNCHANGED <<reruns, mixed, wiring>>

Step(d) ==
    \/ StartBuild(d) \/ Extract(d) \/ MergeEntity(d) \/ FinishChunk(d) \/ EndExtraction(d)
    \/ UpsertEntitiesNx(d) \/ UpsertEntityNeo4j(d) \/ EndEntitiesNeo4j(d)
    \/ UpsertRelationsNx(d) \/ UpsertRelationNeo4j(d) \/ EndRelationsNeo4j(d)
    \/ StoreFails(d) \/ StartReindex(d) \/ DeleteChunkFromGraph(d)
    \/ DeleteNx(d) \/ DeleteNeo4j(d) \/ DetachNeo4j(d) \/ UnlinkNeo4j(d) \/ PruneNeo4j(d)

Next == Crash \/ \E d \in Doc : Step(d)

Spec == Init /\ [][Next]_vars

--------------------------------------------------------------------------------
(* neighbors with one hop: what graph retrieval expands an entity to, from *)
(* the edges of the networkx graph, or neo4j's relations, whoever they     *)
(* list.  Both stores look the ids up among the entities.                  *)
Edges == IF Nx THEN edges ELSE {<<l[1], l[2]>> : l \in DOMAIN relations}
Neighbors(id) == {e[2] : e \in {f \in Edges : f[1] = id}}
                    \cup {e[1] : e \in {f \in Edges : f[2] = id}}

(* A document whose build returned is in the graph: every entity its       *)
(* chunks were merged into is stored, lists the document, and can be found *)
(* by the id it has, whatever other documents were built or deleted in     *)
(* between, and also after a restart, unless there is no file or the file  *)
(* is torn (build_for_chunks, upsert_entities, delete_by_doc, _load).      *)
BuiltMeansPresent ==
    \A d \in Doc : job[d].phase = "built" /\ crashes # "lost" =>
        \A n \in job[d].kept :
            /\ n \in DOMAIN entities /\ d \in entities[n].docs
            /\ Nx => entities[n].id \in nodes

(* Once a document was deleted, and until it is built again, no entity and *)
(* no relation lists it, unless another document's build had already read  *)
(* the graph, and an edge it leaves in networkx joins entities that other  *)
(* documents list.  What nobody lists is only there while a deletion under *)
(* way, or one that failed, has yet to collect it: in networkx never       *)
(* (delete_by_doc of both stores).                                         *)
DeletedIsForgotten ==
    /\ \A d \in Doc :
        job[d].rebuild /\ ~mixed /\ job[d].phase \in {"extract", "merge", "gone"} =>
            /\ \A n \in DOMAIN entities : d \notin entities[n].docs
            /\ \A l \in DOMAIN relations : d \notin relations[l]
            /\ Nx => \A e \in edges : \A id \in {e[1], e[2]} :
                        \E n \in DOMAIN entities : entities[n].id = id /\ entities[n].docs \ {d} # {}
    /\ \A n \in DOMAIN entities : entities[n].docs = {} =>
            ~Nx /\ \E o \in Doc : job[o].phase \in {"detach", "aborted"}
    /\ \A l \in DOMAIN relations : relations[l] = {} =>
            ~Nx /\ \E o \in Doc : job[o].phase \in {"prune", "aborted"}

(* What an entity is expanded to is in the graph: neither relations nor    *)
(* edges lead to an unknown id, in neo4j always, with networkx as long as  *)
(* no document is deleted while another's build is under way; no two       *)
(* entities share an id; and in networkx dictionary and graph agree so far *)
(* that edges join nodes and every relation has its edge                   *)
(* (_build_relations, upsert_relations, delete_by_doc, neighbors).         *)
RelationsJoinEntities ==
    /\ \A m, n \in DOMAIN entities : entities[m].id = entities[n].id => m = n
    /\ Nx => \A e \in edges : e[1] \in nodes /\ e[2] \in nodes
    /\ \A l \in DOMAIN relations : <<l[1], l[2]>> \in Edges
    /\ Nx => nodes = Ids \/ mixed
    /\ ~mixed \/ ~Nx => \A e \in Edges : \A id \in {e[1], e[2]} :
                            id \in Ids /\ Neighbors(id) \subseteq Ids
================================================================================
