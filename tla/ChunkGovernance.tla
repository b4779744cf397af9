---------------------------- MODULE ChunkGovernance ----------------------------
(***************************************************************************)
(* Chunk governance: PUT and PATCH /v1/chunks/{id} (api/routes/ingest.py)  *)
(* and incremental_reindex (ingestion/reindex.py), on ONE chunk that       *)
(* several clients edit while the ingest task that made it may still be in *)
(* its embedding stage.                                                    *)
(*                                                                         *)
(* The chunk has two copies: its row in the metadata store, which carries  *)
(* the version the optimistic lock compares, and its row in the vector     *)
(* store, which retrieval reads.  save_chunks is an INSERT .. ON CONFLICT  *)
(* DO UPDATE without a condition on the version, and the handlers await    *)
(* between their reads and their writes.                                   *)
(***************************************************************************)
EXTENDS Naturals

CONSTANTS
    Editor,    \* one PUT or PATCH request each
    Original,  \* the text the chunker wrote; editor e writes the text e
    None

Text == {Original} \cup Editor

(* A copy of the chunk: its text, the metadata keys the editors have added *)
(* and its version.                                                        *)
Copy == [text : Text, meta : SUBSET Editor, version : Nat \ {0}]

(* What the composing module assumes of these constants. *)
GovernanceConstants ==
    /\ Original \notin Editor
    /\ None \notin Copy

VARIABLES
    home,     \* the chunk is in the knowledge base app.state.vector_store is for
    chunk,    \* the chunks row
    vector,   \* the vector store's row, or None
    embed,    \* the embedding stage: the copy it read, or None when it is over
    ed,       \* Editor -> its request
    overlap   \* history: two writers were at work at the same time

governVars == <<home, chunk, vector, embed, ed, overlap>>
-------------------------------------------------------------------------------
NewChunk == [text |-> Original, meta |-> {}, version |-> 1]

Working == {"checked", "rechecked", "unindexed", "saved", "reindexed"}
Ended == {"ok", "conflict", "error"}

InFlight(e) == ed[e].step \in Working

(* Somebody else is between reading the chunk and its last write.          *)
OthersAtWork(e) == embed # None \/ \E f \in Editor \ {e} : InFlight(f)

Quiet == embed = None /\ \A e \in Editor : ~InFlight(e)

(* The request as its handler goes on to its next await, or as it ends.    *)
Goto(e, step) == ed' = [ed EXCEPT ![e].step = step]

End(e, how) == ed' = [ed EXCEPT ![e].step = how, ![e].copy = NewChunk]

GovernInit ==
    /\ home \in BOOLEAN
    /\ chunk = NewChunk
    /\ vector = None
    /\ embed = NewChunk
    /\ ed = [e \in Editor |-> [step |-> "new", base |-> 0, copy |-> NewChunk]]
    /\ overlap = FALSE

(* _do_embed upserts the chunks _chunk read before it: into the vector     *)
(* store of the chunk's own knowledge base, whichever that is.             *)
EmbedStage ==
    /\ embed # None
    /\ vector' = embed
    /\ embed' = None
    /\ UNCHANGED <<home, chunk, ed, overlap>>

(* The client lists the chunks and decides on an edit of what it sees.     *)
Look(e) ==
    /\ ed[e].step = "new"
    /\ ed' = [ed EXCEPT ![e].step = "looked", ![e].base = chunk.version]
    /\ UNCHANGED <<home, chunk, vector, embed, overlap>>

(* chunk.version != req.version / version_expected, which is 3002. *)
VersionMatches(e) == chunk.version = ed[e].base

(* put_chunk and patch_chunk: get_chunk and the version test.  PATCH keeps *)
(* the copy it read here and writes it back.                               *)
RouteCheck(e) ==
    /\ ed[e].step = "looked"
    /\ IF VersionMatches(e)
       THEN /\ ed' = [ed EXCEPT ![e].step = "checked", ![e].copy = chunk]
            /\ overlap' = (overlap \/ OthersAtWork(e))
       ELSE End(e, "conflict") /\ UNCHANGED overlap
    /\ UNCHANGED <<home, chunk, vector, embed>>

(* The request was a PATCH: metadata, version + 1 and save_chunks; text,   *)
(* vector and cache are left alone.                                        *)
Patch(e) ==
    /\ ed[e].step = "checked"
    /\ chunk' = [ed[e].copy EXCEPT !.meta = @ \cup {e}, !.version = @ + 1]
    /\ End(e, "ok")
    /\ UNCHANGED <<home, vector, embed, overlap>>

MutantRecheck(e) ==
    /\ ed[e].step = "checked"
    /\ chunk' = [chunk EXCEPT !.meta = @ \cup {e}]
    /\ IF VersionMatches(e)
       THEN ed' = [ed EXCEPT ![e].step = "rechecked", ![e].copy = chunk]
       ELSE End(e, "conflict")
    /\ UNCHANGED <<home, vector, embed, overlap>>

(* It was a PUT: incremental_reindex reads the chunk and tests again.      *)
Recheck(e) ==
    /\ ed[e].step = "checked"
    /\ IF VersionMatches(e)
       THEN ed' = [ed EXCEPT ![e].step = "rechecked", ![e].copy = chunk]
       ELSE End(e, "conflict")
    /\ UNCHANGED <<home, chunk, vector, embed, overlap>>

MutantUnindexed(e) == UNCHANGED vector

(* Step 1, vector_store.delete: on the store of the application's own      *)
(* knowledge base, where a chunk of another one is not found.              *)
Unindexed(e) == vector' = IF home THEN None ELSE vector

Unindex(e) ==
    /\ ed[e].step = "rechecked"
    /\ Unindexed(e)
    /\ Goto(e, "unindexed")
    /\ UNCHANGED <<home, chunk, embed, overlap>>

(* The new copy PUT makes of the one it read. *)
Edited(e) ==
    [text |-> e, meta |-> ed[e].copy.meta \cup {e}, version |-> ed[e].copy.version + 1]

(* Step 2, save_chunks: the new copy replaces whatever row is there.       *)
Save(e) ==
    /\ ed[e].step = "unindexed"
    /\ chunk' = Edited(e)
    /\ ed' = [ed EXCEPT ![e].step = "saved", ![e].copy = Edited(e)]
    /\ UNCHANGED <<home, vector, embed, overlap>>

(* Step 3, embed and upsert. *)
Reindex(e) ==
    /\ ed[e].step = "saved"
    /\ home
    /\ vector' = ed[e].copy
    /\ Goto(e, "reindexed")
    /\ UNCHANGED <<home, chunk, embed, overlap>>

(* The embedder or the vector store raised, or the store refused a chunk   *)
(* of another knowledge base: the request ends with an error, after the    *)
(* row was saved and the old vector deleted.                               *)
ReindexFails(e) ==
    /\ ed[e].step = "saved"
    /\ End(e, "error")
    /\ UNCHANGED <<home, chunk, vector, embed, overlap>>

MutantRespond(e) ==
    /\ ed[e].step = "reindexed"
    /\ Unindexed(e)
    /\ End(e, "ok")
    /\ UNCHANGED <<home, chunk, embed, overlap>>

(* Step 5, invalidate_kb (what it does to the cache is SemanticCache's),   *)
(* and the response.                                                       *)
Respond(e) ==
    /\ ed[e].step = "reindexed"
    /\ End(e, "ok")
    /\ UNCHANGED <<home, chunk, vector, embed, overlap>>

(* Every step but the response, which calls the cache. *)
EditStep(e) ==
    \/ Look(e)
    \/ RouteCheck(e)
    \/ Patch(e)
    \/ Recheck(e)
    \/ Unindex(e)
    \/ Save(e)
    \/ Reindex(e)
    \/ ReindexFails(e)

GovernNext == EmbedStage \/ \E e \in Editor : EditStep(e) \/ Respond(e)

GovernSpec == GovernInit /\ [][GovernNext]_governVars
-------------------------------------------------------------------------------
(* Deleting the vector before saving the row is what makes a half-finished *)
(* edit harmless: as long as no two writers of the chunk overlap,          *)
(* retrieval finds the row's text or nothing, in the middle of an edit,    *)
(* after one that failed, and after any sequence of them.                  *)
NeverServesSuperseded ==
    home /\ ~overlap => vector = None \/ vector.text = chunk.text

(* A request that is refused with 3002 changes nothing: its text and       *)
(* metadata are nowhere, also not in a copy another request will save.     *)
RefusedLeavesNoTrace ==
    \A e \in Editor : ed[e].step = "conflict" =>
        \A c \in {chunk, vector} \ {None} : c.text # e /\ e \notin c.meta

(* However edits interleave, if none failed the chunk is searchable once   *)
(* they are over: each one's delete precedes its own upsert.               *)
EditsKeepTheChunkSearchable ==
    Quiet /\ (\A e \in Editor : ed[e].step # "error") => vector # None

(* "an optimistic version lock (3002 on mismatch)" (reindex.py:4): of two  *)
(* edits of the same version at most one succeeds.                         *)
OptimisticLock ==
    \A e, f \in Editor :
        e # f /\ ed[e].step = "ok" /\ ed[f].step = "ok" => ed[e].base # ed[f].base
===============================================================================
