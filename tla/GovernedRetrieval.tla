--------------------------- MODULE GovernedRetrieval ---------------------------
(***************************************************************************)
(* Chunk edits against queries: the requests of ChunkGovernance, and       *)
(* queries that retrieve the chunk, put its text into a prompt and send    *)
(* the prompt to ResilientRouter.chat.  A request that says cacheable may  *)
(* be answered by the semantic cache (SemanticCache) instead of the model. *)
(* The last step of a PUT invalidates the cache of its knowledge base.     *)
(*                                                                         *)
(* QueryService leaves cacheable at its default, FALSE: the cacheable      *)
(* requests stand for callers of the router that set it.                   *)
(*                                                                         *)
(* All queries ask the same question, so a prompt is identified with the   *)
(* text in its context: the chunk's, or, in another knowledge base,        *)
(* whatever is retrieved there (Elsewhere).                                *)
(***************************************************************************)
EXTENDS Naturals

CONSTANTS
    Editor, Original, None,
    Query,      \* query requests
    KB, Home,
    AskedIn,    \* Query -> the knowledge base it is asked in
    Elsewhere,  \* the text other knowledge bases answer from
    Alike, MaxFaults

VARIABLES
    home, chunk, vector, embed, ed, overlap,          \* ChunkGovernance
    redis, counter, exact, near, bumps, faults,       \* SemanticCache
    fast,   \* CacheConfig.fast_only
    q       \* Query -> how far it has come

Gov == INSTANCE ChunkGovernance
Cache == INSTANCE SemanticCache WITH Prompt <- Gov!Text \cup {Elsewhere}

governVars == <<home, chunk, vector, embed, ed, overlap>>
cacheVars == <<redis, counter, exact, near, bumps, faults>>
vars == <<governVars, cacheVars, fast, q>>

ASSUME RetrievalAssumption ==
    /\ Gov!GovernanceConstants
    /\ AskedIn \in [Query -> KB]
    /\ Home \in KB
    /\ Elsewhere \notin Gov!Text
    /\ MaxFaults \in Nat

(* The edited chunk's knowledge base. *)
ChunkKb == IF home THEN Home ELSE CHOOSE k \in KB : k # Home

NewQuery(cacheable) ==
    [step |-> "new", cacheable |-> cacheable, prompt |-> Elsewhere, latest |-> FALSE,
     epoch |-> 0, seen |-> 0, from |-> "nothing", answer |-> Elsewhere, stamp |-> 0]

Init ==
    /\ Gov!GovernInit
    /\ Cache!CacheInit
    /\ fast \in BOOLEAN
    /\ q \in [Query -> {NewQuery(TRUE), NewQuery(FALSE)}]
-------------------------------------------------------------------------------
Edit ==
    /\ Gov!EmbedStage \/ \E e \in Editor : Gov!EditStep(e)
    /\ UNCHANGED <<cacheVars, fast, q>>

(* Step 5 of incremental_reindex, and the response. *)
RespondToEdit(e) ==
    /\ Gov!Respond(e)
    /\ Cache!Invalidate(ChunkKb)
    /\ UNCHANGED <<fast, q>>
-------------------------------------------------------------------------------
(* The context of the prompt: what the vector store of the knowledge base  *)
(* returns.  The cache's own entries in it are excluded.                   *)
Retrieved(r) == IF AskedIn[r] = ChunkKb THEN vector.text ELSE Elsewhere

(* QueryService.query: retrieve and assemble.  With no hits the query is   *)
(* over.  latest is a history: the row said the same at that moment.       *)
Retrieve(r) ==
    /\ q[r].step = "new"
    /\ IF AskedIn[r] = ChunkKb /\ vector = None
       THEN q' = [q EXCEPT ![r].step = "empty"]
       ELSE q' = [q EXCEPT ![r].step = "prompted", ![r].prompt = Retrieved(r),
                           ![r].latest = AskedIn[r] # ChunkKb \/ Retrieved(r) = chunk.text]
    /\ UNCHANGED <<governVars, cacheVars, fast>>

(* chat without the cache: the model answers. *)
Uncached(r) ==
    /\ q[r].step = "prompted"
    /\ ~q[r].cacheable
    /\ q' = [q EXCEPT ![r].step = "answered", ![r].from = "model",
                      ![r].answer = q[r].prompt]
    /\ UNCHANGED <<governVars, cacheVars, fast>>

(* SemanticCache.lookup reads the epoch of the query's knowledge base.     *)
LookupEpoch(r) ==
    /\ q[r].step = "prompted"
    /\ q[r].cacheable
    /\ \E told \in {1, Cache!Epoch(AskedIn[r])} :
          /\ Cache!ReadEpoch(AskedIn[r], told)
          /\ q' = [q EXCEPT ![r].step = "lookup", ![r].epoch = told,
                            ![r].seen = bumps[AskedIn[r]]]
    /\ UNCHANGED <<governVars, fast>>

Answer(r, from, n) ==
    q' = [q EXCEPT ![r].step = "answered", ![r].from = from, ![r].answer = n.prompt,
                   ![r].stamp = n.seen, ![r].epoch = 0]

(* The exact tier.  fast_only passes both tiers over.  A Redis that fails  *)
(* is a miss.                                                              *)
LookupExact(r) ==
    LET hits == Cache!Hits(AskedIn[r], q[r].epoch, q[r].prompt) IN
    /\ q[r].step = "lookup"
    /\ \/ /\ ~fast
          /\ \E n \in hits : Answer(r, "exact", n)
          /\ UNCHANGED cacheVars
       \/ /\ fast
          /\ q' = [q EXCEPT ![r].step = "generate"]
          /\ UNCHANGED cacheVars
       \/ /\ ~fast /\ hits = {}
          /\ q' = [q EXCEPT ![r].step = "near"]
          /\ UNCHANGED cacheVars
       \/ /\ ~fast /\ hits # {}
          /\ Cache!Fault
          /\ q' = [q EXCEPT ![r].step = "near"]
          /\ UNCHANGED <<redis, counter, exact, near, bumps>>
    /\ UNCHANGED <<governVars, fast>>

(* The vector tier.  It misses also when the embedder or the store raises  *)
(* or when ordinary chunks fill the top_k results.                         *)
LookupNear(r) ==
    /\ q[r].step = "near"
    /\ \/ \E n \in Cache!NearHits(q[r].prompt) : Answer(r, "near", n)
       \/ q' = [q EXCEPT ![r].step = "generate"]
    /\ UNCHANGED <<governVars, cacheVars, fast>>

(* The model answers; SemanticCache.store reads the epoch anew.            *)
Generate(r) ==
    /\ q[r].step = "generate"
    /\ \E told \in {1, Cache!Epoch(AskedIn[r])} :
          /\ Cache!ReadEpoch(AskedIn[r], told)
          /\ q' = [q EXCEPT ![r].step = "generated", ![r].epoch = told,
                            ![r].stamp = bumps[AskedIn[r]], ![r].seen = 0]
    /\ UNCHANGED <<governVars, fast>>

StoreExact(r) ==
    /\ q[r].step = "generated"
    /\ Cache!SetExact(AskedIn[r], q[r].epoch, q[r].prompt, q[r].stamp)
    /\ q' = [q EXCEPT ![r].step = "stored"]
    /\ UNCHANGED <<governVars, fast>>

(* Only after the cache was written does the caller get the answer. *)
StoreNear(r) ==
    /\ q[r].step = "stored"
    /\ Cache!SetNear(AskedIn[r], q[r].prompt, q[r].stamp)
    /\ Answer(r, "model", [prompt |-> q[r].prompt, seen |-> 0])
    /\ UNCHANGED <<governVars, fast>>

Ask(r) ==
    \/ Retrieve(r)
    \/ Uncached(r)
    \/ LookupEpoch(r)
    \/ LookupExact(r)
    \/ LookupNear(r)
    \/ Generate(r)
    \/ StoreExact(r)
    \/ StoreNear(r)

Expire == Cache!Expire /\ UNCHANGED <<governVars, fast, q>>

Next ==
    \/ Edit
    \/ \E e \in Editor : RespondToEdit(e)
    \/ \E r \in Query : Ask(r)
    \/ Expire

Spec == Init /\ [][Next]_vars
-------------------------------------------------------------------------------
NeverServesSuperseded == Gov!NeverServesSuperseded
RefusedLeavesNoTrace == Gov!RefusedLeavesNoTrace
EditsKeepTheChunkSearchable == Gov!EditsKeepTheChunkSearchable
OptimisticLock == Gov!OptimisticLock

(* While no two writers of the chunk overlap, an answer that does not come *)
(* from the vector tier is one to what the row said when the query         *)
(* retrieved: whatever happens to the row or the cache during the query.   *)
AnsweredFromTheRow ==
    \A r \in Query :
        q[r].step = "answered" /\ q[r].from # "near" /\ home /\ ~overlap
            => q[r].latest /\ q[r].answer = q[r].prompt

(* What the epoch is for: unless a Redis call failed, an exact hit was     *)
(* stored by someone who read the epoch after the last invalidation the    *)
(* lookup knew of.  Redis counts from 0 while callers start at 1, so there *)
(* it takes a second invalidation.                                         *)
ExactHitsOutliveNoInvalidation ==
    \A r \in Query :
        q[r].from = "exact" /\ faults = 0 =>
            \/ q[r].stamp >= q[r].seen
            \/ redis /\ q[r].seen = 1

(* "Drop all cached entries for kb_id ... Existing entries become          *)
(* unreachable because lookup reads the current epoch" (semantic_cache.py: *)
(* 160-164): no query is answered with what was cached before an           *)
(* invalidation it began after.                                            *)
InvalidatedIsUnreachable ==
    \A r \in Query : q[r].from \in {"exact", "near"} => q[r].stamp >= q[r].seen
===============================================================================
