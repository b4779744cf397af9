----------------------------- MODULE SemanticCache -----------------------------
(***************************************************************************)
(* ragx/llm/semantic_cache.py with its exact tier, RedisCache or           *)
(* InMemoryExactCache (plugins/cache_redis.py, cache_memory.py), and its   *)
(* vector tier, which lives in the retrieval vector store.  The steps of a *)
(* lookup and of a store, to be composed with whoever calls them.          *)
(*                                                                         *)
(* An answer is identified with the prompt it answers.  Failures of Redis  *)
(* are swallowed by RedisCache: get and set become a miss and a no-op,     *)
(* get_epoch says 1, invalidate_kb says False.                             *)
(***************************************************************************)
EXTENDS Naturals

CONSTANTS
    KB,
    Prompt,
    Alike,     \* pairs of prompts whose embeddings reach the threshold
    Home,      \* the knowledge base the vector store belongs to
    MaxFaults  \* bound: failing Redis calls

VARIABLES
    redis,    \* the exact tier is RedisCache
    counter,  \* KB -> the stored epoch counter, 0 when unset
    exact,    \* entries of the exact tier
    near,     \* entries of the vector tier
    bumps,    \* history, KB -> invalidate_kb calls that returned True
    faults    \* Redis calls that failed

cacheVars == <<redis, counter, exact, near, bumps, faults>>

(* An entry has kb, prompt, seen (history: the bumps of the knowledge base *)
(* when the epoch was read) and, in the exact tier, its epoch.             *)

CacheInit ==
    /\ redis \in BOOLEAN
    /\ counter = [k \in KB |-> 0]
    /\ exact = {}
    /\ near = {}
    /\ bumps = [k \in KB |-> 0]
    /\ faults = 0

(* get_epoch, "1 if unset". *)
Epoch(k) == IF counter[k] = 0 THEN 1 ELSE counter[k]

Fault ==
    /\ redis
    /\ faults < MaxFaults
    /\ faults' = faults + 1

(* What a caller that asks for the epoch is told. *)
ReadEpoch(k, told) ==
    /\ \/ told = Epoch(k) /\ UNCHANGED faults
       \/ told = 1 /\ Fault
    /\ UNCHANGED <<redis, counter, exact, near, bumps>>

MutantAnyPrompt(k, epoch, p) == {n \in exact : n.kb = k /\ n.epoch = epoch}

(* exact.get under {namespace}:{kb}:{epoch}:{hash of the prompt}. *)
Hits(k, epoch, p) == {n \in exact : n.kb = k /\ n.epoch = epoch /\ n.prompt = p}

(* The vector tier: the best cached prompt of the threshold or better.     *)
(* Neither knowledge base nor epoch nor age of the entry is looked at.     *)
NearHits(p) ==
    LET same == {n \in near : n.prompt = p}
    IN  IF same # {} THEN same ELSE {n \in near : <<n.prompt, p>> \in Alike}

(* exact.set: setex or the dict replaces what is under the key. *)
SetExact(k, epoch, p, seen) ==
    /\ \/ /\ exact' = (exact \ Hits(k, epoch, p))
                        \cup {[kb |-> k, epoch |-> epoch, prompt |-> p, seen |-> seen]}
          /\ UNCHANGED faults
       \/ Fault /\ UNCHANGED exact
    /\ UNCHANGED <<redis, counter, near, bumps>>

(* embed and vector_store.upsert of a synthetic chunk.  Either may raise,  *)
(* and the store does for a chunk of another knowledge base: logged only.  *)
SetNear(k, p, seen) ==
    /\ \/ k = Home /\ near' = near \cup {[kb |-> k, prompt |-> p, seen |-> seen]}
       \/ UNCHANGED near
    /\ UNCHANGED <<redis, counter, exact, bumps, faults>>

MutantNextEpoch(k) == Epoch(k)

(* InMemoryExactCache counts on from the epoch callers see, INCR from the  *)
(* stored counter.                                                         *)
NextEpoch(k) == IF redis THEN counter[k] + 1 ELSE Epoch(k) + 1

(* In memory every entry of another epoch is dropped; for Redis those of   *)
(* the previous epoch are scanned for, and the scan may fail unnoticed.    *)
Swept(k) ==
    IF redis
    THEN {exact, {n \in exact : n.kb = k => n.epoch # NextEpoch(k) - 1}}
    ELSE {{n \in exact : n.kb = k => n.epoch = NextEpoch(k)}}

Invalidate(k) ==
    \/ /\ counter' = [counter EXCEPT ![k] = NextEpoch(k)]
       /\ exact' \in Swept(k)
       /\ bumps' = [bumps EXCEPT ![k] = @ + 1]
       /\ UNCHANGED <<redis, near, faults>>
    \/ Fault /\ UNCHANGED <<redis, counter, exact, near, bumps>>

(* An entry of the exact tier reaches its ttl. *)
Expire ==
    /\ \E n \in exact : exact' = exact \ {n}
    /\ UNCHANGED <<redis, counter, near, bumps, faults>>
===============================================================================
