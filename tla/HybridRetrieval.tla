---------------------------- MODULE HybridRetrieval ----------------------------
(***************************************************************************)
(* ragx/retrieval: HybridRetriever.retrieve (up to four recall routes,     *)
(* fusion, rerank), GraphChunkResolver, ContextAssembler.assemble and      *)
(* QueryRouter.route, as operators.                                        *)
(*                                                                         *)
(* Chunks are the row numbers of a vector store.  What a store or a graph  *)
(* would answer to a text is given by constants; which routes fail, and    *)
(* what a reranker says, is the caller's choice.                           *)
(***************************************************************************)
EXTENDS VectorFilters, SequencesExt

CONSTANTS
    KB,
    Text,         \* queries and seed queries
    Entity,
    HomeOf,       \* Chunk -> KB, whose store holds it
    Tokens,       \* Chunk -> token_count
    Similar,      \* Text -> Chunk -> similarity of the vectors
    Matching,     \* Text -> Chunk -> BM25 score, 0 when the text does not match
    Mentions,     \* Chunk -> Entity -> entity_conf, 0 when it is not mentioned
    Seeds,        \* Text -> what match_entities returns
    Adjacent,     \* Entity -> its neighbours
    Members,      \* Text -> the members of the topics found for it
    RerankScore,  \* what a reranker says of a chunk
    Deployments,  \* how the application is wired
    DenseTopK, Bm25TopK, RerankTopK, Candidates,
    RrfK, Weight, \* rrf_weights, in tenths
    Scale,        \* a common multiple of RrfK + rank and of score differences
    ContextBudget

Routes == <<"dense", "bm25", "graph_low", "graph_high">>
GraphRoute == {"graph_low", "graph_high"}

ASSUME RetrievalConstants ==
    /\ IsFiniteSet(Chunk) /\ IsFiniteSet(Entity)
    /\ HomeOf \in [Chunk -> KB]
    /\ Tokens \in [Chunk -> Nat]
    /\ Similar \in [Text -> [Chunk -> Int]] /\ Matching \in [Text -> [Chunk -> Nat]]
    /\ Mentions \in [Chunk -> [Entity -> Nat]]
    /\ Seeds \in [Text -> SUBSET Entity] /\ Members \in [Text -> SUBSET Entity]
    /\ Adjacent \in [Entity -> SUBSET Entity]
    /\ DOMAIN RerankScore \subseteq Chunk
    /\ \A c \in DOMAIN RerankScore : RerankScore[c] \in Int
    /\ {DenseTopK, Bm25TopK, RerankTopK, Candidates, RrfK, ContextBudget} \subseteq Nat
    /\ Weight \in [ToSet(Routes) -> Nat]

(* SemanticCache.store writes its entries to the vector store only, so     *)
(* that no entity was ever extracted from one.                             *)
ASSUME CacheIsNotExtracted ==
    \A c \in CacheChunk, e \in Entity : Mentions[c][e] = 0

(* The wiring: the vector store, knowledge graph, community search, weighted *)
(* fusion, reranker, agentic mode, semantic cache, model.                    *)
Deployment == [store : {"sqlite", "es", "qdrant"}, kg : BOOLEAN, community : BOOLEAN,
               dim8 : BOOLEAN, weighted : BOOLEAN, reranker : BOOLEAN, agentic : BOOLEAN,
               cache : BOOLEAN, llm : BOOLEAN]

ASSUME DeploymentsConstant == Deployments \subseteq Deployment

(* RetrievalHit: chunk, score, sources and rerank, which is None without a *)
(* reranker.  The score is the sum before the min-max normalisation, minus *)
(* the smallest one of the list; the common divisor is left out.           *)
NoRerank == -1

Cut(s, n) == SubSeq(s, 1, IF Len(s) < n THEN Len(s) ELSE n)

(* The rows of a knowledge base that pass the filter, best score first,    *)
(* equal ones in row order (sqlite; the other stores promise no order).    *)
Ranked(rows, score) ==
    LET Before(c) == {x \in rows : score[x] > score[c] \/ (score[x] = score[c] /\ x < c)}
    IN  [i \in 1..Cardinality(rows) |-> CHOOSE c \in rows : Cardinality(Before(c)) = i - 1]

(* What s has at some places, in the order of the places, and at those of  *)
(* a set of places, in the order of s.                                     *)
Picked(s, places) == [n \in DOMAIN places |-> s[places[n]]]
Kept(s, places) == Picked(s, Ranked(places, [i \in places |-> 0]))

SearchDense(kb, text, pass) ==
    Cut(Ranked({c \in Chunk : HomeOf[c] = kb /\ c \in pass}, Similar[text]), DenseTopK)

SearchKeyword(kb, text, pass) ==
    Cut(Ranked({c \in Chunk : HomeOf[c] = kb /\ c \in pass /\ Matching[text][c] > 0},
               Matching[text]), Bm25TopK)

(* resolve_entities: scans the whole store with a null vector, without the *)
(* filter, and ranks what mentions one of the entities by confidence.      *)
ResolveEntities(kb, entities) ==
    LET Conf == [c \in Chunk |-> IF entities = {} THEN 0
                    ELSE Max({Mentions[c][e] : e \in entities})]
    IN  Cut(Ranked({c \in Chunk : HomeOf[c] = kb /\ Conf[c] > 0}, Conf), DenseTopK)

GraphLow(kb, text) ==
    ResolveEntities(kb, Seeds[text] \cup UNION {Adjacent[e] : e \in Seeds[text]})

GraphHigh(kb, text) == ResolveEntities(kb, Members[text])

(***************************************************************************)
(* The routes that are started.  d is a deployment: d.store and            *)
(* d.community say what the stores can do, d.kg the flag and a graph store.*)
(***************************************************************************)
Started(d) ==
    {"dense"} \cup (IF d.store # "qdrant" THEN {"bm25"} ELSE {})
              \cup (IF d.kg THEN {"graph_low"} ELSE {})
              \cup (IF d.kg /\ d.community THEN {"graph_high"} ELSE {})

MutantRecall(d, kb, text, qvec, pass, failed) ==
    [r \in Started(d) |->
        CASE r = "dense" -> SearchDense(kb, text, Chunk)
          [] r = "bm25" -> SearchKeyword(kb, text, Chunk)
          [] OTHER -> <<>>]

(* raw: a route that raised is an empty route.  Without a query vector the *)
(* dense search is refused; the null vector of the resolver is refused     *)
(* unless vectors have its length (d.dim8).                                *)
Recall(d, kb, text, qvec, pass, failed) ==
    [r \in Started(d) |->
        CASE r \in failed -> <<>>
          [] r = "dense" -> IF qvec THEN SearchDense(kb, text, pass) ELSE <<>>
          [] r = "bm25" -> SearchKeyword(kb, text, pass)
          [] r = "graph_low" -> IF d.dim8 /\ qvec THEN GraphLow(kb, text) ELSE <<>>
          [] r = "graph_high" -> IF d.dim8 /\ qvec THEN GraphHigh(kb, text) ELSE <<>>]

(* The dict of scores keeps the chunks in the order of first insertion:    *)
(* route after route, rank after rank.  Nothing sorts it afterwards.       *)
Insertion(raw) ==
    LET Of(r) == IF r \in DOMAIN raw THEN raw[r] ELSE <<>>
        all == Of(Routes[1]) \o Of(Routes[2]) \o Of(Routes[3]) \o Of(Routes[4])
    IN  Kept(all, {i \in DOMAIN all : \A j \in 1..(i - 1) : all[j] # all[i]})

RankIn(s, c) == SelectInSeq(s, LAMBDA x : x = c)

RrfScore(raw, text, c) ==
    MapThenSumSet(LAMBDA r : (Weight[r] * Scale) \div (RrfK + RankIn(raw[r], c)),
                  {r \in DOMAIN raw : c \in ToSet(raw[r])})

(* The score of a keyword hit: sqlite says 1/(1 + bm25), so that the       *)
(* better match has the smaller number, Elasticsearch bm25/(1 + bm25).     *)
KeywordScore(store, bm25) ==
    (Scale * (IF store = "es" THEN bm25 ELSE 1)) \div (1 + bm25)

RouteScore(d, r, text, c) ==
    CASE r = "dense" -> Similar[text][c]
      [] r = "bm25" -> KeywordScore(d.store, Matching[text][c])
      [] OTHER -> Max({Mentions[c][e] : e \in Entity})

WeightedScore(d, raw, text, c) ==
    MapThenSumSet(
        LAMBDA r :
            LET all == {RouteScore(d, r, text, x) : x \in ToSet(raw[r])}
                range == IF Max(all) = Min(all) THEN 1 ELSE Max(all) - Min(all)
            IN  (Weight[r] * Scale * (RouteScore(d, r, text, c) - Min(all))) \div range,
        {r \in DOMAIN raw : c \in ToSet(raw[r])})

Fuse(d, raw, text) ==
    LET order == Insertion(raw)
        Score == [c \in ToSet(order) |->
                    IF d.weighted THEN WeightedScore(d, raw, text, c) ELSE RrfScore(raw, text, c)]
        least == Min({Score[c] : c \in ToSet(order)})
    IN  [i \in DOMAIN order |->
            [chunk |-> order[i], score |-> Score[order[i]] - least,
             sources |-> {r \in DOMAIN raw : order[i] \in ToSet(raw[r])},
             rerank |-> NoRerank]]

(* With a reranker, the candidates it scored, best first; without one the  *)
(* first candidates as they come.                                          *)
Rerank(d, fused, given) ==
    LET candidates == Cut(fused, Candidates)
        best == Ranked({i \in DOMAIN candidates : candidates[i].chunk \in DOMAIN given},
                       [i \in DOMAIN candidates |-> given[candidates[i].chunk]])
    IN  IF d.reranker
        THEN Cut([n \in DOMAIN best |-> [Picked(candidates, best)[n] EXCEPT
                    !.rerank = given[candidates[best[n]].chunk]]], RerankTopK)
        ELSE Cut(candidates, RerankTopK)

(* retrieve; a reranker that raises is the caller's choice too. *)
Retrieve(d, kb, text, qvec, pass, failed) ==
    Rerank(d, Fuse(d, Recall(d, kb, text, qvec, pass, failed), text), RerankScore)

(***************************************************************************)
(* ContextAssembler: hits found by a graph route after all others, and no  *)
(* group goes on after the first hit that does not fit the whole budget.   *)
(* The two pools the code computes limit nothing.                          *)
(***************************************************************************)
FromGraph(h) == h.sources \cap GraphRoute # {}

(* The tokens of a sequence of chunks. *)
TokensOf(s) ==
    LET sum[i \in 0..Len(s)] == IF i = 0 THEN 0 ELSE sum[i - 1] + Tokens[s[i]]
    IN  sum[Len(s)]

(* The hits of a group that are taken: those before the first that does    *)
(* not fit, after the parts there are.                                     *)
Fill(parts, group) ==
    LET Fits(n) == TokensOf(parts \o Cut(group, n)) <= ContextBudget
    IN  parts \o Cut(group, Max({n \in 0..Len(group) : \A i \in 1..n : Fits(i)}))

(* The chunks in the context, and of the citations, in the same order. *)
Assemble(hits) ==
    LET chunks == [i \in DOMAIN hits |-> hits[i].chunk]
        graph == {i \in DOMAIN hits : FromGraph(hits[i])}
    IN  Fill(Fill(<<>>, Kept(chunks, DOMAIN hits \ graph)), Kept(chunks, graph))

(* What the standard path may find and show to the model, whichever routes *)
(* fail, and the same for a sub-task of the agentic workflow, which has no *)
(* filter.                                                                 *)
Shown(hits) == [found |-> hits # <<>>, cites |-> Assemble(hits)]

Contexts ==
    [d \in Deployments |-> [kb \in KB |-> [text \in Text |-> [qvec \in BOOLEAN |->
        {Shown(Retrieve(d, kb, text, qvec, Passing(d.store, ExcludeCache(NoFilter)), failed)) :
            failed \in SUBSET Started(d)}]]]]

TaskContexts ==
    [d \in Deployments |-> [kb \in KB |-> [text \in Text |->
        {Shown(Retrieve(d, kb, text, TRUE, Chunk, failed)) : failed \in SUBSET Started(d)}]]]

(***************************************************************************)
(* QueryRouter.route after the lookup in its cache (which the application  *)
(* does not give it).  complex is the heuristic on the text.               *)
(***************************************************************************)
RouteMode(d, mode, complex) ==
    IF d.agentic /\ (mode = "agentic" \/ (mode # "standard" /\ complex))
    THEN "agentic" ELSE "standard"
================================================================================
