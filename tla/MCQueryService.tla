---------------------------- MODULE MCQueryService ----------------------------
(* Two requests at a time: two agentic chats about different knowledge     *)
(* bases, or chats and searches, over four chunks: in k1 an entry of the   *)
(* semantic cache and two chunks that do not fit one context with it, in   *)
(* k2 one chunk.  Plans have up to two tasks, also after cutting a longer  *)
(* proposal; t2 matches no keyword in the default knowledge base k1.       *)
EXTENDS QueryService

CONSTANTS q1, q2, k1, k2, t1, t2, e1

MCChunk == 1..4
MCHomeOf == <<k1, k1, k1, k2>>
MCMeta == <<[doc_id |-> 0, page |-> Absent, lang |-> Absent],
            [doc_id |-> 1, page |-> 1, lang |-> Absent],
            [doc_id |-> 1, page |-> 2, lang |-> 4],
            [doc_id |-> 2, page |-> 2, lang |-> 5]>>
MCContaining == {<<4, 4>>, <<5, 5>>, <<4, 3>>}
MCTokens == <<1, 2, 2, 1>>
MCSimilar == (t1 :> <<9, 7, 5, 3>>) @@ (t2 :> <<2, 1, 0, 8>>)
MCMatching == (t1 :> <<0, 0, 2, 0>>) @@ (t2 :> <<0, 0, 0, 1>>)
MCMentions == [c \in MCChunk |-> [e \in {e1} |-> IF c = 3 THEN 7 ELSE 0]]
MCSeeds == (t1 :> {e1}) @@ (t2 :> {})
MCAdjacent == (e1 :> {})
MCMembers == (t1 :> {e1}) @@ (t2 :> {})
MCWeight == [dense |-> 10, bm25 |-> 10, graph_low |-> 8, graph_high |-> 6]
MCRerankScore == <<1, 2, 3, 4>>
MCPlans == (t1 :> {<<>>, <<Blank, t1, t2>>, <<t1, t2, t1>>}) @@ (t2 :> {<<t1>>})

Lite == [store |-> "sqlite", kg |-> FALSE, community |-> FALSE, dim8 |-> FALSE, weighted |-> FALSE,
         reranker |-> FALSE, agentic |-> TRUE, cache |-> FALSE, llm |-> TRUE]
MCDeployments ==
    {Lite, [Lite EXCEPT !.store = "qdrant", !.llm = FALSE],
     [Lite EXCEPT !.agentic = FALSE, !.kg = TRUE, !.community = TRUE, !.dim8 = TRUE],
     [Lite EXCEPT !.store = "es", !.agentic = FALSE, !.kg = TRUE, !.weighted = TRUE, !.reranker = TRUE,
                  !.cache = TRUE]}

Is(field, op, values) == [field |-> field, op |-> op, values |-> values, list |-> op = "in"]
Chatting == [route |-> "chat", kb |-> k1, text |-> t1, mode |-> "agentic", complex |-> FALSE,
             valid |-> TRUE, filter |-> NoFilter, top_k |-> 1]
Searching(and, or) ==
    [Chatting EXCEPT !.route = "search", !.filter = [and |-> and, or |-> or], !.top_k = 2]
Auto == [Chatting EXCEPT !.kb = k2, !.text = t2, !.mode = Empty, !.complex = TRUE]
MCWorkloads ==
    {(q1 :> Chatting) @@ (q2 :> Auto),
     (q1 :> Searching({}, {})) @@ (q2 :> [Chatting EXCEPT !.valid = FALSE]),
     (q1 :> Searching({[Is("page", "in", {1}) EXCEPT !.list = FALSE]}, {}))
        @@ (q2 :> [Auto EXCEPT !.mode = "standard"]),
     (q1 :> Searching({Is("lang", "ne", {4})}, {Is("page", "in", {1, 2}), Is("page", "lt", {2})}))
        @@ (q2 :> Searching({Is("page", "ge", {1}), Is("doc_id", "eq", {1})},
                            {Is("lang", "contains", {3}), Is("lang", "ne", {4})})),
     (q1 :> Searching({Is("page", "gt", {1}), Is("page", "le", {2})}, {}))
        @@ (q2 :> Searching({Is(Unnamed, "eq", {1})}, {}))}
================================================================================
