----------------------------- MODULE QueryService -----------------------------
(***************************************************************************)
(* ragx/retrieval/pipeline.py (QueryService), the chat and search routes,  *)
(* and the RAG traces, composed with the agentic workflow.  Access control *)
(* in front of the routes is module Gateway's.                             *)
(***************************************************************************)
EXTENDS AgenticWorkflow

CONSTANTS
    Workloads,     \* the requests, Query -> request, that may come together
    NoId,          \* the trace id "", the orchestrator's
    NoQuery        \* no trace is stored

VARIABLES req, traces, ask, dep
vars == <<agentVars, req, traces, ask, dep>>
fixed == <<ask, dep>>

(* A request: its route, knowledge base, text, mode override, whether the  *)
(* router finds the text complex, whether its overrides are valid, and the *)
(* filter and top_k of a search.                                           *)
Request == [route : {"chat", "search"}, kb : KB, text : Text,
            mode : {Empty, "auto", "fast", "standard", "agentic"}, complex : BOOLEAN,
            valid : BOOLEAN, filter : FilterExpr, top_k : 1..50]

ASSUME WorkloadsConstant == Workloads \subseteq [Query -> Request] /\ NoId \notin Query

(* RAGTrace, as far as it is told apart.  Its recall and its model calls   *)
(* are left out: both are empty in the trace of an agentic query, and in   *)
(* the outer one of a degraded query.                                      *)
NoTrace == [by |-> NoQuery, kb |-> DefaultKB, mode |-> Empty, cites |-> <<>>,
            degraded |-> FALSE]

NewRequest == [phase |-> "new", mode |-> Empty, qvec |-> TRUE, answer |-> Empty,
               cites |-> <<>>, degraded |-> FALSE, reason |-> 0,
               saved |-> FALSE, status |-> 0]

Init ==
    /\ AgentInit
    /\ req = [q \in Query |-> NewRequest]
    /\ traces = [t \in Query \cup {NoId} |-> NoTrace]
    /\ ask \in Workloads
    /\ dep \in Deployments

Fail(q, exc) ==
    /\ req' = [req EXCEPT ![q] = [NewRequest EXCEPT !.phase = "failed",
                                                    !.status = ErrorResponse(exc).status]]
    /\ agent' = [agent EXCEPT ![q] = NoAgent]
    /\ UNCHANGED <<usage, traces, fixed>>

(* What an embedding may raise. *)
EmbedErrors == {"LLMError", "PluginContractError"}

(***************************************************************************)
(* chat_completions up to the first await of QueryService.query's mode.    *)
(* valid is RequestOverride.from_dict's verdict; a mode outside overrides  *)
(* is not looked at.                                                       *)
(***************************************************************************)
Chat(q) ==
    LET mode == RouteMode(dep, ask[q].mode, ask[q].complex)
    IN  /\ req[q].phase = "new" /\ ask[q].route = "chat"
        /\ \/ ~ask[q].valid /\ Fail(q, "ConfigError")
           \/ ask[q].valid /\ \E exc \in EmbedErrors : Fail(q, exc)
           \/ /\ ask[q].valid /\ mode = "agentic" /\ dep.llm
              /\ StartAgent(q, ask[q].text)
              /\ req' = [req EXCEPT ![q].phase = "agent"]
              /\ UNCHANGED <<traces, fixed>>
           \/ /\ ask[q].valid /\ (mode = "standard" \/ ~dep.llm)
              /\ req' = [req EXCEPT ![q].phase = "retrieve"]
              /\ UNCHANGED <<agentVars, traces, fixed>>
           \/ /\ ask[q].valid /\ dep.cache /\ ask[q].mode # "agentic"
              /\ req' = [req EXCEPT ![q].phase = "flush", ![q].mode = "fast"]
              /\ UNCHANGED <<agentVars, traces, fixed>>

(* The agentic result, or run_agentic's fallback with its own embedding,   *)
(* whose failure leaves an empty vector.                                   *)
AgentReturns(q) ==
    /\ req[q].phase = "agent"
    /\ \/ /\ agent[q].stage = "answered"
          /\ req' = [req EXCEPT ![q].phase = "flush", ![q].mode = "agentic",
                                ![q].answer = agent[q].answer, ![q].cites = agent[q].cites]
       \/ /\ agent[q].stage = "degraded"
          /\ \E embedded \in BOOLEAN :
                req' = [req EXCEPT ![q].phase = "retrieve",
                                   ![q].qvec = embedded, ![q].reason = agent[q].reason]
    /\ UNCHANGED <<agentVars, traces, fixed>>

(* The standard path up to the context; a reranker's failure is the query's. *)
RetrieveContext(q) ==
    /\ req[q].phase = "retrieve"
    /\ \/ dep.reranker /\ Fail(q, Unhandled)
       \/ \E shown \in Contexts[dep][ask[q].kb][ask[q].text][req[q].qvec] :
            /\ req' = [req EXCEPT
                    ![q].phase = IF shown.found THEN "generate" ELSE "flush",
                    ![q].mode = "standard", ![q].qvec = TRUE,
                    ![q].answer = IF shown.found THEN Empty ELSE Unable,
                    ![q].cites = shown.cites]
            /\ UNCHANGED <<agentVars, traces, fixed>>

(* _generate.  Without a configured model there is nothing to call. *)
Generate(q) ==
    /\ req[q].phase = "generate"
    /\ \/ ~dep.llm /\ Fail(q, Unhandled)
       \/ dep.llm /\ \E exc \in LlmErrors : Fail(q, exc)
       \/ /\ dep.llm
          /\ req' = [req EXCEPT ![q].phase = "flush", ![q].answer = "text"]
          /\ UNCHANGED <<agentVars, traces, fixed>>

(* The standard service answers for the agentic one. *)
Fallback(q) == req[q].reason # 0

(* The trace of a service's own query; under a fallback this is the inner  *)
(* service, which does not know that the answer is a degraded one.         *)
TraceOf(q) == [by |-> q, kb |-> ask[q].kb, mode |-> req[q].mode,
               cites |-> req[q].cites, degraded |-> req[q].degraded]

MutantFlushTrace(q) ==
    /\ req[q].phase \in {"flush", "outer"}
    /\ traces' = [traces EXCEPT ![q] = TraceOf(q)]
    /\ req' = [req EXCEPT ![q].phase = "done", ![q].saved = TRUE, ![q].status = 200,
                          ![q].degraded = Fallback(q)]
    /\ UNCHANGED <<agentVars, fixed>>

(* _flush_trace, whose failure is swallowed.  A fallback's trace goes      *)
(* under the orchestrator's id, then the outer query writes its own.  What *)
(* the workflow kept in local variables is gone with the answer.           *)
SaveTrace(id, q, saved) ==
    traces' = IF saved THEN [traces EXCEPT ![id] = TraceOf(q)] ELSE traces

FlushTrace(q) ==
    /\ \E saved \in BOOLEAN :
        \/ /\ req[q].phase = "flush" /\ Fallback(q)
           /\ SaveTrace(NoId, q, saved)
           /\ req' = [req EXCEPT ![q].phase = "outer", ![q].degraded = TRUE]
           /\ UNCHANGED agent
        \/ /\ req[q].phase = "outer" \/ (req[q].phase = "flush" /\ ~Fallback(q))
           /\ SaveTrace(q, q, saved)
           /\ req' = [req EXCEPT ![q].phase = "done", ![q].saved = saved, ![q].status = 200]
           /\ agent' = [agent EXCEPT ![q] = NoAgent]
    /\ UNCHANGED <<usage, fixed>>

(* search: the filter is validated first; the retriever it builds has      *)
(* neither graph routes nor a reranker, and the filter is the caller's.    *)
Search(q) ==
    /\ req[q].phase = "new" /\ ask[q].route = "search"
    /\ \/ ~ValidFilter(ask[q].filter) /\ Fail(q, "FilterValidationError")
       \/ ValidFilter(ask[q].filter) /\ \E exc \in EmbedErrors : Fail(q, exc)
       \/ /\ ValidFilter(ask[q].filter)
          /\ req' = [req EXCEPT ![q].phase = "search"]
          /\ UNCHANGED <<agentVars, traces, fixed>>

Searches == {r \in UNION {Range(w) : w \in Workloads} : r.route = "search" /\ ValidFilter(r.filter)}

SearchHits ==
    [d \in Deployments |-> [r \in Searches |->
        LET plain == [d EXCEPT !.kg = FALSE, !.weighted = FALSE, !.reranker = FALSE]
            hits(failed) == Retrieve(plain, r.kb, r.text, TRUE, Passing(d.store, r.filter), failed)
        IN  {Cut([i \in DOMAIN hits(failed) |-> hits(failed)[i].chunk], r.top_k) :
                failed \in SUBSET Started(plain)}]]

SearchResults(q) ==
    /\ req[q].phase = "search"
    /\ \E found \in SearchHits[dep][ask[q]] :
        req' = [req EXCEPT ![q].phase = "done", ![q].status = 200, ![q].cites = found]
    /\ UNCHANGED <<agentVars, traces, fixed>>

AgentRuns(q) ==
    /\ req[q].phase = "agent"
    /\ AgentStep(dep, q)
    /\ UNCHANGED <<req, traces, fixed>>

QueryStep(q) ==
    \/ Chat(q) \/ AgentRuns(q) \/ AgentReturns(q)
    \/ RetrieveContext(q) \/ Generate(q) \/ FlushTrace(q)
    \/ Search(q) \/ SearchResults(q)

Next == \E q \in Query : QueryStep(q)

(* A model call, an embedding or a search returns or raises (the clients   *)
(* have timeouts), and the event loop runs what is ready.                  *)
Spec == Init /\ [][Next]_vars /\ \A q \in Query : WF_vars(QueryStep(q))

--------------------------------------------------------------------------------
Finished(q) == req[q].phase \in {"done", "failed"}

(* What a clause asks of a chunk; one without the field is not equal.      *)
Meant(clause, c) ==
    IF HasField(clause, c) THEN Compare(clause.op, Meta[c][clause.field], clause.values)
                           ELSE clause.op = "ne"

(* In the or group Qdrant takes ne for eq. *)
Inverted(expr) == dep.store = "qdrant" /\ \E clause \in expr.or : clause.op = "ne"

(* Whatever routes fail, and also when it is the fallback of a degraded    *)
(* agentic query, a standard answer cites chunks of the knowledge base it  *)
(* was asked about, never an entry of the semantic cache, none twice, and  *)
(* within the token budget of its context; and whichever store has it, no  *)
(* result of a search contradicts its filter (QueryService.query,          *)
(* _exclude_cache, ContextAssembler.assemble, the stores' translations).   *)
StandardAnswersAreGrounded ==
    \A q \in Query :
        LET cited == req[q].cites
            expr == ask[q].filter
        IN  /\ req[q].mode = "standard" =>
                /\ \A i \in DOMAIN cited :
                    HomeOf[cited[i]] = ask[q].kb /\ cited[i] \notin CacheChunk
                /\ IsInjective(cited)
                /\ TokensOf(cited) <= ContextBudget
            /\ ask[q].route = "search" => \A c \in ToSet(cited) :
                /\ HomeOf[c] = ask[q].kb
                /\ \A clause \in expr.and : Meant(clause, c)
                /\ expr.or = {} \/ Inverted(expr) \/ \E clause \in expr.or : Meant(clause, c)

(* An answer in mode agentic is either the fixed one without citations, or *)
(* it passed the verifier, at least one sub-task did not come back without *)
(* data, and it cites only what the tasks that answered were shown; a done *)
(* event is sent for these and for no degraded query (_run_graph).         *)
AgenticAnswersAreVerified ==
    \A q \in Query :
        /\ req[q].mode = "agentic" /\ ~Finished(q) =>
            \/ req[q].answer = Unable /\ req[q].cites = <<>> /\ agent[q].plan = <<>>
            \/ /\ agent[q].verified
               /\ \E i \in DOMAIN agent[q].plan : ~agent[q].plan[i].no_data
               /\ \A c \in ToSet(req[q].cites) : \E i \in DOMAIN agent[q].plan :
                    agent[q].plan[i].phase = "done" /\ c \in ToSet(agent[q].plan[i].cites)
               /\ req[q].answer = "text" => Valid(q) # {}
        /\ "done" \in ToSet(agent[q].sent) <=> agent[q].stage = "answered"

(* The budget_used of a query that executed alone is the usage of its own  *)
(* sub-answers, whatever queries ran before it (ParallelExecutor.run resets  *)
(* the usage_total it shares).                                             *)
LoneUsageIsOwn ==
    \A q \in Query :
        agent[q].stage \in {"synthesis", "verifier", "answered"} /\ ~agent[q].shared =>
            agent[q].budget = UsagePerCall * Cardinality(Valid(q))

(* The trace stored under a request's id is the request's, says the mode,  *)
(* the citations and the degradation its client was told, and a request    *)
(* that failed has none and an error status (_flush_trace, error_response).*)
TracesAreHonest ==
    \A q \in Query :
        /\ traces[q].by \in {q, NoQuery}
        /\ req[q].phase = "done" /\ req[q].saved =>
            /\ traces[q].mode = req[q].mode /\ traces[q].cites = req[q].cites
            /\ traces[q].degraded = req[q].degraded
            /\ req[q].degraded <=> Fallback(q)
        /\ req[q].phase = "failed" => traces[q] = NoTrace /\ req[q].status >= 400

(* Every chat and every search is answered or refused: no failure of a     *)
(* route, a model, a sub-task or a trace leaves it waiting (run_agentic,   *)
(* gather with return_exceptions, QueryService.query).                     *)
QueriesEnd == \A q \in Query : <>Finished(q)
================================================================================
