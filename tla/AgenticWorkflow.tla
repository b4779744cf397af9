---------------------------- MODULE AgenticWorkflow ----------------------------
(***************************************************************************)
(* ragx/agentic: AgenticOrchestrator._run_graph with its planner, parallel *)
(* executor, synthesis and verifier, for the queries that one application  *)
(* runs at the same time.  They share one executor, hence its usage_total, *)
(* and one SSE emitter, whose queue nobody reads (sent is what a query     *)
(* has put there).                                                         *)
(*                                                                         *)
(* An action is what runs between two awaits that really suspend: a model  *)
(* call, an embedding, a search.  d is the deployment (HybridRetrieval).   *)
(***************************************************************************)
EXTENDS HybridRetrieval, HttpErrors

CONSTANTS
    Query,
    Blank,         \* a seed query or an answer without text
    DefaultKB,     \* the knowledge base of the executor's retriever
    Plans,         \* Text -> the sequences of seed queries a planner may propose
    MaxTasks,      \* MAX_TASKS
    UsagePerCall   \* tokens of an answer with text

ASSUME WorkflowConstants ==
    /\ Blank \notin Text /\ DefaultKB \in KB
    /\ Plans \in [Text -> SUBSET Seq(Text \cup {Blank})]
    /\ MaxTasks \in Nat /\ UsagePerCall \in Nat

VARIABLES agent, usage
agentVars == <<agent, usage>>

MaxRetries == 1
Empty == ""          \* no text yet, no answer, no mode
NoData == "[NO DATA]"
Unable == "Unable to find relevant information"
Unexpected == -1     \* degrade_reason of an error the workflow does not name

(* What a model call may raise, as LLMRouter has it. *)
LlmErrors == {"AllProvidersFailedError", "CircuitOpenError", "RateLimitError"}

(* state.Task; phase is where _exec_task has got to (recall, rewrite,      *)
(* again, answer, done or raised), cites what it was shown.                *)
NewTask(seed) == [seed |-> seed, phase |-> "recall", retries |-> 0, no_data |-> FALSE,
                  text |-> Empty, cites |-> <<>>]

(* AgenticState; the stages are the nodes of the graph, then answered or   *)
(* degraded; sent and shared (another query executed meanwhile) are        *)
(* histories.                                                              *)
NoAgent == [stage |-> "idle", text |-> Blank, sent |-> <<>>, plan |-> <<>>, budget |-> 0,
            answer |-> Empty, cites |-> <<>>, verified |-> FALSE, reason |-> 0, shared |-> FALSE]

AgentInit ==
    /\ agent = [q \in Query |-> NoAgent]
    /\ usage = 0

Executing(q) == agent[q].stage = "executor"

(* The next stage of the graph, and the events emitted on the way. *)
Enter(q, stage, evs) == [agent[q] EXCEPT !.stage = stage, !.sent = @ \o evs]
Become(q, record) == agent' = [agent EXCEPT ![q] = record]

(* run_agentic's two handlers; the state of the graph is dropped. *)
Degrade(q, reason) == Become(q, [NoAgent EXCEPT !.stage = "degraded", !.reason = reason,
                                               !.sent = agent[q].sent])

(* _empty_result *)
EmptyResult(q) ==
    Become(q, [Enter(q, "answered", <<"end_planner", "start_synthesis", "synthesis",
                                      "end_synthesis", "done">>) EXCEPT !.answer = Unable])

StartAgent(q, text) ==
    /\ Become(q, [NoAgent EXCEPT !.stage = "intent", !.text = text, !.sent = <<"start_planner">>])
    /\ UNCHANGED usage

(* _intent_decision: any failure is 7001. *)
IntentDecision(q) ==
    /\ agent[q].stage = "intent"
    /\ \/ EmptyResult(q)
       \/ \E next \in {"discovery", "plan"} : Become(q, Enter(q, next, <<>>))
       \/ Degrade(q, 7001)
    /\ UNCHANGED usage

(* _scope_discovery: the topics, or their failure, only change the prompt. *)
ScopeDiscovery(q) ==
    /\ agent[q].stage = "discovery"
    /\ Become(q, Enter(q, "plan", <<>>))
    /\ UNCHANGED usage

(* The proposal is cut first, its blank seeds dropped afterwards. *)
SeedsOf(proposed) ==
    LET cut == Cut(proposed, MaxTasks)
    IN  Kept(cut, {i \in DOMAIN cut : cut[i] # Blank})

(* state["plan"], and the executor's run up to gather; others execute too. *)
Planned(q, seeds, others) ==
    [Enter(q, "executor", <<"end_planner", "plan", "start_executor">>)
        EXCEPT !.plan = [i \in DOMAIN seeds |-> NewTask(seeds[i])], !.shared = others # {}]

(* The executor sets the one usage of the process to 0: whoever executes    *)
(* shares it from here on.                                                 *)
StartTasks(q, seeds) ==
    LET others == {o \in Query \ {q} : Executing(o)}
    IN  /\ agent' = [o \in Query |->
             IF o = q THEN Planned(q, seeds, others)
             ELSE [agent[o] EXCEPT !.shared = @ \/ o \in others]]
        /\ usage' = 0

MutantAnswerPlan(q) ==
    /\ agent[q].stage = "plan"
    /\ \E proposed \in Plans[agent[q].text] :
        LET seeds == SeedsOf(proposed)
        IN  /\ seeds # <<>>
            /\ Become(q, [Enter(q, "executor", <<>>) EXCEPT
                            !.plan = [i \in DOMAIN seeds |-> NewTask(seeds[i])]])
    /\ UNCHANGED usage

(* _answer_plan and, in the same step, ParallelExecutor.run up to gather.  *)
(* The budget is compared before anything is counted: it is never over.    *)
AnswerPlan(q) ==
    /\ agent[q].stage = "plan"
    /\ \/ Degrade(q, 7001) /\ UNCHANGED usage
       \/ \E proposed \in Plans[agent[q].text] :
            \/ SeedsOf(proposed) = <<>> /\ EmptyResult(q) /\ UNCHANGED usage
            \/ SeedsOf(proposed) # <<>> /\ StartTasks(q, SeedsOf(proposed))

SetTask(q, i, task) == agent' = [agent EXCEPT ![q].plan[i] = task]

(* The task raised, what it was shown is lost; gather returns the exception. *)
TaskRaises(q, i) ==
    /\ SetTask(q, i, [agent[q].plan[i] EXCEPT !.phase = "raised", !.cites = <<>>])
    /\ UNCHANGED usage

TaskGivesUp(q, i) ==
    /\ SetTask(q, i, [agent[q].plan[i] EXCEPT !.phase = "done", !.no_data = TRUE, !.text = NoData])
    /\ UNCHANGED usage

(* Embed the seed, or any query the rewrite made of it, and retrieve, in   *)
(* the default knowledge base and without a filter.  An empty recall of    *)
(* the seed leads to the rewrite.                                          *)
TaskRecall(d, q, i) ==
    LET task == agent[q].plan[i]
        queries == IF task.phase = "recall" THEN {task.seed} ELSE Text
    IN  /\ Executing(q) /\ task.phase \in {"recall", "again"}
        /\ \/ TaskRaises(q, i)
           \/ \E text \in queries : \E shown \in TaskContexts[d][DefaultKB][text] :
                \/ /\ shown.found
                   /\ SetTask(q, i, [task EXCEPT !.phase = "answer", !.cites = shown.cites])
                   /\ UNCHANGED usage
                \/ /\ ~shown.found /\ task.retries < MaxRetries
                   /\ SetTask(q, i, [task EXCEPT !.phase = "rewrite", !.retries = @ + 1])
                   /\ UNCHANGED usage
                \/ /\ ~shown.found /\ task.retries = MaxRetries
                   /\ TaskGivesUp(q, i)

(* The model call of _maybe_seed_retry. *)
TaskRewrite(q, i) ==
    /\ Executing(q) /\ agent[q].plan[i].phase = "rewrite"
    /\ \/ /\ SetTask(q, i, [agent[q].plan[i] EXCEPT !.phase = "again"])
          /\ UNCHANGED usage
       \/ TaskGivesUp(q, i)

(* _answer_llm *)
TaskAnswer(q, i) ==
    /\ Executing(q) /\ agent[q].plan[i].phase = "answer"
    /\ \/ TaskRaises(q, i)
       \/ \E text \in {Empty, "text"} :
            /\ SetTask(q, i, [agent[q].plan[i] EXCEPT !.phase = "done", !.text = text])
            /\ usage' = usage + (IF text = Empty THEN 0 ELSE UsagePerCall)

MutantGather(q) ==
    /\ Executing(q)
    /\ \A i \in DOMAIN agent[q].plan : agent[q].plan[i].phase = "done"
    /\ Become(q, [Enter(q, "synthesis", <<>>) EXCEPT !.budget = @ + usage])
    /\ UNCHANGED usage

(* run after gather: a task that raised counts as one without data. *)
Gathered(task) ==
    IF task.phase = "raised" THEN [task EXCEPT !.no_data = TRUE, !.text = NoData] ELSE task

Gather(q) ==
    LET plan == [i \in DOMAIN agent[q].plan |-> Gathered(agent[q].plan[i])]
    IN  /\ Executing(q)
        /\ \A i \in DOMAIN plan : plan[i].phase \in {"done", "raised"}
        /\ IF \A i \in DOMAIN plan : plan[i].no_data
           THEN Degrade(q, 7002)
           ELSE Become(q, [Enter(q, "synthesis", <<"end_executor", "start_synthesis">>) EXCEPT
                             !.plan = plan, !.budget = @ + usage])
        /\ UNCHANGED usage

(* The sub-answers that reach the prompt of synthesise. *)
Valid(q) == {i \in DOMAIN agent[q].plan : agent[q].plan[i].text \notin {Empty, NoData}}

(* synthesise and the collection of citations; errors are "unexpected". *)
Synthesise(q) ==
    /\ agent[q].stage = "synthesis"
    /\ \/ Valid(q) # {} /\ Degrade(q, Unexpected)
       \/ Become(q, [Enter(q, "verifier", <<"synthesis", "end_synthesis", "start_verifier">>) EXCEPT
                !.answer = IF Valid(q) = {} THEN Unable ELSE "text",
                !.cites = FlattenSeq([i \in DOMAIN agent[q].plan |-> agent[q].plan[i].cites])])
    /\ UNCHANGED usage

MutantVerify(q) ==
    /\ agent[q].stage = "verifier"
    /\ \E passed \in BOOLEAN :
        Become(q, [Enter(q, "answered", <<"end_verifier", "done">>) EXCEPT !.verified = passed])
    /\ UNCHANGED usage

(* Verifier.run and the end of _run_graph. *)
Verify(q) ==
    /\ agent[q].stage = "verifier"
    /\ \/ Degrade(q, Unexpected)
       \/ Degrade(q, 7003)
       \/ Become(q, [Enter(q, "answered", <<"end_verifier", "done">>) EXCEPT !.verified = TRUE])
    /\ UNCHANGED usage

AgentStep(d, q) ==
    \/ IntentDecision(q) \/ ScopeDiscovery(q) \/ AnswerPlan(q)
    \/ \E i \in DOMAIN agent[q].plan : TaskRecall(d, q, i) \/ TaskRewrite(q, i) \/ TaskAnswer(q, i)
    \/ Gather(q) \/ Synthesise(q) \/ Verify(q)
================================================================================
