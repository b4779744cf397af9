---------------------------- MODULE IngestPipeline ----------------------------
(***************************************************************************)
(* ragx/ingestion/pipeline.py: the state machine of ONE ingest task, with  *)
(* the stores it writes.  pipeline.run(task) takes the task through        *)
(*                                                                         *)
(*   parsing -> [processing] -> chunking -> embedding -> [kg_building]     *)
(*                                                                         *)
(* and every stage goes through run_stage: look for a checkpoint, mark the *)
(* tasks row, run the stage function, which writes rows of its own, and    *)
(* only then save the checkpoint.  A run may be interrupted between any    *)
(* two of those, and the task may be run again from what is durable.       *)
(*                                                                         *)
(* Durable: row, saved, ckpt (MetadataStore) and store (MetadataStore, the *)
(* vector store and the graph).  Lost with the process: run.               *)
(*                                                                         *)
(* A stage function writes its rows one at a time.  MetadataStore has one  *)
(* connection for all coroutines: a commit by any of them, the save_task   *)
(* that records the stage's failure among them, makes the rows written so  *)
(* far durable, and the sqlite vector store commits row by row.            *)
(***************************************************************************)
EXTENDS Naturals, FiniteSets

CONSTANTS
    Atom,         \* atom ids (stable: derived from the document's content)
    Configs,      \* the configurations and documents considered
    MaxAttempts,  \* RetryPolicy.max_attempts
    MaxRuns       \* bound: how often the task is handed to pipeline.run

(* A chunk id is drawn afresh by every execution of the chunker; the n-th  *)
(* id drawn is modelled by n.                                              *)
Id == Atom \cup Nat

(* What stays fixed while a task lives: the knowledge base's flags and     *)
(* plugins, whether the pipeline was built with a description cache, the   *)
(* atoms the parser finds in the document and the number of chunks the     *)
(* chunker cuts from them.                                                 *)
Config ==
    {c \in [vlm : BOOLEAN, kg : BOOLEAN, processor : BOOLEAN, descCache : BOOLEAN,
            llm : BOOLEAN, atoms : SUBSET Atom, visual : SUBSET Atom, cut : Nat] :
        /\ c.visual \subseteq c.atoms
        /\ IsFiniteSet(c.atoms)
        /\ c.cut = 0 <=> c.atoms = {}}

ASSUME ConstantsAssumption ==
    /\ MaxAttempts \in Nat \ {0}
    /\ MaxRuns \in Nat
    /\ Configs \subseteq Config
    /\ \A a \in Atom : a \notin Nat

VARIABLES
    cfg,     \* the configuration, chosen once
    row,     \* the tasks row: status and attempts
    saved,   \* the stages that have a row in checkpoints
    ckpt,    \* produced_ids of those rows
    store,   \* per stage, what its executions have written
    run,     \* the run in progress, if any
    issued,  \* chunk ids drawn so far
    runs     \* calls of pipeline.run so far

vars == <<cfg, row, saved, ckpt, store, run, issued, runs>>
-------------------------------------------------------------------------------
Stages == {"parsing", "processing", "chunking", "embedding", "kg_building"}

Statuses == {"pending", "done", "failed"} \cup Stages

Steps == {"idle", "check", "work", "finish"}

Idle == [step |-> "idle", stage |-> "parsing", todo |-> {}, made |-> {}]

Active == run.step # "idle"

(* Where a run enters a stage: run_stage has not looked at anything yet.   *)
Enter(s) == [step |-> "check", stage |-> s, todo |-> {}, made |-> {}]

Finishing == [step |-> "finish", stage |-> "parsing", todo |-> {}, made |-> {}]

MutantAfterNoGraph(s) ==
    CASE s = "parsing" -> IF cfg.vlm THEN Enter("processing") ELSE Enter("chunking")
      [] s = "processing" -> Enter("chunking")
      [] s = "chunking" -> Enter("embedding")
      [] OTHER -> Finishing

(* IngestionPipeline.run: what follows stage s.  processing and            *)
(* kg_building are entered only when the knowledge base asks for them.     *)
After(s) ==
    CASE s = "parsing" -> IF cfg.vlm THEN Enter("processing") ELSE Enter("chunking")
      [] s = "processing" -> Enter("chunking")
      [] s = "chunking" -> Enter("embedding")
      [] s = "embedding" -> IF cfg.kg THEN Enter("kg_building") ELSE Finishing
      [] OTHER -> Finishing

(* The atoms process_atoms describes: it hands the processor all but text. *)
Described == IF cfg.processor THEN store["parsing"] \cap cfg.visual ELSE {}

(* Ids new_id("chk_") gives to the chunks of one execution.                *)
Fresh == (issued + 1)..(issued + cfg.cut)

MutantProducedNewestOnly(s) ==
    CASE s = "parsing" -> cfg.atoms
      [] s = "processing" -> Described
      [] s = "chunking" -> Fresh
      [] s = "embedding" -> ckpt["chunking"]
      [] OTHER -> store["chunking"]

(* The ids a stage function returns.  embedding and kg_building work on    *)
(* get_chunks_by_doc: every chunk row of the document, whichever execution *)
(* of the chunker wrote it.                                                *)
Produced(s) ==
    CASE s = "parsing" -> cfg.atoms
      [] s = "processing" -> Described
      [] s = "chunking" -> Fresh
      [] OTHER -> store["chunking"]

(* What it may write.  processing persists nothing; without an LLM         *)
(* _do_build_kg only logs, and with one a chunk whose extraction raises is *)
(* skipped with a warning, so any part of the chunks may reach the graph.  *)
MayWrite(s, made) ==
    CASE s = "processing" -> {{}}
      [] s = "kg_building" -> IF cfg.llm THEN SUBSET made ELSE {{}}
      [] OTHER -> {made}

(* The stage function cannot succeed.  _do_process passes the cache it was *)
(* built with, None in the application, to code that calls it; and _process*)
(* hands _do_chunk the described ids where it expects descriptions         *)
(* (d.atom_id of a str).  Both are AttributeErrors.                        *)
Doomed(s) ==
    \/ s = "processing" /\ Described # {} /\ ~cfg.descCache
    \/ s = "chunking" /\ ckpt["processing"] # {}
-------------------------------------------------------------------------------
Init ==
    /\ cfg \in Configs
    /\ row = [status |-> "pending", attempts |-> 0]
    /\ saved = {}
    /\ ckpt = [s \in Stages |-> {}]
    /\ store = [s \in Stages |-> {}]
    /\ run = Idle
    /\ issued = 0
    /\ runs = 0

(* A queue consumer, or an operator, hands the stored task to              *)
(* pipeline.run.  Nobody looks at its status first.                        *)
Start ==
    /\ run.step = "idle"
    /\ runs < MaxRuns
    /\ run' = Enter("parsing")
    /\ runs' = runs + 1
    /\ UNCHANGED <<cfg, row, saved, ckpt, store, issued>>

(* run_stage: "if ckpt: return ckpt".  An empty checkpoint does not count. *)
Skip ==
    /\ run.step = "check"
    /\ ckpt[run.stage] # {}
    /\ run' = After(run.stage)
    /\ UNCHANGED <<cfg, row, saved, ckpt, store, issued, runs>>

MutantNoCheckpoint(s) == TRUE

(* get_checkpoint gave nothing run_stage would skip for. *)
NotCheckpointed(s) == ckpt[s] = {}

(* run_stage: the row is marked with the stage and saved; the stage        *)
(* function starts.                                                        *)
Begin ==
    /\ run.step = "check"
    /\ NotCheckpointed(run.stage)
    /\ row' = [row EXCEPT !.status = run.stage]
    /\ \E todo \in MayWrite(run.stage, Produced(run.stage)) :
          run' = [step |-> "work", stage |-> run.stage, todo |-> todo,
                  made |-> Produced(run.stage)]
    /\ issued' = IF run.stage = "chunking" THEN issued + cfg.cut ELSE issued
    /\ UNCHANGED <<cfg, saved, ckpt, store, runs>>

(* One row, vector or graph contribution becomes durable. *)
Write ==
    /\ run.step = "work"
    /\ ~Doomed(run.stage)
    /\ \E i \in run.todo :
          /\ store' = [store EXCEPT ![run.stage] = @ \cup {i}]
          /\ run' = [run EXCEPT !.todo = @ \ {i}]
    /\ UNCHANGED <<cfg, row, saved, ckpt, issued, runs>>

MutantAllWritten == TRUE

(* The stage function returned: all it had to write is written. *)
AllWritten == run.todo = {}

(* run_stage: save_checkpoint, after the stage function's own writes. *)
SaveCheckpoint ==
    /\ run.step = "work"
    /\ ~Doomed(run.stage)
    /\ AllWritten
    /\ saved' = saved \cup {run.stage}
    /\ ckpt' = [ckpt EXCEPT ![run.stage] = run.made]
    /\ run' = After(run.stage)
    /\ UNCHANGED <<cfg, row, store, issued, runs>>

(* IngestionPipeline.run: every stage is behind us. *)
Finish ==
    /\ run.step = "finish"
    /\ row' = [row EXCEPT !.status = "done"]
    /\ run' = Idle
    /\ UNCHANGED <<cfg, saved, ckpt, store, issued, runs>>

MutantCountDown(n) == n - 1

MutantCountNothing(n) == n

CountAttempt(n) == n + 1

MutantBudgetLeft(n) == n <= MaxAttempts

(* task.attempts >= retry.max_attempts ends it, whichever stages and runs  *)
(* the attempts were spent on.                                             *)
BudgetLeft(n) == n < MaxAttempts

(* The stage function raised a retryable error and attempts are left: back *)
(* off and enter the same stage again.                                     *)
Retry ==
    /\ run.step = "work"
    /\ ~Doomed(run.stage)
    /\ BudgetLeft(CountAttempt(row.attempts))
    /\ row' = [row EXCEPT !.attempts = CountAttempt(@)]
    /\ run' = Enter(run.stage)
    /\ UNCHANGED <<cfg, saved, ckpt, store, issued, runs>>

(* It raised, and the error is not retryable or was the last allowed: the  *)
(* task is marked failed and run() raises.                                 *)
Fail ==
    /\ run.step = "work"
    /\ row' = [row EXCEPT !.status = "failed", !.attempts = CountAttempt(@)]
    /\ run' = Idle
    /\ UNCHANGED <<cfg, saved, ckpt, store, issued, runs>>

(* The process dies, shutdown cancels the worker in mid-task, or one of    *)
(* run_stage's own calls on the database raises: none of them is inside    *)
(* the try that marks a task failed.                                       *)
Interrupt ==
    /\ Active
    /\ run' = Idle
    /\ UNCHANGED <<cfg, row, saved, ckpt, store, issued, runs>>

Progress ==
    Skip \/ Begin \/ Write \/ SaveCheckpoint \/ Finish \/ Retry \/ Fail

Next == Start \/ Progress \/ Interrupt

Spec == Init /\ [][Next]_vars

(* The event loop keeps scheduling a run that can go on, backoff sleeps    *)
(* are finite, and stage functions return or raise.                        *)
FairSpec == Spec /\ WF_vars(Progress)
-------------------------------------------------------------------------------
TypeOK ==
    /\ cfg \in Configs
    /\ row \in [status : Statuses, attempts : Nat]
    /\ saved \in SUBSET Stages
    /\ ckpt \in [Stages -> SUBSET Id]
    /\ store \in [Stages -> SUBSET Id]
    /\ run \in [step : Steps, stage : Stages, todo : SUBSET Id, made : SUBSET Id]
    /\ issued \in Nat
    /\ runs \in 0..MaxRuns

(* A task that says done can be searched: the parser's atoms and every     *)
(* chunk row of the document are stored, each chunk row has its vector, and*)
(* the graph stage was not left out.  Chunk rows of executions that were   *)
(* interrupted count: retrieval reads the same table.                      *)
DoneMeansIndexed ==
    row.status = "done" =>
        /\ store["parsing"] = cfg.atoms
        /\ "chunking" \in saved
        /\ store["embedding"] = store["chunking"]
        /\ cfg.kg => "kg_building" \in saved

(* run_stage persists what a stage produced before it saves the checkpoint *)
(* that lets every later run skip the stage: nothing a checkpoint lists is *)
(* missing, whatever was interrupted in between.                           *)
CheckpointedIsStored ==
    \A s \in {"parsing", "chunking", "embedding"} : ckpt[s] \subseteq store[s]

(* A stage with a checkpoint is skipped by every later run: neither its    *)
(* checkpoint nor its rows change again, so the vectors and graph built on *)
(* them stay valid.  (Only for a stage that produced something.)           *)
CompletedStageIsFrozen ==
    [][\A s \in Stages :
          ckpt[s] # {} => ckpt'[s] = ckpt[s] /\ store'[s] = store[s]]_vars

(* attempts is never reset, neither between stages nor between runs: the   *)
(* first run spends at most MaxAttempts, and each further run of the task  *)
(* adds at most one once they are spent.                                   *)
RetryBudget ==
    row.attempts < MaxAttempts + (IF runs = 0 THEN 1 ELSE runs)

(* Retrying ends: a run that is not interrupted comes to done or failed.   *)
RunEnds == Active ~> ~Active

(* The task as its poller sees it. *)
Phase ==
    CASE row.status \in {"pending", "done", "failed"} -> row.status
      [] OTHER -> "active"

Wanted ==
    Stages \ ((IF cfg.vlm THEN {} ELSE {"processing"})
               \cup (IF cfg.kg THEN {} ELSE {"kg_building"}))

Contract == INSTANCE IngestContract WITH
                phase <- Phase, complete <- saved, wanted <- Wanted

(* The pipeline keeps the promises of IngestContract: in-order completion, *)
(* nothing completed is lost to a crash or a failure, done only when all   *)
(* that was asked for has completed.                                       *)
ImplementsContract == Contract!ContractSpec

(* "idempotent replay" (pipeline.py:5): a task that was interrupted and    *)
(* replayed ends with the chunk rows of one execution of the chunker.      *)
ReplayLeavesNoDuplicates ==
    row.status = "done" => store["chunking"] = ckpt["chunking"]
===============================================================================
