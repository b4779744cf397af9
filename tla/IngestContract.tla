---------------------------- MODULE IngestContract ----------------------------
(***************************************************************************)
(* What an ingest task promises to whoever polls it, whatever happens      *)
(* inside the worker: stages complete one at a time and in pipeline order, *)
(* a completed stage stays completed, and the task is reported done only   *)
(* when every stage its knowledge base asks for has completed.             *)
(*                                                                         *)
(* IngestPipeline is shown to implement this module.                       *)
(***************************************************************************)
EXTENDS Naturals

VARIABLES
    phase,     \* what GET /v1/tasks/{id} amounts to
    complete,  \* the stages that have completed
    wanted     \* the stages the knowledge base asks for

contractVars == <<phase, complete, wanted>>

(* ragx.core.models.INGEST_STAGES, in order. *)
Rank == [parsing |-> 1, processing |-> 2, chunking |-> 3, embedding |-> 4,
         kg_building |-> 5]

Stages == DOMAIN Rank

Before(s) == {e \in Stages : Rank[e] < Rank[s]}

ContractInit ==
    /\ phase = "pending"
    /\ complete = {}
    /\ wanted \in {W \in SUBSET Stages : {"parsing", "chunking", "embedding"} \subseteq W}

(* A stage is being worked on, for the first time or again. *)
Attempt ==
    /\ phase' = "active"
    /\ UNCHANGED <<complete, wanted>>

(* The next wanted stage completes. *)
CompleteStage(s) ==
    /\ phase = "active"
    /\ s \in wanted
    /\ wanted \cap Before(s) \subseteq complete
    /\ complete' = complete \cup {s}
    /\ UNCHANGED <<phase, wanted>>

(* The task is reported done: nothing that was asked for is missing. *)
Succeed ==
    /\ wanted \subseteq complete
    /\ phase' = "done"
    /\ UNCHANGED <<complete, wanted>>

(* Failing gives up the attempt, never what was completed before it. *)
GiveUp ==
    /\ phase = "active"
    /\ phase' = "failed"
    /\ UNCHANGED <<complete, wanted>>

ContractNext ==
    \/ Attempt
    \/ \E s \in Stages : CompleteStage(s)
    \/ Succeed
    \/ GiveUp

ContractSpec == ContractInit /\ [][ContractNext]_contractVars
===============================================================================
