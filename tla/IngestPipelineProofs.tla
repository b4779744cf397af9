-------------------------- MODULE IngestPipelineProofs --------------------------
(***************************************************************************)
(* Proofs about IngestPipeline for every set of atoms, every choice of     *)
(* configurations, and every MaxAttempts and MaxRuns.                      *)
(*                                                                         *)
(* The properties the runs check are not inductive.  IInv adds what the    *)
(* code relies on without saying so: where a run stands says what is       *)
(* already durable (Position), what a stage function holds in its hands is *)
(* either written or still to be written (WorkOK), and how the durable     *)
(* tables depend on each other (Durable).                                  *)
(***************************************************************************)
EXTENDS IngestPipeline, FiniteSetTheorems, TLAPS

Persisting == {"parsing", "chunking", "embedding"}

(* A stage function is running. *)
WorkOK ==
    run.step = "work" =>
        /\ row.status = run.stage
        /\ ckpt[run.stage] = {}
        /\ run.todo \subseteq run.made
        /\ run.stage \in Persisting => run.made \subseteq store[run.stage] \cup run.todo
        /\ run.stage = "parsing" => run.made = cfg.atoms
        /\ run.stage = "chunking" => (run.made = {} <=> cfg.cut = 0)
        /\ run.stage = "embedding" => run.made = store["chunking"]

(* What lies behind a run is durable. *)
Position ==
    /\ run.step \in {"check", "work"} =>
          /\ run.stage \in Wanted
          /\ Wanted \cap Contract!Before(run.stage) \subseteq saved
    /\ run.step = "finish" => Wanted \subseteq saved
    /\ Active /\ (run.step = "finish" \/ run.stage # "parsing") =>
          store["parsing"] = cfg.atoms
    /\ Active /\ (run.step = "finish" \/ run.stage = "kg_building") =>
          store["embedding"] = store["chunking"]

(* How the tables depend on each other, whether or not a run is active. *)
Durable ==
    /\ \A s \in Stages : ckpt[s] # {} => s \in saved
    /\ store["parsing"] \subseteq cfg.atoms
    /\ ckpt["parsing"] # {} => store["parsing"] = cfg.atoms
    /\ store["embedding"] \subseteq store["chunking"]
    /\ ckpt["embedding"] # {} =>
          ckpt["chunking"] # {} /\ store["embedding"] = store["chunking"]
    /\ cfg.cut = 0 => store["chunking"] = {}
    /\ "chunking" \in saved /\ cfg.cut # 0 => ckpt["chunking"] # {}

IInv == WorkOK /\ Position /\ Durable /\ CheckpointedIsStored /\ DoneMeansIndexed

(* The attempts a task has left for the run it is in. *)
Budget ==
    /\ runs = 0 => row.attempts = 0 /\ ~Active
    /\ runs > 0 => row.attempts + 1 <= MaxAttempts + runs
    /\ Active => row.attempts + 2 <= MaxAttempts + runs
-------------------------------------------------------------------------------
(* Where IngestionPipeline.run goes after a stage is a stage to enter or   *)
(* the end.                                                                *)
LEMMA AfterType ==
    ASSUME NEW s \in Stages
    PROVE  After(s) \in {Enter(e) : e \in Stages} \cup {Finishing}
BY DEF After, Stages

(* The same with the type of a run's record. *)
LEMMA AfterRecord ==
    ASSUME NEW s \in Stages
    PROVE  After(s) \in [step : Steps, stage : Stages, todo : SUBSET Id, made : SUBSET Id]
BY AfterType DEF Enter, Finishing, Stages, Steps

(* Configurations have the fields Config gives them. *)
LEMMA ConfigFields ==
    ASSUME cfg \in Configs
    PROVE  /\ cfg.atoms \subseteq Atom
           /\ cfg.cut \in Nat
           /\ cfg.cut = 0 <=> cfg.atoms = {}
BY ConstantsAssumption DEF Config

(* What a stage returns, and any choice of what it writes, are ids. *)
LEMMA ProducedType ==
    ASSUME TypeOK, NEW s \in Stages, NEW todo \in MayWrite(s, Produced(s))
    PROVE  Produced(s) \subseteq Id /\ todo \subseteq Produced(s)
<1>1. Produced(s) \subseteq Id
  <2>1. CASE s = "parsing"
    BY <2>1, ConfigFields DEF TypeOK, Produced, Id
  <2>2. CASE s = "processing"
    BY <2>2 DEF TypeOK, Produced, Described, Stages
  <2>3. CASE s = "chunking"
    BY <2>3, ConfigFields DEF TypeOK, Produced, Fresh, Id
  <2>4. CASE s \notin {"parsing", "processing", "chunking"}
    BY <2>4 DEF TypeOK, Produced, Stages
  <2>5. QED
    BY <2>1, <2>2, <2>3, <2>4
<1>2. todo \subseteq Produced(s)
  BY DEF MayWrite
<1>3. QED
  BY <1>1, <1>2

(* Every variable keeps its type, for every value of the constants: the    *)
(* tables hold ids, attempts is a number, and a run is a known step of a   *)
(* known stage.                                                            *)
THEOREM TypeCorrect == Spec => []TypeOK
<1>1. Init => TypeOK
  BY ConstantsAssumption DEF Init, TypeOK, Idle, Stages, Statuses, Steps, Id
<1>2. TypeOK /\ [Next]_vars => TypeOK'
  <2> SUFFICES ASSUME TypeOK, [Next]_vars
               PROVE  TypeOK'
    OBVIOUS
  <2> USE DEF TypeOK
  <2>1. CASE Start
    BY <2>1, ConstantsAssumption DEF Start, Enter, Stages, Steps
  <2>2. CASE Skip
    BY <2>2, AfterRecord DEF Skip
  <2>3. CASE Begin
    <3>1. run.stage \in Stages
      OBVIOUS
    <3>2. PICK todo \in MayWrite(run.stage, Produced(run.stage)) :
             run' = [step |-> "work", stage |-> run.stage, todo |-> todo,
                     made |-> Produced(run.stage)]
      BY <2>3 DEF Begin
    <3>3. run' \in [step : Steps, stage : Stages, todo : SUBSET Id, made : SUBSET Id]
      BY <3>1, <3>2, ProducedType DEF Steps
    <3>4. row' \in [status : Statuses, attempts : Nat]
      BY <2>3, <3>1 DEF Begin, Statuses
    <3>5. issued' \in Nat
      BY <2>3, ConfigFields DEF Begin
    <3>6. QED
      BY <2>3, <3>3, <3>4, <3>5 DEF Begin
  <2>4. CASE Write
    BY <2>4 DEF Write
  <2>5. CASE SaveCheckpoint
    BY <2>5, AfterRecord DEF SaveCheckpoint
  <2>6. CASE Finish
    BY <2>6 DEF Finish, Idle, Statuses, Stages, Steps
  <2>7. CASE Retry
    BY <2>7 DEF Retry, CountAttempt, Enter, Steps
  <2>8. CASE Fail
    <3>1. row' = [status |-> "failed", attempts |-> row.attempts + 1]
      BY <2>8 DEF Fail, CountAttempt
    <3>2. run' \in [step : Steps, stage : Stages, todo : SUBSET Id, made : SUBSET Id]
      BY <2>8 DEF Fail, Idle, Stages, Steps
    <3>3. QED
      BY <2>8, <3>1, <3>2 DEF Fail, Statuses
  <2>9. CASE Interrupt
    BY <2>9 DEF Interrupt, Idle, Stages, Steps
  <2>10. CASE UNCHANGED vars
    BY <2>10 DEF vars
  <2>11. QED
    BY <2>1, <2>2, <2>3, <2>4, <2>5, <2>6, <2>7, <2>8, <2>9, <2>10 DEF Next, Progress
<1>3. QED
  BY <1>1, <1>2, PTL DEF Spec
-------------------------------------------------------------------------------
(* The attempts of a task are bounded by max_attempts plus one for every   *)
(* further run, however failures, crashes and replays interleave.  Budget  *)
(* is inductive: starting a run is what adds to the bound, and a retry     *)
(* needs attempts to be left by the task's own count.                      *)
THEOREM BudgetHolds == Spec => []RetryBudget
<1>1. Init => Budget
  BY ConstantsAssumption DEF Init, Budget, Active, Idle
<1>2. TypeOK /\ Budget /\ [Next]_vars => Budget'
  <2> SUFFICES ASSUME TypeOK, Budget, [Next]_vars
               PROVE  Budget'
    OBVIOUS
  <2>t. row.attempts \in Nat /\ runs \in Nat /\ MaxAttempts \in Nat \ {0}
    BY ConstantsAssumption DEF TypeOK
  <2>1. CASE Start
    BY <2>1, <2>t DEF Start, Budget, Active, Enter
  <2>2. CASE Skip \/ Begin \/ Write \/ SaveCheckpoint
    <3>1. run.step # "idle" /\ row'.attempts = row.attempts /\ runs' = runs
      BY <2>2 DEF Skip, Begin, Write, SaveCheckpoint, TypeOK
    <3>2. QED
      BY <3>1, <2>t DEF Budget, Active
  <2>3. CASE Finish
    <3>1. run.step # "idle" /\ row'.attempts = row.attempts /\ runs' = runs
      BY <2>3 DEF Finish, TypeOK
    <3>2. QED
      BY <3>1, <2>t DEF Budget, Active
  <2>4. CASE Retry
    <3>1. /\ run.step # "idle" /\ runs' = runs
          /\ row'.attempts = row.attempts + 1
          /\ row.attempts + 1 < MaxAttempts
      BY <2>4 DEF Retry, BudgetLeft, CountAttempt, TypeOK
    <3>2. QED
      BY <3>1, <2>t DEF Budget, Active
  <2>5. CASE Fail
    <3>1. /\ run.step # "idle" /\ run'.step = "idle" /\ runs' = runs
          /\ row'.attempts = row.attempts + 1
      BY <2>5 DEF Fail, CountAttempt, TypeOK, Idle
    <3>2. QED
      BY <3>1, <2>t DEF Budget, Active
  <2>6. CASE Interrupt
    BY <2>6, <2>t DEF Interrupt, Budget, Active, Idle
  <2>7. CASE UNCHANGED vars
    BY <2>7 DEF vars, Budget, Active
  <2>8. QED
    BY <2>1, <2>2, <2>3, <2>4, <2>5, <2>6, <2>7 DEF Next, Progress
<1>3. TypeOK /\ Budget => RetryBudget
  BY ConstantsAssumption DEF TypeOK, Budget, RetryBudget
<1>4. QED
  BY <1>1, <1>2, <1>3, TypeCorrect, PTL DEF Spec
-------------------------------------------------------------------------------
(* Pipeline order, spelled out. *)
LEMMA BeforeEach ==
    /\ Contract!Before("parsing") = {}
    /\ Contract!Before("processing") = {"parsing"}
    /\ Contract!Before("chunking") = {"parsing", "processing"}
    /\ Contract!Before("embedding") = {"parsing", "processing", "chunking"}
    /\ Contract!Before("kg_building") = {"parsing", "processing", "chunking", "embedding"}
BY DEF Contract!Before, Contract!Stages, Contract!Rank

(* Every stage but the optional two is wanted, whatever the configuration. *)
LEMMA PersistingWanted == Persisting \subseteq Wanted
BY DEF Persisting, Wanted, Stages

(* A run that enters what follows stage s, with s and all before it        *)
(* complete, stands where Position says it does.                           *)
LEMMA AdvancePosition ==
    ASSUME NEW s \in Wanted,
           Wanted \cap Contract!Before(s) \subseteq saved', s \in saved',
           run' = After(s), cfg' = cfg,
           store'["parsing"] = cfg.atoms,
           s \in {"embedding", "kg_building"} => store'["embedding"] = store'["chunking"]
    PROVE  Position'
<1>w. Wanted' = Wanted
  BY DEF Wanted
<1>1. CASE s = "parsing"
  <2>1. run' = IF cfg.vlm THEN Enter("processing") ELSE Enter("chunking")
    BY <1>1 DEF After
  <2>2. cfg.vlm \/ "processing" \notin Wanted
    BY DEF Wanted
  <2>3. cfg.vlm => "processing" \in Wanted
    BY DEF Wanted, Stages
  <2>4. QED
    BY <1>1, <1>w, <2>1, <2>2, <2>3, BeforeEach, PersistingWanted
       DEF Position, Enter, Active, Persisting
<1>2. CASE s = "processing"
  <2>1. run' = Enter("chunking")
    BY <1>2 DEF After
  <2>2. QED
    BY <1>2, <1>w, <2>1, BeforeEach, PersistingWanted DEF Position, Enter, Active, Persisting
<1>3. CASE s = "chunking"
  <2>1. run' = Enter("embedding")
    BY <1>3 DEF After
  <2>2. QED
    BY <1>3, <1>w, <2>1, BeforeEach, PersistingWanted DEF Position, Enter, Active, Persisting
<1>4. CASE s = "embedding"
  <2>1. run' = IF cfg.kg THEN Enter("kg_building") ELSE Finishing
    BY <1>4 DEF After
  <2>2. CASE cfg.kg
    <3>1. "kg_building" \in Wanted
      BY <2>2 DEF Wanted, Stages
    <3>2. QED
      BY <1>4, <1>w, <2>1, <2>2, <3>1, BeforeEach DEF Position, Enter, Active
  <2>3. CASE ~cfg.kg
    <3>1. Wanted \subseteq Contract!Before(s) \cup {s}
      BY <1>4, <2>3, BeforeEach DEF Wanted, Stages
    <3>2. QED
      BY <1>4, <1>w, <2>1, <2>3, <3>1 DEF Position, Finishing, Active
  <2>4. QED
    BY <2>2, <2>3
<1>5. CASE s = "kg_building"
  <2>1. run' = Finishing
    BY <1>5 DEF After
  <2>2. Wanted \subseteq Contract!Before(s) \cup {s}
    BY <1>5, BeforeEach DEF Wanted, Stages
  <2>3. QED
    BY <1>5, <1>w, <2>1, <2>2 DEF Position, Finishing, Active
<1>6. QED
  BY <1>1, <1>2, <1>3, <1>4, <1>5 DEF Wanted, Stages

(* Before the task is first run nothing is stored and nothing is promised. *)
LEMMA InitIInv == Init => IInv
BY ConstantsAssumption
   DEF Init, IInv, WorkOK, Position, Durable, CheckpointedIsStored, DoneMeansIndexed,
       Idle, Active, Stages

(* Handing the task to the pipeline looks at no table. *)
LEMMA StartIInv == TypeOK /\ IInv /\ Start => IInv'
<1> SUFFICES ASSUME TypeOK, IInv, Start
             PROVE  IInv'
  OBVIOUS
<1>1. run'.step = "check" /\ run'.stage = "parsing"
  BY DEF Start, Enter
<1>2. Position'
  BY <1>1, BeforeEach, PersistingWanted
     DEF Start, Position, Active, Wanted, Persisting
<1>3. QED
  BY <1>1, <1>2
     DEF Start, IInv, WorkOK, Durable, CheckpointedIsStored, DoneMeansIndexed

(* Skipping a stage: its checkpoint is not empty, so it completed.         *)
LEMMA SkipIInv == TypeOK /\ IInv /\ Skip => IInv'
<1> SUFFICES ASSUME TypeOK, IInv, Skip
             PROVE  IInv'
  OBVIOUS
<1>1. run.stage \in Stages /\ ckpt[run.stage] # {} /\ run.step = "check"
  BY DEF Skip, TypeOK
<1>2. Position'
  <2>1. /\ run.stage \in Wanted /\ run.stage \in saved'
        /\ Wanted \cap Contract!Before(run.stage) \subseteq saved'
    BY <1>1 DEF IInv, Position, Durable, Skip
  <2>2. store'["parsing"] = cfg.atoms
    BY <1>1 DEF IInv, Position, Durable, Skip, Active
  <2>3. run.stage \in {"embedding", "kg_building"} =>
           store'["embedding"] = store'["chunking"]
    BY <1>1 DEF IInv, Position, Durable, Skip, Active
  <2>4. run' = After(run.stage) /\ cfg' = cfg
    BY DEF Skip
  <2>5. QED
    BY <2>1, <2>2, <2>3, <2>4, AdvancePosition
<1>3. run'.step # "work"
  BY <1>1, AfterType DEF Skip, Enter, Finishing
<1>4. QED
  BY <1>2, <1>3 DEF Skip, IInv, WorkOK, Durable, CheckpointedIsStored, DoneMeansIndexed

(* A stage begins with all it has to write still to be written. *)
LEMMA BeginIInv == TypeOK /\ IInv /\ Begin => IInv'
<1> SUFFICES ASSUME TypeOK, IInv, Begin
             PROVE  IInv'
  OBVIOUS
<1>1. run.stage \in Stages /\ run.step = "check" /\ ckpt[run.stage] = {}
  BY DEF Begin, NotCheckpointed, TypeOK
<1>2. PICK todo \in MayWrite(run.stage, Produced(run.stage)) :
         run' = [step |-> "work", stage |-> run.stage, todo |-> todo,
                 made |-> Produced(run.stage)]
  BY DEF Begin
<1>3. row'.status = run.stage
  BY DEF Begin, TypeOK
<1>4. todo \subseteq Produced(run.stage)
  BY <1>2 DEF MayWrite
<1>5. run.stage \in Persisting => todo = Produced(run.stage)
  BY <1>2 DEF MayWrite, Persisting
<1>6. run.stage = "chunking" => (Produced(run.stage) = {} <=> cfg.cut = 0)
  <2>1. issued \in Nat /\ cfg.cut \in Nat
    BY ConfigFields DEF TypeOK
  <2>2. (issued + 1)..(issued + cfg.cut) = {} <=> cfg.cut = 0
    <3>1. CASE cfg.cut = 0
      BY <2>1, <3>1
    <3>2. CASE cfg.cut # 0
      <4>1. issued + 1 \in (issued + 1)..(issued + cfg.cut)
        BY <2>1, <3>2
      <4>2. QED
        BY <3>2, <4>1
    <3>3. QED
      BY <3>1, <3>2
  <2>3. QED
    BY <2>2 DEF Produced, Fresh
<1>7. UNCHANGED <<cfg, saved, ckpt, store>>
  BY DEF Begin
<1>8. WorkOK'
  <2>1. run.stage = "parsing" => Produced(run.stage) = cfg.atoms
    BY DEF Produced
  <2>2. run.stage = "embedding" => Produced(run.stage) = store["chunking"]
    BY DEF Produced
  <2>3. QED
    BY <1>1, <1>2, <1>3, <1>4, <1>5, <1>6, <1>7, <2>1, <2>2 DEF WorkOK
<1>9. Position'
  BY <1>1, <1>2, <1>7 DEF IInv, Position, Wanted, Active
<1>10. row'.status # "done"
  BY <1>1, <1>3 DEF Stages
<1>11. QED
  BY <1>7, <1>8, <1>9, <1>10 DEF IInv, Durable, CheckpointedIsStored, DoneMeansIndexed

(* One more row becomes durable. *)
LEMMA WriteIInv == TypeOK /\ IInv /\ Write => IInv'
<1> SUFFICES ASSUME TypeOK, IInv, Write
             PROVE  IInv'
  OBVIOUS
<1>1. PICK i \in run.todo :
         /\ store' = [store EXCEPT ![run.stage] = @ \cup {i}]
         /\ run' = [run EXCEPT !.todo = @ \ {i}]
  BY DEF Write
<1>2. /\ run.step = "work" /\ run.stage \in Stages
      /\ UNCHANGED <<cfg, row, saved, ckpt>>
  BY DEF Write, TypeOK
<1>3. /\ run'.step = "work" /\ run'.stage = run.stage /\ run'.made = run.made
      /\ run'.todo = run.todo \ {i}
  BY <1>1, <1>2 DEF TypeOK
<1>4. /\ store'[run.stage] = store[run.stage] \cup {i}
      /\ \A s \in Stages \ {run.stage} : store'[s] = store[s]
  BY <1>1, <1>2 DEF TypeOK
<1>5. i \in run.made
  BY <1>2 DEF IInv, WorkOK
<1>6. WorkOK'
  BY <1>2, <1>3, <1>4 DEF IInv, WorkOK, Persisting, Stages
<1>7. Position'
  <2>1. run.stage # "parsing" => store'["parsing"] = store["parsing"]
    BY <1>4 DEF Stages
  <2>2. run.stage = "kg_building" =>
           store'["embedding"] = store["embedding"] /\ store'["chunking"] = store["chunking"]
    BY <1>4 DEF Stages
  <2>3. QED
    BY <1>2, <1>3, <2>1, <2>2 DEF IInv, Position, Wanted, Active
<1>8. Durable'
  BY <1>2, <1>4, <1>5 DEF IInv, WorkOK, Durable, Stages
<1>9. CheckpointedIsStored'
  BY <1>2, <1>4 DEF IInv, CheckpointedIsStored, Stages
<1>10. row'.status # "done"
  BY <1>2 DEF IInv, WorkOK, Stages
<1>11. QED
  BY <1>6, <1>7, <1>8, <1>9, <1>10 DEF IInv, DoneMeansIndexed

(* The stage completes: what it returned is stored, and now checkpointed.  *)
LEMMA SaveCheckpointIInv == TypeOK /\ IInv /\ SaveCheckpoint => IInv'
<1> SUFFICES ASSUME TypeOK, IInv, SaveCheckpoint
             PROVE  IInv'
  OBVIOUS
<1>1. /\ run.step = "work" /\ run.stage \in Stages /\ run.todo = {}
      /\ run' = After(run.stage)
      /\ saved' = saved \cup {run.stage}
      /\ UNCHANGED <<cfg, row, store>>
  BY DEF SaveCheckpoint, AllWritten, TypeOK
<1>2. /\ ckpt'[run.stage] = run.made
      /\ \A s \in Stages \ {run.stage} : ckpt'[s] = ckpt[s]
  BY <1>1 DEF SaveCheckpoint, TypeOK
<1>3. run.stage \in Persisting => run.made \subseteq store[run.stage]
  BY <1>1 DEF IInv, WorkOK
<1>4. run.stage = "embedding" => run.made = store["embedding"] /\ run.made = store["chunking"]
  BY <1>1, <1>3 DEF IInv, WorkOK, Durable, Persisting
<1>5. store["parsing"] = cfg.atoms
  BY <1>1, <1>3 DEF IInv, WorkOK, Position, Durable, Active, Persisting
<1>6. Position'
  <2>1. /\ run.stage \in Wanted /\ run.stage \in saved'
        /\ Wanted \cap Contract!Before(run.stage) \subseteq saved'
    BY <1>1 DEF IInv, Position
  <2>2. run.stage \in {"embedding", "kg_building"} =>
           store'["embedding"] = store'["chunking"]
    BY <1>1, <1>4 DEF IInv, Position, Active
  <2>3. QED
    BY <1>1, <1>5, <2>1, <2>2, AdvancePosition
<1>7. run'.step # "work"
  BY <1>1, AfterType DEF Enter, Finishing
<1>8. Durable'
  <2>1. run.stage = "chunking" => ckpt["embedding"] = {}
    BY <1>1 DEF IInv, WorkOK, Durable
  <2>2. run.stage = "chunking" => (run.made = {} <=> cfg.cut = 0)
    BY <1>1 DEF IInv, WorkOK
  <2>3. run.stage = "embedding" /\ run.made # {} => ckpt["chunking"] # {}
    <3>1. run.stage = "embedding" => "chunking" \in saved
      BY <1>1, BeforeEach, PersistingWanted DEF IInv, Position, Persisting
    <3>2. QED
      BY <1>4, <3>1 DEF IInv, Durable
  <2>4. \A s \in Stages : ckpt'[s] # {} => s \in saved'
    BY <1>1, <1>2 DEF IInv, Durable
  <2>5. ckpt'["embedding"] # {} =>
           ckpt'["chunking"] # {} /\ store'["embedding"] = store'["chunking"]
    BY <1>1, <1>2, <1>4, <2>1, <2>3 DEF IInv, Durable, Stages
  <2>6. "chunking" \in saved' /\ cfg'.cut # 0 => ckpt'["chunking"] # {}
    BY <1>1, <1>2, <2>2 DEF IInv, Durable, Stages
  <2>7. QED
    BY <1>1, <1>5, <2>4, <2>5, <2>6 DEF IInv, Durable
<1>9. CheckpointedIsStored'
  BY <1>1, <1>2, <1>3 DEF IInv, CheckpointedIsStored, Persisting, Stages
<1>10. row'.status # "done"
  BY <1>1 DEF IInv, WorkOK, Stages
<1>11. QED
  BY <1>6, <1>7, <1>8, <1>9, <1>10 DEF IInv, WorkOK, DoneMeansIndexed

(* The task is marked done: Position says what that is worth. *)
LEMMA FinishIInv == TypeOK /\ IInv /\ Finish => IInv'
<1> SUFFICES ASSUME TypeOK, IInv, Finish
             PROVE  IInv'
  OBVIOUS
<1>1. /\ run.step = "finish" /\ run'.step = "idle"
      /\ UNCHANGED <<cfg, saved, ckpt, store>>
  BY DEF Finish, Idle
<1>2. DoneMeansIndexed'
  <2>1. cfg.kg => "kg_building" \in Wanted
    BY DEF Wanted, Stages
  <2>2. QED
    BY <1>1, <2>1, PersistingWanted DEF IInv, Position, DoneMeansIndexed, Active, Persisting
<1>3. QED
  BY <1>1, <1>2 DEF IInv, WorkOK, Position, Durable, CheckpointedIsStored, Active

(* Giving up a stage, for a moment or for good, touches no table but the   *)
(* tasks row.                                                              *)
LEMMA LeaveStageIInv == TypeOK /\ IInv /\ (Retry \/ Fail \/ Interrupt) => IInv'
<1> SUFFICES ASSUME TypeOK, IInv, Retry \/ Fail \/ Interrupt
             PROVE  IInv'
  OBVIOUS
<1>1. UNCHANGED <<cfg, saved, ckpt, store>>
  BY DEF Retry, Fail, Interrupt
<1>2. CASE Retry
  <2>1. /\ run.step = "work" /\ run'.step = "check" /\ run'.stage = run.stage
        /\ row'.status = row.status
    BY <1>2 DEF Retry, Enter, TypeOK
  <2>2. Position'
    BY <1>1, <2>1 DEF IInv, Position, Wanted, Active
  <2>3. QED
    BY <1>1, <2>1, <2>2 DEF IInv, WorkOK, Durable, CheckpointedIsStored, DoneMeansIndexed
<1>3. CASE Fail \/ Interrupt
  <2>1. run'.step = "idle" /\ row'.status \in {row.status, "failed"}
    <3>1. CASE Fail
      BY <3>1 DEF Fail, Idle, TypeOK
    <3>2. CASE Interrupt
      BY <3>2 DEF Interrupt, Idle
    <3>3. QED
      BY <1>3, <3>1, <3>2
  <2>2. QED
    BY <1>1, <2>1
       DEF IInv, WorkOK, Position, Durable, CheckpointedIsStored, DoneMeansIndexed, Active
<1>4. QED
  BY <1>2, <1>3

(* IInv is an invariant: one lemma per action. *)
LEMMA Inductive == Spec => []IInv
<1>1. TypeOK /\ IInv /\ UNCHANGED vars => IInv'
  BY DEF vars, IInv, WorkOK, Position, Durable, CheckpointedIsStored, DoneMeansIndexed,
         Active, Wanted
<1>2. TypeOK /\ IInv /\ [Next]_vars => IInv'
  BY <1>1, StartIInv, SkipIInv, BeginIInv, WriteIInv, SaveCheckpointIInv, FinishIInv,
     LeaveStageIInv DEF Next, Progress
<1>3. QED
  BY <1>2, InitIInv, TypeCorrect, PTL DEF Spec
-------------------------------------------------------------------------------
(* Nothing a checkpoint lists is missing from the stores, however runs are *)
(* interrupted and replayed.                                               *)
THEOREM CheckpointsAreBacked == Spec => []CheckpointedIsStored
BY Inductive, PTL DEF IInv

(* A task whose row says done has its atoms stored, every chunk row of its *)
(* document embedded and no wanted stage left out.                         *)
THEOREM DoneIsIndexed == Spec => []DoneMeansIndexed
BY Inductive, PTL DEF IInv

(* Once a stage has a checkpoint that run_stage skips for, neither the     *)
(* checkpoint nor the rows of the stage ever change again.                 *)
THEOREM FrozenStages == Spec => CompletedStageIsFrozen
<1> DEFINE Frozen == \A s \in Stages :
                        ckpt[s] # {} => ckpt'[s] = ckpt[s] /\ store'[s] = store[s]
<1>1. TypeOK /\ IInv /\ [Next]_vars => [Frozen]_vars
  <2> SUFFICES ASSUME TypeOK, IInv, [Next]_vars
               PROVE  Frozen
    OBVIOUS
  <2>1. CASE Write \/ SaveCheckpoint
    <3>1. run.step = "work" /\ run.stage \in Stages
      BY <2>1 DEF Write, SaveCheckpoint, TypeOK
    <3>2. ckpt[run.stage] = {}
      BY <3>1 DEF IInv, WorkOK
    <3>3. \A s \in Stages \ {run.stage} : ckpt'[s] = ckpt[s] /\ store'[s] = store[s]
      BY <2>1 DEF Write, SaveCheckpoint, TypeOK
    <3>4. QED
      BY <3>2, <3>3
  <2>2. CASE Start \/ Skip \/ Begin \/ Finish \/ Retry \/ Fail \/ Interrupt \/ UNCHANGED vars
    BY <2>2 DEF Start, Skip, Begin, Finish, Retry, Fail, Interrupt, vars
  <2>3. QED
    BY <2>1, <2>2 DEF Next, Progress
<1>2. QED
  BY <1>1, Inductive, TypeCorrect, PTL DEF Spec, CompletedStageIsFrozen
-------------------------------------------------------------------------------
(* How far a run has come: the stage it is at, the last one's end. *)
Reached(at) ==
    IF at.step = "finish" THEN 5
    ELSE CASE at.stage = "parsing" -> 0 [] at.stage = "processing" -> 1
           [] at.stage = "chunking" -> 2 [] at.stage = "embedding" -> 3
           [] OTHER -> 4

(* run_stage calls itself for every retry, and a run goes through the      *)
(* stages of the runs before it again: each step still ends the run, takes *)
(* it to a later stage, spends one of the attempts that are left, or       *)
(* leaves the stage less to do.                                            *)
RunAdvances ==
    [][Active =>
        \/ ~Active'
        \/ Reached(run) < Reached(run')
        \/ /\ Reached(run) = Reached(run')
           /\ \/ row.attempts < row'.attempts /\ row'.attempts < MaxAttempts
              \/ /\ row.attempts = row'.attempts
                 /\ run'.step = "work"
                 /\ \/ run.step = "check"
                    \/ /\ run.step = "work" /\ IsFiniteSet(run.todo)
                       /\ Cardinality(run'.todo) < Cardinality(run.todo)]_vars

(* What a stage has to write, and what stages have written, is finite. *)
Finite == IsFiniteSet(run.todo) /\ \A s \in Stages : IsFiniteSet(store[s])

(* What a stage returns is finite, and what it writes is part of that. *)
LEMMA ProducedFinite ==
    ASSUME TypeOK, Finite, NEW s \in Stages, NEW todo \in MayWrite(s, Produced(s))
    PROVE  IsFiniteSet(todo)
<1>1. IsFiniteSet(Produced(s))
  <2>1. CASE s = "parsing"
    <3>1. IsFiniteSet(cfg.atoms)
      BY ConstantsAssumption DEF TypeOK, Config
    <3> QED
      BY <2>1, <3>1 DEF Produced
  <2>2. CASE s = "processing"
    <3>1. Described \subseteq store["parsing"]
      BY FS_EmptySet DEF Described
    <3>2. IsFiniteSet(store["parsing"])
      BY DEF Finite, Stages
    <3> QED
      BY <2>2, <3>1, <3>2, FS_Subset DEF Produced
  <2>3. CASE s = "chunking"
    <3>1. issued + 1 \in Int /\ issued + cfg.cut \in Int
      BY ConfigFields DEF TypeOK
    <3>2. IsFiniteSet(Fresh)
      BY <3>1, FS_Interval DEF Fresh
    <3> QED
      BY <2>3, <3>2 DEF Produced
  <2>4. CASE s \notin {"parsing", "processing", "chunking"}
    BY <2>4 DEF Produced, Finite, Stages
  <2> QED
    BY <2>1, <2>2, <2>3, <2>4
<1> QED
  BY <1>1, ProducedType, FS_Subset

LEMMA FiniteStep == TypeOK /\ Finite /\ [Next]_vars => Finite'
<1> SUFFICES ASSUME TypeOK, Finite, [Next]_vars PROVE Finite'
  OBVIOUS
<1>0. IsFiniteSet({})
  BY FS_EmptySet
<1>1. CASE Begin
  <2>1. PICK todo \in MayWrite(run.stage, Produced(run.stage)) :
            run' = [step |-> "work", stage |-> run.stage, todo |-> todo,
                    made |-> Produced(run.stage)]
    BY <1>1 DEF Begin
  <2>2. IsFiniteSet(todo)
    BY <2>1, ProducedFinite DEF TypeOK
  <2>3. store' = store
    BY <1>1 DEF Begin
  <2> QED
    BY <2>1, <2>2, <2>3 DEF Finite
<1>2. CASE Write
  <2>1. PICK i \in run.todo : /\ store' = [store EXCEPT ![run.stage] = @ \cup {i}]
                             /\ run' = [run EXCEPT !.todo = @ \ {i}]
    BY <1>2 DEF Write
  <2>2. IsFiniteSet(store[run.stage] \cup {i}) /\ IsFiniteSet(run.todo \ {i})
    BY FS_AddElement, FS_RemoveElement DEF Finite, TypeOK
  <2>3. run'.todo = run.todo \ {i}
    BY <2>1 DEF TypeOK
  <2>4. \A s \in Stages : IsFiniteSet(store'[s])
    BY <2>1, <2>2 DEF Finite, TypeOK
  <2> QED
    BY <2>2, <2>3, <2>4 DEF Finite
<1>3. CASE Skip \/ SaveCheckpoint
  <2>1. run' = After(run.stage) /\ store' = store /\ run.stage \in Stages
    BY <1>3 DEF Skip, SaveCheckpoint, TypeOK
  <2>2. run'.todo = {}
    BY <2>1, AfterType DEF Enter, Finishing
  <2> QED
    BY <1>0, <2>1, <2>2 DEF Finite
<1>4. CASE Start \/ Finish \/ Retry \/ Fail \/ Interrupt
  <2>1. store' = store /\ run'.todo = {}
    BY <1>4 DEF Start, Finish, Retry, Fail, Interrupt, Enter, Idle
  <2> QED
    BY <1>0, <2>1 DEF Finite
<1>5. CASE UNCHANGED vars
  BY <1>5 DEF vars, Finite
<1> QED
  BY <1>1, <1>2, <1>3, <1>4, <1>5 DEF Next, Progress

(* The stage a run goes to is a later one. *)
LEMMA AfterIsLater ==
    ASSUME NEW at, at.step \in {"check", "work"}, at.stage \in Stages
    PROVE  Reached(at) < Reached(After(at.stage))
<1>1. CASE at.stage = "parsing"
  BY <1>1 DEF Reached, After, Enter
<1>2. CASE at.stage = "processing"
  BY <1>2 DEF Reached, After, Enter
<1>3. CASE at.stage = "chunking"
  BY <1>3 DEF Reached, After, Enter
<1>4. CASE at.stage = "embedding"
  BY <1>4 DEF Reached, After, Enter, Finishing
<1>5. CASE at.stage = "kg_building"
  BY <1>5 DEF Reached, After, Finishing
<1> QED
  BY <1>1, <1>2, <1>3, <1>4, <1>5 DEF Stages

(* Each step of a run brings it nearer to its end, whatever stages fail or *)
(* are retried: no run goes back to an earlier stage or spends more        *)
(* attempts than it has.                                                   *)
THEOREM RunsComeToTheirEnd == Spec => RunAdvances
<1> DEFINE Nearer ==
        \/ ~Active'
        \/ Reached(run) < Reached(run')
        \/ /\ Reached(run) = Reached(run')
           /\ \/ row.attempts < row'.attempts /\ row'.attempts < MaxAttempts
              \/ /\ row.attempts = row'.attempts
                 /\ run'.step = "work"
                 /\ \/ run.step = "check"
                    \/ /\ run.step = "work" /\ IsFiniteSet(run.todo)
                       /\ Cardinality(run'.todo) < Cardinality(run.todo)
<1>1. Init => Finite
  BY FS_EmptySet DEF Init, Finite, Idle
<1>2. TypeOK /\ Finite /\ [Next]_vars => [Active => Nearer]_vars
  <2> SUFFICES ASSUME TypeOK, Finite, Next, Active PROVE Nearer
    OBVIOUS
  <2>1. CASE Skip \/ SaveCheckpoint
    <3>1. run.step \in {"check", "work"} /\ run.stage \in Stages /\ run' = After(run.stage)
      BY <2>1 DEF Skip, SaveCheckpoint, TypeOK
    <3> QED
      BY <3>1, AfterIsLater
  <2>2. CASE Begin
    <3>1. run.step = "check" /\ run'.step = "work" /\ run'.stage = run.stage
      BY <2>2 DEF Begin
    <3>2. row'.attempts = row.attempts
      BY <2>2 DEF Begin, TypeOK
    <3>3. Reached(run) = Reached(run')
      BY <3>1 DEF Reached
    <3> QED
      BY <3>1, <3>2, <3>3
  <2>3. CASE Write
    <3>1. PICK i \in run.todo : run' = [run EXCEPT !.todo = @ \ {i}]
      BY <2>3 DEF Write
    <3>2. /\ run.step = "work" /\ run'.step = "work" /\ run'.stage = run.stage
          /\ run'.todo = run.todo \ {i} /\ row' = row
      BY <2>3, <3>1 DEF Write, TypeOK
    <3>3. IsFiniteSet(run.todo) /\ Cardinality(run'.todo) < Cardinality(run.todo)
      <4>1. IsFiniteSet(run.todo)
        BY DEF Finite
      <4>2. Cardinality(run.todo) \in Nat
        BY <4>1, FS_CardinalityType
      <4>3. Cardinality(run.todo \ {i}) = Cardinality(run.todo) - 1
        BY <4>1, FS_RemoveElement
      <4> QED
        BY <3>2, <4>1, <4>2, <4>3
    <3>4. Reached(run) = Reached(run')
      BY <3>2 DEF Reached
    <3> QED
      BY <3>2, <3>3, <3>4
  <2>4. CASE Retry
    <3>1. run.step = "work" /\ run' = Enter(run.stage)
      BY <2>4 DEF Retry
    <3>2. Reached(run) = Reached(run')
      BY <3>1 DEF Reached, Enter
    <3>3. row'.attempts = row.attempts + 1 /\ row.attempts + 1 < MaxAttempts
      BY <2>4 DEF Retry, BudgetLeft, CountAttempt, TypeOK
    <3>4. row.attempts \in Nat
      BY DEF TypeOK
    <3> QED
      BY <3>2, <3>3, <3>4
  <2>5. CASE Start \/ Finish \/ Fail \/ Interrupt
    BY <2>5 DEF Start, Finish, Fail, Interrupt, Active, Idle
  <2> QED
    BY <2>1, <2>2, <2>3, <2>4, <2>5 DEF Next, Progress
<1> QED
  BY <1>1, <1>2, FiniteStep, TypeCorrect, PTL DEF Spec, RunAdvances
-------------------------------------------------------------------------------
(* Phase follows the tasks row alone. *)
LEMMA PhaseOf ==
    /\ row.status \in Stages => Phase = "active"
    /\ row.status \in {"pending", "done", "failed"} => Phase = row.status
BY DEF Phase, Stages

(* A task starts as the contract's tasks do. *)
LEMMA InitContract == Init => Contract!ContractInit
<1> SUFFICES ASSUME Init
             PROVE  Contract!ContractInit
  OBVIOUS
<1>1. Phase = "pending"
  BY PhaseOf DEF Init
<1>2. Wanted \subseteq Contract!Stages
  BY DEF Wanted, Stages, Contract!Stages, Contract!Rank
<1>3. QED
  BY <1>1, <1>2, PersistingWanted DEF Init, Contract!ContractInit, Persisting

(* Every step of the pipeline is a step of the contract, or invisible to   *)
(* the task's poller.                                                      *)
LEMMA StepContract ==
    TypeOK /\ IInv /\ [Next]_vars => [Contract!ContractNext]_(Contract!contractVars)
<1> SUFFICES ASSUME TypeOK, IInv, [Next]_vars
             PROVE  \/ Contract!ContractNext
                    \/ UNCHANGED <<Phase, saved, Wanted>>
  BY DEF Contract!contractVars
<1>1. CASE Start \/ Skip \/ Write \/ Interrupt \/ UNCHANGED vars
  BY <1>1 DEF Start, Skip, Write, Interrupt, vars, Phase, Wanted
<1>2. CASE Begin
  <2>1. row'.status \in Stages
    BY <1>2 DEF Begin, TypeOK
  <2>2. Phase' = "active"
    BY <2>1 DEF Phase, Stages
  <2>3. Wanted' = Wanted /\ saved' = saved
    BY <1>2 DEF Begin, Wanted
  <2>4. QED
    BY <2>2, <2>3 DEF Contract!ContractNext, Contract!Attempt
<1>3. CASE SaveCheckpoint
  <2>1. run.step = "work" /\ run.stage \in Stages
    BY <1>3 DEF SaveCheckpoint, TypeOK
  <2>2. Phase = "active" /\ Phase' = Phase /\ Wanted' = Wanted
    BY <1>3, <2>1, PhaseOf DEF SaveCheckpoint, IInv, WorkOK, Phase, Wanted
  <2>3. /\ run.stage \in Wanted
        /\ Wanted \cap Contract!Before(run.stage) \subseteq saved
        /\ saved' = saved \cup {run.stage}
    BY <1>3, <2>1 DEF SaveCheckpoint, IInv, Position
  <2>4. run.stage \in Contract!Stages
    BY <2>1 DEF Stages, Contract!Stages, Contract!Rank
  <2>5. Contract!CompleteStage(run.stage)
    BY <2>2, <2>3 DEF Contract!CompleteStage
  <2>6. QED
    BY <2>4, <2>5 DEF Contract!ContractNext
<1>4. CASE Finish
  <2>1. Phase' = "done"
    BY <1>4 DEF Finish, Phase, TypeOK
  <2>2. Wanted \subseteq saved /\ Wanted' = Wanted /\ saved' = saved
    BY <1>4 DEF Finish, IInv, Position, Wanted
  <2>3. QED
    BY <2>1, <2>2 DEF Contract!ContractNext, Contract!Succeed
<1>5. CASE Retry
  <2>1. row'.status = row.status
    BY <1>5 DEF Retry, TypeOK
  <2>2. QED
    BY <1>5, <2>1 DEF Retry, Phase, Wanted
<1>6. CASE Fail
  <2>1. Phase = "active"
    BY <1>6, PhaseOf DEF Fail, IInv, WorkOK, TypeOK
  <2>2. row'.status = "failed"
    BY <1>6 DEF Fail, TypeOK
  <2>3. Phase' = "failed" /\ Wanted' = Wanted /\ saved' = saved
    BY <1>6, <2>2 DEF Fail, Phase, Wanted
  <2>4. QED
    BY <2>1, <2>3 DEF Contract!ContractNext, Contract!GiveUp
<1>7. QED
  BY <1>1, <1>2, <1>3, <1>4, <1>5, <1>6 DEF Next, Progress

(* The pipeline implements the contract its pollers rely on: stages        *)
(* complete in order, what is complete stays complete, and done is said    *)
(* only when everything asked for is.                                      *)
THEOREM Refinement == Spec => ImplementsContract
BY InitContract, StepContract, Inductive, TypeCorrect, PTL
   DEF Spec, ImplementsContract, Contract!ContractSpec
===============================================================================
