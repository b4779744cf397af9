-------------------------- MODULE IngestSystemProofs --------------------------
(***************************************************************************)
(* Proofs about IngestSystem for every set of processes, knowledge bases   *)
(* and uploads, every deployment, MaxLen and MaxCrashes.                   *)
(*                                                                         *)
(* Four invariants, each inductive on top of the ones before it: what the  *)
(* requests have left in the documents table (SubmitInv), where the queues *)
(* keep a task and how often it was handed out (QueueInv), what the tasks  *)
(* row says of an acknowledged task (TaskInv), and how many turns a        *)
(* knowledge base still has to wait (TurnInv).                             *)
(***************************************************************************)
EXTENDS IngestSystem, FiniteSetTheorems, SequenceTheorems, TLAPS

SubmitSteps == {"new"} \cup InFlight \cup Over

SubmitType ==
    /\ deploy \in Deployment
    /\ docs \in [Proc -> SUBSET Upload]
    /\ up \in [Upload -> SubmitSteps]
    /\ at \in [Upload -> Proc] /\ \A u \in Upload : at[u] \in deploy.api
    /\ before \in [Upload -> SUBSET Upload]
    /\ crashes \in Nat

(* A documents row is where its request puts it. *)
Filed ==
    \A d \in Proc : \A u \in docs[d] :
        d = Db(at[u]) /\ up[u] \notin {"new", "checked", "rejected"}

(* Requests that were over stay over, and one that passed the check has    *)
(* none of them in its table.                                              *)
Earlier ==
    \A u \in Upload :
        /\ \A v \in before[u] : up[v] \in Over
        /\ up[u] \notin {"new", "rejected"} => before[u] \cap docs[Db(at[u])] = {}

SubmitInv == SubmitType /\ Filed /\ Earlier /\ RejectedOnlyForATwin
-------------------------------------------------------------------------------
WorkSteps == {"none", "called", "running", "returned", "raised", "lost"}

QueueType ==
    /\ queues \in [KB -> Seq(Upload)] /\ order \in Seq(KB) /\ rest \in Seq(KB)
    /\ log \in [KB -> Seq(Upload)] /\ trimmed \in [KB -> Nat] /\ cursor \in [KB -> Nat]
    /\ delivered \in [Upload -> Nat]
    /\ readers \in [Proc -> SUBSET KB] /\ known \in [Proc -> SUBSET KB]
    /\ handling \in [Proc -> [KB -> Upload \cup {NoTask}]]
    /\ calls \in [Upload -> Nat] /\ work \in [Upload -> WorkSteps]

OneDriver ==
    /\ InMemory => \A k \in KB : log[k] = <<>>
    /\ InRedis => \A k \in KB : queues[k] = <<>>

(* The tasks of a sequence are accepted ones of that knowledge base, each  *)
(* of them once.                                                           *)
Entries(k, seq) ==
    /\ \A i \in 1..Len(seq) : KbOf[seq[i]] = k /\ up[seq[i]] = "accepted"
    /\ \A i, j \in 1..Len(seq) : seq[i] = seq[j] => i = j

Queued ==
    \A k \in KB :
        /\ Entries(k, queues[k])
        /\ \A i \in 1..Len(queues[k]) : calls[queues[k][i]] = 0

(* Behind the group's position nothing was handed out; what lies before it *)
(* was, or Redis had dropped it.                                           *)
Passed(k, i) ==
    \/ log[k][i] \in pel \cup acked
    \/ delivered[log[k][i]] = 0 /\ i <= trimmed[k]

Streamed ==
    \A k \in KB :
        /\ Entries(k, log[k])
        /\ trimmed[k] <= Len(log[k]) /\ cursor[k] <= Len(log[k])
        /\ \A i \in 1..Len(log[k]) :
              /\ i > Redis!Position(k) => calls[log[k][i]] = 0 /\ delivered[log[k][i]] = 0
              /\ i <= Redis!Position(k) => Passed(k, i)

(* A task's one call. *)
CalledOnce ==
    \A u \in Upload :
        /\ calls[u] \in {0, 1} /\ delivered[u] <= calls[u]
        /\ work[u] = "none" <=> calls[u] = 0
        /\ calls[u] > 0 => up[u] = "accepted"

(* Who holds a task was called with it, and consumes. *)
Handled ==
    /\ consuming \subseteq deploy.consumers
    /\ current # NoTask => current \in Upload /\ calls[current] > 0
    /\ acked \subseteq Upload /\ \A t \in acked : calls[t] > 0
    /\ \A p \in Proc :
        /\ readers[p] # {} => p \in consuming
        /\ \A k \in KB : handling[p][k] # NoTask =>
              p \in consuming /\ calls[handling[p][k]] > 0

(* Where an accepted task is. *)
Kept ==
    \A u \in Upload : up[u] = "accepted" =>
        /\ InRedis => \E i \in 1..Len(log[KbOf[u]]) : log[KbOf[u]][i] = u
        /\ InMemory => \/ \E i \in 1..Len(queues[KbOf[u]]) : queues[KbOf[u]][i] = u
                       \/ calls[u] > 0
                       \/ crashes > 0

QueueInv == QueueType /\ OneDriver /\ Queued /\ Streamed /\ CalledOnce /\ Handled /\ Kept
-------------------------------------------------------------------------------
TaskType == tasks \in [Proc -> [Upload -> {"none", "pending", "active", "done", "failed"}]]

(* One table for everyone, that has not been lost. *)
OneTable == InRedis /\ Shared /\ (deploy.durable \/ crashes = 0)

(* What the row says of a task, in whichever process. *)
Recorded ==
    OneTable => \A p \in Proc, t \in Upload : Live(p) =>
        /\ up[t] \in {"task_saved", "accepted"} => tasks[Db(p)][t] # "none"
        /\ work[t] = "returned" \/ t \in acked => tasks[Db(p)][t] = "done"
        /\ t \in acked => work[t] \in {"returned", "lost"}

TaskInv == TaskType /\ Recorded
-------------------------------------------------------------------------------
Distinct(seq) == \A i, j \in 1..Len(seq) : seq[i] = seq[j] => i = j

Bound == 2 * (Cardinality(KB) - 1)

(* A pass is a part of the order, and every queue with a task has its      *)
(* place in it.                                                            *)
Passes ==
    /\ Distinct(order) /\ Distinct(rest)
    /\ Len(rest) <= Len(order) /\ (order # <<>> => Len(rest) < Len(order))
    /\ current = NoTask => rest = <<>>
    /\ \A k \in KB : queues[k] # <<>> => \E j \in 1..Len(order) : order[j] = k

(* The turns k may still have to wait: to its place in this pass, or, if   *)
(* this pass is past it, to the end of the pass and its place in the next. *)
Waits ==
    /\ overtaken \in [KB -> Nat]
    /\ \A k \in KB :
        /\ queues[k] = <<>> => overtaken[k] = 0
        /\ \A j \in 1..Len(order) : queues[k] # <<>> /\ order[j] = k =>
            /\ \A i \in 1..Len(rest) : rest[i] = k => overtaken[k] + i - 1 <= Bound
            /\ (\A i \in 1..Len(rest) : rest[i] # k) =>
                  overtaken[k] + Len(rest) + j - 1 <= Bound

TurnInv == Passes /\ Waits
-------------------------------------------------------------------------------

LEMMA SubmitInitially == Init => SubmitInv
<1> SUFFICES ASSUME Init PROVE SubmitInv
  OBVIOUS
<1>1. deploy \in Deployment /\ crashes = 0
  BY SystemAssumption DEF Init
<1>2. at \in [Upload -> Proc] /\ \A u \in Upload : at[u] \in deploy.api
  BY <1>1 DEF Init, Deployment
<1>3. SubmitType
  BY <1>1, <1>2 DEF Init, SubmitType, SubmitSteps
<1>4. Filed /\ RejectedOnlyForATwin
  BY DEF Init, Filed, RejectedOnlyForATwin
<1>5. Earlier
  BY DEF Init, Earlier
<1> QED
  BY <1>3, <1>4, <1>5 DEF SubmitInv

LEMMA SubmitUnchanged ==
    SubmitInv /\ UNCHANGED <<deploy, submitVars, crashes>> => SubmitInv'
<1> SUFFICES ASSUME SubmitInv, UNCHANGED <<deploy, submitVars, crashes>> PROVE SubmitInv'
  OBVIOUS
<1> USE DEF SubmitInv, submitVars
<1>1. SubmitType'
  BY DEF SubmitType
<1>2. Filed' /\ Earlier'
  BY DEF Filed, Earlier, Db
<1>3. RejectedOnlyForATwin'
  BY DEF RejectedOnlyForATwin, Key
<1> QED
  BY <1>1, <1>2, <1>3

(* A request moves on after its check: only its own step changes. *)
LEMMA SubmitMovesOn ==
    ASSUME SubmitInv, UNCHANGED <<deploy, docs, at, before, crashes>>,
           NEW u \in Upload, NEW next \in {"task_saved", "accepted", "error"},
           up[u] \in {"doc_saved", "task_saved"}, up' = [up EXCEPT ![u] = next]
    PROVE  SubmitInv'
<1> USE DEF SubmitInv
<1>1. SubmitType'
  BY DEF SubmitType, SubmitSteps, InFlight, Over
<1>2. \A v \in Upload : /\ up'[v] \in {"new", "checked", "rejected"} <=>
                                up[v] \in {"new", "checked", "rejected"}
                        /\ up[v] \in Over => up'[v] \in Over
                        /\ up'[v] \in {"new", "rejected"} <=> up[v] \in {"new", "rejected"}
                        /\ up'[v] = "rejected" => up[v] = "rejected"
  BY DEF SubmitType, Over
<1>3. Filed'
  BY <1>2 DEF Filed, Db, SubmitType
<1>4. Earlier'
  BY <1>2 DEF Earlier, Db, SubmitType
<1>5. RejectedOnlyForATwin'
  BY <1>2 DEF RejectedOnlyForATwin, Key
<1> QED
  BY <1>1, <1>3, <1>4, <1>5

LEMMA CheckKeeps ==
    ASSUME SubmitInv, NEW u \in Upload, Check(u)
    PROVE  SubmitInv'
<1> USE DEF SubmitInv
<1> DEFINE earlier == {v \in Upload : Key(v) = Key(u) /\ up[v] \in Over}
           twin == \E v \in docs[Db(at[u])] : Twin(u, v)
           next == IF twin THEN "rejected" ELSE "checked"
<1>1. /\ up[u] = "new" /\ up' = [up EXCEPT ![u] = next]
      /\ before' = [before EXCEPT ![u] = earlier]
      /\ UNCHANGED <<deploy, docs, at, crashes>>
  BY DEF Check
<1>2. Db(at[u]) \in Proc /\ docs[Db(at[u])] \subseteq Upload
  BY DEF SubmitType, Db, Deployment
<1>3. \A v \in docs[Db(at[u])] : v # u /\ (Twin(u, v) <=> Key(v) = Key(u))
  BY <1>1, <1>2 DEF Filed, Twin, Key
<1>4. ~twin => earlier \cap docs[Db(at[u])] = {}
  BY <1>3
<1>5. twin => \E v \in Upload \ {u} : Key(v) = Key(u) /\ up[v] \notin {"new", "checked", "rejected"}
  BY <1>2, <1>3 DEF Filed
<1>6. next \in {"rejected", "checked"} /\ (next = "checked" => ~twin) /\ (next = "rejected" => twin)
  OBVIOUS
<1>7. earlier \subseteq Upload /\ \A v \in earlier : up[v] \in Over
  OBVIOUS
<1> HIDE DEF earlier, twin, next
<1>8. SubmitType'
  BY <1>1, <1>6, <1>7 DEF SubmitType, SubmitSteps, InFlight, Over
<1>9. up'[u] = next /\ \A v \in Upload \ {u} : up'[v] = up[v] /\ before'[v] = before[v]
  BY <1>1 DEF SubmitType
<1>10. Filed'
  BY <1>1, <1>9 DEF Filed, Db, SubmitType
<1>11. \A v \in Upload : up[v] \in Over => up'[v] \in Over
  BY <1>1, <1>9 DEF Over
<1>12. ASSUME NEW w \in Upload
       PROVE  /\ \A v \in before'[w] : up'[v] \in Over
              /\ up'[w] \notin {"new", "rejected"} => before'[w] \cap docs'[Db(at[w])'] = {}
  <2>1. CASE w = u
    BY <1>1, <1>4, <1>6, <1>7, <1>9, <1>11, <2>1 DEF SubmitType, Db
  <2>2. CASE w # u
    BY <1>1, <1>9, <1>11, <2>2 DEF SubmitType, Earlier, Db
  <2> QED
    BY <2>1, <2>2
<1>13. Earlier'
  BY <1>12 DEF Earlier
<1>14. RejectedOnlyForATwin'
  BY <1>1, <1>5, <1>6, <1>9 DEF RejectedOnlyForATwin, Key
<1> QED
  BY <1>8, <1>10, <1>13, <1>14

LEMMA SaveDocKeeps ==
    ASSUME SubmitInv, NEW u \in Upload, SaveDoc(u)
    PROVE  SubmitInv'
<1> USE DEF SubmitInv
<1>1. /\ up[u] = "checked" /\ up' = [up EXCEPT ![u] = "doc_saved"]
      /\ docs' = [docs EXCEPT ![Db(at[u])] = @ \cup {u}]
      /\ UNCHANGED <<deploy, at, before, crashes>>
  BY DEF SaveDoc
<1>2. Db(at[u]) \in Proc
  BY DEF SubmitType, Db, Deployment
<1>3. SubmitType'
  BY <1>1, <1>2 DEF SubmitType, SubmitSteps, InFlight
<1>4. up'[u] = "doc_saved" /\ \A v \in Upload \ {u} : up'[v] = up[v]
  BY <1>1 DEF SubmitType
<1>5. \A d \in Proc : docs'[d] = IF d = Db(at[u]) THEN docs[d] \cup {u} ELSE docs[d]
  BY <1>1, <1>2 DEF SubmitType
<1>6. Filed'
  BY <1>1, <1>4, <1>5 DEF Filed, Db, SubmitType
<1>7. \A w \in Upload : u \notin before[w] /\ \A v \in before[w] : up'[v] = up[v]
  BY <1>1, <1>4 DEF Earlier, Over, SubmitType
<1>8. \A w \in Upload : Db(at[w]) \in Proc
  BY DEF SubmitType, Db, Deployment
<1>9. ASSUME NEW w \in Upload
      PROVE  /\ \A v \in before[w] : up'[v] \in Over
             /\ up'[w] \notin {"new", "rejected"} => before[w] \cap docs'[Db(at[w])] = {}
  <2>1. up'[w] \notin {"new", "rejected"} => before[w] \cap docs[Db(at[w])] = {}
    BY <1>1, <1>4 DEF Earlier
  <2> QED
    BY <1>5, <1>7, <1>8, <2>1 DEF Earlier
<1>10. Earlier'
  BY <1>1, <1>9 DEF Earlier, Db
<1>11. RejectedOnlyForATwin'
  BY <1>1, <1>4 DEF RejectedOnlyForATwin, Key
<1> QED
  BY <1>3, <1>6, <1>10, <1>11

LEMMA CrashKeepsSubmit ==
    ASSUME SubmitInv, NEW p \in Proc, Crash(p)
    PROVE  SubmitInv'
<1> USE DEF SubmitInv
<1>1. /\ up' = [u \in Upload |-> IF at[u] = p /\ up[u] \in InFlight THEN "lost" ELSE up[u]]
      /\ crashes' = crashes + 1
      /\ UNCHANGED <<deploy, at, before>>
      /\ docs' = docs \/ docs' = [docs EXCEPT ![Db(p)] = {}]
  BY DEF Crash
<1>2. docs' \in [Proc -> SUBSET Upload] /\ \A d \in Proc : docs'[d] \subseteq docs[d]
  BY <1>1 DEF SubmitType
<1>3. up' \in [Upload -> SubmitSteps]
  BY <1>1 DEF SubmitType, SubmitSteps, Over
<1>4. SubmitType'
  BY <1>1, <1>2, <1>3 DEF SubmitType
<1>5. \A v \in Upload : /\ up[v] \notin {"new", "checked", "rejected"} =>
                                up'[v] \notin {"new", "checked", "rejected"}
                        /\ up[v] \in Over => up'[v] \in Over
                        /\ up[v] \in {"new", "rejected"} => up'[v] = up[v]
                        /\ up'[v] = "rejected" => up[v] = "rejected"
  BY <1>1 DEF Over, InFlight
<1>6. Filed'
  BY <1>1, <1>2, <1>5 DEF Filed, Db, SubmitType
<1>7. \A w \in Upload : Db(at[w]) \in Proc
  BY DEF SubmitType, Db, Deployment
<1>8. Earlier'
  BY <1>1, <1>2, <1>5, <1>7 DEF Earlier, Db, SubmitType
<1>9. RejectedOnlyForATwin'
  BY <1>1, <1>5 DEF RejectedOnlyForATwin, Key
<1> QED
  BY <1>4, <1>6, <1>8, <1>9

(* What is not a step of a request, nor a crash, leaves the requests alone.*)
LEMMA OthersLeaveRequests ==
    ASSUME Consumer \/ (\E p \in Proc : StartConsuming(p))
               \/ (\E p \in Proc, k \in KB : RedisDiscover(p, k)) \/ UNCHANGED vars
    PROVE  UNCHANGED <<deploy, submitVars, crashes>>
BY DEF Consumer, StartConsuming, RedisDiscover, MemWake, MemTaskDone, RedisRead, RedisAck,
   RedisLeavePending, LookUp, RunSucceeds, RunFails, vars

LEMMA SubmitStep == SubmitInv /\ [Next]_vars => SubmitInv'
<1> SUFFICES ASSUME SubmitInv, [Next]_vars PROVE SubmitInv'
  OBVIOUS
<1>1. ASSUME NEW u \in Upload, Submit(u)
      PROVE  SubmitInv'
  <2>1. CASE SaveTask(u)
    BY <2>1, SubmitMovesOn DEF SaveTask
  <2>2. CASE Enqueue(u)
    BY <2>2, SubmitMovesOn DEF Enqueue
  <2>3. CASE EnqueueFails(u)
    BY <2>3, SubmitMovesOn DEF EnqueueFails
  <2> QED
    BY <1>1, <2>1, <2>2, <2>3, CheckKeeps, SaveDocKeeps DEF Submit
<1>2. CASE \E p \in Proc : Crash(p)
  BY <1>2, CrashKeepsSubmit
<1> QED
  BY <1>1, <1>2, OthersLeaveRequests, SubmitUnchanged DEF Next

LEMMA SubmitInvariant == Spec => []SubmitInv
BY SubmitInitially, SubmitStep, PTL DEF Spec

(* submit_ingest turns an upload away only for a request of the same       *)
(* knowledge base and content that is stored or under way, whichever       *)
(* requests interleave and whichever processes die.                        *)
THEOREM RejectionsHaveATwin == Spec => []RejectedOnlyForATwin
<1>1. SubmitInv => RejectedOnlyForATwin
  BY DEF SubmitInv
<1> QED
  BY <1>1, SubmitInvariant, PTL

(* Two uploads of the same content that do not overlap are never both      *)
(* stored by submit_ingest, although its check and its INSERT are separate *)
(* steps.                                                                  *)
THEOREM SequentialUploads == Spec => []SequentialUploadsAreDeduplicated
<1>1. SubmitInv => SequentialUploadsAreDeduplicated
  BY DEF SubmitInv, SubmitType, Filed, Earlier, SequentialUploadsAreDeduplicated
<1> QED
  BY <1>1, SubmitInvariant, PTL
-------------------------------------------------------------------------------
LEMMA QueueInitially == Init => QueueInv
<1> SUFFICES ASSUME Init PROVE QueueInv
  OBVIOUS
<1> USE DEF Init, Mem!Empty, Redis!NoStreams
<1>1. QueueType
  BY DEF QueueType, WorkSteps
<1>2. OneDriver
  BY DEF OneDriver
<1>3. Queued /\ Streamed
  <2>1. \A k \in KB : Entries(k, queues[k]) /\ Entries(k, log[k])
    BY DEF Entries
  <2>2. \A k \in KB : Len(queues[k]) = 0 /\ Len(log[k]) = 0
    OBVIOUS
  <2> QED
    BY <2>1, <2>2 DEF Queued, Streamed
<1>4. CalledOnce
  BY DEF CalledOnce
<1>5. Handled
  BY DEF Handled
<1>6. Kept
  BY DEF Kept
<1> QED
  BY <1>1, <1>2, <1>3, <1>4, <1>5, <1>6 DEF QueueInv

(* Steps that hand out no task and add none: what is queued is as before,  *)
(* or lost with its process.                                               *)
LEMMA NothingMoves ==
    ASSUME QueueInv, QueueType', Handled',
           UNCHANGED <<deploy, log, trimmed, cursor, delivered, calls>>,
           queues' = queues \/ (queues' = [k \in KB |-> <<>>] /\ crashes' > 0),
           crashes > 0 => crashes' > 0,
           pel \cup acked \subseteq pel' \cup acked',
           \A u \in Upload : /\ up'[u] = "accepted" <=> up[u] = "accepted"
                             /\ work'[u] = "none" <=> work[u] = "none"
    PROVE  QueueInv'
<1> USE DEF QueueInv
<1>1. \A k \in KB : queues[k] \in Seq(Upload) /\ log[k] \in Seq(Upload)
  BY DEF QueueType
<1>2. \A k \in KB : queues'[k] = queues[k] \/ queues'[k] = <<>>
  OBVIOUS
<1>3. ASSUME NEW k \in KB, NEW seq \in Seq(Upload), Entries(k, seq)
      PROVE  /\ \A i \in 1..Len(seq) : KbOf[seq[i]] = k /\ up'[seq[i]] = "accepted"
             /\ \A i, j \in 1..Len(seq) : seq[i] = seq[j] => i = j
  BY <1>3 DEF Entries
<1>4. OneDriver'
  BY <1>2 DEF OneDriver, InMemory, InRedis
<1>5. Queued'
  BY <1>1, <1>2, <1>3 DEF Queued, Entries
<1>6. \A k \in KB : Redis!Position(k)' = Redis!Position(k)
  BY DEF Redis!Position
<1>7. Streamed'
  BY <1>1, <1>3, <1>6 DEF Streamed, Entries, Passed
<1>8. CalledOnce'
  BY DEF CalledOnce
<1>9. Kept'
  BY <1>2 DEF Kept, InMemory, InRedis
<1> QED
  BY <1>4, <1>5, <1>7, <1>8, <1>9

LEMMA RequestStepKeeps ==
    ASSUME SubmitInv, QueueInv, NEW u \in Upload,
           Check(u) \/ SaveDoc(u) \/ SaveTask(u) \/ EnqueueFails(u)
    PROVE  QueueInv'
<1>1. /\ UNCHANGED <<deploy, crashes, consuming, consumerVars, memVars, log, trimmed, cursor,
                     pel, delivered, acked, dlq, readers, handling>>
      /\ known' = known \/ known' = [known EXCEPT ![at[u]] = @ \cup {KbOf[u]}]
  BY DEF Check, SaveDoc, SaveTask, EnqueueFails, Redis!XAddFails, redisVars, Redis!redisVars
<1>2. QueueType'
  <2>1. KbOf[u] \in KB /\ known \in [Proc -> SUBSET KB]
    BY SystemAssumption DEF QueueInv, QueueType
  <2>2. known' \in [Proc -> SUBSET KB]
    BY <1>1, <2>1
  <2> QED
    BY <1>1, <2>2 DEF QueueInv, QueueType, consumerVars, memVars
<1>3. Handled'
  BY <1>1 DEF QueueInv, Handled, consumerVars, memVars
<1>4. \A v \in Upload : up'[v] = "accepted" <=> up[v] = "accepted"
  BY DEF Check, SaveDoc, SaveTask, EnqueueFails, SubmitInv, SubmitType
<1> QED
  BY <1>1, <1>2, <1>3, <1>4, NothingMoves DEF consumerVars, memVars

LEMMA StartConsumingKeeps ==
    ASSUME QueueInv, NEW p \in Proc, StartConsuming(p)
    PROVE  QueueInv'
<1>1. /\ UNCHANGED <<deploy, crashes, submitVars, consumerVars, memVars, log, trimmed, cursor,
                     pel, delivered, acked, dlq, known, handling>>
      /\ p \in deploy.consumers /\ consuming' = consuming \cup {p}
      /\ readers' = readers \/ readers' = [readers EXCEPT ![p] = known[p]]
  BY DEF StartConsuming, Redis!StartReaders, redisVars, Redis!redisVars
<1>2. QueueType'
  BY <1>1 DEF QueueInv, QueueType, consumerVars, memVars
<1>3. Handled'
  BY <1>1 DEF QueueInv, QueueType, Handled, consumerVars, memVars
<1> QED
  BY <1>1, <1>2, <1>3, NothingMoves DEF consumerVars, memVars, submitVars

LEMMA DiscoverKeeps ==
    ASSUME QueueInv, NEW p \in Proc, NEW k \in KB, RedisDiscover(p, k)
    PROVE  QueueInv'
<1>1. /\ UNCHANGED <<deploy, crashes, submitVars, consumerVars, memVars, log, trimmed, cursor,
                     pel, delivered, acked, dlq, consuming, handling>>
      /\ p \in consuming /\ known' = [known EXCEPT ![p] = @ \cup {k}]
      /\ readers' = readers \/ readers' = [readers EXCEPT ![p] = @ \cup {k}]
  BY DEF RedisDiscover, Redis!Discover, Redis!redisVars
<1>2. QueueType'
  <2>1. readers \in [Proc -> SUBSET KB] /\ known \in [Proc -> SUBSET KB]
    BY DEF QueueInv, QueueType
  <2>2. readers' \in [Proc -> SUBSET KB] /\ known' \in [Proc -> SUBSET KB]
    BY <1>1, <2>1
  <2> QED
    BY <1>1, <2>2 DEF QueueInv, QueueType, consumerVars, memVars
<1>3. Handled'
  BY <1>1 DEF QueueInv, QueueType, Handled, consumerVars, memVars
<1> QED
  BY <1>1, <1>2, <1>3, NothingMoves DEF consumerVars, memVars, submitVars

(* XACK, or what is done when it or the consumer raised: no task is seen   *)
(* three times, so none is given up.                                       *)
LEMMA AckKeeps ==
    ASSUME QueueInv, NEW p \in Proc, NEW k \in KB, RedisAck(p, k) \/ RedisLeavePending(p, k)
    PROVE  QueueInv'
<1> DEFINE t == handling[p][k]
<1>1. /\ UNCHANGED <<deploy, crashes, submitVars, consumerVars, memVars, log, trimmed, cursor,
                     delivered, consuming, known, readers>>
      /\ t # NoTask /\ handling' = [handling EXCEPT ![p][k] = NoTask]
      /\ \/ pel' = pel \ {t} /\ acked' = acked \cup {t}
         \/ pel' = pel /\ acked' = acked
  BY DEF RedisAck, RedisLeavePending, Redis!Ack, Redis!LeavePending
<1>2. t \in Upload /\ calls[t] > 0
  BY <1>1 DEF QueueInv, QueueType, Handled
<1> HIDE DEF t
<1>3. QueueType'
  BY <1>1 DEF QueueInv, QueueType, consumerVars, memVars
<1>4. Handled'
  BY <1>1, <1>2 DEF QueueInv, QueueType, Handled, consumerVars, memVars
<1> QED
  BY <1>1, <1>3, <1>4, NothingMoves DEF consumerVars, memVars, submitVars

LEMMA RunStepKeeps ==
    ASSUME QueueInv, NEW p \in Proc, NEW t \in Upload,
           LookUp(p, t) \/ RunSucceeds(p, t) \/ RunFails(p, t)
    PROVE  QueueInv'
<1>1. /\ UNCHANGED <<deploy, crashes, submitVars, calls, memVars, redisVars, consuming>>
      /\ work[t] # "none"
      /\ \E next \in {"returned", "running", "raised"} : work' = [work EXCEPT ![t] = next]
  BY DEF LookUp, RunSucceeds, RunFails
<1>2. QueueType'
  BY <1>1 DEF QueueInv, QueueType, WorkSteps, memVars, redisVars
<1>3. Handled'
  BY <1>1 DEF QueueInv, Handled, memVars, redisVars
<1>4. \A v \in Upload : work'[v] = "none" <=> work[v] = "none"
  BY <1>1 DEF QueueInv, QueueType
<1> QED
  BY <1>1, <1>2, <1>3, <1>4, NothingMoves DEF memVars, redisVars, submitVars

LEMMA CrashKeepsQueues ==
    ASSUME SubmitInv, QueueInv, NEW p \in Proc, Crash(p)
    PROVE  QueueInv'
<1>1. /\ UNCHANGED <<deploy, calls, log, trimmed, cursor, pel, delivered, acked, dlq>>
      /\ crashes' = crashes + 1 /\ consuming' = consuming \ {p}
      /\ known' = [known EXCEPT ![p] = {}] /\ readers' = [readers EXCEPT ![p] = {}]
      /\ handling' = [handling EXCEPT ![p] = [k \in KB |-> NoTask]]
      /\ \/ UNCHANGED memVars
         \/ /\ queues' = [k \in KB |-> <<>>] /\ order' = <<>> /\ rest' = <<>>
            /\ current' = NoTask
  BY DEF Crash, Mem!Lose, Redis!ClientGone, Redis!redisVars
<1>2. work' \in [Upload -> WorkSteps] /\ \A v \in Upload : work'[v] = "none" <=> work[v] = "none"
  BY DEF Crash, QueueInv, QueueType, WorkSteps
<1>3. \A v \in Upload : up'[v] = "accepted" <=> up[v] = "accepted"
  BY DEF Crash, SubmitInv, SubmitType, InFlight
<1>4. crashes' > 0
  BY <1>1 DEF SubmitInv, SubmitType
<1>5. QueueType'
  <2>1. /\ readers \in [Proc -> SUBSET KB] /\ known \in [Proc -> SUBSET KB]
        /\ handling \in [Proc -> [KB -> Upload \cup {NoTask}]]
    BY DEF QueueInv, QueueType
  <2>2. /\ readers' \in [Proc -> SUBSET KB] /\ known' \in [Proc -> SUBSET KB]
        /\ handling' \in [Proc -> [KB -> Upload \cup {NoTask}]]
    BY <1>1, <2>1
  <2>3. queues' \in [KB -> Seq(Upload)] /\ order' \in Seq(KB) /\ rest' \in Seq(KB)
    <3>1. CASE UNCHANGED memVars
      BY <3>1 DEF QueueInv, QueueType, memVars
    <3>2. CASE queues' = [k \in KB |-> <<>>] /\ order' = <<>> /\ rest' = <<>>
      <4>1. <<>> \in Seq(Upload) /\ <<>> \in Seq(KB)
        OBVIOUS
      <4> QED
        BY <3>2, <4>1
    <3> QED
      BY <1>1, <3>1, <3>2
  <2> QED
    BY <1>1, <1>2, <2>2, <2>3 DEF QueueInv, QueueType
<1>6. Handled'
  BY <1>1 DEF QueueInv, QueueType, Handled, memVars
<1> QED
  BY <1>1, <1>2, <1>3, <1>4, <1>5, <1>6, NothingMoves DEF memVars

(* The entries of a sequence after one more was accepted and added. *)
LEMMA AddEntry ==
    ASSUME NEW k \in KB, NEW seq \in Seq(Upload), Entries(k, seq),
           NEW u \in Upload, KbOf[u] = k, up[u] # "accepted",
           up' = [up EXCEPT ![u] = "accepted"], up \in [Upload -> SubmitSteps]
    PROVE  /\ Append(seq, u) \in Seq(Upload)
           /\ Entries(k, Append(seq, u))'
           /\ \A i \in 1..Len(seq) : seq[i] # u /\ Append(seq, u)[i] = seq[i]
           /\ Len(Append(seq, u)) = Len(seq) + 1 /\ Append(seq, u)[Len(seq) + 1] = u
<1> DEFINE new == Append(seq, u)
<1>1. /\ new \in Seq(Upload) /\ Len(new) = Len(seq) + 1 /\ new[Len(seq) + 1] = u
      /\ \A i \in 1..Len(seq) : new[i] = seq[i] /\ seq[i] \in Upload
  OBVIOUS
<1>2. \A i \in 1..Len(seq) : seq[i] # u /\ KbOf[seq[i]] = k /\ up'[seq[i]] = "accepted"
  BY <1>1 DEF Entries
<1>3. Len(seq) \in Nat /\ up'[u] = "accepted"
  OBVIOUS
<1> HIDE DEF new
<1>4. \A i \in 1..Len(new) : KbOf[new[i]] = k /\ up'[new[i]] = "accepted"
  BY <1>1, <1>2, <1>3
<1>5. \A i, j \in 1..Len(new) : new[i] = new[j] => i = j
  BY <1>1, <1>2, <1>3 DEF Entries
<1> QED
  BY <1>1, <1>2, <1>4, <1>5 DEF Entries, new

(* Others' entries stay what they are. *)
LEMMA OtherEntries ==
    ASSUME NEW k \in KB, NEW seq \in Seq(Upload), Entries(k, seq),
           NEW u \in Upload, up' = [up EXCEPT ![u] = "accepted"], up \in [Upload -> SubmitSteps]
    PROVE  Entries(k, seq)'
<1>1. \A i \in 1..Len(seq) : up[seq[i]] = "accepted" => up'[seq[i]] = "accepted"
  OBVIOUS
<1> QED
  BY <1>1 DEF Entries

LEMMA MemEnqueueKeeps ==
    ASSUME SubmitInv, QueueInv, NEW u \in Upload, Enqueue(u), InMemory
    PROVE  QueueInv'
<1> DEFINE k0 == KbOf[u]
<1>1. /\ UNCHANGED <<deploy, crashes, consuming, consumerVars, redisVars, rest, current>>
      /\ up[u] = "task_saved" /\ up' = [up EXCEPT ![u] = "accepted"]
      /\ queues' = [queues EXCEPT ![k0] = Append(@, u)]
      /\ order' = order \/ order' = Append(order, k0)
  BY DEF Enqueue, Mem!Enqueue, InMemory, InRedis
<1>2. k0 \in KB /\ up \in [Upload -> SubmitSteps] /\ calls[u] = 0
  <2>1. k0 \in KB
    BY SystemAssumption
  <2>2. up \in [Upload -> SubmitSteps]
    BY DEF SubmitInv, SubmitType
  <2>3. calls[u] \in {0, 1} /\ (calls[u] > 0 => up[u] = "accepted")
    BY DEF QueueInv, CalledOnce
  <2> QED
    BY <1>1, <2>1, <2>2, <2>3
<1>3. \A k \in KB : /\ queues[k] \in Seq(Upload) /\ Entries(k, queues[k])
                    /\ log[k] \in Seq(Upload) /\ Entries(k, log[k])
  BY DEF QueueInv, QueueType, Queued, Streamed
<1>4. \A k \in KB : queues'[k] = IF k = k0 THEN Append(queues[k], u) ELSE queues[k]
  BY <1>1, <1>2 DEF QueueInv, QueueType
<1> HIDE DEF k0
<1>5. \A k \in KB : queues'[k] \in Seq(Upload)
  <2> SUFFICES ASSUME NEW k \in KB PROVE queues'[k] \in Seq(Upload)
    OBVIOUS
  <2>1. queues[k] \in Seq(Upload)
    BY <1>3
  <2>2. Append(queues[k], u) \in Seq(Upload)
    BY <2>1
  <2> QED
    BY <1>4, <2>1, <2>2
<1>6. QueueType'
  <2>1. queues' \in [KB -> Seq(Upload)]
    BY <1>1, <1>5 DEF QueueInv, QueueType
  <2>2. order' \in Seq(KB)
    <3>1. order \in Seq(KB)
      BY DEF QueueInv, QueueType
    <3>2. Append(order, k0) \in Seq(KB)
      BY <1>2, <3>1
    <3> QED
      BY <1>1, <3>1, <3>2
  <2> QED
    BY <1>1, <2>1, <2>2 DEF QueueInv, QueueType, consumerVars, redisVars
<1>7. OneDriver'
  BY <1>1 DEF QueueInv, OneDriver, InMemory, InRedis, redisVars
<1>8. ASSUME NEW k \in KB
      PROVE  Entries(k, queues[k])' /\ \A i \in 1..Len(queues'[k]) : calls[queues'[k][i]] = 0
  <2>1. PICK seq \in Seq(Upload) : seq = queues[k]
    BY <1>3
  <2>2. Entries(k, seq) /\ \A i \in 1..Len(seq) : calls[seq[i]] = 0
    BY <1>3, <2>1 DEF QueueInv, Queued
  <2>3. CASE k = k0
    <3>1. queues'[k] = Append(seq, u)
      BY <1>4, <2>1, <2>3
    <3>2. /\ Entries(k, Append(seq, u))' /\ Len(Append(seq, u)) = Len(seq) + 1
          /\ \A i \in 1..Len(seq) : Append(seq, u)[i] = seq[i]
          /\ Append(seq, u)[Len(seq) + 1] = u
      <4>1. KbOf[u] = k /\ up[u] # "accepted"
        BY <1>1, <2>3 DEF k0
      <4>2. Entries(k, seq) /\ up' = [up EXCEPT ![u] = "accepted"] /\ up \in [Upload -> SubmitSteps]
        BY <1>1, <1>2, <2>2
      <4>3. Entries(k, Append(seq, u))'
        BY <4>1, <4>2, AddEntry DEF Entries
      <4> QED
        BY <4>3
    <3> QED
      BY <1>2, <2>2, <3>1, <3>2 DEF Entries
  <2>4. CASE k # k0
    <3>1. queues'[k] = seq /\ Entries(k, seq)'
      BY <1>1, <1>2, <1>4, <2>1, <2>2, <2>4, OtherEntries
    <3> QED
      BY <2>2, <3>1 DEF Entries
  <2> QED
    BY <2>3, <2>4
<1>9. Queued'
  BY <1>1, <1>8 DEF Queued, consumerVars
<1>10. Streamed'
  <2>1. \A k \in KB : log[k] = <<>>
    BY DEF QueueInv, OneDriver
  <2>2. UNCHANGED <<log, trimmed, cursor>>
    BY <1>1 DEF redisVars
  <2> QED
    BY <2>1, <2>2 DEF QueueInv, Streamed, Entries
<1>11. CalledOnce'
  BY <1>1, <1>2 DEF QueueInv, QueueType, CalledOnce, consumerVars, redisVars
<1>12. Handled'
  BY <1>1 DEF QueueInv, Handled, consumerVars, redisVars
<1>13. Kept'
  <2>1. ~InRedis' /\ UNCHANGED <<calls, crashes>>
    BY <1>1 DEF InMemory, InRedis, consumerVars
  <2>2. \A v \in Upload : KbOf[v] \in KB
    BY SystemAssumption
  <2>3. ASSUME NEW v \in Upload, up'[v] = "accepted", calls[v] = 0, crashes = 0
        PROVE  \E i \in 1..Len(queues'[KbOf[v]]) : queues'[KbOf[v]][i] = v
    <3>1. CASE v = u
      <4>1. queues[k0] \in Seq(Upload) /\ queues'[k0] = Append(queues[k0], u)
        BY <1>2, <1>3, <1>4
      <4>2. Len(queues[k0]) + 1 \in 1..Len(queues'[k0]) /\ queues'[k0][Len(queues[k0]) + 1] = u
        BY <4>1
      <4> QED
        BY <3>1, <4>2 DEF k0
    <3>2. CASE v # u
      <4>1. PICK i \in 1..Len(queues[KbOf[v]]) : queues[KbOf[v]][i] = v
        <5>1. up[v] = "accepted" /\ ~(calls[v] > 0) /\ ~(crashes > 0)
          BY <1>1, <1>2, <2>3, <3>2
        <5> QED
          BY <5>1 DEF QueueInv, Kept
      <4>2. i \in 1..Len(queues'[KbOf[v]]) /\ queues'[KbOf[v]][i] = v
        <5>1. KbOf[v] \in KB /\ queues[KbOf[v]] \in Seq(Upload)
          BY <1>3, <2>2
        <5>2. \/ queues'[KbOf[v]] = queues[KbOf[v]]
              \/ queues'[KbOf[v]] = Append(queues[KbOf[v]], u)
          BY <1>4, <5>1
        <5> QED
          BY <4>1, <5>1, <5>2
      <4> QED
        BY <4>2
    <3> QED
      BY <3>1, <3>2
  <2>4. \A v \in Upload : calls[v] = 0 \/ calls[v] > 0
    BY DEF QueueInv, QueueType
  <2>5. crashes = 0 \/ crashes > 0
    BY DEF SubmitInv, SubmitType
  <2> QED
    BY <2>1, <2>3, <2>4, <2>5 DEF Kept
<1> QED
  BY <1>6, <1>7, <1>9, <1>10, <1>11, <1>12, <1>13 DEF QueueInv

LEMMA RedisEnqueueKeeps ==
    ASSUME SubmitInv, QueueInv, NEW u \in Upload, Enqueue(u), InRedis
    PROVE  QueueInv'
<1> DEFINE k0 == KbOf[u]
<1>1. /\ UNCHANGED <<deploy, crashes, consuming, consumerVars, memVars, cursor, pel, delivered,
                     acked, dlq, readers, handling>>
      /\ up[u] = "task_saved" /\ up' = [up EXCEPT ![u] = "accepted"]
      /\ known' = [known EXCEPT ![at[u]] = @ \cup {k0}]
      /\ log' = [log EXCEPT ![k0] = Append(@, u)]
      /\ trimmed' \in {[trimmed EXCEPT ![k0] = n] :
                          n \in {trimmed[k0]} \cup trimmed[k0]..(Len(log'[k0]) - MaxLen)}
  BY DEF Enqueue, Redis!XAdd, InMemory, InRedis
<1>2. k0 \in KB /\ up \in [Upload -> SubmitSteps] /\ calls[u] = 0 /\ delivered[u] = 0
  <2>1. k0 \in KB
    BY SystemAssumption
  <2>2. up \in [Upload -> SubmitSteps]
    BY DEF SubmitInv, SubmitType
  <2>3. /\ calls[u] \in {0, 1} /\ (calls[u] > 0 => up[u] = "accepted")
        /\ delivered[u] <= calls[u] /\ delivered[u] \in Nat
    BY DEF QueueInv, QueueType, CalledOnce
  <2> QED
    BY <1>1, <2>1, <2>2, <2>3
<1> HIDE DEF k0
<1>3. \A k \in KB : /\ log[k] \in Seq(Upload) /\ Len(log[k]) \in Nat
                    /\ trimmed[k] \in Nat /\ cursor[k] \in Nat
                    /\ trimmed[k] <= Len(log[k]) /\ cursor[k] <= Len(log[k])
  BY DEF QueueInv, QueueType, Streamed
<1>4. \A k \in KB : log'[k] = IF k = k0 THEN Append(log[k], u) ELSE log[k]
  BY <1>1, <1>2 DEF QueueInv, QueueType
<1>5. PICK n \in {trimmed[k0]} \cup trimmed[k0]..(Len(log'[k0]) - MaxLen) :
             trimmed' = [trimmed EXCEPT ![k0] = n]
  BY <1>1
<1>6. n \in Nat /\ trimmed[k0] <= n /\ n <= Len(log[k0]) + 1
  <2>1. Len(log'[k0]) = Len(log[k0]) + 1
    <3>1. log[k0] \in Seq(Upload) /\ log'[k0] = Append(log[k0], u)
      BY <1>2, <1>3, <1>4
    <3> QED
      BY <3>1
  <2> QED
    BY <1>2, <1>3, <2>1, SystemAssumption
<1>7. \A k \in KB : trimmed'[k] = IF k = k0 THEN n ELSE trimmed[k]
  BY <1>2, <1>5 DEF QueueInv, QueueType
<1>8. QueueType'
  <2>1. \A k \in KB : log'[k] \in Seq(Upload)
    <3> SUFFICES ASSUME NEW k \in KB PROVE log'[k] \in Seq(Upload)
      OBVIOUS
    <3>1. log[k] \in Seq(Upload)
      BY <1>3
    <3>2. Append(log[k], u) \in Seq(Upload)
      BY <3>1
    <3> QED
      BY <1>4, <3>1, <3>2
  <2>2. log' \in [KB -> Seq(Upload)]
    BY <1>1, <2>1 DEF QueueInv, QueueType
  <2>3. trimmed' \in [KB -> Nat]
    BY <1>5, <1>6 DEF QueueInv, QueueType
  <2>4. known' \in [Proc -> SUBSET KB]
    <3>1. known \in [Proc -> SUBSET KB]
      BY DEF QueueInv, QueueType
    <3> QED
      BY <1>1, <1>2, <3>1
  <2> QED
    BY <1>1, <2>2, <2>3, <2>4 DEF QueueInv, QueueType, consumerVars, memVars
<1>9. OneDriver'
  BY <1>1 DEF QueueInv, OneDriver, InMemory, InRedis, memVars
<1>10. Queued'
  <2>1. \A k \in KB : queues[k] = <<>>
    BY DEF QueueInv, OneDriver
  <2>2. UNCHANGED queues
    BY <1>1 DEF memVars
  <2> QED
    BY <2>1, <2>2 DEF Queued, Entries
<1>11. ASSUME NEW k \in KB
       PROVE  /\ Entries(k, log[k])'
              /\ trimmed'[k] <= Len(log'[k]) /\ cursor[k] <= Len(log'[k])
              /\ \A i \in 1..Len(log'[k]) :
                    /\ i > Redis!Position(k)' => calls[log'[k][i]] = 0 /\ delivered[log'[k][i]] = 0
                    /\ i <= Redis!Position(k)' => Passed(k, i)'
  <2>1. PICK seq \in Seq(Upload) : seq = log[k]
    BY <1>3
  <2>2. /\ Entries(k, seq)
        /\ \A i \in 1..Len(seq) :
              /\ i > Redis!Position(k) => calls[seq[i]] = 0 /\ delivered[seq[i]] = 0
              /\ i <= Redis!Position(k) =>
                    \/ seq[i] \in pel \cup acked
                    \/ delivered[seq[i]] = 0 /\ i <= trimmed[k]
    BY <2>1 DEF QueueInv, Streamed, Passed
  <2>3. CASE k = k0
    <3>1. log'[k] = Append(seq, u)
      BY <1>4, <2>1, <2>3
    <3>2. Entries(k, Append(seq, u))'
      <4>1. KbOf[u] = k /\ up[u] # "accepted"
        BY <1>1, <2>3 DEF k0
      <4> QED
        BY <1>1, <1>2, <2>2, <4>1, AddEntry DEF Entries
    <3>3. /\ \A i \in 1..Len(seq) : log'[k][i] = seq[i]
          /\ log'[k][Len(seq) + 1] = u /\ Len(log'[k]) = Len(seq) + 1
      BY <3>1
    <3>4. /\ Redis!Position(k)' = IF cursor[k] < n THEN n ELSE cursor[k]
          /\ Redis!Position(k) = IF cursor[k] < trimmed[k] THEN trimmed[k] ELSE cursor[k]
      BY <1>1, <1>7, <2>3 DEF Redis!Position
    <3>5. ASSUME NEW i \in 1..Len(seq)
          PROVE  /\ i > Redis!Position(k)' => calls[seq[i]] = 0 /\ delivered[seq[i]] = 0
                 /\ i <= Redis!Position(k)' => \/ seq[i] \in pel \cup acked
                                               \/ delivered[seq[i]] = 0 /\ i <= n
      BY <1>3, <1>6, <2>1, <2>2, <2>3, <3>4
    <3>6. /\ Len(seq) + 1 <= Redis!Position(k)' => Len(seq) + 1 <= n
          /\ n <= Len(seq) + 1 /\ cursor[k] <= Len(seq) + 1 /\ Len(seq) \in Nat
      BY <1>3, <1>6, <2>1, <2>3, <3>4
    <3>7. Entries(k, log[k])'
      BY <3>1, <3>2 DEF Entries
    <3>8. \A i \in 1..Len(log'[k]) : i \in 1..Len(seq) \/ i = Len(seq) + 1
      BY <3>3, <3>6
    <3> QED
      BY <1>1, <1>2, <1>7, <2>3, <3>3, <3>5, <3>6, <3>7, <3>8 DEF Passed
  <2>4. CASE k # k0
    <3>1. log'[k] = seq /\ Entries(k, seq)' /\ trimmed'[k] = trimmed[k]
      BY <1>1, <1>2, <1>4, <1>7, <2>1, <2>2, <2>4, OtherEntries
    <3>2. Redis!Position(k)' = Redis!Position(k)
      BY <1>1, <3>1 DEF Redis!Position
    <3>3. Entries(k, log[k])'
      BY <3>1 DEF Entries
    <3> QED
      BY <1>1, <1>3, <2>1, <2>2, <3>1, <3>2, <3>3 DEF Passed
  <2> QED
    BY <2>3, <2>4
<1>12. Streamed'
  BY <1>1, <1>11 DEF Streamed, consumerVars
<1>13. CalledOnce'
  BY <1>1, <1>2 DEF QueueInv, QueueType, CalledOnce, consumerVars
<1>14. Handled'
  BY <1>1 DEF QueueInv, Handled, consumerVars, memVars
<1>15. Kept'
  <2>1. ~InMemory'
    BY <1>1 DEF InMemory, InRedis
  <2>2. ASSUME NEW v \in Upload, up'[v] = "accepted"
        PROVE  \E i \in 1..Len(log'[KbOf[v]]) : log'[KbOf[v]][i] = v
    <3>1. CASE v = u
      <4>1. log[k0] \in Seq(Upload) /\ log'[k0] = Append(log[k0], u)
        BY <1>2, <1>3, <1>4
      <4>2. Len(log[k0]) + 1 \in 1..Len(log'[k0]) /\ log'[k0][Len(log[k0]) + 1] = u
        BY <4>1
      <4> QED
        BY <3>1, <4>2 DEF k0
    <3>2. CASE v # u
      <4>1. PICK i \in 1..Len(log[KbOf[v]]) : log[KbOf[v]][i] = v
        <5>1. up[v] = "accepted"
          BY <1>1, <1>2, <2>2, <3>2
        <5> QED
          BY <5>1 DEF QueueInv, Kept
      <4>2. KbOf[v] \in KB /\ log[KbOf[v]] \in Seq(Upload)
        BY <1>3, SystemAssumption
      <4>3. \/ log'[KbOf[v]] = log[KbOf[v]]
            \/ log'[KbOf[v]] = Append(log[KbOf[v]], u)
        BY <1>4, <4>2
      <4> QED
        BY <4>1, <4>2, <4>3
    <3> QED
      BY <3>1, <3>2
  <2> QED
    BY <2>1, <2>2 DEF Kept
<1> QED
  BY <1>8, <1>9, <1>10, <1>12, <1>13, <1>14, <1>15 DEF QueueInv

(* The in-process worker takes the head of a queue. *)
LEMMA TakeKeeps ==
    ASSUME SubmitInv, QueueInv, InMemory, NEW seq \in Seq(KB), Mem!TakeFrom(seq),
           Called(current'), UNCHANGED <<deploy, crashes, consuming, submitVars, redisVars>>
    PROVE  QueueInv'
<1>1. PICK i0 \in 1..Len(seq) :
        /\ queues[seq[i0]] # <<>>
        /\ current' = Head(queues[seq[i0]])
        /\ queues' = [queues EXCEPT ![seq[i0]] = Tail(@)]
        /\ rest' = SubSeq(seq, i0 + 1, Len(seq))
        /\ order' = order
  <2>1. DOMAIN seq = 1..Len(seq)
    OBVIOUS
  <2> QED
    BY <2>1 DEF Mem!TakeFrom, Mem!First
<1>2. PICK k0 \in KB : k0 = seq[i0]
  OBVIOUS
<1>3. PICK t : t = current'
  OBVIOUS
<1>4. \A k \in KB : /\ queues[k] \in Seq(Upload) /\ Entries(k, queues[k])
                    /\ \A i \in 1..Len(queues[k]) : calls[queues[k][i]] = 0
  BY DEF QueueInv, QueueType, Queued
<1>5. PICK q0 \in Seq(Upload) : q0 = queues[k0]
  BY <1>4
<1>6. /\ q0 # <<>> /\ Len(q0) \in Nat /\ Len(q0) >= 1
      /\ t = q0[1] /\ t \in Upload /\ 1 \in 1..Len(q0)
      /\ Tail(q0) \in Seq(Upload) /\ Len(Tail(q0)) = Len(q0) - 1
      /\ \A i \in 1..Len(Tail(q0)) : Tail(q0)[i] = q0[i + 1] /\ i + 1 \in 1..Len(q0)
  BY <1>1, <1>2, <1>3, <1>5
<1>7. calls[t] = 0 /\ KbOf[t] = k0 /\ up[t] = "accepted"
  BY <1>4, <1>5, <1>6 DEF Entries
<1>8. /\ work' = [work EXCEPT ![t] = "called"]
      /\ calls' = [calls EXCEPT ![t] = @ + 1]
  BY <1>3 DEF Called
<1>9. calls'[t] = 1 /\ work'[t] = "called" /\ \A u \in Upload \ {t} : calls'[u] = calls[u] /\ work'[u] = work[u]
  BY <1>6, <1>7, <1>8 DEF QueueInv, QueueType
<1>10. \A k \in KB : queues'[k] = IF k = k0 THEN Tail(q0) ELSE queues[k]
  BY <1>1, <1>2, <1>5 DEF QueueInv, QueueType
<1>11. QueueType'
  <2>1. queues' \in [KB -> Seq(Upload)]
    BY <1>1, <1>4, <1>6, <1>10 DEF QueueInv, QueueType
  <2>2. rest' \in Seq(KB)
    <3>1. i0 + 1 \in Int /\ Len(seq) \in Int /\ \A i \in (i0 + 1)..Len(seq) : seq[i] \in KB
      OBVIOUS
    <3> QED
      BY <1>1, <3>1, SubSeqProperties
  <2>3. calls' \in [Upload -> Nat] /\ work' \in [Upload -> WorkSteps]
    <3>1. calls \in [Upload -> Nat] /\ work \in [Upload -> WorkSteps]
      BY DEF QueueInv, QueueType
    <3>2. calls[t] + 1 \in Nat
      BY <1>6, <3>1
    <3>3. "called" \in WorkSteps
      BY DEF WorkSteps
    <3> QED
      BY <1>6, <1>8, <3>1, <3>2, <3>3
  <2> QED
    BY <1>1, <2>1, <2>2, <2>3 DEF QueueInv, QueueType, redisVars
<1>12. OneDriver'
  BY DEF QueueInv, OneDriver, InMemory, InRedis, redisVars
<1>13. ASSUME NEW k \in KB
       PROVE  Entries(k, queues[k])' /\ \A i \in 1..Len(queues'[k]) : calls'[queues'[k][i]] = 0
  <2>1. UNCHANGED up
    BY DEF submitVars
  <2>2. CASE k = k0
    <3>1. queues'[k] = Tail(q0) /\ Entries(k, q0) /\ \A i \in 1..Len(q0) : calls[q0[i]] = 0
      BY <1>4, <1>5, <1>10, <2>2
    <3>2. \A i \in 1..Len(Tail(q0)) : Tail(q0)[i] # t /\ Tail(q0)[i] \in Upload
      BY <1>6, <3>1 DEF Entries
    <3>3. \A i \in 1..Len(Tail(q0)) : calls'[Tail(q0)[i]] = 0
      BY <1>6, <1>9, <3>1, <3>2
    <3>4. /\ \A i \in 1..Len(Tail(q0)) : KbOf[Tail(q0)[i]] = k /\ up[Tail(q0)[i]] = "accepted"
          /\ \A i, j \in 1..Len(Tail(q0)) : Tail(q0)[i] = Tail(q0)[j] => i = j
      BY <1>6, <3>1 DEF Entries
    <3> QED
      BY <2>1, <3>1, <3>3, <3>4 DEF Entries
  <2>3. CASE k # k0
    <3>1. queues'[k] = queues[k] /\ Entries(k, queues[k])
      BY <1>4, <1>10, <2>3
    <3>2. \A i \in 1..Len(queues[k]) : queues[k][i] \in Upload /\ queues[k][i] # t
      BY <1>4, <1>7, <2>3, <3>1 DEF Entries
    <3>3. \A i \in 1..Len(queues[k]) : calls'[queues[k][i]] = 0
      BY <1>4, <1>9, <3>2
    <3> QED
      BY <2>1, <3>1, <3>3 DEF Entries
  <2> QED
    BY <2>2, <2>3
<1>14. Queued'
  BY <1>13 DEF Queued
<1>15. Streamed'
  <2>1. \A k \in KB : log[k] = <<>>
    BY DEF QueueInv, OneDriver
  <2>2. UNCHANGED <<log, trimmed, cursor>>
    BY DEF redisVars
  <2> QED
    BY <2>1, <2>2 DEF QueueInv, Streamed, Entries
<1>16. CalledOnce'
  <2>1. UNCHANGED <<up, delivered>> /\ \A u \in Upload : delivered[u] \in Nat
    BY DEF submitVars, redisVars, QueueInv, QueueType
  <2> QED
    BY <1>6, <1>7, <1>9, <2>1 DEF QueueInv, CalledOnce
<1>17. \A u \in Upload : calls[u] > 0 => calls'[u] > 0
  BY <1>9
<1>18. Handled'
  <2>1. current' \in Upload /\ calls'[current'] > 0
    BY <1>3, <1>6, <1>9
  <2>2. UNCHANGED <<deploy, consuming, acked, readers, handling>>
    BY DEF redisVars
  <2>3. handling \in [Proc -> [KB -> Upload \cup {NoTask}]]
    BY DEF QueueInv, QueueType
  <2> QED
    BY <1>17, <2>1, <2>2, <2>3 DEF QueueInv, Handled
<1>19. Kept'
  <2>1. ~InRedis' /\ UNCHANGED <<up, crashes>>
    BY DEF InMemory, InRedis, submitVars
  <2>2. ASSUME NEW v \in Upload, v # t, NEW i \in 1..Len(queues[KbOf[v]]), queues[KbOf[v]][i] = v
        PROVE  \E j \in 1..Len(queues'[KbOf[v]]) : queues'[KbOf[v]][j] = v
    <3>0. KbOf[v] \in KB
      BY SystemAssumption
    <3>1. CASE KbOf[v] = k0
      <4>1. i # 1 /\ i - 1 \in 1..Len(Tail(q0)) /\ q0[i] = v
        BY <1>5, <1>6, <2>2, <3>1
      <4>2. Tail(q0)[i - 1] = v
        BY <1>6, <4>1
      <4> QED
        BY <1>10, <3>0, <3>1, <4>1, <4>2
    <3>2. CASE KbOf[v] # k0
      BY <1>10, <2>2, <3>0, <3>2
    <3> QED
      BY <3>1, <3>2
  <2> QED
    BY <1>9, <1>17, <2>1, <2>2 DEF QueueInv, Kept, InMemory
<1> QED
  BY <1>11, <1>12, <1>14, <1>15, <1>16, <1>18, <1>19 DEF QueueInv

(* The worker has nothing more to take, and waits. *)
LEMMA RestKeeps ==
    ASSUME QueueInv, UNCHANGED <<deploy, crashes, consuming, submitVars, consumerVars, redisVars,
                                 queues, order>>,
           current' = NoTask, rest' = <<>>
    PROVE  QueueInv'
<1>1. QueueType'
  BY DEF QueueInv, QueueType, consumerVars, redisVars
<1>2. Handled'
  BY DEF QueueInv, Handled, consumerVars, redisVars
<1> QED
  BY <1>1, <1>2, NothingMoves DEF consumerVars, redisVars, submitVars

LEMMA MemStepKeeps ==
    ASSUME SubmitInv, QueueInv, MemWake \/ MemTaskDone
    PROVE  QueueInv'
<1>1. InMemory /\ UNCHANGED <<deploy, crashes, consuming, submitVars, redisVars>>
  BY DEF MemWake, MemTaskDone
<1>2. order \in Seq(KB) /\ Mem!Pass(rest) \in Seq(KB)
  BY DEF QueueInv, QueueType, Mem!Pass
<1>3. ASSUME NEW seq \in {order, Mem!Pass(rest)}, Mem!TakeFrom(seq)
      PROVE  current' # NoTask
  <2>1. seq \in Seq(KB) /\ DOMAIN seq = 1..Len(seq)
    BY <1>2
  <2>2. PICK i \in 1..Len(seq) : queues[seq[i]] # <<>> /\ current' = Head(queues[seq[i]])
    BY <1>3, <2>1 DEF Mem!TakeFrom, Mem!First
  <2>3. queues[seq[i]] \in Seq(Upload)
    BY <2>1 DEF QueueInv, QueueType
  <2> QED
    BY <2>2, <2>3, SystemAssumption
<1>4. CASE MemWake
  <2>1. Mem!TakeFrom(order) /\ Called(current')
    BY <1>4 DEF MemWake, Mem!Wake
  <2> QED
    BY <1>1, <1>2, <2>1, TakeKeeps
<1>5. CASE MemTaskDone /\ Mem!TakeFrom(Mem!Pass(rest))
  <2>1. Called(current')
    BY <1>3, <1>5 DEF MemTaskDone
  <2>2. PICK seq \in Seq(KB) : seq = Mem!Pass(rest)
    BY <1>2
  <2>3. Mem!TakeFrom(seq)
    BY <1>5, <2>2
  <2> QED
    BY <1>1, <2>1, <2>3, TakeKeeps
<1>6. CASE /\ MemTaskDone /\ current' = NoTask /\ rest' = <<>> /\ UNCHANGED <<queues, order>>
  BY <1>1, <1>6, RestKeeps DEF MemTaskDone
<1> QED
  BY <1>4, <1>5, <1>6 DEF MemTaskDone, Mem!TaskDone

(* XREADGROUP hands out the entry after the group's position. *)
LEMMA ReadKeeps ==
    ASSUME SubmitInv, QueueInv, NEW p \in Proc, NEW k0 \in KB, RedisRead(p, k0)
    PROVE  QueueInv'
<1>1. PICK t : t = log[k0][Redis!Position(k0) + 1]
  OBVIOUS
<1>2. /\ InRedis /\ k0 \in readers[p] /\ Redis!Position(k0) < Len(log[k0])
      /\ pel' = pel \cup {t}
      /\ delivered' = [delivered EXCEPT ![t] = @ + 1]
      /\ handling' = [handling EXCEPT ![p][k0] = t]
      /\ cursor' = [cursor EXCEPT ![k0] = Redis!Position(k0) + 1]
      /\ UNCHANGED <<deploy, crashes, consuming, submitVars, memVars, log, trimmed, acked, dlq,
                     known, readers>>
  BY <1>1 DEF RedisRead, Redis!Read, Redis!Deliver, Redis!Unread
<1>3. handling'[p][k0] = t
  BY <1>2 DEF QueueInv, QueueType
<1>4. work' = [work EXCEPT ![t] = "called"] /\ calls' = [calls EXCEPT ![t] = @ + 1]
  BY <1>3 DEF RedisRead, Called
<1>5. \A k \in KB : /\ log[k] \in Seq(Upload) /\ Len(log[k]) \in Nat /\ Entries(k, log[k])
                    /\ trimmed[k] \in Nat /\ cursor[k] \in Nat /\ Redis!Position(k) \in Nat
                    /\ trimmed[k] <= Len(log[k]) /\ cursor[k] <= Len(log[k])
                    /\ trimmed[k] <= Redis!Position(k)
  BY DEF QueueInv, QueueType, Streamed, Redis!Position
<1>6. PICK at0 \in 1..Len(log[k0]) : at0 = Redis!Position(k0) + 1
  BY <1>2, <1>5
<1>7. /\ t \in Upload /\ KbOf[t] = k0 /\ up[t] = "accepted" /\ calls[t] = 0 /\ delivered[t] = 0
      /\ t = log[k0][at0]
  <2>1. t = log[k0][at0] /\ at0 > Redis!Position(k0)
    BY <1>1, <1>5, <1>6
  <2>2. t \in Upload
    BY <1>5, <2>1
  <2> QED
    BY <1>5, <2>1, <2>2 DEF QueueInv, Streamed, Entries
<1>8. /\ calls'[t] = 1 /\ work'[t] = "called" /\ delivered'[t] = 1
      /\ \A u \in Upload \ {t} :
            calls'[u] = calls[u] /\ work'[u] = work[u] /\ delivered'[u] = delivered[u]
  BY <1>2, <1>4, <1>7 DEF QueueInv, QueueType
<1>9. QueueType'
  <2>1. /\ calls \in [Upload -> Nat] /\ work \in [Upload -> WorkSteps]
        /\ delivered \in [Upload -> Nat] /\ cursor \in [KB -> Nat]
        /\ handling \in [Proc -> [KB -> Upload \cup {NoTask}]]
    BY DEF QueueInv, QueueType
  <2>2. calls[t] + 1 \in Nat /\ delivered[t] + 1 \in Nat /\ Redis!Position(k0) + 1 \in Nat
    BY <1>5, <1>7
  <2>3. "called" \in WorkSteps
    BY DEF WorkSteps
  <2>4. /\ calls' \in [Upload -> Nat] /\ work' \in [Upload -> WorkSteps]
        /\ delivered' \in [Upload -> Nat] /\ cursor' \in [KB -> Nat]
    BY <1>2, <1>4, <1>7, <2>1, <2>2, <2>3
  <2>5. handling' \in [Proc -> [KB -> Upload \cup {NoTask}]]
    BY <1>2, <1>7, <2>1
  <2> QED
    BY <1>2, <2>4, <2>5 DEF QueueInv, QueueType, memVars
<1>10. OneDriver'
  BY <1>2 DEF QueueInv, OneDriver, InMemory, InRedis, memVars
<1>11. Queued'
  <2>1. \A k \in KB : queues[k] = <<>>
    BY <1>2 DEF QueueInv, OneDriver
  <2>2. UNCHANGED queues
    BY <1>2 DEF memVars
  <2> QED
    BY <2>1, <2>2 DEF Queued, Entries
<1>12. \A k \in KB : Redis!Position(k)' = IF k = k0 THEN at0 ELSE Redis!Position(k)
  BY <1>2, <1>5, <1>6, SMTT(30) DEF Redis!Position, QueueInv, QueueType
<1>13. ASSUME NEW k \in KB, NEW i \in 1..Len(log[k])
       PROVE  /\ i > Redis!Position(k)' => calls'[log[k][i]] = 0 /\ delivered'[log[k][i]] = 0
              /\ i <= Redis!Position(k)' => Passed(k, i)'
  <2>1. /\ i > Redis!Position(k) => calls[log[k][i]] = 0 /\ delivered[log[k][i]] = 0
        /\ i <= Redis!Position(k) => Passed(k, i)
        /\ log[k][i] \in Upload
    BY <1>5 DEF QueueInv, Streamed
  <2>2. CASE log[k][i] = t
    <3>1. k = k0 /\ i = at0
      BY <1>5, <1>7, <2>2 DEF Entries
    <3>2. Passed(k, i)'
      BY <1>2, <2>2 DEF Passed
    <3> QED
      BY <1>12, <3>1, <3>2
  <2>3. CASE log[k][i] # t
    <3>1. i > Redis!Position(k)' => i > Redis!Position(k)
      BY <1>5, <1>6, <1>12
    <3>2. i <= Redis!Position(k)' => i <= Redis!Position(k)
      BY <1>5, <1>6, <1>7, <1>12, <2>3
    <3>3. Passed(k, i) => Passed(k, i)'
      BY <1>2, <1>8, <2>1, <2>3 DEF Passed
    <3> QED
      BY <1>8, <2>1, <2>3, <3>1, <3>2, <3>3
  <2> QED
    BY <2>2, <2>3
<1>14. Streamed'
  <2>1. \A k \in KB : cursor'[k] <= Len(log[k]) /\ trimmed[k] <= Len(log[k])
    BY <1>2, <1>5, <1>6 DEF QueueInv, QueueType
  <2>2. \A k \in KB : Entries(k, log[k])'
    BY <1>2, <1>5 DEF Entries, submitVars
  <2> QED
    BY <1>2, <1>13, <2>1, <2>2 DEF Streamed
<1>15. CalledOnce'
  <2>1. UNCHANGED up
    BY <1>2 DEF submitVars
  <2> QED
    BY <1>7, <1>8, <2>1 DEF QueueInv, CalledOnce
<1>16. \A u \in Upload : calls[u] > 0 => calls'[u] > 0
  BY <1>8
<1>17. Handled'
  <2>1. UNCHANGED current /\ p \in consuming /\ handling \in [Proc -> [KB -> Upload \cup {NoTask}]]
    BY <1>2 DEF QueueInv, QueueType, Handled, memVars
  <2>2. ASSUME NEW r \in Proc, NEW k \in KB, handling'[r][k] # NoTask
        PROVE  r \in consuming /\ calls'[handling'[r][k]] > 0
    <3>1. CASE r = p /\ k = k0
      BY <1>3, <1>8, <2>1, <3>1
    <3>2. CASE ~(r = p /\ k = k0)
      <4>1. handling'[r][k] = handling[r][k] /\ handling[r][k] \in Upload
        BY <1>2, <2>1, <2>2, <3>2
      <4> QED
        BY <1>16, <2>2, <4>1 DEF QueueInv, Handled
    <3> QED
      BY <3>1, <3>2
  <2> QED
    BY <1>2, <1>16, <2>1, <2>2 DEF QueueInv, Handled
<1>18. Kept'
  <2>1. ~InMemory' /\ InRedis
    BY <1>2 DEF InMemory, InRedis
  <2> QED
    BY <1>2, <2>1 DEF QueueInv, Kept, submitVars
<1> QED
  BY <1>9, <1>10, <1>11, <1>14, <1>15, <1>17, <1>18 DEF QueueInv

LEMMA QueueUnchanged == QueueInv /\ UNCHANGED vars => QueueInv'
<1> SUFFICES ASSUME QueueInv, UNCHANGED vars PROVE QueueInv'
  OBVIOUS
<1> USE DEF vars, submitVars, consumerVars, memVars, redisVars
<1>1. QueueType'
  BY DEF QueueInv, QueueType
<1>2. Handled'
  BY DEF QueueInv, Handled
<1> QED
  BY <1>1, <1>2, NothingMoves

LEMMA QueueStep == SubmitInv /\ QueueInv /\ [Next]_vars => QueueInv'
<1> SUFFICES ASSUME SubmitInv, QueueInv, [Next]_vars PROVE QueueInv'
  OBVIOUS
<1>1. ASSUME NEW u \in Upload, Submit(u)
      PROVE  QueueInv'
  <2>1. CASE Enqueue(u)
    <3>1. InMemory \/ InRedis
      BY <2>1 DEF Enqueue
    <3> QED
      BY <2>1, <3>1, MemEnqueueKeeps, RedisEnqueueKeeps
  <2> QED
    BY <1>1, <2>1, RequestStepKeeps DEF Submit
<1>2. CASE Consumer
  BY <1>2, MemStepKeeps, ReadKeeps, AckKeeps, RunStepKeeps DEF Consumer
<1> QED
  BY <1>1, <1>2, StartConsumingKeeps, CrashKeepsQueues, DiscoverKeeps, QueueUnchanged DEF Next

LEMMA QueueInvariant == Spec => [](SubmitInv /\ QueueInv)
<1>1. Init => SubmitInv /\ QueueInv
  BY SubmitInitially, QueueInitially
<1>2. SubmitInv /\ QueueInv /\ [Next]_vars => (SubmitInv /\ QueueInv)'
  BY SubmitStep, QueueStep
<1> QED
  BY <1>1, <1>2, PTL DEF Spec

(* No task is handed to a consumer twice: the in-process queue pops it,    *)
(* XREADGROUP moves on, and nothing claims pending entries, whichever      *)
(* processes read and die.                                                 *)
THEOREM CalledAtMostOnce == Spec => []AtMostOneCall
<1>1. SubmitInv /\ QueueInv => AtMostOneCall
  BY DEF QueueInv, CalledOnce, AtMostOneCall
<1> QED
  BY <1>1, QueueInvariant, PTL

(* A task whose upload was answered with 202 is in its stream, dropped     *)
(* from it by MAXLEN, pending or acknowledged; in process it is queued,    *)
(* taken, or lost with the process.                                        *)
THEOREM AcceptedTasksAreHeld == Spec => []AcceptedIsHeld
<1>1. SubmitInv /\ QueueInv => AcceptedIsHeld
  <2> SUFFICES ASSUME SubmitInv, QueueInv, NEW u \in Upload, up[u] = "accepted"
               PROVE  \/ InRedis /\ (Redis!Waiting(u) \/ Redis!DroppedUnread(u) \/ u \in pel \cup acked)
                      \/ InMemory /\ (Mem!Holds(u) \/ calls[u] > 0 \/ crashes > 0)
    BY DEF AcceptedIsHeld
  <2>1. KbOf[u] \in KB /\ queues[KbOf[u]] \in Seq(Upload) /\ log[KbOf[u]] \in Seq(Upload)
    BY SystemAssumption DEF QueueInv, QueueType
  <2>2. InRedis \/ InMemory
    BY DEF SubmitInv, SubmitType, Deployment, InRedis, InMemory
  <2>3. CASE InRedis
    <3>1. PICK i \in 1..Len(log[KbOf[u]]) : log[KbOf[u]][i] = u
      BY <2>3 DEF QueueInv, Kept
    <3>2. trimmed[KbOf[u]] \in Nat /\ Redis!Position(KbOf[u]) \in Nat
      BY <2>1 DEF QueueInv, QueueType, Redis!Position
    <3>3. CASE i > Redis!Position(KbOf[u])
      BY <2>1, <2>3, <3>1, <3>3 DEF Redis!Waiting
    <3>4. CASE i <= Redis!Position(KbOf[u])
      <4>1. u \in pel \cup acked \/ (delivered[u] = 0 /\ i <= trimmed[KbOf[u]])
        BY <2>1, <3>1, <3>4 DEF QueueInv, Streamed, Passed
      <4> QED
        BY <2>3, <3>1, <3>2, <4>1 DEF Redis!DroppedUnread
    <3> QED
      BY <3>2, <3>3, <3>4
  <2>4. CASE InMemory
    BY <2>1, <2>4 DEF QueueInv, Kept, Mem!Holds
  <2> QED
    BY <2>2, <2>3, <2>4
<1> QED
  BY <1>1, QueueInvariant, PTL
-------------------------------------------------------------------------------
LEMMA TaskInitially == Init => TaskInv
<1> SUFFICES ASSUME Init PROVE TaskInv
  OBVIOUS
<1>1. TaskType
  BY DEF Init, TaskType
<1>2. Recorded
  BY DEF Init, Recorded, Redis!NoStreams
<1> QED
  BY <1>1, <1>2 DEF TaskInv

(* Steps that leave the tasks rows and the consumer calls alone and save   *)
(* no task; acked is a task whose call has returned.                       *)
LEMMA RowsAlone ==
    ASSUME TaskInv, UNCHANGED <<deploy, tasks, work>>, crashes' = crashes,
           \A t \in Upload : up'[t] \in {"task_saved", "accepted"} =>
                                up[t] \in {"task_saved", "accepted"},
           \A t \in acked' : t \in acked \/ work[t] = "returned"
    PROVE  TaskInv'
<1>1. OneTable' <=> OneTable
  BY DEF OneTable, InRedis, Shared, Live, Db
<1>2. TaskType'
  BY DEF TaskInv, TaskType
<1>3. Recorded'
  BY <1>1 DEF TaskInv, Recorded, Live, Db
<1> QED
  BY <1>2, <1>3 DEF TaskInv

LEMMA SaveTaskKeepsRows ==
    ASSUME SubmitInv, QueueInv, TaskInv, NEW u \in Upload, SaveTask(u)
    PROVE  TaskInv'
<1>1. /\ UNCHANGED <<deploy, crashes, at, work, acked>>
      /\ up[u] = "doc_saved" /\ up' = [up EXCEPT ![u] = "task_saved"]
      /\ tasks' = [tasks EXCEPT ![Db(at[u])][u] = "pending"]
  BY DEF SaveTask, consumerVars, redisVars
<1>2. at[u] \in Proc /\ Db(at[u]) \in Proc /\ Live(at[u])
  BY DEF SubmitInv, SubmitType, Deployment, Db, Live
<1>3. TaskType'
  BY <1>1, <1>2 DEF TaskInv, TaskType
<1>4. u \notin acked /\ work[u] = "none"
  BY <1>1 DEF QueueInv, CalledOnce, Handled
<1>5. OneTable' <=> OneTable
  BY <1>1 DEF OneTable, InRedis, Shared, Live, Db
<1>6. ASSUME OneTable, NEW p \in Proc, Live(p)
      PROVE  /\ tasks'[Db(p)][u] = "pending"
             /\ \A t \in Upload \ {u} : tasks'[Db(p)][t] = tasks[Db(p)][t]
  <2>1. Db(p) = Db(at[u])
    BY <1>2, <1>6 DEF OneTable, Shared
  <2> QED
    BY <1>1, <1>2, <2>1 DEF TaskInv, TaskType
<1>7. \A t \in Upload \ {u} : up'[t] = up[t]
  BY <1>1 DEF SubmitInv, SubmitType
<1>8. \A p : (Live(p)' <=> Live(p)) /\ Db(p)' = Db(p)
  BY <1>1 DEF Live, Db
<1>9. Recorded'
  BY <1>1, <1>4, <1>5, <1>6, <1>7, <1>8 DEF TaskInv, Recorded
<1> QED
  BY <1>3, <1>9 DEF TaskInv

(* Another driver than Redis: nothing is promised of the rows. *)
LEMMA MemStepKeepsRows == TaskInv /\ (MemWake \/ MemTaskDone) => TaskInv'
<1> SUFFICES ASSUME TaskInv, MemWake \/ MemTaskDone PROVE TaskInv'
  OBVIOUS
<1>1. InMemory /\ UNCHANGED <<deploy, tasks>>
  BY DEF MemWake, MemTaskDone
<1>2. ~OneTable'
  BY <1>1 DEF OneTable, InMemory, InRedis
<1> QED
  BY <1>1, <1>2 DEF TaskInv, TaskType, Recorded

LEMMA ReadKeepsRows ==
    ASSUME SubmitInv, QueueInv, QueueInv', TaskInv, NEW p \in Proc, NEW k \in KB, RedisRead(p, k)
    PROVE  TaskInv'
<1>1. PICK t : t = handling'[p][k]
  OBVIOUS
<1>2. /\ UNCHANGED <<deploy, tasks, crashes, up, acked>>
      /\ work' = [work EXCEPT ![t] = "called"] /\ calls' = [calls EXCEPT ![t] = @ + 1]
  BY <1>1 DEF RedisRead, Called, submitVars, Redis!Read
<1>3. t \in Upload => t \notin acked
  <2>1. t \in Upload => calls'[t] = calls[t] + 1 /\ calls[t] \in Nat /\ calls'[t] \in {0, 1}
    BY <1>2 DEF QueueInv, QueueType, CalledOnce
  <2>2. \A u \in acked : calls[u] > 0
    BY DEF QueueInv, Handled
  <2> QED
    BY <2>1, <2>2
<1>4. \A u \in Upload : work'[u] = work[u] \/ (u = t /\ work'[u] = "called")
  BY <1>2 DEF QueueInv, QueueType
<1>5. OneTable' <=> OneTable
  BY <1>2 DEF OneTable, InRedis, Shared, Live, Db
<1>6. Recorded'
  BY <1>2, <1>3, <1>4, <1>5 DEF TaskInv, Recorded, Live, Db
<1> QED
  BY <1>2, <1>6 DEF TaskInv, TaskType

LEMMA RunStepKeepsRows ==
    ASSUME SubmitInv, QueueInv, TaskInv, NEW p \in Proc, NEW t \in Upload,
           LookUp(p, t) \/ RunSucceeds(p, t) \/ RunFails(p, t)
    PROVE  TaskInv'
<1>1. /\ UNCHANGED <<deploy, crashes, up, acked, handling>>
      /\ HandledBy(p, t) /\ work[t] \in {"called", "running"}
      /\ \/ /\ tasks[Db(p)][t] = "none" /\ tasks' = tasks /\ work' = [work EXCEPT ![t] = "returned"]
         \/ /\ work' = [work EXCEPT ![t] = "running"]
            /\ tasks' = [tasks EXCEPT ![Db(p)][t] = "active"]
         \/ /\ work' = [work EXCEPT ![t] = "returned"]
            /\ tasks' = [tasks EXCEPT ![Db(p)][t] = "done"]
         \/ /\ work' = [work EXCEPT ![t] = "raised"]
            /\ tasks' = [tasks EXCEPT ![Db(p)][t] = "failed"]
  BY DEF LookUp, RunSucceeds, RunFails, submitVars, redisVars
<1>2. Db(p) \in Proc
  BY DEF SubmitInv, SubmitType, Deployment, Db
<1>3. TaskType'
  BY <1>1, <1>2 DEF TaskInv, TaskType
<1>4. OneTable' <=> OneTable
  BY <1>1 DEF OneTable, InRedis, Shared, Live, Db
<1>5. ASSUME OneTable
      PROVE  Live(p) /\ t \notin acked /\ tasks[Db(p)][t] # "none"
  <2>1. PICK k \in KB : handling[p][k] = t
    BY <1>1, <1>5 DEF HandledBy, OneTable, InMemory, InRedis
  <2>2. t # NoTask
    BY SystemAssumption
  <2>3. Live(p) /\ up[t] = "accepted"
    BY <2>1, <2>2 DEF QueueInv, Handled, CalledOnce, Live
  <2> QED
    BY <1>1, <1>5, <2>3 DEF TaskInv, Recorded
<1>6. ASSUME OneTable, NEW r \in Proc, Live(r)
      PROVE  /\ tasks'[Db(r)][t] # "none"
             /\ work'[t] = "returned" => tasks'[Db(r)][t] = "done"
             /\ \A s \in Upload \ {t} : tasks'[Db(r)][s] = tasks[Db(r)][s] /\ work'[s] = work[s]
  <2>1. Db(r) = Db(p)
    BY <1>5, <1>6 DEF OneTable, Shared
  <2>2. tasks \in [Proc -> [Upload -> {"none", "pending", "active", "done", "failed"}]]
        /\ work \in [Upload -> WorkSteps]
    BY DEF TaskInv, TaskType, QueueInv, QueueType
  <2> QED
    BY <1>1, <1>2, <1>5, <1>6, <2>1, <2>2
<1>7. \A r : (Live(r)' <=> Live(r)) /\ Db(r)' = Db(r)
  BY <1>1 DEF Live, Db
<1>8. Recorded'
  BY <1>1, <1>4, <1>5, <1>6, <1>7 DEF TaskInv, Recorded
<1> QED
  BY <1>3, <1>8 DEF TaskInv

LEMMA CrashKeepsRows ==
    ASSUME SubmitInv, QueueInv, TaskInv, NEW p \in Proc, Crash(p)
    PROVE  TaskInv'
<1>1. /\ UNCHANGED <<deploy, acked>> /\ crashes' = crashes + 1
      /\ \/ deploy.durable /\ tasks' = tasks
         \/ ~deploy.durable /\ tasks' = [tasks EXCEPT ![Db(p)] = [u \in Upload |-> "none"]]
      /\ \A t \in Upload : work'[t] = work[t] \/ work'[t] = "lost"
      /\ \A t \in Upload : up'[t] = up[t] \/ up'[t] = "lost"
  BY DEF Crash, Redis!ClientGone, Redis!redisVars
<1>2. Db(p) \in Proc /\ crashes \in Nat
  BY DEF SubmitInv, SubmitType, Deployment, Db
<1>3. TaskType'
  BY <1>1, <1>2 DEF TaskInv, TaskType
<1>4. OneTable' => OneTable /\ tasks' = tasks
  BY <1>1, <1>2 DEF OneTable, InRedis, Shared, Live, Db
<1>5. Recorded'
  BY <1>1, <1>4 DEF TaskInv, Recorded, Live, Db
<1> QED
  BY <1>3, <1>5 DEF TaskInv

LEMMA TaskStep ==
    SubmitInv /\ QueueInv /\ TaskInv /\ [Next]_vars => TaskInv'
<1> SUFFICES ASSUME SubmitInv, QueueInv, TaskInv, [Next]_vars PROVE TaskInv'
  OBVIOUS
<1>1. QueueInv'
  BY QueueStep
<1>2. ASSUME NEW u \in Upload, Submit(u)
      PROVE  TaskInv'
  <2>1. CASE Check(u) \/ SaveDoc(u) \/ Enqueue(u) \/ EnqueueFails(u)
    <3>1. /\ UNCHANGED <<deploy, tasks, work, crashes, acked>>
          /\ \A t \in Upload : up'[t] \in {"task_saved", "accepted"} =>
                                  up[t] \in {"task_saved", "accepted"}
      BY <2>1 DEF Check, SaveDoc, Enqueue, EnqueueFails, consumerVars, redisVars, Redis!XAdd,
         Redis!XAddFails, Redis!redisVars, SubmitInv, SubmitType
    <3> QED
      BY <3>1, RowsAlone
  <2> QED
    BY <1>2, <2>1, SaveTaskKeepsRows DEF Submit
<1>3. ASSUME NEW p \in Proc, StartConsuming(p) \/ \E k \in KB : RedisDiscover(p, k)
      PROVE  TaskInv'
  <2>1. UNCHANGED <<deploy, tasks, work, crashes, acked, up>>
    BY <1>3 DEF StartConsuming, RedisDiscover, consumerVars, redisVars, submitVars,
       Redis!StartReaders, Redis!Discover, Redis!redisVars
  <2> QED
    BY <2>1, RowsAlone
<1>4. ASSUME NEW p \in Proc, NEW k \in KB, RedisAck(p, k) \/ RedisLeavePending(p, k)
      PROVE  TaskInv'
  <2>1. UNCHANGED <<deploy, tasks, work, crashes, up>> /\ handling[p][k] # NoTask
    BY <1>4 DEF RedisAck, RedisLeavePending, consumerVars, submitVars
  <2>2. handling[p][k] \in Upload
    BY <2>1 DEF QueueInv, QueueType
  <2>3. ~(delivered[handling[p][k]] >= 3)
    <3>1. /\ delivered[handling[p][k]] \in Nat /\ calls[handling[p][k]] \in {0, 1}
          /\ delivered[handling[p][k]] <= calls[handling[p][k]]
      BY <2>2 DEF QueueInv, QueueType, CalledOnce
    <3> QED
      BY <3>1
  <2>4. \A t \in acked' : t \in acked \/ work[t] = "returned"
    BY <1>4, <2>3 DEF RedisAck, RedisLeavePending, Redis!Ack, Redis!LeavePending
  <2> QED
    BY <2>1, <2>4, RowsAlone
<1>5. CASE Consumer
  BY <1>1, <1>4, <1>5, MemStepKeepsRows, ReadKeepsRows, RunStepKeepsRows DEF Consumer
<1>6. CASE UNCHANGED vars
  BY <1>6, RowsAlone DEF vars, submitVars, consumerVars, redisVars
<1> QED
  BY <1>2, <1>3, <1>5, <1>6, CrashKeepsRows DEF Next

(* With one durable database for all processes, an acknowledged task is    *)
(* done: XACK comes only after the pipeline's last save_task.              *)
THEOREM AckedTasksAreDone == Spec => []AckedIsDone
<1>1. Init => SubmitInv /\ QueueInv /\ TaskInv
  BY SubmitInitially, QueueInitially, TaskInitially
<1>2. SubmitInv /\ QueueInv /\ TaskInv /\ [Next]_vars => (SubmitInv /\ QueueInv /\ TaskInv)'
  BY SubmitStep, QueueStep, TaskStep
<1>3. SubmitInv /\ QueueInv /\ TaskInv => AckedIsDone
  BY DEF QueueInv, Handled, TaskInv, Recorded, OneTable, AckedIsDone
<1> QED
  BY <1>1, <1>2, <1>3, PTL DEF Spec

-------------------------------------------------------------------------------
(* A list of different knowledge bases is no longer than there are any. *)
LEMMA DistinctLength ==
    ASSUME NEW seq \in Seq(KB), Distinct(seq)
    PROVE  Len(seq) <= Cardinality(KB) /\ Cardinality(KB) \in Nat
<1>1. IsFiniteSet(KB)
  BY SystemAssumption
<1>2. seq \in Injection(1..Len(seq), KB)
  BY DEF Distinct, Injection, IsInjective
<1>3. Cardinality(1..Len(seq)) <= Cardinality(KB)
  BY <1>1, <1>2, FS_Injection
<1>4. Len(seq) \in Nat /\ Cardinality(1..Len(seq)) = Len(seq)
  <2>1. Len(seq) \in Nat
    OBVIOUS
  <2>2. Cardinality(1..Len(seq)) = IF 1 > Len(seq) THEN 0 ELSE Len(seq) - 1 + 1
    BY <2>1, FS_Interval
  <2> QED
    BY <2>1, <2>2
<1>5. Cardinality(KB) \in Nat
  BY <1>1, FS_CardinalityType
<1> QED
  BY <1>3, <1>4, <1>5

LEMMA TurnsInitially == Init => TurnInv
<1> SUFFICES ASSUME Init PROVE TurnInv
  OBVIOUS
<1>1. /\ order = <<>> /\ rest = <<>> /\ current = NoTask
      /\ \A k \in KB : queues[k] = <<>> /\ overtaken[k] = 0
      /\ overtaken \in [KB -> Nat]
  BY DEF Init, Mem!Empty
<1>2. Len(order) = 0 /\ Len(rest) = 0
  BY <1>1
<1>3. Passes
  BY <1>1, <1>2 DEF Passes, Distinct
<1>4. Waits
  BY <1>1, <1>2 DEF Waits
<1> QED
  BY <1>3, <1>4 DEF TurnInv

(* Steps that do not touch the in-process queue. *)
LEMMA TurnsUnchanged ==
    TurnInv /\ UNCHANGED <<queues, order, rest, current, overtaken>> => TurnInv'
BY DEF TurnInv, Passes, Waits, Distinct, Bound

(* Everything is gone. *)
LEMMA TurnsLost ==
    ASSUME order' = <<>>, rest' = <<>>, queues' = [k \in KB |-> <<>>],
           overtaken' = [k \in KB |-> 0]
    PROVE  TurnInv'
<1>1. Len(order') = 0 /\ Len(rest') = 0
  OBVIOUS
<1>2. Passes'
  BY <1>1 DEF Passes, Distinct
<1>3. Waits'
  BY <1>1 DEF Waits
<1> QED
  BY <1>2, <1>3 DEF TurnInv

(* A queue that gets its first task waits at most for the rest of this     *)
(* pass and for those before it in the next.                               *)
LEMMA EnqueueKeepsTurns ==
    ASSUME SubmitInv, QueueInv, TurnInv, NEW u \in Upload, Mem!Enqueue(u), UNCHANGED overtaken
    PROVE  TurnInv'
<1>1. PICK k0 \in KB : k0 = KbOf[u]
  BY SystemAssumption
<1>2. /\ order \in Seq(KB) /\ rest \in Seq(KB) /\ Len(order) \in Nat /\ Len(rest) \in Nat
      /\ DOMAIN order = 1..Len(order)
      /\ \A k \in KB : queues[k] \in Seq(Upload)
  BY DEF QueueInv, QueueType
<1>3. /\ UNCHANGED <<rest, current>>
      /\ queues' = [queues EXCEPT ![k0] = Append(@, u)]
      /\ \/ order' = order /\ \E i \in 1..Len(order) : order[i] = k0
         \/ order' = Append(order, k0) /\ \A i \in 1..Len(order) : order[i] # k0
  BY <1>1, <1>2 DEF Mem!Enqueue
<1>4. \A k \in KB : /\ k # k0 => queues'[k] = queues[k]
                    /\ queues'[k0] # <<>>
  <2>1. queues[k0] \in Seq(Upload)
    BY <1>2
  <2>2. Append(queues[k0], u) # <<>>
    BY <2>1
  <2> QED
    BY <1>3, <2>2 DEF QueueInv, QueueType
<1>5. /\ order' \in Seq(KB) /\ Len(order') \in Nat /\ Distinct(order)'
      /\ Len(rest) < Len(order') /\ Len(order) <= Len(order')
      /\ \A j \in 1..Len(order) : j \in 1..Len(order') /\ order'[j] = order[j]
      /\ \E j \in 1..Len(order') : order'[j] = k0
      /\ \A j \in 1..Len(order') : j \in 1..Len(order) \/ order'[j] = k0
  <2>1. CASE order' = order /\ \E i \in 1..Len(order) : order[i] = k0
    BY <1>2, <2>1 DEF TurnInv, Passes, Distinct
  <2>2. CASE order' = Append(order, k0) /\ \A i \in 1..Len(order) : order[i] # k0
    <3>1. /\ order' \in Seq(KB) /\ Len(order') = Len(order) + 1
          /\ order'[Len(order) + 1] = k0
          /\ \A j \in 1..Len(order) : order'[j] = order[j]
      BY <1>2, <2>2
    <3>2. Distinct(order)'
      BY <1>2, <2>2, <3>1 DEF TurnInv, Passes, Distinct
    <3>3. Len(rest) <= Len(order) /\ Len(order) + 1 \in 1..Len(order')
      BY <1>2, <3>1 DEF TurnInv, Passes
    <3>4. \E j \in 1..Len(order') : order'[j] = k0
      BY <3>1, <3>3
    <3> QED
      BY <1>2, <3>1, <3>2, <3>3, <3>4
  <2> QED
    BY <1>3, <2>1, <2>2
<1>6. Passes'
  <2>1. Distinct(rest)'
    BY <1>3 DEF TurnInv, Passes, Distinct
  <2>2. \A k \in KB : queues'[k] # <<>> => \E j \in 1..Len(order') : order'[j] = k
    BY <1>4, <1>5 DEF TurnInv, Passes
  <2> QED
    BY <1>2, <1>3, <1>5, <2>1, <2>2 DEF TurnInv, Passes
<1>7. Len(order') <= Cardinality(KB) /\ Cardinality(KB) \in Nat
  <2>1. PICK seq \in Seq(KB) : seq = order'
    BY <1>5
  <2>2. Distinct(seq)
    BY <1>5, <2>1 DEF Distinct
  <2> QED
    BY <2>1, <2>2, DistinctLength
<1>8. ASSUME NEW k \in KB, NEW j \in 1..Len(order'), queues'[k] # <<>>, order'[j] = k
      PROVE  /\ \A i \in 1..Len(rest) : rest[i] = k => overtaken[k] + i - 1 <= Bound
             /\ (\A i \in 1..Len(rest) : rest[i] # k) =>
                    overtaken[k] + Len(rest) + j - 1 <= Bound
  <2>1. CASE queues[k] = <<>>
    <3>1. overtaken[k] = 0
      BY <2>1 DEF TurnInv, Waits
    <3> QED
      BY <1>2, <1>5, <1>7, <3>1 DEF Bound
  <2>2. CASE queues[k] # <<>>
    <3>1. PICK i \in 1..Len(order) : order[i] = k
      BY <2>2 DEF TurnInv, Passes
    <3>2. i = j
      BY <1>5, <1>8, <3>1 DEF Distinct
    <3> QED
      BY <2>2, <3>1, <3>2 DEF TurnInv, Waits
  <2> QED
    BY <2>1, <2>2
<1>9. Waits'
  <2>1. \A k \in KB : queues'[k] = <<>> => overtaken[k] = 0
    BY <1>4 DEF TurnInv, Waits
  <2>2. overtaken \in [KB -> Nat]
    BY DEF TurnInv, Waits
  <2> QED
    BY <1>3, <1>8, <2>1, <2>2 DEF Waits, Bound
<1> QED
  BY <1>6, <1>9 DEF TurnInv

(* The worker takes the first task of its pass: each queue with a task is  *)
(* one turn closer to its own.                                             *)
LEMMA TakeKeepsTurns ==
    ASSUME QueueInv, TurnInv, CountOvertaken, NEW seq \in Seq(KB), Mem!TakeFrom(seq),
           \/ seq = rest
           \/ seq = order /\ \A i \in 1..Len(rest) : queues[rest[i]] = <<>>
    PROVE  TurnInv'
<1>1. PICK i0 \in 1..Len(seq) :
        /\ queues[seq[i0]] # <<>> /\ \A j \in 1..(i0 - 1) : queues[seq[j]] = <<>>
        /\ current' = Head(queues[seq[i0]])
        /\ queues' = [queues EXCEPT ![seq[i0]] = Tail(@)]
        /\ rest' = SubSeq(seq, i0 + 1, Len(seq))
        /\ order' = order
  <2>1. DOMAIN seq = 1..Len(seq)
    OBVIOUS
  <2> QED
    BY <2>1 DEF Mem!TakeFrom, Mem!First
<1>2. PICK k0 \in KB : k0 = seq[i0]
  OBVIOUS
<1>3. /\ order \in Seq(KB) /\ rest \in Seq(KB) /\ Len(order) \in Nat /\ Len(rest) \in Nat
      /\ Len(seq) \in Nat /\ i0 \in Nat /\ i0 >= 1 /\ i0 <= Len(seq)
      /\ \A k \in KB : queues[k] \in Seq(Upload)
  BY SMTT(30) DEF QueueInv, QueueType
<1>4. current' \in Upload /\ KbOf[current'] = k0 /\ current' # NoTask
  <2>1. /\ queues[k0] \in Seq(Upload) /\ queues[k0] # <<>> /\ Entries(k0, queues[k0])
        /\ current' = Head(queues[k0])
    BY <1>1, <1>2, <1>3 DEF QueueInv, Queued
  <2>2. current' = queues[k0][1] /\ 1 \in 1..Len(queues[k0]) /\ current' \in Upload
    BY <2>1
  <2> QED
    BY <2>1, <2>2, SystemAssumption DEF Entries
<1>5. /\ overtaken \in [KB -> Nat]
      /\ overtaken' = [k \in KB |-> IF k = k0 \/ queues[k] = <<>> THEN 0 ELSE overtaken[k] + 1]
  BY <1>4 DEF CountOvertaken, TurnInv, Waits
<1>6. \A k \in KB : /\ overtaken'[k] \in Nat
                    /\ k = k0 \/ queues[k] = <<>> => overtaken'[k] = 0
                    /\ k # k0 /\ queues[k] # <<>> => overtaken'[k] = overtaken[k] + 1
  BY <1>5
<1>7. \A k \in KB : (k # k0 => queues'[k] = queues[k]) /\ (queues'[k] # <<>> => queues[k] # <<>>)
  BY <1>1, <1>2 DEF QueueInv, QueueType
<1>8. /\ Len(rest') = Len(seq) - i0
      /\ \A i \in 1..Len(rest') : rest'[i] = seq[i0 + i] /\ i0 + i \in 1..Len(seq)
  <2>1. /\ i0 + 1 \in Int /\ Len(seq) \in Int
        /\ \A i \in (i0 + 1)..Len(seq) : seq[i] \in KB
    BY <1>3
  <2>2. /\ Len(rest') = IF i0 + 1 <= Len(seq) THEN Len(seq) - (i0 + 1) + 1 ELSE 0
        /\ \A i \in 1..(Len(seq) - (i0 + 1) + 1) : rest'[i] = seq[i0 + 1 + i - 1]
    BY <1>1, <2>1, SubSeqProperties
  <2>3. Len(rest') = Len(seq) - i0
    BY <1>3, <2>2
  <2>4. ASSUME NEW i \in 1..Len(rest')
        PROVE  rest'[i] = seq[i0 + i] /\ i0 + i \in 1..Len(seq)
    <3>1. i \in 1..(Len(seq) - (i0 + 1) + 1) /\ i0 + 1 + i - 1 = i0 + i /\ i0 + i \in 1..Len(seq)
      BY <1>3, <2>3, <2>4
    <3> QED
      BY <2>2, <3>1
  <2> QED
    BY <2>3, <2>4
<1>9. Distinct(seq) /\ Len(seq) <= Len(order) /\ Len(order) > 0
  <2>1. CASE seq = rest
    BY <1>3, <2>1 DEF TurnInv, Passes
  <2>2. CASE seq = order
    BY <1>3, <2>2 DEF TurnInv, Passes
  <2> QED
    BY <2>1, <2>2
<1>10. Len(order) <= Cardinality(KB) /\ Cardinality(KB) \in Nat
  BY <1>3, DistinctLength DEF TurnInv, Passes
<1>11. Passes'
  <2>1. Distinct(rest)'
    <3>1. ASSUME NEW i \in 1..Len(rest'), NEW j \in 1..Len(rest'), rest'[i] = rest'[j]
          PROVE  i = j
      <4>1. i0 + i = i0 + j
        BY <1>8, <1>9, <3>1 DEF Distinct
      <4> QED
        BY <1>3, <4>1
    <3> QED
      BY <3>1 DEF Distinct
  <2>2. Distinct(order)' /\ \A k \in KB : queues'[k] # <<>> => \E j \in 1..Len(order') : order'[j] = k
    BY <1>1, <1>7 DEF TurnInv, Passes, Distinct
  <2> QED
    BY <1>1, <1>3, <1>4, <1>8, <1>9, <2>1, <2>2 DEF Passes
<1>12. ASSUME NEW k \in KB, NEW j \in 1..Len(order), queues'[k] # <<>>, order[j] = k
       PROVE  /\ \A i \in 1..Len(rest') : rest'[i] = k => overtaken'[k] + i - 1 <= Bound
              /\ (\A i \in 1..Len(rest') : rest'[i] # k) =>
                     overtaken'[k] + Len(rest') + j - 1 <= Bound
  <2>1. CASE k = k0
    <3>1. overtaken'[k] = 0
      BY <1>6, <2>1
    <3> QED
      BY <1>3, <1>8, <1>9, <1>10, <3>1 DEF Bound
  <2>2. CASE k # k0
    <3>1. queues[k] # <<>> /\ overtaken'[k] = overtaken[k] + 1 /\ overtaken[k] \in Nat
      BY <1>5, <1>6, <1>7, <1>12, <2>2
    <3>2. /\ \A i \in 1..Len(rest) : rest[i] = k => overtaken[k] + i - 1 <= Bound
          /\ (\A i \in 1..Len(rest) : rest[i] # k) => overtaken[k] + Len(rest) + j - 1 <= Bound
      BY <1>12, <3>1 DEF TurnInv, Waits
    <3>3. Bound \in Int
      BY <1>10 DEF Bound
    <3>4. ASSUME NEW m \in 1..Len(seq), seq[m] = k
          PROVE  m - i0 \in 1..Len(rest') /\ rest'[m - i0] = k /\ m > i0
      <4>1. m # i0 /\ ~(m \in 1..(i0 - 1))
        BY <1>1, <1>2, <2>2, <3>1, <3>4
      <4>2. m > i0 /\ m - i0 \in 1..Len(rest') /\ i0 + (m - i0) = m
        BY <1>3, <1>8, <4>1
      <4> QED
        BY <1>8, <3>4, <4>2
    <3>5. CASE seq = rest
      <4>1. ASSUME NEW i \in 1..Len(rest'), rest'[i] = k
            PROVE  overtaken'[k] + i - 1 <= Bound
        <5>1. i0 + i \in 1..Len(rest) /\ rest[i0 + i] = k
          BY <1>8, <3>5, <4>1
        <5>2. overtaken[k] + (i0 + i) - 1 <= Bound
          BY <3>2, <5>1
        <5> QED
          BY <1>3, <3>1, <3>3, <5>2
      <4>2. ASSUME \A i \in 1..Len(rest') : rest'[i] # k
            PROVE  overtaken'[k] + Len(rest') + j - 1 <= Bound
        <5>1. \A m \in 1..Len(rest) : rest[m] # k
          BY <3>4, <3>5, <4>2
        <5>2. overtaken[k] + Len(rest) + j - 1 <= Bound
          BY <3>2, <5>1
        <5> QED
          BY <1>3, <1>8, <3>1, <3>3, <3>5, <5>2
      <4> QED
        BY <4>1, <4>2
    <3>6. CASE seq = order /\ \A i \in 1..Len(rest) : queues[rest[i]] = <<>>
      <4>1. \A i \in 1..Len(rest) : rest[i] # k
        BY <3>1, <3>6
      <4>2. overtaken[k] + Len(rest) + j - 1 <= Bound
        BY <3>2, <4>1
      <4>3. j > i0 /\ j - i0 \in 1..Len(rest') /\ rest'[j - i0] = k
        BY <1>12, <3>4, <3>6
      <4>4. \A i \in 1..Len(rest') : rest'[i] = k => i0 + i = j
        BY <1>8, <1>9, <1>12, <3>6 DEF Distinct
      <4>5. ASSUME NEW i \in 1..Len(rest'), rest'[i] = k
            PROVE  overtaken'[k] + i - 1 <= Bound
        <5>1. i0 + i = j
          BY <4>4, <4>5
        <5> QED
          BY <1>3, <3>1, <3>3, <4>2, <5>1
      <4> QED
        BY <4>3, <4>5
    <3> QED
      BY <3>5, <3>6
  <2> QED
    BY <2>1, <2>2
<1>13. Waits'
  <2>1. overtaken' \in [KB -> Nat]
    BY <1>5, <1>6
  <2>2. \A k \in KB : queues'[k] = <<>> => overtaken'[k] = 0
    BY <1>6, <1>7
  <2> QED
    BY <1>1, <1>12, <2>1, <2>2 DEF Waits, Bound
<1> QED
  BY <1>11, <1>13 DEF TurnInv

LEMMA MemStepKeepsTurns ==
    ASSUME QueueInv, TurnInv, MemWake \/ MemTaskDone
    PROVE  TurnInv'
<1>1. order \in Seq(KB) /\ rest \in Seq(KB) /\ DOMAIN rest = 1..Len(rest) /\ DOMAIN order = 1..Len(order)
  BY DEF QueueInv, QueueType
<1>2. CountOvertaken
  BY DEF MemWake, MemTaskDone
<1>3. CASE MemWake
  <2>1. rest = <<>> /\ Mem!TakeFrom(order)
    BY <1>3 DEF MemWake, Mem!Wake, TurnInv, Passes
  <2>2. \A i \in 1..Len(rest) : queues[rest[i]] = <<>>
    BY <2>1
  <2> QED
    BY <1>1, <1>2, <2>1, <2>2, TakeKeepsTurns
<1>4. CASE Mem!TakeFrom(Mem!Pass(rest))
  <2>1. CASE Mem!HasWork(rest)
    BY <1>1, <1>2, <1>4, <2>1, TakeKeepsTurns DEF Mem!Pass
  <2>2. CASE ~Mem!HasWork(rest)
    <3>1. Mem!TakeFrom(order)
      BY <1>4, <2>2 DEF Mem!Pass
    <3>2. \A i \in 1..Len(rest) : queues[rest[i]] = <<>>
      BY <1>1, <2>2 DEF Mem!HasWork
    <3> QED
      BY <1>1, <1>2, <3>1, <3>2, TakeKeepsTurns
  <2> QED
    BY <2>1, <2>2
<1>5. CASE /\ ~Mem!HasWork(order) /\ current' = NoTask /\ rest' = <<>>
           /\ UNCHANGED <<queues, order>>
  <2>1. \A k \in KB : queues[k] = <<>>
    BY <1>1, <1>5 DEF Mem!HasWork, TurnInv, Passes
  <2>2. overtaken' = [k \in KB |-> 0]
    BY <1>2, <1>5 DEF CountOvertaken
  <2>3. Len(rest') = 0 /\ Len(order) \in Nat
    BY <1>1, <1>5
  <2>4. Passes'
    BY <1>5, <2>1, <2>3 DEF TurnInv, Passes, Distinct
  <2>5. Waits'
    BY <1>5, <2>1, <2>2 DEF Waits
  <2> QED
    BY <2>4, <2>5 DEF TurnInv
<1> QED
  BY <1>3, <1>4, <1>5 DEF MemTaskDone, Mem!TaskDone

LEMMA TurnStep ==
    SubmitInv /\ QueueInv /\ TurnInv /\ [Next]_vars => TurnInv'
<1> SUFFICES ASSUME SubmitInv, QueueInv, TurnInv, [Next]_vars PROVE TurnInv'
  OBVIOUS
<1>1. ASSUME NEW u \in Upload, Submit(u)
      PROVE  TurnInv'
  <2>1. CASE Enqueue(u) /\ Mem!Enqueue(u)
    BY <2>1, EnqueueKeepsTurns DEF Enqueue
  <2>2. CASE UNCHANGED memVars /\ UNCHANGED overtaken
    BY <2>2, TurnsUnchanged DEF memVars
  <2> QED
    BY <1>1, <2>1, <2>2 DEF Submit, Check, SaveDoc, SaveTask, Enqueue, EnqueueFails
<1>2. ASSUME NEW p \in Proc, Crash(p)
      PROVE  TurnInv'
  <2>1. overtaken' = [k \in KB |-> 0]
    BY <1>2 DEF Crash
  <2>2. CASE InMemory
    <3>1. order' = <<>> /\ rest' = <<>> /\ queues' = [k \in KB |-> <<>>]
      BY <1>2, <2>2 DEF Crash, Mem!Lose
    <3> QED
      BY <2>1, <3>1, TurnsLost
  <2>3. CASE ~InMemory
    <3>1. UNCHANGED memVars
      BY <1>2, <2>3 DEF Crash
    <3>2. \A k \in KB : queues[k] = <<>>
      BY <2>3 DEF SubmitInv, SubmitType, Deployment, QueueInv, OneDriver, InMemory, InRedis
    <3>3. Passes'
      BY <3>1 DEF memVars, TurnInv, Passes, Distinct
    <3>4. Waits'
      BY <2>1, <3>1, <3>2 DEF Waits, memVars
    <3> QED
      BY <3>3, <3>4 DEF TurnInv
  <2> QED
    BY <2>2, <2>3
<1>3. CASE Consumer
  <2>1. CASE MemWake \/ MemTaskDone
    BY <2>1, MemStepKeepsTurns
  <2>2. CASE UNCHANGED memVars /\ UNCHANGED overtaken
    BY <2>2, TurnsUnchanged DEF memVars
  <2> QED
    BY <1>3, <2>1, <2>2 DEF Consumer, RedisRead, RedisAck, RedisLeavePending, LookUp, RunSucceeds,
       RunFails
<1>4. ASSUME (\E p \in Proc : StartConsuming(p)) \/ (\E p \in Proc, k \in KB : RedisDiscover(p, k))
                 \/ UNCHANGED vars
      PROVE  TurnInv'
  <2>1. UNCHANGED memVars /\ UNCHANGED overtaken
    BY <1>4 DEF StartConsuming, RedisDiscover, vars
  <2> QED
    BY <2>1, TurnsUnchanged DEF memVars
<1> QED
  BY <1>1, <1>2, <1>3, <1>4 DEF Next

(* The in-process queue is fair: while a knowledge base has a task queued, *)
(* the worker takes at most two of each other one's, however uploads       *)
(* arrive and in whichever order the queues were created.                  *)
THEOREM TurnsAreBounded == Spec => []RoundRobin
<1>1. Init => SubmitInv /\ QueueInv /\ TurnInv
  BY SubmitInitially, QueueInitially, TurnsInitially
<1>2. SubmitInv /\ QueueInv /\ TurnInv /\ [Next]_vars => (SubmitInv /\ QueueInv /\ TurnInv)'
  BY SubmitStep, QueueStep, TurnStep
<1>3. SubmitInv /\ QueueInv /\ TurnInv => RoundRobin
  <2> SUFFICES ASSUME QueueInv, TurnInv, NEW k \in KB PROVE overtaken[k] <= Bound
    BY DEF RoundRobin, Bound
  <2>1. Cardinality(KB) \in Nat /\ Cardinality(KB) > 0
    BY SystemAssumption, FS_EmptySet, FS_CardinalityType
  <2>2. Len(order) \in Nat /\ Len(rest) \in Nat /\ overtaken[k] \in Nat
    BY DEF QueueInv, QueueType, TurnInv, Waits
  <2>3. CASE queues[k] = <<>>
    BY <2>1, <2>3 DEF TurnInv, Waits, Bound
  <2>4. CASE queues[k] # <<>>
    <3>1. PICK j \in 1..Len(order) : order[j] = k
      BY <2>4 DEF TurnInv, Passes
    <3>2. CASE \A i \in 1..Len(rest) : rest[i] # k
      <4>1. overtaken[k] + Len(rest) + j - 1 <= Bound
        BY <2>4, <3>1, <3>2 DEF TurnInv, Waits
      <4> QED
        BY <2>1, <2>2, <4>1 DEF Bound
    <3>3. CASE \E i \in 1..Len(rest) : rest[i] = k
      <4>1. PICK i \in 1..Len(rest) : rest[i] = k
        BY <3>3
      <4>2. overtaken[k] + i - 1 <= Bound
        BY <2>4, <3>1, <4>1 DEF TurnInv, Waits
      <4> QED
        BY <2>1, <2>2, <4>2 DEF Bound
    <3> QED
      BY <3>2, <3>3
  <2> QED
    BY <2>3, <2>4
<1> QED
  BY <1>1, <1>2, <1>3, PTL DEF Spec
===============================================================================
