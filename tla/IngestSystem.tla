----------------------------- MODULE IngestSystem -----------------------------
(***************************************************************************)
(* From POST /v1/documents to a finished task: submit_ingest               *)
(* (ragx/ingestion/dedup.py) run by concurrent requests, the task queue,   *)
(* and the consumer that looks the task up and runs the pipeline           *)
(* (ragx/api/app.py, ragx/ingestion/worker.py), in processes that may die. *)
(* The queue is InProcessQueue or RedisStreamsQueue, as deployed.          *)
(*                                                                         *)
(* The pipeline is reduced to what its caller sees of it (IngestContract): *)
(* the task is active and then done, or failed and run() raises.           *)
(*                                                                         *)
(* An upload, the document and the task made from it share one id.         *)
(***************************************************************************)
EXTENDS Naturals, Sequences, FiniteSets

CONSTANTS
    Proc, KB, Upload, NoTask,
    KbOf,         \* Upload -> KB
    HashOf,       \* Upload -> the hash of the uploaded content
    Deployments,  \* the deployments considered
    MaxLen,       \* XADD's MAXLEN
    MaxCrashes    \* bound: how many processes die

(* Which queue is used, which processes serve uploads, which of them call  *)
(* queue.consume, whose MetadataStore each process uses, whether it        *)
(* outlives the process (":memory:", the default, does not), and the       *)
(* uploads clients may make.                                               *)
Deployment ==
    [driver : {"in_process", "redis"}, api : SUBSET Proc, consumers : SUBSET Proc,
     db : [Proc -> Proc], durable : BOOLEAN, uploads : SUBSET Upload]

ASSUME SystemAssumption ==
    /\ Deployments \subseteq Deployment
    /\ KbOf \in [Upload -> KB]
    /\ IsFiniteSet(KB)
    /\ NoTask \notin Upload
    /\ MaxCrashes \in Nat
    /\ MaxLen \in Nat

VARIABLES
    deploy,
    docs,       \* database -> documents rows
    tasks,      \* database -> Upload -> status of the tasks row, or "none"
    up,         \* Upload -> how far submit_ingest has come
    at,         \* Upload -> the process that serves it
    before,     \* history: same-content uploads that were over when it began
    consuming,  \* processes that have called queue.consume
    work,       \* Upload -> how far the consumer call for it has come
    calls,      \* Upload -> how often the consumer was called with it
    overtaken,  \* history: tasks of others taken while this KB had one queued
    crashes,
    queues, order, rest, current,                                 \* in process
    log, trimmed, cursor, pel, delivered, acked, dlq,             \* in Redis
    known, readers, handling

Mem == INSTANCE InProcessQueue WITH Task <- Upload
Redis == INSTANCE RedisStreamsQueue WITH Task <- Upload

memVars == <<queues, order, rest, current>>
redisVars == <<log, trimmed, cursor, pel, delivered, acked, dlq, known, readers, handling>>
submitVars == <<docs, up, at, before>>
consumerVars == <<work, calls>>
vars == <<deploy, tasks, consuming, overtaken, crashes, submitVars, consumerVars,
          memVars, redisVars>>

Key(u) == <<KbOf[u], HashOf[u]>>

InMemory == deploy.driver = "in_process"
InRedis == deploy.driver = "redis"

InFlight == {"checked", "doc_saved", "task_saved"}
Over == {"accepted", "rejected", "error", "lost"}

Live(p) == p \in deploy.api \cup deploy.consumers
Db(p) == deploy.db[p]
Shared == \A p, q \in Proc : Live(p) /\ Live(q) => Db(p) = Db(q)
-------------------------------------------------------------------------------
Init ==
    /\ deploy \in Deployments
    /\ docs = [d \in Proc |-> {}]
    /\ tasks = [d \in Proc |-> [u \in Upload |-> "none"]]
    /\ up = [u \in Upload |-> "new"]
    /\ at \in {f \in [Upload -> deploy.api] :
                 \A u \in Upload \ deploy.uploads : f[u] = CHOOSE p \in deploy.api : TRUE}
    /\ before = [u \in Upload |-> {}]
    /\ consuming = {}
    /\ work = [u \in Upload |-> "none"]
    /\ calls = [u \in Upload |-> 0]
    /\ overtaken = [k \in KB |-> 0]
    /\ crashes = 0
    /\ Mem!Empty
    /\ Redis!NoStreams

MutantTwinAnywhere(u, v) == HashOf[v] = HashOf[u]

MutantTwinWithTask(u, v) ==
    KbOf[v] = KbOf[u] /\ HashOf[v] = HashOf[u] /\ tasks[Db(at[u])][v] # "none"

(* find_doc_by_hash: the same content in the same knowledge base. *)
Twin(u, v) == KbOf[v] = KbOf[u] /\ HashOf[v] = HashOf[u]

(* submit_ingest reads the documents table; a match is a duplicate (2004). *)
Check(u) ==
    /\ up[u] = "new"
    /\ u \in deploy.uploads
    /\ up' = [up EXCEPT ![u] = IF \E v \in docs[Db(at[u])] : Twin(u, v)
                               THEN "rejected" ELSE "checked"]
    /\ before' = [before EXCEPT ![u] = {v \in Upload : Key(v) = Key(u) /\ up[v] \in Over}]
    /\ UNCHANGED <<deploy, docs, at, tasks, consuming, overtaken, crashes,
                   consumerVars, memVars, redisVars>>

SaveDoc(u) ==
    /\ up[u] = "checked"
    /\ docs' = [docs EXCEPT ![Db(at[u])] = @ \cup {u}]
    /\ up' = [up EXCEPT ![u] = "doc_saved"]
    /\ UNCHANGED <<deploy, tasks, at, before, consuming, overtaken, crashes,
                   consumerVars, memVars, redisVars>>

SaveTask(u) ==
    /\ up[u] = "doc_saved"
    /\ tasks' = [tasks EXCEPT ![Db(at[u])][u] = "pending"]
    /\ up' = [up EXCEPT ![u] = "task_saved"]
    /\ UNCHANGED <<deploy, docs, at, before, consuming, overtaken, crashes,
                   consumerVars, memVars, redisVars>>

(* queue.enqueue, after which the client has its 202. *)
Enqueue(u) ==
    /\ up[u] = "task_saved"
    /\ \/ InMemory /\ Mem!Enqueue(u) /\ UNCHANGED redisVars
       \/ InRedis /\ Redis!XAdd(at[u], u) /\ UNCHANGED memVars
    /\ up' = [up EXCEPT ![u] = "accepted"]
    /\ UNCHANGED <<deploy, docs, tasks, at, before, consuming, overtaken, crashes,
                   consumerVars>>

(* Redis could not be reached: the request fails, its rows stay. *)
EnqueueFails(u) ==
    /\ up[u] = "task_saved"
    /\ InRedis
    /\ Redis!XAddFails(at[u], u)
    /\ up' = [up EXCEPT ![u] = "error"]
    /\ UNCHANGED <<deploy, docs, tasks, at, before, consuming, overtaken, crashes,
                   consumerVars, memVars>>

Submit(u) == Check(u) \/ SaveDoc(u) \/ SaveTask(u) \/ Enqueue(u) \/ EnqueueFails(u)
-------------------------------------------------------------------------------
(* queue.consume at startup. *)
StartConsuming(p) ==
    /\ p \in deploy.consumers \ consuming
    /\ consuming' = consuming \cup {p}
    /\ \/ InMemory /\ UNCHANGED redisVars
       \/ InRedis /\ Redis!StartReaders(p)
    /\ UNCHANGED <<deploy, tasks, overtaken, crashes, submitVars, consumerVars, memVars>>

(* The queue calls the consumer with task t. *)
Called(t) ==
    /\ work' = [work EXCEPT ![t] = "called"]
    /\ calls' = [calls EXCEPT ![t] = @ + 1]

(* History: who was passed over by the step that takes a task. *)
CountOvertaken ==
    overtaken' = [k \in KB |->
        IF current' = NoTask \/ KbOf[current'] = k \/ queues[k] = <<>>
        THEN 0 ELSE overtaken[k] + 1]

MemWake ==
    /\ InMemory
    /\ consuming # {}
    /\ Mem!Wake
    /\ Called(current')
    /\ CountOvertaken
    /\ UNCHANGED <<deploy, tasks, consuming, crashes, submitVars, redisVars>>

(* The consumer call is over, and the worker takes the next task at once.  *)
MemTaskDone ==
    /\ InMemory
    /\ current # NoTask
    /\ work[current] \in {"returned", "raised"}
    /\ Mem!TaskDone
    /\ IF current' = NoTask THEN UNCHANGED consumerVars ELSE Called(current')
    /\ CountOvertaken
    /\ UNCHANGED <<deploy, tasks, consuming, crashes, submitVars, redisVars>>

RedisDiscover(p, k) ==
    /\ InRedis
    /\ p \in consuming
    /\ Redis!Discover(p, k)
    /\ UNCHANGED <<deploy, tasks, consuming, overtaken, crashes, submitVars,
                   consumerVars, memVars>>

RedisRead(p, k) ==
    /\ InRedis
    /\ Redis!Read(p, k)
    /\ Called(handling'[p][k])
    /\ UNCHANGED <<deploy, tasks, consuming, overtaken, crashes, submitVars, memVars>>

RedisAck(p, k) ==
    /\ handling[p][k] # NoTask
    /\ work[handling[p][k]] = "returned"
    /\ Redis!Ack(p, k)
    /\ UNCHANGED <<deploy, tasks, consuming, overtaken, crashes, submitVars,
                   consumerVars, memVars>>

(* The consumer raised, or it returned and the XACK raised. *)
RedisLeavePending(p, k) ==
    /\ handling[p][k] # NoTask
    /\ work[handling[p][k]] \in {"returned", "raised"}
    /\ Redis!LeavePending(p, k)
    /\ UNCHANGED <<deploy, tasks, consuming, overtaken, crashes, submitVars,
                   consumerVars, memVars>>
-------------------------------------------------------------------------------
(* The process whose consumer call is about task t. *)
HandledBy(p, t) ==
    \/ InMemory /\ current = t /\ p \in consuming
    \/ \E k \in KB : handling[p][k] = t

(* _consume: get_task in this process's database.  A task it does not find *)
(* is passed over in silence; one it finds is run, whatever its status.    *)
LookUp(p, t) ==
    /\ HandledBy(p, t)
    /\ work[t] = "called"
    /\ IF tasks[Db(p)][t] = "none"
       THEN work' = [work EXCEPT ![t] = "returned"] /\ UNCHANGED tasks
       ELSE /\ work' = [work EXCEPT ![t] = "running"]
            /\ tasks' = [tasks EXCEPT ![Db(p)][t] = "active"]
    /\ UNCHANGED <<deploy, consuming, overtaken, crashes, calls, submitVars, memVars,
                   redisVars>>

RunSucceeds(p, t) ==
    /\ HandledBy(p, t)
    /\ work[t] = "running"
    /\ work' = [work EXCEPT ![t] = "returned"]
    /\ tasks' = [tasks EXCEPT ![Db(p)][t] = "done"]
    /\ UNCHANGED <<deploy, consuming, overtaken, crashes, calls, submitVars, memVars,
                   redisVars>>

RunFails(p, t) ==
    /\ HandledBy(p, t)
    /\ work[t] = "running"
    /\ work' = [work EXCEPT ![t] = "raised"]
    /\ tasks' = [tasks EXCEPT ![Db(p)][t] = "failed"]
    /\ UNCHANGED <<deploy, consuming, overtaken, crashes, calls, submitVars, memVars,
                   redisVars>>

Consumer ==
    \/ MemWake
    \/ MemTaskDone
    \/ \E p \in Proc, k \in KB :
          \/ RedisRead(p, k)
          \/ RedisAck(p, k)
          \/ RedisLeavePending(p, k)
    \/ \E p \in Proc, t \in Upload : LookUp(p, t) \/ RunSucceeds(p, t) \/ RunFails(p, t)

(* A process dies, with the requests it serves, the consumer calls it is   *)
(* in, an in-process queue and an in-memory database.  It may start again. *)
Crash(p) ==
    /\ Live(p)
    /\ crashes < MaxCrashes
    /\ crashes' = crashes + 1
    /\ up' = [u \in Upload |-> IF at[u] = p /\ up[u] \in InFlight THEN "lost" ELSE up[u]]
    /\ work' = [t \in Upload |->
                  IF HandledBy(p, t) /\ work[t] # "none" THEN "lost" ELSE work[t]]
    /\ consuming' = consuming \ {p}
    /\ IF deploy.durable
       THEN UNCHANGED <<docs, tasks>>
       ELSE /\ docs' = [docs EXCEPT ![Db(p)] = {}]
            /\ tasks' = [tasks EXCEPT ![Db(p)] = [u \in Upload |-> "none"]]
    /\ IF InMemory THEN Mem!Lose ELSE UNCHANGED memVars
    /\ Redis!ClientGone(p)
    /\ overtaken' = [k \in KB |-> 0]
    /\ UNCHANGED <<deploy, at, before, calls>>

Next ==
    \/ \E u \in Upload : Submit(u)
    \/ \E p \in Proc : StartConsuming(p) \/ Crash(p)
    \/ \E p \in Proc, k \in KB : RedisDiscover(p, k)
    \/ Consumer

Spec == Init /\ [][Next]_vars

(* Clients need not upload anything; a request that has begun, a process's *)
(* startup, its coordinator, its readers and its consumer calls go on as   *)
(* long as the process lives.                                              *)
FairSpec ==
    /\ Spec
    /\ \A p \in Proc : WF_vars(StartConsuming(p))
    /\ \A p \in Proc, k \in KB :
          /\ WF_vars(RedisDiscover(p, k))
          /\ WF_vars(RedisRead(p, k))
          /\ WF_vars(RedisAck(p, k) \/ RedisLeavePending(p, k))
    /\ \A p \in Proc, t \in Upload : WF_vars(LookUp(p, t) \/ RunSucceeds(p, t) \/ RunFails(p, t))
    /\ WF_vars(MemWake \/ MemTaskDone)
-------------------------------------------------------------------------------

(* submit_ingest's check and its INSERT are not one step, so two uploads   *)
(* that overlap may both be stored; two that do not overlap never are: the *)
(* later one finds what the earlier one left, even an earlier one that     *)
(* failed or was cut off.                                                  *)
SequentialUploadsAreDeduplicated ==
    \A d \in Proc : \A u \in docs[d] : before[u] \cap docs[d] = {}

(* The tenant boundary of deduplication: an upload is turned away only if  *)
(* its own knowledge base already has a request under way or stored for    *)
(* the same content.                                                       *)
RejectedOnlyForATwin ==
    \A u \in Upload : up[u] = "rejected" =>
        \E v \in Upload \ {u} :
            /\ Key(v) = Key(u)
            /\ up[v] \notin {"new", "checked", "rejected"}

(* A 202 is backed by something: until it is handed to a consumer the task *)
(* is in its stream, unless XADD's bound dropped it there, and afterwards  *)
(* it is pending or acknowledged in Redis, whatever processes died; the    *)
(* in-process queue keeps the promise only as long as its process lives.   *)
AcceptedIsHeld ==
    \A u \in Upload : up[u] = "accepted" =>
        \/ InRedis /\ (Redis!Waiting(u) \/ Redis!DroppedUnread(u) \/ u \in pel \cup acked)
        \/ InMemory /\ (Mem!Holds(u) \/ calls[u] > 0 \/ crashes > 0)

(* A consumer group hands an entry to one process only, and nothing ever   *)
(* claims a pending entry, so a task is never run twice: not by two        *)
(* workers, and not again after a crash.                                   *)
AtMostOneCall == \A u \in Upload : calls[u] <= 1

(* With one database for all processes, XACK follows a finished pipeline:  *)
(* what is acknowledged is done, never failed or half done.                *)
AckedIsDone ==
    InRedis /\ Shared /\ (deploy.durable \/ crashes = 0) =>
        \A p \in Proc : Live(p) => \A t \in acked : tasks[Db(p)][t] = "done"

(* queue.py's "fair round-robin": while a knowledge base has a task queued,*)
(* each other one gets at most two tasks in before it (two when its queue  *)
(* was created, or emptied, after the present pass looked at it).          *)
RoundRobin == \A k \in KB : overtaken[k] <= 2 * (Cardinality(KB) - 1)

(* In process: every accepted task reaches the consumer unless the process *)
(* dies.                                                                   *)
InProcessTaskIsRun ==
    (InMemory /\ \E u \in Upload : up[u] = "accepted")
        ~> (crashes > 0 \/ \A u \in Upload :
                              up[u] = "accepted" => work[u] \in {"returned", "raised"})

(* A stream that has a reader is drained: whatever a consumer call does,   *)
(* the entries behind it are reached, as long as the process lives.        *)
ReadStreamsDrain ==
    \A p \in Proc, k \in KB :
        (k \in readers[p] /\ Redis!Unread(k)) ~> (~Redis!Unread(k) \/ k \notin readers[p])

(* "New streams added after consume() are picked up by the background      *)
(* coordinator" (queue_redis.py:115-116): a stream of a consuming process  *)
(* has a reader there, or the coordinator will still find it.              *)
StreamsGetReaders ==
    \A p \in consuming, k \in KB :
        InRedis /\ log[k] # <<>> => k \in readers[p] \/ Redis!Undiscovered(p, k)

(* "on failure it stays pending and is reclaimed by the next XPENDING /    *)
(* XCLAIM cycle" (queue_redis.py:26-27): a pending entry nobody works on   *)
(* is acknowledged, dead-lettered or handed out again.                     *)
PendingIsReclaimed ==
    \A u \in Upload :
        (u \in pel /\ work[u] \in {"raised", "lost"})
            ~> (u \in acked \cup dlq \/ work[u] \notin {"raised", "lost"})
===============================================================================
