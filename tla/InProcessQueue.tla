---------------------------- MODULE InProcessQueue ----------------------------
(***************************************************************************)
(* ragx/ingestion/queue.py: the queue of the lite deployment.  One         *)
(* asyncio.Queue per knowledge base and one worker coroutine that visits   *)
(* them in turn, one task per visit, awaiting the consumer in line.        *)
(*                                                                         *)
(* The worker looks at the queues only between two awaits, so choosing the *)
(* next task is one step: what is left of the present pass is scanned      *)
(* first, then, in a new pass, a snapshot of all queues.                   *)
(***************************************************************************)
EXTENDS Naturals, Sequences

CONSTANTS
    KB,      \* knowledge bases
    Task,    \* task ids
    KbOf,    \* the knowledge base of a task
    NoTask

VARIABLES
    queues,   \* KB -> Seq(Task)
    order,    \* the knowledge bases in the order their queues were created
    rest,     \* knowledge bases the present pass has still to visit
    current   \* the task the consumer is working on, or NoTask

queueVars == <<queues, order, rest, current>>

Empty ==
    /\ queues = [k \in KB |-> <<>>]
    /\ order = <<>>
    /\ rest = <<>>
    /\ current = NoTask

(* enqueue: setdefault creates the knowledge base's queue; put never       *)
(* blocks, the queue is unbounded.                                         *)
Enqueue(t) ==
    LET k == KbOf[t] IN
    /\ queues' = [queues EXCEPT ![k] = Append(@, t)]
    /\ order' = IF \E i \in DOMAIN order : order[i] = k THEN order ELSE Append(order, k)
    /\ UNCHANGED <<rest, current>>

(* The first knowledge base of a pass that has something queued. *)
First(seq, i) ==
    /\ i \in DOMAIN seq
    /\ queues[seq[i]] # <<>>
    /\ \A j \in 1..(i - 1) : queues[seq[j]] = <<>>

MutantHasWork(seq) == seq # <<>> /\ queues[seq[1]] # <<>>

(* Some queue of seq has a task. *)
HasWork(seq) == \E i \in DOMAIN seq : queues[seq[i]] # <<>>

MutantPass(seq) == order

(* What the scan goes through: the rest of this pass, or a new snapshot. *)
Pass(seq) == IF HasWork(seq) THEN seq ELSE order

TakeFrom(seq) ==
    \E i \in DOMAIN seq :
        /\ First(seq, i)
        /\ current' = Head(queues[seq[i]])
        /\ queues' = [queues EXCEPT ![seq[i]] = Tail(@)]
        /\ rest' = SubSeq(seq, i + 1, Len(seq))
        /\ UNCHANGED order

(* The worker wakes from its sleep and finds work. *)
Wake ==
    /\ current = NoTask
    /\ HasWork(order)
    /\ TakeFrom(order)

(* The consumer returned, or raised and was logged: the task is dropped    *)
(* either way, and the scan goes on without an await.                      *)
TaskDone ==
    /\ current # NoTask
    /\ \/ HasWork(order) /\ TakeFrom(Pass(rest))
       \/ /\ ~HasWork(order)
          /\ current' = NoTask
          /\ rest' = <<>>
          /\ UNCHANGED <<queues, order>>

(* The process is gone, and the queues with it. *)
Lose ==
    /\ queues' = [k \in KB |-> <<>>]
    /\ order' = <<>>
    /\ rest' = <<>>
    /\ current' = NoTask

Holds(t) == current = t \/ \E i \in DOMAIN queues[KbOf[t]] : queues[KbOf[t]][i] = t
===============================================================================
