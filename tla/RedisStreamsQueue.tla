--------------------------- MODULE RedisStreamsQueue ---------------------------
(***************************************************************************)
(* ragx/ingestion/queue_redis.py: the queue of the full deployment.  One   *)
(* Redis stream per knowledge base, one consumer group shared by all       *)
(* processes, and in each process one reader coroutine per stream it has   *)
(* found, which reads one entry (read_count), awaits the consumer, and     *)
(* acknowledges.                                                           *)
(*                                                                         *)
(* The streams and the group's pending entries are Redis's and survive the *)
(* processes.  An entry is identified with the task id it carries: a task  *)
(* is enqueued once.                                                       *)
(***************************************************************************)
EXTENDS Naturals, Sequences

CONSTANTS
    Proc,    \* processes that run a RedisStreamsQueue
    KB,      \* knowledge bases
    Task,    \* task ids
    KbOf,    \* the knowledge base of a task
    NoTask,
    MaxLen   \* XADD's MAXLEN: 10000 in the code

VARIABLES
    log,        \* KB -> Seq(Task): every entry ever added
    trimmed,    \* KB -> how many of the oldest entries Redis has dropped
    cursor,     \* KB -> how many entries the group has handed out or passed
    pel,        \* entries handed out and not acknowledged
    delivered,  \* Task -> times_delivered
    acked,      \* entries acknowledged
    dlq,        \* tasks copied to the dead-letter stream
    known,      \* Proc -> _known_kbs
    readers,    \* Proc -> the streams that have a reader coroutine
    handling    \* Proc -> KB -> the task that reader's consumer call is about

redisVars == <<log, trimmed, cursor, pel, delivered, acked, dlq>>
clientVars == <<known, readers, handling>>
streamVars == <<redisVars, clientVars>>

NoStreams ==
    /\ log = [k \in KB |-> <<>>]
    /\ trimmed = [k \in KB |-> 0]
    /\ cursor = [k \in KB |-> 0]
    /\ pel = {}
    /\ delivered = [t \in Task |-> 0]
    /\ acked = {}
    /\ dlq = {}
    /\ known = [p \in Proc |-> {}]
    /\ readers = [p \in Proc |-> {}]
    /\ handling = [p \in Proc |-> [k \in KB |-> NoTask]]

(* enqueue: the knowledge base becomes known to this process, then XADD    *)
(* with an approximate MAXLEN, under which Redis may drop the oldest       *)
(* entries beyond it, delivered or not.                                    *)
XAdd(p, t) ==
    LET k == KbOf[t] IN
    /\ known' = [known EXCEPT ![p] = @ \cup {k}]
    /\ log' = [log EXCEPT ![k] = Append(@, t)]
    /\ trimmed' \in {[trimmed EXCEPT ![k] = n] :
                        n \in {trimmed[k]} \cup trimmed[k]..(Len(log'[k]) - MaxLen)}
    /\ UNCHANGED <<cursor, pel, delivered, acked, dlq, readers, handling>>

(* XADD raised: enqueue raises InfraError, but the knowledge base is known.*)
XAddFails(p, t) ==
    /\ known' = [known EXCEPT ![p] = @ \cup {KbOf[t]}]
    /\ UNCHANGED <<redisVars, readers, handling>>

(* consume: a reader for every stream known by now. *)
StartReaders(p) ==
    /\ readers' = [readers EXCEPT ![p] = known[p]]
    /\ UNCHANGED <<redisVars, known, handling>>

(* The coordinator's test on a stream the scan returned: "if key in        *)
(* self._streams: continue", where _streams lists the known ones.          *)
Undiscovered(p, k) == k \notin known[p]

(* _coordinator: a stream this process does not know gets a group and a    *)
(* reader.  _known_kbs is updated before _ensure_group, whose failure is   *)
(* logged and leaves the stream known without a reader.                    *)
Discover(p, k) ==
    /\ log[k] # <<>>
    /\ Undiscovered(p, k)
    /\ known' = [known EXCEPT ![p] = @ \cup {k}]
    /\ \/ readers' = [readers EXCEPT ![p] = @ \cup {k}]
       \/ UNCHANGED readers
    /\ UNCHANGED <<redisVars, handling>>

(* Entries the group has not handed out and Redis has not dropped. *)
Position(k) == IF cursor[k] < trimmed[k] THEN trimmed[k] ELSE cursor[k]

Unread(k) == Position(k) < Len(log[k])

MutantDeliverNoAck(p, k) ==
    /\ Unread(k)
    /\ handling' = [handling EXCEPT ![p][k] = log[k][Position(k) + 1]]
    /\ delivered' = [delivered EXCEPT ![log[k][Position(k) + 1]] = @ + 1]
    /\ cursor' = [cursor EXCEPT ![k] = Position(k) + 1]
    /\ UNCHANGED pel

(* XREADGROUP with id ">": the next entry nobody in the group was given. *)
Deliver(p, k) ==
    /\ Unread(k)
    /\ LET t == log[k][Position(k) + 1] IN
          /\ pel' = pel \cup {t}
          /\ delivered' = [delivered EXCEPT ![t] = @ + 1]
          /\ handling' = [handling EXCEPT ![p][k] = t]
    /\ cursor' = [cursor EXCEPT ![k] = Position(k) + 1]

MutantRead(p, k) ==
    /\ k \in readers[p]
    /\ handling[p][k] = NoTask
    /\ \/ Deliver(p, k)
       \/ \E t \in pel :
             /\ KbOf[t] = k
             /\ delivered' = [delivered EXCEPT ![t] = @ + 1]
             /\ handling' = [handling EXCEPT ![p][k] = t]
             /\ UNCHANGED <<cursor, pel>>
    /\ UNCHANGED <<log, trimmed, acked, dlq, known, readers>>

(* _worker: one entry, and the next only after this one was handled. *)
Read(p, k) ==
    /\ k \in readers[p]
    /\ handling[p][k] = NoTask
    /\ Deliver(p, k)
    /\ UNCHANGED <<log, trimmed, acked, dlq, known, readers>>

(* _handle: the consumer returned; XACK. *)
Ack(p, k) ==
    /\ pel' = pel \ {handling[p][k]}
    /\ acked' = acked \cup {handling[p][k]}
    /\ handling' = [handling EXCEPT ![p][k] = NoTask]
    /\ UNCHANGED <<log, trimmed, cursor, delivered, dlq, known, readers>>

MutantLeavePending(p, k) == Ack(p, k)

MutantReaderDies(p, k) == UNCHANGED streamVars

(* _retry_or_dlq: the consumer, or the XACK, raised.  The entry stays      *)
(* pending below three deliveries; from the third on it is copied to the   *)
(* dead-letter stream and acknowledged.                                    *)
LeavePending(p, k) ==
    LET t == handling[p][k] IN
    /\ IF delivered[t] >= 3
       THEN dlq' = dlq \cup {t} /\ pel' = pel \ {t} /\ acked' = acked \cup {t}
       ELSE UNCHANGED <<dlq, pel, acked>>
    /\ handling' = [handling EXCEPT ![p][k] = NoTask]
    /\ UNCHANGED <<log, trimmed, cursor, delivered, known, readers>>

(* The process ends: its coroutines and what it knew are gone. *)
ClientGone(p) ==
    /\ known' = [known EXCEPT ![p] = {}]
    /\ readers' = [readers EXCEPT ![p] = {}]
    /\ handling' = [handling EXCEPT ![p] = [k \in KB |-> NoTask]]
    /\ UNCHANGED redisVars

(* Where an added entry is: waiting in its stream, dropped from it unread, *)
(* pending with a consumer, or acknowledged.                               *)
Waiting(t) ==
    \E i \in DOMAIN log[KbOf[t]] : i > Position(KbOf[t]) /\ log[KbOf[t]][i] = t

DroppedUnread(t) ==
    /\ delivered[t] = 0
    /\ \E i \in 1..trimmed[KbOf[t]] : log[KbOf[t]][i] = t
===============================================================================
