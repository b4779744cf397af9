----------------------------- MODULE RateLimiter -----------------------------
(***************************************************************************)
(* ragx/api/middleware/ratelimit.py: token buckets in the process or, by   *)
(* Lua scripts, in Redis.  A bucket is named <<ring, name>>: the ring "ip" *)
(* in front of authentication or the ring "key" behind it.                 *)
(*                                                                         *)
(* Tokens are counted in a unit in which a request costs Cost and a time   *)
(* unit adds Rate, so that both are whole numbers.  One process uses the   *)
(* buckets; between processes whose clocks differ, the script would refill *)
(* a bucket at every change of process.                                    *)
(***************************************************************************)
EXTENDS Integers, FiniteSetsExt

CONSTANTS
    Burst, Rate,   \* ring -> capacity and refill per time unit
    Cost,          \* of one request
    LlmTokens,     \* charges that add_tokens may be called with
    MaxTime        \* bound on the clock

VARIABLES
    bucket,     \* name -> tokens and the time of their last refill
    redis,      \* whether Redis answers, and the scripts it has cached
    sha,        \* the scripts whose digest the process keeps
    now,
    spent       \* history: name -> requests let through since a time

limiterVars == <<bucket, redis, sha, now, spent>>

Rings == {"ip", "key"}

ASSUME LimiterConstants ==
    /\ Burst \in [Rings -> Nat] /\ Rate \in [Rings -> Nat \ {0}]
    /\ Cost \in Nat \ {0} /\ LlmTokens \subseteq Nat /\ MaxTime \in Nat

LimiterInit ==
    /\ bucket = <<>> /\ spent = <<>>
    /\ redis = [up |-> TRUE, scripts |-> {}] /\ sha = {}
    /\ now = 0

(* The entry of k is written; there may have been none. *)
Put(entries, k, entry) ==
    [j \in DOMAIN entries \cup {k} |-> IF j = k THEN entry ELSE entries[j]]

BucketOf(k) == IF k \in DOMAIN bucket THEN bucket[k] ELSE [tokens |-> Burst[k[1]], ts |-> now]

MutantRefill(k) == [tokens |-> BucketOf(k).tokens + (now - BucketOf(k).ts) * Rate[k[1]], ts |-> now]

(* _refill, and the head of both scripts. *)
Refill(k) ==
    [tokens |-> Min({Burst[k[1]], BucketOf(k).tokens + (now - BucketOf(k).ts) * Rate[k[1]]}),
     ts |-> now]

Admits(k) == Refill(k).tokens >= Cost

(* _TokenBucket.acquire and _TOKEN_BUCKET_LUA: the refill is kept also by  *)
(* a request that is refused.                                              *)
Take(k) ==
    /\ bucket' = Put(bucket, k, [Refill(k) EXCEPT !.tokens = IF Admits(k) THEN @ - Cost ELSE @])
    /\ LET old == IF k \in DOMAIN spent THEN spent[k] ELSE [count |-> 0, since |-> now]
       IN  spent' = Put(spent, k, [old EXCEPT !.count = IF Admits(k) THEN @ + 1 ELSE @])

(* A script can be run: its digest is loaded first, but never again, also  *)
(* when a restarted Redis has forgotten the script.                        *)
Runs(script) == redis.up /\ (script \notin sha \/ script \in redis.scripts)
Load(script) ==
    /\ redis' = [redis EXCEPT !.scripts = IF redis.up /\ script \notin sha THEN @ \cup {script} ELSE @]
    /\ sha' = IF redis.up THEN sha \cup {script} ELSE sha

(* acquire: ok is whether the request is let through.  Redis failing is a  *)
(* request let through.                                                    *)
Acquire(shared, k, ok) ==
    /\ IF shared THEN Load("bucket") ELSE UNCHANGED <<redis, sha>>
    /\ IF shared /\ ~Runs("bucket")
       THEN ok /\ UNCHANGED <<bucket, spent>>
       ELSE ok = Admits(k) /\ Take(k)
    /\ UNCHANGED now

Charged(k, count) == [Refill(k) EXCEPT !.tokens = Max({0, @ - count})]

(* add_tokens: LLM usage eats into the bucket.  Nothing in the application *)
(* calls it.                                                               *)
AddTokens(shared, k, count) ==
    /\ IF shared THEN Load("add") ELSE UNCHANGED <<redis, sha>>
    /\ IF shared /\ ~Runs("add")
       THEN UNCHANGED bucket
       ELSE bucket' = Put(bucket, k, Charged(k, count))
    /\ UNCHANGED <<now, spent>>

(* EXPIRE of the scripts: a bucket that would be full again may go. *)
TimeToLive(ring) == (Burst[ring] + Rate[ring] - 1) \div Rate[ring] + 1

ExpireBucket(k) ==
    /\ k \in DOMAIN bucket
    /\ now >= bucket[k].ts + TimeToLive(k[1])
    /\ bucket' = [j \in DOMAIN bucket \ {k} |-> bucket[j]]
    /\ UNCHANGED <<redis, sha, now, spent>>

Tick ==
    /\ now < MaxTime
    /\ now' = now + 1
    /\ UNCHANGED <<bucket, redis, sha, spent>>

RedisGoesDown ==
    /\ redis.up
    /\ redis' = [redis EXCEPT !.up = FALSE]
    /\ UNCHANGED <<bucket, sha, now, spent>>

(* Redis is reachable again, after a restart without its scripts (and, if  *)
(* it does not persist, without the buckets: a new history).               *)
RedisComesBack ==
    /\ ~redis.up
    /\ \E restarted, lost \in BOOLEAN :
        /\ lost => restarted
        /\ redis' = [up |-> TRUE, scripts |-> IF restarted THEN {} ELSE redis.scripts]
        /\ bucket' = IF lost THEN <<>> ELSE bucket
        /\ spent' = IF lost THEN <<>> ELSE spent
    /\ UNCHANGED <<sha, now>>

(* The process ends: its own buckets, and what it remembered of Redis. *)
LimiterRestart(shared) ==
    /\ sha' = {}
    /\ bucket' = IF shared THEN bucket ELSE <<>>
    /\ spent' = IF shared THEN spent ELSE <<>>
    /\ UNCHANGED <<redis, now>>

(* However requests, refusals, charges, expiry and Redis failures are      *)
(* ordered, a bucket lets through no more than its burst and what has been *)
(* refilled since it came into being, and holds no more than its capacity  *)
(* (_refill, acquire, add_tokens, _TOKEN_BUCKET_LUA with its EXPIRE).      *)
BucketsHold ==
    /\ \A k \in DOMAIN spent :
        spent[k].count * Cost <= Burst[k[1]] + Rate[k[1]] * (now - spent[k].since)
    /\ \A k \in DOMAIN bucket : bucket[k].tokens \in 0..Burst[k[1]]
================================================================================
