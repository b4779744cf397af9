--------------------------- MODULE RateLimiterProofs ---------------------------
(***************************************************************************)
(* What the token buckets of RateLimiter let through, for every capacity,  *)
(* rate and cost, and any number of callers.                               *)
(*                                                                         *)
(* BucketsHold counts requests; the scripts count tokens.  The invariant   *)
(* LimiterInv ties them: the cost of what a bucket has let through and the *)
(* tokens it still holds add up to no more than its burst and what was     *)
(* refilled until its last refill.  A bucket that has expired comes back   *)
(* full, which is sound because TimeToLive is long enough to fill it.      *)
(***************************************************************************)
EXTENDS RateLimiter, TLAPS

(* The history of a bucket; of one that is new, an empty one. *)
Spent(k) == IF k \in DOMAIN spent THEN spent[k] ELSE [count |-> 0, since |-> now]

History == [count : Nat, since : Nat]
Level == [tokens : Nat, ts : Nat]

Histories ==
    \A k \in DOMAIN spent : k[1] \in Rings /\ spent[k] \in History /\ spent[k].since <= now

Levels ==
    \A k \in DOMAIN bucket :
        /\ bucket[k] \in Level /\ bucket[k].tokens <= Burst[k[1]]
        /\ spent[k].since <= bucket[k].ts /\ bucket[k].ts <= now
        /\ spent[k].count * Cost + bucket[k].tokens
              <= Burst[k[1]] + Rate[k[1]] * (bucket[k].ts - spent[k].since)

Expired ==
    \A k \in DOMAIN spent \ DOMAIN bucket :
        spent[k].count * Cost <= Rate[k[1]] * (now - spent[k].since)

LimiterInv ==
    /\ now \in Nat
    /\ DOMAIN bucket \subseteq DOMAIN spent
    /\ Histories /\ Levels /\ Expired
-------------------------------------------------------------------------------
(* The smaller of two numbers. *)
LEMMA MinOfTwo ==
    ASSUME NEW a \in Int, NEW b \in Int
    PROVE  Min({a, b}) \in {a, b} /\ Min({a, b}) <= a /\ Min({a, b}) <= b
<1>1. \E x \in {a, b} : \A y \in {a, b} : x <= y
  <2>1. CASE a <= b
    BY <2>1
  <2>2. CASE b <= a
    BY <2>2
  <2> QED
    BY <2>1, <2>2
<1> QED
  BY <1>1 DEF Min

(* And the larger. *)
LEMMA MaxOfTwo ==
    ASSUME NEW a \in Int, NEW b \in Int
    PROVE  Max({a, b}) \in {a, b} /\ Max({a, b}) >= a /\ Max({a, b}) >= b
<1>1. \E x \in {a, b} : \A y \in {a, b} : x >= y
  <2>1. CASE a <= b
    BY <2>1
  <2>2. CASE b <= a
    BY <2>2
  <2> QED
    BY <2>1, <2>2
<1> QED
  BY <1>1 DEF Max

(* Products grow with their factors. *)
LEMMA Grows ==
    ASSUME NEW r \in Nat, NEW m \in Nat, NEW n \in Nat, m <= n
    PROVE  r * m \in Nat /\ r * n \in Nat /\ r * m <= r * n
<1>1. PICK d \in Nat : n = m + d
  <2>1. n - m \in Nat /\ n = m + (n - m)
    OBVIOUS
  <2> QED
    BY <2>1
<1>2. r * n = r * m + r * d /\ r * d \in Nat /\ r * m \in Nat
  BY <1>1
<1> QED
  BY <1>2

(* A product of a sum, and that products of naturals are naturals. *)
LEMMA Distributes ==
    ASSUME NEW r \in Nat, NEW m \in Nat, NEW n \in Nat
    PROVE  r * (m + n) = r * m + r * n /\ r * m \in Nat /\ r * n \in Nat
OBVIOUS

(* ceil(burst / rate) + 1 time units fill a bucket. *)
LEMMA TimeToLiveFills ==
    ASSUME NEW ring \in Rings
    PROVE  TimeToLive(ring) \in Nat /\ Burst[ring] <= Rate[ring] * TimeToLive(ring)
<1>1. PICK b \in Nat : b = Burst[ring]
  BY LimiterConstants
<1>2. PICK r \in Nat \ {0} : r = Rate[ring]
  BY LimiterConstants
<1>3. PICK a \in Nat : a = b + r - 1
  <2>1. b + r - 1 \in Nat
    OBVIOUS
  <2> QED
    BY <2>1
<1>4. PICK q \in Nat : q = a \div r /\ a < r * (q + 1)
  <2>1. a \div r \in Nat /\ a % r \in 0..(r - 1) /\ a = r * (a \div r) + (a % r)
    OBVIOUS
  <2>2. r * ((a \div r) + 1) = r * (a \div r) + r
    BY <2>1
  <2> QED
    BY <2>1, <2>2
<1>5. TimeToLive(ring) = q + 1
  BY <1>1, <1>2, <1>3, <1>4 DEF TimeToLive
<1> QED
  BY <1>1, <1>2, <1>3, <1>4, <1>5

(* What a refill gives: the tokens in the bucket with the cost of what it  *)
(* has let through stay within burst and refill.                           *)
LEMMA RefillLevel ==
    ASSUME LimiterInv, NEW k, k[1] \in Rings
    PROVE  /\ Refill(k) \in Level /\ Refill(k).ts = now /\ Refill(k).tokens <= Burst[k[1]]
           /\ Spent(k) \in History /\ Spent(k).since <= now
           /\ Spent(k).count * Cost + Refill(k).tokens
                 <= Burst[k[1]] + Rate[k[1]] * (now - Spent(k).since)
<1>0. now \in Nat /\ DOMAIN bucket \subseteq DOMAIN spent /\ Histories /\ Levels /\ Expired
  BY DEF LimiterInv
<1>1. PICK b \in Nat, r \in Nat \ {0}, c \in Nat \ {0} : b = Burst[k[1]] /\ r = Rate[k[1]] /\ c = Cost
  BY LimiterConstants
<1>2. PICK count \in Nat, since \in Nat :
          Spent(k) = [count |-> count, since |-> since] /\ since <= now
  <2>1. CASE k \in DOMAIN spent
    <3>1. Spent(k) = spent[k] /\ spent[k] \in History /\ spent[k].since <= now
      BY <1>0, <2>1 DEF Spent, Histories
    <3> QED
      BY <3>1 DEF History
  <2>2. CASE k \notin DOMAIN spent
    BY <1>0, <2>2 DEF Spent
  <2> QED
    BY <2>1, <2>2
<1>3. Spent(k) \in History /\ Spent(k).count = count /\ Spent(k).since = since
  BY <1>2 DEF History
<1>4. PICK tokens \in Nat, ts \in Nat :
          /\ BucketOf(k) = [tokens |-> tokens, ts |-> ts]
          /\ tokens <= b /\ since <= ts /\ ts <= now
          /\ count * c + tokens <= b + r * (ts - since)
  <2>1. CASE k \in DOMAIN bucket
    <3>1. BucketOf(k) = bucket[k] /\ Spent(k) = spent[k]
      BY <1>0, <2>1 DEF BucketOf, Spent
    <3>2. /\ bucket[k] \in Level /\ bucket[k].tokens <= b
          /\ since <= bucket[k].ts /\ bucket[k].ts <= now
          /\ count * c + bucket[k].tokens <= b + r * (bucket[k].ts - since)
      BY <1>0, <1>1, <1>3, <2>1, <3>1 DEF Levels
    <3> QED
      BY <3>1, <3>2 DEF Level
  <2>2. CASE k \notin DOMAIN bucket
    <3>1. BucketOf(k) = [tokens |-> b, ts |-> now]
      BY <1>1, <2>2 DEF BucketOf
    <3>2. count * c <= r * (now - since)
      <4>1. CASE k \in DOMAIN spent
        BY <1>0, <1>1, <1>3, <2>2, <4>1 DEF Expired, Spent
      <4>2. CASE k \notin DOMAIN spent
        <5>1. count = 0 /\ since = now
          BY <1>0, <1>3, <4>2 DEF Spent
        <5> QED
          BY <1>0, <5>1
      <4> QED
        BY <4>1, <4>2
    <3> QED
      BY <1>0, <1>1, <1>2, <3>1, <3>2
  <2> QED
    BY <2>1, <2>2
<1>5. PICK m \in Nat : m = now - ts
  BY <1>0, <1>4
<1>6. PICK n \in Nat : n = ts - since
  BY <1>4
<1>7. r * m \in Nat /\ r * n \in Nat /\ r * (now - since) = r * n + r * m
  <2>1. now - since = n + m
    BY <1>0, <1>5, <1>6
  <2> QED
    BY <2>1, Distributes
<1>8. PICK full \in Nat : full = tokens + r * m
  BY <1>7
<1>9. Refill(k) = [tokens |-> Min({b, full}), ts |-> now]
  <2>1. (now - BucketOf(k).ts) * Rate[k[1]] = r * m /\ BucketOf(k).tokens = tokens
    BY <1>1, <1>4, <1>5
  <2> QED
    BY <1>1, <1>8, <2>1 DEF Refill
<1>10. PICK low \in Nat : low = Min({b, full}) /\ low <= b /\ low <= full
  <2>1. b \in Int /\ full \in Int
    BY <1>1, <1>8
  <2>2. Min({b, full}) \in {b, full} /\ Min({b, full}) <= b /\ Min({b, full}) <= full
    BY <2>1, MinOfTwo
  <2> QED
    BY <1>1, <1>8, <2>2
<1>11. count * c + low <= b + r * (now - since)
  <2>1. count * c \in Nat
    BY <1>1
  <2>2. count * c + tokens <= b + r * n
    BY <1>4, <1>6
  <2> QED
    BY <1>7, <1>8, <1>10, <2>1, <2>2
<1> QED
  BY <1>0, <1>1, <1>2, <1>3, <1>9, <1>10, <1>11 DEF Level

(* The new entries are the old ones with one of them written. *)
Written(old, new, k, entry) ==
    /\ DOMAIN new = {k} \cup DOMAIN old /\ new[k] = entry
    /\ \A j \in DOMAIN old : j # k => new[j] = old[j]

(* A bucket is written anew, with a history that accounts for it. *)
LEMMA BucketWritten ==
    ASSUME LimiterInv, NEW k, k[1] \in Rings, now' = now,
           NEW level \in Level, NEW history \in History,
           level.ts = now, level.tokens <= Burst[k[1]], history.since <= now,
           history.count * Cost + level.tokens
              <= Burst[k[1]] + Rate[k[1]] * (now - history.since),
           Written(bucket, bucket', k, level), Written(spent, spent', k, history)
    PROVE  LimiterInv'
<1>0. now \in Nat /\ DOMAIN bucket \subseteq DOMAIN spent /\ Histories /\ Levels /\ Expired
  BY DEF LimiterInv
<1>1. /\ DOMAIN bucket' = {k} \cup DOMAIN bucket /\ bucket'[k] = level
      /\ \A j \in DOMAIN bucket : j # k => bucket'[j] = bucket[j]
  BY DEF Written
<1>2. /\ DOMAIN spent' = {k} \cup DOMAIN spent /\ spent'[k] = history
      /\ \A j \in DOMAIN spent : j # k => spent'[j] = spent[j]
  BY DEF Written
<1>3. Histories'
  BY <1>0, <1>2 DEF Histories
<1>4. Levels'
  <2> SUFFICES ASSUME NEW j \in DOMAIN bucket'
               PROVE  /\ bucket'[j] \in Level /\ bucket'[j].tokens <= Burst[j[1]]
                      /\ spent'[j].since <= bucket'[j].ts /\ bucket'[j].ts <= now
                      /\ spent'[j].count * Cost + bucket'[j].tokens
                            <= Burst[j[1]] + Rate[j[1]] * (bucket'[j].ts - spent'[j].since)
    BY DEF Levels
  <2>1. CASE j = k
    BY <1>0, <1>1, <1>2, <2>1
  <2>2. CASE j # k
    <3>1. j \in DOMAIN bucket /\ bucket'[j] = bucket[j] /\ spent'[j] = spent[j]
      BY <1>0, <1>1, <1>2, <2>2
    <3> QED
      BY <1>0, <3>1 DEF Levels
  <2> QED
    BY <2>1, <2>2
<1>5. Expired'
  <2>1. \A j \in DOMAIN spent' \ DOMAIN bucket' :
           j \in DOMAIN spent \ DOMAIN bucket /\ spent'[j] = spent[j]
    BY <1>1, <1>2
  <2> QED
    BY <1>0, <2>1 DEF Expired
<1> QED
  BY <1>0, <1>1, <1>2, <1>3, <1>4, <1>5 DEF LimiterInv

(* acquire: a refused request keeps the refill, one let through pays.      *)
LEMMA TakeKeeps ==
    ASSUME LimiterInv, NEW k, k[1] \in Rings, Take(k), now' = now
    PROVE  LimiterInv'
<1>1. /\ Refill(k) \in Level /\ Refill(k).ts = now /\ Refill(k).tokens <= Burst[k[1]]
      /\ Spent(k) \in History /\ Spent(k).since <= now
      /\ Spent(k).count * Cost + Refill(k).tokens
            <= Burst[k[1]] + Rate[k[1]] * (now - Spent(k).since)
  BY RefillLevel
<1>2. /\ bucket' = Put(bucket, k, [Refill(k) EXCEPT !.tokens = IF Admits(k) THEN @ - Cost ELSE @])
      /\ spent' = Put(spent, k, [Spent(k) EXCEPT !.count = IF Admits(k) THEN @ + 1 ELSE @])
  BY DEF Take, Spent
<1>3. PICK c \in Nat \ {0}, b \in Nat : c = Cost /\ b = Burst[k[1]]
  BY LimiterConstants
<1>4. PICK level \in Level, history \in History :
          /\ level = [Refill(k) EXCEPT !.tokens = IF Admits(k) THEN @ - Cost ELSE @]
          /\ history = [Spent(k) EXCEPT !.count = IF Admits(k) THEN @ + 1 ELSE @]
          /\ level.ts = now /\ level.tokens <= b /\ history.since = Spent(k).since
          /\ history.count * c + level.tokens = Spent(k).count * c + Refill(k).tokens
  <2>1. CASE Admits(k)
    <3>1. PICK tokens \in Nat, count \in Nat :
              /\ tokens = Refill(k).tokens - c /\ count = Spent(k).count + 1
              /\ tokens <= b
              /\ count * c + tokens = Spent(k).count * c + Refill(k).tokens
      <4>1. Refill(k).tokens \in Nat /\ Spent(k).count \in Nat /\ Refill(k).tokens >= c
        BY <1>1, <1>3, <2>1 DEF Level, History, Admits
      <4>2. (Spent(k).count + 1) * c = Spent(k).count * c + c
        BY <4>1
      <4>3. Spent(k).count * c \in Nat
        BY <4>1
      <4>4. /\ Refill(k).tokens - c \in Nat /\ Refill(k).tokens - c <= b
            /\ (Spent(k).count + 1) * c + (Refill(k).tokens - c)
                  = Spent(k).count * c + Refill(k).tokens
        BY <1>1, <1>3, <4>1, <4>2, <4>3
      <4> QED
        BY <4>1, <4>4
    <3>2. /\ [Refill(k) EXCEPT !.tokens = tokens] \in Level
          /\ [Refill(k) EXCEPT !.tokens = tokens].ts = now
          /\ [Refill(k) EXCEPT !.tokens = tokens].tokens = tokens
      BY <1>1 DEF Level
    <3>3. /\ [Spent(k) EXCEPT !.count = count] \in History
          /\ [Spent(k) EXCEPT !.count = count].since = Spent(k).since
          /\ [Spent(k) EXCEPT !.count = count].count = count
      BY <1>1 DEF History
    <3>4. /\ [Refill(k) EXCEPT !.tokens = IF Admits(k) THEN @ - Cost ELSE @]
                = [Refill(k) EXCEPT !.tokens = tokens]
          /\ [Spent(k) EXCEPT !.count = IF Admits(k) THEN @ + 1 ELSE @]
                = [Spent(k) EXCEPT !.count = count]
      BY <1>3, <2>1, <3>1
    <3> QED
      BY <3>1, <3>2, <3>3, <3>4, ZenonT(60)
  <2>2. CASE ~Admits(k)
    <3>1. /\ [Refill(k) EXCEPT !.tokens = IF Admits(k) THEN @ - Cost ELSE @] = Refill(k)
          /\ [Spent(k) EXCEPT !.count = IF Admits(k) THEN @ + 1 ELSE @] = Spent(k)
      BY <1>1, <2>2 DEF Level, History
    <3> QED
      BY <1>1, <1>3, <3>1
  <2> QED
    BY <2>1, <2>2
<1> QED
  <2>1. Written(bucket, bucket', k, level) /\ Written(spent, spent', k, history)
    BY <1>2, <1>4 DEF Put, Written
  <2> QED
    BY <1>1, <1>3, <1>4, <2>1, BucketWritten

(* acquire, in the process or by the script, which Redis may not run. *)
LEMMA AcquireKeeps ==
    ASSUME LimiterInv, NEW shared, NEW k, k[1] \in Rings, NEW ok, Acquire(shared, k, ok)
    PROVE  LimiterInv'
<1>1. CASE Take(k)
  BY <1>1, TakeKeeps DEF Acquire
<1>2. CASE UNCHANGED <<bucket, spent>>
  BY <1>2 DEF Acquire, LimiterInv, Histories, Levels, Expired
<1> QED
  BY <1>1, <1>2 DEF Acquire

(* add_tokens takes tokens away, and nothing below zero. *)
LEMMA AddTokensKeeps ==
    ASSUME LimiterInv, NEW shared, NEW k \in DOMAIN bucket, NEW count \in LlmTokens,
           AddTokens(shared, k, count)
    PROVE  LimiterInv'
<1>0. now' = now /\ spent' = spent
  BY DEF AddTokens
<1>1. CASE UNCHANGED bucket
  BY <1>0, <1>1 DEF LimiterInv, Histories, Levels, Expired
<1>2. CASE bucket' = Put(bucket, k, Charged(k, count))
  <2>1. k \in DOMAIN spent /\ k[1] \in Rings /\ Spent(k) = spent[k]
    BY DEF LimiterInv, Histories, Spent
  <2>2. /\ Refill(k) \in Level /\ Refill(k).ts = now /\ Refill(k).tokens <= Burst[k[1]]
        /\ Spent(k) \in History /\ Spent(k).since <= now
        /\ Spent(k).count * Cost + Refill(k).tokens
              <= Burst[k[1]] + Rate[k[1]] * (now - Spent(k).since)
    BY <2>1, RefillLevel
  <2>3. PICK level \in Level : level = Charged(k, count) /\ level.ts = now
                               /\ level.tokens <= Refill(k).tokens
    <3>1. Refill(k).tokens \in Nat /\ count \in Nat
      BY <2>2, LimiterConstants DEF Level
    <3>2. PICK d \in Int : d = Refill(k).tokens - count /\ d <= Refill(k).tokens
      BY <3>1
    <3>3. Max({0, d}) \in {0, d} /\ Max({0, d}) >= 0 /\ Max({0, d}) >= d
      BY MaxOfTwo
    <3>4. PICK t \in Nat : t = Max({0, d}) /\ t <= Refill(k).tokens
      BY <3>1, <3>2, <3>3
    <3>5. Charged(k, count) = [Refill(k) EXCEPT !.tokens = t]
      BY <3>2, <3>4 DEF Charged
    <3> QED
      BY <2>2, <3>4, <3>5 DEF Level
  <2>4. level.tokens <= Burst[k[1]]
        /\ Spent(k).count * Cost + level.tokens
              <= Burst[k[1]] + Rate[k[1]] * (now - Spent(k).since)
    <3>1. PICK b \in Nat, r \in Nat, c \in Nat : b = Burst[k[1]] /\ r = Rate[k[1]] /\ c = Cost
      BY <2>1, LimiterConstants
    <3>2. PICK n \in Nat, m \in Nat : n = Spent(k).count /\ m = now - Spent(k).since
      BY <2>2 DEF LimiterInv, History
    <3>3. n * c \in Nat /\ r * m \in Nat
      BY <3>1, <3>2
    <3>4. level.tokens \in Nat /\ Refill(k).tokens \in Nat
      BY <2>2 DEF Level
    <3> QED
      BY <2>2, <2>3, <3>1, <3>2, <3>3, <3>4
  <2>5. Written(bucket, bucket', k, level) /\ Written(spent, spent', k, Spent(k))
    <3>1. Written(bucket, bucket', k, level)
      BY <1>2, <2>3 DEF Put, Written
    <3>2. Written(spent, spent', k, Spent(k))
      BY <1>0, <2>1 DEF Written
    <3> QED
      BY <3>1, <3>2
  <2>6. PICK history \in History : history = Spent(k)
    BY <2>2
  <2> QED
    BY <1>0, <2>1, <2>2, <2>3, <2>4, <2>5, <2>6, BucketWritten
<1> QED
  BY <1>1, <1>2 DEF AddTokens

(* EXPIRE removes a bucket only once it would be full. *)
LEMMA ExpireKeeps ==
    ASSUME LimiterInv, NEW k, ExpireBucket(k)
    PROVE  LimiterInv'
<1>0. /\ now \in Nat /\ DOMAIN bucket \subseteq DOMAIN spent /\ Histories /\ Levels /\ Expired
      /\ k \in DOMAIN bucket /\ UNCHANGED <<now, spent>>
  BY DEF LimiterInv, ExpireBucket
<1>1. /\ DOMAIN bucket' = DOMAIN bucket \ {k}
      /\ \A j \in DOMAIN bucket' : bucket'[j] = bucket[j]
  BY DEF ExpireBucket
<1>2. Histories' /\ Levels'
  BY <1>0, <1>1 DEF Histories, Levels
<1>3. spent[k].count * Cost <= Rate[k[1]] * (now - spent[k].since)
  <2>1. /\ k[1] \in Rings /\ spent[k] \in History /\ bucket[k] \in Level
        /\ spent[k].since <= bucket[k].ts /\ bucket[k].ts <= now
        /\ spent[k].count * Cost + bucket[k].tokens
              <= Burst[k[1]] + Rate[k[1]] * (bucket[k].ts - spent[k].since)
    BY <1>0 DEF Histories, Levels
  <2>2. PICK b \in Nat, r \in Nat, c \in Nat : b = Burst[k[1]] /\ r = Rate[k[1]] /\ c = Cost
    BY <2>1, LimiterConstants
  <2>3. PICK count \in Nat, since \in Nat, tokens \in Nat, ts \in Nat :
            /\ count = spent[k].count /\ since = spent[k].since
            /\ tokens = bucket[k].tokens /\ ts = bucket[k].ts
    BY <2>1 DEF History, Level
  <2>4. PICK live \in Nat : live = TimeToLive(k[1]) /\ b <= r * live /\ now >= ts + live
    BY <2>1, <2>2, <2>3, TimeToLiveFills DEF ExpireBucket
  <2>5. PICK n \in Nat : n = ts - since
    BY <2>1, <2>3
  <2>6. PICK m \in Nat : m = now - since /\ n + live <= m
    BY <1>0, <2>1, <2>3, <2>4, <2>5
  <2>7. r * (n + live) = r * n + r * live /\ r * n \in Nat /\ r * live \in Nat
    BY Distributes
  <2>8. r * (n + live) <= r * m /\ r * m \in Nat
    <3>1. n + live \in Nat
      OBVIOUS
    <3> QED
      BY <2>6, <3>1, Grows
  <2>9. count * c + tokens <= b + r * n /\ count * c \in Nat
    BY <2>1, <2>2, <2>3, <2>5
  <2>10. count * c <= r * m
    BY <2>4, <2>7, <2>8, <2>9
  <2> QED
    BY <2>2, <2>3, <2>6, <2>10
<1>4. Expired'
  BY <1>0, <1>1, <1>3 DEF Expired
<1> QED
  BY <1>0, <1>1, <1>2, <1>4 DEF LimiterInv

(* Time only adds to what may be let through. *)
LEMMA TickKeeps ==
    ASSUME LimiterInv, Tick
    PROVE  LimiterInv'
<1>0. /\ now \in Nat /\ DOMAIN bucket \subseteq DOMAIN spent /\ Histories /\ Levels /\ Expired
      /\ now' = now + 1 /\ UNCHANGED <<bucket, spent>>
  BY DEF LimiterInv, Tick
<1>1. Histories'
  BY <1>0 DEF Histories, History
<1>2. Levels'
  <2> SUFFICES ASSUME NEW k \in DOMAIN bucket
               PROVE  bucket[k].ts <= now'
    BY <1>0 DEF Levels
  <2>1. bucket[k].ts \in Nat /\ bucket[k].ts <= now
    BY <1>0 DEF Levels, Level
  <2> QED
    BY <1>0, <2>1
<1>3. Expired'
  <2> SUFFICES ASSUME NEW k \in DOMAIN spent \ DOMAIN bucket
               PROVE  spent[k].count * Cost <= Rate[k[1]] * (now' - spent[k].since)
    BY <1>0 DEF Expired
  <2>1. /\ k[1] \in Rings /\ spent[k] \in History /\ spent[k].since <= now
        /\ spent[k].count * Cost <= Rate[k[1]] * (now - spent[k].since)
    BY <1>0 DEF Histories, Expired
  <2>2. PICK r \in Nat, c \in Nat : r = Rate[k[1]] /\ c = Cost
    BY <2>1, LimiterConstants
  <2>3. PICK count \in Nat, m \in Nat : count = spent[k].count /\ m = now - spent[k].since
    BY <1>0, <2>1 DEF History
  <2>4. now' - spent[k].since = m + 1
    BY <1>0, <2>1, <2>3 DEF History
  <2>5. r * m <= r * (m + 1) /\ r * m \in Nat /\ r * (m + 1) \in Nat
    <3>1. m + 1 \in Nat /\ m <= m + 1
      OBVIOUS
    <3> QED
      BY <3>1, Grows
  <2>6. count * c \in Nat /\ count * c <= r * m
    BY <2>1, <2>2, <2>3
  <2> QED
    BY <2>2, <2>3, <2>4, <2>5, <2>6
<1> QED
  BY <1>0, <1>1, <1>2, <1>3 DEF LimiterInv

(* Buckets and their histories are lost together: with a Redis that does   *)
(* not persist, or with the process.                                       *)
LEMMA LossKeeps ==
    ASSUME LimiterInv, now' = now,
           UNCHANGED <<bucket, spent>> \/ (bucket' = <<>> /\ spent' = <<>>)
    PROVE  LimiterInv'
BY DEF LimiterInv, Histories, Levels, Expired

(* A bucket that holds its invariant has let through no more than its      *)
(* burst and what was refilled since its history began.                    *)
LEMMA InvariantHoldsBuckets == LimiterInv => BucketsHold
<1> SUFFICES ASSUME LimiterInv PROVE BucketsHold
  OBVIOUS
<1>1. \A k \in DOMAIN bucket : bucket[k].tokens \in 0..Burst[k[1]]
  <2> TAKE k \in DOMAIN bucket
  <2>1. bucket[k].tokens \in Nat /\ bucket[k].tokens <= Burst[k[1]] /\ Burst[k[1]] \in Nat
    BY LimiterConstants DEF LimiterInv, Histories, Levels, Level
  <2> QED
    BY <2>1
<1>2. \A k \in DOMAIN spent :
          spent[k].count * Cost <= Burst[k[1]] + Rate[k[1]] * (now - spent[k].since)
  <2> TAKE k \in DOMAIN spent
  <2>1. k[1] \in Rings /\ Spent(k) = spent[k]
    BY DEF LimiterInv, Histories, Spent
  <2>2. /\ Refill(k) \in Level /\ Spent(k) \in History /\ Spent(k).since <= now
        /\ Spent(k).count * Cost + Refill(k).tokens
              <= Burst[k[1]] + Rate[k[1]] * (now - Spent(k).since)
    BY <2>1, RefillLevel
  <2>3. PICK b \in Nat, r \in Nat, c \in Nat : b = Burst[k[1]] /\ r = Rate[k[1]] /\ c = Cost
    BY <2>1, LimiterConstants
  <2>4. PICK count \in Nat, m \in Nat, t \in Nat :
            count = Spent(k).count /\ m = now - Spent(k).since /\ t = Refill(k).tokens
    BY <2>2 DEF LimiterInv, History, Level
  <2>5. count * c \in Nat /\ r * m \in Nat /\ count * c + t <= b + r * m
    BY <2>2, <2>3, <2>4
  <2>6. count * c <= b + r * m
    BY <2>5
  <2> QED
    BY <2>1, <2>3, <2>4, <2>6
<1> QED
  BY <1>1, <1>2 DEF BucketsHold
===============================================================================
