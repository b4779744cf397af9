------------------------------- MODULE LLMRouter -------------------------------
(***************************************************************************)
(* ragx/llm/router.py: ResilientRouter.chat and .structured, run by        *)
(* concurrent requests that share the breakers (CircuitBreaker), a         *)
(* semaphore per provider, the cost records and the semantic cache.        *)
(*                                                                         *)
(* A request looks into the cache, passes the budget gate, builds its list *)
(* of targets, and then goes through the list: ask the breaker, wait for   *)
(* the provider's semaphore, call with retries, and on failure go on to    *)
(* the next target.  Between the gate and the first wait nothing is        *)
(* awaited, nor between a failure and the next wait.                       *)
(*                                                                         *)
(* The cache is reduced to who has stored an answer; a lookup may miss     *)
(* what was stored.  Costs are those of one capped knowledge base.         *)
(***************************************************************************)
EXTENDS Integers, Sequences, FiniteSets, SequencesExt

CONSTANTS
    Request, Target, Provider, Prompt,
    Entry,       \* the places of the roles' lists of targets
    TargetOf,    \* Entry -> Target; a list may name a target again
    ProviderOf,  \* Target -> Provider
    Price,       \* Target -> the cost of one call
    Asks,        \* the request mixes considered
    Cap,         \* budget_caps["default"]
    Slots,       \* permits of a provider's semaphore: 4 in the code
    Window, OpenFor, MinSamples, RateNum, RateDen,
    MaxTime      \* bound: the seconds considered

Strategy == {"priority", "weighted", "least_cost"}

(* generate: the role is GENERATE.  capped: it is asked in the knowledge   *)
(* base that has a cap.  listed: primary and fallbacks, or the candidates, *)
(* entry by entry: RoleConfig lets a target be listed again.               *)
RequestAsk ==
    [kind : {"chat", "structured"}, generate : BOOLEAN, cacheable : BOOLEAN,
     capped : BOOLEAN, prompt : Prompt, strategy : Strategy, listed : Seq(Entry),
     retries : Nat]

(* An entry is one place of one list. *)
Distinct(s) == \A i, j \in DOMAIN s : s[i] = s[j] => i = j

ASSUME RouterAssumption ==
    /\ TargetOf \in [Entry -> Target]
    /\ ProviderOf \in [Target -> Provider]
    /\ Price \in [Target -> Nat]
    /\ Asks \subseteq [Request -> RequestAsk]
    /\ IsFiniteSet(Request)
    /\ IsFiniteSet(Entry)
    /\ \A a \in Asks, r \in Request : Distinct(a[r].listed)
    /\ Cap \in Nat
    /\ Slots \in Nat \ {0}
    /\ Window \in Nat
    /\ OpenFor \in Nat \ {0}
    /\ MinSamples \in Nat \ {0}
    /\ RateNum \in Nat
    /\ RateDen \in Nat \ {0}
    /\ MaxTime \in Nat

VARIABLES
    ask,      \* what the requests ask for, chosen once
    req,      \* Request -> how far it has come
    slots,    \* Provider -> free permits
    cb,       \* Target -> its breaker
    spent,    \* cost records of the capped knowledge base
    stored,   \* requests whose answer was written to the cache
    crowded,  \* history: two requests were between gate and charge at once
    now

vars == <<ask, req, slots, cb, spent, stored, crowded, now>>

Circuit == INSTANCE CircuitBreaker WITH Caller <- Request \X Entry

Ended == {"answered", "cached", "refused", "failed", "open", "cancelled"}
Holding == {"calling", "storing"}
Admitted == {"queued"} \cup Holding

(* The target a request is at: the head of what is left of its list. *)
At(r) == TargetOf[Head(req[r].todo)]

(* A request at an entry of its list: whom samples are about. *)
Visit(r) == <<r, Head(req[r].todo)>>

UsesCache(r) == ask[r].kind = "chat" /\ ask[r].generate /\ ask[r].cacheable

(* Costs of this request count against the cap. *)
Metered(r) == ask[r].kind = "chat" /\ ask[r].capped

(* Past the gate and not charged. *)
Uncharged(r) == Metered(r) /\ req[r].step \in {"queued", "calling"}
-------------------------------------------------------------------------------
NewRequest == [step |-> "new", todo |-> <<>>, tries |-> 0, admitted |-> 0,
               waved |-> FALSE, given |-> {}]

Init ==
    /\ ask \in Asks
    /\ req = [r \in Request |-> NewRequest]
    /\ slots = [p \in Provider |-> Slots]
    /\ cb = [k \in Target |-> Circuit!NewBreaker]
    /\ spent = 0
    /\ stored = {}
    /\ crowded = FALSE
    /\ now = 0

(* An answer lookup may find. *)
Hit(r) == \E s \in stored : ask[s].prompt = ask[r].prompt

(* The semantic cache, for cacheable GENERATE chats only. *)
Lookup(r) ==
    /\ req[r].step = "new"
    /\ \/ UsesCache(r) /\ Hit(r) /\ req' = [req EXCEPT ![r].step = "cached"]
       \/ req' = [req EXCEPT ![r].step = "gate"]
    /\ UNCHANGED <<ask, slots, cb, spent, stored, crowded, now>>

(* Candidates whose breaker is not open. *)
Pool(r) == {e \in ToSet(ask[r].listed) : ~Circuit!IsOpen(cb[TargetOf[e]])}

Precedes(r, d, e) ==
    \E m, n \in DOMAIN ask[r].listed :
        m < n /\ ask[r].listed[m] = d /\ ask[r].listed[n] = e

(* weighted draws the first, the others follow in their order. *)
Drawn(r, s) == \A i, j \in DOMAIN s : 1 < i /\ i < j => Precedes(r, s[i], s[j])

(* least_cost sorts by price; the sort is stable. *)
ByPrice(r, s) ==
    \A i, j \in DOMAIN s : i < j =>
        \/ Price[TargetOf[s[i]]] < Price[TargetOf[s[j]]]
        \/ Price[TargetOf[s[i]]] = Price[TargetOf[s[j]]] /\ Precedes(r, s[i], s[j])

(* _targets: the lists the strategy may come up with.  Only weighted and   *)
(* least_cost pass over the candidates that are open.                      *)
Lists(r) ==
    CASE ask[r].strategy = "priority" -> {ask[r].listed}
      [] ask[r].strategy = "weighted" -> {s \in SetToSeqs(Pool(r)) : Drawn(r, s)}
      [] ask[r].strategy = "least_cost" -> {s \in SetToSeqs(Pool(r)) : ByPrice(r, s)}

(* The breakers _targets has asked. *)
Surveyed(r) ==
    IF ask[r].strategy = "priority" THEN cb
    ELSE [k \in Target |-> IF \E e \in ToSet(ask[r].listed) : TargetOf[e] = k
                           THEN Circuit!Asked(cb[k]) ELSE cb[k]]

(* The loop goes to the head of list: 6001 when there is none, 6002 when   *)
(* it is open, whatever comes after it; otherwise the request queues for   *)
(* the provider.  b: the breakers as they are by then.                     *)
GoTo(r, list, b, base) ==
    LET k == TargetOf[Head(list)]
        next == [base EXCEPT !.todo = list, !.tries = 0]
    IN  IF list = <<>>
        THEN /\ req' = [req EXCEPT ![r] = [next EXCEPT !.step = "failed"]]
             /\ cb' = b
        ELSE /\ cb' = [b EXCEPT ![k] = Circuit!Asked(@)]
             /\ req' = [req EXCEPT ![r] =
                          IF Circuit!IsOpen(b[k]) THEN [next EXCEPT !.step = "open"]
                          ELSE [next EXCEPT !.step = "queued", !.admitted = now]]

(* The gate is open: choose the targets and go to the first. *)
Proceed(r, waved) ==
    /\ \E list \in Lists(r) :
          GoTo(r, list, Surveyed(r), [req[r] EXCEPT !.waved = waved])
    /\ crowded' = (crowded \/ (Metered(r) /\ \E s \in Request \ {r} : Uncharged(s)))
    /\ UNCHANGED <<ask, slots, spent, stored, now>>

MutantWithinCap(r) == ask[r].capped => spent <= Cap

(* _check_budget: below the cap, or no cap. *)
WithinCap(r) == ask[r].capped => spent < Cap

Gate(r) ==
    /\ req[r].step = "gate"
    /\ WithinCap(r)
    /\ Proceed(r, FALSE)

(* Over the cap a cacheable request looks into the cache, again if it is   *)
(* a GENERATE; others are refused (1004).                                  *)
OverCap(r) ==
    /\ req[r].step = "gate"
    /\ ~WithinCap(r)
    /\ req' = [req EXCEPT ![r].step = IF ask[r].cacheable THEN "recheck" ELSE "refused"]
    /\ UNCHANGED <<ask, slots, cb, spent, stored, crowded, now>>

(* A hit lets it pass: the answer found is dropped and the model is asked. *)
Recheck(r) ==
    /\ req[r].step = "recheck"
    /\ \/ Hit(r) /\ Proceed(r, TRUE)
       \/ /\ req' = [req EXCEPT ![r].step = "refused"]
          /\ UNCHANGED <<ask, slots, cb, spent, stored, crowded, now>>
-------------------------------------------------------------------------------
(* The provider's semaphore. *)
Acquire(r) ==
    /\ req[r].step = "queued"
    /\ slots[ProviderOf[At(r)]] > 0
    /\ slots' = [slots EXCEPT ![ProviderOf[At(r)]] = @ - 1]
    /\ req' = [req EXCEPT ![r].step = "calling"]
    /\ UNCHANGED <<ask, cb, spent, stored, crowded, now>>

Released(r) == [slots EXCEPT ![ProviderOf[At(r)]] = @ + 1]

(* The call returned: record_success and _account.  A structured call is   *)
(* not accounted; a cacheable answer is stored before it is returned.      *)
Succeed(r) ==
    /\ req[r].step = "calling"
    /\ cb' = [cb EXCEPT ![At(r)] = Circuit!AfterSuccess(@, Visit(r))]
    /\ spent' = IF Metered(r) THEN spent + Price[At(r)] ELSE spent
    /\ IF UsesCache(r)
       THEN req' = [req EXCEPT ![r].step = "storing"] /\ UNCHANGED slots
       ELSE req' = [req EXCEPT ![r].step = "answered"] /\ slots' = Released(r)
    /\ UNCHANGED <<ask, stored, crowded, now>>

(* cache.store, whose failure is logged; the permit is held until then. *)
Store(r) ==
    /\ req[r].step = "storing"
    /\ stored' \in {stored, stored \cup {r}}
    /\ slots' = Released(r)
    /\ req' = [req EXCEPT ![r].step = "answered"]
    /\ UNCHANGED <<ask, cb, spent, crowded, now>>

TriesLeft(r) == req[r].tries < ask[r].retries

MutantRetry(r) ==
    /\ req[r].step = "calling"
    /\ TriesLeft(r)
    /\ req' = [req EXCEPT ![r].tries = @ + 1]
    /\ cb' = [cb EXCEPT ![At(r)] = Circuit!AfterFailure(@, Visit(r))]
    /\ UNCHANGED <<ask, slots, spent, stored, crowded, now>>

(* A timeout, a rate limit, a 5xx, or a first answer that does not parse:  *)
(* back off, keeping the permit, and call again.                           *)
Retry(r) ==
    /\ req[r].step = "calling"
    /\ TriesLeft(r)
    /\ req' = [req EXCEPT ![r].tries = @ + 1]
    /\ UNCHANGED <<ask, slots, cb, spent, stored, crowded, now>>

MutantFreed(r) == slots

(* async with sem: the permit is returned however the block is left. *)
Freed(r) == Released(r)

MutantRest(r) == <<>>

(* continue: the rest of the list. *)
Rest(r) == Tail(req[r].todo)

(* The last attempt failed, or one did for good: record_failure, once for  *)
(* all attempts at the target, and it is the next one's turn.              *)
GiveUp(r) ==
    /\ req[r].step = "calling"
    /\ slots' = Freed(r)
    /\ GoTo(r, Rest(r), [cb EXCEPT ![At(r)] = Circuit!AfterFailure(@, Visit(r))],
            [req[r] EXCEPT !.given = @ \cup {Head(req[r].todo)}])
    /\ UNCHANGED <<ask, spent, stored, crowded, now>>

(* The client is gone, or something else than an LLM error was raised, by  *)
(* the plugin registry for example: no sample is recorded.                 *)
Cancel(r) ==
    /\ req[r].step \notin Ended
    /\ req' = [req EXCEPT ![r].step = "cancelled"]
    /\ slots' = IF req[r].step \in Holding THEN Released(r) ELSE slots
    /\ UNCHANGED <<ask, cb, spent, stored, crowded, now>>

Tick ==
    /\ now < MaxTime
    /\ now' = now + 1
    /\ UNCHANGED <<ask, req, slots, cb, spent, stored, crowded>>

Advance(r) ==
    \/ Lookup(r)
    \/ Gate(r)
    \/ OverCap(r)
    \/ Recheck(r)
    \/ Acquire(r)
    \/ Succeed(r)
    \/ Store(r)
    \/ Retry(r)
    \/ GiveUp(r)

Next == Tick \/ \E r \in Request : Advance(r) \/ Cancel(r)

Spec == Init /\ [][Next]_vars

(* Provider calls end, by asyncio.wait_for if not by themselves, and the   *)
(* event loop keeps scheduling a request that can go on.                   *)
FairSpec == Spec /\ \A r \in Request : WF_vars(Advance(r))
-------------------------------------------------------------------------------
TypeOK ==
    /\ ask \in Asks
    /\ req \in [Request -> [step : {"new", "gate", "recheck"} \cup Admitted \cup Ended,
                            todo : Seq(Entry), tries : Nat, admitted : Nat,
                            waved : BOOLEAN, given : SUBSET Entry]]
    /\ slots \in [Provider -> 0..Slots]
    /\ cb \in [Target -> Circuit!Breaker]
    /\ spent \in Nat
    /\ stored \subseteq Request
    /\ crowded \in BOOLEAN
    /\ now \in 0..MaxTime

(* Whatever way a request leaves a call (an answer, a failure, the next    *)
(* target, a cancelled client), its permit goes back to the provider it    *)
(* was taken from, so permits are neither lost nor invented.               *)
SlotsAreReturned ==
    \A p \in Provider :
        slots[p] + Cardinality({r \in Request :
                                  req[r].step \in Holding /\ ProviderOf[At(r)] = p}) = Slots

(* While a breaker is open its target gets no new request: those that are  *)
(* waiting for it or calling it were admitted no later than it opened.     *)
(* (The check is made before the wait, so old ones may call it still.)     *)
OpenTargetsGetNoNewRequests ==
    \A r \in Request :
        req[r].step \in {"queued", "calling"} /\ cb[At(r)].state = "open"
            => req[r].admitted <= cb[At(r)].opened

(* min_samples and failure_rate count requests, not attempts: a target     *)
(* has at most one sample for each entry of a request's list that names    *)
(* it, however often the request retried there.                            *)
OneSamplePerRequest ==
    \A k \in Target : \A s, t \in cb[k].window :
        TargetOf[s.by[2]] = k /\ (s.by = t.by => s = t)

(* Sum and charge are separate steps, so concurrent calls overshoot the    *)
(* cap; calls that do not overlap exceed it by less than one call.  (None  *)
(* of them being let through by the cache, see Recheck.)                   *)
LoneCallsOvershootOnce ==
    ~crowded /\ (\A r \in Request : ~req[r].waved) =>
        spent = 0 \/ \E k \in Target : spent < Cap + Price[k]

(* All providers failed (6001) is said only by a request that had each     *)
(* entry of its list fail on itself or, under weighted and least_cost,     *)
(* found it open: with priority no entry was left out.                     *)
FailedMeansAllFailed ==
    \A r \in Request :
        req[r].step = "failed" /\ ask[r].strategy = "priority"
            => req[r].given = ToSet(ask[r].listed)

(* No request waits for ever, neither for a permit nor in its retries.     *)
RequestsEnd == \A r \in Request : (req[r].step = "gate") ~> (req[r].step \in Ended)
===============================================================================
