---------------------------- MODULE LLMRouterProofs ----------------------------
(***************************************************************************)
(* Proofs about LLMRouter for every set of requests and targets, every mix *)
(* of requests, and every value of the breaker's settings.                 *)
(*                                                                         *)
(* The permits of a provider stay within 0..Slots only because each is     *)
(* held by one request, so the types and SlotsAreReturned are proved       *)
(* together.  OpenTargetsGetNoNewRequests needs that no request was        *)
(* admitted in the future, and rests on what a step may do to a breaker:   *)
(* one that is open afterwards was open before, since the same time, or    *)
(* has been opened now (BreakerStep).                                      *)
(***************************************************************************)
EXTENDS LLMRouter, FiniteSetTheorems, TLAPS

Steps == {"new", "gate", "recheck"} \cup Admitted \cup Ended

RequestState == [step : Steps, todo : Seq(Entry), tries : Nat, admitted : Nat,
                 waved : BOOLEAN, given : SUBSET Entry]

(* A request past the gate is at a target. *)
Going == \A r \in Request : req[r].step \in Admitted => req[r].todo # <<>>

Admissions == \A r \in Request : req[r].admitted <= now

IInv == TypeOK /\ Going /\ Admissions /\ SlotsAreReturned /\ OpenTargetsGetNoNewRequests

BreakerStep(b, c) ==
    /\ c \in Circuit!Breaker
    /\ c.state = "open" => c.opened = now \/ (b.state = "open" /\ b.opened = c.opened)

Holders(p) == {r \in Request : req[r].step \in Holding /\ ProviderOf[At(r)] = p}
-------------------------------------------------------------------------------
(* A request with targets left is at one of them. *)
LEMMA AtTarget ==
    ASSUME TypeOK, NEW r \in Request, req[r].todo # <<>>
    PROVE  /\ req[r].todo \in Seq(Entry) /\ Head(req[r].todo) \in Entry
           /\ At(r) \in Target
           /\ Visit(r) \in Request \X Entry
<1>1. req[r].todo \in Seq(Entry)
  BY DEF TypeOK
<1>2. PICK e \in Entry : e = Head(req[r].todo)
  BY <1>1
<1> QED
  BY <1>1, <1>2, RouterAssumption DEF At, Visit

(* Sampling keeps a breaker's type, its state and the time it opened. *)
LEMMA SampledType ==
    ASSUME now \in Nat, NEW b \in Circuit!Breaker, NEW r \in Request \X Entry, NEW ok \in BOOLEAN
    PROVE  /\ Circuit!Sampled(b, r, ok) \in Circuit!Breaker
           /\ Circuit!Sampled(b, r, ok).state = b.state
           /\ Circuit!Sampled(b, r, ok).opened = b.opened
<1> DEFINE new == [by |-> r, ok |-> ok, at |-> now]
           kept == {s \in b.window \cup {new} : s.at >= now - Window}
<1>1. new \in Circuit!Sample
  BY DEF Circuit!Sample
<1>2. kept \in SUBSET Circuit!Sample
  BY <1>1 DEF Circuit!Breaker
<1>3. Circuit!Sampled(b, r, ok) = [b EXCEPT !.window = kept]
  BY DEF Circuit!Sampled, Circuit!Breaker
<1> HIDE DEF kept
<1> QED
  BY <1>2, <1>3 DEF Circuit!Breaker

(* is_open, with its transition to half_open. *)
LEMMA AskedStep ==
    ASSUME NEW b \in Circuit!Breaker
    PROVE  /\ BreakerStep(b, Circuit!Asked(b))
           /\ ~Circuit!IsOpen(b) => Circuit!Asked(b).state # "open"
BY DEF BreakerStep, Circuit!Asked, Circuit!IsOpen, Circuit!Breaker

(* record_success. *)
LEMMA SuccessStep ==
    ASSUME now \in Nat, NEW b \in Circuit!Breaker, NEW r \in Request \X Entry
    PROVE  BreakerStep(b, Circuit!AfterSuccess(b, r))
<1> DEFINE c == IF b.state = "half_open" THEN [b EXCEPT !.state = "closed"] ELSE b
<1>1. c \in Circuit!Breaker /\ (c.state = "open" => b.state = "open") /\ c.opened = b.opened
  BY DEF Circuit!Breaker
<1>2. Circuit!AfterSuccess(b, r) = Circuit!Sampled(c, r, TRUE)
  BY DEF Circuit!AfterSuccess
<1> HIDE DEF c
<1>3. /\ Circuit!Sampled(c, r, TRUE) \in Circuit!Breaker
      /\ Circuit!Sampled(c, r, TRUE).state = c.state
      /\ Circuit!Sampled(c, r, TRUE).opened = c.opened
  BY <1>1, SampledType
<1> QED
  BY <1>1, <1>2, <1>3, Zenon DEF BreakerStep

(* record_failure. *)
LEMMA FailureStep ==
    ASSUME now \in Nat, NEW b \in Circuit!Breaker, NEW r \in Request \X Entry
    PROVE  BreakerStep(b, Circuit!AfterFailure(b, r))
<1> DEFINE c == Circuit!Sampled(b, r, FALSE)
<1>1. c \in Circuit!Breaker /\ c.state = b.state /\ c.opened = b.opened
  BY SampledType
<1>2. \/ Circuit!AfterFailure(b, r) = c
      \/ Circuit!AfterFailure(b, r) = [c EXCEPT !.state = "open", !.opened = now]
  BY DEF Circuit!AfterFailure
<1> HIDE DEF c
<1> QED
  BY <1>1, <1>2 DEF BreakerStep, Circuit!Breaker

(* Whatever the strategy, _targets returns entries of the list. *)
LEMMA ListsType ==
    ASSUME TypeOK, NEW r \in Request, NEW list \in Lists(r)
    PROVE  list \in Seq(Entry)
<1>1. ask[r] \in RequestAsk
  BY RouterAssumption DEF TypeOK
<1>2. ask[r].listed \in Seq(Entry)
  BY <1>1 DEF RequestAsk
<1>3. Pool(r) \in SUBSET Entry
  BY <1>2 DEF Pool, ToSet
<1>4. Cardinality(Pool(r)) \in Nat
  BY <1>3, RouterAssumption, FS_Subset, FS_CardinalityType
<1>5. SetToSeqs(Pool(r)) \subseteq Seq(Entry)
  BY <1>3, <1>4 DEF SetToSeqs
<1>6. ask[r].strategy \in {"priority", "weighted", "least_cost"}
  BY <1>1 DEF RequestAsk, Strategy
<1> QED
  BY <1>2, <1>5, <1>6 DEF Lists

(* The breakers after _targets has asked them. *)
LEMMA SurveyedStep ==
    ASSUME cb \in [Target -> Circuit!Breaker], now \in Nat, NEW r \in Request
    PROVE  /\ Surveyed(r) \in [Target -> Circuit!Breaker]
           /\ \A k \in Target : BreakerStep(cb[k], Surveyed(r)[k])
<1>1. \A k \in Target : /\ BreakerStep(cb[k], cb[k]) /\ BreakerStep(cb[k], Circuit!Asked(cb[k]))
                       /\ Circuit!Asked(cb[k]) \in Circuit!Breaker
  BY AskedStep DEF BreakerStep
<1>2. CASE ask[r].strategy = "priority"
  BY <1>1, <1>2 DEF Surveyed
<1>3. CASE ask[r].strategy # "priority"
  <2>1. Surveyed(r) = [k \in Target |-> IF \E e \in ToSet(ask[r].listed) : TargetOf[e] = k
                                       THEN Circuit!Asked(cb[k]) ELSE cb[k]]
    BY <1>3 DEF Surveyed
  <2> QED
    BY <1>1, <2>1
<1> QED
  BY <1>2, <1>3

(* Steps of a breaker at one moment compose. *)
LEMMA BreakerSteps ==
    ASSUME NEW b, NEW c, NEW d, BreakerStep(b, c), BreakerStep(c, d)
    PROVE  BreakerStep(b, d)
BY DEF BreakerStep

(* What the loop's turn to the next target leaves in place. *)
GoToKeeps(r) ==
    /\ req' \in [Request -> RequestState]
    /\ cb' \in [Target -> Circuit!Breaker]
    /\ \A q \in Request \ {r} : req'[q] = req[q]
    /\ req'[r].step \in {"failed", "open", "queued"}
    /\ Going'
    /\ Admissions'
    /\ OpenTargetsGetNoNewRequests'

(* GoTo leaves it in place, whichever target comes next. *)
LEMMA GoToSafe ==
    ASSUME TypeOK, Going, Admissions, OpenTargetsGetNoNewRequests, now' = now,
           NEW r \in Request, NEW list \in Seq(Entry),
           NEW b \in [Target -> Circuit!Breaker],
           \A k \in Target : BreakerStep(cb[k], b[k]),
           NEW base \in RequestState, base.admitted <= now,
           GoTo(r, list, b, base)
    PROVE  GoToKeeps(r)
<1> DEFINE next == [base EXCEPT !.todo = list, !.tries = 0]
<1>0. /\ req \in [Request -> RequestState] /\ cb \in [Target -> Circuit!Breaker] /\ now \in Nat
      /\ next \in RequestState /\ next.todo = list /\ next.admitted = base.admitted
  <2>1. req \in [Request -> RequestState]
    BY DEF TypeOK, RequestState, Steps
  <2>2. cb \in [Target -> Circuit!Breaker] /\ now \in Nat
    BY RouterAssumption DEF TypeOK
  <2>3. next \in RequestState /\ next.todo = list /\ next.admitted = base.admitted
    BY DEF RequestState
  <2> QED
    BY <2>1, <2>2, <2>3
<1>1. \A q \in Request : q # r /\ req'[q] = req[q] /\ cb' \in [Target -> Circuit!Breaker]
          /\ (\A k \in Target : BreakerStep(cb[k], cb'[k]))
          /\ req[q].step \in {"queued", "calling"} /\ cb'[At(q)].state = "open"
          => req'[q].admitted <= cb'[At(q)].opened
  <2> SUFFICES ASSUME NEW q \in Request, req'[q] = req[q],
                      cb' \in [Target -> Circuit!Breaker],
                      \A k \in Target : BreakerStep(cb[k], cb'[k]),
                      req[q].step \in {"queued", "calling"}, cb'[At(q)].state = "open"
               PROVE  req'[q].admitted <= cb'[At(q)].opened
    OBVIOUS
  <2>1. At(q) \in Target
    BY <1>0, AtTarget DEF Going, Admitted, Holding
  <2>2. req[q].admitted \in Nat /\ cb[At(q)].opened \in Nat
    BY <1>0, <2>1 DEF RequestState, Circuit!Breaker
  <2>3. cb'[At(q)].opened = now
        \/ (cb[At(q)].state = "open" /\ cb[At(q)].opened = cb'[At(q)].opened)
    BY <2>1 DEF BreakerStep
  <2> QED
    BY <1>0, <2>2, <2>3 DEF Admissions, OpenTargetsGetNoNewRequests
<1>2. CASE list = <<>>
  <2>1. req' = [req EXCEPT ![r] = [next EXCEPT !.step = "failed"]] /\ cb' = b
    BY <1>2 DEF GoTo
  <2>2. [next EXCEPT !.step = "failed"] \in RequestState
    BY <1>0 DEF RequestState, Steps, Ended
  <2>3. /\ req' \in [Request -> RequestState]
        /\ \A q \in Request \ {r} : req'[q] = req[q]
        /\ req'[r].step = "failed" /\ req'[r].admitted = base.admitted
    BY <1>0, <2>1, <2>2 DEF RequestState
  <2>4. Going' /\ Admissions'
    BY <1>0, <2>3 DEF Going, Admissions, Admitted, Holding
  <2>5. OpenTargetsGetNoNewRequests'
    BY <1>1, <2>1, <2>3 DEF OpenTargetsGetNoNewRequests, At
  <2> QED
    BY <2>1, <2>3, <2>4, <2>5 DEF GoToKeeps
<1>3. CASE list # <<>>
  <2> DEFINE k == TargetOf[Head(list)]
             asked == Circuit!Asked(b[k])
             gone == IF Circuit!IsOpen(b[k]) THEN [next EXCEPT !.step = "open"]
                     ELSE [next EXCEPT !.step = "queued", !.admitted = now]
  <2>0. k \in Target
    BY <1>3, RouterAssumption
  <2>1. cb' = [b EXCEPT ![k] = asked] /\ req' = [req EXCEPT ![r] = gone]
    BY <1>3 DEF GoTo
  <2>2. BreakerStep(b[k], asked) /\ (~Circuit!IsOpen(b[k]) => asked.state # "open")
    BY <2>0, AskedStep
  <2>3. cb' \in [Target -> Circuit!Breaker] /\ \A j \in Target : BreakerStep(cb[j], cb'[j])
    <3>1. asked \in Circuit!Breaker
      BY <2>2 DEF BreakerStep
    <3>2. BreakerStep(cb[k], asked)
      BY <2>0, <2>2, BreakerSteps
    <3> QED
      BY <2>0, <2>1, <3>1, <3>2
  <2>4. /\ gone \in RequestState /\ gone.todo = list /\ gone.admitted <= now
        /\ gone.step \in {"open", "queued"}
        /\ gone.step = "queued" => ~Circuit!IsOpen(b[k])
    <3> HIDE DEF next
    <3>1. CASE Circuit!IsOpen(b[k])
      BY <1>0, <3>1 DEF RequestState, Steps, Ended
    <3>2. CASE ~Circuit!IsOpen(b[k])
      <4>1. gone = [next EXCEPT !.step = "queued", !.admitted = now]
        BY <3>2
      <4>2. "queued" \in Steps
        BY DEF Steps, Admitted
      <4> QED
        <5>1. /\ gone.todo = list /\ gone.admitted = now /\ gone.step = "queued"
              /\ gone \in RequestState
          <6> HIDE DEF gone
          <6> QED
            BY <1>0, <4>1, <4>2 DEF RequestState
        <5> QED
          BY <1>0, <3>2, <5>1
    <3> QED
      BY <3>1, <3>2
  <2>5. cb'[k] = asked
    BY <2>0, <2>1
  <2> HIDE DEF gone, asked
  <2>6. /\ req' \in [Request -> RequestState] /\ req'[r] = gone
        /\ \A q \in Request \ {r} : req'[q] = req[q]
    BY <1>0, <2>1, <2>4
  <2>7. Going' /\ Admissions'
    BY <1>3, <2>4, <2>6 DEF Going, Admissions
  <2>8. OpenTargetsGetNoNewRequests'
    <3> SUFFICES ASSUME NEW q \in Request, req'[q].step \in {"queued", "calling"},
                        cb'[At(q)'].state = "open"
                 PROVE  req'[q].admitted <= cb'[At(q)'].opened
      BY DEF OpenTargetsGetNoNewRequests
    <3>1. q # r
      BY <2>2, <2>4, <2>5, <2>6 DEF At
    <3> QED
      BY <1>1, <2>3, <2>6, <3>1 DEF At
  <2> QED
    BY <2>3, <2>4, <2>6, <2>7, <2>8 DEF GoToKeeps
<1> QED
  BY <1>2, <1>3
-------------------------------------------------------------------------------
(* A request that moves on without choosing a target: it keeps its target  *)
(* and the time it was admitted, while breakers take a step.               *)
LEMMA MoveSafe ==
    ASSUME TypeOK, Going, Admissions, OpenTargetsGetNoNewRequests, now' = now,
           NEW r \in Request, NEW step \in Steps, NEW tries \in Nat,
           req' = [req EXCEPT ![r] = [@ EXCEPT !.step = step, !.tries = tries]],
           step \in Admitted => req[r].step \in Admitted,
           step \in {"queued", "calling"} => req[r].step \in {"queued", "calling"},
           cb' \in [Target -> Circuit!Breaker],
           \A k \in Target : BreakerStep(cb[k], cb'[k])
    PROVE  /\ req' \in [Request -> RequestState]
           /\ \A q \in Request \ {r} : req'[q] = req[q]
           /\ req'[r].step = step /\ req'[r].todo = req[r].todo
           /\ Going'
           /\ Admissions'
           /\ OpenTargetsGetNoNewRequests'
<1>1. req \in [Request -> RequestState]
  BY DEF TypeOK, RequestState, Steps
<1>2. cb \in [Target -> Circuit!Breaker] /\ now \in Nat
  BY RouterAssumption DEF TypeOK
<1>3. [req[r] EXCEPT !.step = step, !.tries = tries] \in RequestState
  BY <1>1 DEF RequestState
<1>4. /\ req' \in [Request -> RequestState]
      /\ \A q \in Request \ {r} : req'[q] = req[q]
      /\ req'[r].step = step /\ req'[r].todo = req[r].todo
      /\ req'[r].admitted = req[r].admitted
  BY <1>1, <1>3 DEF RequestState
<1>5. Going' /\ Admissions'
  BY <1>4 DEF Going, Admissions
<1>6. OpenTargetsGetNoNewRequests'
  <2> SUFFICES ASSUME NEW q \in Request, req'[q].step \in {"queued", "calling"},
                      cb'[At(q)'].state = "open"
               PROVE  req'[q].admitted <= cb'[At(q)'].opened
    BY DEF OpenTargetsGetNoNewRequests
  <2>1. /\ req[q].step \in {"queued", "calling"} /\ At(q)' = At(q)
        /\ req'[q].admitted = req[q].admitted
    BY <1>4 DEF At
  <2>2. At(q) \in Target
    BY <1>1, <2>1, AtTarget DEF Going, Admitted, Holding
  <2>3. req[q].admitted \in Nat /\ cb[At(q)].opened \in Nat
    BY <1>1, <1>2, <2>2 DEF RequestState, Circuit!Breaker
  <2>4. cb'[At(q)].opened = now
        \/ (cb[At(q)].state = "open" /\ cb[At(q)].opened = cb'[At(q)].opened)
    BY <2>1, <2>2 DEF BreakerStep
  <2> QED
    BY <1>2, <2>1, <2>3, <2>4 DEF Admissions, OpenTargetsGetNoNewRequests
<1> QED
  BY <1>4, <1>5, <1>6

(* Breakers nobody touches take a step as well. *)
LEMMA BreakersAtRest ==
    ASSUME TypeOK, cb' = cb
    PROVE  /\ cb' \in [Target -> Circuit!Breaker]
           /\ \A k \in Target : BreakerStep(cb[k], cb'[k])
BY DEF TypeOK, BreakerStep
-------------------------------------------------------------------------------
(* The requests that hold a permit are finitely many. *)
LEMMA HoldersFinite ==
    ASSUME NEW p \in Provider
    PROVE  IsFiniteSet(Holders(p)) /\ Cardinality(Holders(p)) \in Nat
BY RouterAssumption, FS_Subset, FS_CardinalityType DEF Holders

(* Nobody takes or returns a permit. *)
LEMMA PermitsKept ==
    ASSUME SlotsAreReturned, slots' = slots,
           \A q \in Request : /\ req'[q].step \in Holding <=> req[q].step \in Holding
                              /\ req[q].step \in Holding => req'[q].todo = req[q].todo
    PROVE  SlotsAreReturned'
<1>1. \A p \in Provider : Holders(p)' = Holders(p)
  BY DEF Holders, At
<1> QED
  BY <1>1 DEF SlotsAreReturned, Holders

(* One request takes a permit. *)
LEMMA PermitTaken ==
    ASSUME TypeOK, SlotsAreReturned, NEW r \in Request, NEW p \in Provider,
           slots[p] > 0, slots' = [slots EXCEPT ![p] = @ - 1],
           req[r].step \notin Holding, req'[r].step \in Holding, ProviderOf[At(r)'] = p,
           \A q \in Request \ {r} : req'[q] = req[q]
    PROVE  slots' \in [Provider -> 0..Slots] /\ SlotsAreReturned'
<1>1. slots \in [Provider -> 0..Slots] /\ Slots \in Nat
  BY RouterAssumption DEF TypeOK
<1>2. slots' \in [Provider -> 0..Slots]
  BY <1>1
<1>3. Holders(p)' = Holders(p) \cup {r} /\ r \notin Holders(p)
  BY DEF Holders, At
<1>4. Cardinality(Holders(p)') = Cardinality(Holders(p)) + 1
  BY <1>3, HoldersFinite, FS_AddElement
<1>5. \A o \in Provider \ {p} : Holders(o)' = Holders(o)
  BY DEF Holders, At
<1>6. \A o \in Provider : slots'[o] + Cardinality(Holders(o)') = Slots
  <2> TAKE o \in Provider
  <2>1. slots[o] + Cardinality(Holders(o)) = Slots /\ slots[o] \in Nat
    BY <1>1 DEF SlotsAreReturned, Holders
  <2>2. Cardinality(Holders(o)) \in Nat
    BY HoldersFinite
  <2>3. CASE o = p
    BY <1>1, <1>4, <2>1, <2>2, <2>3
  <2>4. CASE o # p
    BY <1>1, <1>5, <2>1, <2>4
  <2> QED
    BY <2>3, <2>4
<1> QED
  BY <1>2, <1>6 DEF SlotsAreReturned, Holders

(* One request returns its permit. *)
LEMMA PermitReturned ==
    ASSUME TypeOK, Going, SlotsAreReturned, NEW r \in Request,
           slots' = Released(r), req[r].step \in Holding, req'[r].step \notin Holding,
           \A q \in Request \ {r} : req'[q] = req[q]
    PROVE  slots' \in [Provider -> 0..Slots] /\ SlotsAreReturned'
<1>1. slots \in [Provider -> 0..Slots] /\ Slots \in Nat
  BY RouterAssumption DEF TypeOK
<1>2. At(r) \in Target
  BY AtTarget DEF Going, Admitted
<1>3. PICK p \in Provider : p = ProviderOf[At(r)]
  BY <1>2, RouterAssumption
<1>4. slots' = [slots EXCEPT ![p] = @ + 1]
  BY <1>3 DEF Released
<1>5. Holders(p)' = Holders(p) \ {r} /\ r \in Holders(p)
  BY <1>3 DEF Holders, At
<1>6. Cardinality(Holders(p)') = Cardinality(Holders(p)) - 1
  <2>1. IsFiniteSet(Holders(p))
    BY HoldersFinite
  <2> QED
    BY <1>5, <2>1, FS_RemoveElement
<1>7. \A o \in Provider \ {p} : Holders(o)' = Holders(o)
  BY <1>3 DEF Holders, At
<1>8. \A o \in Provider : /\ slots'[o] + Cardinality(Holders(o)') = Slots
                          /\ slots'[o] \in 0..Slots
  <2> TAKE o \in Provider
  <2>1. slots[o] + Cardinality(Holders(o)) = Slots /\ slots[o] \in 0..Slots
    BY <1>1 DEF SlotsAreReturned, Holders
  <2>2. Cardinality(Holders(o)) \in Nat
    BY HoldersFinite
  <2>3. CASE o = p
    <3>1. Cardinality(Holders(p)) # 0
      BY <1>3, <1>5, HoldersFinite, FS_EmptySet
    <3> QED
      BY <1>1, <1>4, <1>6, <2>1, <2>2, <2>3, <3>1
  <2>4. CASE o # p
    BY <1>1, <1>4, <1>7, <2>1, <2>4
  <2> QED
    BY <2>3, <2>4
<1> QED
  BY <1>1, <1>4, <1>8 DEF SlotsAreReturned, Holders
-------------------------------------------------------------------------------
(* The types, from those of the parts an action writes. *)
LEMMA TypeStep ==
    ASSUME TypeOK, ask' = ask, req' \in [Request -> RequestState],
           slots' \in [Provider -> 0..Slots], cb' \in [Target -> Circuit!Breaker],
           spent' \in Nat, stored' \subseteq Request, crowded' \in BOOLEAN,
           now' \in 0..MaxTime
    PROVE  TypeOK'
BY DEF TypeOK, RequestState, Steps

(* The invariant holds before the first request. *)
LEMMA InitHolds == Init => IInv
<1> SUFFICES ASSUME Init PROVE IInv
  OBVIOUS
<1>1. NewRequest \in RequestState /\ NewRequest.step = "new" /\ NewRequest.admitted = 0
  BY DEF NewRequest, RequestState, Steps
<1>2. Circuit!NewBreaker \in Circuit!Breaker /\ Circuit!NewBreaker.state = "closed"
  BY DEF Circuit!NewBreaker, Circuit!Breaker
<1>3. req \in [Request -> RequestState] /\ \A r \in Request : req[r] = NewRequest
  BY <1>1 DEF Init
<1>4. TypeOK
  <2>1. slots \in [Provider -> 0..Slots] /\ now \in 0..MaxTime
    BY RouterAssumption DEF Init
  <2>2. cb \in [Target -> Circuit!Breaker]
    BY <1>2 DEF Init
  <2>3. req \in [Request -> [step : Steps, todo : Seq(Entry), tries : Nat, admitted : Nat,
                             waved : BOOLEAN, given : SUBSET Entry]]
    BY <1>3 DEF RequestState
  <2>4. ask \in Asks /\ spent \in Nat /\ stored \subseteq Request /\ crowded \in BOOLEAN
    BY DEF Init
  <2> QED
    BY <2>1, <2>2, <2>3, <2>4 DEF TypeOK, Steps
<1>5. Going /\ Admissions
  BY <1>1, <1>3 DEF Init, Going, Admissions, Admitted, Holding
<1>6. SlotsAreReturned
  <2>1. \A p \in Provider : Holders(p) = {}
    BY <1>1, <1>3 DEF Holders, Holding
  <2>2. \A p \in Provider : slots[p] = Slots
    BY DEF Init
  <2>3. \A p \in Provider : slots[p] + Cardinality(Holders(p)) = Slots
    <3>1. Cardinality({}) = 0 /\ Slots \in Nat
      BY FS_EmptySet, RouterAssumption
    <3> QED
      BY <2>1, <2>2, <3>1
  <2> QED
    BY <2>3 DEF SlotsAreReturned, Holders
<1>7. OpenTargetsGetNoNewRequests
  BY <1>1, <1>3 DEF OpenTargetsGetNoNewRequests
<1> QED
  BY <1>4, <1>5, <1>6, <1>7 DEF IInv

(* From the gate to the first target. *)
LEMMA ProceedKeeps ==
    ASSUME IInv, NEW r \in Request, req[r].step \in {"gate", "recheck"},
           NEW waved \in BOOLEAN, Proceed(r, waved)
    PROVE  IInv'
<1>0. TypeOK /\ Going /\ Admissions /\ SlotsAreReturned /\ OpenTargetsGetNoNewRequests
  BY DEF IInv
<1>1. /\ req \in [Request -> RequestState] /\ cb \in [Target -> Circuit!Breaker]
      /\ now \in 0..MaxTime
  BY <1>0 DEF TypeOK, RequestState, Steps
<1>2. UNCHANGED <<ask, slots, spent, stored, now>> /\ crowded' \in BOOLEAN
  BY DEF Proceed
<1>3. Surveyed(r) \in [Target -> Circuit!Breaker]
      /\ \A k \in Target : BreakerStep(cb[k], Surveyed(r)[k])
  BY <1>1, SurveyedStep
<1>4. PICK list \in Lists(r) :
          GoTo(r, list, Surveyed(r), [req[r] EXCEPT !.waved = waved])
  BY DEF Proceed
<1>5. list \in Seq(Entry)
  BY <1>0, ListsType
<1>6. /\ [req[r] EXCEPT !.waved = waved] \in RequestState
      /\ [req[r] EXCEPT !.waved = waved].admitted <= now
  BY <1>0, <1>1 DEF RequestState, Admissions
<1>7. GoToKeeps(r)
  BY <1>0, <1>2, <1>3, <1>4, <1>5, <1>6, GoToSafe
<1>8. SlotsAreReturned'
  BY <1>0, <1>2, <1>7, PermitsKept DEF GoToKeeps, Holding
<1>9. TypeOK'
  BY <1>0, <1>1, <1>2, <1>7, TypeStep DEF GoToKeeps, TypeOK
<1> QED
  BY <1>7, <1>8, <1>9 DEF IInv, GoToKeeps

(* A step of a request that keeps its target, with the permit it may take  *)
(* or return.                                                              *)
Moves(r, step, tries) ==
    /\ req' = [req EXCEPT ![r] = [@ EXCEPT !.step = step, !.tries = tries]]
    /\ step \in Admitted => req[r].step \in Admitted
    /\ step \in {"queued", "calling"} => req[r].step \in {"queued", "calling"}
    /\ cb' \in [Target -> Circuit!Breaker]
    /\ \A k \in Target : BreakerStep(cb[k], cb'[k])
    /\ UNCHANGED <<ask, now>>
    /\ spent' \in Nat /\ stored' \subseteq Request /\ crowded' \in BOOLEAN
    /\ \/ slots' = slots /\ (req[r].step \in Holding <=> step \in Holding)
       \/ slots' = Released(r) /\ req[r].step \in Holding /\ step \notin Holding
       \/ /\ req[r].step = "queued" /\ step \in Holding
          /\ slots[ProviderOf[At(r)]] > 0
          /\ slots' = [slots EXCEPT ![ProviderOf[At(r)]] = @ - 1]

(* Such a step keeps the invariant. *)
LEMMA MoveKeeps ==
    ASSUME IInv, NEW r \in Request, NEW step \in Steps, NEW tries \in Nat,
           Moves(r, step, tries)
    PROVE  IInv'
<1>0. TypeOK /\ Going /\ Admissions /\ SlotsAreReturned /\ OpenTargetsGetNoNewRequests
  BY DEF IInv
<1>a. /\ req \in [Request -> RequestState]
      /\ slots \in [Provider -> 0..Slots] /\ now \in 0..MaxTime
  BY <1>0 DEF TypeOK, RequestState, Steps
<1>1. /\ req' \in [Request -> RequestState]
      /\ \A q \in Request \ {r} : req'[q] = req[q]
      /\ req'[r].step = step /\ req'[r].todo = req[r].todo
      /\ Going' /\ Admissions' /\ OpenTargetsGetNoNewRequests'
  BY <1>0, MoveSafe DEF Moves
<1>2. slots' \in [Provider -> 0..Slots] /\ SlotsAreReturned'
  <2>1. CASE slots' = slots /\ (req[r].step \in Holding <=> step \in Holding)
    BY <1>0, <1>a, <1>1, <2>1, PermitsKept
  <2>2. CASE slots' = Released(r) /\ req[r].step \in Holding /\ step \notin Holding
    BY <1>0, <1>1, <2>2, PermitReturned
  <2>3. CASE /\ req[r].step = "queued" /\ step \in Holding
             /\ slots[ProviderOf[At(r)]] > 0
             /\ slots' = [slots EXCEPT ![ProviderOf[At(r)]] = @ - 1]
    <3>1. At(r) \in Target /\ At(r)' = At(r)
      BY <1>0, <1>1, <2>3, AtTarget DEF At, Going, Admitted
    <3>2. PICK p \in Provider : p = ProviderOf[At(r)]
      BY <3>1, RouterAssumption
    <3>3. req[r].step \notin Holding
      BY <2>3 DEF Holding
    <3> QED
      BY <1>0, <1>1, <2>3, <3>1, <3>2, <3>3, PermitTaken
  <2> QED
    BY <2>1, <2>2, <2>3 DEF Moves
<1>3. TypeOK'
  BY <1>0, <1>a, <1>1, <1>2, TypeStep DEF Moves
<1> QED
  BY <1>1, <1>2, <1>3 DEF IInv

(* The invariant is inductive. *)
LEMMA NextKeeps == IInv /\ [Next]_vars => IInv'
<1> SUFFICES ASSUME IInv, [Next]_vars PROVE IInv'
  OBVIOUS
<1>0. TypeOK /\ Going /\ Admissions /\ SlotsAreReturned /\ OpenTargetsGetNoNewRequests
  BY DEF IInv
<1>a. /\ req \in [Request -> RequestState] /\ cb \in [Target -> Circuit!Breaker]
      /\ slots \in [Provider -> 0..Slots] /\ now \in 0..MaxTime /\ now \in Nat
      /\ spent \in Nat /\ stored \subseteq Request /\ crowded \in BOOLEAN
  BY <1>0, RouterAssumption DEF TypeOK, RequestState, Steps
<1>b. /\ \A r \in Request : req[r].tries \in Nat
      /\ \A r \in Request :
            req[r].step \in Holding => At(r) \in Target /\ Visit(r) \in Request \X Entry
  BY <1>0, <1>a, AtTarget DEF RequestState, Going, Admitted
<1>c. ASSUME NEW r \in Request, NEW step \in Steps
      PROVE  [req EXCEPT ![r].step = step]
             = [req EXCEPT ![r] = [@ EXCEPT !.step = step, !.tries = req[r].tries]]
  BY <1>a DEF RequestState
<1>1. ASSUME NEW r \in Request, Lookup(r) PROVE IInv'
  <2>1. PICK step \in {"cached", "gate"} : req' = [req EXCEPT ![r].step = step]
    BY <1>1 DEF Lookup
  <2>2. step \in Steps
    BY DEF Steps, Ended
  <2>3. Moves(r, step, req[r].tries)
    BY <1>0, <1>1, <1>a, <1>c, <2>1, <2>2, BreakersAtRest DEF Moves, Lookup, Admitted, Holding
  <2> QED
    BY <1>b, <2>2, <2>3, MoveKeeps
<1>2. ASSUME NEW r \in Request, Gate(r) PROVE IInv'
  BY <1>2, ProceedKeeps DEF Gate
<1>3. ASSUME NEW r \in Request, OverCap(r) PROVE IInv'
  <2>1. PICK step \in {"recheck", "refused"} : req' = [req EXCEPT ![r].step = step]
    BY <1>3 DEF OverCap
  <2>2. step \in Steps
    BY DEF Steps, Ended
  <2>3. Moves(r, step, req[r].tries)
    BY <1>0, <1>3, <1>a, <1>c, <2>1, <2>2, BreakersAtRest DEF Moves, OverCap, Admitted, Holding
  <2> QED
    BY <1>b, <2>2, <2>3, MoveKeeps
<1>4. ASSUME NEW r \in Request, Recheck(r) PROVE IInv'
  <2>1. CASE Proceed(r, TRUE)
    BY <1>4, <2>1, ProceedKeeps DEF Recheck
  <2>2. CASE /\ req' = [req EXCEPT ![r].step = "refused"]
             /\ UNCHANGED <<ask, slots, cb, spent, stored, crowded, now>>
    <3>1. "refused" \in Steps
      BY DEF Steps, Ended
    <3>2. Moves(r, "refused", req[r].tries)
      BY <1>0, <1>4, <1>a, <1>c, <2>2, <3>1, BreakersAtRest DEF Moves, Recheck, Admitted, Holding
    <3> QED
      BY <1>b, <3>1, <3>2, MoveKeeps
  <2> QED
    BY <1>4, <2>1, <2>2 DEF Recheck
<1>5. ASSUME NEW r \in Request, Acquire(r) PROVE IInv'
  <2>1. "calling" \in Steps
    BY DEF Steps, Admitted, Holding
  <2>2. Moves(r, "calling", req[r].tries)
    BY <1>0, <1>5, <1>a, <1>c, <2>1, BreakersAtRest DEF Moves, Acquire, Admitted, Holding
  <2> QED
    BY <1>b, <2>1, <2>2, MoveKeeps
<1>6. ASSUME NEW r \in Request, Succeed(r) PROVE IInv'
  <2>1. At(r) \in Target /\ Visit(r) \in Request \X Entry /\ Price[At(r)] \in Nat
    BY <1>6, <1>b, RouterAssumption DEF Succeed, Holding
  <2>2. spent' \in Nat
    BY <1>6, <1>a, <2>1 DEF Succeed
  <2>3. /\ cb' \in [Target -> Circuit!Breaker]
        /\ \A k \in Target : BreakerStep(cb[k], cb'[k])
    <3>1. BreakerStep(cb[At(r)], Circuit!AfterSuccess(cb[At(r)], Visit(r)))
      BY <1>a, <2>1, SuccessStep
    <3>2. cb' = [cb EXCEPT ![At(r)] = Circuit!AfterSuccess(cb[At(r)], Visit(r))]
      BY <1>6 DEF Succeed
    <3> QED
      BY <1>a, <2>1, <3>1, <3>2 DEF BreakerStep
  <2>4. PICK step \in {"storing", "answered"} :
           /\ req' = [req EXCEPT ![r].step = step]
           /\ step = "storing" => slots' = slots
           /\ step = "answered" => slots' = Released(r)
    <3>1. CASE UsesCache(r)
      BY <1>6, <3>1 DEF Succeed
    <3>2. CASE ~UsesCache(r)
      BY <1>6, <3>2 DEF Succeed
    <3> QED
      BY <3>1, <3>2
  <2>5. step \in Steps
    BY DEF Steps, Ended, Admitted, Holding
  <2>6. Moves(r, step, req[r].tries)
    BY <1>6, <1>a, <1>c, <2>2, <2>3, <2>4, <2>5 DEF Moves, Succeed, Admitted, Holding
  <2> QED
    BY <1>b, <2>5, <2>6, MoveKeeps
<1>7. ASSUME NEW r \in Request, Store(r) PROVE IInv'
  <2>1. "answered" \in Steps
    BY DEF Steps, Ended
  <2>2. Moves(r, "answered", req[r].tries)
    BY <1>0, <1>7, <1>a, <1>c, <2>1, BreakersAtRest DEF Moves, Store, Admitted, Holding
  <2> QED
    BY <1>b, <2>1, <2>2, MoveKeeps
<1>8. ASSUME NEW r \in Request, Retry(r) PROVE IInv'
  <2>1. req' = [req EXCEPT ![r] = [@ EXCEPT !.step = "calling", !.tries = req[r].tries + 1]]
    BY <1>8, <1>a DEF Retry, RequestState
  <2>2. "calling" \in Steps /\ req[r].tries + 1 \in Nat
    BY <1>b DEF Steps, Admitted, Holding
  <2> QED
    <3>1. Moves(r, "calling", req[r].tries + 1)
      BY <1>0, <1>8, <1>a, <2>1, BreakersAtRest DEF Moves, Retry, Admitted, Holding
    <3> QED
      BY <2>2, <3>1, MoveKeeps
<1>9. ASSUME NEW r \in Request, GiveUp(r) PROVE IInv'
  <2> DEFINE b == [cb EXCEPT ![At(r)] = Circuit!AfterFailure(@, Visit(r))]
             base == [req[r] EXCEPT !.given = @ \cup {Head(req[r].todo)}]
  <2>1. /\ req[r].step \in Holding /\ req[r].todo # <<>>
        /\ At(r) \in Target /\ Visit(r) \in Request \X Entry /\ Head(req[r].todo) \in Entry
    BY <1>0, <1>9, AtTarget DEF GiveUp, Holding, Going, Admitted
  <2>2. b \in [Target -> Circuit!Breaker] /\ \A k \in Target : BreakerStep(cb[k], b[k])
    <3>1. BreakerStep(cb[At(r)], Circuit!AfterFailure(cb[At(r)], Visit(r)))
      BY <1>a, <2>1, FailureStep
    <3> QED
      BY <1>a, <2>1, <3>1 DEF BreakerStep
  <2>3. base \in RequestState /\ base.admitted <= now
    BY <1>0, <1>a, <2>1 DEF RequestState, Admissions
  <2>4. Rest(r) \in Seq(Entry)
    BY <1>a, <2>1 DEF Rest, RequestState
  <2>5. GoTo(r, Rest(r), b, base) /\ slots' = Released(r)
        /\ UNCHANGED <<ask, spent, stored, crowded, now>>
    BY <1>9 DEF GiveUp, Freed
  <2> HIDE DEF b, base
  <2>6. GoToKeeps(r)
    BY <1>0, <2>2, <2>3, <2>4, <2>5, GoToSafe
  <2>7. slots' \in [Provider -> 0..Slots] /\ SlotsAreReturned'
    BY <1>0, <2>1, <2>5, <2>6, PermitReturned DEF GoToKeeps, Holding
  <2>8. TypeOK'
    BY <1>0, <1>a, <2>5, <2>6, <2>7, TypeStep DEF GoToKeeps
  <2> QED
    BY <2>6, <2>7, <2>8 DEF IInv, GoToKeeps
<1>10. ASSUME NEW r \in Request, Cancel(r) PROVE IInv'
  <2>1. "cancelled" \in Steps
    BY DEF Steps, Ended
  <2>2. Moves(r, "cancelled", req[r].tries)
    BY <1>0, <1>10, <1>a, <1>c, <2>1, BreakersAtRest DEF Moves, Cancel, Ended, Admitted, Holding
  <2> QED
    BY <1>b, <2>1, <2>2, MoveKeeps
<1>11. CASE Tick
  <2>1. now' \in 0..MaxTime /\ now' = now + 1 /\ UNCHANGED <<ask, req, slots, cb, spent, stored, crowded>>
    BY <1>11, <1>a, RouterAssumption DEF Tick
  <2>2. TypeOK' /\ Going' /\ Admissions'
    BY <1>0, <1>a, <2>1 DEF TypeOK, Going, Admissions, RequestState
  <2>3. SlotsAreReturned' /\ OpenTargetsGetNoNewRequests'
    BY <1>0, <2>1 DEF SlotsAreReturned, OpenTargetsGetNoNewRequests, At
  <2> QED
    BY <2>2, <2>3 DEF IInv
<1>12. CASE UNCHANGED vars
  BY <1>0, <1>12 DEF vars, IInv, TypeOK, Going, Admissions, SlotsAreReturned,
     OpenTargetsGetNoNewRequests, At
<1> QED
  BY <1>1, <1>2, <1>3, <1>4, <1>5, <1>6, <1>7, <1>8, <1>9, <1>10, <1>11, <1>12
     DEF Next, Advance

(* The invariant holds in every state the router can reach. *)
THEOREM Inductive == Spec => []IInv
BY InitHolds, NextKeeps, PTL DEF Spec
-------------------------------------------------------------------------------
(* Every variable of the router keeps its type. *)
THEOREM TypeCorrect == Spec => []TypeOK
<1>1. IInv => TypeOK
  BY DEF IInv
<1> QED
  BY <1>1, Inductive, PTL

(* Permits are neither lost nor invented, however requests leave a call. *)
THEOREM PermitsBalance == Spec => []SlotsAreReturned
<1>1. IInv => SlotsAreReturned
  BY DEF IInv
<1> QED
  BY <1>1, Inductive, PTL

(* A target whose breaker is open is given no new request. *)
THEOREM OpenIsRespected == Spec => []OpenTargetsGetNoNewRequests
<1>1. IInv => OpenTargetsGetNoNewRequests
  BY DEF IInv
<1> QED
  BY <1>1, Inductive, PTL

-------------------------------------------------------------------------------
(***************************************************************************)
(* What requests leave behind: samples, failed targets, costs.  That a     *)
(* target holds one sample for each entry of a request's list rests on     *)
(* what is left of the list having none of the entries that have left      *)
(* theirs.  That a failed request had all its entries fail rests on what   *)
(* it has given up and what is left making up the list it began with.  And *)
(* the overshoot of calls that do not overlap rests on the one that is     *)
(* past the gate having found the cap not reached.                         *)
(***************************************************************************)

Unsent == {"new", "gate", "recheck"}
Live == {"queued", "calling"}

Sampling ==
    \A k \in Target : \A s \in cb[k].window :
        /\ TargetOf[s.by[2]] = k
        /\ req[s.by[1]].step \notin Unsent
        /\ req[s.by[1]].step \in Live => s.by[2] \notin ToSet(req[s.by[1]].todo)

InTurn == \A r \in Request : req[r].step \in Live => Distinct(req[r].todo)

Accounted ==
    \A r \in Request :
        /\ req[r].step \in Unsent => req[r].given = {} /\ ~req[r].waved
        /\ req[r].step = "failed" => req[r].todo = <<>>
        /\ ask[r].strategy = "priority" /\ req[r].step \in Live \cup {"failed"}
              => req[r].given \cup ToSet(req[r].todo) = ToSet(ask[r].listed)

Lonely == ~crowded /\ \A r \in Request : ~req[r].waved

Metering ==
    Lonely => /\ \A q, s \in Request : Uncharged(q) /\ Uncharged(s) => q = s
              /\ \A q \in Request : Uncharged(q) => spent < Cap
              /\ spent = 0 \/ \E k \in Target : spent < Cap + Price[k]

TraceInv == Sampling /\ OneSamplePerRequest /\ InTurn /\ Accounted /\ Metering

(* Head and rest of a list that names nobody twice. *)
LEMMA DistinctParts ==
    ASSUME NEW list \in Seq(Entry), list # <<>>
    PROVE  /\ ToSet(list) = {Head(list)} \cup ToSet(Tail(list))
           /\ Distinct(list) => Distinct(Tail(list)) /\ Head(list) \notin ToSet(Tail(list))
<1>1. /\ Len(list) \in Nat \ {0} /\ DOMAIN list = 1..Len(list)
      /\ DOMAIN Tail(list) = 1..(Len(list) - 1)
      /\ Head(list) = list[1]
      /\ \A i \in 1..(Len(list) - 1) : Tail(list)[i] = list[i + 1]
  OBVIOUS
<1>2. ToSet(list) = {Head(list)} \cup ToSet(Tail(list))
  <2>1. ASSUME NEW i \in DOMAIN list
        PROVE  list[i] \in {Head(list)} \cup ToSet(Tail(list))
    <3>1. CASE i = 1
      BY <1>1, <3>1
    <3>2. CASE i # 1
      <4>1. i - 1 \in 1..(Len(list) - 1) /\ (i - 1) + 1 = i
        BY <1>1, <2>1, <3>2
      <4> QED
        BY <1>1, <4>1 DEF ToSet
    <3> QED
      BY <3>1, <3>2
  <2>2. ASSUME NEW i \in DOMAIN Tail(list)
        PROVE  Tail(list)[i] \in ToSet(list)
    BY <1>1, <2>2 DEF ToSet
  <2>3. Head(list) \in ToSet(list)
    BY <1>1 DEF ToSet
  <2> QED
    BY <2>1, <2>2, <2>3 DEF ToSet
<1>3. ASSUME Distinct(list)
      PROVE  Distinct(Tail(list)) /\ Head(list) \notin ToSet(Tail(list))
  <2>1. \A i, j \in 1..Len(list) : list[i] = list[j] => i = j
    BY <1>1, <1>3 DEF Distinct
  <2>2. \A i, j \in 1..(Len(list) - 1) : Tail(list)[i] = Tail(list)[j] => i = j
    BY <1>1, <2>1
  <2>3. \A i \in 1..(Len(list) - 1) : Tail(list)[i] # Head(list)
    BY <1>1, <2>1
  <2> QED
    BY <1>1, <2>2, <2>3 DEF Distinct, ToSet
<1> QED
  BY <1>2, <1>3

(* Whatever the strategy, _targets names no target twice; priority takes   *)
(* the list as it is.                                                      *)
LEMMA ListsDistinct ==
    ASSUME TypeOK, NEW r \in Request, NEW list \in Lists(r)
    PROVE  Distinct(list) /\ (ask[r].strategy = "priority" => list = ask[r].listed)
<1>1. ask[r] \in RequestAsk /\ Distinct(ask[r].listed)
  BY RouterAssumption DEF TypeOK
<1>2. ask[r].strategy \in {"priority", "weighted", "least_cost"}
  BY <1>1 DEF RequestAsk, Strategy
<1>3. \A s \in SetToSeqs(Pool(r)) : Distinct(s)
  BY DEF SetToSeqs, Distinct
<1> QED
  BY <1>1, <1>2, <1>3 DEF Lists

(* is_open leaves the samples alone. *)
LEMMA AskedWindow ==
    ASSUME NEW b \in Circuit!Breaker
    PROVE  Circuit!Asked(b).window = b.window
BY DEF Circuit!Asked, Circuit!Breaker

(* _append and _prune add at most the caller's sample. *)
LEMMA SampledWindow ==
    ASSUME NEW b \in Circuit!Breaker, NEW r \in Request \X Entry, NEW ok \in BOOLEAN
    PROVE  \A s \in Circuit!Sampled(b, r, ok).window : s \in b.window \/ s = [by |-> r, ok |-> ok, at |-> now]
<1> DEFINE new == [by |-> r, ok |-> ok, at |-> now]
           kept == {s \in b.window \cup {new} : s.at >= now - Window}
<1>1. Circuit!Sampled(b, r, ok) = [b EXCEPT !.window = kept]
  BY DEF Circuit!Sampled, Circuit!Breaker
<1>2. \A s \in kept : s \in b.window \/ s = new
  OBVIOUS
<1> HIDE DEF kept, new
<1>3. Circuit!Sampled(b, r, ok).window = kept
  BY <1>1 DEF Circuit!Breaker
<1> QED
  BY <1>2, <1>3 DEF new

(* record_success adds at most one sample, the caller's. *)
LEMMA SuccessWindow ==
    ASSUME NEW b \in Circuit!Breaker, NEW r \in Request \X Entry
    PROVE  \A s \in Circuit!AfterSuccess(b, r).window :
              s \in b.window \/ s = [by |-> r, ok |-> TRUE, at |-> now]
<1> DEFINE c == IF b.state = "half_open" THEN [b EXCEPT !.state = "closed"] ELSE b
<1>1. c \in Circuit!Breaker /\ c.window = b.window
  BY DEF Circuit!Breaker
<1>2. Circuit!AfterSuccess(b, r) = Circuit!Sampled(c, r, TRUE)
  BY DEF Circuit!AfterSuccess
<1> HIDE DEF c
<1> QED
  BY <1>1, <1>2, SampledWindow

(* record_failure likewise. *)
LEMMA FailureWindow ==
    ASSUME now \in Nat, NEW b \in Circuit!Breaker, NEW r \in Request \X Entry
    PROVE  \A s \in Circuit!AfterFailure(b, r).window :
              s \in b.window \/ s = [by |-> r, ok |-> FALSE, at |-> now]
<1> DEFINE c == Circuit!Sampled(b, r, FALSE)
<1>1. c \in Circuit!Breaker
  BY SampledType
<1>2. \/ Circuit!AfterFailure(b, r) = c
      \/ Circuit!AfterFailure(b, r) = [c EXCEPT !.state = "open", !.opened = now]
  BY DEF Circuit!AfterFailure
<1>3. \A s \in c.window : s \in b.window \/ s = [by |-> r, ok |-> FALSE, at |-> now]
  BY SampledWindow
<1> HIDE DEF c
<1>4. Circuit!AfterFailure(b, r).window = c.window
  BY <1>1, <1>2 DEF Circuit!Breaker
<1> QED
  BY <1>3, <1>4

(* What a turn to the next target does to the request. *)
LEMMA GoToShape ==
    ASSUME TypeOK, NEW r \in Request, NEW list \in Seq(Entry),
           NEW b \in [Target -> Circuit!Breaker], NEW base \in RequestState,
           GoTo(r, list, b, base)
    PROVE  /\ \A q \in Request \ {r} : req'[q] = req[q]
           /\ req'[r].todo = list
           /\ req'[r].given = base.given /\ req'[r].waved = base.waved
           /\ list = <<>> => req'[r].step = "failed"
           /\ list # <<>> => req'[r].step \in {"open", "queued"}
           /\ \A k \in Target : cb'[k].window = b[k].window
<1> DEFINE next == [base EXCEPT !.todo = list, !.tries = 0]
<1>0. /\ req \in [Request -> RequestState] /\ next \in RequestState
      /\ next.todo = list /\ next.given = base.given /\ next.waved = base.waved
  BY DEF TypeOK, RequestState, Steps
<1>1. CASE list = <<>>
  <2>1. req' = [req EXCEPT ![r] = [next EXCEPT !.step = "failed"]] /\ cb' = b
    BY <1>1 DEF GoTo
  <2> HIDE DEF next
  <2> QED
    BY <1>0, <1>1, <2>1 DEF RequestState
<1>2. CASE list # <<>>
  <2> DEFINE k == TargetOf[Head(list)]
             gone == IF Circuit!IsOpen(b[k]) THEN [next EXCEPT !.step = "open"]
                     ELSE [next EXCEPT !.step = "queued", !.admitted = now]
  <2>0. k \in Target
    BY <1>2, RouterAssumption
  <2>1. cb' = [b EXCEPT ![k] = Circuit!Asked(b[k])] /\ req' = [req EXCEPT ![r] = gone]
    BY <1>2 DEF GoTo
  <2> HIDE DEF next
  <2>2. /\ gone.step \in {"open", "queued"} /\ gone.todo = next.todo
        /\ gone.given = next.given /\ gone.waved = next.waved
    <3>1. CASE Circuit!IsOpen(b[k])
      BY <1>0, <3>1 DEF RequestState
    <3>2. CASE ~Circuit!IsOpen(b[k])
      BY <1>0, <3>2 DEF RequestState
    <3> QED
      BY <3>1, <3>2
  <2>3. \A j \in Target : cb'[j].window = b[j].window
    BY <2>0, <2>1, AskedWindow
  <2> HIDE DEF gone
  <2>4. req'[r] = gone /\ \A q \in Request \ {r} : req'[q] = req[q]
    BY <1>0, <2>1
  <2> QED
    BY <1>0, <1>2, <2>2, <2>3, <2>4
<1> QED
  BY <1>1, <1>2

-------------------------------------------------------------------------------
(* What is said of a sample: it is with the target of the entry it is      *)
(* about, and the request is past that entry.                              *)
Left(k, s) ==
    /\ TargetOf[s.by[2]] = k
    /\ req[s.by[1]].step \notin Unsent
    /\ req[s.by[1]].step \in Live => s.by[2] \notin ToSet(req[s.by[1]].todo)

(* Samples of others are not concerned by a step of r. *)
LEMMA LeftBehind ==
    ASSUME TypeOK, Sampling, NEW r \in Request,
           \A q \in Request \ {r} : req'[q] = req[q],
           \/ req[r].step \in Unsent
           \/ /\ req'[r].step \notin Unsent
              /\ req'[r].step \in Live =>
                   req[r].step \in Live /\ ToSet(req'[r].todo) \subseteq ToSet(req[r].todo)
    PROVE  \A k \in Target : \A s \in cb[k].window : Left(k, s)'
<1> SUFFICES ASSUME NEW k \in Target, NEW s \in cb[k].window
             PROVE  Left(k, s)'
  OBVIOUS
<1>1. PICK q \in Request, e \in Entry : s.by = <<q, e>> /\ s.by[1] = q /\ s.by[2] = e
  BY DEF TypeOK, Circuit!Breaker, Circuit!Sample
<1>2. /\ TargetOf[e] = k /\ req[q].step \notin Unsent
      /\ req[q].step \in Live => e \notin ToSet(req[q].todo)
  BY <1>1 DEF Sampling
<1>3. req'[q].step \notin Unsent /\ (req'[q].step \in Live => e \notin ToSet(req'[q].todo))
  <2>1. CASE q = r
    BY <1>2, <2>1
  <2>2. CASE q # r
    BY <1>2, <2>2
  <2> QED
    BY <2>1, <2>2
<1> QED
  BY <1>1, <1>2, <1>3 DEF Left

(* A step of r in which nobody leaves a sample. *)
LEMMA Unsampled ==
    ASSUME TypeOK, Sampling, OneSamplePerRequest, NEW r \in Request,
           \A q \in Request \ {r} : req'[q] = req[q],
           \A k \in Target : cb'[k].window = cb[k].window,
           \/ req[r].step \in Unsent
           \/ /\ req'[r].step \notin Unsent
              /\ req'[r].step \in Live =>
                   req[r].step \in Live /\ ToSet(req'[r].todo) \subseteq ToSet(req[r].todo)
    PROVE  Sampling' /\ OneSamplePerRequest'
<1>1. \A k \in Target : \A s \in cb'[k].window : Left(k, s)'
  BY LeftBehind
<1> QED
  BY <1>1 DEF Left, Sampling, OneSamplePerRequest

(* A step of r that leaves a sample with the target it is at. *)
LEMMA NewlySampled ==
    ASSUME TypeOK, Sampling, OneSamplePerRequest, NEW r \in Request,
           \A q \in Request \ {r} : req'[q] = req[q],
           NEW k \in Target, NEW e \in Entry, TargetOf[e] = k, NEW x, x.by = <<r, e>>,
           \A j \in Target \ {k} : cb'[j].window = cb[j].window,
           \A s \in cb'[k].window : s \in cb[k].window \/ s = x,
           req[r].step \in Live, e \in ToSet(req[r].todo),
           req'[r].step \notin Unsent,
           req'[r].step \in Live => ToSet(req'[r].todo) \subseteq ToSet(req[r].todo) \ {e}
    PROVE  Sampling' /\ OneSamplePerRequest'
<1>1. \A j \in Target : \A s \in cb[j].window : Left(j, s)'
  BY LeftBehind
<1>2. x.by[1] = r /\ x.by[2] = e
  OBVIOUS
<1>3. Left(k, x)'
  BY <1>2 DEF Left
<1>4. \A j \in Target : \A s \in cb'[j].window : Left(j, s)'
  <2> SUFFICES ASSUME NEW j \in Target, NEW s \in cb'[j].window
               PROVE  Left(j, s)'
    OBVIOUS
  <2>1. CASE j = k
    BY <1>1, <1>3, <2>1
  <2>2. CASE j # k
    BY <1>1, <2>2
  <2> QED
    BY <2>1, <2>2
<1>5. \A s \in cb[k].window : s.by # x.by
  BY <1>2 DEF Sampling
<1>6. OneSamplePerRequest'
  <2> SUFFICES ASSUME NEW j \in Target, NEW s \in cb'[j].window, NEW t \in cb'[j].window
               PROVE  TargetOf[s.by[2]] = j /\ (s.by = t.by => s = t)
    BY DEF OneSamplePerRequest
  <2>1. TargetOf[s.by[2]] = j
    BY <1>4 DEF Left
  <2>2. CASE j = k
    BY <1>5, <2>1, <2>2 DEF OneSamplePerRequest
  <2>3. CASE j # k
    BY <2>1, <2>3 DEF OneSamplePerRequest
  <2> QED
    BY <2>2, <2>3
<1> QED
  BY <1>4, <1>6 DEF Left, Sampling

(* A step of r that chooses no target: its list, what it has given up and  *)
(* whether it was waved through stay as they are.                          *)
Stays(r) ==
    /\ ask' = ask
    /\ \A q \in Request \ {r} : req'[q] = req[q]
    /\ req'[r].todo = req[r].todo /\ req'[r].given = req[r].given
    /\ req'[r].waved = req[r].waved
    /\ req'[r].step \in Unsent => req[r].step \in Unsent
    /\ req'[r].step \in Live => req[r].step \in Live
    /\ req'[r].step # "failed"

(* Such a step keeps what is said of the lists. *)
LEMMA StaysKeeps ==
    ASSUME InTurn, Accounted, NEW r \in Request, Stays(r)
    PROVE  InTurn' /\ Accounted'
<1>1. InTurn'
  BY DEF InTurn, Stays
<1>2. Accounted'
  BY DEF Accounted, Stays
<1> QED
  BY <1>1, <1>2

(* A step of r that charges nothing and lets nobody past the gate. *)
LEMMA Unmetered ==
    ASSUME Metering, NEW r \in Request, ask' = ask, spent' = spent, crowded' = crowded,
           \A q \in Request \ {r} : req'[q] = req[q],
           req'[r].waved = req[r].waved,
           req'[r].step \in Live => req[r].step \in Live
    PROVE  Metering'
<1>1. Lonely' => Lonely
  BY DEF Lonely
<1>2. \A q \in Request : Uncharged(q)' => Uncharged(q)
  BY DEF Uncharged, Metered, Live
<1>3. ASSUME Lonely'
      PROVE  /\ \A q, s \in Request : Uncharged(q)' /\ Uncharged(s)' => q = s
             /\ \A q \in Request : Uncharged(q)' => spent < Cap
             /\ spent = 0 \/ \E k \in Target : spent < Cap + Price[k]
  BY <1>1, <1>2, <1>3 DEF Metering
<1> QED
  BY <1>3 DEF Metering

(* A step of r that leaves no sample either. *)
LEMMA QuietKeeps ==
    ASSUME TypeOK, TraceInv, NEW r \in Request, Stays(r), UNCHANGED <<cb, spent, crowded>>
    PROVE  TraceInv'
<1>1. Sampling /\ OneSamplePerRequest /\ InTurn /\ Accounted /\ Metering
  BY DEF TraceInv
<1>2. Sampling' /\ OneSamplePerRequest'
  <2>1. \/ req[r].step \in Unsent
        \/ /\ req'[r].step \notin Unsent
           /\ req'[r].step \in Live =>
                req[r].step \in Live /\ ToSet(req'[r].todo) \subseteq ToSet(req[r].todo)
    BY DEF Stays
  <2> QED
    BY <1>1, <2>1, Unsampled DEF Stays
<1>3. InTurn' /\ Accounted'
  BY <1>1, StaysKeeps
<1>4. Metering'
  BY <1>1, Unmetered DEF Stays
<1> QED
  BY <1>2, <1>3, <1>4 DEF TraceInv

(* A change of r's step and number of tries alone. *)
LEMMA StepStays ==
    ASSUME TypeOK, NEW r \in Request, NEW step, NEW tries,
           \/ req' = [req EXCEPT ![r].step = step]
           \/ req' = [req EXCEPT ![r].tries = tries] /\ step = req[r].step,
           ask' = ask,
           step \in Unsent => req[r].step \in Unsent,
           step \in Live => req[r].step \in Live,
           step # "failed"
    PROVE  Stays(r) /\ req'[r].step = step
<1>1. req \in [Request -> RequestState]
  BY DEF TypeOK, RequestState, Steps
<1>2. CASE req' = [req EXCEPT ![r].step = step]
  BY <1>1, <1>2 DEF RequestState, Stays
<1>3. CASE req' = [req EXCEPT ![r].tries = tries] /\ step = req[r].step
  BY <1>1, <1>3 DEF RequestState, Stays
<1> QED
  BY <1>2, <1>3

-------------------------------------------------------------------------------
(* No request has left anything yet. *)
LEMMA TraceInit == Init => TraceInv
<1> SUFFICES ASSUME Init PROVE TraceInv
  OBVIOUS
<1>1. /\ NewRequest.step = "new" /\ NewRequest.given = {} /\ NewRequest.waved = FALSE
      /\ Circuit!NewBreaker.window = {}
  BY DEF NewRequest, Circuit!NewBreaker
<1>2. /\ \A r \in Request : req[r] = NewRequest
      /\ \A k \in Target : cb[k].window = {}
      /\ spent = 0
  BY <1>1 DEF Init
<1>3. Sampling /\ OneSamplePerRequest
  BY <1>2 DEF Sampling, OneSamplePerRequest
<1>4. InTurn /\ Accounted
  BY <1>1, <1>2 DEF InTurn, Accounted, Live
<1>5. \A q \in Request : ~Uncharged(q)
  BY <1>1, <1>2 DEF Uncharged
<1>6. Metering
  BY <1>2, <1>5 DEF Metering
<1> QED
  BY <1>3, <1>4, <1>6 DEF TraceInv

(* From the gate to the first target.  Only the cache's word lets a        *)
(* request past a cap that is reached, and then it is waved through.       *)
LEMMA ProceedTraced ==
    ASSUME IInv, TraceInv, NEW r \in Request, req[r].step \in {"gate", "recheck"},
           NEW waved \in BOOLEAN, Proceed(r, waved), ~waved => WithinCap(r)
    PROVE  TraceInv'
<1>0. TypeOK /\ Sampling /\ OneSamplePerRequest /\ InTurn /\ Accounted /\ Metering
  BY DEF TraceInv, IInv
<1>1. /\ req \in [Request -> RequestState] /\ cb \in [Target -> Circuit!Breaker]
      /\ crowded \in BOOLEAN
  BY <1>0 DEF TypeOK, RequestState, Steps
<1>2. UNCHANGED <<ask, spent>>
      /\ crowded' = (crowded \/ (Metered(r) /\ \E s \in Request \ {r} : Uncharged(s)))
  BY DEF Proceed
<1>3. PICK list \in Lists(r) :
          GoTo(r, list, Surveyed(r), [req[r] EXCEPT !.waved = waved])
  BY DEF Proceed
<1>4. /\ list \in Seq(Entry) /\ Distinct(list)
      /\ ask[r].strategy = "priority" => list = ask[r].listed
  BY <1>0, ListsType, ListsDistinct
<1>5. /\ Surveyed(r) \in [Target -> Circuit!Breaker]
      /\ \A k \in Target : Surveyed(r)[k].window = cb[k].window
  <2>1. \A k \in Target : /\ Circuit!Asked(cb[k]) \in Circuit!Breaker
                         /\ Circuit!Asked(cb[k]).window = cb[k].window
    BY <1>1, AskedStep, AskedWindow DEF BreakerStep
  <2>2. CASE ask[r].strategy = "priority"
    BY <1>1, <2>2 DEF Surveyed
  <2>3. CASE ask[r].strategy # "priority"
    <3>1. Surveyed(r) = [k \in Target |-> IF \E e \in ToSet(ask[r].listed) : TargetOf[e] = k
                                         THEN Circuit!Asked(cb[k]) ELSE cb[k]]
      BY <2>3 DEF Surveyed
    <3> QED
      BY <1>1, <2>1, <3>1
  <2> QED
    BY <2>2, <2>3
<1>6. PICK base \in RequestState :
          /\ base = [req[r] EXCEPT !.waved = waved]
          /\ base.given = req[r].given /\ base.waved = waved
  <2>1. /\ [req[r] EXCEPT !.waved = waved] \in RequestState
        /\ [req[r] EXCEPT !.waved = waved].given = req[r].given
        /\ [req[r] EXCEPT !.waved = waved].waved = waved
    BY <1>1 DEF RequestState
  <2> QED
    BY <2>1
<1>7. /\ \A q \in Request \ {r} : req'[q] = req[q]
      /\ req'[r].todo = list
      /\ req'[r].given = req[r].given /\ req'[r].waved = waved
      /\ list = <<>> => req'[r].step = "failed"
      /\ list # <<>> => req'[r].step \in {"open", "queued"}
      /\ \A k \in Target : cb'[k].window = cb[k].window
  <2>1. PICK b \in [Target -> Circuit!Breaker] :
            b = Surveyed(r) /\ \A k \in Target : b[k].window = cb[k].window
    BY <1>5
  <2>2. GoTo(r, list, b, base)
    BY <1>3, <1>6, <2>1
  <2>3. /\ \A q \in Request \ {r} : req'[q] = req[q]
        /\ req'[r].todo = list
        /\ req'[r].given = base.given /\ req'[r].waved = base.waved
        /\ list = <<>> => req'[r].step = "failed"
        /\ list # <<>> => req'[r].step \in {"open", "queued"}
        /\ \A k \in Target : cb'[k].window = b[k].window
    BY <1>0, <1>4, <2>2, GoToShape
  <2> QED
    BY <1>6, <2>1, <2>3
<1>8. /\ req[r].step \in Unsent /\ req[r].given = {} /\ ~req[r].waved
      /\ req'[r].step \in {"failed", "open", "queued"}
  BY <1>0, <1>7 DEF Accounted, Unsent
<1>9. Sampling' /\ OneSamplePerRequest'
  BY <1>0, <1>7, <1>8, Unsampled
<1>10. InTurn'
  BY <1>0, <1>4, <1>7 DEF InTurn
<1>11. Accounted'
  <2> SUFFICES ASSUME NEW q \in Request
               PROVE  /\ req'[q].step \in Unsent => req'[q].given = {} /\ ~req'[q].waved
                      /\ req'[q].step = "failed" => req'[q].todo = <<>>
                      /\ ask[q].strategy = "priority" /\ req'[q].step \in Live \cup {"failed"}
                            => req'[q].given \cup ToSet(req'[q].todo) = ToSet(ask[q].listed)
    BY <1>2 DEF Accounted
  <2>1. CASE q = r
    BY <1>4, <1>7, <1>8, <2>1 DEF Unsent
  <2>2. CASE q # r
    BY <1>0, <1>7, <2>2 DEF Accounted
  <2> QED
    BY <2>1, <2>2
<1>12. Metering'
  <2> SUFFICES ASSUME Lonely'
               PROVE  /\ \A q, s \in Request : Uncharged(q)' /\ Uncharged(s)' => q = s
                      /\ \A q \in Request : Uncharged(q)' => spent < Cap
                      /\ spent = 0 \/ \E k \in Target : spent < Cap + Price[k]
    BY <1>2 DEF Metering
  <2>1. ~waved
    BY <1>7 DEF Lonely
  <2>2. ~crowded /\ (Metered(r) => \A s \in Request \ {r} : ~Uncharged(s))
    BY <1>1, <1>2 DEF Lonely
  <2>3. Lonely
    BY <1>7, <1>8, <2>2 DEF Lonely
  <2>4. /\ \A q, s \in Request : Uncharged(q) /\ Uncharged(s) => q = s
        /\ \A q \in Request : Uncharged(q) => spent < Cap
        /\ spent = 0 \/ \E k \in Target : spent < Cap + Price[k]
    BY <1>0, <2>3 DEF Metering
  <2>5. \A q \in Request \ {r} : Uncharged(q)' = Uncharged(q)
    BY <1>2, <1>7 DEF Uncharged, Metered
  <2>6. Uncharged(r)' => Metered(r)
    BY <1>2 DEF Uncharged, Metered
  <2>7. Metered(r) => spent < Cap
    BY <2>1 DEF WithinCap, Metered
  <2> QED
    BY <2>2, <2>4, <2>5, <2>6, <2>7
<1> QED
  BY <1>9, <1>10, <1>11, <1>12 DEF TraceInv

(* A success leaves a sample and, if metered, a charge. *)
LEMMA SucceedTraced ==
    ASSUME IInv, TraceInv, NEW r \in Request, Succeed(r)
    PROVE  TraceInv'
<1>0. TypeOK /\ Going /\ Sampling /\ OneSamplePerRequest /\ InTurn /\ Accounted /\ Metering
  BY DEF TraceInv, IInv
<1>1. /\ req \in [Request -> RequestState] /\ cb \in [Target -> Circuit!Breaker]
      /\ spent \in Nat /\ Cap \in Nat /\ Price \in [Target -> Nat]
  BY <1>0, RouterAssumption DEF TypeOK, RequestState, Steps
<1>2. req[r].step = "calling" /\ req[r].todo \in Seq(Entry) /\ req[r].todo # <<>>
  BY <1>0, <1>1 DEF Succeed, Going, Admitted, Holding, RequestState
<1>3. PICK k \in Target, e \in Entry :
          /\ k = At(r) /\ k = TargetOf[e] /\ e \in ToSet(req[r].todo)
          /\ Visit(r) = <<r, e>> /\ Visit(r) \in Request \X Entry
  <2>1. /\ At(r) \in Target /\ Head(req[r].todo) \in Entry /\ Visit(r) \in Request \X Entry
        /\ Head(req[r].todo) \in ToSet(req[r].todo)
    BY <1>0, <1>2, AtTarget, DistinctParts
  <2> QED
    BY <2>1 DEF At, Visit
<1>4. PICK step \in {"storing", "answered"} : req' = [req EXCEPT ![r].step = step]
  <2>1. CASE UsesCache(r)
    BY <2>1 DEF Succeed
  <2>2. CASE ~UsesCache(r)
    BY <2>2 DEF Succeed
  <2> QED
    BY <2>1, <2>2
<1>5. /\ cb' = [cb EXCEPT ![k] = Circuit!AfterSuccess(cb[k], Visit(r))]
      /\ spent' = (IF Metered(r) THEN spent + Price[k] ELSE spent)
      /\ UNCHANGED <<ask, crowded>>
  BY <1>3 DEF Succeed
<1>6. Stays(r) /\ req'[r].step = step
  BY <1>0, <1>4, <1>5, StepStays DEF Unsent, Live
<1>7. Sampling' /\ OneSamplePerRequest'
  <2>1. PICK x : x = [by |-> Visit(r), ok |-> TRUE, at |-> now]
    OBVIOUS
  <2>2. \A s \in Circuit!AfterSuccess(cb[k], Visit(r)).window : s \in cb[k].window \/ s = x
    BY <1>1, <1>3, <2>1, SuccessWindow
  <2>3. cb'[k] = Circuit!AfterSuccess(cb[k], Visit(r)) /\ \A j \in Target \ {k} : cb'[j] = cb[j]
    BY <1>1, <1>5
  <2>4. x.by = <<r, e>>
    BY <1>3, <2>1
  <2>5. req[r].step \in Live /\ req'[r].step \notin Unsent /\ req'[r].step \notin Live
    BY <1>2, <1>6 DEF Live, Unsent
  <2> QED
    BY <1>0, <1>3, <1>6, <2>2, <2>3, <2>4, <2>5, NewlySampled DEF Stays
<1>8. InTurn' /\ Accounted'
  BY <1>0, <1>6, StaysKeeps
<1>9. Metering'
  <2> SUFFICES ASSUME Lonely'
               PROVE  /\ \A q, s \in Request : Uncharged(q)' /\ Uncharged(s)' => q = s
                      /\ \A q \in Request : Uncharged(q)' => spent' < Cap
                      /\ spent' = 0 \/ \E j \in Target : spent' < Cap + Price[j]
    BY DEF Metering
  <2>1. Lonely
    BY <1>5, <1>6 DEF Lonely, Stays
  <2>2. /\ \A q, s \in Request : Uncharged(q) /\ Uncharged(s) => q = s
        /\ \A q \in Request : Uncharged(q) => spent < Cap
        /\ spent = 0 \/ \E j \in Target : spent < Cap + Price[j]
    BY <1>0, <2>1 DEF Metering
  <2>3. ~Uncharged(r)' /\ \A q \in Request \ {r} : Uncharged(q)' = Uncharged(q)
    BY <1>5, <1>6 DEF Uncharged, Metered, Stays
  <2>4. CASE Metered(r)
    <3>1. Uncharged(r)
      BY <1>2, <2>4 DEF Uncharged
    <3>2. spent < Cap /\ \A q \in Request : ~Uncharged(q)'
      BY <2>2, <2>3, <3>1
    <3>3. spent' < Cap + Price[k]
      BY <1>1, <1>3, <1>5, <2>4, <3>2
    <3> QED
      BY <3>2, <3>3
  <2>5. CASE ~Metered(r)
    BY <1>5, <2>2, <2>3, <2>5
  <2> QED
    BY <2>4, <2>5
<1> QED
  BY <1>7, <1>8, <1>9 DEF TraceInv

(* A failure leaves a sample, and the target joins those given up. *)
LEMMA GiveUpTraced ==
    ASSUME IInv, TraceInv, NEW r \in Request, GiveUp(r)
    PROVE  TraceInv'
<1>0. TypeOK /\ Going /\ Sampling /\ OneSamplePerRequest /\ InTurn /\ Accounted /\ Metering
  BY DEF TraceInv, IInv
<1>1. /\ req \in [Request -> RequestState] /\ cb \in [Target -> Circuit!Breaker]
      /\ now \in Nat
  BY <1>0, RouterAssumption DEF TypeOK, RequestState, Steps
<1>2. /\ req[r].step = "calling" /\ req[r].step \in Live
      /\ req[r].todo \in Seq(Entry) /\ req[r].todo # <<>>
  BY <1>0, <1>1 DEF GiveUp, Going, Admitted, Holding, Live, RequestState
<1>3. PICK k \in Target, e \in Entry :
          /\ k = At(r) /\ e = Head(req[r].todo) /\ k = TargetOf[e]
          /\ Visit(r) = <<r, e>> /\ Visit(r) \in Request \X Entry
          /\ ToSet(req[r].todo) = {e} \cup ToSet(Rest(r))
          /\ Distinct(Rest(r)) /\ e \notin ToSet(Rest(r)) /\ Rest(r) \in Seq(Entry)
  <2>1. Distinct(req[r].todo)
    BY <1>0, <1>2 DEF InTurn
  <2>2. /\ At(r) \in Target /\ Head(req[r].todo) \in Entry /\ Visit(r) \in Request \X Entry
        /\ Rest(r) \in Seq(Entry)
    BY <1>0, <1>2, AtTarget DEF Rest
  <2> QED
    BY <1>2, <2>1, <2>2, DistinctParts DEF At, Visit, Rest
<1>4. PICK base \in RequestState :
          /\ base = [req[r] EXCEPT !.given = @ \cup {Head(req[r].todo)}]
          /\ base.given = req[r].given \cup {e} /\ base.waved = req[r].waved
  <2>1. req[r].given \cup {e} \in SUBSET Entry
    BY <1>1 DEF RequestState
  <2>2. /\ [req[r] EXCEPT !.given = @ \cup {e}] \in RequestState
        /\ [req[r] EXCEPT !.given = @ \cup {e}].given = req[r].given \cup {e}
        /\ [req[r] EXCEPT !.given = @ \cup {e}].waved = req[r].waved
    BY <1>1, <2>1 DEF RequestState
  <2> QED
    BY <1>3, <2>2
<1>5. PICK b \in [Target -> Circuit!Breaker] :
          /\ b = [cb EXCEPT ![At(r)] = Circuit!AfterFailure(@, Visit(r))]
          /\ b[k] = Circuit!AfterFailure(cb[k], Visit(r))
          /\ \A j \in Target \ {k} : b[j] = cb[j]
  <2>1. Circuit!AfterFailure(cb[k], Visit(r)) \in Circuit!Breaker
    BY <1>1, <1>3, FailureStep DEF BreakerStep
  <2>2. PICK b : b = [cb EXCEPT ![k] = Circuit!AfterFailure(cb[k], Visit(r))]
    OBVIOUS
  <2>3. /\ b \in [Target -> Circuit!Breaker]
        /\ b[k] = Circuit!AfterFailure(cb[k], Visit(r))
        /\ \A j \in Target \ {k} : b[j] = cb[j]
    BY <1>1, <2>1, <2>2
  <2> QED
    BY <1>3, <2>2, <2>3
<1>6. GoTo(r, Rest(r), b, base) /\ UNCHANGED <<ask, spent, crowded>>
  BY <1>4, <1>5 DEF GiveUp
<1>7. /\ \A q \in Request \ {r} : req'[q] = req[q]
      /\ req'[r].todo = Rest(r)
      /\ req'[r].given = req[r].given \cup {e} /\ req'[r].waved = req[r].waved
      /\ Rest(r) = <<>> => req'[r].step = "failed"
      /\ Rest(r) # <<>> => req'[r].step \in {"open", "queued"}
      /\ \A j \in Target : cb'[j].window = b[j].window
  <2>1. PICK list \in Seq(Entry) : list = Rest(r)
    BY <1>3
  <2>2. GoTo(r, list, b, base)
    BY <1>6, <2>1
  <2>3. /\ \A q \in Request \ {r} : req'[q] = req[q]
        /\ req'[r].todo = list
        /\ req'[r].given = base.given /\ req'[r].waved = base.waved
        /\ list = <<>> => req'[r].step = "failed"
        /\ list # <<>> => req'[r].step \in {"open", "queued"}
        /\ \A j \in Target : cb'[j].window = b[j].window
    BY <1>0, <2>2, GoToShape
  <2> QED
    BY <1>4, <2>1, <2>3
<1>8. req'[r].step \in {"failed", "open", "queued"}
  BY <1>7
<1>9. Sampling' /\ OneSamplePerRequest'
  <2>1. PICK x : x = [by |-> Visit(r), ok |-> FALSE, at |-> now]
    OBVIOUS
  <2>2. \A s \in Circuit!AfterFailure(cb[k], Visit(r)).window : s \in cb[k].window \/ s = x
    BY <1>1, <1>3, <2>1, FailureWindow
  <2>3. /\ \A s \in cb'[k].window : s \in cb[k].window \/ s = x
        /\ \A j \in Target \ {k} : cb'[j].window = cb[j].window
    BY <1>5, <1>7, <2>2
  <2>4. x.by = <<r, e>>
    BY <1>3, <2>1
  <2>5. req'[r].step \notin Unsent /\ ToSet(req'[r].todo) \subseteq ToSet(req[r].todo) \ {e}
    BY <1>3, <1>7, <1>8 DEF Unsent
  <2>6. e \in ToSet(req[r].todo) /\ TargetOf[e] = k
    BY <1>3
  <2>7. \A q \in Request \ {r} : req'[q] = req[q]
    BY <1>7
  <2> QED
    BY <1>0, <1>2, <2>3, <2>4, <2>5, <2>6, <2>7, NewlySampled
<1>10. InTurn'
  BY <1>0, <1>3, <1>7 DEF InTurn
<1>11. Accounted'
  <2> SUFFICES ASSUME NEW q \in Request
               PROVE  /\ req'[q].step \in Unsent => req'[q].given = {} /\ ~req'[q].waved
                      /\ req'[q].step = "failed" => req'[q].todo = <<>>
                      /\ ask[q].strategy = "priority" /\ req'[q].step \in Live \cup {"failed"}
                            => req'[q].given \cup ToSet(req'[q].todo) = ToSet(ask[q].listed)
    BY <1>6 DEF Accounted
  <2>1. CASE q = r
    <3>1. ask[r].strategy = "priority"
            => req[r].given \cup ({e} \cup ToSet(Rest(r))) = ToSet(ask[r].listed)
      BY <1>0, <1>2, <1>3 DEF Accounted
    <3> QED
      BY <1>7, <1>8, <2>1, <3>1 DEF Unsent
  <2>2. CASE q # r
    BY <1>0, <1>7, <2>2 DEF Accounted
  <2> QED
    BY <2>1, <2>2
<1>12. Metering'
  BY <1>0, <1>2, <1>6, <1>7, Unmetered
<1> QED
  BY <1>9, <1>10, <1>11, <1>12 DEF TraceInv

(* Every step of every request keeps what is said of the traces. *)
LEMMA TraceKeeps == IInv /\ TraceInv /\ [Next]_vars => TraceInv'
<1> SUFFICES ASSUME IInv, TraceInv, [Next]_vars PROVE TraceInv'
  OBVIOUS
<1>0. TypeOK
  BY DEF IInv
<1>1. ASSUME NEW r \in Request, Lookup(r) PROVE TraceInv'
  <2>1. PICK step \in {"cached", "gate"} : req' = [req EXCEPT ![r].step = step]
    BY <1>1 DEF Lookup
  <2>2. Stays(r)
    BY <1>0, <1>1, <2>1, StepStays DEF Lookup, Unsent, Live
  <2> QED
    BY <1>0, <1>1, <2>2, QuietKeeps DEF Lookup
<1>2. ASSUME NEW r \in Request, Gate(r) PROVE TraceInv'
  BY <1>2, ProceedTraced DEF Gate
<1>3. ASSUME NEW r \in Request, OverCap(r) PROVE TraceInv'
  <2>1. PICK step \in {"recheck", "refused"} : req' = [req EXCEPT ![r].step = step]
    BY <1>3 DEF OverCap
  <2>2. Stays(r)
    BY <1>0, <1>3, <2>1, StepStays DEF OverCap, Unsent, Live
  <2> QED
    BY <1>0, <1>3, <2>2, QuietKeeps DEF OverCap
<1>4. ASSUME NEW r \in Request, Recheck(r) PROVE TraceInv'
  <2>1. CASE Proceed(r, TRUE)
    BY <1>4, <2>1, ProceedTraced DEF Recheck
  <2>2. CASE /\ req' = [req EXCEPT ![r].step = "refused"]
             /\ UNCHANGED <<ask, slots, cb, spent, stored, crowded, now>>
    <3>1. Stays(r)
      <4>1. PICK step \in {"refused"} : req' = [req EXCEPT ![r].step = step]
        BY <2>2
      <4> QED
        BY <1>0, <2>2, <4>1, StepStays DEF Unsent, Live
    <3> QED
      BY <1>0, <2>2, <3>1, QuietKeeps
  <2> QED
    BY <1>4, <2>1, <2>2 DEF Recheck
<1>5. ASSUME NEW r \in Request, Acquire(r) PROVE TraceInv'
  <2>1. Stays(r)
    <3>1. PICK step \in {"calling"} : req' = [req EXCEPT ![r].step = step]
      BY <1>5 DEF Acquire
    <3> QED
      BY <1>0, <1>5, <3>1, StepStays DEF Acquire, Unsent, Live
  <2> QED
    BY <1>0, <1>5, <2>1, QuietKeeps DEF Acquire
<1>6. ASSUME NEW r \in Request, Succeed(r) PROVE TraceInv'
  BY <1>6, SucceedTraced
<1>7. ASSUME NEW r \in Request, Store(r) PROVE TraceInv'
  <2>1. Stays(r)
    <3>1. PICK step \in {"answered"} : req' = [req EXCEPT ![r].step = step]
      BY <1>7 DEF Store
    <3> QED
      BY <1>0, <1>7, <3>1, StepStays DEF Store, Unsent, Live
  <2> QED
    BY <1>0, <1>7, <2>1, QuietKeeps DEF Store
<1>8. ASSUME NEW r \in Request, Retry(r) PROVE TraceInv'
  <2>1. Stays(r)
    BY <1>0, <1>8, StepStays DEF Retry, Unsent, Live
  <2> QED
    BY <1>0, <1>8, <2>1, QuietKeeps DEF Retry
<1>9. ASSUME NEW r \in Request, GiveUp(r) PROVE TraceInv'
  BY <1>9, GiveUpTraced
<1>10. ASSUME NEW r \in Request, Cancel(r) PROVE TraceInv'
  <2>1. Stays(r)
    <3>1. PICK step \in {"cancelled"} : req' = [req EXCEPT ![r].step = step]
      BY <1>10 DEF Cancel
    <3> QED
      BY <1>0, <1>10, <3>1, StepStays DEF Cancel, Unsent, Live
  <2> QED
    BY <1>0, <1>10, <2>1, QuietKeeps DEF Cancel
<1>11. CASE UNCHANGED <<ask, req, cb, spent, crowded>>
  <2>1. Sampling' /\ OneSamplePerRequest' /\ InTurn' /\ Accounted'
    BY <1>11 DEF TraceInv, Sampling, OneSamplePerRequest, InTurn, Accounted
  <2>2. Metering'
    BY <1>11 DEF TraceInv, Metering, Lonely, Uncharged, Metered
  <2> QED
    BY <2>1, <2>2 DEF TraceInv
<1> QED
  BY <1>1, <1>2, <1>3, <1>4, <1>5, <1>6, <1>7, <1>8, <1>9, <1>10, <1>11
     DEF Next, Advance, Tick, vars

(* So does what is said of the traces requests leave. *)
THEOREM TraceInvariant == Spec => []TraceInv
BY TraceInit, TraceKeeps, Inductive, PTL DEF Spec

(* A request leaves at most one sample with a target for each entry of its *)
(* list that names it, however often it retried there and however the      *)
(* strategy ordered the list: min_samples and failure_rate count requests. *)
THEOREM SamplesCountRequests == Spec => []OneSamplePerRequest
<1>1. TraceInv => OneSamplePerRequest
  BY DEF TraceInv
<1> QED
  BY <1>1, TraceInvariant, PTL

(* Metered calls that never overlapped, none of them let through by the    *)
(* cache, exceed the cap by less than the price of one call.               *)
THEOREM OvershootIsOneCall == Spec => []LoneCallsOvershootOnce
<1>1. TraceInv => LoneCallsOvershootOnce
  BY DEF TraceInv, Metering, Lonely, LoneCallsOvershootOnce
<1> QED
  BY <1>1, TraceInvariant, PTL

(* A request reports that all providers failed (6001) only after each      *)
(* target of its priority list failed on it.                               *)
THEOREM AllTargetsHadFailed == Spec => []FailedMeansAllFailed
<1>1. TraceInv => FailedMeansAllFailed
  <2>1. ToSet(<<>>) = {}
    BY DEF ToSet
  <2> QED
    BY <2>1 DEF TraceInv, Accounted, FailedMeansAllFailed
<1> QED
  BY <1>1, TraceInvariant, PTL
-------------------------------------------------------------------------------
(* How far a request has come: before its targets, at them, at its end;    *)
(* and at a target.                                                        *)
Place(step) ==
    CASE step = "new" -> 0 [] step = "gate" -> 1 [] step = "recheck" -> 2
      [] step \in Admitted -> 3 [] OTHER -> 4

Turn(step) == CASE step = "queued" -> 0 [] step = "calling" -> 1 [] OTHER -> 2

(* r comes nearer to its end: to a later place, to fewer targets that are  *)
(* left, to a further attempt at its target that its retries allow, or on  *)
(* within the attempt.                                                     *)
ComesNearer(r) ==
    LET old == req[r]
        new == req'[r]
    IN  \/ Place(old.step) < Place(new.step)
        \/ /\ Place(old.step) = 3 /\ Place(new.step) = 3
           /\ \/ Len(new.todo) < Len(old.todo)
              \/ /\ new.todo = old.todo
                 /\ \/ old.tries < new.tries /\ new.tries <= ask[r].retries
                    \/ old.tries = new.tries /\ Turn(old.step) < Turn(new.step)

(* Whatever retries, fallbacks and second looks into the cache a request   *)
(* takes, each of its steps brings it nearer to its end: no target is gone *)
(* back to and no attempt made that its retries do not allow.              *)
RequestsAdvance == [][\A r \in Request : req'[r] # req[r] => ComesNearer(r)]_vars

(* A step of r and of nobody else that brings r nearer to its end. *)
Nears(r) == ComesNearer(r) /\ \A q \in Request \ {r} : req'[q] = req[q]

(* The places of the steps, and their turns at a target. *)
LEMMA Places ==
    ASSUME NEW step \in Steps
    PROVE  /\ Place(step) \in 0..4 /\ Turn(step) \in 0..2
           /\ Place(step) = 3 <=> step \in Admitted
           /\ Place(step) = 4 <=> step \in Ended
BY DEF Place, Turn, Steps, Admitted, Holding, Ended

(* Only the step changes. *)
LEMMA StepNears ==
    ASSUME TypeOK, NEW r \in Request, NEW step, req' = [req EXCEPT ![r].step = step],
           \/ Place(req[r].step) < Place(step)
           \/ /\ Place(req[r].step) = 3 /\ Place(step) = 3
              /\ Turn(req[r].step) < Turn(step)
    PROVE  Nears(r)
<1>1. PICK old \in RequestState : old = req[r]
  BY DEF TypeOK, RequestState, Steps
<1>2. PICK new : new = [old EXCEPT !.step = step]
  OBVIOUS
<1>3. req'[r] = new /\ \A q \in Request \ {r} : req'[q] = req[q]
  BY <1>1, <1>2 DEF TypeOK
<1>4. new.step = step /\ new.todo = old.todo /\ new.tries = old.tries
  BY <1>1, <1>2 DEF RequestState
<1> QED
  BY <1>1, <1>3, <1>4 DEF Nears, ComesNearer

(* The gate is passed. *)
LEMMA ProceedNears ==
    ASSUME IInv, NEW r \in Request, NEW waved \in BOOLEAN, Proceed(r, waved),
           req[r].step \in {"gate", "recheck"}
    PROVE  Nears(r)
<1> DEFINE base == [req[r] EXCEPT !.waved = waved]
<1>1. TypeOK
  BY DEF IInv
<1>2. PICK list \in Lists(r) : GoTo(r, list, Surveyed(r), base)
  BY DEF Proceed
<1>3. list \in Seq(Entry) /\ Surveyed(r) \in [Target -> Circuit!Breaker]
  <2>1. cb \in [Target -> Circuit!Breaker] /\ now \in Nat
    BY <1>1, RouterAssumption DEF TypeOK
  <2> QED
    BY <1>1, <1>2, <2>1, ListsType, SurveyedStep
<1>4. base \in RequestState
  BY <1>1 DEF TypeOK, RequestState, Steps
<1> HIDE DEF base
<1>5. /\ \A q \in Request \ {r} : req'[q] = req[q]
      /\ req'[r].step \in {"failed", "open", "queued"}
  BY <1>1, <1>2, <1>3, <1>4, GoToShape
<1>6. Place(req[r].step) < Place(req'[r].step)
  BY <1>5 DEF Place, Admitted, Holding
<1> QED
  BY <1>5, <1>6 DEF Nears, ComesNearer

(* A target is given up. *)
LEMMA GiveUpNears ==
    ASSUME IInv, NEW r \in Request, GiveUp(r)
    PROVE  Nears(r)
<1> DEFINE b == [cb EXCEPT ![At(r)] = Circuit!AfterFailure(@, Visit(r))]
           base == [req[r] EXCEPT !.given = @ \cup {Head(req[r].todo)}]
<1>1. /\ TypeOK /\ now \in Nat /\ cb \in [Target -> Circuit!Breaker] /\ req[r] \in RequestState
  BY RouterAssumption DEF IInv, TypeOK, RequestState, Steps
<1>2. /\ req[r].step = "calling" /\ req[r].todo # <<>> /\ req[r].todo \in Seq(Entry)
      /\ At(r) \in Target /\ Visit(r) \in Request \X Entry /\ Head(req[r].todo) \in Entry
  BY <1>1, AtTarget DEF IInv, GiveUp, Going, Admitted, Holding
<1>3. b \in [Target -> Circuit!Breaker]
  <2>1. Circuit!AfterFailure(cb[At(r)], Visit(r)) \in Circuit!Breaker
    BY <1>1, <1>2, FailureStep DEF BreakerStep
  <2> QED
    BY <1>1, <1>2, <2>1
<1>4. base \in RequestState
  BY <1>1, <1>2 DEF RequestState
<1>5. Rest(r) \in Seq(Entry) /\ Len(Rest(r)) < Len(req[r].todo)
  BY <1>2 DEF Rest
<1>6. GoTo(r, Rest(r), b, base)
  BY DEF GiveUp
<1> HIDE DEF b, base
<1>7. /\ \A q \in Request \ {r} : req'[q] = req[q]
      /\ req'[r].todo = Rest(r) /\ req'[r].step \in {"failed", "open", "queued"}
  BY <1>1, <1>3, <1>4, <1>5, <1>6, GoToShape
<1>8. Place(req[r].step) = 3 /\ Place(req'[r].step) \in {3, 4}
  BY <1>2, <1>7 DEF Place, Admitted, Holding
<1>9. CASE Place(req'[r].step) = 3
  BY <1>5, <1>7, <1>8, <1>9 DEF Nears, ComesNearer
<1>10. CASE Place(req'[r].step) = 4
  BY <1>7, <1>8, <1>10 DEF Nears, ComesNearer
<1> QED
  BY <1>8, <1>9, <1>10

(* A further attempt, which the retries allow. *)
LEMMA RetryNears ==
    ASSUME TypeOK, NEW r \in Request, Retry(r)
    PROVE  Nears(r)
<1>1. PICK old \in RequestState : old = req[r]
  BY DEF TypeOK, RequestState, Steps
<1>2. PICK n \in Nat, m \in Nat : n = old.tries /\ m = ask[r].retries
  BY <1>1, RouterAssumption DEF TypeOK, RequestState, RequestAsk
<1>3. n + 1 <= m /\ old.step = "calling"
  BY <1>1, <1>2 DEF Retry, TriesLeft
<1>4. PICK new : new = [old EXCEPT !.tries = n + 1]
  OBVIOUS
<1>5. req'[r] = new /\ \A q \in Request \ {r} : req'[q] = req[q]
  BY <1>1, <1>2, <1>4 DEF Retry, TypeOK
<1>6. new.step = "calling" /\ new.todo = old.todo /\ new.tries = n + 1
  BY <1>1, <1>3, <1>4 DEF RequestState
<1>7. Place("calling") = 3
  BY DEF Place, Admitted, Holding
<1> QED
  BY <1>1, <1>2, <1>3, <1>5, <1>6, <1>7 DEF Nears, ComesNearer

(* Each step of a request brings it nearer to its end, whatever retries,   *)
(* fallbacks and second looks into the cache it takes: with the fairness   *)
(* of its steps this is why no request waits for ever.                     *)
THEOREM RequestsComeToTheirEnd == Spec => RequestsAdvance
<1>1. IInv /\ [Next]_vars => [\A r \in Request : req'[r] # req[r] => ComesNearer(r)]_vars
  <2> SUFFICES ASSUME IInv, Next, NEW r \in Request, req'[r] # req[r] PROVE ComesNearer(r)
    OBVIOUS
  <2>0. TypeOK /\ req[r] \in RequestState
    BY DEF IInv, TypeOK, RequestState, Steps
  <2>1. PICK q \in Request : Advance(q) \/ Cancel(q)
    BY DEF Next, Tick
  <2> SUFFICES Nears(q)
    BY DEF Nears
  <2> DEFINE here == req[q].step
  <2>2. here \in Steps
    BY <2>0 DEF TypeOK, Steps
  <2>3. CASE Lookup(q)
    <3>1. PICK step \in {"cached", "gate"} : req' = [req EXCEPT ![q].step = step] /\ here = "new"
      BY <2>3 DEF Lookup
    <3>2. Place(here) < Place(step)
      BY <3>1 DEF Place, Admitted, Holding
    <3> QED
      BY <2>0, <3>1, <3>2, StepNears
  <2>4. CASE Gate(q)
    BY <2>4, ProceedNears DEF Gate
  <2>5. CASE OverCap(q)
    <3>1. PICK step \in {"recheck", "refused"} : req' = [req EXCEPT ![q].step = step] /\ here = "gate"
      BY <2>5 DEF OverCap
    <3>2. Place(here) < Place(step)
      BY <3>1 DEF Place, Admitted, Holding
    <3> QED
      BY <2>0, <3>1, <3>2, StepNears
  <2>6. CASE Recheck(q)
    <3>1. CASE Proceed(q, TRUE)
      BY <2>6, <3>1, ProceedNears DEF Recheck
    <3>2. CASE req' = [req EXCEPT ![q].step = "refused"]
      <4>1. Place(here) < Place("refused")
        BY <2>6 DEF Recheck, Place, Admitted, Holding
      <4> QED
        BY <2>0, <3>2, <4>1, StepNears
    <3> QED
      BY <2>6, <3>1, <3>2 DEF Recheck
  <2>7. CASE Acquire(q)
    <3>1. Place(here) = 3 /\ Place("calling") = 3 /\ Turn(here) < Turn("calling")
      BY <2>7 DEF Acquire, Place, Turn, Admitted, Holding
    <3> QED
      BY <2>0, <2>7, <3>1, StepNears DEF Acquire
  <2>8. CASE Succeed(q)
    <3>1. PICK step \in {"storing", "answered"} :
              req' = [req EXCEPT ![q].step = step] /\ here = "calling"
      BY <2>8 DEF Succeed
    <3>2. CASE step = "storing"
      <4>1. Place(here) = 3 /\ Place(step) = 3 /\ Turn(here) < Turn(step)
        BY <3>1, <3>2 DEF Place, Turn, Admitted, Holding
      <4> QED
        BY <2>0, <3>1, <4>1, StepNears
    <3>3. CASE step = "answered"
      <4>1. Place(here) < Place(step)
        BY <3>1, <3>3 DEF Place, Admitted, Holding
      <4> QED
        BY <2>0, <3>1, <4>1, StepNears
    <3> QED
      BY <3>1, <3>2, <3>3
  <2>9. CASE Store(q)
    <3>1. Place(here) < Place("answered")
      BY <2>9 DEF Store, Place, Admitted, Holding
    <3> QED
      BY <2>0, <2>9, <3>1, StepNears DEF Store
  <2>10. CASE Retry(q)
    BY <2>0, <2>10, RetryNears
  <2>11. CASE GiveUp(q)
    BY <2>11, GiveUpNears
  <2>12. CASE Cancel(q)
    <3>1. here \notin Ended /\ Place("cancelled") = 4
      BY <2>12 DEF Cancel, Place, Admitted, Holding
    <3>2. Place(here) < Place("cancelled")
      BY <2>2, <3>1, Places
    <3> QED
      BY <2>0, <2>12, <3>2, StepNears DEF Cancel
  <2> QED
    BY <2>1, <2>3, <2>4, <2>5, <2>6, <2>7, <2>8, <2>9, <2>10, <2>11, <2>12 DEF Advance
<1> QED
  BY <1>1, Inductive, PTL DEF Spec, RequestsAdvance

(* A request that waits for a permit waits for a call that is under way:   *)
(* never do all requests of a provider wait for each other.                *)
WaitsAreForCalls ==
    \A r \in Request :
        req[r].step = "queued" /\ slots[ProviderOf[At(r)]] = 0 =>
            \E q \in Request : req[q].step \in Holding /\ ProviderOf[At(q)] = ProviderOf[At(r)]

(* The semaphores cannot deadlock: as permits are neither lost nor kept by *)
(* a request that has left its call, one that is missing is with a call.   *)
THEOREM PermitsAreWithCalls == Spec => []WaitsAreForCalls
<1>1. IInv => WaitsAreForCalls
  <2> SUFFICES ASSUME IInv, NEW r \in Request, req[r].step = "queued",
                      slots[ProviderOf[At(r)]] = 0
               PROVE  \E q \in Request : req[q].step \in Holding /\ ProviderOf[At(q)] = ProviderOf[At(r)]
    BY DEF WaitsAreForCalls
  <2>1. At(r) \in Target
    BY AtTarget DEF IInv, Going, Admitted
  <2>2. PICK p \in Provider : p = ProviderOf[At(r)]
    BY <2>1, RouterAssumption
  <2>3. Cardinality(Holders(p)) = Slots /\ Slots # 0
    <3>1. slots[p] + Cardinality(Holders(p)) = Slots /\ slots[p] = 0
      BY <2>2 DEF IInv, SlotsAreReturned, Holders
    <3>2. Cardinality(Holders(p)) \in Nat
      BY HoldersFinite
    <3> QED
      BY <3>1, <3>2, RouterAssumption
  <2>4. Holders(p) # {}
    BY <2>3, FS_EmptySet
  <2> QED
    BY <2>2, <2>4 DEF Holders
<1> QED
  BY <1>1, Inductive, PTL
===============================================================================
