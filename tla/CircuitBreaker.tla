---------------------------- MODULE CircuitBreaker ----------------------------
(***************************************************************************)
(* ragx/llm/circuit.py: the breaker of one (provider, model) target, as    *)
(* operators on its record.  Time is counted in seconds.                   *)
(*                                                                         *)
(* Nothing distinguishes a probe: in half_open every call is let through,  *)
(* whichever call returns first closes the breaker, and a failure opens it *)
(* only under the same condition as in closed.                             *)
(***************************************************************************)
EXTENDS Integers, FiniteSets

CONSTANTS
    Caller,      \* who calls the target
    Window,      \* CircuitConfig.window_s
    OpenFor,     \* CircuitConfig.open_s
    MinSamples,  \* CircuitConfig.min_samples
    RateNum,     \* CircuitConfig.failure_rate is RateNum / RateDen
    RateDen

VARIABLE now

(* by: history, the call the sample is about. *)
Sample == [by : Caller, ok : BOOLEAN, at : Nat]

Breaker == [state : {"closed", "open", "half_open"}, opened : Nat, window : SUBSET Sample]

NewBreaker == [state |-> "closed", opened |-> 0, window |-> {}]

(* is_open: open, and not for open_s yet. *)
IsOpen(b) == b.state = "open" /\ now - b.opened < OpenFor

MutantAsked(b) == b

(* What asking does to it: after open_s the breaker is half open. *)
Asked(b) ==
    IF b.state = "open" /\ ~IsOpen(b) THEN [b EXCEPT !.state = "half_open"] ELSE b

(* _append and _prune: samples of the last window_s seconds and of the     *)
(* second before them remain.                                              *)
Sampled(b, r, ok) ==
    [b EXCEPT !.window = {s \in @ \cup {[by |-> r, ok |-> ok, at |-> now]} :
                             s.at >= now - Window}]

Failures(b) == Cardinality({s \in b.window : ~s.ok})

(* _maybe_open. *)
Tripped(b) ==
    LET n == Cardinality(b.window)
    IN  n >= MinSamples /\ Failures(b) * RateDen >= RateNum * n

AfterSuccess(b, r) ==
    LET c == IF b.state = "half_open" THEN [b EXCEPT !.state = "closed"] ELSE b
    IN  Sampled(c, r, TRUE)

(* A failure may open the breaker, and keeps an open one open for longer. *)
AfterFailure(b, r) ==
    LET c == Sampled(b, r, FALSE)
    IN  IF Tripped(c) THEN [c EXCEPT !.state = "open", !.opened = now] ELSE c
===============================================================================
