------------------------------ MODULE MCLLMRouter ------------------------------
(* LLMRouter with three requests and two targets on a provider each, one   *)
(* of them listed again as a last fallback by a mix's request, one permit  *)
(* per provider, a breaker that opens on two failures, and a cap of two    *)
(* calls to the cheaper target.                                            *)
EXTENDS LLMRouter

CONSTANTS r1, r2, r3, t1, t2, e1, e2, e3, pa, pb, x, y

MCTargetOf == (e1 :> t1) @@ (e2 :> t2) @@ (e3 :> t1)
MCProviderOf == (t1 :> pa) @@ (t2 :> pb)
MCPrice == (t1 :> 2) @@ (t2 :> 1)

Answer == [kind |-> "chat", generate |-> TRUE, cacheable |-> FALSE, capped |-> TRUE,
           prompt |-> x, strategy |-> "priority", listed |-> <<e1, e2>>, retries |-> 0]
Cacheable == [Answer EXCEPT !.cacheable = TRUE]
Plan == [Answer EXCEPT !.kind = "structured", !.generate = FALSE, !.capped = FALSE,
                       !.prompt = y, !.listed = <<e1>>, !.retries = 1]
Insistent == [Answer EXCEPT !.listed = <<e1, e2, e3>>]
Weighted == [Answer EXCEPT !.strategy = "weighted"]
Cheapest == [Answer EXCEPT !.strategy = "least_cost"]

MCAsks ==
    {(r1 :> Cacheable) @@ (r2 :> Cacheable) @@ (r3 :> Plan),
     (r1 :> Insistent) @@ (r2 :> Plan) @@ (r3 :> Cheapest),
     (r1 :> Weighted) @@ (r2 :> Cheapest) @@ (r3 :> Cheapest)}
===============================================================================
