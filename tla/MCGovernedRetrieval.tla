-------------------------- MODULE MCGovernedRetrieval --------------------------
(* GovernedRetrieval with one chunk, two edits (PUT or PATCH), and two queries.    *)
(* The prompts with the original text and with e1's are close enough for   *)
(* the cache's vector tier to take one for the other, e2's is not.         *)
EXTENDS GovernedRetrieval, TLC

CONSTANTS e1, e2, k1, k2, r1, r2

MCAlike == {<<t, t>> : t \in Gov!Text \cup {Elsewhere}}
            \cup {<<Original, e1>>, <<e1, Original>>}
MCSymmetry == Permutations(Query)
MCAskedIn == [r \in Query |-> k1]
===============================================================================
