--------------------------- MODULE QueryServiceProofs ---------------------------
(***************************************************************************)
(* Proofs about QueryService for any requests, deployments, chunks, texts, *)
(* entities and plans, and every limit.                                    *)
(*                                                                         *)
(* What a client is told depends on what its workflow and its request hold *)
(* in local variables in between.  AgentInv follows the workflow: when a   *)
(* stage begins, what its sub-tasks have left.  UsageInv says who counts   *)
(* while a query executes alone.  AnswerInv and TraceInv carry what the    *)
(* workflow said to the answer and to the trace.  GroundInv is about what  *)
(* a request cites; it rests on lemmas about retrieval: ranking, fusion,   *)
(* rerank and assembly add no chunk that no route returned, and none twice.*)
(***************************************************************************)
EXTENDS QueryService, FiniteSetTheorems, SequenceTheorems, WellFoundedInduction, TLAPS

Task == [seed : Text, phase : {"recall", "rewrite", "again", "answer", "done", "raised"},
         retries : 0..MaxRetries, no_data : BOOLEAN, text : {Empty, "text", NoData},
         cites : Seq(Chunk)]

Before == {"idle", "intent", "discovery", "plan"}
After == {"synthesis", "verifier", "answered"}
Stage == Before \cup {"executor", "degraded"} \cup After
Event == {"start_planner", "end_planner", "plan", "start_executor", "end_executor",
          "start_synthesis", "synthesis", "end_synthesis", "start_verifier", "end_verifier", "done"}
Agent == [stage : Stage, text : Text \cup {Blank},
          sent : Seq(Event), plan : Seq(Task), budget : Nat, answer : {Empty, "text", Unable},
          cites : Seq(Chunk), verified : BOOLEAN, reason : Int, shared : BOOLEAN]

Phase == {"new", "agent", "retrieve", "generate", "flush", "outer", "search", "done", "failed"}
Mode == {Empty, "fast", "standard", "agentic"}
Progress == [phase : Phase, mode : Mode, qvec : BOOLEAN,
             answer : {Empty, "text", Unable}, cites : Seq(Chunk), degraded : BOOLEAN,
             reason : Int, saved : BOOLEAN, status : Nat]

Trace == [by : Query \cup {NoQuery}, kb : KB, mode : Mode, cites : Seq(Chunk), degraded : BOOLEAN]

TypeOK ==
    /\ agent \in [Query -> Agent] /\ usage \in Nat
    /\ req \in [Query -> Progress]
    /\ traces \in [Query \cup {NoId} -> Trace]
    /\ ask \in Workloads /\ dep \in Deployments

(* A sub-task has a text only once it is done, and what raised cites nothing. *)
GoodTask(t) ==
    /\ t.phase # "done" => t.text \in {Empty, NoData}
    /\ t.phase \notin {"done", "raised"} => t.text = Empty /\ ~t.no_data
    /\ t.phase = "raised" => t.cites = <<>>

(* The citations of a synthesis were shown to a task that answered. *)
Cited(a) == \A c \in ToSet(a.cites) : \E i \in DOMAIN a.plan :
                a.plan[i].phase = "done" /\ c \in ToSet(a.plan[i].cites)

HasData(a) == \E i \in DOMAIN a.plan : ~a.plan[i].no_data
HasText(a) == \E i \in DOMAIN a.plan : a.plan[i].text \notin {Empty, NoData}

GoodAgent(a) ==
    /\ "done" \in ToSet(a.sent) <=> a.stage = "answered"
    /\ a.stage \in Before \cup {"executor"} => a.budget = 0
    /\ a.stage \in Before \cup {"degraded"} => a.plan = <<>> /\ a.cites = <<>>
    /\ a.stage \in {"intent", "discovery", "plan"} => a.text \in Text
    /\ \A i \in DOMAIN a.plan : GoodTask(a.plan[i])
    /\ a.stage \in After => \A i \in DOMAIN a.plan : a.plan[i].phase \in {"done", "raised"}
    /\ a.stage \in {"synthesis", "verifier"} => HasData(a)
    /\ a.stage = "verifier" => Cited(a) /\ (a.answer = "text" => HasText(a))
    /\ a.stage = "answered" =>
        \/ a.answer = Unable /\ a.cites = <<>> /\ a.plan = <<>> /\ a.budget = 0
        \/ a.verified /\ HasData(a) /\ Cited(a) /\ (a.answer = "text" => HasText(a))

AgentInv == \A q \in Query : GoodAgent(agent[q])

(* Nobody else counts while a query executes alone. *)
UsageInv ==
    \A q \in Query : ~agent[q].shared =>
        /\ Executing(q) =>
            /\ \A o \in Query \ {q} : ~Executing(o)
            /\ usage = UsagePerCall * Cardinality(Valid(q))
        /\ agent[q].stage \in After => agent[q].budget = UsagePerCall * Cardinality(Valid(q))

(* What the client of an agentic query is told is what its workflow a said, *)
(* and only a query that was handed over has a reason.                      *)
Told(r, a) ==
    /\ r.phase \in {"new", "agent"} => r.reason = 0
    /\ r.mode = "agentic" /\ r.phase \notin {"done", "failed"} =>
        /\ r.phase = "flush" /\ r.reason = 0
        /\ a.stage = "answered" /\ r.answer = a.answer /\ r.cites = a.cites

AnswerInv == \A q \in Query : Told(req[q], agent[q])

(* Until a request r of q is done its trace t is not written, and the only *)
(* degraded ones are those past the trace of the inner service.            *)
Traced(q, r, t) ==
    /\ r.saved => r.phase = "done"
    /\ ~r.saved => t = NoTrace
    /\ r.saved => /\ t = [by |-> q, kb |-> ask[q].kb, mode |-> r.mode, cites |-> r.cites,
                          degraded |-> r.degraded]
                  /\ r.degraded <=> r.reason # 0
    /\ r.phase = "outer" => r.reason # 0 /\ r.degraded
    /\ r.phase \notin {"outer", "done"} => ~r.degraded
    /\ r.phase = "failed" => r.status >= 400

TraceInv == \A q \in Query : Traced(q, req[q], traces[q])

(* Chunks of a knowledge base, none of the cache, none twice, in the budget. *)
Grounded(kb, s) ==
    /\ \A i \in DOMAIN s : HomeOf[s[i]] = kb /\ s[i] \notin CacheChunk
    /\ IsInjective(s)
    /\ TokensOf(s) <= ContextBudget

(* What a search may return. *)
Fits(r, c) ==
    /\ HomeOf[c] = r.kb
    /\ \A clause \in r.filter.and : Meant(clause, c)
    /\ r.filter.or = {} \/ Inverted(r.filter) \/ \E clause \in r.filter.or : Meant(clause, c)

(* What a request r of q may cite. *)
Sound(q, r) ==
    /\ r.mode = "standard" => Grounded(ask[q].kb, r.cites)
    /\ r.phase = "search" => ask[q].route = "search"
    /\ ask[q].route = "search" =>
        /\ r.phase \in {"new", "search", "done", "failed"} /\ r.mode = Empty
        /\ r.phase # "new" => r.phase = "failed" \/ ValidFilter(ask[q].filter)
        /\ \A c \in ToSet(r.cites) : Fits(ask[q], c)

GroundInv == \A q \in Query : Sound(q, req[q])

QInv == TypeOK /\ AgentInv /\ UsageInv /\ AnswerInv /\ TraceInv /\ GroundInv
--------------------------------------------------------------------------------
(* A ranking has every row at one place. *)
LEMMA RankedRows ==
    ASSUME NEW rows, IsFiniteSet(rows), rows \subseteq Nat,
           NEW score, \A x \in rows : score[x] \in Int
    PROVE  /\ Ranked(rows, score) \in Seq(rows)
           /\ IsInjective(Ranked(rows, score))
           /\ DOMAIN Ranked(rows, score) = 1..Cardinality(rows) /\ Cardinality(rows) \in Nat
<1> DEFINE Better(c) == {x \in rows : score[x] > score[c] \/ (score[x] = score[c] /\ x < c)}
           N == Cardinality(rows)
           rank == [c \in rows |-> Cardinality(Better(c))]
<1>1. N \in Nat
  BY FS_CardinalityType
<1>2. \A c \in rows : Better(c) \subseteq rows \ {c}
  OBVIOUS
<1>3. \A a, b \in rows : a # b => a \in Better(b) \/ b \in Better(a)
  <2> TAKE a, b \in rows
  <2>1. a \in Nat /\ b \in Nat /\ score[a] \in Int /\ score[b] \in Int
    OBVIOUS
  <2> QED
    BY <2>1
<1>4. \A a, b \in rows : a \in Better(b) => Better(a) \cup {a} \subseteq Better(b)
  <2> TAKE a, b \in rows
  <2> HAVE a \in Better(b)
  <2> SUFFICES ASSUME NEW x \in Better(a) PROVE x \in Better(b)
    OBVIOUS
  <2>1. /\ x \in rows /\ a \in Nat /\ b \in Nat /\ x \in Nat
        /\ score[a] \in Int /\ score[b] \in Int /\ score[x] \in Int
    OBVIOUS
  <2> QED
    BY <2>1
<1> HIDE DEF Better
<1>5. \A c \in rows : IsFiniteSet(Better(c)) /\ rank[c] \in 0..(N - 1)
  <2> TAKE c \in rows
  <2>1. IsFiniteSet(rows \ {c}) /\ Cardinality(rows \ {c}) = N - 1
    BY FS_RemoveElement
  <2>2. IsFiniteSet(Better(c)) /\ Cardinality(Better(c)) <= N - 1
    BY <1>2, <2>1, FS_Subset
  <2>3. Cardinality(Better(c)) \in Nat
    BY <2>2, FS_CardinalityType
  <2> QED
    BY <1>1, <2>2, <2>3
<1>6. \A a, b \in rows : a \in Better(b) => rank[a] # rank[b]
  <2> TAKE a, b \in rows
  <2> HAVE a \in Better(b)
  <2>1. a \notin Better(a)
    BY <1>2
  <2>2. /\ IsFiniteSet(Better(a) \cup {a})
        /\ Cardinality(Better(a) \cup {a}) = Cardinality(Better(a)) + 1
    BY <1>5, <2>1, FS_AddElement
  <2>3. Cardinality(Better(a) \cup {a}) <= Cardinality(Better(b))
    BY <1>4, <1>5, FS_Subset
  <2> QED
    BY <1>5, <2>2, <2>3
<1>7. rank \in Injection(rows, 0..(N - 1))
  <2>1. rank \in [rows -> 0..(N - 1)]
    BY <1>5
  <2>2. \A a, b \in rows : rank[a] = rank[b] => a = b
    BY <1>3, <1>6
  <2> HIDE DEF rank, N
  <2> QED
    BY <2>1, <2>2 DEF Injection, IsInjective
<1>8. IsFiniteSet(0..(N - 1)) /\ Cardinality(0..(N - 1)) = N
  <2> HIDE DEF N
  <2>1. 0 \in Int /\ N - 1 \in Int
    BY <1>1
  <2>2. /\ IsFiniteSet(0..(N - 1))
        /\ Cardinality(0..(N - 1)) = IF 0 > N - 1 THEN 0 ELSE (N - 1) - 0 + 1
    BY <2>1, FS_Interval
  <2> QED
    BY <1>1, <2>2
<1>9. rank \in Surjection(rows, 0..(N - 1))
  BY <1>7, <1>8, FS_Injection
<1>10. \A i \in 1..N : \E c \in rows : rank[c] = i - 1
  <2> TAKE i \in 1..N
  <2>1. i - 1 \in 0..(N - 1)
    BY <1>1
  <2>2. \A t \in 0..(N - 1) : \E c \in rows : rank[c] = t
    BY <1>9 DEF Surjection
  <2> QED
    BY <2>1, <2>2
<1>11. Ranked(rows, score) = [i \in 1..N |-> CHOOSE c \in rows : Cardinality(Better(c)) = i - 1]
  BY DEF Ranked, Better
<1>12. \A i \in 1..N : /\ Ranked(rows, score)[i] \in rows
                      /\ Cardinality(Better(Ranked(rows, score)[i])) = i - 1
  <2> TAKE i \in 1..N
  <2>1. \E c \in rows : Cardinality(Better(c)) = i - 1
    BY <1>10
  <2> QED
    BY <1>11, <2>1
<1> HIDE DEF N
<1>13. PICK r : r = Ranked(rows, score)
  OBVIOUS
<1>14. DOMAIN r = 1..N /\ r \in [1..N -> rows]
  BY <1>11, <1>12, <1>13
<1>15. r \in Seq(rows)
  BY <1>1, <1>14, SeqDef
<1>16. \A i, j \in 1..N : r[i] = r[j] => i = j
  BY <1>1, <1>12, <1>13
<1> QED
  BY <1>1, <1>13, <1>14, <1>15, <1>16 DEF IsInjective, N

(* The lists of chunks, or of places, of which none comes twice. *)
Lists(G) == {s \in Seq(G) : IsInjective(s)}

(* s[:n] *)
LEMMA CutSeq ==
    ASSUME NEW G, NEW s \in Seq(G), NEW n \in Nat
    PROVE  /\ Cut(s, n) \in Seq(G)
           /\ Len(Cut(s, n)) = IF Len(s) < n THEN Len(s) ELSE n
           /\ \A i \in 1..Len(Cut(s, n)) : i \in 1..Len(s) /\ Cut(s, n)[i] = s[i]
<1> DEFINE m == IF Len(s) < n THEN Len(s) ELSE n
<1>1. Len(s) \in Nat /\ m \in Nat /\ m <= Len(s)
  BY LenProperties
<1> HIDE DEF m
<1>2. \A i \in 1..m : s[i] \in G
  BY <1>1, ElementOfSeq
<1>3. 1 \in Int /\ m \in Int
  BY <1>1
<1>4. /\ SubSeq(s, 1, m) \in Seq(G)
      /\ Len(SubSeq(s, 1, m)) = IF 1 <= m THEN m - 1 + 1 ELSE 0
      /\ \A i \in 1..(m - 1 + 1) : SubSeq(s, 1, m)[i] = s[1 + i - 1]
  BY <1>2, <1>3, SubSeqProperties
<1>5. Cut(s, n) = SubSeq(s, 1, m)
  BY DEF Cut, m
<1>6. Len(SubSeq(s, 1, m)) = m
  BY <1>1, <1>4
<1>7. \A i \in 1..m : SubSeq(s, 1, m)[i] = s[i]
  <2> TAKE i \in 1..m
  <2>1. i \in 1..(m - 1 + 1) /\ 1 + i - 1 = i
    BY <1>1
  <2>2. SubSeq(s, 1, m)[i] = s[1 + i - 1]
    BY <2>1, <1>4
  <2> QED
    BY <2>1, <2>2
<1> QED
  BY <1>1, <1>4, <1>5, <1>6, <1>7 DEF m

LEMMA CutList ==
    ASSUME NEW G, NEW s \in Lists(G), NEW n \in Nat
    PROVE  Cut(s, n) \in Lists(G)
<1>1. s \in Seq(G) /\ IsInjective(s)
  BY DEF Lists
<1>2. /\ Cut(s, n) \in Seq(G)
      /\ \A i \in 1..Len(Cut(s, n)) : i \in 1..Len(s) /\ Cut(s, n)[i] = s[i]
  BY <1>1, CutSeq
<1>3. DOMAIN s = 1..Len(s) /\ DOMAIN Cut(s, n) = 1..Len(Cut(s, n))
  BY <1>1, <1>2, LenProperties
<1> QED
  BY <1>1, <1>2, <1>3 DEF IsInjective, Lists

LEMMA ListsGrow ==
    ASSUME NEW G, NEW H, G \subseteq H, NEW s \in Lists(G)
    PROVE  s \in Lists(H)
BY SeqMonotonic DEF Lists

(* What a sequence has at some places. *)
LEMMA PickedSeq ==
    ASSUME NEW G, NEW s \in Seq(G), NEW P \in SUBSET (1..Len(s)), NEW places \in Lists(P)
    PROVE  /\ Picked(s, places) \in Seq({s[i] : i \in P})
           /\ Len(Picked(s, places)) = Len(places) /\ DOMAIN Picked(s, places) = 1..Len(places)
           /\ \A n \in 1..Len(places) : places[n] \in P /\ Picked(s, places)[n] = s[places[n]]
           /\ (\A i, j \in P : s[i] = s[j] => i = j) => IsInjective(Picked(s, places))
<1> DEFINE S == {s[i] : i \in P}
<1>1. places \in Seq(P) /\ IsInjective(places)
  BY DEF Lists
<1>2. Len(places) \in Nat /\ DOMAIN places = 1..Len(places) /\ places \in [1..Len(places) -> P]
  BY <1>1, LenProperties
<1>3. PICK N \in Nat : N = Len(places)
  BY <1>2
<1>4. PICK r : r = Picked(s, places)
  OBVIOUS
<1>5. r = [n \in 1..N |-> s[places[n]]] /\ \A n \in 1..N : places[n] \in P /\ s[places[n]] \in S
  BY <1>2, <1>3, <1>4 DEF Picked
<1> HIDE DEF S
<1>6. r \in [1..N -> S]
  BY <1>5
<1>7. r \in Seq(S)
  BY <1>6, SeqDef
<1>8. Len(r) = N
  BY <1>6, <1>7, LenProperties
<1>9. \A a, b \in 1..N : places[a] = places[b] => a = b
  BY <1>1, <1>2, <1>3 DEF IsInjective
<1>10. ASSUME \A i, j \in P : s[i] = s[j] => i = j
       PROVE  IsInjective(r)
  <2>1. \A a, b \in 1..N : r[a] = r[b] => a = b
    BY <1>5, <1>9, <1>10
  <2> QED
    BY <2>1, <1>6 DEF IsInjective
<1> QED
  BY <1>3, <1>4, <1>5, <1>6, <1>7, <1>8, <1>10 DEF S

LEMMA KeptSeq ==
    ASSUME NEW G, NEW s \in Seq(G), NEW P \in SUBSET (1..Len(s))
    PROVE  /\ Kept(s, P) \in Seq({s[i] : i \in P})
           /\ (\A i, j \in P : s[i] = s[j] => i = j) => IsInjective(Kept(s, P))
<1> DEFINE places == Ranked(P, [i \in P |-> 0])
<1>1. Len(s) \in Nat /\ 1 \in Int /\ Len(s) \in Int
  BY LenProperties
<1>2. IsFiniteSet(1..Len(s))
  BY <1>1, FS_Interval
<1>3. IsFiniteSet(P) /\ P \subseteq Nat
  <2>1. IsFiniteSet(P)
    BY <1>2, FS_Subset
  <2>2. 1..Len(s) \subseteq Nat
    BY <1>1
  <2> QED
    BY <2>1, <2>2
<1>4. \A x \in P : [i \in P |-> 0][x] \in Int
  OBVIOUS
<1>5. places \in Lists(P)
  BY <1>3, <1>4, RankedRows DEF Lists
<1> HIDE DEF places
<1>6. /\ Picked(s, places) \in Seq({s[i] : i \in P})
      /\ (\A i, j \in P : s[i] = s[j] => i = j) => IsInjective(Picked(s, places))
  BY <1>5, PickedSeq
<1> QED
  BY <1>6 DEF Kept, places
--------------------------------------------------------------------------------
(* Hits: records of distinct chunks of G. *)
ChunksOf(s) == [i \in DOMAIN s |-> s[i].chunk]
IsHit(h) == h = [chunk |-> h.chunk, score |-> h.score, sources |-> h.sources, rerank |-> h.rerank]
AreHits(s, G) ==
    /\ s \in Seq(ToSet(s)) /\ \A i \in 1..Len(s) : IsHit(s[i]) /\ s[i].chunk \in G
    /\ \A i, j \in 1..Len(s) : s[i].chunk = s[j].chunk => i = j

(* A function on 1..n is a sequence of its values. *)
LEMMA OwnSeq ==
    ASSUME NEW n \in Nat, NEW s, s = [i \in 1..n |-> s[i]]
    PROVE  s \in Seq(ToSet(s)) /\ Len(s) = n /\ DOMAIN s = 1..n
<1>1. DOMAIN s = 1..n
  OBVIOUS
<1>2. s \in [1..n -> ToSet(s)]
  BY <1>1 DEF ToSet
<1>3. s \in Seq(ToSet(s))
  BY <1>2, SeqDef
<1> QED
  BY <1>1, <1>3, LenProperties

LEMMA HitsAreChunks ==
    ASSUME NEW G, NEW s, AreHits(s, G)
    PROVE  ChunksOf(s) \in Lists(G) /\ DOMAIN s = 1..Len(s) /\ Len(s) \in Nat
           /\ Len(ChunksOf(s)) = Len(s)
<1>1. DOMAIN s = 1..Len(s) /\ Len(s) \in Nat
  BY LenProperties DEF AreHits
<1>2. PICK N \in Nat : N = Len(s)
  BY <1>1
<1>3. ChunksOf(s) = [i \in 1..N |-> s[i].chunk]
  BY <1>1, <1>2 DEF ChunksOf
<1>4. ChunksOf(s) \in [1..N -> G]
  BY <1>2, <1>3 DEF AreHits
<1>5. ChunksOf(s) \in Seq(G)
  BY <1>4, SeqDef
<1>6. Len(ChunksOf(s)) = N
  BY <1>4, <1>5, LenProperties
<1>7. \A i, j \in 1..N : ChunksOf(s)[i] = ChunksOf(s)[j] => i = j
  BY <1>2, <1>3 DEF AreHits
<1>8. IsInjective(ChunksOf(s))
  BY <1>4, <1>7 DEF IsInjective
<1> QED
  BY <1>1, <1>2, <1>5, <1>6, <1>8 DEF Lists

LEMMA CutHits ==
    ASSUME NEW G, NEW s, AreHits(s, G), NEW n \in Nat
    PROVE  AreHits(Cut(s, n), G)
<1>1. s \in Seq(ToSet(s))
  BY DEF AreHits
<1>2. PICK r : r = Cut(s, n)
  OBVIOUS
<1>3. r \in Seq(ToSet(s)) /\ \A i \in 1..Len(r) : i \in 1..Len(s) /\ r[i] = s[i]
  BY <1>1, <1>2, CutSeq
<1>4. Len(r) \in Nat /\ r \in [1..Len(r) -> ToSet(s)]
  BY <1>3, LenProperties
<1>5. r = [i \in 1..Len(r) |-> r[i]]
  BY <1>4
<1>6. r \in Seq(ToSet(r))
  BY <1>4, <1>5, OwnSeq
<1> QED
  BY <1>2, <1>3, <1>6 DEF AreHits

(* The routes, one after the other, without what has come before. *)
LEMMA InsertionList ==
    ASSUME NEW G, NEW raw, \A r \in DOMAIN raw : raw[r] \in Seq(G)
    PROVE  Insertion(raw) \in Lists(G)
<1> DEFINE Of(r) == IF r \in DOMAIN raw THEN raw[r] ELSE <<>>
           all == Of(Routes[1]) \o Of(Routes[2]) \o Of(Routes[3]) \o Of(Routes[4])
           firsts == {i \in DOMAIN all : \A j \in 1..(i - 1) : all[j] # all[i]}
<1>1. \A r : Of(r) \in Seq(G)
  BY EmptySeq
<1>2. Insertion(raw) = Kept(all, firsts)
  BY DEF Insertion
<1> HIDE DEF Of
<1>3. all \in Seq(G)
  BY <1>1, ConcatProperties
<1> HIDE DEF all
<1>4. DOMAIN all = 1..Len(all) /\ Len(all) \in Nat /\ \A i \in 1..Len(all) : all[i] \in G
  BY <1>3, LenProperties
<1>5. firsts \in SUBSET (1..Len(all))
  BY <1>4
<1>6. \A i, j \in firsts : all[i] = all[j] => i = j
  <2> TAKE i, j \in firsts
  <2>1. i \in Nat /\ j \in Nat /\ i >= 1 /\ j >= 1
    BY <1>4
  <2>2. i < j => i \in 1..(j - 1)
    BY <2>1
  <2>3. j < i => j \in 1..(i - 1)
    BY <2>1
  <2> QED
    BY <2>1, <2>2, <2>3
<1> HIDE DEF firsts
<1>7. Kept(all, firsts) \in Seq({all[i] : i \in firsts}) /\ IsInjective(Kept(all, firsts))
  BY <1>3, <1>5, <1>6, KeptSeq
<1>8. {all[i] : i \in firsts} \subseteq G
  BY <1>4, <1>5
<1>9. Kept(all, firsts) \in Seq(G)
  BY <1>7, <1>8, SeqMonotonic
<1> QED
  BY <1>2, <1>7, <1>9 DEF Lists

LEMMA FusedHits ==
    ASSUME NEW G, NEW d, NEW text, NEW raw, \A r \in DOMAIN raw : raw[r] \in Seq(G)
    PROVE  AreHits(Fuse(d, raw, text), G)
<1>1. PICK order : order = Insertion(raw)
  OBVIOUS
<1>2. order \in Seq(G) /\ IsInjective(order)
  BY <1>1, InsertionList DEF Lists
<1>3. DOMAIN order = 1..Len(order) /\ Len(order) \in Nat /\ \A i \in 1..Len(order) : order[i] \in G
  BY <1>2, LenProperties
<1>4. PICK score, least :
        Fuse(d, raw, text) = [i \in DOMAIN order |->
            [chunk |-> order[i], score |-> score[order[i]] - least,
             sources |-> {r \in DOMAIN raw : order[i] \in ToSet(raw[r])},
             rerank |-> NoRerank]]
  BY <1>1 DEF Fuse
<1>5. PICK fused : fused = Fuse(d, raw, text)
  OBVIOUS
<1>6. PICK N \in Nat : N = Len(order)
  BY <1>3
<1> DEFINE Row(i) == [chunk |-> order[i], score |-> score[order[i]] - least,
                      sources |-> {r \in DOMAIN raw : order[i] \in ToSet(raw[r])},
                      rerank |-> NoRerank]
<1>7. /\ fused = [i \in 1..N |-> fused[i]]
      /\ \A i \in 1..N : fused[i].chunk = order[i] /\ IsHit(fused[i])
  <2>1. fused = [i \in 1..N |-> Row(i)]
    BY <1>3, <1>4, <1>5, <1>6
  <2>2. \A i \in 1..N : Row(i).chunk = order[i] /\ IsHit(Row(i))
    BY DEF IsHit
  <2> HIDE DEF Row
  <2>3. \A i \in 1..N : fused[i] = Row(i)
    BY <2>1
  <2> QED
    BY <2>1, <2>2, <2>3
<1> HIDE DEF Row
<1>8. fused \in Seq(ToSet(fused)) /\ Len(fused) = N
  BY <1>7, OwnSeq
<1>9. \A i, j \in 1..N : order[i] = order[j] => i = j
  BY <1>2, <1>3, <1>6 DEF IsInjective
<1> QED
  BY <1>3, <1>5, <1>6, <1>7, <1>8, <1>9 DEF AreHits

(* The candidates a reranker scored are hits, with its score. *)
LEMMA RerankHits ==
    ASSUME NEW G, NEW d, NEW fused, AreHits(fused, G),
           NEW given, \A c \in DOMAIN given : given[c] \in Int
    PROVE  AreHits(Rerank(d, fused, given), G)
<1>0. Candidates \in Nat /\ RerankTopK \in Nat
  BY RetrievalConstants
<1>1. PICK candidates : candidates = Cut(fused, Candidates)
  OBVIOUS
<1>2. AreHits(candidates, G)
  BY <1>0, <1>1, CutHits
<1>3. DOMAIN candidates = 1..Len(candidates) /\ Len(candidates) \in Nat
  BY <1>2, HitsAreChunks
<1>4. PICK M \in Nat : M = Len(candidates)
  BY <1>3
<1> DEFINE P == {i \in DOMAIN candidates : candidates[i].chunk \in DOMAIN given}
           scores == [i \in DOMAIN candidates |-> given[candidates[i].chunk]]
<1>5. PICK best : best = Ranked(P, scores)
  OBVIOUS
<1>6. P \in SUBSET (1..M) /\ \A i \in P : scores[i] \in Int /\ candidates[i].chunk \in DOMAIN given
  BY <1>3, <1>4
<1>7. IsFiniteSet(P) /\ P \subseteq Nat
  <2>1. 1 \in Int /\ M \in Int
    OBVIOUS
  <2>2. IsFiniteSet(1..M)
    BY <2>1, FS_Interval
  <2>3. IsFiniteSet(P)
    BY <1>6, <2>2, FS_Subset
  <2> QED
    BY <1>6, <2>3
<1> HIDE DEF P, scores
<1>8. best \in Lists(P) /\ Len(best) \in Nat /\ DOMAIN best = 1..Len(best)
  <2>1. best \in Lists(P)
    BY <1>5, <1>6, <1>7, RankedRows DEF Lists
  <2> QED
    BY <2>1, LenProperties DEF Lists
<1>9. PICK K \in Nat : K = Len(best)
  BY <1>8
<1>10. candidates \in Seq(ToSet(candidates))
  BY <1>2 DEF AreHits
<1>11. PICK top : top = Picked(candidates, best)
  OBVIOUS
<1>12. \A n \in 1..K : best[n] \in 1..M /\ top[n] = candidates[best[n]]
  BY <1>4, <1>6, <1>8, <1>9, <1>10, <1>11, PickedSeq
<1>13. \A n \in 1..K : IsHit(top[n]) /\ top[n].chunk \in G
  BY <1>2, <1>4, <1>12 DEF AreHits
<1> DEFINE Row(n) == [top[n] EXCEPT !.rerank = given[candidates[best[n]].chunk]]
<1>14. PICK scored : scored = [n \in DOMAIN best |-> Row(n)]
  OBVIOUS
<1>15. \A n \in 1..K : IsHit(Row(n)) /\ Row(n).chunk = top[n].chunk
  <2> TAKE n \in 1..K
  <2>1. PICK h, v : h = top[n] /\ v = given[candidates[best[n]].chunk]
    OBVIOUS
  <2>2. h = [chunk |-> h.chunk, score |-> h.score, sources |-> h.sources, rerank |-> h.rerank]
    BY <1>13, <2>1 DEF IsHit
  <2>3. [h EXCEPT !.rerank = v] =
          [chunk |-> h.chunk, score |-> h.score, sources |-> h.sources, rerank |-> v]
    BY <2>2
  <2>4. Row(n) = [h EXCEPT !.rerank = v]
    BY <2>1
  <2> QED
    BY <2>3, <2>4, <2>1 DEF IsHit
<1> HIDE DEF Row
<1>16. /\ scored = [n \in 1..K |-> scored[n]]
       /\ \A n \in 1..K : scored[n] = Row(n)
  BY <1>8, <1>9, <1>14
<1>17. scored \in Seq(ToSet(scored)) /\ Len(scored) = K
  BY <1>16, OwnSeq
<1>18. \A m, n \in 1..K : scored[m].chunk = scored[n].chunk => m = n
  <2> TAKE m, n \in 1..K
  <2> HAVE scored[m].chunk = scored[n].chunk
  <2>1. candidates[best[m]].chunk = candidates[best[n]].chunk
    BY <1>12, <1>15, <1>16
  <2>2. best[m] = best[n]
    BY <1>2, <1>4, <1>12, <2>1 DEF AreHits
  <2>3. IsInjective(best) /\ m \in DOMAIN best /\ n \in DOMAIN best
    BY <1>8, <1>9 DEF Lists
  <2> QED
    BY <2>2, <2>3 DEF IsInjective
<1>19. AreHits(scored, G)
  BY <1>13, <1>15, <1>16, <1>17, <1>18 DEF AreHits
<1>20. Rerank(d, fused, given) =
         IF d.reranker THEN Cut(scored, RerankTopK) ELSE Cut(candidates, RerankTopK)
  BY <1>1, <1>5, <1>11, <1>14 DEF Rerank, P, scores, Row
<1> QED
  BY <1>0, <1>2, <1>19, <1>20, CutHits
--------------------------------------------------------------------------------
(* Every nonempty set of numbers has a least one. *)
LEMMA LeastNumber ==
    ASSUME NEW T \in SUBSET Nat, T # {}
    PROVE  \E x \in T : \A y \in T : x <= y
<1> DEFINE less == {ss \in Nat \X Nat : ss[1] < ss[2]}
<1>1. IsWellFoundedOn(less, Nat)
  BY NatLessThanWellFounded, Zenon DEF OpToRel
<1>2. \E x \in T : \A y \in T : ~ (<<y, x>> \in less)
  <2> HIDE DEF IsWellFoundedOn
  <2>1. PICK R : R = less
    OBVIOUS
  <2>2. IsWellFoundedOn(R, Nat)
    BY <1>1, <2>1
  <2>3. \E x \in T : \A y \in T : ~ (<<y, x>> \in R)
    BY <2>2, WFMin
  <2> QED
    BY <2>1, <2>3
<1>3. \A x, y \in Nat : y < x => <<y, x>> \in less
  OBVIOUS
<1>4. PICK x \in T : \A y \in T : ~ (<<y, x>> \in less)
  BY <1>2
<1>5. \A y \in T : ~ (y < x)
  BY <1>3, <1>4
<1>6. x \in Nat /\ \A y \in T : y \in Nat
  OBVIOUS
<1> QED
  BY <1>5, <1>6

(* The greatest of finitely many numbers is one of them. *)
LEMMA MaxIsOne ==
    ASSUME NEW T \in SUBSET Nat, IsFiniteSet(T), T # {}
    PROVE  Max(T) \in T /\ \A y \in T : Max(T) >= y
<1> DEFINE HasMax(S) == \E x \in S : \A y \in S : x >= y
           bad == {n \in Nat : \E S \in SUBSET T : S # {} /\ Cardinality(S) = n /\ ~HasMax(S)}
<1>1. bad = {}
  <2> SUFFICES ASSUME bad # {} PROVE FALSE
    OBVIOUS
  <2>1. PICK n \in bad : \A m \in bad : n <= m
    BY LeastNumber
  <2>2. PICK S \in SUBSET T : S # {} /\ Cardinality(S) = n /\ ~HasMax(S)
    OBVIOUS
  <2>3. PICK x \in S : TRUE
    BY <2>2
  <2>4. IsFiniteSet(S)
    BY FS_Subset
  <2>5. IsFiniteSet(S \ {x}) /\ Cardinality(S \ {x}) = n - 1
    BY <2>2, <2>4, FS_RemoveElement
  <2>6. n - 1 \in Nat
    BY <2>5, FS_CardinalityType
  <2>7. n - 1 \notin bad
    BY <2>1, <2>6
  <2>8. S \ {x} = {} \/ HasMax(S \ {x})
    BY <2>5, <2>6, <2>7
  <2>9. x \in Nat /\ S \subseteq Nat
    OBVIOUS
  <2>10. CASE S \ {x} = {}
    <3>1. \A y \in S : y = x
      BY <2>10
    <3>2. \A y \in S : x >= y
      BY <2>9, <3>1
    <3> QED
      BY <2>2, <3>2
  <2>11. CASE HasMax(S \ {x})
    <3>1. PICK z \in S \ {x} : \A y \in S \ {x} : z >= y
      BY <2>11
    <3>2. z \in Nat
      BY <2>9
    <3>3. CASE x >= z
      <4>1. \A y \in S : x >= y
        BY <2>9, <3>1, <3>2, <3>3
      <4> QED
        BY <2>2, <4>1
    <3>4. CASE ~(x >= z)
      <4>1. \A y \in S : z >= y
        BY <2>9, <3>1, <3>2, <3>4
      <4> QED
        BY <2>2, <4>1
    <3> QED
      BY <3>3, <3>4
  <2> QED
    BY <2>8, <2>10, <2>11
<1>2. Cardinality(T) \in Nat
  BY FS_CardinalityType
<1>3. HasMax(T)
  BY <1>1, <1>2
<1> QED
  BY <1>3 DEF Max

(* The rows of a knowledge base a search may return, and those of them that *)
(* are no entries of the cache.                                             *)
Rows(kb, pass) == {c \in Chunk : HomeOf[c] = kb /\ c \in pass}
Uncached(kb) == {c \in Chunk : HomeOf[c] = kb /\ c \notin CacheChunk}

(* A search ranks some of the chunks and cuts the ranking. *)
LEMMA RankedCut ==
    ASSUME NEW rows \in SUBSET Chunk, NEW score, \A c \in rows : score[c] \in Int, NEW n \in Nat
    PROVE  Cut(Ranked(rows, score), n) \in Seq(rows)
<1>1. IsFiniteSet(rows) /\ rows \subseteq Nat
  BY RetrievalConstants, FilterConstants, FS_Subset
<1>2. Ranked(rows, score) \in Seq(rows)
  BY <1>1, RankedRows
<1> QED
  BY <1>2, CutSeq

LEMMA TextSearch ==
    ASSUME NEW kb, NEW text \in Text, NEW pass
    PROVE  /\ SearchDense(kb, text, pass) \in Seq(Rows(kb, pass))
           /\ SearchKeyword(kb, text, pass) \in Seq(Rows(kb, pass))
<1> DEFINE matched == {c \in Chunk : HomeOf[c] = kb /\ c \in pass /\ Matching[text][c] > 0}
<1>1. DenseTopK \in Nat /\ Bm25TopK \in Nat
  BY RetrievalConstants
<1>2. \A c \in Chunk : Similar[text][c] \in Int /\ Matching[text][c] \in Int
  BY RetrievalConstants
<1>3. Rows(kb, pass) \in SUBSET Chunk /\ matched \in SUBSET Rows(kb, pass)
  BY DEF Rows
<1>4. matched \in SUBSET Chunk
  BY <1>3
<1>5. Cut(Ranked(Rows(kb, pass), Similar[text]), DenseTopK) \in Seq(Rows(kb, pass))
  BY <1>1, <1>2, <1>3, RankedCut
<1>6. Cut(Ranked(matched, Matching[text]), Bm25TopK) \in Seq(matched)
  <2> HIDE DEF matched
  <2> QED
    BY <1>1, <1>2, <1>4, RankedCut
<1>7. Cut(Ranked(matched, Matching[text]), Bm25TopK) \in Seq(Rows(kb, pass))
  <2> HIDE DEF matched
  <2> QED
    BY <1>3, <1>6, SeqMonotonic
<1> QED
  BY <1>5, <1>7 DEF SearchDense, SearchKeyword, Rows

(* No entry of the cache mentions an entity. *)
LEMMA EntitySearch ==
    ASSUME NEW kb, NEW entities \in SUBSET Entity
    PROVE  ResolveEntities(kb, entities) \in Seq(Uncached(kb))
<1> DEFINE Conf == [c \in Chunk |-> IF entities = {} THEN 0
                      ELSE Max({Mentions[c][e] : e \in entities})]
           found == {c \in Chunk : HomeOf[c] = kb /\ Conf[c] > 0}
<1>1. ASSUME NEW c \in Chunk
      PROVE  Conf[c] \in Nat /\ (Conf[c] > 0 => c \notin CacheChunk)
  <2>1. CASE entities = {}
    BY <2>1
  <2>2. CASE entities # {}
    <3> DEFINE f == [e \in entities |-> Mentions[c][e]]
               T == {Mentions[c][e] : e \in entities}
    <3>1. \A e \in entities : Mentions[c][e] \in Nat
      BY RetrievalConstants
    <3>2. f \in Surjection(entities, T)
      <4>1. f \in [entities -> T] /\ \A t \in T : \E e \in entities : f[e] = t
        OBVIOUS
      <4> HIDE DEF f, T
      <4> QED
        BY <4>1 DEF Surjection
    <3>3. IsFiniteSet(entities)
      BY RetrievalConstants, FS_Subset
    <3>4. IsFiniteSet(T)
      BY <3>2, <3>3, FS_Surjection
    <3>5. T \in SUBSET Nat /\ T # {}
      BY <2>2, <3>1
    <3>6. Conf[c] = Max(T)
      BY <2>2
    <3>7. Max(T) \in T
      <4> HIDE DEF T
      <4> QED
        BY <3>4, <3>5, MaxIsOne
    <3>8. PICK e \in entities : Conf[c] = Mentions[c][e]
      BY <3>6, <3>7
    <3>9. Conf[c] \in Nat
      BY <3>1, <3>8
    <3>10. c \in CacheChunk => Conf[c] = 0
      BY <3>8, CacheIsNotExtracted
    <3> QED
      BY <3>9, <3>10
  <2> QED
    BY <2>1, <2>2
<1>2. \A c \in Chunk : Conf[c] \in Nat /\ (Conf[c] > 0 => c \notin CacheChunk)
  BY <1>1
<1>3. ResolveEntities(kb, entities) = Cut(Ranked(found, Conf), DenseTopK)
  BY DEF ResolveEntities
<1> HIDE DEF Conf
<1>4. found \in SUBSET Chunk /\ found \subseteq Uncached(kb)
  BY <1>2 DEF Uncached
<1> HIDE DEF found
<1>5. \A c \in found : Conf[c] \in Int
  <2> TAKE c \in found
  <2>1. c \in Chunk
    BY <1>4
  <2>2. Conf[c] \in Nat
    BY <1>2, <2>1
  <2> QED
    BY <2>2
<1>6. DenseTopK \in Nat
  BY RetrievalConstants
<1>7. Cut(Ranked(found, Conf), DenseTopK) \in Seq(found)
  BY <1>4, <1>5, <1>6, RankedCut
<1> QED
  BY <1>3, <1>4, <1>7, SeqMonotonic

LEMMA GraphSearch ==
    ASSUME NEW kb, NEW text \in Text
    PROVE  GraphLow(kb, text) \in Seq(Uncached(kb)) /\ GraphHigh(kb, text) \in Seq(Uncached(kb))
<1> DEFINE near == Seeds[text] \cup UNION {Adjacent[e] : e \in Seeds[text]}
<1>1. Seeds[text] \in SUBSET Entity /\ Members[text] \in SUBSET Entity
  BY RetrievalConstants
<1>2. \A e \in Seeds[text] : Adjacent[e] \subseteq Entity
  BY <1>1, RetrievalConstants
<1>3. near \in SUBSET Entity
  BY <1>1, <1>2
<1> HIDE DEF near
<1>4. ResolveEntities(kb, near) \in Seq(Uncached(kb))
  BY <1>3, EntitySearch
<1>5. ResolveEntities(kb, Members[text]) \in Seq(Uncached(kb))
  BY <1>1, EntitySearch
<1> QED
  BY <1>4, <1>5 DEF GraphLow, GraphHigh, near

(* What the routes return; the graph routes know of no filter. *)
LEMMA RecalledRows ==
    ASSUME NEW kb, NEW text \in Text, NEW pass, NEW G,
           NEW d, NEW qvec, NEW failed,
           Rows(kb, pass) \subseteq G, d.kg => Uncached(kb) \subseteq G
    PROVE  \A r \in DOMAIN Recall(d, kb, text, qvec, pass, failed) :
             Recall(d, kb, text, qvec, pass, failed)[r] \in Seq(G)
<1> DEFINE Answer(r) ==
        CASE r \in failed -> <<>>
          [] r = "dense" -> IF qvec THEN SearchDense(kb, text, pass) ELSE <<>>
          [] r = "bm25" -> SearchKeyword(kb, text, pass)
          [] r = "graph_low" -> IF d.dim8 /\ qvec THEN GraphLow(kb, text) ELSE <<>>
          [] r = "graph_high" -> IF d.dim8 /\ qvec THEN GraphHigh(kb, text) ELSE <<>>
<1>1. Recall(d, kb, text, qvec, pass, failed) = [r \in Started(d) |-> Answer(r)]
  BY DEF Recall
<1>2. <<>> \in Seq(G)
  BY EmptySeq
<1>3. SearchDense(kb, text, pass) \in Seq(G) /\ SearchKeyword(kb, text, pass) \in Seq(G)
  BY TextSearch, SeqMonotonic
<1>4. d.kg => GraphLow(kb, text) \in Seq(G) /\ GraphHigh(kb, text) \in Seq(G)
  BY GraphSearch, SeqMonotonic
<1>5. \A r \in Started(d) :
        \/ r = "dense" \/ r = "bm25"
        \/ (r = "graph_low" /\ d.kg) \/ (r = "graph_high" /\ d.kg)
  BY DEF Started
<1>6. \A r \in Started(d) : Answer(r) \in Seq(G)
  <2> TAKE r \in Started(d)
  <2>1. CASE r = "dense"
    BY <2>1, <1>2, <1>3
  <2>2. CASE r = "bm25"
    BY <2>2, <1>2, <1>3
  <2>3. CASE r = "graph_low" /\ d.kg
    BY <2>3, <1>2, <1>4
  <2>4. CASE r = "graph_high" /\ d.kg
    BY <2>4, <1>2, <1>4
  <2> QED
    BY <1>5, <2>1, <2>2, <2>3, <2>4
<1> HIDE DEF Answer
<1> QED
  BY <1>1, <1>6

LEMMA RetrievedHits ==
    ASSUME NEW kb, NEW text \in Text, NEW pass, NEW G,
           NEW d, NEW qvec, NEW failed,
           Rows(kb, pass) \subseteq G, d.kg => Uncached(kb) \subseteq G
    PROVE  AreHits(Retrieve(d, kb, text, qvec, pass, failed), G)
<1>1. PICK raw : raw = Recall(d, kb, text, qvec, pass, failed)
  OBVIOUS
<1>2. \A r \in DOMAIN raw : raw[r] \in Seq(G)
  BY <1>1, RecalledRows
<1>3. AreHits(Fuse(d, raw, text), G)
  BY <1>2, FusedHits
<1>4. \A c \in DOMAIN RerankScore : RerankScore[c] \in Int
  BY RetrievalConstants
<1>5. AreHits(Rerank(d, Fuse(d, raw, text), RerankScore), G)
  BY <1>3, <1>4, RerankHits
<1> QED
  BY <1>1, <1>5 DEF Retrieve
--------------------------------------------------------------------------------
LEMMA NoTokens == TokensOf(<<>>) = 0
<1> DEFINE Sum(f) == f = [i \in 0..0 |-> IF i = 0 THEN 0 ELSE f[i - 1] + Tokens[<<>>[i]]]
           zero == [i \in 0..0 |-> 0]
<1>1. Len(<<>>) = 0
  BY EmptySeq
<1>2. TokensOf(<<>>) = (CHOOSE f : Sum(f))[0]
  BY <1>1 DEF TokensOf
<1>3. \A i \in 0..0 : i = 0
  OBVIOUS
<1>4. Sum(zero)
  BY <1>3
<1>5. \A f : Sum(f) => f[0] = 0
  OBVIOUS
<1> HIDE DEF Sum, zero
<1>6. Sum(CHOOSE f : Sum(f))
  BY <1>4
<1> QED
  BY <1>2, <1>5, <1>6

LEMMA ConcatList ==
    ASSUME NEW A, NEW B, A \cap B = {}, NEW s \in Lists(A), NEW t \in Lists(B)
    PROVE  s \o t \in Lists(A \cup B)
<1> DEFINE G == A \cup B
<1>1. s \in Seq(A) /\ IsInjective(s) /\ t \in Seq(B) /\ IsInjective(t)
  BY DEF Lists
<1>2. /\ DOMAIN s = 1..Len(s) /\ Len(s) \in Nat /\ \A i \in 1..Len(s) : s[i] \in A
      /\ DOMAIN t = 1..Len(t) /\ Len(t) \in Nat /\ \A i \in 1..Len(t) : t[i] \in B
  BY <1>1, LenProperties
<1>3. A \subseteq G /\ B \subseteq G
  OBVIOUS
<1>4. s \in Seq(G) /\ t \in Seq(G)
  <2> HIDE DEF G
  <2> QED
    BY <1>1, <1>3, SeqMonotonic
<1>5. PICK m, n, r : m = Len(s) /\ n = Len(t) /\ r = s \o t
  OBVIOUS
<1>6. /\ r \in Seq(G) /\ Len(r) = m + n
      /\ \A i \in 1..(m + n) : r[i] = IF i <= m THEN s[i] ELSE t[i - m]
  <2> HIDE DEF G
  <2> QED
    BY <1>4, <1>5, ConcatProperties
<1>7. DOMAIN r = 1..(m + n)
  BY <1>6, LenProperties
<1>8. \A i, j \in 1..m : s[i] = s[j] => i = j
  BY <1>1, <1>2, <1>5 DEF IsInjective
<1>9. \A i, j \in 1..n : t[i] = t[j] => i = j
  BY <1>1, <1>2, <1>5 DEF IsInjective
<1>10. \A i, j \in 1..(m + n) : r[i] = r[j] => i = j
  <2> TAKE i, j \in 1..(m + n)
  <2> HAVE r[i] = r[j]
  <2>0. m \in Nat /\ n \in Nat /\ i \in Nat /\ j \in Nat
    BY <1>2, <1>5
  <2>1. CASE i <= m /\ j <= m
    <3>1. i \in 1..m /\ j \in 1..m
      BY <2>0, <2>1
    <3> QED
      BY <2>1, <3>1, <1>6, <1>8
  <2>2. CASE ~(i <= m) /\ ~(j <= m)
    <3>1. i - m \in 1..n /\ j - m \in 1..n
      BY <2>0, <2>2
    <3>2. i - m = j - m
      BY <2>2, <3>1, <1>6, <1>9
    <3> QED
      BY <2>0, <3>2
  <2>3. CASE i <= m /\ ~(j <= m)
    <3>1. i \in 1..m /\ j - m \in 1..n
      BY <2>0, <2>3
    <3>2. r[i] \in A /\ r[j] \in B
      BY <2>3, <3>1, <1>2, <1>5, <1>6
    <3> QED
      BY <3>2
  <2>4. CASE ~(i <= m) /\ j <= m
    <3>1. j \in 1..m /\ i - m \in 1..n
      BY <2>0, <2>4
    <3>2. r[j] \in A /\ r[i] \in B
      BY <2>4, <3>1, <1>2, <1>5, <1>6
    <3> QED
      BY <3>2
  <2> QED
    BY <2>1, <2>2, <2>3, <2>4
<1>11. IsInjective(r)
  BY <1>7, <1>10 DEF IsInjective
<1> QED
  BY <1>5, <1>6, <1>11 DEF Lists

(* A group goes on until the first hit that does not fit. *)
LEMMA Filled ==
    ASSUME NEW A, NEW B, A \cap B = {}, NEW parts \in Lists(A), NEW group \in Lists(B),
           TokensOf(parts) <= ContextBudget
    PROVE  Fill(parts, group) \in Lists(A \cup B) /\ TokensOf(Fill(parts, group)) <= ContextBudget
<1> DEFINE Within(n) == TokensOf(parts \o Cut(group, n)) <= ContextBudget
           T == {n \in 0..Len(group) : \A i \in 1..n : Within(i)}
<1>1. parts \in Seq(A) /\ group \in Seq(B) /\ Len(group) \in Nat
  BY LenProperties DEF Lists
<1>2. Fill(parts, group) = parts \o Cut(group, Max(T))
  BY DEF Fill
<1> HIDE DEF Within
<1>3. 0 \in Int /\ Len(group) \in Int
  BY <1>1
<1>4. IsFiniteSet(0..Len(group)) /\ T \in SUBSET (0..Len(group)) /\ 0 \in T
  <2>1. IsFiniteSet(0..Len(group))
    BY <1>3, FS_Interval
  <2>2. 0 \in 0..Len(group) /\ \A i : i \notin 1..0
    BY <1>1
  <2> QED
    BY <2>1, <2>2
<1>5. IsFiniteSet(T) /\ T \in SUBSET Nat /\ T # {}
  <2>1. IsFiniteSet(T)
    BY <1>4, FS_Subset
  <2>2. 0..Len(group) \subseteq Nat
    BY <1>1
  <2> QED
    BY <1>4, <2>1, <2>2
<1>6. \A n \in T : n \in Nat /\ (n # 0 => Within(n))
  <2> TAKE n \in T
  <2>1. n \in Nat /\ (n # 0 => n \in 1..n)
    BY <1>5
  <2> QED
    BY <2>1
<1> HIDE DEF T
<1>7. PICK m \in T : m = Max(T)
  BY <1>5, MaxIsOne
<1>8. m \in Nat /\ (m # 0 => Within(m))
  BY <1>6
<1>9. Cut(group, m) \in Lists(B)
  BY <1>8, CutList
<1>10. parts \o Cut(group, m) \in Lists(A \cup B)
  BY <1>9, ConcatList
<1>11. CASE m = 0
  <2>1. Cut(group, m) \in Seq(B) /\ Len(Cut(group, m)) = 0
    BY <1>1, <1>8, <1>11, CutSeq
  <2>2. Cut(group, m) = <<>>
    BY <2>1, EmptySeq
  <2>3. parts \o <<>> = parts
    BY <1>1, ConcatEmptySeq
  <2> QED
    BY <1>2, <1>7, <1>10, <2>2, <2>3
<1>12. CASE m # 0
  BY <1>2, <1>7, <1>8, <1>10, <1>12 DEF Within
<1> QED
  BY <1>11, <1>12

(* A context cites hits, none twice, within the budget. *)
LEMMA Assembled ==
    ASSUME NEW G, NEW hits, AreHits(hits, G)
    PROVE  Assemble(hits) \in Lists(G) /\ TokensOf(Assemble(hits)) <= ContextBudget
<1> DEFINE graph == {i \in DOMAIN hits : FromGraph(hits[i])}
           plain == DOMAIN hits \ graph
<1>1. PICK chunks : chunks = ChunksOf(hits)
  OBVIOUS
<1>2. chunks \in Seq(G) /\ IsInjective(chunks) /\ DOMAIN hits = 1..Len(chunks)
  BY <1>1, HitsAreChunks DEF Lists
<1>3. DOMAIN chunks = 1..Len(chunks)
  BY <1>2, LenProperties
<1>4. Assemble(hits) = Fill(Fill(<<>>, Kept(chunks, plain)), Kept(chunks, graph))
  BY <1>1 DEF Assemble, ChunksOf
<1>5. graph \in SUBSET (1..Len(chunks)) /\ plain \in SUBSET (1..Len(chunks)) /\ plain \cap graph = {}
  BY <1>2
<1> HIDE DEF graph, plain
<1>6. \A i, j \in 1..Len(chunks) : chunks[i] = chunks[j] => i = j
  BY <1>2, <1>3 DEF IsInjective
<1> DEFINE A == {chunks[i] : i \in plain}
           B == {chunks[i] : i \in graph}
<1>7. A \cap B = {}
  BY <1>5, <1>6
<1>8. A \subseteq G /\ B \subseteq G
  BY <1>2, <1>5, ElementOfSeq
<1>9. Kept(chunks, plain) \in Lists(A)
  <2>1. \A i, j \in plain : chunks[i] = chunks[j] => i = j
    BY <1>5, <1>6
  <2> QED
    BY <1>2, <1>5, <2>1, KeptSeq DEF Lists
<1>10. Kept(chunks, graph) \in Lists(B)
  <2>1. \A i, j \in graph : chunks[i] = chunks[j] => i = j
    BY <1>5, <1>6
  <2> QED
    BY <1>2, <1>5, <2>1, KeptSeq DEF Lists
<1> HIDE DEF A, B
<1>11. <<>> \in Lists({}) /\ TokensOf(<<>>) <= ContextBudget
  <2>1. ContextBudget \in Nat
    BY RetrievalConstants
  <2>2. <<>> \in Seq({}) /\ IsInjective(<<>>)
    BY EmptySeq DEF IsInjective
  <2> QED
    BY <2>1, <2>2, NoTokens DEF Lists
<1>12. PICK first : first = Fill(<<>>, Kept(chunks, plain))
  OBVIOUS
<1>13. first \in Lists({} \cup A) /\ TokensOf(first) <= ContextBudget
  BY <1>9, <1>11, <1>12, Filled
<1>14. {} \cup A = A
  OBVIOUS
<1>15. /\ Fill(first, Kept(chunks, graph)) \in Lists(A \cup B)
       /\ TokensOf(Fill(first, Kept(chunks, graph))) <= ContextBudget
  BY <1>7, <1>10, <1>13, <1>14, Filled
<1>16. A \cup B \subseteq G
  BY <1>8
<1> QED
  BY <1>4, <1>12, <1>15, <1>16, ListsGrow
--------------------------------------------------------------------------------
(* _exclude_cache works in every store. *)
LEMMA CacheExcluded ==
    ASSUME NEW store \in {"sqlite", "es", "qdrant"},
           NEW c \in Passing(store, ExcludeCache(NoFilter))
    PROVE  c \notin CacheChunk
<1> SUFFICES ASSUME c \in CacheChunk PROVE FALSE
  OBVIOUS
<1> DEFINE k == [field |-> "doc_id", op |-> "ne", values |-> {CacheDoc}, list |-> FALSE]
<1>1. PICK expr : expr = ExcludeCache(NoFilter)
  OBVIOUS
<1>2. k \in expr.and
  BY <1>1 DEF ExcludeCache, NoFilter
<1>3. Meta[c]["doc_id"] = CacheDoc /\ CacheDoc # Absent
  BY FilterConstants DEF CacheChunk, Absent
<1>4. k.field = "doc_id" /\ k.op = "ne" /\ k.values = {CacheDoc}
  OBVIOUS
<1>5. HasField(k, c) /\ Meta[c][k.field] \in k.values
  BY <1>3, <1>4 DEF HasField
<1>6. ~Compare(k.op, Meta[c][k.field], k.values)
  BY <1>4, <1>5 DEF Compare
<1> HIDE DEF k
<1>7. ~ClauseSql(k, c) /\ ~ClauseFilter(k, c)
  BY <1>4, <1>5, <1>6 DEF ClauseSql, ClauseFilter
<1>8. ClauseCondition(k, c)
  BY <1>4, <1>5 DEF ClauseCondition
<1>9. ~Predicate(expr, c) /\ ~BuildEsFilter(expr, c) /\ ~BuildQdrantFilter(expr, c)
  BY <1>2, <1>4, <1>7, <1>8 DEF Predicate, BuildEsFilter, BuildQdrantFilter
<1> QED
  BY <1>1, <1>9 DEF Passing

(* A clause that holds of a row in a store is meant of it, except a ne in *)
(* Qdrant's or group.                                                     *)
LEMMA ClausesMean ==
    ASSUME NEW clause, NEW c
    PROVE  /\ ClauseSql(clause, c) => Meant(clause, c)
           /\ ClauseFilter(clause, c) => Meant(clause, c)
           /\ (ClauseCondition(clause, c) <=> clause.op # "ne") => Meant(clause, c)
           /\ ClauseCondition(clause, c) => clause.op = "ne" \/ Meant(clause, c)
<1>1. \A x, values : Compare("ne", x, values) <=> x \notin values
  BY DEF Compare
<1>2. ClauseSql(clause, c) => Meant(clause, c)
  BY DEF ClauseSql, Meant
<1>3. ClauseFilter(clause, c) => Meant(clause, c)
  BY <1>1 DEF ClauseFilter, Meant
<1>4. clause.op = "ne" => (~ClauseCondition(clause, c) => Meant(clause, c))
  BY <1>1 DEF ClauseCondition, Meant
<1>5. clause.op # "ne" => (ClauseCondition(clause, c) => Meant(clause, c))
  BY DEF ClauseCondition, Meant
<1> QED
  BY <1>2, <1>3, <1>4, <1>5

LEMMA PassingMeans ==
    ASSUME dep.store \in {"sqlite", "es", "qdrant"},
           NEW r, NEW c \in Passing(dep.store, r.filter), HomeOf[c] = r.kb
    PROVE  Fits(r, c)
<1>1. PICK expr : expr = r.filter
  OBVIOUS
<1>2. CASE dep.store = "sqlite"
  <2>1. Predicate(expr, c)
    BY <1>1, <1>2 DEF Passing
  <2> QED
    BY <1>1, <2>1, ClausesMean DEF Predicate, Fits
<1>3. CASE dep.store = "es"
  <2>1. BuildEsFilter(expr, c)
    BY <1>1, <1>3 DEF Passing
  <2> QED
    BY <1>1, <2>1, ClausesMean DEF BuildEsFilter, Fits
<1>4. CASE dep.store = "qdrant"
  <2>1. BuildQdrantFilter(expr, c)
    BY <1>1, <1>4 DEF Passing
  <2>2. \A clause \in expr.and : Meant(clause, c)
    BY <2>1, ClausesMean DEF BuildQdrantFilter
  <2>3. expr.or # {} => \E clause \in expr.or : clause.op = "ne" \/ Meant(clause, c)
    BY <2>1, ClausesMean DEF BuildQdrantFilter
  <2>4. expr.or = {} \/ Inverted(expr) \/ \E clause \in expr.or : Meant(clause, c)
    BY <1>4, <2>3 DEF Inverted
  <2> QED
    BY <1>1, <2>2, <2>4 DEF Fits
<1> QED
  BY <1>2, <1>3, <1>4

LEMMA DeploymentStore ==
    ASSUME NEW d \in Deployments
    PROVE  d \in Deployment /\ d.store \in {"sqlite", "es", "qdrant"}
BY DeploymentsConstant DEF Deployment

(* What the standard path shows to the model. *)
LEMMA ContextsGrounded ==
    ASSUME NEW d \in Deployments, NEW kb \in KB, NEW text \in Text, NEW qvec \in BOOLEAN,
           NEW shown \in Contexts[d][kb][text][qvec]
    PROVE  shown.cites \in Seq(Chunk) /\ Grounded(kb, shown.cites)
<1>1. PICK pass : pass = Passing(d.store, ExcludeCache(NoFilter))
  OBVIOUS
<1>2. Contexts[d][kb][text][qvec] =
        {Shown(Retrieve(d, kb, text, qvec, pass, failed)) : failed \in SUBSET Started(d)}
  BY <1>1 DEF Contexts
<1>3. PICK failed : shown = Shown(Retrieve(d, kb, text, qvec, pass, failed))
  BY <1>2
<1>4. PICK hits : hits = Retrieve(d, kb, text, qvec, pass, failed)
  OBVIOUS
<1>5. \A c \in pass : c \notin CacheChunk
  BY <1>1, DeploymentStore, CacheExcluded
<1>6. Rows(kb, pass) \subseteq Uncached(kb)
  BY <1>5 DEF Rows, Uncached
<1>7. AreHits(hits, Uncached(kb))
  BY <1>4, <1>6, RetrievedHits
<1>8. PICK s : s = Assemble(hits)
  OBVIOUS
<1>9. s \in Lists(Uncached(kb)) /\ TokensOf(s) <= ContextBudget
  BY <1>7, <1>8, Assembled
<1>10. shown.cites = s
  BY <1>3, <1>4, <1>8 DEF Shown
<1>11. s \in Seq(Uncached(kb)) /\ IsInjective(s)
  BY <1>9 DEF Lists
<1>12. Uncached(kb) \subseteq Chunk
  BY DEF Uncached
<1>13. s \in Seq(Chunk)
  BY <1>11, <1>12, SeqMonotonic
<1>14. \A i \in DOMAIN s : s[i] \in Uncached(kb)
  BY <1>11, LenProperties
<1>15. \A i \in DOMAIN s : HomeOf[s[i]] = kb /\ s[i] \notin CacheChunk
  BY <1>14 DEF Uncached
<1> QED
  BY <1>9, <1>10, <1>11, <1>13, <1>15 DEF Grounded

(* What a sub-task is shown. *)
LEMMA TaskContextsChunks ==
    ASSUME NEW d \in Deployments, NEW kb \in KB, NEW text \in Text,
           NEW shown \in TaskContexts[d][kb][text]
    PROVE  shown.cites \in Seq(Chunk)
<1>1. TaskContexts[d][kb][text] =
        {Shown(Retrieve(d, kb, text, TRUE, Chunk, failed)) : failed \in SUBSET Started(d)}
  BY DEF TaskContexts
<1>2. PICK failed : shown = Shown(Retrieve(d, kb, text, TRUE, Chunk, failed))
  BY <1>1
<1>3. PICK hits : hits = Retrieve(d, kb, text, TRUE, Chunk, failed)
  OBVIOUS
<1>4. Rows(kb, Chunk) \subseteq Chunk /\ Uncached(kb) \subseteq Chunk
  BY DEF Rows, Uncached
<1>5. AreHits(hits, Chunk)
  BY <1>3, <1>4, RetrievedHits
<1>6. Assemble(hits) \in Seq(Chunk)
  BY <1>5, Assembled DEF Lists
<1>7. shown.cites = Assemble(hits)
  BY <1>2, <1>3 DEF Shown
<1> QED
  BY <1>6, <1>7

(* What a search returns. *)
LEMMA SearchFits ==
    ASSUME dep \in Deployments, ask \in Workloads, NEW q \in Query,
           ask[q].route = "search", ValidFilter(ask[q].filter),
           NEW found \in SearchHits[dep][ask[q]]
    PROVE  found \in Seq(Chunk) /\ \A c \in ToSet(found) : Fits(ask[q], c)
<1>1. PICK d : d = dep
  OBVIOUS
<1>2. PICK r \in Request : r = ask[q]
  BY WorkloadsConstant
<1>3. r \in Searches
  <2>1. ask \in [Query -> Request]
    BY WorkloadsConstant
  <2>2. r \in Range(ask)
    BY <1>2, <2>1 DEF Range
  <2> QED
    BY <1>2, <2>2 DEF Searches
<1>4. PICK pass : pass = Passing(d.store, r.filter)
  OBVIOUS
<1>5. PICK plain : plain = [d EXCEPT !.kg = FALSE, !.weighted = FALSE, !.reranker = FALSE]
  OBVIOUS
<1> DEFINE Hits(failed) == Retrieve(plain, r.kb, r.text, TRUE, pass, failed)
<1>6. SearchHits[d][r] = {Cut([i \in DOMAIN Hits(failed) |-> Hits(failed)[i].chunk], r.top_k) :
                            failed \in SUBSET Started(plain)}
  BY <1>1, <1>3, <1>4, <1>5 DEF SearchHits
<1> HIDE DEF Hits
<1>7. PICK failed : found = Cut(ChunksOf(Hits(failed)), r.top_k)
  <2>1. found \in SearchHits[d][r]
    BY <1>1, <1>2
  <2>2. PICK failed \in SUBSET Started(plain) :
          found = Cut([i \in DOMAIN Hits(failed) |-> Hits(failed)[i].chunk], r.top_k)
    BY <1>6, <2>1
  <2>3. found = Cut(ChunksOf(Hits(failed)), r.top_k)
    BY <2>2 DEF ChunksOf
  <2> QED
    BY <2>3
<1>8. ~plain.kg
  <2>1. d \in Deployment
    BY <1>1, DeploymentStore
  <2>2. "kg" \in DOMAIN d
    BY <2>1 DEF Deployment
  <2> QED
    BY <1>5, <2>2
<1>9. r.text \in Text /\ r.top_k \in Nat
  BY DEF Request
<1>10. PICK hits : hits = Hits(failed)
  OBVIOUS
<1>11. AreHits(hits, Rows(r.kb, pass))
  BY <1>8, <1>9, <1>10, RetrievedHits DEF Hits
<1>12. ChunksOf(hits) \in Seq(Rows(r.kb, pass))
  BY <1>11, HitsAreChunks DEF Lists
<1>13. found \in Seq(Rows(r.kb, pass))
  BY <1>7, <1>9, <1>10, <1>12, CutSeq
<1>14. Rows(r.kb, pass) \subseteq Chunk
  BY DEF Rows
<1>15. found \in Seq(Chunk)
  BY <1>13, <1>14, SeqMonotonic
<1>16. \A c \in ToSet(found) : c \in Rows(r.kb, pass)
  BY <1>13, LenProperties DEF ToSet
<1>17. \A c \in Rows(r.kb, pass) : Fits(r, c)
  <2> TAKE c \in Rows(r.kb, pass)
  <2>1. c \in Passing(dep.store, r.filter) /\ HomeOf[c] = r.kb
    BY <1>1, <1>4 DEF Rows
  <2> QED
    BY <1>1, <2>1, DeploymentStore, PassingMeans
<1> QED
  BY <1>2, <1>15, <1>16, <1>17
--------------------------------------------------------------------------------
(* The seeds of a plan have a text. *)
LEMMA SeedsAreTexts ==
    ASSUME NEW proposed \in Seq(Text \cup {Blank})
    PROVE  SeedsOf(proposed) \in Seq(Text)
<1>1. PICK cut : cut = Cut(proposed, MaxTasks)
  OBVIOUS
<1>2. cut \in Seq(Text \cup {Blank})
  BY <1>1, WorkflowConstants, CutSeq
<1>3. DOMAIN cut = 1..Len(cut) /\ \A i \in 1..Len(cut) : cut[i] \in Text \cup {Blank}
  BY <1>2, LenProperties
<1> DEFINE P == {i \in DOMAIN cut : cut[i] # Blank}
<1>4. SeedsOf(proposed) = Kept(cut, P)
  BY <1>1 DEF SeedsOf
<1>5. P \in SUBSET (1..Len(cut)) /\ {cut[i] : i \in P} \subseteq Text
  BY <1>3
<1> HIDE DEF P
<1>6. Kept(cut, P) \in Seq({cut[i] : i \in P})
  BY <1>2, <1>5, KeptSeq
<1> QED
  BY <1>4, <1>5, <1>6, SeqMonotonic

(* A flattened sequence has the elements of its parts. *)
LEMMA FlattenedElements ==
    ASSUME NEW G, NEW ss \in Seq(Seq(G))
    PROVE  /\ FlattenSeq(ss) \in Seq(G)
           /\ \A x \in ToSet(FlattenSeq(ss)) : \E i \in DOMAIN ss : x \in ToSet(ss[i])
<1> DEFINE N == Len(ss)
           Step(f, i) == IF i = 1 THEN ss[i] ELSE f[i - 1] \o ss[i]
           Flat(f) == f = [i \in 1..N |-> Step(f, i)]
           From(s) == s \in Seq(G) /\ \A x \in ToSet(s) : \E i \in DOMAIN ss : x \in ToSet(ss[i])
<1>1. N \in Nat /\ DOMAIN ss = 1..N /\ \A i \in 1..N : ss[i] \in Seq(G)
  BY LenProperties
<1>2. CASE N = 0
  <2>1. FlattenSeq(ss) = ss
    BY <1>2 DEF FlattenSeq
  <2>2. ss = <<>>
    BY <1>1, <1>2, EmptySeq
  <2>3. ToSet(<<>>) = {}
    BY DEF ToSet
  <2> QED
    BY <2>1, <2>2, <2>3, EmptySeq
<1>3. CASE N # 0
  <2> DEFINE Upto(f, n) == f = [i \in 1..n |-> f[i]] /\ \A i \in 1..n : f[i] = Step(f, i)
             bad == {n \in Nat : n <= N /\ ~(\E f : Upto(f, n))}
  <2>1. bad = {}
    <3> SUFFICES ASSUME bad # {} PROVE FALSE
      OBVIOUS
    <3>1. bad \in SUBSET Nat
      OBVIOUS
    <3>2. PICK n \in bad : \A m \in bad : n <= m
      BY <3>1, LeastNumber
    <3>3. CASE n = 0
      <4>1. Upto(<<>>, 0)
        <5>1. \A i : i \notin 1..0
          OBVIOUS
        <5>2. <<>> = [i \in 1..0 |-> <<>>[i]]
          OBVIOUS
        <5> QED
          BY <5>1, <5>2
      <4> QED
        BY <3>3, <4>1
    <3>4. CASE n # 0
      <4>1. n \in Nat /\ n <= N /\ n - 1 \in Nat /\ n - 1 <= N
        BY <1>1, <3>4
      <4>2. n - 1 \notin bad
        <5>1. ~(n <= n - 1)
          BY <4>1
        <5> HIDE DEF bad
        <5> QED
          BY <3>2, <5>1
      <4>3. PICK f : Upto(f, n - 1)
        BY <4>1, <4>2
      <4> DEFINE g == [i \in 1..n |-> IF i = n THEN Step(f, n) ELSE f[i]]
      <4>4. \A i \in 1..n : g[i] = Step(g, i)
        <5> TAKE i \in 1..n
        <5>1. CASE i = n
          <6>1. n # 1 => n - 1 \in 1..n /\ n - 1 # n
            BY <4>1, <3>4
          <6>2. n # 1 => g[n - 1] = f[n - 1]
            BY <6>1
          <6> QED
            BY <5>1, <6>2
        <5>2. CASE i # n
          <6>1. i \in 1..(n - 1)
            BY <4>1, <5>2
          <6>2. f[i] = Step(f, i)
            BY <4>3, <6>1
          <6>3. i # 1 => i - 1 \in 1..n /\ i - 1 # n
            BY <4>1, <6>1
          <6>4. i # 1 => g[i - 1] = f[i - 1]
            BY <6>3
          <6>5. g[i] = f[i]
            BY <5>2
          <6> QED
            BY <6>2, <6>4, <6>5
        <5> QED
          BY <5>1, <5>2
      <4>5. g = [i \in 1..n |-> g[i]]
        OBVIOUS
      <4>6. Upto(g, n)
        <5> HIDE DEF g, Step
        <5> QED
          BY <4>4, <4>5
      <4> QED
        BY <4>6
    <3> QED
      BY <3>3, <3>4
  <2>2. PICK f : Upto(f, N)
    <3>1. N \notin bad
      BY <2>1
    <3> QED
      BY <1>1, <3>1
  <2>3. Flat(f)
    <3> HIDE DEF Step
    <3>1. \A i \in 1..N : f[i] = Step(f, i)
      BY <2>2
    <3>2. f = [i \in 1..N |-> f[i]]
      BY <2>2
    <3>3. [i \in 1..N |-> f[i]] = [i \in 1..N |-> Step(f, i)]
      BY <3>1
    <3> QED
      BY <3>2, <3>3
  <2>4. FlattenSeq(ss) = (CHOOSE h : Flat(h))[N]
    BY <1>3 DEF FlattenSeq
  <2> HIDE DEF Flat
  <2>5. PICK h : Flat(h) /\ h = CHOOSE k : Flat(k)
    BY <2>3
  <2>6. \A i \in 1..N : h[i] = Step(h, i)
    <3> HIDE DEF Step
    <3>1. h = [i \in 1..N |-> Step(h, i)]
      BY <2>5 DEF Flat
    <3> QED
      BY <3>1
  <2> DEFINE wrong == {i \in 1..N : ~From(h[i])}
  <2>7. wrong = {}
    <3> SUFFICES ASSUME wrong # {} PROVE FALSE
      OBVIOUS
    <3>1. wrong \in SUBSET Nat
      OBVIOUS
    <3> HIDE DEF From
    <3>2. PICK n \in wrong : \A m \in wrong : n <= m
      BY <3>1, LeastNumber
    <3>3. n \in 1..N /\ ~From(h[n]) /\ n \in Nat
      OBVIOUS
    <3>4. From(ss[n])
      BY <1>1, <3>3 DEF From
    <3>5. CASE n = 1
      BY <2>6, <3>3, <3>4, <3>5
    <3>6. CASE n # 1
      <4>1. n - 1 \in 1..N /\ ~(n <= n - 1)
        BY <1>1, <3>3, <3>6
      <4>2. From(h[n - 1])
        BY <3>2, <4>1
      <4>3. PICK s, t : s = h[n - 1] /\ t = ss[n]
        OBVIOUS
      <4>4. h[n] = s \o t
        BY <2>6, <3>3, <3>6, <4>3
      <4>5. From(s) /\ From(t)
        BY <3>4, <4>2, <4>3
      <4>6. s \in Seq(G) /\ t \in Seq(G)
        BY <4>5 DEF From
      <4>7. s \o t \in Seq(G) /\ ToSet(s \o t) \subseteq ToSet(s) \cup ToSet(t)
        <5>1. /\ s \o t \in Seq(G) /\ Len(s \o t) = Len(s) + Len(t)
              /\ \A i \in 1..(Len(s) + Len(t)) :
                    (s \o t)[i] = IF i <= Len(s) THEN s[i] ELSE t[i - Len(s)]
          BY <4>6, ConcatProperties
        <5>2. /\ Len(s) \in Nat /\ DOMAIN s = 1..Len(s) /\ Len(t) \in Nat /\ DOMAIN t = 1..Len(t)
              /\ DOMAIN (s \o t) = 1..(Len(s) + Len(t))
          BY <4>6, <5>1, LenProperties
        <5>3. ASSUME NEW i \in 1..(Len(s) + Len(t))
              PROVE  (s \o t)[i] \in ToSet(s) \cup ToSet(t)
          <6>1. CASE i <= Len(s)
            <7>1. i \in 1..Len(s)
              BY <5>2, <6>1
            <7> QED
              BY <5>1, <5>2, <6>1, <7>1 DEF ToSet
          <6>2. CASE ~(i <= Len(s))
            <7>1. i - Len(s) \in 1..Len(t)
              BY <5>2, <6>2
            <7> QED
              BY <5>1, <5>2, <6>2, <7>1 DEF ToSet
          <6> QED
            BY <6>1, <6>2
        <5>4. \A x \in ToSet(s \o t) : \E i \in 1..(Len(s) + Len(t)) : x = (s \o t)[i]
          BY <5>2 DEF ToSet
        <5> QED
          BY <5>1, <5>3, <5>4
      <4>8. From(s \o t)
        BY <4>5, <4>7 DEF From
      <4> QED
        BY <3>3, <4>4, <4>8
    <3> QED
      BY <3>5, <3>6
  <2>8. N \in 1..N
    BY <1>1, <1>3
  <2>9. From(h[N])
    <3> HIDE DEF From
    <3> QED
      BY <2>7, <2>8
  <2> QED
    BY <2>4, <2>5, <2>9
<1> QED
  BY <1>2, <1>3
--------------------------------------------------------------------------------
(* The sub-tasks of a workflow that have a text. *)
Texts(a) == {i \in DOMAIN a.plan : a.plan[i].text \notin {Empty, NoData}}

(* What was counted for a workflow that executed alone. *)
Counted(a) == ~a.shared /\ a.stage \in After => a.budget = UsagePerCall * Cardinality(Texts(a))

LEMMA StringsDiffer ==
    /\ Empty # "text" /\ NoData # "text" /\ Unable # "text" /\ Empty # Unable
  BY Zenon DEF Empty, NoData, Unable

LEMMA ValidIsTexts == \A q \in Query : Valid(q) = Texts(agent[q])
  BY DEF Valid, Texts

LEMMA EventsAppend ==
    ASSUME NEW s \in Seq(Event), NEW t \in Seq(Event)
    PROVE  s \o t \in Seq(Event) /\ ToSet(s \o t) = ToSet(s) \cup ToSet(t)
<1>1. /\ s \o t \in Seq(Event) /\ Len(s \o t) = Len(s) + Len(t)
      /\ \A i \in 1..(Len(s) + Len(t)) :
            (s \o t)[i] = IF i <= Len(s) THEN s[i] ELSE t[i - Len(s)]
  BY ConcatProperties
<1>2. /\ Len(s) \in Nat /\ DOMAIN s = 1..Len(s) /\ Len(t) \in Nat /\ DOMAIN t = 1..Len(t)
      /\ DOMAIN (s \o t) = 1..(Len(s) + Len(t))
  BY <1>1, LenProperties
<1>3. ASSUME NEW i \in 1..(Len(s) + Len(t)) PROVE (s \o t)[i] \in ToSet(s) \cup ToSet(t)
  <2>1. CASE i <= Len(s)
    <3>1. i \in 1..Len(s)
      BY <1>2, <2>1
    <3> QED
      BY <1>1, <1>2, <2>1, <3>1 DEF ToSet
  <2>2. CASE ~(i <= Len(s))
    <3>1. i - Len(s) \in 1..Len(t)
      BY <1>2, <2>2
    <3> QED
      BY <1>1, <1>2, <2>2, <3>1 DEF ToSet
  <2> QED
    BY <2>1, <2>2
<1>4. ToSet(s \o t) \subseteq ToSet(s) \cup ToSet(t)
  BY <1>2, <1>3 DEF ToSet
<1>5. \A i \in 1..Len(s) : i \in 1..(Len(s) + Len(t)) /\ (s \o t)[i] = s[i]
  BY <1>1, <1>2
<1>6. \A i \in 1..Len(t) : Len(s) + i \in 1..(Len(s) + Len(t)) /\ (s \o t)[Len(s) + i] = t[i]
  <2> TAKE i \in 1..Len(t)
  <2>1. Len(s) + i \in 1..(Len(s) + Len(t)) /\ ~(Len(s) + i <= Len(s)) /\ (Len(s) + i) - Len(s) = i
    BY <1>2
  <2> QED
    BY <1>1, <2>1
<1>7. ToSet(s) \subseteq ToSet(s \o t)
  BY <1>2, <1>5 DEF ToSet
<1>8. ToSet(t) \subseteq ToSet(s \o t)
  BY <1>2, <1>6 DEF ToSet
<1> QED
  BY <1>1, <1>4, <1>7, <1>8

(* The events a stage emits. *)
LEMMA EventsOf ==
    /\ <<>> \in Seq(Event) /\ ToSet(<<>>) = {}
    /\ <<"start_planner">> \in Seq(Event) /\ "done" \notin ToSet(<<"start_planner">>)
    /\ <<"end_planner", "plan", "start_executor">> \in Seq(Event)
    /\ "done" \notin ToSet(<<"end_planner", "plan", "start_executor">>)
    /\ <<"end_planner", "start_synthesis", "synthesis", "end_synthesis", "done">> \in Seq(Event)
    /\ "done" \in ToSet(<<"end_planner", "start_synthesis", "synthesis", "end_synthesis", "done">>)
    /\ <<"end_executor", "start_synthesis">> \in Seq(Event)
    /\ "done" \notin ToSet(<<"end_executor", "start_synthesis">>)
    /\ <<"synthesis", "end_synthesis", "start_verifier">> \in Seq(Event)
    /\ "done" \notin ToSet(<<"synthesis", "end_synthesis", "start_verifier">>)
    /\ <<"end_verifier", "done">> \in Seq(Event) /\ "done" \in ToSet(<<"end_verifier", "done">>)
BY DEF ToSet, Event

(* Requests and traces of other queries stay as they are while q steps. *)
LEMMA WideFrame ==
    ASSUME QInv, NEW q \in Query, UNCHANGED fixed,
           agent' \in [Query -> Agent], usage' \in Nat,
           req' \in [Query -> Progress], traces' \in [Query \cup {NoId} -> Trace],
           \A o \in Query \ {q} : req'[o] = req[o] /\ traces'[o] = traces[o],
           Traced(q, req'[q], traces'[q]), Sound(q, req'[q]),
           AgentInv', AnswerInv', UsageInv'
    PROVE  QInv'
<1>1. ask' = ask /\ dep' = dep
  BY DEF fixed
<1>2. TypeOK'
  BY <1>1 DEF QInv, TypeOK
<1>3. \A o \in Query : Traced(o, req'[o], traces'[o])
  BY DEF QInv, TraceInv
<1>4. TraceInv'
  BY <1>1, <1>3 DEF TraceInv, Traced
<1>5. \A o \in Query : Sound(o, req'[o])
  BY DEF QInv, GroundInv
<1>6. \A expr : Inverted(expr)' <=> Inverted(expr)
  BY <1>1 DEF Inverted
<1>7. \A r, c : Fits(r, c)' <=> Fits(r, c)
  BY <1>1, <1>6 DEF Fits
<1>8. GroundInv'
  <2> SUFFICES ASSUME NEW o \in Query PROVE Sound(o, req[o])'
    BY DEF GroundInv
  <2>1. Sound(o, req'[o])
    BY <1>5
  <2> QED
    BY <1>1, <1>7, <2>1 DEF Sound
<1> QED
  BY <1>2, <1>4, <1>8 DEF QInv

(* Another query keeps what it has while q steps. *)
LEMMA Frame ==
    ASSUME QInv, NEW q \in Query, UNCHANGED fixed,
           agent' \in [Query -> Agent], usage' \in Nat,
           req' \in [Query -> Progress], traces' \in [Query \cup {NoId} -> Trace],
           \A o \in Query \ {q} :
              agent'[o] = agent[o] /\ req'[o] = req[o] /\ traces'[o] = traces[o],
           GoodAgent(agent'[q]), Told(req'[q], agent'[q]),
           Traced(q, req'[q], traces'[q]), Sound(q, req'[q]), UsageInv'
    PROVE  QInv'
<1>1. AgentInv'
  BY DEF QInv, AgentInv
<1>2. AnswerInv'
  BY DEF QInv, AnswerInv
<1> QED
  BY <1>1, <1>2, WideFrame

(* q's own step counts for q alone. *)
LEMMA UsageFrame ==
    ASSUME QInv, NEW q \in Query, NEW a \in Agent, agent' = [agent EXCEPT ![q] = a],
           a.stage = "executor" => agent[q].stage = "executor" /\ a.shared = agent[q].shared,
           a.stage = "executor" /\ ~a.shared => usage' = UsagePerCall * Cardinality(Texts(a)),
           usage' # usage => agent[q].stage = "executor",
           Counted(a)
    PROVE  UsageInv'
<1>1. agent'[q] = a /\ \A o \in Query \ {q} : agent'[o] = agent[o]
  BY DEF QInv, TypeOK
<1>2. \A o \in Query : Valid(o)' = Texts(agent'[o]) /\ Valid(o) = Texts(agent[o])
  BY DEF Valid, Texts
<1>3. \A o \in Query : Executing(o)' <=> agent'[o].stage = "executor"
  BY DEF Executing
<1>4. \A o \in Query : Executing(o) <=> agent[o].stage = "executor"
  BY DEF Executing
<1> SUFFICES ASSUME NEW o \in Query, ~agent'[o].shared
             PROVE  /\ Executing(o)' =>
                        /\ \A p \in Query \ {o} : ~Executing(p)'
                        /\ usage' = UsagePerCall * Cardinality(Texts(agent'[o]))
                    /\ agent'[o].stage \in After =>
                        agent'[o].budget = UsagePerCall * Cardinality(Texts(agent'[o]))
  BY <1>2 DEF UsageInv
<1>5. CASE o = q
  <2>1. agent'[o] = a
    BY <1>1, <1>5
  <2>2. a.stage \in After => a.budget = UsagePerCall * Cardinality(Texts(a))
    BY <2>1 DEF Counted
  <2>3. ASSUME Executing(o)' PROVE \A p \in Query \ {o} : ~Executing(p)'
    <3>1. Executing(q) /\ ~agent[q].shared
      BY <1>3, <1>4, <2>1, <2>3
    <3>2. \A p \in Query \ {q} : ~Executing(p)
      BY <3>1 DEF QInv, UsageInv
    <3> QED
      BY <1>1, <1>3, <1>4, <1>5, <3>2
  <2> QED
    BY <1>3, <2>1, <2>2, <2>3
<1>6. CASE o # q
  <2>1. agent'[o] = agent[o] /\ o \in Query \ {q} /\ q \in Query \ {o}
    BY <1>1, <1>6
  <2>2. /\ Executing(o) =>
            /\ \A p \in Query \ {o} : ~Executing(p)
            /\ usage = UsagePerCall * Cardinality(Texts(agent[o]))
        /\ agent[o].stage \in After => agent[o].budget = UsagePerCall * Cardinality(Texts(agent[o]))
    BY <1>2, <2>1 DEF QInv, UsageInv
  <2>3. ASSUME Executing(o)
        PROVE  usage' = usage /\ \A p \in Query \ {o} : ~Executing(p)'
    <3>1. ~Executing(q)
      BY <2>1, <2>2, <2>3
    <3> QED
      BY <1>1, <1>3, <1>4, <2>2, <2>3, <3>1
  <2> QED
    BY <1>3, <1>4, <2>1, <2>2, <2>3
<1> QED
  BY <1>5, <1>6

LEMMA ToldBefore ==
    ASSUME NEW r, NEW a, NEW b, Told(r, a), r.phase # "flush"
    PROVE  Told(r, b)
BY DEF Told

(* A step of q's workflow. *)
LEMMA AgentMoves ==
    ASSUME QInv, NEW q \in Query, req[q].phase = "agent", UNCHANGED <<req, traces, fixed>>,
           NEW a \in Agent, GoodAgent(a), Become(q, a), usage' \in Nat,
           a.stage = "executor" => agent[q].stage = "executor" /\ a.shared = agent[q].shared,
           a.stage = "executor" /\ ~a.shared => usage' = UsagePerCall * Cardinality(Texts(a)),
           usage' # usage => agent[q].stage = "executor",
           Counted(a)
    PROVE  QInv'
<1>1. agent' = [agent EXCEPT ![q] = a] /\ agent \in [Query -> Agent]
  BY DEF Become, QInv, TypeOK
<1>2. /\ agent' \in [Query -> Agent] /\ agent'[q] = a
      /\ \A o \in Query \ {q} : agent'[o] = agent[o]
  BY <1>1
<1>3. UsageInv'
  BY <1>1, UsageFrame
<1>4. req' = req /\ traces' = traces /\ UNCHANGED fixed
  OBVIOUS
<1>5. Told(req[q], a)
  BY ToldBefore DEF QInv, AnswerInv
<1>6. Traced(q, req[q], traces[q]) /\ Sound(q, req[q])
  BY DEF QInv, TraceInv, GroundInv
<1>7. req' \in [Query -> Progress] /\ traces' \in [Query \cup {NoId} -> Trace]
  BY <1>4 DEF QInv, TypeOK
<1>8. /\ GoodAgent(agent'[q]) /\ Told(req'[q], agent'[q])
      /\ Traced(q, req'[q], traces'[q]) /\ Sound(q, req'[q])
  BY <1>2, <1>4, <1>5, <1>6
<1> QED
  BY <1>2, <1>3, <1>4, <1>7, <1>8, Frame

LEMMA AgentLeaves ==
    ASSUME QInv, NEW q \in Query, req[q].phase = "agent", UNCHANGED <<usage, req, traces, fixed>>,
           NEW a \in Agent, GoodAgent(a), Become(q, a), a.stage # "executor", Counted(a)
    PROVE  QInv'
<1>1. usage' = usage /\ usage' \in Nat /\ UNCHANGED <<req, traces, fixed>>
  BY DEF QInv, TypeOK
<1> QED
  BY <1>1, AgentMoves

LEMMA NoAgentIsGood == NoAgent \in Agent /\ GoodAgent(NoAgent) /\ Counted(NoAgent)
<1>1. NoAgent \in Agent
  BY EmptySeq DEF NoAgent, Agent, Stage, Before
<1>2. /\ NoAgent.stage = "idle" /\ NoAgent.sent = <<>> /\ NoAgent.plan = <<>>
      /\ NoAgent.budget = 0 /\ NoAgent.cites = <<>>
  BY DEF NoAgent
<1>3. "idle" \notin After /\ \A i : i \notin DOMAIN <<>>
  BY DEF After
<1>4. GoodAgent(NoAgent)
  BY <1>2, <1>3, EventsOf DEF GoodAgent, Before, After
<1> QED
  BY <1>1, <1>2, <1>3, <1>4 DEF Counted

(* run_agentic's handlers drop the state. *)
LEMMA Degrades ==
    ASSUME QInv, NEW q \in Query, req[q].phase = "agent", UNCHANGED <<usage, req, traces, fixed>>,
           agent[q].stage # "answered", NEW reason \in Int, Degrade(q, reason)
    PROVE  QInv'
<1>1. PICK a : a = [NoAgent EXCEPT !.stage = "degraded", !.reason = reason, !.sent = agent[q].sent]
  OBVIOUS
<1>2. agent[q] \in Agent /\ GoodAgent(agent[q])
  BY DEF QInv, TypeOK, AgentInv
<1>3. agent[q].sent \in Seq(Event) /\ "done" \notin ToSet(agent[q].sent)
  BY <1>2 DEF Agent, GoodAgent
<1>4. /\ a.stage = "degraded" /\ a.sent = agent[q].sent /\ a.plan = <<>>
      /\ a.budget = 0 /\ a.cites = <<>>
  BY <1>1 DEF NoAgent
<1>5. a \in Agent
  BY <1>1, <1>3, NoAgentIsGood DEF Agent, Stage
<1>6. "degraded" \notin After /\ "degraded" \notin Before /\ \A i : i \notin DOMAIN <<>>
  BY DEF After, Before
<1>7. GoodAgent(a)
  BY <1>3, <1>4, <1>6 DEF GoodAgent, After, Before
<1>8. Counted(a) /\ a.stage # "executor"
  BY <1>4, <1>6 DEF Counted
<1>9. Become(q, a)
  BY <1>1 DEF Degrade
<1> QED
  BY <1>5, <1>7, <1>8, <1>9, AgentLeaves

LEMMA EmptyResults ==
    ASSUME QInv, NEW q \in Query, req[q].phase = "agent", UNCHANGED <<usage, req, traces, fixed>>,
           agent[q].stage \in Before, EmptyResult(q)
    PROVE  QInv'
<1> DEFINE evs == <<"end_planner", "start_synthesis", "synthesis", "end_synthesis", "done">>
<1>1. PICK b : b = agent[q]
  OBVIOUS
<1>2. b \in Agent /\ GoodAgent(b) /\ b.stage \in Before
  BY <1>1 DEF QInv, TypeOK, AgentInv
<1>3. b.plan = <<>> /\ b.cites = <<>> /\ b.budget = 0 /\ b.sent \in Seq(Event)
  BY <1>2 DEF GoodAgent, Agent
<1>4. PICK sent : sent = b.sent \o evs
  OBVIOUS
<1>5. sent \in Seq(Event) /\ "done" \in ToSet(sent)
  BY <1>3, <1>4, EventsOf, EventsAppend, ZenonT(60)
<1>6. PICK a : a = [[b EXCEPT !.stage = "answered", !.sent = sent] EXCEPT !.answer = Unable]
  OBVIOUS
<1>7. Become(q, a)
  BY <1>1, <1>4, <1>6 DEF EmptyResult, Enter
<1>8. a \in Agent
  BY <1>2, <1>5, <1>6 DEF Agent, Stage, After
<1>9. /\ a.stage = "answered" /\ a.sent = sent /\ a.plan = <<>> /\ a.cites = <<>>
      /\ a.budget = 0 /\ a.answer = Unable
  BY <1>2, <1>3, <1>6 DEF Agent
<1>10. \A i : i \notin DOMAIN <<>>
  OBVIOUS
<1>11. GoodAgent(a)
  BY <1>5, <1>9, <1>10 DEF GoodAgent, Before, After
<1>12. Texts(a) = {}
  BY <1>9, <1>10 DEF Texts
<1>13. Counted(a)
  BY <1>9, <1>12, FS_EmptySet, WorkflowConstants DEF Counted
<1> QED
  BY <1>7, <1>8, <1>9, <1>11, <1>13, AgentLeaves

(* A stage without a plan leads to the next one. *)
LEMMA EntersEarly ==
    ASSUME QInv, NEW q \in Query, req[q].phase = "agent", UNCHANGED <<usage, req, traces, fixed>>,
           agent[q].stage \in {"intent", "discovery", "plan"}, NEW stage \in {"discovery", "plan"},
           Become(q, Enter(q, stage, <<>>))
    PROVE  QInv'
<1>1. PICK b : b = agent[q]
  OBVIOUS
<1>2. b \in Agent /\ GoodAgent(b) /\ b.stage \in {"intent", "discovery", "plan"}
  BY <1>1 DEF QInv, TypeOK, AgentInv
<1>3. b.sent \in Seq(Event) /\ "done" \notin ToSet(b.sent)
  BY <1>2 DEF GoodAgent, Agent
<1>4. PICK sent : sent = b.sent \o <<>>
  OBVIOUS
<1>5. sent \in Seq(Event) /\ "done" \notin ToSet(sent)
  BY <1>3, <1>4, EventsOf, EventsAppend
<1>6. PICK a : a = [b EXCEPT !.stage = stage, !.sent = sent]
  OBVIOUS
<1>7. Become(q, a)
  BY <1>1, <1>4, <1>6 DEF Enter
<1>8. a \in Agent
  BY <1>2, <1>5, <1>6 DEF Agent, Stage, Before
<1>9. /\ a.stage = stage /\ a.sent = sent /\ a.plan = b.plan /\ a.cites = b.cites
      /\ a.budget = b.budget /\ a.text = b.text
  BY <1>2, <1>6 DEF Agent
<1>10. /\ b.plan = <<>> /\ b.cites = <<>> /\ b.budget = 0 /\ b.text \in Text
       /\ \A i : i \notin DOMAIN <<>>
  BY <1>2 DEF GoodAgent, Before
<1>11. GoodAgent(a)
  BY <1>5, <1>9, <1>10 DEF GoodAgent, Before, After
<1>12. Counted(a) /\ a.stage # "executor"
  BY <1>9 DEF Counted, After
<1> QED
  BY <1>7, <1>8, <1>11, <1>12, AgentLeaves

(* Another query that executes learns that it is not alone. *)
LEMMA SharedOnly ==
    ASSUME NEW b \in Agent, NEW s \in BOOLEAN, NEW a, a = [b EXCEPT !.shared = s]
    PROVE  /\ a \in Agent /\ (a.shared <=> s)
           /\ a.stage = b.stage /\ a.sent = b.sent /\ a.plan = b.plan /\ a.cites = b.cites
           /\ a.budget = b.budget /\ a.text = b.text /\ a.answer = b.answer
           /\ a.verified = b.verified
           /\ Texts(a) = Texts(b)
           /\ GoodAgent(b) => GoodAgent(a)
<1>1. a \in Agent
  BY DEF Agent
<1>2. /\ a.shared = s
      /\ a.stage = b.stage /\ a.sent = b.sent /\ a.plan = b.plan /\ a.cites = b.cites
      /\ a.budget = b.budget /\ a.text = b.text /\ a.answer = b.answer
      /\ a.verified = b.verified
  BY Zenon DEF Agent
<1>3. Texts(a) = Texts(b)
  BY <1>2 DEF Texts
<1>4. Cited(a) = Cited(b) /\ HasData(a) = HasData(b) /\ HasText(a) = HasText(b)
  BY <1>2 DEF Cited, HasData, HasText
<1>5. GoodAgent(b) => GoodAgent(a)
  BY <1>2, <1>4 DEF GoodAgent
<1> QED
  BY <1>1, <1>2, <1>3, <1>5

LEMMA NewTaskIsGood ==
    ASSUME NEW seed \in Text
    PROVE  /\ NewTask(seed) \in Task /\ GoodTask(NewTask(seed))
           /\ NewTask(seed).text = Empty /\ NewTask(seed).no_data = FALSE
<1>1. NewTask(seed) \in Task
  BY EmptySeq DEF NewTask, Task, MaxRetries
<1>2. /\ NewTask(seed).phase = "recall" /\ NewTask(seed).text = Empty
      /\ NewTask(seed).no_data = FALSE
  BY DEF NewTask
<1> QED
  BY <1>1, <1>2 DEF GoodTask

(* The workflow of q as the executor finds it. *)
LEMMA PlannedIsGood ==
    ASSUME QInv, NEW q \in Query, agent[q].stage = "plan",
           NEW seeds \in Seq(Text), NEW others
    PROVE  /\ Planned(q, seeds, others) \in Agent /\ GoodAgent(Planned(q, seeds, others))
           /\ Planned(q, seeds, others).stage = "executor"
           /\ Planned(q, seeds, others).shared <=> others # {}
           /\ Texts(Planned(q, seeds, others)) = {}
<1> DEFINE evs == <<"end_planner", "plan", "start_executor">>
<1>1. PICK b : b = agent[q]
  OBVIOUS
<1>2. b \in Agent /\ GoodAgent(b) /\ b.stage = "plan"
  BY <1>1 DEF QInv, TypeOK, AgentInv
<1>3. b.sent \in Seq(Event) /\ "done" \notin ToSet(b.sent) /\ b.budget = 0
  BY <1>2 DEF GoodAgent, Agent, Before
<1>4. PICK sent : sent = b.sent \o evs
  OBVIOUS
<1>5. sent \in Seq(Event) /\ "done" \notin ToSet(sent)
  BY <1>3, <1>4, EventsOf, EventsAppend, ZenonT(60)
<1>6. PICK plan : plan = [i \in DOMAIN seeds |-> NewTask(seeds[i])]
  OBVIOUS
<1>7. PICK n \in Nat : DOMAIN seeds = 1..n /\ \A i \in 1..n : seeds[i] \in Text
  BY LenProperties
<1>8. \A i \in 1..n : plan[i] \in Task /\ GoodTask(plan[i]) /\ plan[i].text = Empty
  BY <1>6, <1>7, NewTaskIsGood
<1>9. DOMAIN plan = 1..n /\ plan \in [1..n -> Task]
  BY <1>6, <1>7, <1>8
<1>10. plan \in Seq(Task)
  BY <1>9, SeqDef
<1>11. PICK a : a = Planned(q, seeds, others)
  OBVIOUS
<1>12. a = [[b EXCEPT !.stage = "executor", !.sent = sent] EXCEPT !.plan = plan,
                                                                  !.shared = (others # {})]
  BY <1>1, <1>4, <1>6, <1>11 DEF Planned, Enter
<1>13. (others # {}) \in BOOLEAN
  OBVIOUS
<1>14. a \in Agent
  BY <1>2, <1>5, <1>10, <1>12, <1>13 DEF Agent, Stage
<1>15. a.stage = "executor" /\ a.sent = sent /\ a.plan = plan /\ a.budget = 0
  BY <1>2, <1>3, <1>12 DEF Agent
<1>16. a.shared <=> others # {}
  BY <1>2, <1>12, Zenon DEF Agent
<1>17. GoodAgent(a)
  BY <1>5, <1>8, <1>9, <1>15 DEF GoodAgent, Before, After
<1>18. Texts(a) = {}
  BY <1>8, <1>9, <1>15 DEF Texts
<1> QED
  BY <1>11, <1>14, <1>15, <1>16, <1>17, <1>18

(* The ends of the planner's call: it degrades, its plan is empty, or the  *)
(* tasks start.                                                            *)
LEMMA PlanStep ==
    ASSUME QInv, NEW q \in Query, req[q].phase = "agent", UNCHANGED <<req, traces, fixed>>,
           AnswerPlan(q)
    PROVE  QInv'
<1>1. agent[q].stage = "plan" /\ agent[q] \in Agent /\ GoodAgent(agent[q])
  BY DEF AnswerPlan, QInv, TypeOK, AgentInv
<1>2. agent[q].text \in Text /\ agent[q].stage \in Before
  BY <1>1 DEF GoodAgent, Before
<1>3. CASE Degrade(q, 7001) /\ UNCHANGED usage
  <2>1. agent[q].stage # "answered" /\ 7001 \in Int /\ UNCHANGED <<usage, req, traces, fixed>>
    BY <1>1, <1>3
  <2> QED
    BY <1>3, <2>1, Degrades
<1>4. CASE \E proposed \in Plans[agent[q].text] :
             SeedsOf(proposed) = <<>> /\ EmptyResult(q) /\ UNCHANGED usage
  <2>1. UNCHANGED <<usage, req, traces, fixed>>
    BY <1>4
  <2> QED
    BY <1>2, <1>4, <2>1, EmptyResults
<1> DEFINE others == {o \in Query \ {q} : Executing(o)}
<1>5. ASSUME NEW proposed \in Plans[agent[q].text], NEW seeds, seeds = SeedsOf(proposed),
             agent' = [o \in Query |->
                        IF o = q THEN Planned(q, seeds, others)
                        ELSE [agent[o] EXCEPT !.shared = @ \/ o \in others]],
             usage' = 0
      PROVE  QInv'
  <2>1. seeds \in Seq(Text)
    <3>1. proposed \in Seq(Text \cup {Blank})
      BY <1>2, <1>5, WorkflowConstants
    <3> QED
      BY <1>5, <3>1, SeedsAreTexts
  <2>2. PICK a : a = Planned(q, seeds, others)
    OBVIOUS
  <2>3. a \in Agent /\ GoodAgent(a) /\ a.stage = "executor" /\ Texts(a) = {}
    BY <1>1, <2>1, <2>2, PlannedIsGood
  <2>4. a.shared <=> others # {}
    <3> HIDE DEF others
    <3> QED
      BY <1>1, <2>1, <2>2, PlannedIsGood
  <2>5. agent'[q] = a
    BY <1>5, <2>2
  <2>6. ASSUME NEW o \in Query \ {q}
        PROVE  /\ agent'[o] \in Agent /\ GoodAgent(agent'[o])
               /\ agent'[o].shared <=> (agent[o].shared \/ o \in others)
               /\ agent'[o].stage = agent[o].stage /\ agent'[o].budget = agent[o].budget
               /\ agent'[o].answer = agent[o].answer /\ agent'[o].cites = agent[o].cites
               /\ Texts(agent'[o]) = Texts(agent[o])
    <3>1. PICK b : b = agent[o]
      OBVIOUS
    <3>2. b \in Agent /\ GoodAgent(b)
      BY <3>1 DEF QInv, TypeOK, AgentInv
    <3>3. agent'[o] = [b EXCEPT !.shared = b.shared \/ o \in others]
      BY <1>5, <3>1
    <3>4. PICK s \in BOOLEAN : s <=> (b.shared \/ o \in others)
      OBVIOUS
    <3>5. agent'[o] = [b EXCEPT !.shared = s]
      BY <3>3, <3>4, Zenon
    <3>6. PICK c : c = agent'[o]
      OBVIOUS
    <3>7. /\ c \in Agent /\ GoodAgent(c) /\ (c.shared <=> s)
          /\ c.stage = b.stage /\ c.budget = b.budget
          /\ c.answer = b.answer /\ c.cites = b.cites /\ Texts(c) = Texts(b)
      BY <3>2, <3>5, <3>6, SharedOnly
    <3> QED
      BY <3>1, <3>4, <3>6, <3>7
  <2>7. agent' \in [Query -> Agent]
    <3>1. \A o \in Query : agent'[o] \in Agent
      BY <2>3, <2>5, <2>6
    <3>2. agent' = [o \in Query |-> agent'[o]]
      BY <1>5
    <3> QED
      BY <3>1, <3>2
  <2>8. AgentInv'
    BY <2>3, <2>5, <2>6 DEF AgentInv
  <2>9. AnswerInv'
    <3>1. req' = req
      OBVIOUS
    <3>2. ASSUME NEW o \in Query PROVE Told(req[o], agent'[o])
      <4>1. Told(req[o], agent[o])
        BY DEF QInv, AnswerInv
      <4>2. CASE o = q
        BY <4>1, <4>2, ToldBefore
      <4>3. CASE o # q
        BY <2>6, <4>1, <4>3 DEF Told
      <4> QED
        BY <4>2, <4>3
    <3> QED
      BY <3>1, <3>2 DEF AnswerInv
  <2>10. UsageInv'
    <3>1. \A o \in Query : Valid(o)' = Texts(agent'[o]) /\ Valid(o) = Texts(agent[o])
      BY DEF Valid, Texts
    <3>4. \A o \in Query : Executing(o)' <=> agent'[o].stage = "executor"
      BY DEF Executing
    <3>5. \A o \in Query : Executing(o) <=> agent[o].stage = "executor"
      BY DEF Executing
    <3> SUFFICES ASSUME NEW o \in Query, ~agent'[o].shared
                 PROVE  /\ Executing(o)' =>
                            /\ \A p \in Query \ {o} : ~Executing(p)'
                            /\ usage' = UsagePerCall * Cardinality(Texts(agent'[o]))
                        /\ agent'[o].stage \in After =>
                            agent'[o].budget = UsagePerCall * Cardinality(Texts(agent'[o]))
      BY <3>1 DEF UsageInv
    <3>2. CASE o = q
      <4>1. others = {}
        BY <2>4, <2>5, <3>2
      <4>2. \A p \in Query \ {q} : ~Executing(p)'
        BY <2>6, <3>4, <3>5, <4>1
      <4>3. UsagePerCall * Cardinality(Texts(a)) = 0
        BY <2>3, FS_EmptySet, WorkflowConstants
      <4>4. a.stage \notin After
        BY <2>3 DEF After
      <4> QED
        BY <1>5, <2>5, <3>2, <4>2, <4>3, <4>4
    <3>3. CASE o # q
      <4>1. o \in Query \ {q}
        BY <3>3
      <4>2. ~agent[o].shared /\ o \notin others
        BY <2>6, <4>1
      <4>3. ~Executing(o)
        BY <4>1, <4>2
      <4>4. ~Executing(o)'
        BY <2>6, <3>4, <3>5, <4>1, <4>3
      <4>5. agent[o].stage \in After => agent[o].budget = UsagePerCall * Cardinality(Texts(agent[o]))
        BY <3>1, <4>2 DEF QInv, UsageInv
      <4> QED
        BY <2>6, <4>1, <4>4, <4>5
    <3> QED
      BY <3>2, <3>3
  <2>11. /\ req' \in [Query -> Progress] /\ traces' \in [Query \cup {NoId} -> Trace]
         /\ \A o \in Query \ {q} : req'[o] = req[o] /\ traces'[o] = traces[o]
         /\ UNCHANGED fixed /\ usage' \in Nat
    BY <1>5 DEF QInv, TypeOK
  <2>12. Traced(q, req'[q], traces'[q]) /\ Sound(q, req'[q])
    <3>1. req' = req /\ traces' = traces
      OBVIOUS
    <3>2. Traced(q, req[q], traces[q]) /\ Sound(q, req[q])
      BY DEF QInv, TraceInv, GroundInv
    <3> QED
      BY <3>1, <3>2
  <2> QED
    BY <2>7, <2>8, <2>9, <2>10, <2>11, <2>12, WideFrame
<1> HIDE DEF others
<1>6. ASSUME NEW proposed \in Plans[agent[q].text], StartTasks(q, SeedsOf(proposed))
      PROVE  QInv'
  <2>1. /\ agent' = [o \in Query |->
                IF o = q THEN Planned(q, SeedsOf(proposed), others)
                ELSE [agent[o] EXCEPT !.shared = @ \/ o \in others]]
        /\ usage' = 0
    BY <1>6 DEF StartTasks, others
  <2> QED
    BY <1>5, <2>1
<1>7. \/ Degrade(q, 7001) /\ UNCHANGED usage
      \/ \E proposed \in Plans[agent[q].text] :
            \/ SeedsOf(proposed) = <<>> /\ EmptyResult(q) /\ UNCHANGED usage
            \/ StartTasks(q, SeedsOf(proposed))
  BY DEF AnswerPlan
<1> QED
  BY <1>3, <1>4, <1>6, <1>7

(* A sub-task steps: it has a text now, which counts, or still none. *)
LEMMA TaskMoves ==
    ASSUME QInv, NEW q \in Query, req[q].phase = "agent", UNCHANGED <<req, traces, fixed>>,
           Executing(q), NEW i \in DOMAIN agent[q].plan,
           agent[q].plan[i].phase \notin {"done", "raised"},
           NEW task \in Task, GoodTask(task), SetTask(q, i, task),
           \/ task.text \in {Empty, NoData} /\ usage' = usage
           \/ task.text \notin {Empty, NoData} /\ usage' = usage + UsagePerCall
    PROVE  QInv'
<1>1. PICK b : b = agent[q]
  OBVIOUS
<1>2. b \in Agent /\ GoodAgent(b) /\ b.stage = "executor"
  BY <1>1 DEF QInv, TypeOK, AgentInv, Executing
<1>3. /\ b.plan \in Seq(Task) /\ b.budget = 0 /\ "done" \notin ToSet(b.sent)
      /\ \A j \in DOMAIN b.plan : GoodTask(b.plan[j])
  BY <1>2 DEF Agent, GoodAgent
<1>4. Len(b.plan) \in Nat /\ DOMAIN b.plan = 1..Len(b.plan) /\ i \in 1..Len(b.plan)
  BY <1>1, <1>3, LenProperties
<1>5. PICK plan : plan = [b.plan EXCEPT ![i] = task]
  OBVIOUS
<1>6. /\ plan \in Seq(Task) /\ DOMAIN plan = DOMAIN b.plan
      /\ \A j \in DOMAIN plan : plan[j] = IF j = i THEN task ELSE b.plan[j]
  BY <1>3, <1>4, <1>5, ExceptSeq
<1>7. PICK a : a = [b EXCEPT !.plan = plan]
  OBVIOUS
<1>8. Become(q, a)
  BY <1>1, <1>5, <1>7 DEF SetTask, Become, QInv, TypeOK
<1>9. a \in Agent
  BY <1>2, <1>6, <1>7 DEF Agent
<1>10. a.stage = "executor" /\ a.sent = b.sent /\ a.plan = plan /\ a.budget = 0
  BY <1>2, <1>3, <1>7 DEF Agent
<1>11. a.shared = b.shared
  BY <1>2, <1>7, Zenon DEF Agent
<1>12. \A j \in DOMAIN plan : GoodTask(plan[j])
  BY <1>3, <1>6
<1>13. GoodAgent(a)
  BY <1>3, <1>10, <1>12 DEF GoodAgent, Before, After
<1>14. b.plan[i].text = Empty
  BY <1>1, <1>3, <1>4 DEF GoodTask
<1>15. Counted(a)
  BY <1>10 DEF Counted, After
<1>16. usage \in Nat /\ usage' \in Nat /\ UsagePerCall \in Nat
  BY WorkflowConstants DEF QInv, TypeOK
<1>17. IsFiniteSet(Texts(b)) /\ i \notin Texts(b)
  <2>1. 1 \in Int /\ Len(b.plan) \in Int
    BY <1>4
  <2>2. IsFiniteSet(1..Len(b.plan))
    BY <2>1, FS_Interval
  <2>3. Texts(b) \in SUBSET (1..Len(b.plan))
    BY <1>4 DEF Texts
  <2> QED
    BY <1>14, <2>2, <2>3, FS_Subset DEF Texts
<1>18. ASSUME ~a.shared PROVE usage' = UsagePerCall * Cardinality(Texts(a))
  <2>1. usage = UsagePerCall * Cardinality(Texts(b))
    BY <1>1, <1>11, <1>18, ValidIsTexts DEF QInv, UsageInv
  <2>2. Cardinality(Texts(b)) \in Nat
    BY <1>17, FS_CardinalityType
  <2>3. CASE task.text \in {Empty, NoData} /\ usage' = usage
    <3>1. Texts(a) = Texts(b)
      BY <1>6, <1>10, <1>14, <2>3 DEF Texts
    <3> QED
      BY <2>1, <2>3, <3>1
  <2>4. CASE task.text \notin {Empty, NoData} /\ usage' = usage + UsagePerCall
    <3>1. Texts(a) = Texts(b) \cup {i}
      BY <1>1, <1>6, <1>10, <2>4 DEF Texts
    <3>2. Cardinality(Texts(a)) = Cardinality(Texts(b)) + 1
      BY <1>17, <3>1, FS_AddElement
    <3>3. \A m, n \in Nat : m * (n + 1) = m * n + m
      OBVIOUS
    <3>4. UsagePerCall * (Cardinality(Texts(b)) + 1)
            = UsagePerCall * Cardinality(Texts(b)) + UsagePerCall
      BY <1>16, <2>2, <3>3
    <3> QED
      BY <2>1, <2>4, <3>2, <3>4
  <2> QED
    BY <2>3, <2>4
<1>19. agent[q].stage = "executor" /\ a.shared = agent[q].shared
  BY <1>1, <1>2, <1>11
<1> QED
  BY <1>8, <1>9, <1>13, <1>15, <1>16, <1>18, <1>19, AgentMoves

(* The fields of a sub-task that still runs. *)
LEMMA RunningTask ==
    ASSUME QInv, NEW q \in Query, NEW i \in DOMAIN agent[q].plan
    PROVE  agent[q].plan[i] \in Task /\ GoodTask(agent[q].plan[i])
<1>1. agent[q] \in Agent /\ GoodAgent(agent[q])
  BY DEF QInv, TypeOK, AgentInv
<1>2. agent[q].plan \in Seq(Task)
  BY <1>1 DEF Agent
<1>3. agent[q].plan[i] \in Task
  BY <1>2, LenProperties
<1> QED
  BY <1>1, <1>3 DEF GoodAgent

LEMMA Raises ==
    ASSUME QInv, NEW q \in Query, req[q].phase = "agent", UNCHANGED <<req, traces, fixed>>,
           Executing(q), NEW i \in DOMAIN agent[q].plan,
           agent[q].plan[i].phase \notin {"done", "raised"}, TaskRaises(q, i)
    PROVE  QInv'
<1>1. PICK old : old = agent[q].plan[i]
  OBVIOUS
<1>2. old \in Task /\ GoodTask(old) /\ old.phase \notin {"done", "raised"}
  BY <1>1, RunningTask
<1>3. PICK task : task = [old EXCEPT !.phase = "raised", !.cites = <<>>]
  OBVIOUS
<1>4. task \in Task
  BY <1>2, <1>3, EmptySeq DEF Task
<1>5. task.phase = "raised" /\ task.text = Empty /\ task.cites = <<>>
  BY <1>2, <1>3 DEF Task, GoodTask
<1>6. GoodTask(task)
  BY <1>5 DEF GoodTask
<1>7. SetTask(q, i, task) /\ usage' = usage
  BY <1>1, <1>3 DEF TaskRaises
<1> QED
  BY <1>4, <1>5, <1>6, <1>7, TaskMoves

LEMMA GivesUp ==
    ASSUME QInv, NEW q \in Query, req[q].phase = "agent", UNCHANGED <<req, traces, fixed>>,
           Executing(q), NEW i \in DOMAIN agent[q].plan,
           agent[q].plan[i].phase \notin {"done", "raised"}, TaskGivesUp(q, i)
    PROVE  QInv'
<1>1. PICK old : old = agent[q].plan[i]
  OBVIOUS
<1>2. old \in Task
  BY <1>1, RunningTask
<1>3. PICK task : task = [old EXCEPT !.phase = "done", !.no_data = TRUE, !.text = NoData]
  OBVIOUS
<1>4. task \in Task
  BY <1>2, <1>3 DEF Task
<1>5. task.phase = "done" /\ task.text = NoData
  BY <1>2, <1>3 DEF Task
<1>6. GoodTask(task)
  BY <1>5 DEF GoodTask
<1>7. SetTask(q, i, task) /\ usage' = usage
  BY <1>1, <1>3 DEF TaskGivesUp
<1> QED
  BY <1>4, <1>5, <1>6, <1>7, TaskMoves

(* A sub-task that goes on has neither a text nor an answer yet. *)
LEMMA GoesOn ==
    ASSUME QInv, NEW q \in Query, req[q].phase = "agent", UNCHANGED <<usage, req, traces, fixed>>,
           Executing(q), NEW i \in DOMAIN agent[q].plan,
           agent[q].plan[i].phase \notin {"done", "raised"},
           NEW task \in Task, SetTask(q, i, task), task.phase \in {"answer", "rewrite", "again"},
           task.text = agent[q].plan[i].text, task.no_data = agent[q].plan[i].no_data
    PROVE  QInv'
<1>1. task.text = Empty /\ ~task.no_data
  BY RunningTask DEF GoodTask
<1>2. GoodTask(task)
  BY <1>1 DEF GoodTask
<1>3. usage' = usage /\ UNCHANGED <<req, traces, fixed>>
  OBVIOUS
<1> QED
  BY <1>1, <1>2, <1>3, TaskMoves

LEMMA RecallStep ==
    ASSUME QInv, NEW q \in Query, req[q].phase = "agent", UNCHANGED <<req, traces, fixed>>,
           NEW i \in DOMAIN agent[q].plan, TaskRecall(dep, q, i)
    PROVE  QInv'
<1>1. PICK old : old = agent[q].plan[i]
  OBVIOUS
<1>2. old \in Task
  BY <1>1, RunningTask
<1>3. Executing(q) /\ old.phase \in {"recall", "again"}
  BY <1>1 DEF TaskRecall
<1>4. agent[q].plan[i].phase \notin {"done", "raised"}
  BY <1>1, <1>3
<1>5. CASE TaskRaises(q, i)
  BY <1>3, <1>4, <1>5, Raises
<1>6. ASSUME NEW text \in (IF old.phase = "recall" THEN {old.seed} ELSE Text),
             NEW shown \in TaskContexts[dep][DefaultKB][text],
             \/ /\ shown.found
                /\ SetTask(q, i, [old EXCEPT !.phase = "answer", !.cites = shown.cites])
                /\ UNCHANGED usage
             \/ /\ ~shown.found /\ old.retries < MaxRetries
                /\ SetTask(q, i, [old EXCEPT !.phase = "rewrite", !.retries = @ + 1])
                /\ UNCHANGED usage
             \/ /\ ~shown.found /\ old.retries = MaxRetries
                /\ TaskGivesUp(q, i)
      PROVE  QInv'
  <2>1. text \in Text /\ dep \in Deployments /\ DefaultKB \in KB
    BY <1>2, <1>6, WorkflowConstants DEF Task, QInv, TypeOK
  <2>2. shown.cites \in Seq(Chunk)
    BY <1>6, <2>1, TaskContextsChunks
  <2>3. CASE /\ SetTask(q, i, [old EXCEPT !.phase = "answer", !.cites = shown.cites])
             /\ UNCHANGED usage
    <3>1. PICK task : task = [old EXCEPT !.phase = "answer", !.cites = shown.cites]
      OBVIOUS
    <3>2. task \in Task
      BY <1>2, <2>2, <3>1 DEF Task
    <3>3. task.phase = "answer" /\ task.text = old.text
      BY <1>2, <3>1 DEF Task
    <3>4. task.no_data = old.no_data
      BY <1>2, <3>1, Zenon DEF Task
    <3>5. UNCHANGED <<usage, req, traces, fixed>>
      BY <2>3
    <3> QED
      BY <1>1, <1>3, <1>4, <2>3, <3>1, <3>2, <3>3, <3>4, <3>5, GoesOn
  <2>4. CASE /\ old.retries < MaxRetries
             /\ SetTask(q, i, [old EXCEPT !.phase = "rewrite", !.retries = @ + 1])
             /\ UNCHANGED usage
    <3>1. PICK task : task = [old EXCEPT !.phase = "rewrite", !.retries = @ + 1]
      OBVIOUS
    <3>2. old.retries + 1 \in 0..MaxRetries
      BY <1>2, <2>4 DEF Task, MaxRetries
    <3>3. task \in Task
      BY <1>2, <3>1, <3>2 DEF Task
    <3>4. task.phase = "rewrite" /\ task.text = old.text
      BY <1>2, <3>1 DEF Task
    <3>5. task.no_data = old.no_data
      BY <1>2, <3>1, Zenon DEF Task
    <3>6. UNCHANGED <<usage, req, traces, fixed>>
      BY <2>4
    <3> QED
      BY <1>1, <1>3, <1>4, <2>4, <3>1, <3>3, <3>4, <3>5, <3>6, GoesOn
  <2>5. CASE TaskGivesUp(q, i)
    BY <1>3, <1>4, <2>5, GivesUp
  <2> QED
    BY <1>6, <2>3, <2>4, <2>5
<1> QED
  BY <1>1, <1>5, <1>6 DEF TaskRecall

LEMMA RewriteStep ==
    ASSUME QInv, NEW q \in Query, req[q].phase = "agent", UNCHANGED <<req, traces, fixed>>,
           NEW i \in DOMAIN agent[q].plan, TaskRewrite(q, i)
    PROVE  QInv'
<1>1. PICK old : old = agent[q].plan[i]
  OBVIOUS
<1>2. old \in Task
  BY <1>1, RunningTask
<1>3. Executing(q) /\ agent[q].plan[i].phase \notin {"done", "raised"}
  BY DEF TaskRewrite
<1>4. CASE SetTask(q, i, [old EXCEPT !.phase = "again"]) /\ UNCHANGED usage
  <2>1. PICK task : task = [old EXCEPT !.phase = "again"]
    OBVIOUS
  <2>2. task \in Task
    BY <1>2, <2>1 DEF Task
  <2>3. task.phase = "again" /\ task.text = old.text
    BY <1>2, <2>1 DEF Task
  <2>4. task.no_data = old.no_data
    BY <1>2, <2>1, Zenon DEF Task
  <2>5. UNCHANGED <<usage, req, traces, fixed>>
    BY <1>4
  <2> QED
    BY <1>1, <1>3, <1>4, <2>1, <2>2, <2>3, <2>4, <2>5, GoesOn
<1>5. CASE TaskGivesUp(q, i)
  BY <1>3, <1>5, GivesUp
<1> QED
  BY <1>1, <1>4, <1>5 DEF TaskRewrite

LEMMA AnswerStep ==
    ASSUME QInv, NEW q \in Query, req[q].phase = "agent", UNCHANGED <<req, traces, fixed>>,
           NEW i \in DOMAIN agent[q].plan, TaskAnswer(q, i)
    PROVE  QInv'
<1>1. PICK old : old = agent[q].plan[i]
  OBVIOUS
<1>2. old \in Task
  BY <1>1, RunningTask
<1>3. Executing(q) /\ agent[q].plan[i].phase \notin {"done", "raised"}
  BY DEF TaskAnswer
<1>4. CASE TaskRaises(q, i)
  BY <1>3, <1>4, Raises
<1>5. ASSUME NEW text \in {Empty, "text"},
             SetTask(q, i, [old EXCEPT !.phase = "done", !.text = text]),
             usage' = usage + (IF text = Empty THEN 0 ELSE UsagePerCall)
      PROVE  QInv'
  <2>1. PICK task : task = [old EXCEPT !.phase = "done", !.text = text]
    OBVIOUS
  <2>2. task \in Task
    BY <1>2, <1>5, <2>1 DEF Task
  <2>3. task.phase = "done" /\ task.text = text
    BY <1>2, <2>1 DEF Task
  <2>4. GoodTask(task)
    BY <2>3 DEF GoodTask
  <2>5. usage \in Nat
    BY DEF QInv, TypeOK
  <2>6. \/ task.text \in {Empty, NoData} /\ usage' = usage
        \/ task.text \notin {Empty, NoData} /\ usage' = usage + UsagePerCall
    <3>1. CASE text = Empty
      BY <1>5, <2>3, <2>5, <3>1
    <3>2. CASE text = "text"
      <4>1. text # Empty /\ text # NoData
        BY <3>2, StringsDiffer
      <4> QED
        BY <1>5, <2>3, <4>1
    <3> QED
      BY <1>5, <3>1, <3>2
  <2> QED
    BY <1>3, <1>5, <2>1, <2>2, <2>4, <2>6, TaskMoves
<1> QED
  BY <1>1, <1>4, <1>5 DEF TaskAnswer

(* A task that raised counts as one without data, which had no text. *)
LEMMA GatheredTask ==
    ASSUME NEW old \in Task, GoodTask(old)
    PROVE  /\ Gathered(old) \in Task /\ GoodTask(Gathered(old))
           /\ Gathered(old).phase = old.phase
           /\ Gathered(old).text \in {Empty, NoData} <=> old.text \in {Empty, NoData}
<1>1. CASE old.phase = "raised"
  <2>1. PICK task : task = [old EXCEPT !.no_data = TRUE, !.text = NoData]
    OBVIOUS
  <2>2. Gathered(old) = task
    BY <1>1, <2>1 DEF Gathered
  <2>3. task \in Task
    BY <2>1 DEF Task
  <2>4. task.phase = "raised" /\ task.text = NoData /\ task.cites = old.cites
    BY <1>1, <2>1 DEF Task
  <2>5. old.cites = <<>> /\ old.text \in {Empty, NoData}
    BY <1>1 DEF GoodTask
  <2>6. GoodTask(task)
    BY <2>4, <2>5 DEF GoodTask
  <2> QED
    BY <1>1, <2>2, <2>3, <2>4, <2>5, <2>6
<1>2. CASE old.phase # "raised"
  BY <1>2 DEF Gathered
<1> QED
  BY <1>1, <1>2

LEMMA GatherStep ==
    ASSUME QInv, NEW q \in Query, req[q].phase = "agent", UNCHANGED <<req, traces, fixed>>,
           Gather(q)
    PROVE  QInv'
<1> DEFINE evs == <<"end_executor", "start_synthesis">>
<1>1. PICK b : b = agent[q]
  OBVIOUS
<1>2. b \in Agent /\ GoodAgent(b) /\ b.stage = "executor"
  BY <1>1 DEF QInv, TypeOK, AgentInv, Gather, Executing
<1>3. /\ b.plan \in Seq(Task) /\ b.budget = 0 /\ "done" \notin ToSet(b.sent)
      /\ b.sent \in Seq(Event) /\ \A j \in DOMAIN b.plan : GoodTask(b.plan[j])
  BY <1>2 DEF Agent, GoodAgent
<1>4. PICK n \in Nat : DOMAIN b.plan = 1..n /\ \A j \in 1..n : b.plan[j] \in Task
  BY <1>3, LenProperties
<1>5. PICK plan : plan = [i \in DOMAIN b.plan |-> Gathered(b.plan[i])]
  OBVIOUS
<1>6. /\ \A i \in DOMAIN plan : plan[i].phase \in {"done", "raised"}
      /\ IF \A i \in DOMAIN plan : plan[i].no_data
         THEN Degrade(q, 7002)
         ELSE Become(q, [Enter(q, "synthesis", evs) EXCEPT !.plan = plan, !.budget = @ + usage])
      /\ UNCHANGED usage
  BY <1>1, <1>5 DEF Gather
<1>7. CASE \A i \in DOMAIN plan : plan[i].no_data
  <2>1. agent[q].stage # "answered" /\ 7002 \in Int /\ UNCHANGED <<usage, req, traces, fixed>>
    BY <1>1, <1>2, <1>6
  <2> QED
    BY <1>6, <1>7, <2>1, Degrades
<1>8. CASE \E i \in DOMAIN plan : ~plan[i].no_data
  <2>1. DOMAIN plan = 1..n /\ \A i \in 1..n : plan[i] = Gathered(b.plan[i])
    BY <1>4, <1>5
  <2>2. \A i \in 1..n : /\ plan[i] \in Task /\ GoodTask(plan[i])
                        /\ plan[i].text \in {Empty, NoData} <=> b.plan[i].text \in {Empty, NoData}
    BY <1>3, <1>4, <2>1, GatheredTask
  <2>3. plan = [i \in 1..n |-> plan[i]]
    BY <1>4, <1>5
  <2>4. plan \in [1..n -> Task]
    BY <2>2, <2>3
  <2>5. plan \in Seq(Task)
    BY <2>4, SeqDef
  <2>6. PICK sent : sent = b.sent \o evs
    OBVIOUS
  <2>7. sent \in Seq(Event) /\ "done" \notin ToSet(sent)
    BY <1>3, <2>6, EventsOf, EventsAppend, ZenonT(60)
  <2>8. usage \in Nat /\ b.budget + usage = usage
    BY <1>3 DEF QInv, TypeOK
  <2>9. PICK a : a = [b EXCEPT !.stage = "synthesis", !.sent = sent, !.plan = plan, !.budget = usage]
    OBVIOUS
  <2>10. Become(q, a)
    <3>1. Become(q, [Enter(q, "synthesis", evs) EXCEPT !.plan = plan, !.budget = @ + usage])
      BY <1>6, <1>8
    <3>2. Enter(q, "synthesis", evs) = [b EXCEPT !.stage = "synthesis", !.sent = sent]
      BY <1>1, <2>6 DEF Enter
    <3>3. [b EXCEPT !.stage = "synthesis", !.sent = sent].budget = b.budget
      BY <1>2 DEF Agent
    <3>4. [[b EXCEPT !.stage = "synthesis", !.sent = sent] EXCEPT !.plan = plan,
             !.budget = @ + usage] = a
      BY <1>2, <2>8, <2>9, <3>3 DEF Agent
    <3> QED
      BY <3>1, <3>2, <3>4
  <2>11. a \in Agent
    BY <1>2, <2>5, <2>7, <2>8, <2>9 DEF Agent, Stage, After
  <2>12. a.stage = "synthesis" /\ a.sent = sent /\ a.plan = plan /\ a.budget = usage
    BY <1>2, <2>9 DEF Agent
  <2>13. a.shared = b.shared
    BY <1>2, <2>9, Zenon DEF Agent
  <2>14. HasData(a)
    BY <1>8, <2>12 DEF HasData
  <2>15. GoodAgent(a)
    BY <1>6, <2>1, <2>2, <2>7, <2>12, <2>14 DEF GoodAgent, Before, After
  <2>16. Texts(a) = Texts(b)
    BY <1>4, <2>1, <2>2, <2>12 DEF Texts
  <2>17. Counted(a)
    <3> SUFFICES ASSUME ~a.shared PROVE usage = UsagePerCall * Cardinality(Texts(b))
      BY <2>12, <2>16 DEF Counted
    <3>1. Executing(q) /\ ~agent[q].shared
      BY <1>1, <1>2, <2>13 DEF Executing
    <3> QED
      BY <1>1, <3>1, ValidIsTexts DEF QInv, UsageInv
  <2>18. UNCHANGED <<usage, req, traces, fixed>> /\ a.stage # "executor"
    BY <1>6, <2>12
  <2> QED
    BY <2>10, <2>11, <2>15, <2>17, <2>18, AgentLeaves
<1> QED
  BY <1>7, <1>8

LEMMA SynthesisStep ==
    ASSUME QInv, NEW q \in Query, req[q].phase = "agent", UNCHANGED <<req, traces, fixed>>,
           Synthesise(q)
    PROVE  QInv'
<1> DEFINE evs == <<"synthesis", "end_synthesis", "start_verifier">>
<1>1. PICK b : b = agent[q]
  OBVIOUS
<1>2. b \in Agent /\ GoodAgent(b) /\ b.stage = "synthesis"
  BY <1>1 DEF QInv, TypeOK, AgentInv, Synthesise
<1>3. /\ b.plan \in Seq(Task) /\ "done" \notin ToSet(b.sent) /\ b.sent \in Seq(Event)
      /\ \A j \in DOMAIN b.plan : GoodTask(b.plan[j]) /\ b.plan[j].phase \in {"done", "raised"}
      /\ HasData(b)
  BY <1>2 DEF Agent, GoodAgent, After
<1>4. PICK n \in Nat : DOMAIN b.plan = 1..n /\ \A j \in 1..n : b.plan[j] \in Task
  BY <1>3, LenProperties
<1>5. UNCHANGED <<usage, req, traces, fixed>>
  BY DEF Synthesise
<1>6. CASE Degrade(q, Unexpected)
  <2>1. agent[q].stage # "answered" /\ Unexpected \in Int
    BY <1>1, <1>2 DEF Unexpected
  <2> QED
    BY <1>5, <1>6, <2>1, Degrades
<1>7. PICK answer : answer = IF Valid(q) = {} THEN Unable ELSE "text"
  OBVIOUS
<1>8. PICK shown : shown = [i \in DOMAIN b.plan |-> b.plan[i].cites]
  OBVIOUS
<1>9. CASE Become(q, [Enter(q, "verifier", evs) EXCEPT !.answer = answer,
                                                       !.cites = FlattenSeq(shown)])
  <2>1. DOMAIN shown = 1..n /\ \A i \in 1..n : shown[i] = b.plan[i].cites /\ shown[i] \in Seq(Chunk)
    BY <1>4, <1>8 DEF Task
  <2>2. shown = [i \in 1..n |-> shown[i]]
    BY <1>4, <1>8
  <2>3. shown \in [1..n -> Seq(Chunk)]
    BY <2>1, <2>2
  <2>4. shown \in Seq(Seq(Chunk))
    BY <2>3, SeqDef
  <2>5. PICK cites : cites = FlattenSeq(shown)
    OBVIOUS
  <2>6. /\ cites \in Seq(Chunk)
        /\ \A c \in ToSet(cites) : \E i \in 1..n : c \in ToSet(b.plan[i].cites)
    BY <2>1, <2>4, <2>5, FlattenedElements
  <2>7. PICK sent : sent = b.sent \o evs
    OBVIOUS
  <2>8. sent \in Seq(Event) /\ "done" \notin ToSet(sent)
    BY <1>3, <2>7, EventsOf, EventsAppend, ZenonT(60)
  <2>9. PICK a : a = [[b EXCEPT !.stage = "verifier", !.sent = sent] EXCEPT !.answer = answer,
                                                                          !.cites = cites]
    OBVIOUS
  <2>10. Become(q, a)
    BY <1>1, <1>9, <2>5, <2>7, <2>9 DEF Enter
  <2>11. a \in Agent
    BY <1>2, <1>7, <2>6, <2>8, <2>9 DEF Agent, Stage, After
  <2>12. /\ a.stage = "verifier" /\ a.sent = sent /\ a.plan = b.plan /\ a.budget = b.budget
         /\ a.answer = answer /\ a.cites = cites
    BY <1>2, <2>9 DEF Agent
  <2>13. a.shared = b.shared
    BY <1>2, <2>9, Zenon DEF Agent
  <2>14. Cited(a)
    <3>1. \A i \in 1..n : b.plan[i].phase = "raised" => ToSet(b.plan[i].cites) = {}
      BY <1>3, <1>4, EventsOf DEF GoodTask
    <3>2. \A c \in ToSet(cites) : \E i \in 1..n :
            b.plan[i].phase = "done" /\ c \in ToSet(b.plan[i].cites)
      BY <1>3, <1>4, <2>6, <3>1
    <3> QED
      BY <1>4, <2>12, <3>2 DEF Cited
  <2>15. a.answer = "text" => HasText(a)
    <3>1. a.answer = "text" => Valid(q) # {}
      BY <1>7, <2>12, StringsDiffer
    <3> QED
      BY <1>1, <2>12, <3>1 DEF Valid, HasText
  <2>16. HasData(a)
    BY <1>3, <2>12 DEF HasData
  <2>17. GoodAgent(a)
    BY <1>3, <2>8, <2>12, <2>14, <2>15, <2>16 DEF GoodAgent, Before, After
  <2>18. Texts(a) = Texts(b)
    BY <2>12 DEF Texts
  <2>19. Counted(a)
    <3> SUFFICES ASSUME ~a.shared PROVE b.budget = UsagePerCall * Cardinality(Texts(b))
      BY <2>12, <2>18 DEF Counted
    <3>1. ~agent[q].shared /\ agent[q].stage \in After
      BY <1>1, <1>2, <2>13 DEF After
    <3> QED
      BY <1>1, <3>1, ValidIsTexts DEF QInv, UsageInv
  <2> QED
    BY <1>5, <2>10, <2>11, <2>12, <2>17, <2>19, AgentLeaves
<1> QED
  BY <1>1, <1>6, <1>7, <1>8, <1>9 DEF Synthesise

LEMMA VerifyStep ==
    ASSUME QInv, NEW q \in Query, req[q].phase = "agent", UNCHANGED <<req, traces, fixed>>,
           Verify(q)
    PROVE  QInv'
<1> DEFINE evs == <<"end_verifier", "done">>
<1>1. PICK b : b = agent[q]
  OBVIOUS
<1>2. b \in Agent /\ GoodAgent(b) /\ b.stage = "verifier"
  BY <1>1 DEF QInv, TypeOK, AgentInv, Verify
<1>3. UNCHANGED <<usage, req, traces, fixed>>
  BY DEF Verify
<1>4. agent[q].stage # "answered" /\ Unexpected \in Int /\ 7003 \in Int
  BY <1>1, <1>2 DEF Unexpected
<1>5. CASE Degrade(q, Unexpected) \/ Degrade(q, 7003)
  BY <1>3, <1>4, <1>5, Degrades
<1>6. CASE Become(q, [Enter(q, "answered", evs) EXCEPT !.verified = TRUE])
  <2>1. b.sent \in Seq(Event)
    BY <1>2 DEF Agent
  <2>2. PICK sent : sent = b.sent \o evs
    OBVIOUS
  <2>3. sent \in Seq(Event) /\ "done" \in ToSet(sent)
    BY <2>1, <2>2, EventsOf, EventsAppend
  <2>4. PICK a : a = [[b EXCEPT !.stage = "answered", !.sent = sent] EXCEPT !.verified = TRUE]
    OBVIOUS
  <2>5. Become(q, a)
    BY <1>1, <1>6, <2>2, <2>4 DEF Enter
  <2>6. a \in Agent
    BY <1>2, <2>3, <2>4 DEF Agent, Stage, After
  <2>7. /\ a.stage = "answered" /\ a.sent = sent /\ a.plan = b.plan /\ a.budget = b.budget
        /\ a.answer = b.answer /\ a.cites = b.cites
    BY <1>2, <2>4 DEF Agent
  <2>8. (a.shared <=> b.shared) /\ a.verified
    BY <1>2, <2>4, Zenon DEF Agent
  <2>9. Cited(a) /\ HasData(a) /\ (a.answer = "text" => HasText(a))
    <3>1. Cited(b) /\ HasData(b) /\ (b.answer = "text" => HasText(b))
      BY <1>2 DEF GoodAgent
    <3> QED
      BY <2>7, <3>1 DEF Cited, HasData, HasText
  <2>10. \A i \in DOMAIN b.plan : GoodTask(b.plan[i]) /\ b.plan[i].phase \in {"done", "raised"}
    BY <1>2 DEF GoodAgent, After
  <2>11. GoodAgent(a)
    BY <2>3, <2>7, <2>8, <2>9, <2>10 DEF GoodAgent, Before, After
  <2>12. Texts(a) = Texts(b)
    BY <2>7 DEF Texts
  <2>13. Counted(a)
    <3> SUFFICES ASSUME ~a.shared PROVE b.budget = UsagePerCall * Cardinality(Texts(b))
      BY <2>7, <2>12 DEF Counted
    <3>1. ~agent[q].shared /\ agent[q].stage \in After
      BY <1>1, <1>2, <2>8 DEF After
    <3> QED
      BY <1>1, <3>1, ValidIsTexts DEF QInv, UsageInv
  <2> QED
    BY <1>3, <2>5, <2>6, <2>7, <2>11, <2>13, AgentLeaves
<1> QED
  BY <1>5, <1>6 DEF Verify

LEMMA EarlySteps ==
    ASSUME QInv, NEW q \in Query, req[q].phase = "agent", UNCHANGED <<req, traces, fixed>>,
           IntentDecision(q) \/ ScopeDiscovery(q)
    PROVE  QInv'
<1>1. CASE IntentDecision(q)
  <2>1. UNCHANGED <<usage, req, traces, fixed>>
    BY <1>1 DEF IntentDecision
  <2>2. agent[q].stage = "intent" /\ agent[q].stage \in Before /\ 7001 \in Int
    BY <1>1 DEF IntentDecision, Before
  <2>3. CASE EmptyResult(q)
    BY <2>1, <2>2, <2>3, EmptyResults
  <2>4. CASE \E next \in {"discovery", "plan"} : Become(q, Enter(q, next, <<>>))
    BY <2>1, <2>2, <2>4, EntersEarly
  <2>5. CASE Degrade(q, 7001)
    BY <2>1, <2>2, <2>5, Degrades
  <2> QED
    BY <1>1, <2>3, <2>4, <2>5 DEF IntentDecision
<1>2. CASE ScopeDiscovery(q)
  BY <1>2, EntersEarly DEF ScopeDiscovery
<1> QED
  BY <1>1, <1>2

LEMMA AgentRunsStep ==
    ASSUME QInv, NEW q \in Query, AgentRuns(q)
    PROVE  QInv'
<1>1. req[q].phase = "agent" /\ UNCHANGED <<req, traces, fixed>> /\ AgentStep(dep, q)
  BY DEF AgentRuns
<1>2. CASE \E i \in DOMAIN agent[q].plan :
             TaskRecall(dep, q, i) \/ TaskRewrite(q, i) \/ TaskAnswer(q, i)
  BY <1>1, <1>2, RecallStep, RewriteStep, AnswerStep
<1>3. CASE IntentDecision(q) \/ ScopeDiscovery(q)
  BY <1>1, <1>3, EarlySteps
<1>4. CASE AnswerPlan(q)
  BY <1>1, <1>4, PlanStep
<1>5. CASE Gather(q)
  BY <1>1, <1>5, GatherStep
<1>6. CASE Synthesise(q)
  BY <1>1, <1>6, SynthesisStep
<1>7. CASE Verify(q)
  BY <1>1, <1>7, VerifyStep
<1> QED
  BY <1>1, <1>2, <1>3, <1>4, <1>5, <1>6, <1>7 DEF AgentStep
--------------------------------------------------------------------------------
(* What an error is answered with. *)
LEMMA ErrorStatus ==
    ASSUME NEW exc \in EmbedErrors \cup LlmErrors
                        \cup {"ConfigError", "FilterValidationError", Unhandled}
    PROVE  ErrorResponse(exc).status \in Nat /\ ErrorResponse(exc).status >= 400
<1>1. \A code \in Nat : code \notin {2004, 4002, 7003} =>
        HttpStatus(code) \in Nat /\ HttpStatus(code) >= 400
  BY DEF HttpStatus
<1>2. /\ {"ConfigError", "FilterValidationError", "RateLimitError"} \subseteq DOMAIN RequestErrors
      /\ RequestErrors["ConfigError"] = 9003 /\ RequestErrors["FilterValidationError"] = 4003
      /\ RequestErrors["RateLimitError"] = 1004
  BY DEF RequestErrors
<1>3. {"LLMError", "PluginContractError", "AllProvidersFailedError", "CircuitOpenError"}
        \cap DOMAIN RequestErrors = {}
  BY DEF RequestErrors
<1>4. /\ {"LLMError", "PluginContractError", "AllProvidersFailedError", "CircuitOpenError"}
           \subseteq DOMAIN SystemErrors
      /\ SystemErrors["LLMError"] = 6000 /\ SystemErrors["PluginContractError"] = 9004
      /\ SystemErrors["AllProvidersFailedError"] = 6001 /\ SystemErrors["CircuitOpenError"] = 6002
  BY DEF SystemErrors
<1>5. CASE exc = Unhandled
  BY <1>5 DEF ErrorResponse
<1>6. CASE exc \in {"ConfigError", "FilterValidationError", "RateLimitError"}
  <2>1. DefaultCode[exc] = RequestErrors[exc]
    BY <1>2, <1>6 DEF DefaultCode
  <2>2. DefaultCode[exc] \in {9003, 4003, 1004} /\ exc # Unhandled
    BY <1>2, <1>6, <2>1 DEF Unhandled
  <2> QED
    BY <1>1, <2>2 DEF ErrorResponse
<1>7. CASE exc \in {"LLMError", "PluginContractError", "AllProvidersFailedError",
                    "CircuitOpenError"}
  <2>1. DefaultCode[exc] = SystemErrors[exc]
    BY <1>3, <1>4, <1>7 DEF DefaultCode
  <2>2. DefaultCode[exc] \in {6000, 9004, 6001, 6002} /\ exc # Unhandled
    BY <1>4, <1>7, <2>1 DEF Unhandled
  <2> QED
    BY <1>1, <2>2 DEF ErrorResponse
<1> QED
  BY <1>5, <1>6, <1>7 DEF EmbedErrors, LlmErrors

(* A step of q's request, with what it leaves of the workflow. *)
LEMMA RequestMoves ==
    ASSUME QInv, NEW q \in Query, usage' = usage, UNCHANGED fixed,
           NEW a \in Agent, GoodAgent(a), agent' = [agent EXCEPT ![q] = a],
           a = agent[q] \/ (a.stage # "executor" /\ Counted(a)),
           NEW r \in Progress, req' = [req EXCEPT ![q] = r],
           traces' \in [Query \cup {NoId} -> Trace], \A o \in Query \ {q} : traces'[o] = traces[o],
           Told(r, a), Traced(q, r, traces'[q]), Sound(q, r)
    PROVE  QInv'
<1>1. agent \in [Query -> Agent] /\ req \in [Query -> Progress] /\ usage \in Nat
  BY DEF QInv, TypeOK
<1>2. /\ agent' \in [Query -> Agent] /\ agent'[q] = a
      /\ \A o \in Query \ {q} : agent'[o] = agent[o]
  BY <1>1
<1>3. /\ req' \in [Query -> Progress] /\ req'[q] = r
      /\ \A o \in Query \ {q} : req'[o] = req[o]
  BY <1>1
<1>4. UsageInv'
  <2>1. CASE a = agent[q]
    <3>1. Counted(a) /\ (a.stage = "executor" /\ ~a.shared => usage = UsagePerCall * Cardinality(Texts(a)))
      BY <2>1, ValidIsTexts DEF QInv, UsageInv, Counted, Executing
    <3> QED
      BY <2>1, <3>1, UsageFrame
  <2>2. CASE a.stage # "executor" /\ Counted(a)
    BY <2>2, UsageFrame
  <2> QED
    BY <2>1, <2>2
<1>5. /\ GoodAgent(agent'[q]) /\ Told(req'[q], agent'[q])
      /\ Traced(q, req'[q], traces'[q]) /\ Sound(q, req'[q])
  BY <1>2, <1>3
<1> QED
  BY <1>1, <1>2, <1>3, <1>4, <1>5, Frame

(* The same where neither the workflow nor a trace changes. *)
LEMMA RequestAlone ==
    ASSUME QInv, NEW q \in Query, UNCHANGED <<agentVars, traces, fixed>>,
           NEW r \in Progress, req' = [req EXCEPT ![q] = r],
           Told(r, agent[q]), Traced(q, r, traces[q]), Sound(q, r)
    PROVE  QInv'
<1>1. agent' = agent /\ usage' = usage /\ traces' = traces /\ UNCHANGED fixed
  BY DEF agentVars
<1>2. PICK a : a = agent[q]
  OBVIOUS
<1>3. a \in Agent /\ GoodAgent(a) /\ agent' = [agent EXCEPT ![q] = a]
  BY <1>1, <1>2 DEF QInv, TypeOK, AgentInv
<1>4. traces' \in [Query \cup {NoId} -> Trace] /\ \A o \in Query \ {q} : traces'[o] = traces[o]
  BY <1>1 DEF QInv, TypeOK
<1>5. Told(r, a) /\ Traced(q, r, traces'[q])
  BY <1>1, <1>2
<1> QED
  BY <1>1, <1>2, <1>3, <1>4, <1>5, RequestMoves

LEMMA RequestOf ==
    ASSUME QInv, NEW q \in Query
    PROVE  /\ req[q] \in Progress /\ Told(req[q], agent[q]) /\ Traced(q, req[q], traces[q])
           /\ Sound(q, req[q]) /\ ask[q] \in Request /\ ask[q].kb \in KB /\ ask[q].text \in Text
<1>1. /\ req[q] \in Progress /\ Told(req[q], agent[q]) /\ Traced(q, req[q], traces[q])
      /\ Sound(q, req[q])
  BY DEF QInv, TypeOK, AnswerInv, TraceInv, GroundInv
<1>2. ask[q] \in Request
  BY WorkloadsConstant DEF QInv, TypeOK
<1> QED
  BY <1>1, <1>2 DEF Request

LEMMA NewRequestType == NewRequest \in Progress
<1>1. Empty \in Mode /\ "new" \in Phase /\ <<>> \in Seq(Chunk)
  BY EmptySeq DEF Mode, Phase
<1> QED
  BY <1>1 DEF NewRequest, Progress

LEMMA Fails ==
    ASSUME QInv, NEW q \in Query, req[q].phase # "done",
           NEW exc \in EmbedErrors \cup LlmErrors
                        \cup {"ConfigError", "FilterValidationError", Unhandled},
           Fail(q, exc)
    PROVE  QInv'
<1>1. PICK status : status = ErrorResponse(exc).status
  OBVIOUS
<1>2. status \in Nat /\ status >= 400
  BY <1>1, ErrorStatus
<1>3. PICK r : r = [NewRequest EXCEPT !.phase = "failed", !.status = status]
  OBVIOUS
<1>4. r \in Progress
  <2>1. "failed" \in Phase
    BY DEF Phase
  <2> QED
    BY <1>2, <1>3, <2>1, NewRequestType DEF Progress
<1>5. /\ r.phase = "failed" /\ r.mode = Empty /\ r.cites = <<>> /\ r.reason = 0 /\ r.status = status
      /\ ~r.saved /\ ~r.degraded
  <2>1. r.phase = "failed" /\ r.mode = Empty /\ r.cites = <<>> /\ r.reason = 0 /\ r.status = status
    BY <1>3 DEF NewRequest
  <2>2. ~r.saved /\ ~r.degraded
    BY <1>3 DEF NewRequest
  <2> QED
    BY <2>1, <2>2
<1>6. NoAgent \in Agent /\ GoodAgent(NoAgent) /\ Counted(NoAgent) /\ NoAgent.stage # "executor"
  BY NoAgentIsGood DEF NoAgent
<1>7. /\ agent' = [agent EXCEPT ![q] = NoAgent] /\ req' = [req EXCEPT ![q] = r]
      /\ usage' = usage /\ traces' = traces /\ UNCHANGED fixed
  BY <1>1, <1>3 DEF Fail
<1>8. Told(r, NoAgent)
  BY <1>5 DEF Told
<1>9. Traced(q, r, traces'[q])
  <2>1. ~req[q].saved /\ traces[q] = NoTrace
    BY RequestOf DEF Traced
  <2> QED
    BY <1>2, <1>5, <1>7, <2>1 DEF Traced
<1>10. Sound(q, r)
  <2>1. Empty # "standard" /\ ToSet(<<>>) = {}
    BY EventsOf DEF Empty
  <2> QED
    BY <1>5, <2>1 DEF Sound
<1>11. traces' \in [Query \cup {NoId} -> Trace] /\ \A o \in Query \ {q} : traces'[o] = traces[o]
  BY <1>7 DEF QInv, TypeOK
<1> QED
  BY <1>4, <1>6, <1>7, <1>8, <1>9, <1>10, <1>11, RequestMoves

LEMMA ChatStep ==
    ASSUME QInv, NEW q \in Query, Chat(q)
    PROVE  QInv'
<1>1. PICK old : old = req[q]
  OBVIOUS
<1>2. /\ old \in Progress /\ Told(old, agent[q]) /\ Traced(q, old, traces[q]) /\ Sound(q, old)
      /\ ask[q].text \in Text
  BY <1>1, RequestOf
<1>3. old.phase = "new" /\ ask[q].route # "search" /\ req[q].phase # "done"
  BY <1>1 DEF Chat
<1>4. /\ old.reason = 0 /\ old.mode # "agentic" /\ ~old.saved /\ ~old.degraded
      /\ traces[q] = NoTrace /\ (old.mode = "standard" => Grounded(ask[q].kb, old.cites))
  BY <1>2, <1>3 DEF Told, Traced, Sound
<1>5. CASE \E exc \in EmbedErrors \cup {"ConfigError"} : Fail(q, exc)
  BY <1>3, <1>5, Fails
<1>6. CASE /\ StartAgent(q, ask[q].text)
           /\ req' = [req EXCEPT ![q].phase = "agent"]
           /\ UNCHANGED <<traces, fixed>>
  <2>1. PICK r : r = [old EXCEPT !.phase = "agent"]
    OBVIOUS
  <2>2. r \in Progress /\ r.phase = "agent" /\ r.mode = old.mode /\ r.cites = old.cites
        /\ r.reason = old.reason
    BY <1>2, <2>1 DEF Progress, Phase
  <2>3. r.saved = old.saved /\ r.degraded = old.degraded
    BY <1>2, <2>1, Zenon DEF Progress
  <2>4. PICK a : a = [NoAgent EXCEPT !.stage = "intent", !.text = ask[q].text,
                                     !.sent = <<"start_planner">>]
    OBVIOUS
  <2>5. a \in Agent
    BY <1>2, <2>4, NoAgentIsGood, EventsOf DEF Agent, Stage, Before
  <2>6. /\ a.stage = "intent" /\ a.text = ask[q].text /\ a.sent = <<"start_planner">>
        /\ a.plan = <<>> /\ a.budget = 0 /\ a.cites = <<>>
    BY <2>4 DEF NoAgent
  <2>7. \A i : i \notin DOMAIN <<>>
    OBVIOUS
  <2>8. GoodAgent(a)
    BY <1>2, <2>6, <2>7, EventsOf DEF GoodAgent, Before, After
  <2>9. Counted(a) /\ a.stage # "executor"
    BY <2>6 DEF Counted, After
  <2>10. agent' = [agent EXCEPT ![q] = a] /\ usage' = usage /\ traces' = traces /\ UNCHANGED fixed
    BY <1>6, <2>4 DEF StartAgent, Become
  <2>11. req' = [req EXCEPT ![q] = r]
    BY <1>1, <1>6, <2>1
  <2>12. Told(r, a)
    BY <1>4, <2>2 DEF Told
  <2>13. Traced(q, r, traces[q])
    BY <1>4, <2>2, <2>3 DEF Traced
  <2>14. Sound(q, r)
    BY <1>3, <1>4, <2>2 DEF Sound
  <2>15. traces' \in [Query \cup {NoId} -> Trace] /\ \A o \in Query \ {q} : traces'[o] = traces[o]
    BY <2>10 DEF QInv, TypeOK
  <2> QED
    BY <2>2, <2>5, <2>8, <2>9, <2>10, <2>11, <2>12, <2>13, <2>14, <2>15, RequestMoves
<1>7. CASE /\ req' = [req EXCEPT ![q].phase = "retrieve"]
           /\ UNCHANGED <<agentVars, traces, fixed>>
  <2>1. PICK r : r = [old EXCEPT !.phase = "retrieve"]
    OBVIOUS
  <2>2. r \in Progress /\ r.phase = "retrieve" /\ r.mode = old.mode /\ r.cites = old.cites
    BY <1>2, <2>1 DEF Progress, Phase
  <2>3. r.saved = old.saved /\ r.degraded = old.degraded
    BY <1>2, <2>1, Zenon DEF Progress
  <2>4. req' = [req EXCEPT ![q] = r]
    BY <1>1, <1>7, <2>1
  <2>5. Told(r, agent[q])
    BY <1>4, <2>2 DEF Told
  <2>6. Traced(q, r, traces[q])
    BY <1>4, <2>2, <2>3 DEF Traced
  <2>7. Sound(q, r)
    BY <1>3, <1>4, <2>2 DEF Sound
  <2> QED
    BY <1>7, <2>2, <2>4, <2>5, <2>6, <2>7, RequestAlone
<1>8. CASE /\ req' = [req EXCEPT ![q].phase = "flush", ![q].mode = "fast"]
           /\ UNCHANGED <<agentVars, traces, fixed>>
  <2>1. PICK r : r = [old EXCEPT !.phase = "flush", !.mode = "fast"]
    OBVIOUS
  <2>2. r \in Progress /\ r.phase = "flush" /\ r.mode = "fast"
    BY <1>2, <2>1 DEF Progress, Phase, Mode
  <2>3. r.saved = old.saved /\ r.degraded = old.degraded
    BY <1>2, <2>1, Zenon DEF Progress
  <2>4. req' = [req EXCEPT ![q] = r]
    BY <1>1, <1>8, <2>1 DEF QInv, TypeOK
  <2>5. Told(r, agent[q])
    BY <2>2 DEF Told
  <2>6. Traced(q, r, traces[q])
    BY <1>4, <2>2, <2>3 DEF Traced
  <2>7. Sound(q, r)
    BY <1>3, <2>2 DEF Sound
  <2> QED
    BY <1>8, <2>2, <2>4, <2>5, <2>6, <2>7, RequestAlone
<1> QED
  BY <1>5, <1>6, <1>7, <1>8 DEF Chat

LEMMA ReturnStep ==
    ASSUME QInv, NEW q \in Query, AgentReturns(q)
    PROVE  QInv'
<1>1. PICK old : old = req[q]
  OBVIOUS
<1>2. /\ old \in Progress /\ Told(old, agent[q]) /\ Traced(q, old, traces[q]) /\ Sound(q, old)
  BY <1>1, RequestOf
<1>3. old.phase = "agent" /\ UNCHANGED <<agentVars, traces, fixed>>
  BY <1>1 DEF AgentReturns
<1>4. /\ old.reason = 0 /\ old.mode # "agentic" /\ ~old.saved /\ ~old.degraded
      /\ traces[q] = NoTrace /\ (old.mode = "standard" => Grounded(ask[q].kb, old.cites))
      /\ ask[q].route # "search"
  BY <1>2, <1>3 DEF Told, Traced, Sound
<1>5. agent[q] \in Agent
  BY DEF QInv, TypeOK
<1>6. CASE /\ agent[q].stage = "answered"
           /\ req' = [req EXCEPT ![q].phase = "flush", ![q].mode = "agentic",
                                 ![q].answer = agent[q].answer, ![q].cites = agent[q].cites]
  <2>1. PICK r : r = [old EXCEPT !.phase = "flush", !.mode = "agentic",
                                 !.answer = agent[q].answer, !.cites = agent[q].cites]
    OBVIOUS
  <2>2. agent[q].answer \in {Empty, "text", Unable} /\ agent[q].cites \in Seq(Chunk)
    BY <1>5 DEF Agent
  <2>3. r \in Progress
    BY <1>2, <2>1, <2>2 DEF Progress, Phase, Mode
  <2>4. /\ r.phase = "flush" /\ r.mode = "agentic" /\ r.reason = 0
        /\ r.answer = agent[q].answer /\ r.cites = agent[q].cites
    BY <1>2, <1>4, <2>1 DEF Progress
  <2>5. r.saved = old.saved /\ r.degraded = old.degraded
    BY <1>2, <2>1, Zenon DEF Progress
  <2>6. req' = [req EXCEPT ![q] = r]
    BY <1>1, <1>6, <2>1 DEF QInv, TypeOK
  <2>7. Told(r, agent[q])
    BY <1>6, <2>4 DEF Told
  <2>8. Traced(q, r, traces[q])
    BY <1>4, <2>4, <2>5 DEF Traced
  <2>9. Sound(q, r)
    BY <1>4, <2>4 DEF Sound
  <2> QED
    BY <1>3, <2>3, <2>6, <2>7, <2>8, <2>9, RequestAlone
<1>7. ASSUME NEW embedded \in BOOLEAN,
             req' = [req EXCEPT ![q].phase = "retrieve",
                                ![q].qvec = embedded, ![q].reason = agent[q].reason]
      PROVE  QInv'
  <2>1. PICK r : r = [old EXCEPT !.phase = "retrieve", !.qvec = embedded,
                                 !.reason = agent[q].reason]
    OBVIOUS
  <2>2. agent[q].reason \in Int
    BY <1>5 DEF Agent
  <2>3. r \in Progress
    BY <1>2, <2>1, <2>2 DEF Progress, Phase
  <2>4. r.phase = "retrieve" /\ r.mode = old.mode /\ r.cites = old.cites
    BY <1>2, <2>1 DEF Progress
  <2>5. r.saved = old.saved /\ r.degraded = old.degraded
    BY <1>2, <2>1, Zenon DEF Progress
  <2>6. req' = [req EXCEPT ![q] = r]
    BY <1>1, <1>7, <2>1 DEF QInv, TypeOK
  <2>7. Told(r, agent[q])
    BY <1>4, <2>4 DEF Told
  <2>8. Traced(q, r, traces[q])
    BY <1>4, <2>4, <2>5 DEF Traced
  <2>9. Sound(q, r)
    BY <1>4, <2>4 DEF Sound
  <2> QED
    BY <1>3, <2>3, <2>6, <2>7, <2>8, <2>9, RequestAlone
<1> QED
  BY <1>6, <1>7 DEF AgentReturns

LEMMA RetrieveStep ==
    ASSUME QInv, NEW q \in Query, RetrieveContext(q)
    PROVE  QInv'
<1>1. PICK old : old = req[q]
  OBVIOUS
<1>2. /\ old \in Progress /\ Traced(q, old, traces[q]) /\ Sound(q, old)
      /\ ask[q].kb \in KB /\ ask[q].text \in Text
  BY <1>1, RequestOf
<1>3. old.phase = "retrieve" /\ req[q].phase # "done"
  BY <1>1 DEF RetrieveContext
<1>4. ~old.saved /\ ~old.degraded /\ traces[q] = NoTrace /\ ask[q].route # "search"
  BY <1>2, <1>3 DEF Traced, Sound
<1>5. CASE Fail(q, Unhandled)
  BY <1>3, <1>5, Fails
<1>6. ASSUME NEW shown \in Contexts[dep][ask[q].kb][ask[q].text][req[q].qvec],
             req' = [req EXCEPT
                    ![q].phase = IF shown.found THEN "generate" ELSE "flush",
                    ![q].mode = "standard", ![q].qvec = TRUE,
                    ![q].answer = IF shown.found THEN Empty ELSE Unable,
                    ![q].cites = shown.cites],
             UNCHANGED <<agentVars, traces, fixed>>
      PROVE  QInv'
  <2>1. dep \in Deployments /\ req[q].qvec \in BOOLEAN
    BY <1>1, <1>2 DEF QInv, TypeOK, Progress
  <2>2. shown.cites \in Seq(Chunk) /\ Grounded(ask[q].kb, shown.cites)
    BY <1>2, <1>6, <2>1, ContextsGrounded
  <2>3. PICK phase, answer : /\ phase = IF shown.found THEN "generate" ELSE "flush"
                             /\ answer = IF shown.found THEN Empty ELSE Unable
    OBVIOUS
  <2>4. phase \in {"generate", "flush"} /\ answer \in {Empty, "text", Unable}
    BY <2>3
  <2>5. PICK r : r = [old EXCEPT !.phase = phase, !.mode = "standard", !.qvec = TRUE,
                                 !.answer = answer, !.cites = shown.cites]
    OBVIOUS
  <2>6. r \in Progress
    BY <1>2, <2>2, <2>4, <2>5 DEF Progress, Phase, Mode
  <2>7. r.phase = phase /\ r.mode = "standard" /\ r.cites = shown.cites
    BY <1>2, <2>5 DEF Progress
  <2>8. r.saved = old.saved /\ r.degraded = old.degraded
    BY <1>2, <2>5, Zenon DEF Progress
  <2>9. req' = [req EXCEPT ![q] = r]
    BY <1>1, <1>6, <2>3, <2>5 DEF QInv, TypeOK
  <2>10. Told(r, agent[q])
    BY <2>4, <2>7 DEF Told
  <2>11. Traced(q, r, traces[q])
    BY <1>4, <2>4, <2>7, <2>8 DEF Traced
  <2>12. Sound(q, r)
    BY <1>4, <2>2, <2>4, <2>7 DEF Sound
  <2> QED
    BY <1>6, <2>6, <2>9, <2>10, <2>11, <2>12, RequestAlone
<1> QED
  BY <1>5, <1>6 DEF RetrieveContext

LEMMA GenerateStep ==
    ASSUME QInv, NEW q \in Query, Generate(q)
    PROVE  QInv'
<1>1. PICK old : old = req[q]
  OBVIOUS
<1>2. /\ old \in Progress /\ Told(old, agent[q]) /\ Traced(q, old, traces[q]) /\ Sound(q, old)
  BY <1>1, RequestOf
<1>3. old.phase = "generate" /\ req[q].phase # "done"
  BY <1>1 DEF Generate
<1>4. /\ old.mode # "agentic" /\ ~old.saved /\ ~old.degraded /\ traces[q] = NoTrace
      /\ (old.mode = "standard" => Grounded(ask[q].kb, old.cites)) /\ ask[q].route # "search"
  BY <1>2, <1>3 DEF Told, Traced, Sound
<1>5. CASE \E exc \in LlmErrors \cup {Unhandled} : Fail(q, exc)
  BY <1>3, <1>5, Fails
<1>6. CASE /\ req' = [req EXCEPT ![q].phase = "flush", ![q].answer = "text"]
           /\ UNCHANGED <<agentVars, traces, fixed>>
  <2>1. PICK r : r = [old EXCEPT !.phase = "flush", !.answer = "text"]
    OBVIOUS
  <2>2. r \in Progress /\ r.phase = "flush" /\ r.mode = old.mode /\ r.cites = old.cites
    BY <1>2, <2>1 DEF Progress, Phase
  <2>3. r.saved = old.saved /\ r.degraded = old.degraded
    BY <1>2, <2>1, Zenon DEF Progress
  <2>4. req' = [req EXCEPT ![q] = r]
    BY <1>1, <1>6, <2>1 DEF QInv, TypeOK
  <2>5. Told(r, agent[q])
    BY <1>4, <2>2 DEF Told
  <2>6. Traced(q, r, traces[q])
    BY <1>4, <2>2, <2>3 DEF Traced
  <2>7. Sound(q, r)
    BY <1>4, <2>2 DEF Sound
  <2> QED
    BY <1>6, <2>2, <2>4, <2>5, <2>6, <2>7, RequestAlone
<1> QED
  BY <1>5, <1>6 DEF Generate

LEMMA SearchStep ==
    ASSUME QInv, NEW q \in Query, Search(q)
    PROVE  QInv'
<1>1. PICK old : old = req[q]
  OBVIOUS
<1>2. /\ old \in Progress /\ Told(old, agent[q]) /\ Traced(q, old, traces[q]) /\ Sound(q, old)
  BY <1>1, RequestOf
<1>3. old.phase = "new" /\ ask[q].route = "search" /\ req[q].phase # "done"
  BY <1>1 DEF Search
<1>4. CASE \E exc \in EmbedErrors \cup {"FilterValidationError"} : Fail(q, exc)
  BY <1>3, <1>4, Fails
<1>5. CASE /\ ValidFilter(ask[q].filter)
           /\ req' = [req EXCEPT ![q].phase = "search"]
           /\ UNCHANGED <<agentVars, traces, fixed>>
  <2>1. PICK r : r = [old EXCEPT !.phase = "search"]
    OBVIOUS
  <2>2. r \in Progress /\ r.phase = "search" /\ r.mode = old.mode /\ r.cites = old.cites
    BY <1>2, <2>1 DEF Progress, Phase
  <2>3. r.saved = old.saved /\ r.degraded = old.degraded
    BY <1>2, <2>1, Zenon DEF Progress
  <2>4. req' = [req EXCEPT ![q] = r]
    BY <1>1, <1>5, <2>1 DEF QInv, TypeOK
  <2>5. /\ old.mode = Empty /\ ~old.saved /\ ~old.degraded /\ traces[q] = NoTrace
        /\ \A c \in ToSet(old.cites) : Fits(ask[q], c)
    BY <1>2, <1>3 DEF Traced, Sound
  <2>6. Empty # "agentic" /\ Empty # "standard"
    BY DEF Empty
  <2>7. Told(r, agent[q])
    BY <2>2, <2>5, <2>6 DEF Told
  <2>8. Traced(q, r, traces[q])
    BY <2>2, <2>3, <2>5 DEF Traced
  <2>9. Sound(q, r)
    BY <1>3, <1>5, <2>2, <2>5, <2>6 DEF Sound
  <2> QED
    BY <1>5, <2>2, <2>4, <2>7, <2>8, <2>9, RequestAlone
<1> QED
  BY <1>4, <1>5 DEF Search

LEMMA ResultsStep ==
    ASSUME QInv, NEW q \in Query, SearchResults(q)
    PROVE  QInv'
<1>1. PICK old : old = req[q]
  OBVIOUS
<1>2. /\ old \in Progress /\ Traced(q, old, traces[q]) /\ Sound(q, old)
  BY <1>1, RequestOf
<1>3. old.phase = "search" /\ UNCHANGED <<agentVars, traces, fixed>>
  BY <1>1 DEF SearchResults
<1>4. /\ ask[q].route = "search" /\ old.mode = Empty /\ ValidFilter(ask[q].filter)
      /\ ~old.saved /\ traces[q] = NoTrace
  BY <1>2, <1>3 DEF Traced, Sound
<1>5. PICK found \in SearchHits[dep][ask[q]] :
        req' = [req EXCEPT ![q].phase = "done", ![q].status = 200, ![q].cites = found]
  BY DEF SearchResults
<1>6. found \in Seq(Chunk) /\ \A c \in ToSet(found) : Fits(ask[q], c)
  BY <1>4, SearchFits DEF QInv, TypeOK
<1>7. PICK r : r = [old EXCEPT !.phase = "done", !.status = 200, !.cites = found]
  OBVIOUS
<1>8. r \in Progress /\ r.phase = "done" /\ r.mode = old.mode /\ r.cites = found
  BY <1>2, <1>6, <1>7, ZenonT(60) DEF Progress, Phase
<1>9. r.saved = old.saved
  BY <1>2, <1>7, Zenon DEF Progress
<1>10. req' = [req EXCEPT ![q] = r]
  BY <1>1, <1>5, <1>7 DEF QInv, TypeOK
<1>11. Told(r, agent[q])
  BY <1>8 DEF Told
<1>12. Traced(q, r, traces[q])
  BY <1>4, <1>8, <1>9 DEF Traced
<1>13. Empty # "standard"
  BY DEF Empty
<1>14. Sound(q, r)
  BY <1>4, <1>6, <1>8, <1>13 DEF Sound
<1> QED
  BY <1>3, <1>8, <1>10, <1>11, <1>12, <1>14, RequestAlone

LEMMA FlushStep ==
    ASSUME QInv, NEW q \in Query, FlushTrace(q)
    PROVE  QInv'
<1>1. PICK old : old = req[q]
  OBVIOUS
<1>2. /\ old \in Progress /\ Told(old, agent[q]) /\ Traced(q, old, traces[q]) /\ Sound(q, old)
      /\ ask[q].kb \in KB
  BY <1>1, RequestOf
<1>3. old.phase \in {"flush", "outer"} /\ usage' = usage /\ UNCHANGED fixed
  BY <1>1 DEF FlushTrace
<1>4. /\ ~old.saved /\ traces[q] = NoTrace /\ ask[q].route # "search"
      /\ (old.mode = "standard" => Grounded(ask[q].kb, old.cites))
  BY <1>2, <1>3 DEF Traced, Sound
<1>5. traces \in [Query \cup {NoId} -> Trace] /\ NoId \notin Query
  BY WorkloadsConstant DEF QInv, TypeOK
<1>6. TraceOf(q) \in Trace
  <2>1. /\ TraceOf(q).by = q /\ TraceOf(q).kb = ask[q].kb /\ TraceOf(q).mode = old.mode
        /\ TraceOf(q).cites = old.cites
    BY <1>1 DEF TraceOf
  <2>2. TraceOf(q) = [by |-> q, kb |-> ask[q].kb, mode |-> old.mode, cites |-> old.cites,
                      degraded |-> old.degraded]
    BY <1>1 DEF TraceOf
  <2>3. old.mode \in Mode /\ old.cites \in Seq(Chunk) /\ old.degraded \in BOOLEAN
    BY <1>2 DEF Progress
  <2> QED
    BY <1>2, <2>2, <2>3 DEF Trace
<1>7. agent[q] \in Agent /\ GoodAgent(agent[q]) /\ agent \in [Query -> Agent]
  BY DEF QInv, TypeOK, AgentInv
<1>8. ASSUME NEW saved \in BOOLEAN, old.phase = "flush", Fallback(q), SaveTrace(NoId, q, saved),
             req' = [req EXCEPT ![q].phase = "outer", ![q].degraded = TRUE], agent' = agent
      PROVE  QInv'
  <2>1. PICK r : r = [old EXCEPT !.phase = "outer", !.degraded = TRUE]
    OBVIOUS
  <2>2. /\ r \in Progress /\ r.phase = "outer" /\ r.mode = old.mode /\ r.cites = old.cites
        /\ r.reason = old.reason
    BY <1>2, <2>1 DEF Progress, Phase
  <2>3. (r.saved <=> old.saved) /\ r.degraded
    BY <1>2, <2>1, Zenon DEF Progress
  <2>4. old.reason # 0 /\ old.mode # "agentic"
    BY <1>1, <1>2, <1>8 DEF Fallback, Told
  <2>5. req' = [req EXCEPT ![q] = r]
    BY <1>1, <1>8, <2>1 DEF QInv, TypeOK
  <2>6. /\ traces' \in [Query \cup {NoId} -> Trace] /\ traces'[q] = traces[q]
        /\ \A o \in Query \ {q} : traces'[o] = traces[o]
    BY <1>5, <1>6, <1>8 DEF SaveTrace
  <2>7. Told(r, agent[q])
    BY <2>2, <2>4 DEF Told
  <2>8. Traced(q, r, traces'[q])
    BY <1>4, <2>2, <2>3, <2>4, <2>6 DEF Traced
  <2>9. Sound(q, r)
    BY <1>4, <2>2 DEF Sound
  <2>10. PICK a : a = agent[q]
    OBVIOUS
  <2>11. agent' = [agent EXCEPT ![q] = a]
    BY <1>7, <1>8, <2>10
  <2> QED
    BY <1>3, <1>7, <2>2, <2>5, <2>6, <2>7, <2>8, <2>9, <2>10, <2>11, RequestMoves
<1>9. ASSUME NEW saved \in BOOLEAN,
             old.phase = "outer" \/ (old.phase = "flush" /\ ~Fallback(q)), SaveTrace(q, q, saved),
             req' = [req EXCEPT ![q].phase = "done", ![q].saved = saved, ![q].status = 200],
             agent' = [agent EXCEPT ![q] = NoAgent]
      PROVE  QInv'
  <2>1. PICK r : r = [old EXCEPT !.phase = "done", !.saved = saved, !.status = 200]
    OBVIOUS
  <2>2. /\ r \in Progress /\ r.phase = "done" /\ r.mode = old.mode /\ r.cites = old.cites
        /\ r.reason = old.reason
    BY <1>2, <2>1, ZenonT(60) DEF Progress, Phase
  <2>3. (r.saved <=> saved) /\ r.degraded = old.degraded
    BY <1>2, <2>1, Zenon DEF Progress
  <2>4. req' = [req EXCEPT ![q] = r]
    BY <1>1, <1>9, <2>1 DEF QInv, TypeOK
  <2>5. /\ traces' \in [Query \cup {NoId} -> Trace]
        /\ \A o \in Query \ {q} : traces'[o] = traces[o]
        /\ traces'[q] = IF saved THEN TraceOf(q) ELSE NoTrace
    BY <1>4, <1>5, <1>6, <1>9 DEF SaveTrace
  <2>6. Told(r, NoAgent)
    BY <2>2 DEF Told
  <2>7. old.degraded <=> old.reason # 0
    BY <1>1, <1>2, <1>9 DEF Traced, Fallback
  <2>8. TraceOf(q) = [by |-> q, kb |-> ask[q].kb, mode |-> r.mode, cites |-> r.cites,
                      degraded |-> r.degraded]
    BY <1>1, <2>2, <2>3 DEF TraceOf
  <2>9. Traced(q, r, traces'[q])
    BY <2>2, <2>3, <2>5, <2>7, <2>8 DEF Traced
  <2>10. Sound(q, r)
    BY <1>4, <2>2 DEF Sound
  <2>11. NoAgent \in Agent /\ GoodAgent(NoAgent) /\ Counted(NoAgent) /\ NoAgent.stage # "executor"
    BY NoAgentIsGood DEF NoAgent
  <2> QED
    BY <1>3, <1>9, <2>2, <2>4, <2>5, <2>6, <2>9, <2>10, <2>11, RequestMoves
<1> QED
  BY <1>1, <1>8, <1>9 DEF FlushTrace
--------------------------------------------------------------------------------
LEMMA InitQInv == Init => QInv
<1> SUFFICES ASSUME Init PROVE QInv
  OBVIOUS
<1>1. /\ agent = [q \in Query |-> NoAgent] /\ usage = 0
      /\ req = [q \in Query |-> NewRequest]
      /\ traces = [t \in Query \cup {NoId} |-> NoTrace]
      /\ ask \in Workloads /\ dep \in Deployments
  BY DEF Init, AgentInit
<1>2. NoTrace \in Trace
  <2>1. Empty \in Mode /\ <<>> \in Seq(Chunk) /\ DefaultKB \in KB
    BY EmptySeq, WorkflowConstants DEF Mode
  <2> QED
    BY <2>1 DEF NoTrace, Trace
<1>3. TypeOK
  <2>1. agent \in [Query -> Agent]
    BY <1>1, NoAgentIsGood
  <2>2. req \in [Query -> Progress]
    BY <1>1, NewRequestType
  <2>3. traces \in [Query \cup {NoId} -> Trace]
    BY <1>1, <1>2
  <2> QED
    BY <1>1, <2>1, <2>2, <2>3 DEF TypeOK
<1>4. \A q \in Query : agent[q] = NoAgent /\ req[q] = NewRequest /\ traces[q] = NoTrace
  BY <1>1
<1>5. AgentInv
  BY <1>4, NoAgentIsGood DEF AgentInv
<1>6. UsageInv
  <2>1. NoAgent.stage = "idle"
    BY DEF NoAgent
  <2>2. \A q \in Query : ~Executing(q) /\ agent[q].stage \notin After
    BY <1>4, <2>1 DEF Executing, After
  <2> QED
    BY <2>2 DEF UsageInv
<1>7. /\ NewRequest.phase = "new" /\ NewRequest.mode = Empty /\ NewRequest.cites = <<>>
      /\ NewRequest.reason = 0
  BY DEF NewRequest
<1>8. ~NewRequest.saved /\ ~NewRequest.degraded
  BY DEF NewRequest
<1>9. Empty # "agentic" /\ Empty # "standard" /\ ToSet(<<>>) = {}
  BY EventsOf DEF Empty
<1>10. AnswerInv
  BY <1>4, <1>7, <1>9 DEF AnswerInv, Told
<1>11. TraceInv
  BY <1>4, <1>7, <1>8 DEF TraceInv, Traced
<1>12. GroundInv
  BY <1>4, <1>7, <1>9 DEF GroundInv, Sound
<1> QED
  BY <1>3, <1>5, <1>6, <1>10, <1>11, <1>12 DEF QInv

LEMMA StutterQInv ==
    ASSUME QInv, UNCHANGED vars
    PROVE  QInv'
<1>1. /\ agent' = agent /\ usage' = usage /\ req' = req /\ traces' = traces
      /\ ask' = ask /\ dep' = dep
  BY DEF vars, agentVars
<1>2. TypeOK'
  BY <1>1 DEF QInv, TypeOK
<1>3. AgentInv'
  BY <1>1 DEF QInv, AgentInv
<1>4. UsageInv'
  BY <1>1 DEF QInv, UsageInv, Executing, Valid
<1>5. AnswerInv'
  BY <1>1 DEF QInv, AnswerInv
<1>6. TraceInv'
  BY <1>1 DEF QInv, TraceInv, Traced
<1>7. GroundInv'
  BY <1>1 DEF QInv, GroundInv, Sound, Fits, Inverted
<1> QED
  BY <1>2, <1>3, <1>4, <1>5, <1>6, <1>7 DEF QInv

(* What a workflow, a request and its trace hold between two steps: QInv   *)
(* is kept by every step of QueryService and of AgenticOrchestrator, one   *)
(* lemma per step.                                                         *)
THEOREM QueryInvariant == Spec => []QInv
<1>1. Init => QInv
  BY InitQInv
<1>2. QInv /\ [Next]_vars => QInv'
  <2> SUFFICES ASSUME QInv, [Next]_vars PROVE QInv'
    OBVIOUS
  <2>1. CASE UNCHANGED vars
    BY <2>1, StutterQInv
  <2>2. ASSUME NEW q \in Query, QueryStep(q) PROVE QInv'
    <3>1. CASE Chat(q)
      BY <3>1, ChatStep
    <3>2. CASE AgentRuns(q)
      BY <3>2, AgentRunsStep
    <3>3. CASE AgentReturns(q)
      BY <3>3, ReturnStep
    <3>4. CASE RetrieveContext(q)
      BY <3>4, RetrieveStep
    <3>5. CASE Generate(q)
      BY <3>5, GenerateStep
    <3>6. CASE FlushTrace(q)
      BY <3>6, FlushStep
    <3>7. CASE Search(q)
      BY <3>7, SearchStep
    <3>8. CASE SearchResults(q)
      BY <3>8, ResultsStep
    <3> QED
      BY <2>2, <3>1, <3>2, <3>3, <3>4, <3>5, <3>6, <3>7, <3>8 DEF QueryStep
  <2> QED
    BY <2>1, <2>2 DEF Next
<1> QED
  BY <1>1, <1>2, PTL DEF Spec

(* Whatever routes fail and whichever store, fusion or reranker is wired:  *)
(* a standard answer, the fallback's too, cites chunks of its knowledge    *)
(* base, none of the semantic cache, none twice, within the budget of the  *)
(* context; and no search result contradicts its filter, but for a ne in   *)
(* Qdrant's or group (_exclude_cache, HybridRetriever.retrieve,            *)
(* ContextAssembler.assemble, the stores' translations of a FilterExpr).   *)
THEOREM AnswersAreGrounded == Spec => []StandardAnswersAreGrounded
<1>1. QInv => StandardAnswersAreGrounded
  BY DEF QInv, GroundInv, Sound, Grounded, Fits, StandardAnswersAreGrounded
<1> QED
  BY <1>1, QueryInvariant, PTL

(* For any plans and any interleaving of agentic queries: an agentic answer *)
(* is the fixed one without citations, or passed the verifier, had a       *)
(* sub-task with data, and cites only what tasks that answered were shown; *)
(* done is sent for an answer and for no degraded query (_run_graph).      *)
THEOREM AgenticAnswersPassed == Spec => []AgenticAnswersAreVerified
<1>1. QInv => AgenticAnswersAreVerified
  <2> SUFFICES ASSUME QInv, NEW q \in Query
               PROVE  /\ req[q].mode = "agentic" /\ ~Finished(q) =>
                          \/ req[q].answer = Unable /\ req[q].cites = <<>> /\ agent[q].plan = <<>>
                          \/ /\ agent[q].verified
                             /\ \E i \in DOMAIN agent[q].plan : ~agent[q].plan[i].no_data
                             /\ \A c \in ToSet(req[q].cites) : \E i \in DOMAIN agent[q].plan :
                                  agent[q].plan[i].phase = "done" /\ c \in ToSet(agent[q].plan[i].cites)
                             /\ req[q].answer = "text" => Valid(q) # {}
                      /\ "done" \in ToSet(agent[q].sent) <=> agent[q].stage = "answered"
    BY DEF AgenticAnswersAreVerified
  <2>1. GoodAgent(agent[q]) /\ Told(req[q], agent[q])
    BY DEF QInv, AgentInv, AnswerInv
  <2>2. "done" \in ToSet(agent[q].sent) <=> agent[q].stage = "answered"
    BY <2>1 DEF GoodAgent
  <2>3. ASSUME req[q].mode = "agentic", ~Finished(q)
        PROVE  \/ req[q].answer = Unable /\ req[q].cites = <<>> /\ agent[q].plan = <<>>
               \/ /\ agent[q].verified
                  /\ \E i \in DOMAIN agent[q].plan : ~agent[q].plan[i].no_data
                  /\ \A c \in ToSet(req[q].cites) : \E i \in DOMAIN agent[q].plan :
                       agent[q].plan[i].phase = "done" /\ c \in ToSet(agent[q].plan[i].cites)
                  /\ req[q].answer = "text" => Valid(q) # {}
    <3>1. /\ agent[q].stage = "answered" /\ req[q].answer = agent[q].answer
          /\ req[q].cites = agent[q].cites
      BY <2>1, <2>3 DEF Told, Finished
    <3>2. HasText(agent[q]) => Valid(q) # {}
      BY DEF HasText, Valid
    <3> QED
      BY <2>1, <3>1, <3>2 DEF GoodAgent, HasData, Cited
  <2> QED
    BY <2>2, <2>3
<1> QED
  BY <1>1, QueryInvariant, PTL

(* For any number of queries: the budget_used of one that executed alone   *)
(* is UsagePerCall for each of its sub-answers with a text, although the   *)
(* queries share one usage_total (ParallelExecutor.run).                   *)
THEOREM LoneBudgetsAreOwn == Spec => []LoneUsageIsOwn
<1>1. QInv => LoneUsageIsOwn
  BY DEF QInv, UsageInv, After, LoneUsageIsOwn
<1> QED
  BY <1>1, QueryInvariant, PTL

(* For any requests: a stored trace says the mode, the citations and the   *)
(* degradation its client was told, also after the inner service of a      *)
(* fallback wrote its own, and a failed request has none and an error      *)
(* status (_flush_trace, error_response).                                  *)
THEOREM StoredTracesAreHonest == Spec => []TracesAreHonest
<1>1. QInv => TracesAreHonest
  <2> SUFFICES ASSUME QInv, NEW q \in Query
               PROVE  /\ traces[q].by \in {q, NoQuery}
                      /\ req[q].phase = "done" /\ req[q].saved =>
                          /\ traces[q].mode = req[q].mode /\ traces[q].cites = req[q].cites
                          /\ traces[q].degraded = req[q].degraded
                          /\ req[q].degraded <=> Fallback(q)
                      /\ req[q].phase = "failed" => traces[q] = NoTrace /\ req[q].status >= 400
    BY DEF TracesAreHonest
  <2>1. Traced(q, req[q], traces[q])
    BY DEF QInv, TraceInv
  <2>2. NoTrace.by = NoQuery
    BY DEF NoTrace
  <2>3. CASE req[q].saved
    <3>1. /\ traces[q] = [by |-> q, kb |-> ask[q].kb, mode |-> req[q].mode,
                          cites |-> req[q].cites, degraded |-> req[q].degraded]
          /\ req[q].phase = "done" /\ (req[q].degraded <=> req[q].reason # 0)
      BY <2>1, <2>3 DEF Traced
    <3> QED
      BY <3>1 DEF Fallback
  <2>4. CASE ~req[q].saved
    BY <2>1, <2>2, <2>4 DEF Traced
  <2> QED
    BY <2>3, <2>4
<1> QED
  BY <1>1, QueryInvariant, PTL
--------------------------------------------------------------------------------
(* How far a request has come, the workflow's run, and one of its tasks    *)
(* between two rewrites.                                                   *)
Leg(phase) ==
    CASE phase = "new" -> 0 [] phase = "agent" -> 1 [] phase \in {"retrieve", "search"} -> 2
      [] phase = "generate" -> 3 [] phase = "flush" -> 4 [] phase = "outer" -> 5 [] OTHER -> 6

Node(stage) ==
    CASE stage = "idle" -> 0 [] stage = "intent" -> 1 [] stage = "discovery" -> 2
      [] stage = "plan" -> 3 [] stage = "executor" -> 4 [] stage = "synthesis" -> 5
      [] stage = "verifier" -> 6 [] OTHER -> 7

Way(phase) ==
    CASE phase = "rewrite" -> 0 [] phase \in {"recall", "again"} -> 1
      [] phase = "answer" -> 2 [] OTHER -> 3

(* A sub-task that is stepped is rewritten once more, within its retries,  *)
(* or comes further since.                                                 *)
TaskAdvances(old, new) ==
    \/ old.retries < new.retries /\ new.retries <= MaxRetries
    \/ old.retries = new.retries /\ Way(old.phase) < Way(new.phase)

Stays(q) == /\ req'[q] = req[q]
            /\ agent'[q].stage = agent[q].stage /\ agent'[q].plan = agent[q].plan

ComesNearer(q) ==
    \/ Leg(req[q].phase) < Leg(req'[q].phase)
    \/ /\ req'[q] = req[q]
       /\ \/ Node(agent[q].stage) < Node(agent'[q].stage)
          \/ /\ agent'[q].stage = agent[q].stage
             /\ DOMAIN agent'[q].plan = DOMAIN agent[q].plan
             /\ \E i \in DOMAIN agent[q].plan :
                    /\ TaskAdvances(agent[q].plan[i], agent'[q].plan[i])
                    /\ \A j \in DOMAIN agent[q].plan \ {i} :
                            agent'[q].plan[j] = agent[q].plan[j]

(* Every step brings one query nearer to its end and moves no other one's  *)
(* request, stage or tasks, although executors share a counter: a rewrite  *)
(* is not made twice, a fallback does not lead back to the workflow, and a *)
(* task that has ended is left alone until all of them are gathered.       *)
QueriesAdvance == [][\E q \in Query : ComesNearer(q) /\ \A o \in Query \ {q} : Stays(o)]_vars

Nears(q) == ComesNearer(q) /\ \A o \in Query \ {q} : Stays(o)

(* The order of the stages, of a request's phases and of a task's. *)
LEMMA Legs ==
    /\ Leg("new") = 0 /\ Leg("agent") = 1 /\ Leg("retrieve") = 2 /\ Leg("search") = 2
    /\ Leg("generate") = 3 /\ Leg("flush") = 4 /\ Leg("outer") = 5
    /\ Leg("done") = 6 /\ Leg("failed") = 6
BY DEF Leg

LEMMA Nodes ==
    /\ Node("intent") = 1 /\ Node("discovery") = 2 /\ Node("plan") = 3 /\ Node("executor") = 4
    /\ Node("synthesis") = 5 /\ Node("verifier") = 6 /\ Node("answered") = 7
    /\ Node("degraded") = 7
BY DEF Node

LEMMA Ways ==
    /\ Way("rewrite") = 0 /\ Way("recall") = 1 /\ Way("again") = 1 /\ Way("answer") = 2
    /\ Way("done") = 3 /\ Way("raised") = 3
BY DEF Way

(* A request that comes to a later phase. *)
LEMMA PhaseNears ==
    ASSUME QInv, NEW q \in Query, NEW r, req' = [req EXCEPT ![q] = r],
           Leg(req[q].phase) < Leg(r.phase), \A o \in Query \ {q} : agent'[o] = agent[o]
    PROVE  Nears(q)
<1>1. req'[q] = r /\ \A o \in Query \ {q} : req'[o] = req[o]
  BY DEF QInv, TypeOK
<1> QED
  BY <1>1 DEF Nears, ComesNearer, Stays

(* A workflow that comes to a later stage. *)
LEMMA StageNears ==
    ASSUME QInv, NEW q \in Query, req' = req, NEW a, Become(q, a),
           Node(agent[q].stage) < Node(a.stage)
    PROVE  Nears(q)
<1>1. agent'[q] = a /\ \A o \in Query \ {q} : agent'[o] = agent[o]
  BY DEF QInv, TypeOK, Become
<1> QED
  BY <1>1 DEF Nears, ComesNearer, Stays

LEMMA DegradeNears ==
    ASSUME QInv, NEW q \in Query, req' = req, NEW reason, Degrade(q, reason),
           Node(agent[q].stage) < 7
    PROVE  Nears(q)
<1>1. PICK a : a = [NoAgent EXCEPT !.stage = "degraded", !.reason = reason, !.sent = agent[q].sent]
  OBVIOUS
<1>2. a.stage = "degraded"
  BY <1>1 DEF NoAgent
<1>3. Become(q, a)
  BY <1>1 DEF Degrade
<1> QED
  BY <1>2, <1>3, Nodes, StageNears

LEMMA EmptyNears ==
    ASSUME QInv, NEW q \in Query, req' = req, EmptyResult(q), Node(agent[q].stage) < 7
    PROVE  Nears(q)
<1>1. PICK b : b = agent[q]
  OBVIOUS
<1>2. b \in Agent
  BY <1>1 DEF QInv, TypeOK
<1>3. PICK sent : sent = b.sent \o <<"end_planner", "start_synthesis", "synthesis",
                                      "end_synthesis", "done">>
  OBVIOUS
<1>4. PICK a : a = [[b EXCEPT !.stage = "answered", !.sent = sent] EXCEPT !.answer = Unable]
  OBVIOUS
<1>5. Become(q, a)
  BY <1>1, <1>3, <1>4 DEF EmptyResult, Enter
<1>6. a.stage = "answered"
  BY <1>2, <1>4 DEF Agent
<1> QED
  BY <1>5, <1>6, Nodes, StageNears

LEMMA EarlyNears ==
    ASSUME QInv, NEW q \in Query, req' = req, IntentDecision(q) \/ ScopeDiscovery(q)
    PROVE  Nears(q)
<1>1. agent[q] \in Agent
  BY DEF QInv, TypeOK
<1>2. agent[q].stage \in {"intent", "discovery"}
  BY DEF IntentDecision, ScopeDiscovery
<1>3. Node(agent[q].stage) < 7
  BY <1>2, Nodes
<1>4. ASSUME NEW stage, Become(q, Enter(q, stage, <<>>)), Node(agent[q].stage) < Node(stage)
      PROVE  Nears(q)
  <2>1. Enter(q, stage, <<>>).stage = stage
    BY <1>1 DEF Enter, Agent
  <2> QED
    BY <1>4, <2>1, StageNears
<1>5. CASE IntentDecision(q)
  <2>1. CASE EmptyResult(q)
    BY <1>3, <2>1, EmptyNears
  <2>2. CASE \E next \in {"discovery", "plan"} : Become(q, Enter(q, next, <<>>))
    <3>1. agent[q].stage = "intent"
      BY <1>5 DEF IntentDecision
    <3>2. \A next \in {"discovery", "plan"} : Node(agent[q].stage) < Node(next)
      BY <3>1, Nodes
    <3> QED
      BY <1>4, <2>2, <3>2
  <2>3. CASE Degrade(q, 7001)
    BY <1>3, <2>3, DegradeNears
  <2> QED
    BY <1>5, <2>1, <2>2, <2>3 DEF IntentDecision
<1>6. CASE ScopeDiscovery(q)
  <2>1. agent[q].stage = "discovery" /\ Become(q, Enter(q, "plan", <<>>))
    BY <1>6 DEF ScopeDiscovery
  <2> QED
    BY <1>4, <2>1, Nodes
<1> QED
  BY <1>5, <1>6

(* The tasks of q start; who executes already keeps stage and tasks. *)
LEMMA PlanNears ==
    ASSUME QInv, NEW q \in Query, req' = req, AnswerPlan(q)
    PROVE  Nears(q)
<1>1. agent[q].stage = "plan" /\ agent[q] \in Agent /\ GoodAgent(agent[q])
  BY DEF AnswerPlan, QInv, TypeOK, AgentInv
<1>2. agent[q].text \in Text
  BY <1>1 DEF GoodAgent
<1>3. Node(agent[q].stage) = 3
  BY <1>1, Nodes
<1>4. CASE Degrade(q, 7001)
  BY <1>3, <1>4, DegradeNears
<1>5. CASE EmptyResult(q)
  BY <1>3, <1>5, EmptyNears
<1> DEFINE others == {o \in Query \ {q} : Executing(o)}
<1>6. ASSUME NEW proposed \in Plans[agent[q].text], StartTasks(q, SeedsOf(proposed))
      PROVE  Nears(q)
  <2>1. PICK seeds : seeds = SeedsOf(proposed)
    OBVIOUS
  <2>2. seeds \in Seq(Text)
    <3>1. proposed \in Seq(Text \cup {Blank})
      BY <1>2, <1>6, WorkflowConstants
    <3> QED
      BY <2>1, <3>1, SeedsAreTexts
  <2>3. agent' = [o \in Query |-> IF o = q THEN Planned(q, seeds, others)
                                  ELSE [agent[o] EXCEPT !.shared = @ \/ o \in others]]
    BY <1>6, <2>1 DEF StartTasks
  <2> HIDE DEF others
  <2>4. PICK a : a = Planned(q, seeds, others)
    OBVIOUS
  <2>5. a.stage = "executor"
    BY <1>1, <2>2, <2>4, PlannedIsGood
  <2>6. agent'[q].stage = "executor"
    BY <2>3, <2>4, <2>5
  <2>7. ASSUME NEW o \in Query \ {q}
        PROVE  agent'[o].stage = agent[o].stage /\ agent'[o].plan = agent[o].plan
    <3>1. PICK b : b = agent[o]
      OBVIOUS
    <3>2. b \in Agent
      BY <3>1 DEF QInv, TypeOK
    <3>3. agent'[o] = [b EXCEPT !.shared = b.shared \/ o \in others]
      BY <2>3, <3>1
    <3>4. PICK s \in BOOLEAN : s <=> (b.shared \/ o \in others)
      OBVIOUS
    <3>5. agent'[o] = [b EXCEPT !.shared = s]
      BY <3>3, <3>4, Zenon
    <3>6. PICK c : c = agent'[o]
      OBVIOUS
    <3>7. c.stage = b.stage /\ c.plan = b.plan
      BY <3>2, <3>5, <3>6, SharedOnly
    <3> QED
      BY <3>1, <3>6, <3>7
  <2>8. Node(agent[q].stage) < Node(agent'[q].stage)
    BY <1>3, <2>6, Nodes
  <2> QED
    BY <2>7, <2>8 DEF Nears, ComesNearer, Stays
<1> QED
  BY <1>4, <1>5, <1>6 DEF AnswerPlan

(* A task that is stepped, its neighbours left alone. *)
LEMMA TaskNears ==
    ASSUME QInv, NEW q \in Query, req' = req, NEW i \in DOMAIN agent[q].plan, NEW task,
           SetTask(q, i, task), TaskAdvances(agent[q].plan[i], task)
    PROVE  Nears(q)
<1>1. PICK b : b = agent[q]
  OBVIOUS
<1>2. b \in Agent /\ b.plan \in Seq(Task) /\ i \in DOMAIN b.plan
  BY <1>1 DEF QInv, TypeOK, Agent
<1>3. PICK n \in Nat : DOMAIN b.plan = 1..n /\ b.plan \in [1..n -> Task]
  BY <1>2, LenProperties
<1>4. PICK plan : plan = [b.plan EXCEPT ![i] = task]
  OBVIOUS
<1>5. /\ DOMAIN plan = DOMAIN b.plan /\ plan[i] = task
      /\ \A j \in DOMAIN b.plan \ {i} : plan[j] = b.plan[j]
  BY <1>2, <1>3, <1>4
<1>6. PICK a : a = [b EXCEPT !.plan = plan]
  OBVIOUS
<1>7. a.plan = plan /\ a.stage = b.stage
  BY <1>2, <1>6 DEF Agent
<1>8. agent' = [agent EXCEPT ![q] = a] /\ agent \in [Query -> Agent]
  BY <1>1, <1>4, <1>6 DEF SetTask, QInv, TypeOK
<1>9. agent'[q] = a /\ \A o \in Query \ {q} : agent'[o] = agent[o]
  BY <1>8
<1>10. \A o \in Query \ {q} : Stays(o)
  BY <1>9 DEF Stays
<1>11. ComesNearer(q)
  <2>1. req'[q] = req[q] /\ agent'[q].stage = agent[q].stage
    BY <1>1, <1>7, <1>9
  <2>2. agent'[q].plan = plan /\ agent[q].plan = b.plan
    BY <1>1, <1>7, <1>9
  <2>3. DOMAIN agent'[q].plan = DOMAIN agent[q].plan
    BY <1>5, <2>2
  <2>4. /\ TaskAdvances(agent[q].plan[i], agent'[q].plan[i])
        /\ \A j \in DOMAIN agent[q].plan \ {i} : agent'[q].plan[j] = agent[q].plan[j]
    BY <1>5, <2>2
  <2> QED
    BY <2>1, <2>3, <2>4 DEF ComesNearer
<1> QED
  BY <1>10, <1>11 DEF Nears

(* The task raises or gives up. *)
LEMMA TaskEndNears ==
    ASSUME QInv, NEW q \in Query, req' = req, NEW i \in DOMAIN agent[q].plan,
           agent[q].plan[i].phase \notin {"done", "raised"}, TaskRaises(q, i) \/ TaskGivesUp(q, i)
    PROVE  Nears(q)
<1>1. PICK old : old = agent[q].plan[i]
  OBVIOUS
<1>2. old \in Task /\ old.phase \in {"recall", "rewrite", "again", "answer"}
  BY <1>1, RunningTask DEF Task
<1>3. Way(old.phase) < 3
  BY <1>2, Ways
<1>4. PICK phase, cites, no_data, text, task :
        /\ task = [old EXCEPT !.phase = phase, !.cites = cites] \/
           task = [old EXCEPT !.phase = phase, !.no_data = no_data, !.text = text]
        /\ SetTask(q, i, task) /\ phase \in {"done", "raised"}
  BY <1>1 DEF TaskRaises, TaskGivesUp
<1>5. task.phase = phase /\ task.retries = old.retries
  BY <1>2, <1>4 DEF Task
<1>6. Way(task.phase) = 3
  BY <1>4, <1>5, Ways
<1>7. TaskAdvances(old, task)
  BY <1>3, <1>5, <1>6 DEF TaskAdvances
<1> QED
  BY <1>1, <1>4, <1>7, TaskNears

LEMMA RecallNears ==
    ASSUME QInv, NEW q \in Query, req' = req, NEW i \in DOMAIN agent[q].plan, TaskRecall(dep, q, i)
    PROVE  Nears(q)
<1>1. PICK old : old = agent[q].plan[i]
  OBVIOUS
<1>2. old \in Task /\ old.phase \in {"recall", "again"}
  BY <1>1, RunningTask DEF TaskRecall
<1>3. Way(old.phase) = 1 /\ agent[q].plan[i].phase \notin {"done", "raised"}
  BY <1>1, <1>2, Ways
<1>4. CASE TaskRaises(q, i) \/ TaskGivesUp(q, i)
  BY <1>3, <1>4, TaskEndNears
<1>5. ASSUME NEW cites, SetTask(q, i, [old EXCEPT !.phase = "answer", !.cites = cites])
      PROVE  Nears(q)
  <2>1. PICK task : task = [old EXCEPT !.phase = "answer", !.cites = cites]
    OBVIOUS
  <2>2. task.phase = "answer" /\ task.retries = old.retries
    BY <1>2, <2>1 DEF Task
  <2>3. TaskAdvances(old, task)
    BY <1>3, <2>2, Ways DEF TaskAdvances
  <2> QED
    BY <1>1, <1>5, <2>1, <2>3, TaskNears
<1>6. ASSUME old.retries < MaxRetries,
             SetTask(q, i, [old EXCEPT !.phase = "rewrite", !.retries = @ + 1])
      PROVE  Nears(q)
  <2>1. PICK task : task = [old EXCEPT !.phase = "rewrite", !.retries = @ + 1]
    OBVIOUS
  <2>2. task.retries = old.retries + 1 /\ old.retries \in Nat
    BY <1>2, <2>1 DEF Task, MaxRetries
  <2>3. TaskAdvances(old, task)
    BY <1>6, <2>2 DEF TaskAdvances, MaxRetries
  <2> QED
    BY <1>1, <1>6, <2>1, <2>3, TaskNears
<1> QED
  BY <1>1, <1>4, <1>5, <1>6 DEF TaskRecall

LEMMA RewriteNears ==
    ASSUME QInv, NEW q \in Query, req' = req, NEW i \in DOMAIN agent[q].plan, TaskRewrite(q, i)
    PROVE  Nears(q)
<1>1. PICK old : old = agent[q].plan[i]
  OBVIOUS
<1>2. old \in Task /\ old.phase = "rewrite"
  BY <1>1, RunningTask DEF TaskRewrite
<1>3. CASE TaskGivesUp(q, i)
  BY <1>1, <1>2, <1>3, TaskEndNears
<1>4. CASE SetTask(q, i, [old EXCEPT !.phase = "again"])
  <2>1. PICK task : task = [old EXCEPT !.phase = "again"]
    OBVIOUS
  <2>2. task.phase = "again" /\ task.retries = old.retries
    BY <1>2, <2>1 DEF Task
  <2>3. TaskAdvances(old, task)
    BY <1>2, <2>2, Ways DEF TaskAdvances
  <2> QED
    BY <1>1, <1>4, <2>1, <2>3, TaskNears
<1> QED
  BY <1>1, <1>3, <1>4 DEF TaskRewrite

LEMMA AnswerNears ==
    ASSUME QInv, NEW q \in Query, req' = req, NEW i \in DOMAIN agent[q].plan, TaskAnswer(q, i)
    PROVE  Nears(q)
<1>1. PICK old : old = agent[q].plan[i]
  OBVIOUS
<1>2. old \in Task /\ old.phase = "answer"
  BY <1>1, RunningTask DEF TaskAnswer
<1>3. CASE TaskRaises(q, i)
  BY <1>1, <1>2, <1>3, TaskEndNears
<1>4. ASSUME NEW text, SetTask(q, i, [old EXCEPT !.phase = "done", !.text = text])
      PROVE  Nears(q)
  <2>1. PICK task : task = [old EXCEPT !.phase = "done", !.text = text]
    OBVIOUS
  <2>2. task.phase = "done" /\ task.retries = old.retries
    BY <1>2, <2>1 DEF Task
  <2>3. TaskAdvances(old, task)
    BY <1>2, <2>2, Ways DEF TaskAdvances
  <2> QED
    BY <1>1, <1>4, <2>1, <2>3, TaskNears
<1> QED
  BY <1>1, <1>3, <1>4 DEF TaskAnswer

(* From gather to the verdict. *)
LEMMA GatherNears ==
    ASSUME QInv, NEW q \in Query, req' = req, Gather(q)
    PROVE  Nears(q)
<1> DEFINE evs == <<"end_executor", "start_synthesis">>
<1>1. PICK b : b = agent[q]
  OBVIOUS
<1>2. b \in Agent /\ b.stage = "executor" /\ Node(agent[q].stage) = 4
  BY <1>1, Nodes DEF QInv, TypeOK, Gather, Executing
<1>3. PICK plan : plan = [i \in DOMAIN b.plan |-> Gathered(b.plan[i])]
  OBVIOUS
<1>4. IF \A i \in DOMAIN plan : plan[i].no_data
      THEN Degrade(q, 7002)
      ELSE Become(q, [Enter(q, "synthesis", evs) EXCEPT !.plan = plan, !.budget = @ + usage])
  BY <1>1, <1>3 DEF Gather
<1>5. CASE \A i \in DOMAIN plan : plan[i].no_data
  BY <1>2, <1>4, <1>5, DegradeNears
<1>6. CASE \E i \in DOMAIN plan : ~plan[i].no_data
  <2>1. PICK sent : sent = b.sent \o evs
    OBVIOUS
  <2>2. PICK a : a = [[b EXCEPT !.stage = "synthesis", !.sent = sent]
                        EXCEPT !.plan = plan, !.budget = @ + usage]
    OBVIOUS
  <2>3. Become(q, [Enter(q, "synthesis", evs) EXCEPT !.plan = plan, !.budget = @ + usage])
    BY <1>4, <1>6
  <2>4. Become(q, a)
    BY <1>1, <2>1, <2>2, <2>3 DEF Enter
  <2>5. a.stage = "synthesis"
    BY <1>2, <2>2 DEF Agent
  <2> QED
    BY <1>2, <2>4, <2>5, Nodes, StageNears
<1> QED
  BY <1>5, <1>6

LEMMA SynthesisNears ==
    ASSUME QInv, NEW q \in Query, req' = req, Synthesise(q)
    PROVE  Nears(q)
<1> DEFINE evs == <<"synthesis", "end_synthesis", "start_verifier">>
<1>1. PICK b : b = agent[q]
  OBVIOUS
<1>2. b \in Agent /\ b.stage = "synthesis" /\ Node(agent[q].stage) = 5
  BY <1>1, Nodes DEF QInv, TypeOK, Synthesise
<1>3. CASE Degrade(q, Unexpected)
  BY <1>2, <1>3, DegradeNears
<1>4. ASSUME NEW answer, NEW cites,
             Become(q, [Enter(q, "verifier", evs) EXCEPT !.answer = answer, !.cites = cites])
      PROVE  Nears(q)
  <2>1. PICK sent : sent = b.sent \o evs
    OBVIOUS
  <2>2. PICK a : a = [[b EXCEPT !.stage = "verifier", !.sent = sent]
                        EXCEPT !.answer = answer, !.cites = cites]
    OBVIOUS
  <2>3. Become(q, a)
    BY <1>1, <1>4, <2>1, <2>2 DEF Enter
  <2>4. a.stage = "verifier"
    BY <1>2, <2>2 DEF Agent
  <2> QED
    BY <1>2, <2>3, <2>4, Nodes, StageNears
<1> QED
  BY <1>3, <1>4 DEF Synthesise

LEMMA VerifyNears ==
    ASSUME QInv, NEW q \in Query, req' = req, Verify(q)
    PROVE  Nears(q)
<1> DEFINE evs == <<"end_verifier", "done">>
<1>1. PICK b : b = agent[q]
  OBVIOUS
<1>2. b \in Agent /\ b.stage = "verifier" /\ Node(agent[q].stage) = 6
  BY <1>1, Nodes DEF QInv, TypeOK, Verify
<1>3. CASE Degrade(q, Unexpected) \/ Degrade(q, 7003)
  BY <1>2, <1>3, DegradeNears
<1>4. CASE Become(q, [Enter(q, "answered", evs) EXCEPT !.verified = TRUE])
  <2>1. PICK sent : sent = b.sent \o evs
    OBVIOUS
  <2>2. PICK a : a = [[b EXCEPT !.stage = "answered", !.sent = sent] EXCEPT !.verified = TRUE]
    OBVIOUS
  <2>3. Become(q, a)
    BY <1>1, <1>4, <2>1, <2>2 DEF Enter
  <2>4. a.stage = "answered"
    BY <1>2, <2>2 DEF Agent
  <2> QED
    BY <1>2, <2>3, <2>4, Nodes, StageNears
<1> QED
  BY <1>3, <1>4 DEF Verify

LEMMA AgentNears ==
    ASSUME QInv, NEW q \in Query, AgentRuns(q)
    PROVE  Nears(q)
<1>1. req' = req /\ AgentStep(dep, q)
  BY DEF AgentRuns
<1>2. CASE \E i \in DOMAIN agent[q].plan :
             TaskRecall(dep, q, i) \/ TaskRewrite(q, i) \/ TaskAnswer(q, i)
  BY <1>1, <1>2, RecallNears, RewriteNears, AnswerNears
<1>3. CASE IntentDecision(q) \/ ScopeDiscovery(q)
  BY <1>1, <1>3, EarlyNears
<1>4. CASE AnswerPlan(q)
  BY <1>1, <1>4, PlanNears
<1>5. CASE Gather(q) \/ Synthesise(q) \/ Verify(q)
  BY <1>1, <1>5, GatherNears, SynthesisNears, VerifyNears
<1> QED
  BY <1>1, <1>2, <1>3, <1>4, <1>5 DEF AgentStep
--------------------------------------------------------------------------------
LEMMA FailNears ==
    ASSUME QInv, NEW q \in Query, NEW exc, Fail(q, exc), Leg(req[q].phase) < 6
    PROVE  Nears(q)
<1>1. PICK status : status = ErrorResponse(exc).status
  OBVIOUS
<1>2. PICK r : r = [NewRequest EXCEPT !.phase = "failed", !.status = status]
  OBVIOUS
<1>3. r.phase = "failed"
  BY <1>2 DEF NewRequest
<1>4. req' = [req EXCEPT ![q] = r] /\ agent' = [agent EXCEPT ![q] = NoAgent]
  BY <1>1, <1>2 DEF Fail
<1>5. \A o \in Query \ {q} : agent'[o] = agent[o]
  BY <1>4 DEF QInv, TypeOK
<1>6. Leg(req[q].phase) < Leg(r.phase)
  BY <1>3, <1>4, <1>5, Legs
<1> QED
  BY <1>3, <1>4, <1>5, <1>6, PhaseNears

LEMMA RequestsAre == ASSUME QInv PROVE req \in [Query -> Progress]
BY DEF QInv, TypeOK

LEMMA ChatNears ==
    ASSUME QInv, NEW q \in Query, Chat(q)
    PROVE  Nears(q)
<1>1. PICK old : old = req[q]
  OBVIOUS
<1>2. old \in Progress /\ old.phase = "new" /\ Leg(req[q].phase) = 0
  BY <1>1, RequestOf, Legs DEF Chat
<1>3. CASE \E exc : Fail(q, exc)
  BY <1>2, <1>3, FailNears
<1>4. CASE StartAgent(q, ask[q].text) /\ req' = [req EXCEPT ![q].phase = "agent"]
  <2>1. PICK r : r = [old EXCEPT !.phase = "agent"]
    OBVIOUS
  <2>2. r.phase = "agent"
    BY <1>2, <2>1 DEF Progress
  <2>3. req' = [req EXCEPT ![q] = r]
    BY <1>1, <1>4, <2>1
  <2>4. \A o \in Query \ {q} : agent'[o] = agent[o]
    BY <1>4 DEF StartAgent, Become, QInv, TypeOK
  <2>5. Leg(req[q].phase) < Leg(r.phase)
    BY <1>2, <2>2, <2>3, <2>4, Legs
  <2> QED
    BY <1>2, <2>2, <2>3, <2>4, <2>5, PhaseNears
<1>5. CASE req' = [req EXCEPT ![q].phase = "retrieve"] /\ UNCHANGED agentVars
  <2>1. PICK r : r = [old EXCEPT !.phase = "retrieve"]
    OBVIOUS
  <2>2. r.phase = "retrieve"
    BY <1>2, <2>1 DEF Progress
  <2>3. req' = [req EXCEPT ![q] = r] /\ agent' = agent
    BY <1>1, <1>5, <2>1 DEF agentVars
  <2>4. Leg(req[q].phase) < Leg(r.phase)
    BY <1>2, <2>2, <2>3, Legs
  <2> QED
    BY <1>2, <2>2, <2>3, <2>4, PhaseNears
<1>6. CASE /\ req' = [req EXCEPT ![q].phase = "flush", ![q].mode = "fast"]
           /\ UNCHANGED agentVars
  <2>1. PICK r : r = [old EXCEPT !.phase = "flush", !.mode = "fast"]
    OBVIOUS
  <2>2. r.phase = "flush"
    BY <1>2, <2>1 DEF Progress
  <2>3. req' = [req EXCEPT ![q] = r] /\ agent' = agent
    BY <1>1, <1>6, <2>1, RequestsAre DEF agentVars
  <2>4. Leg(req[q].phase) < Leg(r.phase)
    BY <1>2, <2>2, <2>3, Legs
  <2> QED
    BY <1>2, <2>2, <2>3, <2>4, PhaseNears
<1> QED
  BY <1>3, <1>4, <1>5, <1>6 DEF Chat

(* The workflow's result goes to the trace, or the standard path answers. *)
LEMMA ReturnNears ==
    ASSUME QInv, NEW q \in Query, AgentReturns(q)
    PROVE  Nears(q)
<1>1. PICK old : old = req[q]
  OBVIOUS
<1>2. old \in Progress /\ Leg(req[q].phase) = 1 /\ agent' = agent
  BY <1>1, RequestOf, Legs DEF AgentReturns, agentVars
<1>3. CASE req' = [req EXCEPT ![q].phase = "flush", ![q].mode = "agentic",
                              ![q].answer = agent[q].answer, ![q].cites = agent[q].cites]
  <2>1. PICK r : r = [old EXCEPT !.phase = "flush", !.mode = "agentic",
                                 !.answer = agent[q].answer, !.cites = agent[q].cites]
    OBVIOUS
  <2>2. r.phase = "flush"
    BY <1>2, <2>1 DEF Progress
  <2>3. req' = [req EXCEPT ![q] = r]
    BY <1>1, <1>3, <2>1, RequestsAre
  <2>4. Leg(req[q].phase) < Leg(r.phase)
    BY <1>2, <2>2, <2>3, Legs
  <2> QED
    BY <1>2, <2>2, <2>3, <2>4, PhaseNears
<1>4. ASSUME NEW embedded, req' = [req EXCEPT ![q].phase = "retrieve", ![q].qvec = embedded,
                                              ![q].reason = agent[q].reason]
      PROVE  Nears(q)
  <2>1. PICK r : r = [old EXCEPT !.phase = "retrieve", !.qvec = embedded,
                                 !.reason = agent[q].reason]
    OBVIOUS
  <2>2. r.phase = "retrieve"
    BY <1>2, <2>1 DEF Progress
  <2>3. req' = [req EXCEPT ![q] = r]
    BY <1>1, <1>4, <2>1, RequestsAre
  <2>4. Leg(req[q].phase) < Leg(r.phase)
    BY <1>2, <2>2, <2>3, Legs
  <2> QED
    BY <1>2, <2>2, <2>3, <2>4, PhaseNears
<1> QED
  BY <1>3, <1>4 DEF AgentReturns

LEMMA ContextNears ==
    ASSUME QInv, NEW q \in Query, RetrieveContext(q)
    PROVE  Nears(q)
<1>1. PICK old : old = req[q]
  OBVIOUS
<1>2. old \in Progress /\ Leg(req[q].phase) = 2
  BY <1>1, RequestOf, Legs DEF RetrieveContext
<1>3. CASE Fail(q, Unhandled)
  BY <1>2, <1>3, FailNears
<1>4. ASSUME NEW phase \in {"generate", "flush"}, NEW answer, NEW cites,
             req' = [req EXCEPT ![q].phase = phase, ![q].mode = "standard", ![q].qvec = TRUE,
                                ![q].answer = answer, ![q].cites = cites],
             UNCHANGED agentVars
      PROVE  Nears(q)
  <2>1. PICK r : r = [old EXCEPT !.phase = phase, !.mode = "standard", !.qvec = TRUE,
                                 !.answer = answer, !.cites = cites]
    OBVIOUS
  <2>2. r.phase = phase
    BY <1>2, <2>1 DEF Progress
  <2>3. req' = [req EXCEPT ![q] = r] /\ agent' = agent
    BY <1>1, <1>4, <2>1, RequestsAre DEF agentVars
  <2>4. Leg(phase) > 2
    BY Legs
  <2> QED
    BY <1>2, <2>2, <2>3, <2>4, PhaseNears
<1>5. ASSUME NEW shown,
             req' = [req EXCEPT
                    ![q].phase = IF shown.found THEN "generate" ELSE "flush",
                    ![q].mode = "standard", ![q].qvec = TRUE,
                    ![q].answer = IF shown.found THEN Empty ELSE Unable,
                    ![q].cites = shown.cites],
             UNCHANGED agentVars
      PROVE  Nears(q)
  <2>1. PICK phase, answer, cites : /\ phase = IF shown.found THEN "generate" ELSE "flush"
                                    /\ answer = IF shown.found THEN Empty ELSE Unable
                                    /\ cites = shown.cites
    OBVIOUS
  <2>2. phase \in {"generate", "flush"}
    BY <2>1
  <2> QED
    BY <1>4, <1>5, <2>1, <2>2
<1> QED
  BY <1>3, <1>5 DEF RetrieveContext

LEMMA GenerateNears ==
    ASSUME QInv, NEW q \in Query, Generate(q)
    PROVE  Nears(q)
<1>1. PICK old : old = req[q]
  OBVIOUS
<1>2. old \in Progress /\ Leg(req[q].phase) = 3
  BY <1>1, RequestOf, Legs DEF Generate
<1>3. CASE \E exc : Fail(q, exc)
  BY <1>2, <1>3, FailNears
<1>4. CASE req' = [req EXCEPT ![q].phase = "flush", ![q].answer = "text"] /\ UNCHANGED agentVars
  <2>1. PICK r : r = [old EXCEPT !.phase = "flush", !.answer = "text"]
    OBVIOUS
  <2>2. r.phase = "flush"
    BY <1>2, <2>1 DEF Progress
  <2>3. req' = [req EXCEPT ![q] = r] /\ agent' = agent
    BY <1>1, <1>4, <2>1, RequestsAre DEF agentVars
  <2>4. Leg(req[q].phase) < Leg(r.phase)
    BY <1>2, <2>2, <2>3, Legs
  <2> QED
    BY <1>2, <2>2, <2>3, <2>4, PhaseNears
<1> QED
  BY <1>3, <1>4 DEF Generate

LEMMA FlushNears ==
    ASSUME QInv, NEW q \in Query, FlushTrace(q)
    PROVE  Nears(q)
<1>1. PICK old : old = req[q]
  OBVIOUS
<1>2. old \in Progress
  BY <1>1, RequestOf
<1>3. ASSUME old.phase = "flush",
             req' = [req EXCEPT ![q].phase = "outer", ![q].degraded = TRUE], agent' = agent
      PROVE  Nears(q)
  <2>1. PICK r : r = [old EXCEPT !.phase = "outer", !.degraded = TRUE]
    OBVIOUS
  <2>2. r.phase = "outer"
    BY <1>2, <2>1 DEF Progress
  <2>3. req' = [req EXCEPT ![q] = r]
    BY <1>1, <1>3, <2>1, RequestsAre
  <2>4. Leg(req[q].phase) < Leg(r.phase)
    BY <1>1, <1>3, <2>2, <2>3, Legs
  <2> QED
    BY <1>1, <1>3, <2>2, <2>3, <2>4, PhaseNears
<1>4. ASSUME NEW saved \in BOOLEAN, old.phase \in {"flush", "outer"},
             req' = [req EXCEPT ![q].phase = "done", ![q].saved = saved, ![q].status = 200],
             agent' = [agent EXCEPT ![q] = NoAgent]
      PROVE  Nears(q)
  <2>1. PICK r : r = [old EXCEPT !.phase = "done", !.saved = saved, !.status = 200]
    OBVIOUS
  <2>2. r.phase = "done"
    BY <1>2, <2>1 DEF Progress
  <2>3. req' = [req EXCEPT ![q] = r]
    BY <1>1, <1>4, <2>1, RequestsAre
  <2>4. \A o \in Query \ {q} : agent'[o] = agent[o]
    BY <1>4 DEF QInv, TypeOK
  <2>5. Leg(req[q].phase) < Leg(r.phase)
    BY <1>1, <1>4, <2>2, Legs
  <2> QED
    BY <2>3, <2>4, <2>5, PhaseNears
<1>5. PICK saved \in BOOLEAN :
        \/ /\ old.phase = "flush" /\ agent' = agent
           /\ req' = [req EXCEPT ![q].phase = "outer", ![q].degraded = TRUE]
        \/ /\ old.phase \in {"flush", "outer"} /\ agent' = [agent EXCEPT ![q] = NoAgent]
           /\ req' = [req EXCEPT ![q].phase = "done", ![q].saved = saved, ![q].status = 200]
  BY <1>1 DEF FlushTrace
<1> QED
  BY <1>3, <1>4, <1>5

LEMMA SearchNears ==
    ASSUME QInv, NEW q \in Query, Search(q) \/ SearchResults(q)
    PROVE  Nears(q)
<1>1. PICK old : old = req[q]
  OBVIOUS
<1>2. old \in Progress
  BY <1>1, RequestOf
<1>3. CASE Search(q)
  <2>1. Leg(req[q].phase) = 0
    BY <1>3, Legs DEF Search
  <2>2. CASE \E exc : Fail(q, exc)
    BY <2>1, <2>2, FailNears
  <2>3. CASE req' = [req EXCEPT ![q].phase = "search"] /\ UNCHANGED agentVars
    <3>1. PICK r : r = [old EXCEPT !.phase = "search"]
      OBVIOUS
    <3>2. r.phase = "search"
      BY <1>2, <3>1 DEF Progress
    <3>3. req' = [req EXCEPT ![q] = r] /\ agent' = agent
      BY <1>1, <2>3, <3>1 DEF agentVars
    <3>4. Leg(req[q].phase) < Leg(r.phase)
      BY <2>1, <3>2, <3>3, Legs
    <3> QED
      BY <2>1, <3>2, <3>3, <3>4, PhaseNears
  <2> QED
    BY <1>3, <2>2, <2>3 DEF Search
<1>4. CASE SearchResults(q)
  <2>1. Leg(req[q].phase) = 2 /\ agent' = agent
    BY <1>4, Legs DEF SearchResults, agentVars
  <2>2. PICK found : req' = [req EXCEPT ![q].phase = "done", ![q].status = 200, ![q].cites = found]
    BY <1>4 DEF SearchResults
  <2>3. PICK r : r = [old EXCEPT !.phase = "done", !.status = 200, !.cites = found]
    OBVIOUS
  <2>4. r.phase = "done"
    BY <1>2, <2>3 DEF Progress
  <2>5. req' = [req EXCEPT ![q] = r]
    BY <1>1, <2>2, <2>3, RequestsAre
  <2>6. Leg(req[q].phase) < Leg(r.phase)
    BY <2>1, <2>4, <2>5, Legs
  <2> QED
    BY <2>1, <2>4, <2>5, <2>6, PhaseNears
<1> QED
  BY <1>3, <1>4

(* For any requests and any plans a planner proposes: every step brings    *)
(* one query nearer to its end and leaves the others where they are.  The  *)
(* legs, the stages and a task's rewrites and ways are finitely many, so   *)
(* no chat or search runs for ever: a degraded query does not come back to *)
(* the workflow, and a sub-task is rewritten once (run_agentic,            *)
(* ParallelExecutor._maybe_seed_retry, QueryService.query).                *)
THEOREM QueriesComeToTheirEnd == Spec => QueriesAdvance
<1>1. ASSUME QInv, NEW q \in Query, QueryStep(q) PROVE Nears(q)
  BY <1>1, ChatNears, AgentNears, ReturnNears, ContextNears, GenerateNears, FlushNears,
     SearchNears DEF QueryStep
<1>2. QInv /\ [Next]_vars =>
        [\E q \in Query : ComesNearer(q) /\ \A o \in Query \ {q} : Stays(o)]_vars
  BY <1>1 DEF Next, Nears
<1> QED
  BY <1>2, QueryInvariant, PTL DEF Spec, QueriesAdvance
=================================================================================
