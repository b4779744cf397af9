------------------------- MODULE KnowledgeGraphProofs -------------------------
(***************************************************************************)
(* Proofs about KnowledgeGraph for any documents, chunks, extractions and  *)
(* wirings, and however often jobs are run again.                          *)
(*                                                                         *)
(* Memory and file are two graphs that satisfy the same conditions         *)
(* (GraphInv), so that a call that ends by writing the file, and a restart *)
(* that reads it, carry them over.  What makes them inductive lies in the  *)
(* jobs: what a batch holds was copied from the graph or was given an id   *)
(* nobody has (IdsAreFinite, OneNorm); a document that was deleted is in    *)
(* nobody's batch unless a deletion overlapped a build (NotHeld); and what *)
(* a relation will join is stored or in the batch upserted before it       *)
(* (LinksAreKnown).                                                        *)
(***************************************************************************)
EXTENDS KnowledgeGraph, FiniteSetTheorems, SequenceTheorems, WellFoundedInduction, TLAPS

IsEntity(e) ==
    e = [norm |-> e.norm, id |-> e.id, name |-> e.name, docs |-> e.docs, vec |-> e.vec]

IsJob(j) ==
    j = [phase |-> j.phase, todo |-> j.todo, found |-> j.found, said |-> j.said, own |-> j.own,
         batch |-> j.batch, links |-> j.links, kept |-> j.kept, rebuild |-> j.rebuild]

Held(d) == ToSet(job[d].batch) \cup ToSet(job[d].own)

(* What the record of a job has in common in all phases. *)
GoodJob(d, j) ==
    /\ IsJob(j)
    /\ j.own \in Seq(ToSet(j.own)) /\ j.batch \in Seq(ToSet(j.batch))
    /\ j.phase # "merge" => j.own = <<>>
    /\ j.phase \notin {"extract", "merge", "upsert"} => j.batch = <<>>
    /\ j.phase \notin {"extract", "merge", "upsert", "relate"} => j.links = {}
    /\ j.phase \in {"delete", "detach", "unlink", "prune"} => j.rebuild
    /\ j.phase \in {"detach", "unlink", "prune"} => ~Nx
    /\ \A e \in ToSet(j.batch) \cup ToSet(j.own) :
        IsEntity(e) /\ d \in e.docs /\ (~Nx => e.docs = {d})

Jobs == job = [d \in Doc |-> job[d]] /\ \A d \in Doc : GoodJob(d, job[d])

(* The graph in memory and, where one is read again, that in the file. *)
Graphs == {"memory"} \cup (IF Nx /\ wiring.persist THEN {"disk"} ELSE {})
Ents(g) == IF g = "memory" THEN entities ELSE disk.ents
Nds(g) == IF g = "memory" THEN nodes ELSE disk.nodes
Eds(g) == IF g = "memory" THEN edges ELSE disk.edges
Rels(g) == IF g = "memory" THEN relations ELSE disk.rels
Written == [ents |-> entities, nodes |-> nodes, edges |-> edges, rels |-> relations]
IdsOf(g) == {Ents(g)[n].id : n \in DOMAIN Ents(g)}

EntitiesAreKeyed(g) ==
    /\ Ents(g) = [n \in DOMAIN Ents(g) |-> Ents(g)[n]]
    /\ \A n \in DOMAIN Ents(g) : IsEntity(Ents(g)[n]) /\ Ents(g)[n].norm = n

DistinctIds(g) == \A m, n \in DOMAIN Ents(g) : Ents(g)[m].id = Ents(g)[n].id => m = n

NodesAreIds(g) == Nx => IdsOf(g) \subseteq Nds(g) /\ (~mixed => Nds(g) = IdsOf(g))

EndsAreIds(g) ==
    ~mixed \/ ~Nx => \A l \in DOMAIN Rels(g) : l[1] \in IdsOf(g) /\ l[2] \in IdsOf(g)

EdgesFit(g) ==
    Nx => /\ \A l \in DOMAIN Rels(g) : <<l[1], l[2]>> \in Eds(g)
          /\ \A e \in Eds(g) : e[1] \in Nds(g) /\ e[2] \in Nds(g)

InGraph(g, d, n) ==
    /\ n \in DOMAIN Ents(g) /\ d \in Ents(g)[n].docs
    /\ Nx => Ents(g)[n].id \in Nds(g)

BuiltIsIn(g) ==
    crashes # "lost" =>
        \A d \in Doc : job[d].phase \in {"relate", "built"} =>
            \A n \in job[d].kept : InGraph(g, d, n)

(* From the delete on, and for its relations from the unlink on, until the *)
(* rebuild reaches its own upsert.                                         *)
Gone(d) ==
    job[d].rebuild /\ job[d].phase \in {"detach", "unlink", "prune", "extract", "merge", "gone"}
Unlinked(d) == job[d].rebuild /\ job[d].phase \in {"prune", "extract", "merge", "gone"}

Forgotten(g) ==
    ~mixed => \A d \in Doc :
        /\ Gone(d) => \A n \in DOMAIN Ents(g) : d \notin Ents(g)[n].docs
        /\ Unlinked(d) => \A l \in DOMAIN Rels(g) : d \notin Rels(g)[l]

ReferencedOrLeft(g) ==
    /\ \A n \in DOMAIN Ents(g) : Ents(g)[n].docs = {} =>
        ~Nx /\ \E o \in Doc : job[o].phase \in {"detach", "aborted"}
    /\ \A l \in DOMAIN Rels(g) : Rels(g)[l] = {} =>
        ~Nx /\ \E o \in Doc : job[o].phase \in {"prune", "aborted"}

GraphInv(g) ==
    /\ EntitiesAreKeyed(g) /\ DistinctIds(g) /\ NodesAreIds(g) /\ EndsAreIds(g) /\ EdgesFit(g)
    /\ BuiltIsIn(g) /\ Forgotten(g) /\ ReferencedOrLeft(g)

(* Every entity in memory or in a batch; of one id, they have one norm. *)
Known == {entities[n] : n \in DOMAIN entities} \cup UNION {Held(d) : d \in Doc}
OneNorm == \A e, f \in Known : e.id = f.id => e.norm = f.norm

(* There are finitely many ids, so that a new one can be found. *)
DiskIds == {disk.ents[n].id : n \in DOMAIN disk.ents} \cup disk.nodes
             \cup UNION {{l[1], l[2]} : l \in DOMAIN disk.rels}
IdsAreFinite == IsFiniteSet(UsedIds \cup DiskIds)

LinksAreKnown ==
    Nx /\ ~mixed => \A d \in Doc : \A l \in job[d].links : \A id \in {l[1], l[2]} :
                        id \in Ids \/ \E e \in ToSet(job[d].batch) : e.id = id

NotHeld ==
    ~mixed => \A d \in Doc : Gone(d) =>
        \A o \in Doc \ {d} : \A e \in Held(o) : d \notin e.docs

(* What an upsert under way will have stored is stored or in the batch. *)
KeptIsHeld ==
    \A d \in Doc : job[d].phase = "upsert" =>
        \A n \in job[d].kept :
            \/ \E e \in ToSet(job[d].batch) : e.norm = n
            \/ ~Nx /\ InGraph("memory", d, n)

KGInv ==
    /\ Jobs /\ OneNorm /\ IdsAreFinite /\ LinksAreKnown /\ NotHeld /\ KeptIsHeld
    /\ \A g \in Graphs : GraphInv(g)
--------------------------------------------------------------------------------
(* Every nonempty set of numbers has a least one. *)
LEMMA LeastIndex ==
    ASSUME NEW T \in SUBSET Nat, T # {}
    PROVE  \E x \in T : \A y \in T : x <= y
<1> DEFINE less == {ss \in Nat \X Nat : ss[1] < ss[2]}
<1>1. IsWellFoundedOn(less, Nat)
  BY NatLessThanWellFounded, Zenon DEF OpToRel
<1>2. \E x \in T : \A y \in T : ~ (<<y, x>> \in less)
  <2> HIDE DEF IsWellFoundedOn
  <2>1. PICK R : R = less
    OBVIOUS
  <2>2. IsWellFoundedOn(R, Nat)
    BY <1>1, <2>1
  <2>3. \E x \in T : \A y \in T : ~ (<<y, x>> \in R)
    BY <2>2, WFMin
  <2> QED
    BY <2>1, <2>3
<1>3. \A x, y \in Nat : y < x => <<y, x>> \in less
  OBVIOUS
<1>4. PICK x \in T : \A y \in T : ~ (<<y, x>> \in less)
  BY <1>2
<1>5. \A y \in T : ~ (y < x)
  BY <1>3, <1>4
<1>6. x \in Nat /\ \A y \in T : y \in Nat
  OBVIOUS
<1>7. \A y \in T : x <= y
  BY <1>5, <1>6
<1> QED
  BY <1>7

(* The greatest index of some is one of them. *)
LEMMA MaxIsIndex ==
    ASSUME NEW n \in Nat, NEW T \in SUBSET (1..n), T # {}
    PROVE  Max(T) \in T
<1> DEFINE mirror == {n - i : i \in T}
<1>1. mirror \in SUBSET Nat /\ mirror # {}
  OBVIOUS
<1>2. PICK x \in mirror : \A y \in mirror : x <= y
  BY <1>1, LeastIndex
<1>3. PICK i \in T : x = n - i
  OBVIOUS
<1>4. \A j \in T : n - i <= n - j
  BY <1>2, <1>3
<1>5. \A j \in T : i >= j
  <2> TAKE j \in T
  <2>1. i \in 1..n /\ j \in 1..n /\ n - i <= n - j
    BY <1>4
  <2> QED
    BY <2>1
<1>6. \E k \in T : \A j \in T : k >= j
  BY <1>5
<1> QED
  BY <1>6 DEF Max

LEMMA NoElements == ToSet(<<>>) = {} /\ <<>> \in Seq(ToSet(<<>>))
  BY DEF ToSet

LEMMA ElementsOf ==
    ASSUME NEW S, NEW s \in Seq(S)
    PROVE  /\ s \in Seq(ToSet(s))
           /\ ToSet(s) = {s[i] : i \in 1..Len(s)}
<1>1. DOMAIN s = 1..Len(s) /\ Len(s) \in Nat
  BY LenProperties
<1>2. s \in [1..Len(s) -> ToSet(s)]
  <2>1. s \in [1..Len(s) -> S]
    BY <1>1, LenProperties
  <2> QED
    BY <2>1, <1>1 DEF ToSet
<1>3. s \in Seq(ToSet(s))
  BY <1>1, <1>2, SeqDef
<1> QED
  BY <1>1, <1>3 DEF ToSet

LEMMA AppendElements ==
    ASSUME NEW s, s \in Seq(ToSet(s)), NEW e
    PROVE  /\ Append(s, e) \in Seq(ToSet(Append(s, e)))
           /\ ToSet(Append(s, e)) = ToSet(s) \cup {e}
<1> DEFINE S == ToSet(s) \cup {e}
           t == Append(s, e)
<1>1. s \in Seq(S)
  <2>1. ToSet(s) \in SUBSET S
    OBVIOUS
  <2> QED
    BY <2>1, SeqMonotonic
<1>2. e \in S
  OBVIOUS
<1> HIDE DEF S
<1>3. /\ t \in Seq(S) /\ Len(t) = Len(s) + 1
      /\ \A i \in 1..Len(s) : t[i] = s[i]
      /\ t[Len(s) + 1] = e
  BY <1>1, <1>2, AppendProperties
<1> HIDE DEF t
<1>4. t \in Seq(ToSet(t)) /\ ToSet(t) = {t[i] : i \in 1..Len(t)}
  BY <1>3, ElementsOf
<1>5. ToSet(s) = {s[i] : i \in 1..Len(s)}
  BY <1>1, ElementsOf
<1>6. Len(s) \in Nat
  BY <1>1, LenProperties
<1>7. PICK n \in Nat : n = Len(s)
  BY <1>6
<1>8. {t[i] : i \in 1..(n + 1)} = {s[i] : i \in 1..n} \cup {e}
  <2>1. \A i \in 1..n : t[i] = s[i] /\ i \in 1..(n + 1)
    BY <1>3, <1>7
  <2>2. t[n + 1] = e /\ n + 1 \in 1..(n + 1)
    BY <1>3, <1>7
  <2>3. \A i \in 1..(n + 1) : i \in 1..n \/ i = n + 1
    OBVIOUS
  <2> QED
    BY <2>1, <2>2, <2>3
<1>9. ToSet(t) = ToSet(s) \cup {e}
  BY <1>3, <1>4, <1>5, <1>7, <1>8
<1> QED
  BY <1>4, <1>9 DEF t

LEMMA ConcatElements ==
    ASSUME NEW s, s \in Seq(ToSet(s)), NEW t, t \in Seq(ToSet(t))
    PROVE  /\ s \o t \in Seq(ToSet(s \o t))
           /\ ToSet(s \o t) = ToSet(s) \cup ToSet(t)
<1> DEFINE S == ToSet(s) \cup ToSet(t)
           u == s \o t
<1>1. s \in Seq(S) /\ t \in Seq(S)
  <2>1. ToSet(s) \in SUBSET S /\ ToSet(t) \in SUBSET S
    OBVIOUS
  <2> QED
    BY <2>1, SeqMonotonic
<1> HIDE DEF S
<1>2. /\ u \in Seq(S) /\ Len(u) = Len(s) + Len(t)
      /\ \A i \in 1..(Len(s) + Len(t)) : u[i] = IF i <= Len(s) THEN s[i] ELSE t[i - Len(s)]
  BY <1>1, ConcatProperties
<1> HIDE DEF u
<1>3. u \in Seq(ToSet(u)) /\ ToSet(u) = {u[i] : i \in 1..Len(u)}
  <2>1. u \in Seq(S)
    BY <1>2
  <2> QED
    BY <2>1, ElementsOf
<1>4. ToSet(s) = {s[i] : i \in 1..Len(s)} /\ ToSet(t) = {t[i] : i \in 1..Len(t)}
  BY <1>1, ElementsOf
<1>5. Len(s) \in Nat /\ Len(t) \in Nat
  BY <1>1, LenProperties
<1>6. PICK m, n \in Nat : m = Len(s) /\ n = Len(t)
  BY <1>5
<1>7. {u[i] : i \in 1..(m + n)} = {s[i] : i \in 1..m} \cup {t[i] : i \in 1..n}
  <2>1. \A i \in 1..m : u[i] = s[i] /\ i \in 1..(m + n)
    BY <1>2, <1>6
  <2>2. \A i \in 1..n : u[m + i] = t[i] /\ m + i \in 1..(m + n)
    <3> TAKE i \in 1..n
    <3>1. m + i \in 1..(m + n) /\ ~(m + i <= m) /\ (m + i) - m = i
      OBVIOUS
    <3> QED
      BY <3>1, <1>2, <1>6
  <2>3. \A i \in 1..(m + n) : i \in 1..m \/ \E j \in 1..n : i = m + j
    <3> TAKE i \in 1..(m + n)
    <3>1. i \in 1..m \/ (i - m \in 1..n /\ i = m + (i - m))
      OBVIOUS
    <3> QED
      BY <3>1
  <2>4. \A x \in {u[i] : i \in 1..(m + n)} : x \in {s[i] : i \in 1..m} \cup {t[i] : i \in 1..n}
    <3> TAKE x \in {u[i] : i \in 1..(m + n)}
    <3>1. PICK i \in 1..(m + n) : x = u[i]
      OBVIOUS
    <3>2. CASE i \in 1..m
      BY <3>1, <3>2, <2>1
    <3>3. CASE \E j \in 1..n : i = m + j
      BY <3>1, <3>3, <2>2
    <3> QED
      BY <3>1, <3>2, <3>3, <2>3
  <2>5. {s[i] : i \in 1..m} \subseteq {u[i] : i \in 1..(m + n)}
    BY <2>1
  <2>6. {t[i] : i \in 1..n} \subseteq {u[i] : i \in 1..(m + n)}
    BY <2>2
  <2> QED
    BY <2>4, <2>5, <2>6
<1>8. ToSet(u) = ToSet(s) \cup ToSet(t)
  BY <1>2, <1>3, <1>4, <1>6, <1>7
<1> QED
  BY <1>3, <1>8 DEF u

LEMMA TailElements ==
    ASSUME NEW s, s \in Seq(ToSet(s)), s # <<>>
    PROVE  /\ Tail(s) \in Seq(ToSet(Tail(s)))
           /\ ToSet(s) = ToSet(Tail(s)) \cup {Head(s)}
<1> DEFINE S == ToSet(s)
           u == Tail(s)
<1>1. /\ u \in Seq(S) /\ Len(u) = Len(s) - 1
      /\ \A i \in 1..Len(u) : u[i] = s[i + 1]
  BY HeadTailProperties
<1>2. Head(s) = s[1]
  OBVIOUS
<1>3. ToSet(s) = {s[i] : i \in 1..Len(s)}
  BY ElementsOf
<1> HIDE DEF S, u
<1>4. u \in Seq(ToSet(u)) /\ ToSet(u) = {u[i] : i \in 1..Len(u)}
  BY <1>1, ElementsOf, SMTT(30)
<1>5. Len(u) \in Nat /\ Len(s) \in Nat
  BY <1>1, LenProperties DEF S
<1>6. PICK n \in Nat : n = Len(u)
  BY <1>5
<1>7. Len(s) = n + 1
  BY <1>1, <1>5, <1>6
<1>8. {s[i] : i \in 1..(n + 1)} = {u[i] : i \in 1..n} \cup {s[1]}
  <2>1. \A i \in 1..n : u[i] = s[i + 1] /\ i + 1 \in 1..(n + 1)
    BY <1>1, <1>6
  <2>2. 1 \in 1..(n + 1)
    OBVIOUS
  <2>3. \A i \in 1..(n + 1) : i = 1 \/ \E j \in 1..n : i = j + 1
    <3> TAKE i \in 1..(n + 1)
    <3>1. i = 1 \/ (i - 1 \in 1..n /\ i = (i - 1) + 1)
      OBVIOUS
    <3> QED
      BY <3>1
  <2>4. \A x \in {s[i] : i \in 1..(n + 1)} : x \in {u[i] : i \in 1..n} \cup {s[1]}
    <3> TAKE x \in {s[i] : i \in 1..(n + 1)}
    <3>1. PICK i \in 1..(n + 1) : x = s[i]
      OBVIOUS
    <3>2. CASE i = 1
      BY <3>1, <3>2
    <3>3. CASE \E j \in 1..n : i = j + 1
      BY <3>1, <3>3, <2>1, ZenonT(60)
    <3> QED
      BY <3>2, <3>3, <2>3
  <2>5. {u[i] : i \in 1..n} \subseteq {s[i] : i \in 1..(n + 1)}
    BY <2>1
  <2> QED
    BY <2>2, <2>4, <2>5
<1> QED
  BY <1>2, <1>3, <1>4, <1>6, <1>7, <1>8 DEF u

(* A uuid4 nobody has: the ids are finitely many. *)
LEMMA FreshIdIsNew ==
    ASSUME IdsAreFinite
    PROVE  FreshId \notin UsedIds
<1>1. IsFiniteSet(UsedIds)
  BY FS_Subset DEF IdsAreFinite
<1> DEFINE c == Cardinality(UsedIds)
<1>2. c \in Nat
  BY <1>1, FS_CardinalityType
<1> HIDE DEF c
<1>3. IsFiniteSet(0..c) /\ Cardinality(0..c) = c + 1
  BY <1>2, FS_Interval
<1>4. \E id \in 0..c : id \notin UsedIds
  <2> SUFFICES ASSUME \A id \in 0..c : id \in UsedIds
               PROVE  FALSE
    OBVIOUS
  <2>1. 0..c \in SUBSET UsedIds
    OBVIOUS
  <2>2. Cardinality(0..c) <= Cardinality(UsedIds)
    BY <1>1, <2>1, FS_Subset
  <2> QED
    BY <2>2, <1>2, <1>3 DEF c
<1> HIDE DEF UsedIds
<1>5. (CHOOSE id \in 0..c : id \notin UsedIds) \notin UsedIds
  BY <1>4
<1> QED
  BY <1>5 DEF FreshId, c
--------------------------------------------------------------------------------
(* What an upsert leaves under a key has the id and the norm of what was   *)
(* there, and the documents of both.                                       *)
LEMMA StoredEntity ==
    ASSUME NEW old, IsEntity(old), NEW e
    PROVE  /\ IsEntity(Stored(old, e))
           /\ Stored(old, e).norm = old.norm /\ Stored(old, e).id = old.id
           /\ Stored(old, e).name = old.name /\ Stored(old, e).vec = old.vec
           /\ Stored(old, e).docs = old.docs \cup e.docs
<1>1. PICK a, b, c, x, v : old = [norm |-> a, id |-> b, name |-> c, docs |-> x, vec |-> v]
  BY DEF IsEntity
<1>2. Stored(old, e) = [norm |-> a, id |-> b, name |-> c, docs |-> x \cup e.docs, vec |-> v]
  <2>1. Stored(old, e) = [old EXCEPT !.docs = old.docs \cup e.docs]
    BY DEF Stored
  <2>2. PICK y : y = old.docs \cup e.docs
    OBVIOUS
  <2>3. [old EXCEPT !.docs = y] = [norm |-> a, id |-> b, name |-> c, docs |-> y, vec |-> v]
    BY <1>1
  <2> QED
    BY <1>1, <2>1, <2>2, <2>3
<1> QED
  BY <1>1, <1>2 DEF IsEntity

(* A batch is stored as if one entity came after the other, as far as it   *)
(* goes: an entity under a new key is the batch's first with that norm and *)
(* has its node; if none raises, each one is stored and has a node.        *)
Upserted(batch) ==
    LET done == UpsertAll(batch)
    IN  /\ done.ents = [n \in DOMAIN done.ents |-> done.ents[n]]
        /\ DOMAIN entities \subseteq DOMAIN done.ents
        /\ \A n \in DOMAIN done.ents :
            \E old \in {entities[m] : m \in DOMAIN entities} \cup ToSet(batch) :
                /\ n \in DOMAIN entities => old = entities[n]
                /\ n \notin DOMAIN entities => old \in ToSet(batch) /\ old.id \in done.nodes
                /\ old.norm = n /\ IsEntity(done.ents[n])
                /\ done.ents[n].norm = n /\ done.ents[n].id = old.id
                /\ old.docs \subseteq done.ents[n].docs
                /\ \A x \in done.ents[n].docs \ old.docs : \E e \in ToSet(batch) : x \in e.docs
        /\ nodes \subseteq done.nodes
        /\ \A id \in done.nodes \ nodes :
            \E n \in DOMAIN done.ents \ DOMAIN entities : done.ents[n].id = id
        /\ done.ok => \A e \in ToSet(batch) :
            e.norm \in DOMAIN done.ents /\ e.docs \subseteq done.ents[e.norm].docs /\ e.id \in done.nodes

LEMMA UpsertsBatch ==
    ASSUME NEW batch, batch \in Seq(ToSet(batch)), \A e \in ToSet(batch) : IsEntity(e),
           EntitiesAreKeyed("memory")
    PROVE  Upserted(batch)
<1> DEFINE reached == Reached(batch)
           made == {i \in reached : First(batch, i)}
           into(n) == {i \in reached : batch[i].norm = n}
           before(n) == IF n \in DOMAIN entities THEN entities[n]
                        ELSE batch[CHOOSE i \in made : batch[i].norm = n]
           added(n) == [docs |-> UNION {batch[i].docs : i \in into(n)}]
           keys == DOMAIN entities \cup {batch[i].norm : i \in made}
           ents == [n \in keys |-> Stored(before(n), added(n))]
           nds == nodes \cup {batch[i].id : i \in made}
           done == UpsertAll(batch)
<1>1. /\ done.ents = ents /\ done.nodes = nds
      /\ done.ok = \A i \in DOMAIN batch : ~Raises(batch, i)
  BY DEF UpsertAll
<1>2. PICK len \in Nat : DOMAIN batch = 1..len
  BY LenProperties
<1>3. \A i \in 1..len : batch[i] \in ToSet(batch) /\ IsEntity(batch[i])
  BY <1>2 DEF ToSet
<1>4. reached \subseteq 1..len /\ made \subseteq reached
  BY <1>2 DEF Reached
<1>5. \A n \in DOMAIN entities : IsEntity(entities[n]) /\ entities[n].norm = n
  BY DEF EntitiesAreKeyed, Ents
<1>6. \A i, j \in made : batch[i].norm = batch[j].norm => i = j
  <2> SUFFICES ASSUME NEW i \in made, NEW j \in made, batch[i].norm = batch[j].norm
               PROVE  i = j
    OBVIOUS
  <2>1. i \in 1..len /\ j \in 1..len
    BY <1>4
  <2>2. \A k \in 1..(i - 1) : batch[k].norm # batch[i].norm
    BY DEF First
  <2>3. \A k \in 1..(j - 1) : batch[k].norm # batch[j].norm
    BY DEF First
  <2>4. ~(i < j) /\ ~(j < i)
    BY <2>1, <2>2, <2>3
  <2> QED
    BY <2>1, <2>4
<1> HIDE DEF made, reached
<1>7. \A n \in keys : n \notin DOMAIN entities =>
        \E i \in made : batch[i].norm = n /\ before(n) = batch[i]
  <2> TAKE n \in keys
  <2> HAVE n \notin DOMAIN entities
  <2>1. PICK i \in made : batch[i].norm = n
    OBVIOUS
  <2>2. (CHOOSE k \in made : batch[k].norm = n) \in made
        /\ batch[CHOOSE k \in made : batch[k].norm = n].norm = n
    BY <2>1
  <2> QED
    BY <2>2
<1>8. \A n \in keys : before(n).norm = n /\ IsEntity(before(n))
                      /\ before(n) \in {entities[m] : m \in DOMAIN entities} \cup ToSet(batch)
  <2> TAKE n \in keys
  <2>1. CASE n \in DOMAIN entities
    BY <2>1, <1>5
  <2>2. CASE n \notin DOMAIN entities
    <3>1. PICK i \in made : batch[i].norm = n /\ before(n) = batch[i]
      BY <2>2, <1>7
    <3>2. i \in 1..len
      BY <1>4
    <3> QED
      BY <3>1, <3>2, <1>3
  <2> QED
    BY <2>1, <2>2
<1> HIDE DEF before
<1>9. \A n \in keys : /\ IsEntity(ents[n]) /\ ents[n].norm = n /\ ents[n].id = before(n).id
                      /\ ents[n].docs = before(n).docs \cup UNION {batch[i].docs : i \in into(n)}
  <2> TAKE n \in keys
  <2>1. ents[n] = Stored(before(n), added(n))
    OBVIOUS
  <2>2. added(n).docs = UNION {batch[i].docs : i \in into(n)}
    OBVIOUS
  <2> HIDE DEF ents, added
  <2>3. /\ IsEntity(Stored(before(n), added(n)))
        /\ Stored(before(n), added(n)).norm = before(n).norm
        /\ Stored(before(n), added(n)).id = before(n).id
        /\ Stored(before(n), added(n)).docs = before(n).docs \cup added(n).docs
    BY <1>8, StoredEntity
  <2> QED
    BY <2>1, <2>2, <2>3, <1>8
<1>10. DOMAIN ents = keys
  OBVIOUS
<1>11. \A i \in made : batch[i].norm \in keys /\ batch[i].norm \notin DOMAIN entities
                       /\ ents[batch[i].norm].id = batch[i].id
  <2> TAKE i \in made
  <2>1. batch[i].norm \in keys
    OBVIOUS
  <2>2. batch[i].norm \notin DOMAIN entities
    BY DEF made, First
  <2>3. PICK j \in made : batch[j].norm = batch[i].norm /\ before(batch[i].norm) = batch[j]
    BY <2>1, <2>2, <1>7
  <2>4. j = i
    BY <2>3, <1>6
  <2> QED
    BY <2>1, <2>2, <2>3, <2>4, <1>9
<1>12. \A n \in DOMAIN ents :
        \E old \in {entities[m] : m \in DOMAIN entities} \cup ToSet(batch) :
            /\ n \in DOMAIN entities => old = entities[n]
            /\ n \notin DOMAIN entities => old \in ToSet(batch) /\ old.id \in nds
            /\ old.norm = n /\ IsEntity(ents[n])
            /\ ents[n].norm = n /\ ents[n].id = old.id
            /\ old.docs \subseteq ents[n].docs
            /\ \A x \in ents[n].docs \ old.docs : \E e \in ToSet(batch) : x \in e.docs
  <2> TAKE n \in DOMAIN ents
  <2>1. n \in keys
    BY <1>10
  <2>2. n \in DOMAIN entities => before(n) = entities[n]
    BY DEF before
  <2>3. n \notin DOMAIN entities => before(n) \in ToSet(batch) /\ before(n).id \in nds
    <3> HAVE n \notin DOMAIN entities
    <3>1. PICK i \in made : batch[i].norm = n /\ before(n) = batch[i]
      BY <2>1, <1>7
    <3>2. i \in 1..len
      BY <1>4
    <3> QED
      BY <3>1, <3>2, <1>3
  <2>4. \A x \in ents[n].docs \ before(n).docs : \E e \in ToSet(batch) : x \in e.docs
    <3> TAKE x \in ents[n].docs \ before(n).docs
    <3>1. n \in keys /\ ents[n].docs = before(n).docs \cup UNION {batch[i].docs : i \in into(n)}
      BY <2>1, <1>9
    <3>2. x \in UNION {batch[i].docs : i \in into(n)}
      <4> HIDE DEF ents, into
      <4> QED
        BY <3>1
    <3>3. PICK i \in into(n) : x \in batch[i].docs
      BY <3>2
    <3>4. i \in 1..len
      BY <1>4
    <3> QED
      BY <3>3, <3>4, <1>3
  <2>5. before(n).docs \subseteq ents[n].docs
    BY <2>1, <1>9
  <2> WITNESS before(n) \in {entities[m] : m \in DOMAIN entities} \cup ToSet(batch)
  <2> HIDE DEF ents
  <2> QED
    BY <2>1, <2>2, <2>3, <2>4, <2>5, <1>8, <1>9
<1>13. \A id \in nds \ nodes : \E n \in DOMAIN ents \ DOMAIN entities : ents[n].id = id
  <2> TAKE id \in nds \ nodes
  <2>1. PICK i \in made : id = batch[i].id
    OBVIOUS
  <2> HIDE DEF ents
  <2> QED
    BY <2>1, <1>10, <1>11
<1>14. ASSUME \A i \in DOMAIN batch : ~Raises(batch, i), NEW e \in ToSet(batch)
       PROVE  e.norm \in DOMAIN ents /\ e.docs \subseteq ents[e.norm].docs /\ e.id \in nds
  <2>1. PICK i \in 1..len : e = batch[i]
    BY <1>2 DEF ToSet
  <2>2. reached = 1..len
    <3> SUFFICES ASSUME NEW k \in 1..len
                 PROVE  k \in reached
      BY <1>4
    <3>1. \A j \in 1..(k - 1) : j \in 1..len
      OBVIOUS
    <3> QED
      BY <3>1, <1>2, <1>14 DEF reached, Reached
  <2>3. e.norm \in keys
    <3>1. CASE e.norm \in DOMAIN entities
      BY <3>1
    <3>2. CASE e.norm \notin DOMAIN entities
      <4> DEFINE same == {k \in 1..len : batch[k].norm = e.norm}
      <4>1. same \in SUBSET Nat /\ same # {}
        BY <2>1
      <4>2. PICK k \in same : \A j \in same : k <= j
        BY <4>1, LeastIndex
      <4>3. \A j \in 1..(k - 1) : batch[j].norm # batch[k].norm
        <5> TAKE j \in 1..(k - 1)
        <5>1. j \in 1..len /\ ~(k <= j)
          OBVIOUS
        <5> QED
          BY <5>1, <4>2
      <4>4. First(batch, k)
        BY <3>2, <4>3 DEF First
      <4>5. k \in made
        BY <2>2, <4>4 DEF made
      <4> QED
        BY <4>5
    <3> QED
      BY <3>1, <3>2
  <2>4. i \in into(e.norm)
    BY <2>1, <2>2
  <2>5. e.docs \subseteq ents[e.norm].docs
    <3>1. e.docs \subseteq UNION {batch[k].docs : k \in into(e.norm)}
      BY <2>1, <2>4
    <3> QED
      BY <2>3, <3>1, <1>9, ZenonT(60)
  <2>6. e.id \in nds
    <3>1. CASE First(batch, i)
      <4>1. i \in made
        BY <2>2, <3>1 DEF made
      <4> QED
        BY <2>1, <4>1
    <3>2. CASE ~First(batch, i)
      <4>1. batch[i].id \in NodesBefore(batch, i)
        BY <1>14, <1>2, <3>2 DEF Raises
      <4>2. ASSUME NEW k \in 1..(i - 1), First(batch, k)
            PROVE  k \in made
        <5>1. k \in 1..len
          OBVIOUS
        <5> QED
          BY <5>1, <2>2, <4>2 DEF made
      <4> QED
        BY <2>1, <4>1, <4>2 DEF NodesBefore
    <3> QED
      BY <3>1, <3>2
  <2> QED
    BY <2>3, <2>5, <2>6, <1>10
<1>15. ents = [n \in DOMAIN ents |-> ents[n]]
  OBVIOUS
<1>16. DOMAIN entities \subseteq DOMAIN ents /\ nodes \subseteq nds
  BY <1>10
<1>17. done.ok => \A e \in ToSet(batch) :
         e.norm \in DOMAIN ents /\ e.docs \subseteq ents[e.norm].docs /\ e.id \in nds
  BY <1>1, <1>14
<1> HIDE DEF ents, nds, done
<1> QED
  BY <1>1, <1>12, <1>13, <1>15, <1>16, <1>17 DEF Upserted, done
--------------------------------------------------------------------------------
(* What a step of d's job makes of its record; the other jobs stay. *)
Becomes(d, phase, own, batch, links, kept, rebuild) ==
    /\ Jobs' /\ \A o \in Doc \ {d} : job'[o] = job[o]
    /\ job'[d].phase = phase /\ job'[d].own = own /\ job'[d].batch = batch
    /\ job'[d].links = links /\ job'[d].kept = kept /\ job'[d].rebuild = rebuild

(* A job is given a record in order; what follows, one lemma per step,     *)
(* says which. *)
LEMMA JobUpdate ==
    ASSUME Jobs, NEW d \in Doc, NEW r, GoodJob(d, r), To(d, r), wiring' = wiring
    PROVE  Becomes(d, r.phase, r.own, r.batch, r.links, r.kept, r.rebuild)
<1>1. job'[d] = r /\ \A o \in Doc \ {d} : job'[o] = job[o]
  BY DEF Jobs, To
<1>2. job' = [o \in Doc |-> job'[o]]
  BY DEF Jobs, To
<1>3. \A o \in Doc : GoodJob(o, job'[o])
  BY <1>1 DEF Jobs
<1>4. Nx' = Nx
  BY DEF Nx
<1>5. \A o \in Doc : GoodJob(o, job[o])'
  <2> TAKE o \in Doc
  <2>1. GoodJob(o, job'[o])
    BY <1>3
  <2> QED
    BY <1>4, <2>1 DEF GoodJob, IsJob, IsEntity
<1>6. Jobs'
  BY <1>2, <1>5 DEF Jobs
<1> QED
  BY <1>1, <1>6 DEF Becomes

LEMMA BrokenJob ==
    ASSUME Jobs, NEW d \in Doc, To(d, Broken(d)), wiring' = wiring
    PROVE  Becomes(d, IF job[d].rebuild THEN "aborted" ELSE "raised", <<>>, <<>>, {}, {}, FALSE)
<1> DEFINE p == IF job[d].rebuild THEN "aborted" ELSE "raised"
<1>1. p \in {"aborted", "raised"}
  OBVIOUS
<1>2. Broken(d) = [NoJob EXCEPT !.phase = p]
  BY DEF Broken
<1> HIDE DEF p
<1>3. /\ IsJob(Broken(d)) /\ Broken(d).phase = p /\ Broken(d).own = <<>>
      /\ Broken(d).batch = <<>> /\ Broken(d).links = {} /\ Broken(d).kept = {}
      /\ Broken(d).rebuild = FALSE
  BY <1>2 DEF NoJob, IsJob
<1>4. GoodJob(d, Broken(d))
  BY <1>1, <1>3, NoElements DEF GoodJob
<1>5. Becomes(d, Broken(d).phase, Broken(d).own, Broken(d).batch, Broken(d).links,
              Broken(d).kept, Broken(d).rebuild)
  BY <1>4, JobUpdate
<1> QED
  BY <1>3, <1>5 DEF p

(* The fields of a record written out, and one with fields replaced. *)
LEMMA JobRecord ==
    ASSUME NEW j, NEW p, NEW t, NEW f, NEW s, NEW o, NEW b, NEW l, NEW k, NEW u,
           j = [phase |-> p, todo |-> t, found |-> f, said |-> s, own |-> o, batch |-> b,
                links |-> l, kept |-> k, rebuild |-> u]
    PROVE  /\ IsJob(j) /\ j.phase = p /\ j.todo = t /\ j.found = f /\ j.said = s /\ j.own = o
           /\ j.batch = b /\ j.links = l /\ j.kept = k /\ j.rebuild = u
  BY DEF IsJob

LEMMA StartBuildJob ==
    ASSUME Jobs, NEW d \in Doc, StartBuild(d)
    PROVE  Becomes(d, "extract", <<>>, <<>>, {}, {}, FALSE)
<1>1. PICK t : t = ChunksOf[d]
  OBVIOUS
<1> DEFINE r == [NoJob EXCEPT !.phase = "extract", !.todo = t]
<1>2. r = [phase |-> "extract", todo |-> t, found |-> <<>>, said |-> {}, own |-> <<>>,
           batch |-> <<>>, links |-> {}, kept |-> {}, rebuild |-> FALSE]
  <2>1. /\ DOMAIN r = {"phase", "todo", "found", "said", "own", "batch", "links", "kept",
                       "rebuild"}
        /\ r = [x \in DOMAIN r |-> r[x]]
    BY DEF NoJob
  <2>2. /\ r.phase = "extract" /\ r.todo = t /\ r.found = <<>>
        /\ r.said = {} /\ r.own = <<>> /\ r.batch = <<>>
        /\ r.links = {} /\ r.kept = {} /\ r.rebuild = FALSE
    BY DEF NoJob
  <2> HIDE DEF r
  <2> QED
    BY <2>1, <2>2
<1>3. To(d, r) /\ wiring' = wiring
  BY <1>1 DEF StartBuild
<1> HIDE DEF r
<1>4. /\ IsJob(r) /\ r.phase = "extract" /\ r.own = <<>> /\ r.batch = <<>>
      /\ r.links = {} /\ r.kept = {} /\ r.rebuild = FALSE
  BY <1>2, JobRecord
<1>5. GoodJob(d, r)
  BY <1>4, NoElements DEF GoodJob
<1>6. Becomes(d, r.phase, r.own, r.batch, r.links, r.kept, r.rebuild)
  BY <1>3, <1>5, JobUpdate
<1> QED
  BY <1>4, <1>6

LEMMA WrittenOut ==
    ASSUME NEW j, IsJob(j)
    PROVE  \E p, t, f, s, o, b, l, k, u :
            j = [phase |-> p, todo |-> t, found |-> f, said |-> s, own |-> o,
                 batch |-> b, links |-> l, kept |-> k, rebuild |-> u]
<1> WITNESS j.phase, j.todo, j.found, j.said, j.own, j.batch, j.links, j.kept, j.rebuild
<1> QED
  BY DEF IsJob

LEMMA ExtractJob ==
    ASSUME Jobs, NEW d \in Doc, Extract(d)
    PROVE  /\ job[d].phase = "extract"
           /\ \E p \in {"extract", "merge"} :
                Becomes(d, p, job[d].own, job[d].batch, job[d].links, job[d].kept, job[d].rebuild)
<1>1. GoodJob(d, job[d]) /\ wiring' = wiring /\ job[d].phase = "extract"
  BY DEF Jobs, Extract
<1>2. PICK p, t, f, s, o, b, l, k, u :
        job[d] = [phase |-> p, todo |-> t, found |-> f, said |-> s, own |-> o,
                  batch |-> b, links |-> l, kept |-> k, rebuild |-> u]
  BY <1>1, WrittenOut DEF GoodJob
<1>3. /\ job[d].phase = p /\ job[d].todo = t /\ job[d].found = f /\ job[d].said = s
      /\ job[d].own = o /\ job[d].batch = b /\ job[d].links = l /\ job[d].kept = k
      /\ job[d].rebuild = u
  BY <1>2, JobRecord
<1>4. ASSUME NEW t2, To(d, [job[d] EXCEPT !.todo = t2])
      PROVE  Becomes(d, "extract", job[d].own, job[d].batch, job[d].links, job[d].kept, job[d].rebuild)
  <2> DEFINE r == [job[d] EXCEPT !.todo = t2]
  <2>2. r = [phase |-> p, todo |-> t2, found |-> f, said |-> s, own |-> o,
               batch |-> b, links |-> l, kept |-> k, rebuild |-> u]
    BY <1>2
  <2>3. To(d, r)
    BY <1>1, <1>3, <1>4
  <2> HIDE DEF r
  <2>4. /\ IsJob(r) /\ r.phase = p /\ r.own = o /\ r.batch = b
        /\ r.links = l /\ r.kept = k /\ r.rebuild = u
    BY <2>2, JobRecord
  <2>5. GoodJob(d, r)
    BY <1>1, <1>3, <2>4 DEF GoodJob
  <2>6. Becomes(d, r.phase, r.own, r.batch, r.links, r.kept, r.rebuild)
    BY <1>1, <2>3, <2>5, JobUpdate
  <2> QED
    BY <1>1, <1>3, <2>4, <2>6
<1>5. ASSUME NEW f2, NEW s2, To(d, [job[d] EXCEPT !.phase = "merge", !.found = f2, !.said = s2])
      PROVE  Becomes(d, "merge", job[d].own, job[d].batch, job[d].links, job[d].kept, job[d].rebuild)
  <2> DEFINE r == [job[d] EXCEPT !.phase = "merge", !.found = f2, !.said = s2]
  <2>2. r = [phase |-> "merge", todo |-> t, found |-> f2, said |-> s2, own |-> o,
               batch |-> b, links |-> l, kept |-> k, rebuild |-> u]
    <3>1. /\ DOMAIN r = {"phase", "todo", "found", "said", "own", "batch", "links", "kept",
                         "rebuild"}
          /\ r = [x \in DOMAIN r |-> r[x]]
      BY <1>2
    <3>2. /\ r.phase = "merge" /\ r.todo = t /\ r.found = f2
          /\ r.said = s2 /\ r.own = o /\ r.batch = b
          /\ r.links = l /\ r.kept = k /\ r.rebuild = u
      BY <1>2
    <3> HIDE DEF r
    <3> QED
      BY <3>1, <3>2
  <2>3. To(d, r)
    BY <1>1, <1>3, <1>5
  <2> HIDE DEF r
  <2>4. /\ IsJob(r) /\ r.phase = "merge" /\ r.own = o /\ r.batch = b
        /\ r.links = l /\ r.kept = k /\ r.rebuild = u
    BY <2>2, JobRecord
  <2>5. GoodJob(d, r)
    BY <1>1, <1>3, <2>4 DEF GoodJob
  <2>6. Becomes(d, r.phase, r.own, r.batch, r.links, r.kept, r.rebuild)
    BY <1>1, <2>3, <2>5, JobUpdate
  <2> QED
    BY <1>1, <1>3, <2>4, <2>6
<1> QED
  BY <1>1, <1>3, <1>4, <1>5 DEF Extract

LEMMA EndExtractionJob ==
    ASSUME Jobs, NEW d \in Doc, EndExtraction(d)
    PROVE  /\ job[d].phase = "extract"
           /\ Becomes(d, "upsert", job[d].own, job[d].batch, job[d].links, {e.norm : e \in ToSet(job[d].batch)}, job[d].rebuild)
<1>1. GoodJob(d, job[d]) /\ wiring' = wiring /\ job[d].phase = "extract"
  BY DEF Jobs, EndExtraction
<1>2. PICK p, t, f, s, o, b, l, k, u :
        job[d] = [phase |-> p, todo |-> t, found |-> f, said |-> s, own |-> o,
                  batch |-> b, links |-> l, kept |-> k, rebuild |-> u]
  BY <1>1, WrittenOut DEF GoodJob
<1>3. /\ job[d].phase = p /\ job[d].todo = t /\ job[d].found = f /\ job[d].said = s
      /\ job[d].own = o /\ job[d].batch = b /\ job[d].links = l /\ job[d].kept = k
      /\ job[d].rebuild = u
  BY <1>2, JobRecord
<1>4. Becomes(d, "upsert", job[d].own, job[d].batch, job[d].links, {e.norm : e \in ToSet(job[d].batch)}, job[d].rebuild)
  <2>1. PICK k2 : k2 = {e.norm : e \in ToSet(job[d].batch)}
    OBVIOUS
  <2> DEFINE r == [job[d] EXCEPT !.phase = "upsert", !.kept = k2]
  <2>2. r = [phase |-> "upsert", todo |-> t, found |-> f, said |-> s, own |-> o,
               batch |-> b, links |-> l, kept |-> k2, rebuild |-> u]
    <3>1. /\ DOMAIN r = {"phase", "todo", "found", "said", "own", "batch", "links", "kept",
                         "rebuild"}
          /\ r = [x \in DOMAIN r |-> r[x]]
      BY <1>2
    <3>2. /\ r.phase = "upsert" /\ r.todo = t /\ r.found = f
          /\ r.said = s /\ r.own = o /\ r.batch = b
          /\ r.links = l /\ r.kept = k2 /\ r.rebuild = u
      BY <1>2
    <3> HIDE DEF r
    <3> QED
      BY <3>1, <3>2
  <2>3. To(d, r)
    BY <1>1, <1>3, <2>1 DEF EndExtraction
  <2> HIDE DEF r
  <2>4. /\ IsJob(r) /\ r.phase = "upsert" /\ r.own = o /\ r.batch = b
        /\ r.links = l /\ r.kept = k2 /\ r.rebuild = u
    BY <2>2, JobRecord
  <2>5. GoodJob(d, r)
    BY <1>1, <1>3, <2>4 DEF GoodJob
  <2>6. Becomes(d, r.phase, r.own, r.batch, r.links, r.kept, r.rebuild)
    BY <1>1, <2>3, <2>5, JobUpdate
  <2> QED
    BY <1>1, <1>3, <2>4, <2>6, <2>1
<1> QED
  BY <1>1, <1>3, <1>4 DEF EndExtraction

LEMMA EndEntitiesNeo4jJob ==
    ASSUME Jobs, NEW d \in Doc, EndEntitiesNeo4j(d)
    PROVE  /\ ~Nx /\ job[d].phase = "upsert" /\ job[d].batch = <<>>
           /\ Becomes(d, "relate", job[d].own, job[d].batch, job[d].links, job[d].kept, job[d].rebuild)
<1>1. GoodJob(d, job[d]) /\ wiring' = wiring /\ job[d].phase = "upsert" /\ ~Nx /\ job[d].batch = <<>>
  BY DEF Jobs, EndEntitiesNeo4j
<1>2. PICK p, t, f, s, o, b, l, k, u :
        job[d] = [phase |-> p, todo |-> t, found |-> f, said |-> s, own |-> o,
                  batch |-> b, links |-> l, kept |-> k, rebuild |-> u]
  BY <1>1, WrittenOut DEF GoodJob
<1>3. /\ job[d].phase = p /\ job[d].todo = t /\ job[d].found = f /\ job[d].said = s
      /\ job[d].own = o /\ job[d].batch = b /\ job[d].links = l /\ job[d].kept = k
      /\ job[d].rebuild = u
  BY <1>2, JobRecord
<1>4. Becomes(d, "relate", job[d].own, job[d].batch, job[d].links, job[d].kept, job[d].rebuild)
  <2> DEFINE r == [job[d] EXCEPT !.phase = "relate"]
  <2>2. r = [phase |-> "relate", todo |-> t, found |-> f, said |-> s, own |-> o,
               batch |-> b, links |-> l, kept |-> k, rebuild |-> u]
    BY <1>2
  <2>3. To(d, r)
    BY <1>1, <1>3 DEF EndEntitiesNeo4j
  <2> HIDE DEF r
  <2>4. /\ IsJob(r) /\ r.phase = "relate" /\ r.own = o /\ r.batch = b
        /\ r.links = l /\ r.kept = k /\ r.rebuild = u
    BY <2>2, JobRecord
  <2>5. GoodJob(d, r)
    BY <1>1, <1>3, <2>4 DEF GoodJob
  <2>6. Becomes(d, r.phase, r.own, r.batch, r.links, r.kept, r.rebuild)
    BY <1>1, <2>3, <2>5, JobUpdate
  <2> QED
    BY <1>1, <1>3, <2>4, <2>6
<1> QED
  BY <1>1, <1>3, <1>4 DEF EndEntitiesNeo4j

LEMMA UpsertRelationsNxJob ==
    ASSUME Jobs, NEW d \in Doc, UpsertRelationsNx(d)
    PROVE  /\ Nx /\ job[d].phase = "relate"
           /\ Becomes(d, "built", job[d].own, job[d].batch, {}, job[d].kept, job[d].rebuild)
<1>1. GoodJob(d, job[d]) /\ wiring' = wiring /\ job[d].phase = "relate" /\ Nx
  BY DEF Jobs, UpsertRelationsNx
<1>2. PICK p, t, f, s, o, b, l, k, u :
        job[d] = [phase |-> p, todo |-> t, found |-> f, said |-> s, own |-> o,
                  batch |-> b, links |-> l, kept |-> k, rebuild |-> u]
  BY <1>1, WrittenOut DEF GoodJob
<1>3. /\ job[d].phase = p /\ job[d].todo = t /\ job[d].found = f /\ job[d].said = s
      /\ job[d].own = o /\ job[d].batch = b /\ job[d].links = l /\ job[d].kept = k
      /\ job[d].rebuild = u
  BY <1>2, JobRecord
<1>4. Becomes(d, "built", job[d].own, job[d].batch, {}, job[d].kept, job[d].rebuild)
  <2> DEFINE r == [job[d] EXCEPT !.phase = "built", !.links = {}]
  <2>2. r = [phase |-> "built", todo |-> t, found |-> f, said |-> s, own |-> o,
               batch |-> b, links |-> {}, kept |-> k, rebuild |-> u]
    <3>1. /\ DOMAIN r = {"phase", "todo", "found", "said", "own", "batch", "links", "kept",
                         "rebuild"}
          /\ r = [x \in DOMAIN r |-> r[x]]
      BY <1>2
    <3>2. /\ r.phase = "built" /\ r.todo = t /\ r.found = f
          /\ r.said = s /\ r.own = o /\ r.batch = b
          /\ r.links = {} /\ r.kept = k /\ r.rebuild = u
      BY <1>2
    <3> HIDE DEF r
    <3> QED
      BY <3>1, <3>2
  <2>3. To(d, r)
    BY <1>1, <1>3 DEF UpsertRelationsNx
  <2> HIDE DEF r
  <2>4. /\ IsJob(r) /\ r.phase = "built" /\ r.own = o /\ r.batch = b
        /\ r.links = {} /\ r.kept = k /\ r.rebuild = u
    BY <2>2, JobRecord
  <2>5. GoodJob(d, r)
    BY <1>1, <1>3, <2>4 DEF GoodJob
  <2>6. Becomes(d, r.phase, r.own, r.batch, r.links, r.kept, r.rebuild)
    BY <1>1, <2>3, <2>5, JobUpdate
  <2> QED
    BY <1>1, <1>3, <2>4, <2>6
<1> QED
  BY <1>1, <1>3, <1>4 DEF UpsertRelationsNx

LEMMA UpsertRelationNeo4jJob ==
    ASSUME Jobs, NEW d \in Doc, NEW l2 \in SUBSET job[d].links,
           ~Nx, job[d].phase = "relate", wiring' = wiring,
           To(d, [job[d] EXCEPT !.links = l2])
    PROVE  Becomes(d, "relate", job[d].own, job[d].batch, l2, job[d].kept, job[d].rebuild)
<1>1. GoodJob(d, job[d])
  BY DEF Jobs
<1>2. PICK p, t, f, s, o, b, l, k, u :
        job[d] = [phase |-> p, todo |-> t, found |-> f, said |-> s, own |-> o,
                  batch |-> b, links |-> l, kept |-> k, rebuild |-> u]
  BY <1>1, WrittenOut DEF GoodJob
<1>3. /\ job[d].phase = p /\ job[d].todo = t /\ job[d].found = f /\ job[d].said = s
      /\ job[d].own = o /\ job[d].batch = b /\ job[d].links = l /\ job[d].kept = k
      /\ job[d].rebuild = u
  BY <1>2, JobRecord
<1> DEFINE r == [job[d] EXCEPT !.links = l2]
<1>4. r = [phase |-> p, todo |-> t, found |-> f, said |-> s, own |-> o,
           batch |-> b, links |-> l2, kept |-> k, rebuild |-> u]
  BY <1>2
<1>5. To(d, r)
  OBVIOUS
<1> HIDE DEF r
<1>6. /\ IsJob(r) /\ r.phase = p /\ r.own = o /\ r.batch = b
      /\ r.links = l2 /\ r.kept = k /\ r.rebuild = u
  BY <1>4, JobRecord
<1>7. GoodJob(d, r)
  BY <1>1, <1>3, <1>6 DEF GoodJob
<1>8. Becomes(d, r.phase, r.own, r.batch, r.links, r.kept, r.rebuild)
  BY <1>5, <1>7, JobUpdate
<1> QED
  BY <1>3, <1>6, <1>8

LEMMA EndRelationsNeo4jJob ==
    ASSUME Jobs, NEW d \in Doc, EndRelationsNeo4j(d)
    PROVE  /\ ~Nx /\ job[d].phase = "relate" /\ job[d].links = {}
           /\ Becomes(d, "built", job[d].own, job[d].batch, job[d].links, job[d].kept, job[d].rebuild)
<1>1. GoodJob(d, job[d]) /\ wiring' = wiring /\ job[d].phase = "relate" /\ ~Nx /\ job[d].links = {}
  BY DEF Jobs, EndRelationsNeo4j
<1>2. PICK p, t, f, s, o, b, l, k, u :
        job[d] = [phase |-> p, todo |-> t, found |-> f, said |-> s, own |-> o,
                  batch |-> b, links |-> l, kept |-> k, rebuild |-> u]
  BY <1>1, WrittenOut DEF GoodJob
<1>3. /\ job[d].phase = p /\ job[d].todo = t /\ job[d].found = f /\ job[d].said = s
      /\ job[d].own = o /\ job[d].batch = b /\ job[d].links = l /\ job[d].kept = k
      /\ job[d].rebuild = u
  BY <1>2, JobRecord
<1>4. Becomes(d, "built", job[d].own, job[d].batch, job[d].links, job[d].kept, job[d].rebuild)
  <2> DEFINE r == [job[d] EXCEPT !.phase = "built"]
  <2>2. r = [phase |-> "built", todo |-> t, found |-> f, said |-> s, own |-> o,
               batch |-> b, links |-> l, kept |-> k, rebuild |-> u]
    BY <1>2
  <2>3. To(d, r)
    BY <1>1, <1>3 DEF EndRelationsNeo4j
  <2> HIDE DEF r
  <2>4. /\ IsJob(r) /\ r.phase = "built" /\ r.own = o /\ r.batch = b
        /\ r.links = l /\ r.kept = k /\ r.rebuild = u
    BY <2>2, JobRecord
  <2>5. GoodJob(d, r)
    BY <1>1, <1>3, <2>4 DEF GoodJob
  <2>6. Becomes(d, r.phase, r.own, r.batch, r.links, r.kept, r.rebuild)
    BY <1>1, <2>3, <2>5, JobUpdate
  <2> QED
    BY <1>1, <1>3, <2>4, <2>6
<1> QED
  BY <1>1, <1>3, <1>4 DEF EndRelationsNeo4j

LEMMA DeleteNeo4jJob ==
    ASSUME Jobs, NEW d \in Doc, DeleteNeo4j(d)
    PROVE  /\ ~Nx /\ job[d].phase = "delete" /\ job[d].rebuild
           /\ Becomes(d, "detach", job[d].own, job[d].batch, job[d].links, job[d].kept, job[d].rebuild)
<1>1. GoodJob(d, job[d]) /\ wiring' = wiring /\ job[d].phase = "delete" /\ ~Nx
  BY DEF Jobs, DeleteNeo4j
<1>2. PICK p, t, f, s, o, b, l, k, u :
        job[d] = [phase |-> p, todo |-> t, found |-> f, said |-> s, own |-> o,
                  batch |-> b, links |-> l, kept |-> k, rebuild |-> u]
  BY <1>1, WrittenOut DEF GoodJob
<1>3. /\ job[d].phase = p /\ job[d].todo = t /\ job[d].found = f /\ job[d].said = s
      /\ job[d].own = o /\ job[d].batch = b /\ job[d].links = l /\ job[d].kept = k
      /\ job[d].rebuild = u
  BY <1>2, JobRecord
<1>4. Becomes(d, "detach", job[d].own, job[d].batch, job[d].links, job[d].kept, job[d].rebuild)
  <2> DEFINE r == [job[d] EXCEPT !.phase = "detach"]
  <2>2. r = [phase |-> "detach", todo |-> t, found |-> f, said |-> s, own |-> o,
               batch |-> b, links |-> l, kept |-> k, rebuild |-> u]
    BY <1>2
  <2>3. To(d, r)
    BY <1>1, <1>3 DEF DeleteNeo4j
  <2> HIDE DEF r
  <2>4. /\ IsJob(r) /\ r.phase = "detach" /\ r.own = o /\ r.batch = b
        /\ r.links = l /\ r.kept = k /\ r.rebuild = u
    BY <2>2, JobRecord
  <2>5. GoodJob(d, r)
    BY <1>1, <1>3, <2>4 DEF GoodJob
  <2>6. Becomes(d, r.phase, r.own, r.batch, r.links, r.kept, r.rebuild)
    BY <1>1, <2>3, <2>5, JobUpdate
  <2> QED
    BY <1>1, <1>3, <2>4, <2>6
<1> QED
  BY <1>1, <1>3, <1>4 DEF DeleteNeo4j, GoodJob

LEMMA DetachNeo4jJob ==
    ASSUME Jobs, NEW d \in Doc, DetachNeo4j(d)
    PROVE  /\ ~Nx /\ job[d].phase = "detach" /\ job[d].rebuild
           /\ Becomes(d, "unlink", job[d].own, job[d].batch, job[d].links, job[d].kept, job[d].rebuild)
<1>1. GoodJob(d, job[d]) /\ wiring' = wiring /\ job[d].phase = "detach" /\ ~Nx
  BY DEF Jobs, DetachNeo4j
<1>2. PICK p, t, f, s, o, b, l, k, u :
        job[d] = [phase |-> p, todo |-> t, found |-> f, said |-> s, own |-> o,
                  batch |-> b, links |-> l, kept |-> k, rebuild |-> u]
  BY <1>1, WrittenOut DEF GoodJob
<1>3. /\ job[d].phase = p /\ job[d].todo = t /\ job[d].found = f /\ job[d].said = s
      /\ job[d].own = o /\ job[d].batch = b /\ job[d].links = l /\ job[d].kept = k
      /\ job[d].rebuild = u
  BY <1>2, JobRecord
<1>4. Becomes(d, "unlink", job[d].own, job[d].batch, job[d].links, job[d].kept, job[d].rebuild)
  <2> DEFINE r == [job[d] EXCEPT !.phase = "unlink"]
  <2>2. r = [phase |-> "unlink", todo |-> t, found |-> f, said |-> s, own |-> o,
               batch |-> b, links |-> l, kept |-> k, rebuild |-> u]
    BY <1>2
  <2>3. To(d, r)
    BY <1>1, <1>3 DEF DetachNeo4j
  <2> HIDE DEF r
  <2>4. /\ IsJob(r) /\ r.phase = "unlink" /\ r.own = o /\ r.batch = b
        /\ r.links = l /\ r.kept = k /\ r.rebuild = u
    BY <2>2, JobRecord
  <2>5. GoodJob(d, r)
    BY <1>1, <1>3, <2>4 DEF GoodJob
  <2>6. Becomes(d, r.phase, r.own, r.batch, r.links, r.kept, r.rebuild)
    BY <1>1, <2>3, <2>5, JobUpdate
  <2> QED
    BY <1>1, <1>3, <2>4, <2>6
<1> QED
  BY <1>1, <1>3, <1>4 DEF DetachNeo4j, GoodJob

LEMMA DeleteNxJob ==
    ASSUME Jobs, NEW d \in Doc, DeleteNx(d)
    PROVE  /\ Nx /\ job[d].phase = "delete" /\ job[d].rebuild
           /\ \E p \in {"gone", "extract"} :
                Becomes(d, p, job[d].own, job[d].batch, job[d].links, job[d].kept, job[d].rebuild)
<1>1. GoodJob(d, job[d]) /\ wiring' = wiring /\ job[d].phase = "delete" /\ Nx
  BY DEF Jobs, DeleteNx
<1>2. PICK p, t, f, s, o, b, l, k, u :
        job[d] = [phase |-> p, todo |-> t, found |-> f, said |-> s, own |-> o,
                  batch |-> b, links |-> l, kept |-> k, rebuild |-> u]
  BY <1>1, WrittenOut DEF GoodJob
<1>3. /\ job[d].phase = p /\ job[d].todo = t /\ job[d].found = f /\ job[d].said = s
      /\ job[d].own = o /\ job[d].batch = b /\ job[d].links = l /\ job[d].kept = k
      /\ job[d].rebuild = u
  BY <1>2, JobRecord
<1>4. ASSUME NEW p2 \in {"gone", "extract"}, p2 = AfterDelete(d)
      PROVE  Becomes(d, p2, job[d].own, job[d].batch, job[d].links, job[d].kept, job[d].rebuild)
  <2> DEFINE r == [job[d] EXCEPT !.phase = p2]
  <2>2. r = [phase |-> p2, todo |-> t, found |-> f, said |-> s, own |-> o,
               batch |-> b, links |-> l, kept |-> k, rebuild |-> u]
    BY <1>2
  <2>3. To(d, r)
    BY <1>1, <1>3, <1>4 DEF DeleteNx
  <2> HIDE DEF r
  <2>4. /\ IsJob(r) /\ r.phase = p2 /\ r.own = o /\ r.batch = b
        /\ r.links = l /\ r.kept = k /\ r.rebuild = u
    BY <2>2, JobRecord
  <2>5. GoodJob(d, r)
    BY <1>1, <1>3, <2>4 DEF GoodJob
  <2>6. Becomes(d, r.phase, r.own, r.batch, r.links, r.kept, r.rebuild)
    BY <1>1, <2>3, <2>5, JobUpdate
  <2> QED
    BY <1>1, <1>3, <2>4, <2>6
<1> QED
  BY <1>1, <1>3, <1>4 DEF DeleteNx, GoodJob, AfterDelete

LEMMA UnlinkNeo4jJob ==
    ASSUME Jobs, NEW d \in Doc, UnlinkNeo4j(d)
    PROVE  /\ ~Nx /\ job[d].phase = "unlink" /\ job[d].rebuild
           /\ Becomes(d, "prune", job[d].own, job[d].batch, job[d].links, job[d].kept, job[d].rebuild)
<1>1. GoodJob(d, job[d]) /\ wiring' = wiring /\ job[d].phase = "unlink" /\ ~Nx
  BY DEF Jobs, UnlinkNeo4j
<1>2. PICK p, t, f, s, o, b, l, k, u :
        job[d] = [phase |-> p, todo |-> t, found |-> f, said |-> s, own |-> o,
                  batch |-> b, links |-> l, kept |-> k, rebuild |-> u]
  BY <1>1, WrittenOut DEF GoodJob
<1>3. /\ job[d].phase = p /\ job[d].todo = t /\ job[d].found = f /\ job[d].said = s
      /\ job[d].own = o /\ job[d].batch = b /\ job[d].links = l /\ job[d].kept = k
      /\ job[d].rebuild = u
  BY <1>2, JobRecord
<1>4. Becomes(d, "prune", job[d].own, job[d].batch, job[d].links, job[d].kept, job[d].rebuild)
  <2> DEFINE r == [job[d] EXCEPT !.phase = "prune"]
  <2>2. r = [phase |-> "prune", todo |-> t, found |-> f, said |-> s, own |-> o,
               batch |-> b, links |-> l, kept |-> k, rebuild |-> u]
    BY <1>2
  <2>3. To(d, r)
    BY <1>1, <1>3 DEF UnlinkNeo4j
  <2> HIDE DEF r
  <2>4. /\ IsJob(r) /\ r.phase = "prune" /\ r.own = o /\ r.batch = b
        /\ r.links = l /\ r.kept = k /\ r.rebuild = u
    BY <2>2, JobRecord
  <2>5. GoodJob(d, r)
    BY <1>1, <1>3, <2>4 DEF GoodJob
  <2>6. Becomes(d, r.phase, r.own, r.batch, r.links, r.kept, r.rebuild)
    BY <1>1, <2>3, <2>5, JobUpdate
  <2> QED
    BY <1>1, <1>3, <2>4, <2>6
<1> QED
  BY <1>1, <1>3, <1>4 DEF UnlinkNeo4j, GoodJob

LEMMA PruneNeo4jJob ==
    ASSUME Jobs, NEW d \in Doc, PruneNeo4j(d)
    PROVE  /\ ~Nx /\ job[d].phase = "prune" /\ job[d].rebuild
           /\ \E p \in {"gone", "extract"} :
                Becomes(d, p, job[d].own, job[d].batch, job[d].links, job[d].kept, job[d].rebuild)
<1>1. GoodJob(d, job[d]) /\ wiring' = wiring /\ job[d].phase = "prune" /\ ~Nx
  BY DEF Jobs, PruneNeo4j
<1>2. PICK p, t, f, s, o, b, l, k, u :
        job[d] = [phase |-> p, todo |-> t, found |-> f, said |-> s, own |-> o,
                  batch |-> b, links |-> l, kept |-> k, rebuild |-> u]
  BY <1>1, WrittenOut DEF GoodJob
<1>3. /\ job[d].phase = p /\ job[d].todo = t /\ job[d].found = f /\ job[d].said = s
      /\ job[d].own = o /\ job[d].batch = b /\ job[d].links = l /\ job[d].kept = k
      /\ job[d].rebuild = u
  BY <1>2, JobRecord
<1>4. ASSUME NEW p2 \in {"gone", "extract"}, p2 = AfterDelete(d)
      PROVE  Becomes(d, p2, job[d].own, job[d].batch, job[d].links, job[d].kept, job[d].rebuild)
  <2> DEFINE r == [job[d] EXCEPT !.phase = p2]
  <2>2. r = [phase |-> p2, todo |-> t, found |-> f, said |-> s, own |-> o,
               batch |-> b, links |-> l, kept |-> k, rebuild |-> u]
    BY <1>2
  <2>3. To(d, r)
    BY <1>1, <1>3, <1>4 DEF PruneNeo4j
  <2> HIDE DEF r
  <2>4. /\ IsJob(r) /\ r.phase = p2 /\ r.own = o /\ r.batch = b
        /\ r.links = l /\ r.kept = k /\ r.rebuild = u
    BY <2>2, JobRecord
  <2>5. GoodJob(d, r)
    BY <1>1, <1>3, <2>4 DEF GoodJob
  <2>6. Becomes(d, r.phase, r.own, r.batch, r.links, r.kept, r.rebuild)
    BY <1>1, <2>3, <2>5, JobUpdate
  <2> QED
    BY <1>1, <1>3, <2>4, <2>6
<1> QED
  BY <1>1, <1>3, <1>4 DEF PruneNeo4j, GoodJob, AfterDelete

--------------------------------------------------------------------------------
(* merge_entities answers with an entity that lists the document: a new    *)
(* one under an id nobody has, or with networkx a copy of one in the graph.*)
LEMMA MergedEntity ==
    ASSUME NEW d \in Doc, NEW name, NEW e \in Merged(d, name), EntitiesAreKeyed("memory")
    PROVE  /\ IsEntity(e) /\ d \in e.docs /\ (~Nx => e.docs = {d})
           /\ \/ e.id = FreshId /\ e.docs = {d}
              \/ \E n \in DOMAIN entities :
                    /\ e.id = entities[n].id /\ e.norm = entities[n].norm
                    /\ e.docs = entities[n].docs \cup {d}
<1> DEFINE norm == NameNorm[name]
           near == {n \in DOMAIN entities \ {norm} : <<name, entities[n].vec>> \in AlikeName}
           with(x) == [x EXCEPT !.docs = @ \cup {d}]
<1>1. \A n \in DOMAIN entities : IsEntity(entities[n])
  BY DEF EntitiesAreKeyed, Ents
<1>2. ASSUME NEW n \in DOMAIN entities
      PROVE  /\ IsEntity(with(entities[n])) /\ with(entities[n]).docs = entities[n].docs \cup {d}
             /\ with(entities[n]).id = entities[n].id /\ with(entities[n]).norm = entities[n].norm
  <2>1. PICK a, b, c, x, v :
          entities[n] = [norm |-> a, id |-> b, name |-> c, docs |-> x, vec |-> v]
    BY <1>1 DEF IsEntity
  <2>2. PICK y : y = x \cup {d}
    OBVIOUS
  <2>3. with(entities[n]) = [entities[n] EXCEPT !.docs = y]
    BY <2>1, <2>2
  <2> HIDE DEF with
  <2>4. with(entities[n]) = [norm |-> a, id |-> b, name |-> c, docs |-> y, vec |-> v]
    BY <2>1, <2>3
  <2> QED
    BY <2>1, <2>2, <2>4 DEF IsEntity
<1> HIDE DEF with
<1>3. CASE Nx /\ norm \in DOMAIN entities
  <2> DEFINE w == with(entities[norm])
  <2>1. e = [w EXCEPT !.name = IF NameLen[@] >= NameLen[name] THEN @ ELSE name]
    BY <1>3 DEF Merged, with
  <2>2. IsEntity(w) /\ w.docs = entities[norm].docs \cup {d}
        /\ w.id = entities[norm].id /\ w.norm = entities[norm].norm
    BY <1>2, <1>3
  <2> HIDE DEF w
  <2>3. PICK a, b, c, x, v : w = [norm |-> a, id |-> b, name |-> c, docs |-> x, vec |-> v]
    BY <2>2 DEF IsEntity
  <2>4. PICK z : z = IF NameLen[w.name] >= NameLen[name] THEN w.name ELSE name
    OBVIOUS
  <2>5. e = [w EXCEPT !.name = z]
    BY <2>1, <2>4
  <2>6. e = [norm |-> a, id |-> b, name |-> z, docs |-> x, vec |-> v]
    BY <2>3, <2>5
  <2>7. IsEntity(e) /\ e.norm = w.norm /\ e.id = w.id /\ e.docs = w.docs
    BY <2>3, <2>6 DEF IsEntity
  <2> QED
    BY <2>2, <2>7, <1>3
<1>4. CASE Nx /\ norm \notin DOMAIN entities /\ near # {}
  <2>1. PICK n \in near : e = with(entities[n])
    BY <1>4 DEF Merged, with
  <2> QED
    BY <2>1, <1>2, <1>4
<1>5. CASE ~(Nx /\ norm \in DOMAIN entities) /\ ~(Nx /\ norm \notin DOMAIN entities /\ near # {})
  <2>1. e = NewEntity(d, name)
    BY <1>5 DEF Merged
  <2> QED
    BY <2>1 DEF NewEntity, IsEntity
<1> QED
  BY <1>3, <1>4, <1>5

LEMMA StartReindexJob ==
    ASSUME Jobs, NEW d \in Doc, StartReindex(d)
    PROVE  job[d].phase = "built" /\ Becomes(d, "delete", <<>>, <<>>, {}, {}, TRUE)
<1>1. PICK t : To(d, [NoJob EXCEPT !.phase = "delete", !.todo = t, !.rebuild = TRUE])
  BY DEF StartReindex
<1> DEFINE r == [NoJob EXCEPT !.phase = "delete", !.todo = t, !.rebuild = TRUE]
<1>2. r = [phase |-> "delete", todo |-> t, found |-> <<>>, said |-> {}, own |-> <<>>,
           batch |-> <<>>, links |-> {}, kept |-> {}, rebuild |-> TRUE]
  <2>1. /\ DOMAIN r = {"phase", "todo", "found", "said", "own", "batch", "links", "kept",
                       "rebuild"}
        /\ r = [x \in DOMAIN r |-> r[x]]
    BY DEF NoJob
  <2>2. /\ r.phase = "delete" /\ r.todo = t /\ r.found = <<>>
        /\ r.said = {} /\ r.own = <<>> /\ r.batch = <<>>
        /\ r.links = {} /\ r.kept = {} /\ r.rebuild = TRUE
    BY DEF NoJob
  <2> HIDE DEF r
  <2> QED
    BY <2>1, <2>2
<1>3. wiring' = wiring /\ job[d].phase = "built"
  BY DEF StartReindex
<1>4. To(d, r)
  BY <1>1
<1> HIDE DEF r
<1>5. /\ IsJob(r) /\ r.phase = "delete" /\ r.own = <<>> /\ r.batch = <<>>
      /\ r.links = {} /\ r.kept = {} /\ r.rebuild = TRUE
  BY <1>2, JobRecord
<1>6. GoodJob(d, r)
  BY <1>5, NoElements DEF GoodJob
<1>7. Becomes(d, r.phase, r.own, r.batch, r.links, r.kept, r.rebuild)
  BY <1>3, <1>4, <1>6, JobUpdate
<1> QED
  BY <1>3, <1>5, <1>7

LEMMA DeleteChunkNeo4jJob ==
    ASSUME Jobs, NEW d \in Doc, DeleteChunkFromGraph(d), ~Nx
    PROVE  job[d].phase = "built" /\ Becomes(d, "delete", <<>>, <<>>, {}, {}, TRUE)
<1>1. To(d, [NoJob EXCEPT !.phase = "delete", !.rebuild = TRUE])
  BY DEF DeleteChunkFromGraph
<1> DEFINE r == [NoJob EXCEPT !.phase = "delete", !.rebuild = TRUE]
<1>2. r = [phase |-> "delete", todo |-> <<>>, found |-> <<>>, said |-> {}, own |-> <<>>,
           batch |-> <<>>, links |-> {}, kept |-> {}, rebuild |-> TRUE]
  <2>1. /\ DOMAIN r = {"phase", "todo", "found", "said", "own", "batch", "links", "kept",
                       "rebuild"}
        /\ r = [x \in DOMAIN r |-> r[x]]
    BY DEF NoJob
  <2>2. /\ r.phase = "delete" /\ r.todo = <<>> /\ r.found = <<>>
        /\ r.said = {} /\ r.own = <<>> /\ r.batch = <<>>
        /\ r.links = {} /\ r.kept = {} /\ r.rebuild = TRUE
    BY DEF NoJob
  <2> HIDE DEF r
  <2> QED
    BY <2>1, <2>2
<1>3. wiring' = wiring /\ job[d].phase = "built"
  BY DEF DeleteChunkFromGraph
<1>4. To(d, r)
  BY <1>1
<1> HIDE DEF r
<1>5. /\ IsJob(r) /\ r.phase = "delete" /\ r.own = <<>> /\ r.batch = <<>>
      /\ r.links = {} /\ r.kept = {} /\ r.rebuild = TRUE
  BY <1>2, JobRecord
<1>6. GoodJob(d, r)
  BY <1>5, NoElements DEF GoodJob
<1>7. Becomes(d, r.phase, r.own, r.batch, r.links, r.kept, r.rebuild)
  BY <1>3, <1>4, <1>6, JobUpdate
<1> QED
  BY <1>3, <1>5, <1>7

LEMMA DeleteChunkNxJob ==
    ASSUME Jobs, NEW d \in Doc, DeleteChunkFromGraph(d), Nx
    PROVE  job[d].phase = "built" /\ Becomes(d, job[d].phase, job[d].own, job[d].batch, job[d].links, job[d].kept, TRUE)
<1>1. GoodJob(d, job[d]) /\ wiring' = wiring /\ job[d].phase = "built"
  BY DEF Jobs, DeleteChunkFromGraph
<1>2. PICK p, t, f, s, o, b, l, k, u :
        job[d] = [phase |-> p, todo |-> t, found |-> f, said |-> s, own |-> o,
                  batch |-> b, links |-> l, kept |-> k, rebuild |-> u]
  BY <1>1, WrittenOut DEF GoodJob
<1>3. /\ job[d].phase = p /\ job[d].todo = t /\ job[d].found = f /\ job[d].said = s
      /\ job[d].own = o /\ job[d].batch = b /\ job[d].links = l /\ job[d].kept = k
      /\ job[d].rebuild = u
  BY <1>2, JobRecord
<1>4. Becomes(d, job[d].phase, job[d].own, job[d].batch, job[d].links, job[d].kept, TRUE)
  <2> DEFINE r == [job[d] EXCEPT !.rebuild = TRUE]
  <2>2. r = [phase |-> p, todo |-> t, found |-> f, said |-> s, own |-> o,
               batch |-> b, links |-> l, kept |-> k, rebuild |-> TRUE]
    <3>1. /\ DOMAIN r = {"phase", "todo", "found", "said", "own", "batch", "links", "kept",
                         "rebuild"}
          /\ r = [x \in DOMAIN r |-> r[x]]
      BY <1>2
    <3>2. /\ r.phase = p /\ r.todo = t /\ r.found = f
          /\ r.said = s /\ r.own = o /\ r.batch = b
          /\ r.links = l /\ r.kept = k /\ r.rebuild = TRUE
      BY <1>2
    <3> HIDE DEF r
    <3> QED
      BY <3>1, <3>2
  <2>3. To(d, r)
    BY <1>1, <1>3 DEF DeleteChunkFromGraph
  <2> HIDE DEF r
  <2>4. /\ IsJob(r) /\ r.phase = p /\ r.own = o /\ r.batch = b
        /\ r.links = l /\ r.kept = k /\ r.rebuild = TRUE
    BY <2>2, JobRecord
  <2>5. GoodJob(d, r)
    BY <1>1, <1>3, <2>4 DEF GoodJob
  <2>6. Becomes(d, r.phase, r.own, r.batch, r.links, r.kept, r.rebuild)
    BY <1>1, <2>3, <2>5, JobUpdate
  <2> QED
    BY <1>1, <1>3, <2>4, <2>6
<1> QED
  BY <1>1, <1>3, <1>4 DEF DeleteChunkFromGraph

LEMMA StoreFailsJob ==
    ASSUME Jobs, NEW d \in Doc, StoreFails(d)
    PROVE  Becomes(d, IF job[d].rebuild THEN "aborted" ELSE "raised", <<>>, <<>>, {}, {}, FALSE)
<1>1. To(d, Broken(d)) /\ wiring' = wiring
  BY DEF StoreFails
<1> QED
  BY <1>1, BrokenJob

LEMMA UpsertNxJob ==
    ASSUME Jobs, NEW d \in Doc, UpsertEntitiesNx(d)
    PROVE  /\ Nx /\ job[d].phase = "upsert"
           /\ UpsertAll(job[d].batch).ok => Becomes(d, "relate", <<>>, <<>>, job[d].links, job[d].kept, job[d].rebuild)
           /\ ~UpsertAll(job[d].batch).ok =>
                Becomes(d, IF job[d].rebuild THEN "aborted" ELSE "raised", <<>>, <<>>, {}, {}, FALSE)
<1>1. GoodJob(d, job[d]) /\ wiring' = wiring /\ job[d].phase = "upsert" /\ Nx
  BY DEF Jobs, UpsertEntitiesNx
<1>2. PICK p, t, f, s, o, b, l, k, u :
        job[d] = [phase |-> p, todo |-> t, found |-> f, said |-> s, own |-> o,
                  batch |-> b, links |-> l, kept |-> k, rebuild |-> u]
  BY <1>1, WrittenOut DEF GoodJob
<1>3. /\ job[d].phase = p /\ job[d].todo = t /\ job[d].found = f /\ job[d].said = s
      /\ job[d].own = o /\ job[d].batch = b /\ job[d].links = l /\ job[d].kept = k
      /\ job[d].rebuild = u
  BY <1>2, JobRecord
<1>4. ASSUME UpsertAll(job[d].batch).ok
      PROVE  Becomes(d, "relate", <<>>, <<>>, job[d].links, job[d].kept, job[d].rebuild)
  <2> DEFINE r == [job[d] EXCEPT !.phase = "relate", !.batch = <<>>]
  <2>2. r = [phase |-> "relate", todo |-> t, found |-> f, said |-> s, own |-> o,
               batch |-> <<>>, links |-> l, kept |-> k, rebuild |-> u]
    <3>1. /\ DOMAIN r = {"phase", "todo", "found", "said", "own", "batch", "links", "kept",
                         "rebuild"}
          /\ r = [x \in DOMAIN r |-> r[x]]
      BY <1>2
    <3>2. /\ r.phase = "relate" /\ r.todo = t /\ r.found = f
          /\ r.said = s /\ r.own = o /\ r.batch = <<>>
          /\ r.links = l /\ r.kept = k /\ r.rebuild = u
      BY <1>2
    <3> HIDE DEF r
    <3> QED
      BY <3>1, <3>2
  <2>3. To(d, r)
    BY <1>1, <1>3, <1>4 DEF UpsertEntitiesNx
  <2> HIDE DEF r
  <2>4. /\ IsJob(r) /\ r.phase = "relate" /\ r.own = o /\ r.batch = <<>>
        /\ r.links = l /\ r.kept = k /\ r.rebuild = u
    BY <2>2, JobRecord
  <2>5. GoodJob(d, r)
    BY <1>1, <1>3, <2>4, NoElements DEF GoodJob
  <2>6. Becomes(d, r.phase, r.own, r.batch, r.links, r.kept, r.rebuild)
    BY <1>1, <2>3, <2>5, JobUpdate
  <2> QED
    BY <1>1, <1>3, <2>4, <2>6 DEF GoodJob
<1>5. ASSUME ~UpsertAll(job[d].batch).ok
      PROVE  Becomes(d, IF job[d].rebuild THEN "aborted" ELSE "raised", <<>>, <<>>, {}, {}, FALSE)
  <2>1. To(d, Broken(d))
    BY <1>5 DEF UpsertEntitiesNx
  <2> QED
    BY <1>1, <2>1, BrokenJob
<1> QED
  BY <1>1, <1>4, <1>5

LEMMA UpsertNeo4jJob ==
    ASSUME Jobs, NEW d \in Doc, UpsertEntityNeo4j(d)
    PROVE  /\ ~Nx /\ job[d].phase = "upsert" /\ job[d].batch # <<>>
           /\ Becomes(d, job[d].phase, job[d].own, Tail(job[d].batch), job[d].links, job[d].kept, job[d].rebuild)
<1>1. GoodJob(d, job[d]) /\ wiring' = wiring /\ job[d].phase = "upsert" /\ ~Nx /\ job[d].batch # <<>>
  BY DEF Jobs, UpsertEntityNeo4j
<1>2. PICK p, t, f, s, o, b, l, k, u :
        job[d] = [phase |-> p, todo |-> t, found |-> f, said |-> s, own |-> o,
                  batch |-> b, links |-> l, kept |-> k, rebuild |-> u]
  BY <1>1, WrittenOut DEF GoodJob
<1>3. /\ job[d].phase = p /\ job[d].todo = t /\ job[d].found = f /\ job[d].said = s
      /\ job[d].own = o /\ job[d].batch = b /\ job[d].links = l /\ job[d].kept = k
      /\ job[d].rebuild = u
  BY <1>2, JobRecord
<1>4. /\ Tail(job[d].batch) \in Seq(ToSet(Tail(job[d].batch)))
      /\ ToSet(job[d].batch) = ToSet(Tail(job[d].batch)) \cup {Head(job[d].batch)}
  BY <1>1, TailElements DEF GoodJob
<1>5. Becomes(d, job[d].phase, job[d].own, Tail(job[d].batch), job[d].links, job[d].kept, job[d].rebuild)
  <2>1. PICK b2 : b2 = Tail(job[d].batch)
    OBVIOUS
  <2> DEFINE r == [job[d] EXCEPT !.batch = b2]
  <2>2. r = [phase |-> p, todo |-> t, found |-> f, said |-> s, own |-> o,
               batch |-> b2, links |-> l, kept |-> k, rebuild |-> u]
    BY <1>2
  <2>3. To(d, r)
    BY <1>1, <1>3, <2>1 DEF UpsertEntityNeo4j
  <2> HIDE DEF r
  <2>4. /\ IsJob(r) /\ r.phase = p /\ r.own = o /\ r.batch = b2
        /\ r.links = l /\ r.kept = k /\ r.rebuild = u
    BY <2>2, JobRecord
  <2>5. GoodJob(d, r)
    BY <1>1, <1>3, <2>4, <1>4, <2>1 DEF GoodJob
  <2>6. Becomes(d, r.phase, r.own, r.batch, r.links, r.kept, r.rebuild)
    BY <1>1, <2>3, <2>5, JobUpdate
  <2> QED
    BY <1>1, <1>3, <2>4, <2>6, <2>1
<1> QED
  BY <1>1, <1>3, <1>4, <1>5 DEF UpsertEntityNeo4j

LEMMA FinishChunkJob ==
    ASSUME Jobs, NEW d \in Doc, FinishChunk(d)
    PROVE  /\ job[d].phase = "merge"
           /\ Becomes(d, "extract", <<>>, job[d].batch \o job[d].own,
                  job[d].links \cup UNION {IdsNamed(d, l[1]) \X IdsNamed(d, l[2]) : l \in job[d].said},
                  job[d].kept, job[d].rebuild)
<1>1. GoodJob(d, job[d]) /\ wiring' = wiring /\ job[d].phase = "merge"
  BY DEF Jobs, FinishChunk
<1>2. PICK p, t, f, s, o, b, l, k, u :
        job[d] = [phase |-> p, todo |-> t, found |-> f, said |-> s, own |-> o,
                  batch |-> b, links |-> l, kept |-> k, rebuild |-> u]
  BY <1>1, WrittenOut DEF GoodJob
<1>3. /\ job[d].phase = p /\ job[d].todo = t /\ job[d].found = f /\ job[d].said = s
      /\ job[d].own = o /\ job[d].batch = b /\ job[d].links = l /\ job[d].kept = k
      /\ job[d].rebuild = u
  BY <1>2, JobRecord
<1>4. /\ job[d].batch \o job[d].own \in Seq(ToSet(job[d].batch \o job[d].own))
      /\ ToSet(job[d].batch \o job[d].own) = ToSet(job[d].batch) \cup ToSet(job[d].own)
  BY <1>1, ConcatElements DEF GoodJob
<1>5. ASSUME NEW t2, NEW l2, To(d, [job[d] EXCEPT !.phase = "extract", !.todo = t2, !.said = {}, !.own = <<>>,
                                       !.batch = job[d].batch \o job[d].own, !.links = l2])
      PROVE  Becomes(d, "extract", <<>>, job[d].batch \o job[d].own, l2, job[d].kept, job[d].rebuild)
  <2>1. PICK b2 : b2 = job[d].batch \o job[d].own
    OBVIOUS
  <2> DEFINE r == [job[d] EXCEPT !.phase = "extract", !.todo = t2, !.said = {}, !.own = <<>>,
                                 !.batch = b2, !.links = l2]
  <2>2. r = [phase |-> "extract", todo |-> t2, found |-> f, said |-> {}, own |-> <<>>,
               batch |-> b2, links |-> l2, kept |-> k, rebuild |-> u]
    <3>1. /\ DOMAIN r = {"phase", "todo", "found", "said", "own", "batch", "links", "kept",
                         "rebuild"}
          /\ r = [x \in DOMAIN r |-> r[x]]
      BY <1>2
    <3>2. /\ r.phase = "extract" /\ r.todo = t2 /\ r.found = f
          /\ r.said = {} /\ r.own = <<>> /\ r.batch = b2
          /\ r.links = l2 /\ r.kept = k /\ r.rebuild = u
      BY <1>2
    <3> HIDE DEF r
    <3> QED
      BY <3>1, <3>2
  <2>3. To(d, r)
    BY <1>1, <1>3, <1>5, <2>1
  <2> HIDE DEF r
  <2>4. /\ IsJob(r) /\ r.phase = "extract" /\ r.own = <<>> /\ r.batch = b2
        /\ r.links = l2 /\ r.kept = k /\ r.rebuild = u
    BY <2>2, JobRecord
  <2>5. GoodJob(d, r)
    BY <1>1, <1>3, <2>4, <1>4, <2>1, NoElements DEF GoodJob
  <2>6. Becomes(d, r.phase, r.own, r.batch, r.links, r.kept, r.rebuild)
    BY <1>1, <2>3, <2>5, JobUpdate
  <2> QED
    BY <1>1, <1>3, <2>4, <2>6, <2>1
<1> QED
  BY <1>1, <1>3, <1>4, <1>5 DEF FinishChunk

LEMMA MergeEntityJob ==
    ASSUME Jobs, EntitiesAreKeyed("memory"), NEW d \in Doc, MergeEntity(d)
    PROVE  /\ job[d].phase = "merge"
           /\ \/ \E e \in Merged(d, Head(job[d].found)) :
                    Becomes(d, job[d].phase, Append(job[d].own, e), job[d].batch, job[d].links, job[d].kept, job[d].rebuild)
              \/ Becomes(d, "extract", <<>>, job[d].batch, job[d].links, job[d].kept, job[d].rebuild)
<1>1. GoodJob(d, job[d]) /\ wiring' = wiring /\ job[d].phase = "merge"
  BY DEF Jobs, MergeEntity
<1>2. PICK p, t, f, s, o, b, l, k, u :
        job[d] = [phase |-> p, todo |-> t, found |-> f, said |-> s, own |-> o,
                  batch |-> b, links |-> l, kept |-> k, rebuild |-> u]
  BY <1>1, WrittenOut DEF GoodJob
<1>3. /\ job[d].phase = p /\ job[d].todo = t /\ job[d].found = f /\ job[d].said = s
      /\ job[d].own = o /\ job[d].batch = b /\ job[d].links = l /\ job[d].kept = k
      /\ job[d].rebuild = u
  BY <1>2, JobRecord
<1>4. \A e : /\ Append(job[d].own, e) \in Seq(ToSet(Append(job[d].own, e)))
            /\ ToSet(Append(job[d].own, e)) = ToSet(job[d].own) \cup {e}
  BY <1>1, AppendElements DEF GoodJob
<1>5. \A e \in Merged(d, Head(job[d].found)) : IsEntity(e) /\ d \in e.docs /\ (~Nx => e.docs = {d})
  BY MergedEntity
<1>6. ASSUME NEW f2, NEW e \in Merged(d, Head(job[d].found)),
             To(d, [job[d] EXCEPT !.found = f2, !.own = Append(job[d].own, e)])
      PROVE  Becomes(d, job[d].phase, Append(job[d].own, e), job[d].batch, job[d].links, job[d].kept, job[d].rebuild)
  <2>1. PICK o2 : o2 = Append(job[d].own, e)
    OBVIOUS
  <2> DEFINE r == [job[d] EXCEPT !.found = f2, !.own = o2]
  <2>2. r = [phase |-> p, todo |-> t, found |-> f2, said |-> s, own |-> o2,
               batch |-> b, links |-> l, kept |-> k, rebuild |-> u]
    <3>1. /\ DOMAIN r = {"phase", "todo", "found", "said", "own", "batch", "links", "kept",
                         "rebuild"}
          /\ r = [x \in DOMAIN r |-> r[x]]
      BY <1>2
    <3>2. /\ r.phase = p /\ r.todo = t /\ r.found = f2
          /\ r.said = s /\ r.own = o2 /\ r.batch = b
          /\ r.links = l /\ r.kept = k /\ r.rebuild = u
      BY <1>2
    <3> HIDE DEF r
    <3> QED
      BY <3>1, <3>2
  <2>3. To(d, r)
    BY <1>1, <1>3, <1>6, <2>1
  <2> HIDE DEF r
  <2>4. /\ IsJob(r) /\ r.phase = p /\ r.own = o2 /\ r.batch = b
        /\ r.links = l /\ r.kept = k /\ r.rebuild = u
    BY <2>2, JobRecord
  <2>5. GoodJob(d, r)
    BY <1>1, <1>3, <2>4, <2>1, <1>5, <1>4 DEF GoodJob
  <2>6. Becomes(d, r.phase, r.own, r.batch, r.links, r.kept, r.rebuild)
    BY <1>1, <2>3, <2>5, JobUpdate
  <2> QED
    BY <1>1, <1>3, <2>4, <2>6, <2>1
<1>7. ASSUME NEW t2, To(d, [job[d] EXCEPT !.phase = "extract", !.todo = t2, !.found = <<>>, !.said = {},
                                       !.own = <<>>])
      PROVE  Becomes(d, "extract", <<>>, job[d].batch, job[d].links, job[d].kept, job[d].rebuild)
  <2> DEFINE r == [job[d] EXCEPT !.phase = "extract", !.todo = t2, !.found = <<>>, !.said = {}, !.own = <<>>]
  <2>2. r = [phase |-> "extract", todo |-> t2, found |-> <<>>, said |-> {}, own |-> <<>>,
               batch |-> b, links |-> l, kept |-> k, rebuild |-> u]
    <3>1. /\ DOMAIN r = {"phase", "todo", "found", "said", "own", "batch", "links", "kept",
                         "rebuild"}
          /\ r = [x \in DOMAIN r |-> r[x]]
      BY <1>2
    <3>2. /\ r.phase = "extract" /\ r.todo = t2 /\ r.found = <<>>
          /\ r.said = {} /\ r.own = <<>> /\ r.batch = b
          /\ r.links = l /\ r.kept = k /\ r.rebuild = u
      BY <1>2
    <3> HIDE DEF r
    <3> QED
      BY <3>1, <3>2
  <2>3. To(d, r)
    BY <1>1, <1>3, <1>7
  <2> HIDE DEF r
  <2>4. /\ IsJob(r) /\ r.phase = "extract" /\ r.own = <<>> /\ r.batch = b
        /\ r.links = l /\ r.kept = k /\ r.rebuild = u
    BY <2>2, JobRecord
  <2>5. GoodJob(d, r)
    BY <1>1, <1>3, <2>4, NoElements DEF GoodJob
  <2>6. Becomes(d, r.phase, r.own, r.batch, r.links, r.kept, r.rebuild)
    BY <1>1, <2>3, <2>5, JobUpdate
  <2> QED
    BY <1>1, <1>3, <2>4, <2>6
<1> QED
  BY <1>1, <1>3, <1>4, <1>5, <1>6, <1>7 DEF MergeEntity

--------------------------------------------------------------------------------
(* A process that dies leaves no job at work. *)
LEMMA CrashJobs ==
    ASSUME Jobs, Crash
    PROVE  /\ Jobs' /\ wiring' = wiring
           /\ \A d \in Doc :
                \/ job[d].phase \in {"new", "built", "gone", "aborted"} /\ job'[d] = job[d]
                \/ /\ job[d].phase \notin {"new", "built", "gone", "aborted"}
                   /\ job'[d].phase = IF job[d].rebuild THEN "aborted" ELSE "raised"
                   /\ job'[d].own = <<>> /\ job'[d].batch = <<>> /\ job'[d].links = {}
                   /\ job'[d].kept = {} /\ job'[d].rebuild = FALSE
<1>1. /\ wiring' = wiring
      /\ job' = [d \in Doc |-> IF job[d].phase \in {"new", "built", "gone", "aborted"}
                               THEN job[d] ELSE Broken(d)]
  BY DEF Crash
<1>2. ASSUME NEW d \in Doc
      PROVE  LET p == IF job[d].rebuild THEN "aborted" ELSE "raised"
             IN  /\ GoodJob(d, Broken(d)) /\ Broken(d).phase = p /\ Broken(d).own = <<>>
                 /\ Broken(d).batch = <<>> /\ Broken(d).links = {} /\ Broken(d).kept = {}
                 /\ Broken(d).rebuild = FALSE
  <2> DEFINE p == IF job[d].rebuild THEN "aborted" ELSE "raised"
  <2>1. p \in {"aborted", "raised"}
    OBVIOUS
  <2>2. Broken(d) = [NoJob EXCEPT !.phase = p]
    BY DEF Broken
  <2> HIDE DEF p
  <2>3. /\ IsJob(Broken(d)) /\ Broken(d).phase = p /\ Broken(d).own = <<>>
        /\ Broken(d).batch = <<>> /\ Broken(d).links = {} /\ Broken(d).kept = {}
        /\ Broken(d).rebuild = FALSE
    BY <2>2 DEF NoJob, IsJob
  <2>4. GoodJob(d, Broken(d))
    BY <2>1, <2>3, NoElements DEF GoodJob
  <2> QED
    BY <2>3, <2>4 DEF p
<1>3. job' = [d \in Doc |-> job'[d]]
  BY <1>1
<1>4. Nx' = Nx
  BY <1>1 DEF Nx
<1>5. \A d \in Doc : GoodJob(d, job'[d])
  <2> TAKE d \in Doc
  <2>1. GoodJob(d, job[d])
    BY DEF Jobs
  <2> QED
    BY <1>1, <1>2, <2>1
<1>6. \A d \in Doc : GoodJob(d, job[d])'
  BY <1>4, <1>5 DEF GoodJob, IsJob, IsEntity
<1>7. Jobs'
  BY <1>3, <1>6 DEF Jobs
<1> QED
  BY <1>1, <1>2, <1>7

(* The two graphs, field by field. *)
LEMMA GraphParts ==
    /\ Ents("memory") = entities /\ Nds("memory") = nodes /\ Rels("memory") = relations
    /\ IdsOf("memory") = Ids
    /\ Eds("memory") = edges /\ Eds("disk") = disk.edges
    /\ Ents("disk") = disk.ents /\ Nds("disk") = disk.nodes /\ Rels("disk") = disk.rels
    /\ Ents("memory")' = entities' /\ Nds("memory")' = nodes' /\ Rels("memory")' = relations'
    /\ IdsOf("memory")' = Ids'
    /\ Ents("disk")' = disk'.ents /\ Nds("disk")' = disk'.nodes /\ Rels("disk")' = disk'.rels
    /\ Eds("memory")' = edges' /\ Eds("disk")' = disk'.edges
  BY DEF Ents, Nds, Eds, Rels, IdsOf, Ids

(* A graph that a step of d's job does not touch. *)
LEMMA GraphStays ==
    ASSUME NEW g \in {"memory", "disk"}, NEW d \in Doc, GraphInv(g),
           Ents(g)' = Ents(g), Nds(g)' = Nds(g), Eds(g)' = Eds(g), Rels(g)' = Rels(g),
           mixed => mixed', crashes' = crashes, wiring' = wiring,
           \A o \in Doc \ {d} : job'[o] = job[o],
           crashes # "lost" /\ job'[d].phase \in {"relate", "built"} =>
               \A n \in job'[d].kept : InGraph(g, d, n),
           ~mixed' /\ Gone(d)' => \A n \in DOMAIN Ents(g) : d \notin Ents(g)[n].docs,
           ~mixed' /\ Unlinked(d)' => \A l \in DOMAIN Rels(g) : d \notin Rels(g)[l],
           ~Nx /\ job[d].phase \in {"detach", "aborted"} /\ job'[d].phase \notin {"detach", "aborted"}
               => \A n \in DOMAIN Ents(g) : Ents(g)[n].docs # {},
           ~Nx /\ job[d].phase \in {"prune", "aborted"} /\ job'[d].phase \notin {"prune", "aborted"}
               => \A l \in DOMAIN Rels(g) : Rels(g)[l] # {}
    PROVE  GraphInv(g)'
<1> USE DEF GraphInv
<1>1. Nx' = Nx /\ IdsOf(g)' = IdsOf(g)
  BY DEF Nx, IdsOf
<1>2. EntitiesAreKeyed(g)'
  BY DEF EntitiesAreKeyed, IsEntity
<1>3. DistinctIds(g)'
  BY DEF DistinctIds
<1>4. NodesAreIds(g)'
  BY <1>1 DEF NodesAreIds
<1>5. EndsAreIds(g)' /\ EdgesFit(g)'
  BY <1>1 DEF EndsAreIds, EdgesFit
<1>6. BuiltIsIn(g)'
  <2> SUFFICES ASSUME crashes # "lost", NEW o \in Doc, job'[o].phase \in {"relate", "built"},
                      NEW n \in job'[o].kept
               PROVE  InGraph(g, o, n)'
    BY DEF BuiltIsIn
  <2>1. InGraph(g, o, n)
    BY DEF BuiltIsIn
  <2> QED
    BY <1>1, <2>1 DEF InGraph
<1>7. Forgotten(g)'
  <2> SUFFICES ASSUME ~mixed', NEW o \in Doc
               PROVE  /\ Gone(o)' => \A n \in DOMAIN Ents(g) : o \notin Ents(g)[n].docs
                      /\ Unlinked(o)' => \A l \in DOMAIN Rels(g) : o \notin Rels(g)[l]
    BY DEF Forgotten
  <2>1. CASE o = d
    BY <2>1
  <2>2. CASE o # d
    <3>1. (Gone(o)' => Gone(o)) /\ (Unlinked(o)' => Unlinked(o))
      BY <2>2 DEF Gone, Unlinked
    <3> QED
      BY <3>1 DEF Forgotten
  <2> QED
    BY <2>1, <2>2
<1>8. ReferencedOrLeft(g)'
  <2>1. ASSUME NEW n \in DOMAIN Ents(g), Ents(g)[n].docs = {}
        PROVE  ~Nx' /\ \E o \in Doc : job'[o].phase \in {"detach", "aborted"}
    <3>1. PICK o \in Doc : ~Nx /\ job[o].phase \in {"detach", "aborted"}
      BY <2>1 DEF ReferencedOrLeft
    <3>2. job'[o].phase \in {"detach", "aborted"}
      BY <2>1, <3>1
    <3> QED
      BY <1>1, <3>1, <3>2
  <2>2. ASSUME NEW l \in DOMAIN Rels(g), Rels(g)[l] = {}
        PROVE  ~Nx' /\ \E o \in Doc : job'[o].phase \in {"prune", "aborted"}
    <3>1. PICK o \in Doc : ~Nx /\ job[o].phase \in {"prune", "aborted"}
      BY <2>2 DEF ReferencedOrLeft
    <3>2. job'[o].phase \in {"prune", "aborted"}
      BY <2>2, <3>1
    <3> QED
      BY <1>1, <3>1, <3>2
  <2> QED
    BY <2>1, <2>2 DEF ReferencedOrLeft
<1> QED
  BY <1>2, <1>3, <1>4, <1>5, <1>6, <1>7, <1>8

(* The file that was just written is the graph in memory. *)
LEMMA DiskCopied ==
    ASSUME GraphInv("memory")',
           disk' = Written'
    PROVE  GraphInv("disk")'
<1>1. /\ Ents("disk")' = Ents("memory")' /\ Nds("disk")' = Nds("memory")'
      /\ Rels("disk")' = Rels("memory")' /\ Eds("disk")' = Eds("memory")'
  BY GraphParts DEF Written
<1>2. IdsOf("disk")' = IdsOf("memory")'
  BY <1>1 DEF IdsOf
<1> USE DEF GraphInv
<1>3. EntitiesAreKeyed("disk")' /\ DistinctIds("disk")'
  BY <1>1 DEF EntitiesAreKeyed, DistinctIds, IsEntity
<1>4. NodesAreIds("disk")' /\ EndsAreIds("disk")' /\ EdgesFit("disk")'
  BY <1>1, <1>2 DEF NodesAreIds, EndsAreIds, EdgesFit
<1>5. BuiltIsIn("disk")'
  BY <1>1 DEF BuiltIsIn, InGraph
<1>6. Forgotten("disk")' /\ ReferencedOrLeft("disk")'
  BY <1>1 DEF Forgotten, ReferencedOrLeft
<1> QED
  BY <1>3, <1>4, <1>5, <1>6
--------------------------------------------------------------------------------
(* What a job holds after a step, and which ids are in use. *)
LEMMA HeldAfter ==
    ASSUME NEW d \in Doc, NEW p, NEW o, NEW b, NEW l, NEW k, NEW u, Becomes(d, p, o, b, l, k, u)
    PROVE  /\ Held(d)' = ToSet(b) \cup ToSet(o)
           /\ \A x \in Doc \ {d} : Held(x)' = Held(x)
  BY DEF Becomes, Held, ToSet

LEMMA UsedIdsAre ==
    ASSUME Jobs
    PROVE  \A id : id \in UsedIds <=>
               \/ id \in Ids \/ id \in nodes
               \/ \E l \in DOMAIN relations : id \in {l[1], l[2]}
               \/ \E d \in Doc : \E l \in job[d].links : id \in {l[1], l[2]}
               \/ \E d \in Doc : \E e \in Held(d) : id = e.id
<1>1. ASSUME NEW d \in Doc
      PROVE  ToSet(job[d].batch \o job[d].own) = Held(d)
  <2>1. GoodJob(d, job[d])
    BY DEF Jobs
  <2>2. /\ job[d].own \in Seq(ToSet(job[d].own))
        /\ job[d].batch \in Seq(ToSet(job[d].batch))
    BY <2>1 DEF GoodJob, ToSet
  <2>3. ToSet(job[d].batch \o job[d].own)
          = ToSet(job[d].batch) \cup ToSet(job[d].own)
    BY <2>2, ConcatElements
  <2> QED
    BY <2>3 DEF Held, ToSet
<1> DEFINE ends == UNION {{l[1], l[2]} : l \in DOMAIN relations \cup (UNION {job[d].links : d \in Doc})}
           held == UNION {{e.id : e \in ToSet(job[d].batch \o job[d].own)} : d \in Doc}
<1>2. UsedIds = Ids \cup nodes \cup ends \cup held
  BY DEF UsedIds, ToSet
<1>3. \A id : id \in held <=> \E d \in Doc : \E e \in Held(d) : id = e.id
  <2>1. held = UNION {{e.id : e \in Held(d)} : d \in Doc}
    BY <1>1
  <2> HIDE DEF held
  <2> QED
    BY <2>1
<1>4. \A id : id \in ends <=>
               \/ \E l \in DOMAIN relations : id \in {l[1], l[2]}
               \/ \E d \in Doc : \E l \in job[d].links : id \in {l[1], l[2]}
  OBVIOUS
<1> HIDE DEF ends, held
<1> QED
  BY <1>2, <1>3, <1>4

LEMMA UsedIdsWillBe ==
    ASSUME Jobs'
    PROVE  \A id : id \in UsedIds' <=>
               \/ id \in Ids' \/ id \in nodes'
               \/ \E l \in DOMAIN relations' : id \in {l[1], l[2]}
               \/ \E d \in Doc : \E l \in job'[d].links : id \in {l[1], l[2]}
               \/ \E d \in Doc : \E e \in Held(d)' : id = e.id
<1>1. ASSUME NEW d \in Doc
      PROVE  ToSet(job'[d].batch \o job'[d].own) = Held(d)'
  <2>1. GoodJob(d, job[d])'
    BY DEF Jobs
  <2>2. /\ job'[d].own \in Seq(ToSet(job'[d].own))
        /\ job'[d].batch \in Seq(ToSet(job'[d].batch))
    BY <2>1 DEF GoodJob, ToSet
  <2>3. ToSet(job'[d].batch \o job'[d].own)
          = ToSet(job'[d].batch) \cup ToSet(job'[d].own)
    BY <2>2, ConcatElements
  <2> QED
    BY <2>3 DEF Held, ToSet
<1> DEFINE ends == UNION {{l[1], l[2]} : l \in DOMAIN relations' \cup (UNION {job'[d].links : d \in Doc})}
           held == UNION {{e.id : e \in ToSet(job'[d].batch \o job'[d].own)} : d \in Doc}
<1>2. UsedIds' = Ids' \cup nodes' \cup ends \cup held
  BY DEF UsedIds, ToSet
<1>3. \A id : id \in held <=> \E d \in Doc : \E e \in Held(d)' : id = e.id
  <2>1. held = UNION {{e.id : e \in Held(d)'} : d \in Doc}
    BY <1>1
  <2> HIDE DEF held
  <2> QED
    BY <2>1
<1>4. \A id : id \in ends <=>
               \/ \E l \in DOMAIN relations' : id \in {l[1], l[2]}
               \/ \E d \in Doc : \E l \in job'[d].links : id \in {l[1], l[2]}
  OBVIOUS
<1> HIDE DEF ends, held
<1> QED
  BY <1>2, <1>3, <1>4

(* A step that brings in no id but a new one. *)
LEMMA StaysFinite ==
    ASSUME IdsAreFinite, Jobs, Jobs',
           NEW A, A = UsedIds \cup DiskIds \cup {FreshId},
           \A n \in DOMAIN entities' : entities'[n].id \in A, nodes' \subseteq A,
           \A l \in DOMAIN relations' : l[1] \in A /\ l[2] \in A,
           \A d \in Doc : \A l \in job'[d].links : l[1] \in A /\ l[2] \in A,
           \A d \in Doc : \A e \in Held(d)' : e.id \in A,
           disk' \in {disk, Written', Empty}
    PROVE  IdsAreFinite'
<1>1. \A id : id \in UsedIds' <=>
               \/ id \in Ids' \/ id \in nodes'
               \/ \E l \in DOMAIN relations' : id \in {l[1], l[2]}
               \/ \E d \in Doc : \E l \in job'[d].links : id \in {l[1], l[2]}
               \/ \E d \in Doc : \E e \in Held(d)' : id = e.id
  BY UsedIdsWillBe
<1>2. Ids' \subseteq A
  BY DEF Ids
<1>3. UsedIds' \subseteq A
  BY <1>1, <1>2
<1>4. DiskIds' \subseteq A
  <2>1. CASE disk' = disk
    BY <2>1 DEF DiskIds
  <2>2. CASE disk' = Written'
    BY <2>2 DEF DiskIds, Written
  <2>3. CASE disk' = Empty
    BY <2>3 DEF DiskIds, Empty
  <2> QED
    BY <2>1, <2>2, <2>3
<1>5. IsFiniteSet(A)
  BY FS_AddElement DEF IdsAreFinite
<1>6. (UsedIds \cup DiskIds)' \in SUBSET A
  BY <1>3, <1>4
<1>7. IsFiniteSet((UsedIds \cup DiskIds)')
  BY <1>5, <1>6, FS_Subset
<1> QED
  BY <1>7 DEF IdsAreFinite

(* Every id that is held or stored afterwards was so before, by the norm   *)
(* it has.                                                                 *)
LEMMA OneNormStays ==
    ASSUME OneNorm,
           \A n \in DOMAIN entities' : \E f \in Known :
               f.id = entities'[n].id /\ f.norm = entities'[n].norm,
           \A d \in Doc : \A e \in Held(d)' : \E f \in Known : f.id = e.id /\ f.norm = e.norm
    PROVE  OneNorm'
<1>1. \A e \in Known' : \E f \in Known : f.id = e.id /\ f.norm = e.norm
  BY DEF Known
<1> HIDE DEF Known
<1> QED
  BY <1>1 DEF OneNorm
--------------------------------------------------------------------------------
(* A step of a job that leaves the graph alone, adds nothing to what the   *)
(* job holds and does not take it past an upsert or a deletion.            *)
LEMMA QuietStep ==
    ASSUME KGInv, NEW d \in Doc, NEW p, NEW o, NEW b, NEW l, NEW k, NEW u,
           Becomes(d, p, o, b, l, k, u),
           UNCHANGED <<graph, crashes, mixed, wiring>>,
           disk' \in {disk, Written'},
           ToSet(b) \cup ToSet(o) \subseteq Held(d),
           l = {} \/ (l = job[d].links /\ (~Nx \/ b = job[d].batch)),
           p = "upsert" => \A n \in k : \E e \in ToSet(b) : e.norm = n,
           p \in {"relate", "built"} /\ crashes # "lost" =>
               \A g \in Graphs : \A n \in k : InGraph(g, d, n),
           u /\ p \in {"detach", "unlink", "prune", "extract", "merge", "gone"} => Gone(d),
           u /\ p \in {"prune", "extract", "merge", "gone"} => Unlinked(d),
           job[d].phase \in {"detach", "aborted"} => p \in {"detach", "aborted"},
           job[d].phase \in {"prune", "aborted"} => p \in {"prune", "aborted"}
    PROVE  KGInv'
<1> USE DEF KGInv
<1>1. /\ Held(d)' = ToSet(b) \cup ToSet(o)
      /\ \A x \in Doc \ {d} : Held(x)' = Held(x)
  BY HeldAfter
<1>2. /\ Jobs' /\ \A x \in Doc \ {d} : job'[x] = job[x]
      /\ job'[d].phase = p /\ job'[d].own = o /\ job'[d].batch = b
      /\ job'[d].links = l /\ job'[d].kept = k /\ job'[d].rebuild = u
  BY DEF Becomes
<1>3. /\ entities' = entities /\ nodes' = nodes /\ edges' = edges /\ relations' = relations
      /\ crashes' = crashes /\ mixed' = mixed /\ wiring' = wiring
      /\ Nx' = Nx /\ Ids' = Ids /\ Graphs' = Graphs
  BY DEF graph, Nx, Ids, Graphs
<1>4. \A x \in Doc : Held(x)' \subseteq Held(x)
  BY <1>1
<1>5. OneNorm'
  <2>1. \A x \in Doc : \A e \in Held(x)' : e \in Known
    BY <1>4 DEF Known
  <2>2. \A n \in DOMAIN entities' : entities'[n] \in Known
    BY <1>3 DEF Known
  <2> QED
    BY <2>1, <2>2, OneNormStays
<1>6. IdsAreFinite'
  <2> DEFINE A == UsedIds \cup DiskIds \cup {FreshId}
  <2>1. \A n \in DOMAIN entities' : entities'[n].id \in A
    BY <1>3, UsedIdsAre DEF Ids
  <2>2. nodes' \subseteq A /\ \A x \in DOMAIN relations' : x[1] \in A /\ x[2] \in A
    BY <1>3, UsedIdsAre
  <2>3. \A x \in Doc : \A y \in job'[x].links : y[1] \in A /\ y[2] \in A
    <3> TAKE x \in Doc
    <3>1. job'[x].links \subseteq job[x].links
      BY <1>2
    <3> QED
      BY <3>1, UsedIdsAre
  <2>4. \A x \in Doc : \A e \in Held(x)' : e.id \in A
    BY <1>4, UsedIdsAre
  <2>5. disk' \in {disk, Written', Empty}
    BY <1>3
  <2> HIDE DEF A
  <2> QED
    BY <1>2, <2>1, <2>2, <2>3, <2>4, <2>5, StaysFinite DEF A
<1>7. LinksAreKnown'
  <2> SUFFICES ASSUME Nx, ~mixed, NEW x \in Doc, NEW y \in job'[x].links, NEW id \in {y[1], y[2]}
               PROVE  id \in Ids \/ \E e \in ToSet(job'[x].batch) : e.id = id
    BY <1>3 DEF LinksAreKnown, ToSet
  <2>1. job'[x].links = {} \/ (job'[x].links = job[x].links /\ job'[x].batch = job[x].batch)
    BY <1>2
  <2> QED
    BY <2>1 DEF LinksAreKnown
<1>8. NotHeld'
  <2> SUFFICES ASSUME ~mixed, NEW x \in Doc, Gone(x)', NEW y \in Doc \ {x}, NEW e \in Held(y)'
               PROVE  x \notin e.docs
    BY <1>3 DEF NotHeld
  <2>1. Gone(x)
    BY <1>2 DEF Gone
  <2>2. e \in Held(y)
    BY <1>4
  <2> QED
    BY <2>1, <2>2 DEF NotHeld
<1>9. KeptIsHeld'
  <2> SUFFICES ASSUME NEW x \in Doc, job'[x].phase = "upsert", NEW n \in job'[x].kept
               PROVE  \/ \E e \in ToSet(job'[x].batch) : e.norm = n
                      \/ ~Nx' /\ InGraph("memory", x, n)'
    BY DEF KeptIsHeld, ToSet
  <2>1. CASE x = d
    BY <2>1, <1>2
  <2>2. CASE x # d
    <3>1. InGraph("memory", x, n)' = InGraph("memory", x, n)
      BY <1>3, GraphParts DEF InGraph
    <3> QED
      BY <2>2, <3>1, <1>2, <1>3 DEF KeptIsHeld
  <2> QED
    BY <2>1, <2>2
<1>10. ASSUME NEW g \in {"memory", "disk"}, g \in Graphs,
              Ents(g)' = Ents(g), Nds(g)' = Nds(g), Eds(g)' = Eds(g), Rels(g)' = Rels(g)
       PROVE  GraphInv(g)'
  <2>1. GraphInv(g)
    BY <1>10
  <2>2. ~mixed' /\ Gone(d)' => \A n \in DOMAIN Ents(g) : d \notin Ents(g)[n].docs
    BY <1>2, <1>3, <2>1 DEF Gone, GraphInv, Forgotten
  <2>3. ~mixed' /\ Unlinked(d)' => \A y \in DOMAIN Rels(g) : d \notin Rels(g)[y]
    BY <1>2, <1>3, <2>1 DEF Unlinked, GraphInv, Forgotten
  <2>4. crashes # "lost" /\ job'[d].phase \in {"relate", "built"} =>
          \A n \in job'[d].kept : InGraph(g, d, n)
    BY <1>2, <1>10
  <2>5. /\ ~(job[d].phase \in {"detach", "aborted"} /\ job'[d].phase \notin {"detach", "aborted"})
        /\ ~(job[d].phase \in {"prune", "aborted"} /\ job'[d].phase \notin {"prune", "aborted"})
    BY <1>2
  <2> QED
    BY <1>2, <1>3, <1>10, <2>1, <2>2, <2>3, <2>4, <2>5, GraphStays
<1>11. GraphInv("memory")'
  <2>1. "memory" \in Graphs
    BY DEF Graphs
  <2> QED
    BY <1>3, <1>10, <2>1, GraphParts
<1>12. ASSUME "disk" \in Graphs
       PROVE  GraphInv("disk")'
  <2>1. CASE disk' = disk
    BY <1>10, <1>12, <2>1, GraphParts
  <2>2. CASE disk' = Written'
    BY <1>3, <1>11, <2>2, DiskCopied
  <2> QED
    BY <2>1, <2>2
<1>13. \A g \in Graphs' : GraphInv(g)'
  <2>1. Graphs \subseteq {"memory", "disk"}
    BY DEF Graphs
  <2> QED
    BY <1>3, <1>11, <1>12, <2>1
<1> QED
  BY <1>2, <1>5, <1>6, <1>7, <1>8, <1>9, <1>13

(* Starting, extracting, between the upserts, and giving up. *)
LEMMA QuietSteps ==
    ASSUME KGInv, NEW d \in Doc,
           \/ StartBuild(d) \/ Extract(d) \/ EndExtraction(d) \/ EndEntitiesNeo4j(d)
           \/ EndRelationsNeo4j(d) \/ StoreFails(d) \/ StartReindex(d)
    PROVE  KGInv'
<1>1. Jobs /\ GoodJob(d, job[d]) /\ ToSet(<<>>) = {}
  BY NoElements DEF KGInv, Jobs
<1>2. ToSet(job[d].batch) \subseteq Held(d) /\ ToSet(job[d].own) \subseteq Held(d)
  BY DEF Held
<1> DEFINE still == UNCHANGED <<graph, crashes, mixed, wiring>> /\ disk' = disk
<1>3. CASE StartBuild(d)
  <2>1. Becomes(d, "extract", <<>>, <<>>, {}, {}, FALSE)
    BY <1>1, <1>3, StartBuildJob
  <2>2. still /\ job[d].phase \in {"new", "raised"}
    BY <1>3 DEF StartBuild
  <2> QED
    BY <1>1, <2>1, <2>2, QuietStep
<1>4. CASE Extract(d)
  <2>1. still
    BY <1>4 DEF Extract, history
  <2>2. PICK p \in {"extract", "merge"} :
          Becomes(d, p, job[d].own, job[d].batch, job[d].links, job[d].kept, job[d].rebuild)
    BY <1>1, <1>4, ExtractJob
  <2>3. job[d].phase = "extract"
    BY <1>1, <1>4, ExtractJob
  <2>4. job[d].rebuild => Gone(d) /\ Unlinked(d)
    BY <2>3 DEF Gone, Unlinked
  <2> QED
    BY <1>2, <2>1, <2>2, <2>3, <2>4, QuietStep
<1>5. CASE EndExtraction(d)
  <2>1. still
    BY <1>5 DEF EndExtraction, history
  <2>2. /\ job[d].phase = "extract"
        /\ Becomes(d, "upsert", job[d].own, job[d].batch, job[d].links,
                   {e.norm : e \in ToSet(job[d].batch)}, job[d].rebuild)
    BY <1>1, <1>5, EndExtractionJob
  <2>3. \A n \in {e.norm : e \in ToSet(job[d].batch)} : \E e \in ToSet(job[d].batch) : e.norm = n
    OBVIOUS
  <2> QED
    BY <1>2, <2>1, <2>2, <2>3, QuietStep
<1>6. CASE EndEntitiesNeo4j(d)
  <2>1. still
    BY <1>6 DEF EndEntitiesNeo4j, history
  <2>2. /\ ~Nx /\ job[d].phase = "upsert" /\ job[d].batch = <<>>
        /\ Becomes(d, "relate", job[d].own, job[d].batch, job[d].links, job[d].kept, job[d].rebuild)
    BY <1>1, <1>6, EndEntitiesNeo4jJob
  <2>3. \A g \in Graphs : \A n \in job[d].kept : InGraph(g, d, n)
    <3>1. Graphs = {"memory"}
      BY <2>2 DEF Graphs
    <3> QED
      BY <1>1, <2>2, <3>1 DEF KGInv, KeptIsHeld
  <2> QED
    BY <1>2, <2>1, <2>2, <2>3, QuietStep
<1>7. CASE StoreFails(d)
  <2>1. still /\ job[d].phase \in {"upsert", "relate", "delete", "detach", "unlink", "prune"}
    BY <1>7 DEF StoreFails, history
  <2>2. Becomes(d, IF job[d].rebuild THEN "aborted" ELSE "raised", <<>>, <<>>, {}, {}, FALSE)
    BY <1>1, <1>7, StoreFailsJob
  <2>3. job[d].phase \in {"detach", "prune"} => job[d].rebuild
    BY <1>1 DEF GoodJob
  <2>4. CASE job[d].rebuild
    BY <1>1, <2>1, <2>2, <2>4, QuietStep
  <2>5. CASE ~job[d].rebuild
    BY <1>1, <2>1, <2>2, <2>3, <2>5, QuietStep
  <2> QED
    BY <2>4, <2>5
<1>8. CASE StartReindex(d)
  <2>1. still
    BY <1>8 DEF StartReindex, history
  <2>2. job[d].phase = "built" /\ Becomes(d, "delete", <<>>, <<>>, {}, {}, TRUE)
    BY <1>1, <1>8, StartReindexJob
  <2> QED
    BY <1>1, <2>1, <2>2, QuietStep
<1>9. CASE EndRelationsNeo4j(d)
  <2>1. still
    BY <1>9 DEF EndRelationsNeo4j, history
  <2>2. /\ ~Nx /\ job[d].phase = "relate"
        /\ Becomes(d, "built", job[d].own, job[d].batch, job[d].links, job[d].kept, job[d].rebuild)
    BY <1>1, <1>9, EndRelationsNeo4jJob
  <2>3. crashes # "lost" => \A g \in Graphs : \A n \in job[d].kept : InGraph(g, d, n)
    BY <2>2 DEF KGInv, GraphInv, BuiltIsIn
  <2> QED
    BY <1>2, <2>1, <2>2, <2>3, QuietStep
<1> QED
  BY <1>3, <1>4, <1>5, <1>6, <1>7, <1>8, <1>9
--------------------------------------------------------------------------------
(* While a job is still extracting, a step that leaves the graph alone     *)
(* leaves it in order.                                                     *)
LEMMA GraphsStay ==
    ASSUME KGInv, NEW d \in Doc, UNCHANGED <<graph, disk, crashes, mixed, wiring>>,
           \A x \in Doc \ {d} : job'[x] = job[x],
           job[d].phase \in {"extract", "merge"}, job'[d].phase \in {"extract", "merge"},
           job'[d].rebuild = job[d].rebuild
    PROVE  \A g \in Graphs' : GraphInv(g)'
<1>1. /\ entities' = entities /\ nodes' = nodes /\ edges' = edges
      /\ relations' = relations /\ disk' = disk
      /\ crashes' = crashes /\ mixed' = mixed /\ wiring' = wiring /\ Graphs' = Graphs
  BY DEF graph, Graphs, Nx
<1>2. SUFFICES ASSUME NEW g \in Graphs
               PROVE  GraphInv(g)'
  BY <1>1
<1>3. g \in {"memory", "disk"} /\ GraphInv(g)
  BY DEF Graphs, KGInv
<1>4. Ents(g)' = Ents(g) /\ Nds(g)' = Nds(g) /\ Eds(g)' = Eds(g) /\ Rels(g)' = Rels(g)
  BY <1>1, <1>3, GraphParts
<1>5. (Gone(d)' => Gone(d)) /\ (Unlinked(d)' => Unlinked(d))
  BY DEF Gone, Unlinked
<1>6. ~mixed' /\ Gone(d)' => \A n \in DOMAIN Ents(g) : d \notin Ents(g)[n].docs
  BY <1>1, <1>3, <1>5 DEF GraphInv, Forgotten
<1>7. ~mixed' /\ Unlinked(d)' => \A y \in DOMAIN Rels(g) : d \notin Rels(g)[y]
  BY <1>1, <1>3, <1>5 DEF GraphInv, Forgotten
<1> QED
  BY <1>1, <1>3, <1>4, <1>6, <1>7, GraphStays

(* An entity merged by d's job comes into what it holds. *)
LEMMA MergeStep ==
    ASSUME KGInv, NEW d \in Doc, MergeEntity(d)
    PROVE  KGInv'
<1> USE DEF KGInv
<1>1. /\ "memory" \in Graphs /\ EntitiesAreKeyed("memory") /\ Forgotten("memory")
      /\ GoodJob(d, job[d])
  BY DEF Graphs, GraphInv, Jobs
<1>2. UNCHANGED <<graph, disk, crashes, mixed, wiring>>
  BY DEF MergeEntity, history
<1>3. job[d].phase = "merge"
  BY DEF MergeEntity
<1>4. CASE Becomes(d, "extract", <<>>, job[d].batch, job[d].links, job[d].kept, job[d].rebuild)
  <2>1. job[d].rebuild => Gone(d) /\ Unlinked(d)
    BY <1>3 DEF Gone, Unlinked
  <2>2. ToSet(job[d].batch) \cup ToSet(<<>>) \subseteq Held(d)
    BY NoElements DEF Held
  <2> QED
    BY <1>2, <1>3, <1>4, <2>1, <2>2, QuietStep
<1>5. ASSUME NEW e \in Merged(d, Head(job[d].found)),
             Becomes(d, job[d].phase, Append(job[d].own, e), job[d].batch,
                     job[d].links, job[d].kept, job[d].rebuild)
      PROVE  KGInv'
  <2>1. /\ Jobs' /\ \A x \in Doc \ {d} : job'[x] = job[x]
        /\ job'[d].phase = "merge" /\ job'[d].batch = job[d].batch
        /\ job'[d].links = job[d].links /\ job'[d].rebuild = job[d].rebuild
    BY <1>3, <1>5 DEF Becomes
  <2>2. /\ Held(d)' = Held(d) \cup {e}
        /\ \A x \in Doc \ {d} : Held(x)' = Held(x)
    <3>1. /\ Held(d)' = ToSet(job[d].batch) \cup ToSet(Append(job[d].own, e))
          /\ \A x \in Doc \ {d} : Held(x)' = Held(x)
      BY <1>5, HeldAfter
    <3>2. ToSet(Append(job[d].own, e)) = ToSet(job[d].own) \cup {e}
      BY <1>1, AppendElements DEF GoodJob
    <3> QED
      BY <3>1, <3>2 DEF Held
  <2>3. /\ d \in e.docs
        /\ \/ e.id = FreshId /\ e.docs = {d}
           \/ \E n \in DOMAIN entities :
                /\ e.id = entities[n].id /\ e.norm = entities[n].norm
                /\ e.docs = entities[n].docs \cup {d}
    BY <1>1, MergedEntity
  <2>4. /\ entities' = entities /\ nodes' = nodes /\ relations' = relations /\ disk' = disk
        /\ mixed' = mixed /\ Nx' = Nx /\ Ids' = Ids
    BY <1>2 DEF graph, Nx, Ids
  <2>5. FreshId \notin UsedIds
    BY FreshIdIsNew
  <2>6. Known' = Known \cup {e}
    <3>1. UNION {Held(x)' : x \in Doc} = (UNION {Held(x) : x \in Doc}) \cup {e}
      BY <2>2
    <3> QED
      BY <3>1, <2>4 DEF Known
  <2>7. OneNorm'
    <3>1. \A f \in Known : f.id \in UsedIds
      BY UsedIdsAre DEF Known, Ids
    <3>2. \A f \in Known : f.id = e.id => f.norm = e.norm
      <4> TAKE f \in Known
      <4>1. CASE e.id = FreshId
        BY <3>1, <2>5, <4>1
      <4>2. CASE \E n \in DOMAIN entities : e.id = entities[n].id /\ e.norm = entities[n].norm
        <5>1. PICK n \in DOMAIN entities : e.id = entities[n].id /\ e.norm = entities[n].norm
          BY <4>2
        <5>2. entities[n] \in Known
          BY DEF Known
        <5> QED
          BY <5>1, <5>2 DEF OneNorm
      <4> QED
        BY <4>1, <4>2, <2>3
    <3> HIDE DEF Known
    <3> QED
      BY <2>6, <3>2 DEF OneNorm
  <2>8. IdsAreFinite'
    <3> DEFINE A == UsedIds \cup DiskIds \cup {FreshId}
    <3>1. \A n \in DOMAIN entities' : entities'[n].id \in A
      BY <2>4, UsedIdsAre DEF Ids
    <3>2. nodes' \subseteq A /\ \A x \in DOMAIN relations' : x[1] \in A /\ x[2] \in A
      BY <2>4, UsedIdsAre
    <3>3. \A x \in Doc : \A y \in job'[x].links : y[1] \in A /\ y[2] \in A
      <4> TAKE x \in Doc
      <4>1. job'[x].links \subseteq job[x].links
        BY <2>1
      <4> QED
        BY <4>1, UsedIdsAre
    <3>4. e.id \in A
      BY <2>3, UsedIdsAre DEF Ids
    <3>5. \A x \in Doc : \A f \in Held(x)' : f.id \in A
      BY <2>2, <3>4, UsedIdsAre
    <3>6. disk' \in {disk, Written', Empty}
      BY <2>4
    <3> HIDE DEF A
    <3> QED
      BY <2>1, <3>1, <3>2, <3>3, <3>5, <3>6, StaysFinite DEF A
  <2>9. LinksAreKnown'
    <3> SUFFICES ASSUME Nx, ~mixed, NEW x \in Doc, NEW y \in job'[x].links, NEW id \in {y[1], y[2]}
                 PROVE  id \in Ids \/ \E f \in ToSet(job'[x].batch) : f.id = id
      BY <2>4 DEF LinksAreKnown, ToSet
    <3>1. job'[x].links = job[x].links /\ job'[x].batch = job[x].batch
      BY <2>1
    <3> QED
      BY <3>1 DEF LinksAreKnown
  <2>10. NotHeld'
    <3> SUFFICES ASSUME ~mixed, NEW x \in Doc, Gone(x)', NEW y \in Doc \ {x}, NEW f \in Held(y)'
                 PROVE  x \notin f.docs
      BY <2>4 DEF NotHeld
    <3>1. Gone(x)
      BY <2>1, <1>3 DEF Gone
    <3>2. CASE f \in Held(y)
      BY <3>1, <3>2 DEF NotHeld
    <3>3. CASE f = e /\ y = d
      <4>1. \A n \in DOMAIN entities : x \notin entities[n].docs
        BY <1>1, <3>1, GraphParts DEF Forgotten
      <4> QED
        BY <3>3, <4>1, <2>3
    <3> QED
      BY <3>2, <3>3, <2>2
  <2>11. KeptIsHeld'
    <3> SUFFICES ASSUME NEW x \in Doc, job'[x].phase = "upsert", NEW n \in job'[x].kept
                 PROVE  \/ \E f \in ToSet(job'[x].batch) : f.norm = n
                        \/ ~Nx' /\ InGraph("memory", x, n)'
      BY DEF KeptIsHeld, ToSet
    <3>1. x # d
      BY <2>1
    <3>2. InGraph("memory", x, n)' = InGraph("memory", x, n)
      BY <2>4, GraphParts DEF InGraph
    <3> QED
      BY <3>1, <3>2, <2>1, <2>4 DEF KeptIsHeld
  <2>12. \A g \in Graphs' : GraphInv(g)'
    BY <1>2, <1>3, <2>1, GraphsStay
  <2> QED
    BY <2>1, <2>7, <2>8, <2>9, <2>10, <2>11, <2>12
<1> QED
  BY <1>1, <1>4, <1>5, MergeEntityJob

(* The ids a name of the chunk stands for: that of an entity just merged,  *)
(* or of one in the graph.                                                 *)
LEMMA NamedIdsAreKnown ==
    ASSUME Jobs, NEW d \in Doc, NEW name, NEW id \in IdsNamed(d, name)
    PROVE  id \in Ids \/ \E e \in ToSet(job[d].own) : e.id = id
<1> DEFINE own == {i \in DOMAIN job[d].own : job[d].own[i].name = name}
           stored == {n \in DOMAIN entities : Nx /\ entities[n].name = name}
<1>1. id \in IF own # {} THEN {job[d].own[Max(own)].id} ELSE {entities[n].id : n \in stored}
  BY DEF IdsNamed
<1>2. CASE own # {}
  <2>1. GoodJob(d, job[d])
    BY DEF Jobs
  <2>2. job[d].own \in Seq(ToSet(job[d].own))
    BY <2>1 DEF GoodJob
  <2>3. PICK len \in Nat : DOMAIN job[d].own = 1..len
    BY <2>2, LenProperties
  <2>4. own \in SUBSET (1..len)
    BY <2>3
  <2> HIDE DEF own
  <2>5. Max(own) \in own
    BY <1>2, <2>3, <2>4, MaxIsIndex
  <2>6. job[d].own[Max(own)] \in ToSet(job[d].own)
    BY <2>3, <2>4, <2>5 DEF ToSet
  <2> QED
    BY <1>1, <1>2, <2>6
<1>3. CASE own = {}
  <2>1. id \in {entities[n].id : n \in stored}
    BY <1>1, <1>3
  <2> QED
    BY <2>1 DEF Ids
<1> QED
  BY <1>2, <1>3
--------------------------------------------------------------------------------
(* The chunk's entities join the batch, its relations the links. *)
LEMMA FinishStep ==
    ASSUME KGInv, NEW d \in Doc, FinishChunk(d)
    PROVE  KGInv'
<1> USE DEF KGInv
<1> DEFINE new == UNION {IdsNamed(d, l[1]) \X IdsNamed(d, l[2]) : l \in job[d].said}
<1>1. UNCHANGED <<graph, disk, crashes, mixed, wiring>>
  BY DEF FinishChunk, history
<1>2. /\ job[d].phase = "merge"
      /\ Becomes(d, "extract", <<>>, job[d].batch \o job[d].own, job[d].links \cup new,
                 job[d].kept, job[d].rebuild)
  BY FinishChunkJob
<1>3. /\ Jobs' /\ \A x \in Doc \ {d} : job'[x] = job[x]
      /\ job'[d].phase = "extract" /\ job'[d].batch = job[d].batch \o job[d].own
      /\ job'[d].links = job[d].links \cup new /\ job'[d].rebuild = job[d].rebuild
  BY <1>2 DEF Becomes
<1>4. ToSet(job[d].batch \o job[d].own) = Held(d)
  <2>1. GoodJob(d, job[d])
    BY DEF Jobs
  <2> QED
    BY <2>1, ConcatElements DEF GoodJob, Held
<1>5. \A x \in Doc : Held(x)' = Held(x)
  <2>1. /\ Held(d)' = ToSet(job[d].batch \o job[d].own) \cup ToSet(<<>>)
        /\ \A x \in Doc \ {d} : Held(x)' = Held(x)
    BY <1>2, HeldAfter
  <2> QED
    BY <2>1, <1>4, NoElements
<1>6. /\ entities' = entities /\ nodes' = nodes /\ relations' = relations /\ disk' = disk
      /\ mixed' = mixed /\ Nx' = Nx /\ Ids' = Ids
  BY <1>1 DEF graph, Nx, Ids
<1>7. \A y \in new : \A id \in {y[1], y[2]} : id \in Ids \/ \E e \in Held(d) : e.id = id
  <2> SUFFICES ASSUME NEW l \in job[d].said, NEW y \in IdsNamed(d, l[1]) \X IdsNamed(d, l[2]),
                      NEW id \in {y[1], y[2]}
               PROVE  id \in Ids \/ \E e \in Held(d) : e.id = id
    OBVIOUS
  <2>1. id \in IdsNamed(d, l[1]) \/ id \in IdsNamed(d, l[2])
    OBVIOUS
  <2>2. id \in Ids \/ \E e \in ToSet(job[d].own) : e.id = id
    BY <2>1, NamedIdsAreKnown
  <2> QED
    BY <2>2 DEF Held
<1> HIDE DEF new
<1>8. OneNorm'
  BY <1>5, <1>6 DEF OneNorm, Known
<1>9. IdsAreFinite'
  <2> DEFINE A == UsedIds \cup DiskIds \cup {FreshId}
  <2>1. \A n \in DOMAIN entities' : entities'[n].id \in A
    BY <1>6, UsedIdsAre DEF Ids
  <2>2. nodes' \subseteq A /\ \A x \in DOMAIN relations' : x[1] \in A /\ x[2] \in A
    BY <1>6, UsedIdsAre
  <2>3. \A y \in new : y[1] \in A /\ y[2] \in A
    BY <1>7, UsedIdsAre
  <2>4. \A x \in Doc : \A y \in job'[x].links : y[1] \in A /\ y[2] \in A
    <3> TAKE x \in Doc
    <3> TAKE y \in job'[x].links
    <3>1. y \in job[x].links \/ y \in new
      BY <1>3
    <3> QED
      BY <3>1, <2>3, UsedIdsAre
  <2>5. \A x \in Doc : \A e \in Held(x)' : e.id \in A
    BY <1>5, UsedIdsAre
  <2>6. disk' \in {disk, Written', Empty}
    BY <1>6
  <2> HIDE DEF A
  <2> QED
    BY <1>3, <2>1, <2>2, <2>4, <2>5, <2>6, StaysFinite DEF A
<1>10. LinksAreKnown'
  <2> SUFFICES ASSUME Nx, ~mixed, NEW x \in Doc, NEW y \in job'[x].links, NEW id \in {y[1], y[2]}
               PROVE  id \in Ids \/ \E f \in ToSet(job'[x].batch) : f.id = id
    BY <1>6 DEF LinksAreKnown, ToSet
  <2>1. CASE x # d
    BY <2>1, <1>3 DEF LinksAreKnown
  <2>2. CASE x = d
    <3>1. ToSet(job'[x].batch) = Held(d)
      BY <2>2, <1>3, <1>4
    <3>2. y \in job[d].links \/ y \in new
      BY <2>2, <1>3
    <3>3. CASE y \in job[d].links
      BY <3>1, <3>3 DEF LinksAreKnown, Held
    <3>4. CASE y \in new
      BY <3>1, <3>4, <1>7
    <3> QED
      BY <3>2, <3>3, <3>4
  <2> QED
    BY <2>1, <2>2
<1>11. NotHeld'
  <2> SUFFICES ASSUME ~mixed, NEW x \in Doc, Gone(x)', NEW y \in Doc \ {x}, NEW f \in Held(y)'
               PROVE  x \notin f.docs
    BY <1>6 DEF NotHeld
  <2>1. Gone(x)
    BY <1>2, <1>3 DEF Gone
  <2> QED
    BY <2>1, <1>5 DEF NotHeld
<1>12. KeptIsHeld'
  <2> SUFFICES ASSUME NEW x \in Doc, job'[x].phase = "upsert", NEW n \in job'[x].kept
               PROVE  \/ \E f \in ToSet(job'[x].batch) : f.norm = n
                      \/ ~Nx' /\ InGraph("memory", x, n)'
    BY DEF KeptIsHeld, ToSet
  <2>1. x # d
    BY <1>3
  <2>2. InGraph("memory", x, n)' = InGraph("memory", x, n)
    BY <1>6, GraphParts DEF InGraph
  <2> QED
    BY <2>1, <2>2, <1>3, <1>6 DEF KeptIsHeld
<1>13. \A g \in Graphs' : GraphInv(g)'
  BY <1>1, <1>2, <1>3, GraphsStay
<1> QED
  BY <1>3, <1>8, <1>9, <1>10, <1>11, <1>12, <1>13

(* The upsert with counts taken down by one puts them up again: with       *)
(* networkx the graph stays as it was.                                     *)
LEMMA DeleteChunkStep ==
    ASSUME KGInv, NEW d \in Doc, DeleteChunkFromGraph(d)
    PROVE  KGInv'
<1> DEFINE remaining ==
             [n \in {m \in DOMAIN entities : d \in entities[m].docs /\ entities[m].docs # {d}} |->
                [entities[n] EXCEPT !.docs = @ \ {d}]]
<1>1. /\ Jobs /\ GoodJob(d, job[d]) /\ "memory" \in Graphs /\ EntitiesAreKeyed("memory")
      /\ \A g \in Graphs : BuiltIsIn(g)
  BY DEF KGInv, Jobs, Graphs, GraphInv
<1>2. /\ \A n \in DOMAIN entities : IsEntity(entities[n])
      /\ entities = [n \in DOMAIN entities |-> entities[n]]
  BY <1>1, GraphParts DEF EntitiesAreKeyed
<1>3. ASSUME NEW n \in DOMAIN remaining
      PROVE  Stored(entities[n], remaining[n]) = entities[n]
  <2>1. n \in DOMAIN entities /\ remaining[n] = [entities[n] EXCEPT !.docs = @ \ {d}]
    BY <1>3
  <2> HIDE DEF remaining
  <2>2. PICK a, b, c, x, v :
          entities[n] = [norm |-> a, id |-> b, name |-> c, docs |-> x, vec |-> v]
    BY <1>2, <2>1 DEF IsEntity
  <2>3. remaining[n].docs \subseteq x
    <3>1. PICK y : y = x \ {d}
      OBVIOUS
    <3>2. remaining[n] = [entities[n] EXCEPT !.docs = y]
      BY <2>1, <2>2, <3>1
    <3>3. remaining[n].docs = y
      BY <2>2, <3>2
    <3> QED
      BY <3>1, <3>3
  <2>4. x \cup remaining[n].docs = x
    BY <2>3
  <2>5. Stored(entities[n], remaining[n]) = [entities[n] EXCEPT !.docs = x]
    BY <2>2, <2>4 DEF Stored
  <2> QED
    BY <2>2, <2>5
<1>4. entities' = entities
  <2>1. entities' = IF Nx
                    THEN [n \in DOMAIN entities |->
                             IF n \in DOMAIN remaining THEN Stored(entities[n], remaining[n])
                             ELSE entities[n]]
                    ELSE entities
    BY DEF DeleteChunkFromGraph
  <2> HIDE DEF remaining
  <2>2. [n \in DOMAIN entities |->
            IF n \in DOMAIN remaining THEN Stored(entities[n], remaining[n]) ELSE entities[n]]
          = [n \in DOMAIN entities |-> entities[n]]
    BY <1>3
  <2> QED
    BY <1>2, <2>1, <2>2
<1>5. UNCHANGED <<graph, crashes, mixed, wiring>>
  BY <1>4 DEF DeleteChunkFromGraph, history, graph
<1>6. disk' \in {disk, Written'}
  BY <1>5 DEF DeleteChunkFromGraph, Dump, Written
<1>7. job[d].phase = "built"
  BY DEF DeleteChunkFromGraph
<1>8. CASE Nx
  <2>1. Becomes(d, job[d].phase, job[d].own, job[d].batch, job[d].links, job[d].kept, TRUE)
    BY <1>1, <1>8, DeleteChunkNxJob
  <2>2. \A g \in Graphs : crashes # "lost" => \A n \in job[d].kept : InGraph(g, d, n)
    BY <1>1, <1>7 DEF BuiltIsIn
  <2>3. ToSet(job[d].batch) \cup ToSet(job[d].own) \subseteq Held(d)
    BY DEF Held
  <2> QED
    BY <1>5, <1>6, <1>7, <2>1, <2>2, <2>3, QuietStep
<1>9. CASE ~Nx
  <2>1. Becomes(d, "delete", <<>>, <<>>, {}, {}, TRUE)
    BY <1>1, <1>9, DeleteChunkNeo4jJob
  <2> QED
    BY <1>5, <1>6, <1>7, <2>1, NoElements, QuietStep
<1> QED
  BY <1>8, <1>9
--------------------------------------------------------------------------------
(* A step after which no job holds more, and whose graph and relations are *)
(* made of what was stored or held before.                                 *)
LEMMA HoldingLess ==
    ASSUME KGInv, Jobs',
           \A x \in Doc : Held(x)' \subseteq Held(x) /\ job'[x].links \subseteq job[x].links,
           \A n \in DOMAIN entities' : \E f \in Known :
               f.id = entities'[n].id /\ f.norm = entities'[n].norm,
           \A l \in DOMAIN relations' : l[1] \in UsedIds /\ l[2] \in UsedIds,
           nodes' \subseteq UsedIds,
           disk' \in {disk, Written', Empty}
    PROVE  OneNorm' /\ IdsAreFinite'
<1> USE DEF KGInv
<1>1. \A x \in Doc : \A e \in Held(x)' : e \in Known
  BY DEF Known
<1>2. OneNorm'
  <2>1. \A x \in Doc : \A e \in Held(x)' : \E f \in Known : f.id = e.id /\ f.norm = e.norm
    BY <1>1
  <2> QED
    BY <2>1, OneNormStays
<1>3. IdsAreFinite'
  <2> DEFINE A == UsedIds \cup DiskIds \cup {FreshId}
  <2>1. \A f \in Known : f.id \in A
    BY UsedIdsAre DEF Known, Ids
  <2>2. \A n \in DOMAIN entities' : entities'[n].id \in A
    <3> HIDE DEF Known, A
    <3> QED
      BY <2>1
  <2>3. nodes' \subseteq A /\ \A l \in DOMAIN relations' : l[1] \in A /\ l[2] \in A
    OBVIOUS
  <2>4. \A x \in Doc : \A y \in job'[x].links : y[1] \in A /\ y[2] \in A
    BY UsedIdsAre
  <2>5. \A x \in Doc : \A e \in Held(x)' : e.id \in A
    BY UsedIdsAre
  <2> HIDE DEF A
  <2> QED
    BY <2>2, <2>3, <2>4, <2>5, StaysFinite DEF A
<1> QED
  BY <1>2, <1>3

LEMMA StoredIdsAreUsed ==
    ASSUME Jobs
    PROVE  /\ nodes \subseteq UsedIds
           /\ \A l \in DOMAIN relations : l[1] \in UsedIds /\ l[2] \in UsedIds
  BY UsedIdsAre

(* What a step that stores relations does: keys are those it stores. *)
Relates(d, p, l2, keys) ==
    /\ job[d].phase = "relate" /\ p \in {"relate", "built"} /\ l2 \subseteq job[d].links
    /\ Becomes(d, p, job[d].own, job[d].batch, l2, job[d].kept, job[d].rebuild)
    /\ UNCHANGED <<entities, crashes, mixed, wiring>> /\ disk' \in {disk, Written'}
    /\ DOMAIN relations' = DOMAIN relations \cup keys
    /\ \A k \in keys : \E y \in job[d].links : k[1] = y[1] /\ k[2] = y[2]
    /\ ~Nx => \A k \in keys : k[1] \in Ids /\ k[2] \in Ids
    /\ \A k \in DOMAIN relations' :
        \/ k \in DOMAIN relations /\ relations'[k] = relations[k]
        \/ d \in relations'[k] /\ \A x \in relations'[k] \ {d} :
                                    k \in DOMAIN relations /\ x \in relations[k]
    /\ nodes \subseteq nodes' /\ edges \subseteq edges'
    /\ \A id \in nodes' \ nodes : \E k \in keys : id \in {k[1], k[2]}
    /\ Nx => /\ \A e \in edges' \ edges : e[1] \in nodes' /\ e[2] \in nodes'
             /\ \A k \in keys \ DOMAIN relations : <<k[1], k[2]>> \in edges'

(* Relations join entities that were stored before them; an edge comes   *)
(* with its nodes.                                                         *)
LEMMA RelatingStep ==
    ASSUME KGInv, NEW d \in Doc, NEW p, NEW l2, NEW keys, Relates(d, p, l2, keys)
    PROVE  KGInv'
<1> USE DEF KGInv, Relates
<1>1. /\ entities' = entities /\ crashes' = crashes /\ mixed' = mixed /\ wiring' = wiring
  OBVIOUS
<1>2. /\ Jobs' /\ \A x \in Doc \ {d} : job'[x] = job[x]
      /\ job'[d].phase = p /\ job'[d].batch = job[d].batch /\ job'[d].own = job[d].own
      /\ job'[d].links = l2 /\ job'[d].kept = job[d].kept /\ job'[d].rebuild = job[d].rebuild
  BY DEF Becomes
<1>3. ToSet(job[d].batch) = {}
  <2>1. GoodJob(d, job[d])
    BY DEF Jobs
  <2> QED
    BY <2>1, NoElements DEF GoodJob
<1>4. \A x \in Doc : Held(x)' = Held(x)
  <2>1. /\ Held(d)' = ToSet(job[d].batch) \cup ToSet(job[d].own)
        /\ \A x \in Doc \ {d} : Held(x)' = Held(x)
    BY HeldAfter
  <2> QED
    BY <2>1 DEF Held
<1>5. Nx' = Nx /\ Ids' = Ids /\ Graphs' = Graphs
  BY <1>1 DEF Nx, Ids, Graphs
<1>6. \A k \in keys : k[1] \in UsedIds /\ k[2] \in UsedIds
  BY UsedIdsAre
<1>7. ~mixed \/ ~Nx => \A k \in keys : k[1] \in Ids /\ k[2] \in Ids
  <2>1. CASE ~Nx
    BY <2>1
  <2>2. CASE Nx /\ ~mixed
    <3>1. \A y \in job[d].links : y[1] \in Ids /\ y[2] \in Ids
      BY <2>2, <1>3 DEF LinksAreKnown
    <3> QED
      BY <3>1
  <2> QED
    BY <2>1, <2>2
<1>8. "memory" \in Graphs /\ GraphInv("memory")
  BY DEF Graphs
<1>9. OneNorm' /\ IdsAreFinite'
  <2>1. \A x \in Doc : Held(x)' \subseteq Held(x) /\ job'[x].links \subseteq job[x].links
    BY <1>2, <1>4
  <2>2. \A n \in DOMAIN entities' : \E f \in Known :
          f.id = entities'[n].id /\ f.norm = entities'[n].norm
    BY <1>1 DEF Known
  <2>3. /\ \A l \in DOMAIN relations' : l[1] \in UsedIds /\ l[2] \in UsedIds
        /\ nodes' \subseteq UsedIds
    BY <1>6, StoredIdsAreUsed
  <2>4. disk' \in {disk, Written', Empty}
    OBVIOUS
  <2> QED
    BY <1>2, <2>1, <2>2, <2>3, <2>4, HoldingLess
<1>10. LinksAreKnown'
  <2> SUFFICES ASSUME Nx, ~mixed, NEW x \in Doc, NEW y \in job'[x].links, NEW id \in {y[1], y[2]}
               PROVE  id \in Ids \/ \E f \in ToSet(job'[x].batch) : f.id = id
    BY <1>1, <1>5 DEF LinksAreKnown, ToSet
  <2>1. y \in job[x].links /\ job'[x].batch = job[x].batch
    BY <1>2
  <2> QED
    BY <2>1 DEF LinksAreKnown
<1>11. NotHeld'
  <2> SUFFICES ASSUME ~mixed, NEW x \in Doc, Gone(x)', NEW y \in Doc \ {x}, NEW f \in Held(y)'
               PROVE  x \notin f.docs
    BY <1>1 DEF NotHeld
  <2>1. Gone(x)
    BY <1>2 DEF Gone
  <2> QED
    BY <2>1, <1>4 DEF NotHeld
<1>12. KeptIsHeld'
  <2> SUFFICES ASSUME NEW x \in Doc, job'[x].phase = "upsert", NEW n \in job'[x].kept
               PROVE  \/ \E f \in ToSet(job'[x].batch) : f.norm = n
                      \/ ~Nx' /\ InGraph("memory", x, n)'
    BY DEF KeptIsHeld, ToSet
  <2>1. x # d
    BY <1>2
  <2>2. ~Nx => InGraph("memory", x, n)' = InGraph("memory", x, n)
    BY <1>1, <1>5, GraphParts DEF InGraph
  <2> QED
    BY <2>1, <2>2, <1>2, <1>5 DEF KeptIsHeld
<1>13. Nx => Ids \subseteq nodes' /\ (~mixed => nodes' = Ids)
  <2>1. Nx => Ids \subseteq nodes /\ (~mixed => nodes = Ids)
    BY <1>8, GraphParts DEF GraphInv, NodesAreIds
  <2>2. Nx /\ ~mixed => \A id \in nodes' : id \in Ids
    BY <2>1, <1>7
  <2> QED
    BY <2>1, <2>2
<1>14. GraphInv("memory")'
  <2> USE <1>1, <1>5, <1>8, GraphParts DEF GraphInv
  <2>1. EntitiesAreKeyed("memory")' /\ DistinctIds("memory")'
    BY DEF EntitiesAreKeyed, DistinctIds, IsEntity
  <2>2. NodesAreIds("memory")'
    BY <1>13 DEF NodesAreIds
  <2>3. EndsAreIds("memory")'
    BY <1>7 DEF EndsAreIds
  <2>4. EdgesFit("memory")'
    <3>1. Nx => /\ \A l \in DOMAIN relations : <<l[1], l[2]>> \in edges
                /\ \A e \in edges : e[1] \in nodes /\ e[2] \in nodes
      BY DEF EdgesFit
    <3>2. Nx => /\ \A l \in DOMAIN relations' : <<l[1], l[2]>> \in edges'
                /\ \A e \in edges' : e[1] \in nodes' /\ e[2] \in nodes'
      BY <3>1
    <3> QED
      BY <3>2 DEF EdgesFit
  <2>5. BuiltIsIn("memory")'
    <3> SUFFICES ASSUME crashes # "lost", NEW x \in Doc, job'[x].phase \in {"relate", "built"},
                        NEW n \in job'[x].kept
                 PROVE  InGraph("memory", x, n)'
      BY DEF BuiltIsIn
    <3>1. InGraph("memory", x, n)
      BY <1>2 DEF BuiltIsIn
    <3> QED
      BY <3>1 DEF InGraph
  <2>6. Forgotten("memory")'
    <3> SUFFICES ASSUME ~mixed, NEW x \in Doc
                 PROVE  /\ Gone(x)' => \A n \in DOMAIN entities : x \notin entities[n].docs
                        /\ Unlinked(x)' => \A l \in DOMAIN relations' : x \notin relations'[l]
      BY DEF Forgotten
    <3>1. (Gone(x)' => Gone(x)) /\ (Unlinked(x)' => Unlinked(x) /\ x # d)
      BY <1>2 DEF Gone, Unlinked
    <3>2. /\ Gone(x) => \A n \in DOMAIN entities : x \notin entities[n].docs
          /\ Unlinked(x) => \A l \in DOMAIN relations : x \notin relations[l]
      BY DEF Forgotten
    <3> QED
      BY <3>1, <3>2
  <2>7. ReferencedOrLeft("memory")'
    <3>1. \A o \in Doc : job[o].phase \in {"detach", "prune", "aborted"} =>
              job'[o].phase = job[o].phase
      BY <1>2
    <3>2. \A n \in DOMAIN entities : entities[n].docs = {} =>
              ~Nx /\ \E o \in Doc : job'[o].phase \in {"detach", "aborted"}
      BY <3>1 DEF ReferencedOrLeft
    <3>3. \A l \in DOMAIN relations : relations[l] = {} =>
              ~Nx /\ \E o \in Doc : job'[o].phase \in {"prune", "aborted"}
      BY <3>1 DEF ReferencedOrLeft
    <3>4. \A l \in DOMAIN relations' : relations'[l] = {} =>
              l \in DOMAIN relations /\ relations[l] = {}
      OBVIOUS
    <3> QED
      BY <3>2, <3>3, <3>4 DEF ReferencedOrLeft
  <2> QED
    BY <2>1, <2>2, <2>3, <2>4, <2>5, <2>6, <2>7
<1>15. ASSUME "disk" \in Graphs
       PROVE  GraphInv("disk")'
  <2>1. CASE disk' = disk
    <3>1. GraphInv("disk")
      BY <1>15
    <3>2. /\ Ents("disk")' = Ents("disk") /\ Nds("disk")' = Nds("disk")
          /\ Eds("disk")' = Eds("disk") /\ Rels("disk")' = Rels("disk")
      BY <2>1, GraphParts
    <3>3. crashes # "lost" => \A n \in job'[d].kept : InGraph("disk", d, n)
      BY <1>1, <1>2, <3>1 DEF GraphInv, BuiltIsIn
    <3>4. ~Gone(d)' /\ ~Unlinked(d)'
      BY <1>2 DEF Gone, Unlinked
    <3> QED
      BY <1>1, <1>2, <3>1, <3>2, <3>3, <3>4, GraphStays
  <2>2. CASE disk' = Written'
    BY <1>14, <2>2, DiskCopied
  <2> QED
    BY <2>1, <2>2
<1>16. \A g \in Graphs' : GraphInv(g)'
  BY <1>5, <1>14, <1>15 DEF Graphs
<1> QED
  BY <1>2, <1>9, <1>10, <1>11, <1>12, <1>16

(* networkx: all at once, each new one with its edge. *)
LEMMA RelationsNxStep ==
    ASSUME KGInv, NEW d \in Doc, UpsertRelationsNx(d)
    PROVE  KGInv'
<1> DEFINE keys == {Key(d, l) : l \in job[d].links}
           added == keys \ DOMAIN relations
<1>1. /\ Nx /\ job[d].phase = "relate"
      /\ relations' = [k \in DOMAIN relations \cup keys |->
                          IF k \in added THEN {d}
                          ELSE IF k \in keys THEN relations[k] \cup {d} ELSE relations[k]]
      /\ edges' = edges \cup {<<k[1], k[2]>> : k \in added}
      /\ nodes' = nodes \cup UNION {{k[1], k[2]} : k \in added}
      /\ UNCHANGED <<entities, crashes, mixed, wiring>>
      /\ disk' \in {disk, Written'}
  BY DEF UpsertRelationsNx, history, Dump, Written
<1>2. Becomes(d, "built", job[d].own, job[d].batch, {}, job[d].kept, job[d].rebuild)
  BY UpsertRelationsNxJob DEF KGInv
<1>3. \A k \in keys : \E y \in job[d].links : k[1] = y[1] /\ k[2] = y[2]
  BY DEF Key
<1> HIDE DEF keys
<1>4. DOMAIN relations' = DOMAIN relations \cup keys
  BY <1>1
<1>5. \A k \in DOMAIN relations' :
          \/ k \in DOMAIN relations /\ relations'[k] = relations[k]
          \/ d \in relations'[k] /\ \A x \in relations'[k] \ {d} :
                                      k \in DOMAIN relations /\ x \in relations[k]
  BY <1>1
<1>6. /\ nodes \subseteq nodes' /\ edges \subseteq edges'
      /\ \A id \in nodes' \ nodes : \E k \in keys : id \in {k[1], k[2]}
      /\ \A e \in edges' \ edges : e[1] \in nodes' /\ e[2] \in nodes'
      /\ \A k \in keys \ DOMAIN relations : <<k[1], k[2]>> \in edges'
  BY <1>1
<1>7. Relates(d, "built", {}, keys)
  BY <1>1, <1>2, <1>3, <1>4, <1>5, <1>6 DEF Relates
<1> QED
  BY <1>7, RelatingStep

(* neo4j: one after the other, if both ends are there. *)
LEMMA RelationNeo4jStep ==
    ASSUME KGInv, NEW d \in Doc, UpsertRelationNeo4j(d)
    PROVE  KGInv'
<1>1. ~Nx /\ job[d].phase = "relate"
      /\ UNCHANGED <<entities, nodes, edges, disk, crashes, mixed, wiring>>
  BY DEF UpsertRelationNeo4j, history
<1>2. PICK l \in job[d].links :
          /\ relations' = [k \in DOMAIN relations \cup
                               {k \in {Key(d, l)} : k[1] \in Ids /\ k[2] \in Ids} |->
                             IF k \in {k2 \in {Key(d, l)} : k2[1] \in Ids /\ k2[2] \in Ids}
                             THEN {d} ELSE relations[k]]
          /\ To(d, [job[d] EXCEPT !.links = @ \ {l}])
  BY DEF UpsertRelationNeo4j
<1> DEFINE keys == {k \in {Key(d, l)} : k[1] \in Ids /\ k[2] \in Ids}
<1>3. To(d, [job[d] EXCEPT !.links = job[d].links \ {l}])
  BY <1>2
<1>4. Becomes(d, "relate", job[d].own, job[d].batch, job[d].links \ {l}, job[d].kept,
              job[d].rebuild)
  BY <1>1, <1>3, UpsertRelationNeo4jJob DEF KGInv
<1>5. \A k \in keys : /\ \E y \in job[d].links : k[1] = y[1] /\ k[2] = y[2]
                      /\ k[1] \in Ids /\ k[2] \in Ids
  BY DEF Key
<1>6. relations' = [k \in DOMAIN relations \cup keys |-> IF k \in keys THEN {d} ELSE relations[k]]
  BY <1>2
<1> HIDE DEF keys
<1>7. /\ DOMAIN relations' = DOMAIN relations \cup keys
      /\ \A k \in DOMAIN relations' :
            \/ k \in DOMAIN relations /\ relations'[k] = relations[k]
            \/ d \in relations'[k] /\ \A x \in relations'[k] \ {d} :
                                        k \in DOMAIN relations /\ x \in relations[k]
  BY <1>6
<1>8. Relates(d, "relate", job[d].links \ {l}, keys)
  BY <1>1, <1>4, <1>5, <1>7 DEF Relates
<1> QED
  BY <1>8, RelatingStep

--------------------------------------------------------------------------------
(* With networkx the batch comes into the graph at once, or as far as the  *)
(* entity whose node a deletion took.                                      *)
LEMMA UpsertNxStep ==
    ASSUME KGInv, NEW d \in Doc, UpsertEntitiesNx(d)
    PROVE  KGInv'
<1> USE DEF KGInv
<1> DEFINE batch == job[d].batch
           done == UpsertAll(batch)
           old(n, f) ==
               /\ f \in {entities[m] : m \in DOMAIN entities} \cup ToSet(batch)
               /\ n \in DOMAIN entities => f = entities[n]
               /\ n \notin DOMAIN entities => f \in ToSet(batch) /\ f.id \in done.nodes
               /\ f.norm = n /\ IsEntity(done.ents[n])
               /\ done.ents[n].norm = n /\ done.ents[n].id = f.id
               /\ f.docs \subseteq done.ents[n].docs
               /\ \A x \in done.ents[n].docs \ f.docs : \E e \in ToSet(batch) : x \in e.docs
<1>1. /\ Nx /\ job[d].phase = "upsert"
      /\ entities' = done.ents /\ nodes' = done.nodes
      /\ edges' = edges /\ relations' = relations
      /\ crashes' = crashes /\ mixed' = mixed /\ wiring' = wiring
      /\ disk' = IF (done.ok /\ batch # <<>>) /\ wiring.persist
                 THEN Written' ELSE disk
  BY DEF UpsertEntitiesNx, history, Dump, Written
<1>2. "memory" \in Graphs /\ GraphInv("memory") /\ GoodJob(d, job[d])
  BY DEF Graphs, Jobs
<1>3. \A e \in ToSet(batch) : IsEntity(e) /\ d \in e.docs /\ e \in Held(d) /\ e \in Known
  BY <1>2 DEF GoodJob, Held, Known
<1>4. Upserted(batch)
  BY <1>2, <1>3, UpsertsBatch DEF GoodJob, GraphInv
<1>5. /\ done.ents = [n \in DOMAIN done.ents |-> done.ents[n]]
      /\ DOMAIN entities \subseteq DOMAIN done.ents
      /\ \A n \in DOMAIN done.ents : \E f : old(n, f)
      /\ nodes \subseteq done.nodes
      /\ \A id \in done.nodes \ nodes :
          \E n \in DOMAIN done.ents \ DOMAIN entities : done.ents[n].id = id
      /\ done.ok => \A e \in ToSet(batch) :
          e.norm \in DOMAIN done.ents /\ e.docs \subseteq done.ents[e.norm].docs /\ e.id \in done.nodes
  <2>1. \A n \in DOMAIN done.ents : \E f : old(n, f)
    BY <1>4 DEF Upserted
  <2> HIDE DEF old
  <2> QED
    BY <1>4, <2>1 DEF Upserted
<1>6. /\ Jobs' /\ \A x \in Doc \ {d} : job'[x] = job[x]
      /\ job'[d].own = <<>> /\ job'[d].batch = <<>>
      /\ done.ok => /\ job'[d].phase = "relate" /\ job'[d].links = job[d].links
                    /\ job'[d].kept = job[d].kept
      /\ ~done.ok => /\ job'[d].phase \in {"raised", "aborted"}
                     /\ job'[d].links = {} /\ ~job'[d].rebuild
  BY UpsertNxJob DEF Becomes
<1> HIDE DEF done
<1>7. \A x \in Doc : Held(x)' \subseteq Held(x) /\ job'[x].links \subseteq job[x].links
  BY <1>6, NoElements DEF Held, ToSet
<1>8. Nx' = Nx /\ Graphs' = Graphs
  BY <1>1 DEF Nx, Graphs
<1>9. \A n \in DOMAIN entities' : \E f : old(n, f) /\ f \in Known
  <2> TAKE n \in DOMAIN entities'
  <2>1. PICK f : old(n, f)
    BY <1>1, <1>5
  <2>2. f \in Known
    BY <2>1, <1>3 DEF Known
  <2> QED
    BY <2>1, <2>2
<1>10. \A n \in DOMAIN entities : n \in DOMAIN entities' /\ entities'[n].id = entities[n].id
                                  /\ entities[n].docs \subseteq entities'[n].docs
  BY <1>1, <1>5
<1>11. Ids \subseteq Ids'
  BY <1>10 DEF Ids
<1>12. /\ OneNorm' /\ IdsAreFinite'
  <2>1. \A n \in DOMAIN entities' : \E f \in Known :
          f.id = entities'[n].id /\ f.norm = entities'[n].norm
    <3> TAKE n \in DOMAIN entities'
    <3>1. PICK f : old(n, f) /\ f \in Known
      BY <1>9
    <3> QED
      BY <3>1, <1>1
  <2>2. disk' \in {disk, Written', Empty}
    BY <1>1
  <2>3. \A id \in nodes' \ nodes : \E f \in ToSet(batch) : f.id = id
    <3> TAKE id \in nodes' \ nodes
    <3>1. PICK n \in DOMAIN done.ents \ DOMAIN entities : done.ents[n].id = id
      BY <1>1, <1>5
    <3>2. PICK f : old(n, f)
      BY <1>5
    <3> QED
      BY <3>1, <3>2
  <2>4. \A f \in ToSet(batch) : f.id \in UsedIds
    BY <1>3, UsedIdsAre
  <2>5. /\ \A l \in DOMAIN relations' : l[1] \in UsedIds /\ l[2] \in UsedIds
        /\ nodes' \subseteq UsedIds
    BY <1>1, <2>3, <2>4, StoredIdsAreUsed
  <2> QED
    BY <1>6, <1>7, <2>1, <2>2, <2>5, HoldingLess
<1>13. EntitiesAreKeyed("memory")'
  <2>1. \A n \in DOMAIN entities' : IsEntity(entities'[n]) /\ entities'[n].norm = n
    BY <1>1, <1>5
  <2>2. EntitiesAreKeyed("memory")' <=>
          /\ entities' = [n \in DOMAIN entities' |-> entities'[n]]
          /\ \A n \in DOMAIN entities' : IsEntity(entities'[n]) /\ entities'[n].norm = n
    BY GraphParts DEF EntitiesAreKeyed, IsEntity
  <2> QED
    BY <1>1, <1>5, <2>1, <2>2
<1>14. DistinctIds("memory")'
  <2>1. ASSUME NEW m \in DOMAIN entities', NEW n \in DOMAIN entities',
               entities'[m].id = entities'[n].id
        PROVE  m = n
    <3>1. PICK f : old(m, f) /\ f \in Known
      BY <1>9
    <3>2. PICK h : old(n, h) /\ h \in Known
      BY <1>9
    <3>3. f.id = h.id /\ f.norm = m /\ h.norm = n
      BY <1>1, <2>1, <3>1, <3>2
    <3> HIDE DEF old
    <3> QED
      BY <3>1, <3>2, <3>3 DEF OneNorm
  <2> QED
    BY <2>1, GraphParts DEF DistinctIds
<1>15. Ids' \subseteq nodes' /\ (~mixed => nodes' = Ids')
  <2>1. Ids \subseteq nodes /\ (~mixed => nodes = Ids)
    BY <1>1, <1>2, GraphParts DEF GraphInv, NodesAreIds
  <2>2. ASSUME NEW n \in DOMAIN entities'
        PROVE  entities'[n].id \in nodes'
    <3>1. CASE n \in DOMAIN entities
      BY <3>1, <1>1, <1>5, <1>10, <2>1 DEF Ids
    <3>2. CASE n \notin DOMAIN entities
      BY <2>2, <3>2, <1>1, <1>5
    <3> QED
      BY <3>1, <3>2
  <2>3. ~mixed => nodes' \subseteq Ids'
    BY <2>1, <1>1, <1>5, <1>11 DEF Ids
  <2> QED
    BY <2>2, <2>3 DEF Ids
<1>16. LinksAreKnown'
  <2> SUFFICES ASSUME ~mixed, NEW x \in Doc, NEW y \in job'[x].links, NEW id \in {y[1], y[2]}
               PROVE  id \in Ids' \/ \E f \in ToSet(job'[x].batch) : f.id = id
    BY <1>1 DEF LinksAreKnown, ToSet
  <2>1. y \in job[x].links
    BY <1>7
  <2>2. id \in Ids \/ \E f \in ToSet(job[x].batch) : f.id = id
    BY <1>1, <2>1 DEF LinksAreKnown
  <2>3. CASE id \in Ids
    BY <2>3, <1>11
  <2>4. CASE x # d
    BY <2>2, <2>4, <1>6, <1>11
  <2>5. CASE x = d /\ \E f \in ToSet(batch) : f.id = id
    <3>1. done.ok
      BY <2>5, <1>6
    <3> QED
      BY <3>1, <2>5, <1>1, <1>5, <1>15
  <2> QED
    BY <2>2, <2>3, <2>4, <2>5
<1>17. NotHeld'
  <2> SUFFICES ASSUME ~mixed, NEW x \in Doc, Gone(x)', NEW y \in Doc \ {x}, NEW f \in Held(y)'
               PROVE  x \notin f.docs
    BY <1>1 DEF NotHeld
  <2>1. Gone(x)
    BY <1>6 DEF Gone
  <2> QED
    BY <2>1, <1>7 DEF NotHeld
<1>18. KeptIsHeld'
  <2> SUFFICES ASSUME NEW x \in Doc, job'[x].phase = "upsert", NEW n \in job'[x].kept
               PROVE  \/ \E f \in ToSet(job'[x].batch) : f.norm = n
                      \/ ~Nx' /\ InGraph("memory", x, n)'
    BY DEF KeptIsHeld, ToSet
  <2>1. x # d
    BY <1>6
  <2> QED
    BY <2>1, <1>1, <1>6 DEF KeptIsHeld
<1>19. done.ok => \A n \in job'[d].kept : \E e \in ToSet(batch) : e.norm = n
  BY <1>1, <1>6 DEF KeptIsHeld
<1>20. BuiltIsIn("memory")'
  <2> SUFFICES ASSUME crashes # "lost", NEW x \in Doc, job'[x].phase \in {"relate", "built"},
                      NEW n \in job'[x].kept
               PROVE  n \in DOMAIN entities' /\ x \in entities'[n].docs /\ entities'[n].id \in nodes'
    BY <1>1, GraphParts DEF BuiltIsIn, InGraph
  <2>1. CASE x # d
    <3>1. InGraph("memory", x, n)
      BY <2>1, <1>2, <1>6 DEF GraphInv, BuiltIsIn
    <3> QED
      BY <3>1, <1>1, <1>5, <1>10, GraphParts DEF InGraph
  <2>2. CASE x = d
    <3>1. done.ok
      BY <2>2, <1>6
    <3>2. PICK e \in ToSet(batch) : e.norm = n
      BY <2>2, <3>1, <1>19
    <3>3. n \in DOMAIN entities' /\ x \in entities'[n].docs
      BY <2>2, <3>1, <3>2, <1>1, <1>3, <1>5
    <3> QED
      BY <3>3, <1>15 DEF Ids
  <2> QED
    BY <2>1, <2>2
<1>21. Forgotten("memory")'
  <2> SUFFICES ASSUME ~mixed, NEW x \in Doc
               PROVE  /\ Gone(x)' => \A n \in DOMAIN entities' : x \notin entities'[n].docs
                      /\ Unlinked(x)' => \A l \in DOMAIN relations : x \notin relations[l]
    BY <1>1, GraphParts DEF Forgotten
  <2>1. (Gone(x)' => Gone(x) /\ x # d) /\ (Unlinked(x)' => Unlinked(x))
    BY <1>6 DEF Gone, Unlinked
  <2>2. ASSUME Gone(x)', NEW n \in DOMAIN entities', x \in entities'[n].docs
        PROVE  FALSE
    <3>1. PICK f : old(n, f)
      BY <1>9
    <3>2. \A e \in ToSet(batch) : x \notin e.docs
      BY <1>3, <2>1, <2>2 DEF NotHeld
    <3>3. \A m \in DOMAIN entities : x \notin entities[m].docs
      BY <1>2, <2>1, <2>2, GraphParts DEF GraphInv, Forgotten
    <3> QED
      BY <1>1, <2>2, <3>1, <3>2, <3>3
  <2> QED
    BY <2>1, <2>2, <1>2, GraphParts DEF GraphInv, Forgotten
<1>22. ReferencedOrLeft("memory")'
  <2>1. ASSUME NEW n \in DOMAIN entities'
        PROVE  entities'[n].docs # {}
    <3>1. PICK f : old(n, f)
      BY <1>9
    <3>2. f.docs # {}
      BY <1>1, <1>2, <1>3, <3>1, GraphParts DEF GraphInv, ReferencedOrLeft
    <3> QED
      BY <1>1, <3>1, <3>2
  <2> QED
    BY <2>1, <1>1, <1>2, GraphParts DEF GraphInv, ReferencedOrLeft
<1>23. GraphInv("memory")'
  <2>1. NodesAreIds("memory")'
    BY <1>1, <1>15, GraphParts DEF NodesAreIds
  <2>2. EndsAreIds("memory")'
    <3>1. ~mixed => \A l \in DOMAIN relations : l[1] \in Ids /\ l[2] \in Ids
      BY <1>2, GraphParts DEF GraphInv, EndsAreIds
    <3>2. ~mixed => \A l \in DOMAIN relations : l[1] \in Ids' /\ l[2] \in Ids'
      BY <3>1, <1>11
    <3> QED
      BY <3>2, <1>1, <1>8, GraphParts DEF EndsAreIds
  <2>3. EdgesFit("memory")'
    <3>1. /\ \A l \in DOMAIN relations : <<l[1], l[2]>> \in edges
          /\ \A e \in edges : e[1] \in nodes /\ e[2] \in nodes
      BY <1>1, <1>2, GraphParts DEF GraphInv, EdgesFit
    <3>2. \A e \in edges : e[1] \in nodes' /\ e[2] \in nodes'
      BY <3>1, <1>1, <1>5
    <3> QED
      BY <3>1, <3>2, <1>1, GraphParts DEF EdgesFit
  <2> QED
    BY <1>13, <1>14, <1>20, <1>21, <1>22, <2>1, <2>2, <2>3 DEF GraphInv
<1>24. ASSUME "disk" \in Graphs
       PROVE  GraphInv("disk")'
  <2>1. CASE disk' = Written'
    BY <1>23, <2>1, DiskCopied
  <2>2. CASE disk' = disk /\ ~(done.ok /\ batch # <<>>)
    <3>1. GraphInv("disk")
      BY <1>24
    <3>2. /\ Ents("disk")' = Ents("disk") /\ Nds("disk")' = Nds("disk")
          /\ Eds("disk")' = Eds("disk") /\ Rels("disk")' = Rels("disk")
      BY <2>2, GraphParts
    <3>3. job'[d].phase \in {"relate", "built"} => job'[d].kept = {}
      <4> HAVE job'[d].phase \in {"relate", "built"}
      <4>1. done.ok
        BY <1>6
      <4>2. ToSet(batch) = {}
        BY <4>1, <2>2, NoElements
      <4> QED
        BY <4>1, <4>2, <1>19
    <3>4. ~Gone(d)' /\ ~Unlinked(d)'
      BY <1>6 DEF Gone, Unlinked
    <3> QED
      BY <1>1, <1>6, <3>1, <3>2, <3>3, <3>4, GraphStays
  <2>3. wiring.persist
    BY <1>24 DEF Graphs
  <2> QED
    BY <2>1, <2>2, <2>3, <1>1
<1>25. \A g \in Graphs' : GraphInv(g)'
  BY <1>8, <1>23, <1>24 DEF Graphs
<1> QED
  BY <1>6, <1>12, <1>16, <1>17, <1>18, <1>25
--------------------------------------------------------------------------------
(* What neo4j leaves under the key of an entity that is merged again. *)
LEMMA GrownEntity ==
    ASSUME NEW old, IsEntity(old), NEW e, NEW name
    PROVE  LET grown == [Stored(old, e) EXCEPT !.name = name]
           IN  /\ IsEntity(grown) /\ grown.norm = old.norm /\ grown.id = old.id
               /\ grown.docs = old.docs \cup e.docs
<1> DEFINE s == Stored(old, e)
           grown == [s EXCEPT !.name = name]
<1>1. /\ IsEntity(s) /\ s.norm = old.norm /\ s.id = old.id /\ s.docs = old.docs \cup e.docs
  BY StoredEntity
<1> HIDE DEF s
<1>2. PICK a, b, c, x, v : s = [norm |-> a, id |-> b, name |-> c, docs |-> x, vec |-> v]
  BY <1>1 DEF IsEntity
<1>3. grown = [norm |-> a, id |-> b, name |-> name, docs |-> x, vec |-> v]
  BY <1>2
<1>4. /\ IsEntity(grown) /\ grown.norm = s.norm /\ grown.id = s.id /\ grown.docs = s.docs
  BY <1>2, <1>3 DEF IsEntity
<1> QED
  BY <1>1, <1>4 DEF s

(* With neo4j the entities of a batch come into the graph one by one. *)
LEMMA UpsertNeo4jStep ==
    ASSUME KGInv, NEW d \in Doc, UpsertEntityNeo4j(d)
    PROVE  KGInv'
<1> USE DEF KGInv
<1> DEFINE batch == job[d].batch
           e == Head(batch)
           longer(s) == IF NameLen[e.name] >= NameLen[s.name] THEN e.name ELSE s.name
           grown(old) == [Stored(old, e) EXCEPT !.name = longer(Stored(old, e))]
<1>1. /\ ~Nx /\ job[d].phase = "upsert" /\ batch # <<>>
      /\ entities' = [n \in DOMAIN entities \cup {e.norm} |->
                         IF n # e.norm THEN entities[n]
                         ELSE IF n \in DOMAIN entities THEN grown(entities[n]) ELSE e]
      /\ nodes' = nodes /\ relations' = relations /\ disk' = disk
      /\ crashes' = crashes /\ mixed' = mixed /\ wiring' = wiring
  BY DEF UpsertEntityNeo4j, history
<1>2. "memory" \in Graphs /\ GraphInv("memory") /\ GoodJob(d, job[d])
  BY DEF Graphs, Jobs
<1>3. ToSet(batch) = ToSet(Tail(batch)) \cup {e}
  BY <1>1, <1>2, TailElements DEF GoodJob
<1>4. IsEntity(e) /\ e.docs = {d} /\ e \in Known
  <2>1. e \in ToSet(batch)
    BY <1>3
  <2> QED
    BY <1>1, <1>2, <2>1 DEF GoodJob, Held, Known
<1>5. Becomes(d, job[d].phase, job[d].own, Tail(batch), job[d].links, job[d].kept, job[d].rebuild)
  BY UpsertNeo4jJob
<1>6. /\ Jobs' /\ \A x \in Doc \ {d} : job'[x] = job[x]
      /\ job'[d].phase = "upsert" /\ job'[d].batch = Tail(batch)
      /\ job'[d].links = job[d].links /\ job'[d].kept = job[d].kept
      /\ job'[d].rebuild = job[d].rebuild
  BY <1>1, <1>5 DEF Becomes
<1>7. \A x \in Doc : Held(x)' \subseteq Held(x) /\ job'[x].links \subseteq job[x].links
  <2>1. /\ Held(d)' = ToSet(Tail(batch)) \cup ToSet(job[d].own)
        /\ \A x \in Doc \ {d} : Held(x)' = Held(x)
    BY <1>5, HeldAfter
  <2> QED
    BY <1>3, <1>6, <2>1 DEF Held
<1>8. Nx' = Nx /\ Graphs' = {"memory"}
  BY <1>1 DEF Nx, Graphs
<1>9. \A n \in DOMAIN entities : IsEntity(entities[n]) /\ entities[n].norm = n /\ entities[n] \in Known
  BY <1>2, GraphParts DEF GraphInv, EntitiesAreKeyed, Known
<1>10. \A n \in DOMAIN entities :
          /\ IsEntity(grown(entities[n])) /\ grown(entities[n]).norm = n
          /\ grown(entities[n]).id = entities[n].id
          /\ grown(entities[n]).docs = entities[n].docs \cup {d}
  <2> TAKE n \in DOMAIN entities
  <2>1. IsEntity(entities[n]) /\ entities[n].norm = n
    BY <1>9
  <2>2. PICK name : name = longer(Stored(entities[n], e))
    OBVIOUS
  <2>3. grown(entities[n]) = [Stored(entities[n], e) EXCEPT !.name = name]
    BY <2>2
  <2> HIDE DEF grown, e
  <2>4. /\ IsEntity([Stored(entities[n], e) EXCEPT !.name = name])
        /\ [Stored(entities[n], e) EXCEPT !.name = name].norm = entities[n].norm
        /\ [Stored(entities[n], e) EXCEPT !.name = name].id = entities[n].id
        /\ [Stored(entities[n], e) EXCEPT !.name = name].docs = entities[n].docs \cup e.docs
    BY <2>1, GrownEntity
  <2> QED
    BY <1>4, <2>1, <2>3, <2>4
<1> HIDE DEF grown, e, batch
<1>11. DOMAIN entities' = DOMAIN entities \cup {e.norm}
  BY <1>1
<1>12. \A n \in DOMAIN entities :
          /\ n \in DOMAIN entities' /\ IsEntity(entities'[n]) /\ entities'[n].norm = n
          /\ entities'[n].id = entities[n].id /\ entities[n].docs \subseteq entities'[n].docs
          /\ entities'[n].docs \subseteq entities[n].docs \cup {d}
          /\ n = e.norm => d \in entities'[n].docs
  BY <1>1, <1>9, <1>10
<1>13. \A n \in DOMAIN entities' \ DOMAIN entities : n = e.norm /\ entities'[n] = e
  BY <1>1
<1>14. \A n \in DOMAIN entities' :
          /\ IsEntity(entities'[n]) /\ entities'[n].norm = n
          /\ \E f \in Known : f.id = entities'[n].id /\ f.norm = entities'[n].norm
  <2> TAKE n \in DOMAIN entities'
  <2>1. CASE n \in DOMAIN entities
    BY <2>1, <1>9, <1>12
  <2>2. CASE n \notin DOMAIN entities
    BY <2>2, <1>4, <1>13
  <2> QED
    BY <2>1, <2>2
<1>15. OneNorm' /\ IdsAreFinite'
  <2>1. disk' \in {disk, Written', Empty}
    BY <1>1
  <2>2. /\ \A l \in DOMAIN relations' : l[1] \in UsedIds /\ l[2] \in UsedIds
        /\ nodes' \subseteq UsedIds
    BY <1>1, StoredIdsAreUsed
  <2> HIDE DEF KGInv, Known
  <2> QED
    BY <1>6, <1>7, <1>14, <2>1, <2>2, HoldingLess
<1>16. LinksAreKnown'
  BY <1>1, <1>8 DEF LinksAreKnown
<1>17. NotHeld'
  <2> SUFFICES ASSUME ~mixed, NEW x \in Doc, Gone(x)', NEW y \in Doc \ {x}, NEW f \in Held(y)'
               PROVE  x \notin f.docs
    BY <1>1 DEF NotHeld
  <2>1. Gone(x)
    BY <1>6 DEF Gone
  <2> QED
    BY <2>1, <1>7 DEF NotHeld
<1>18. KeptIsHeld'
  <2> SUFFICES ASSUME NEW x \in Doc, job'[x].phase = "upsert", NEW n \in job'[x].kept
               PROVE  \/ \E f \in ToSet(job'[x].batch) : f.norm = n
                      \/ n \in DOMAIN entities' /\ x \in entities'[n].docs
    BY <1>1, <1>8, GraphParts DEF KeptIsHeld, ToSet, InGraph
  <2>1. \/ \E f \in ToSet(job[x].batch) : f.norm = n
        \/ n \in DOMAIN entities /\ x \in entities[n].docs
    BY <1>1, <1>6, GraphParts DEF KeptIsHeld, InGraph
  <2>2. CASE n \in DOMAIN entities /\ x \in entities[n].docs
    BY <2>2, <1>12
  <2>3. CASE x # d
    BY <2>1, <2>3, <1>6, <1>12
  <2>4. CASE x = d /\ \E f \in ToSet(batch) : f.norm = n
    <3>1. CASE n = e.norm
      <4>1. n \in DOMAIN entities'
        BY <3>1, <1>11
      <4> QED
        BY <2>4, <3>1, <4>1, <1>4, <1>12, <1>13
    <3>2. CASE n # e.norm
      BY <2>4, <3>2, <1>3, <1>6
    <3> QED
      BY <3>1, <3>2
  <2> QED
    BY <2>1, <2>2, <2>3, <2>4 DEF batch
<1>19. Ids \subseteq Ids'
  BY <1>12 DEF Ids
<1>20. GraphInv("memory")'
  <2>1. EntitiesAreKeyed("memory")'
    <3>1. EntitiesAreKeyed("memory")' <=>
            /\ entities' = [n \in DOMAIN entities' |-> entities'[n]]
            /\ \A n \in DOMAIN entities' : IsEntity(entities'[n]) /\ entities'[n].norm = n
      BY GraphParts DEF EntitiesAreKeyed, IsEntity
    <3>2. entities' = [n \in DOMAIN entities' |-> entities'[n]]
      BY <1>1
    <3> QED
      BY <3>1, <3>2, <1>14
  <2>2. DistinctIds("memory")'
    <3>1. ASSUME NEW m \in DOMAIN entities', NEW n \in DOMAIN entities',
                 entities'[m].id = entities'[n].id
          PROVE  m = n
      <4>1. PICK f \in Known : f.id = entities'[m].id /\ f.norm = m
        BY <1>14
      <4>2. PICK h \in Known : h.id = entities'[n].id /\ h.norm = n
        BY <1>14
      <4> QED
        BY <3>1, <4>1, <4>2 DEF OneNorm
    <3> QED
      BY <3>1, GraphParts DEF DistinctIds
  <2>3. NodesAreIds("memory")'
    BY <1>1, <1>8 DEF NodesAreIds
  <2>4. EndsAreIds("memory")' /\ EdgesFit("memory")'
    <3>1. \A l \in DOMAIN relations : l[1] \in Ids /\ l[2] \in Ids
      BY <1>1, <1>2, GraphParts DEF GraphInv, EndsAreIds
    <3>2. \A l \in DOMAIN relations : l[1] \in Ids' /\ l[2] \in Ids'
      BY <3>1, <1>19
    <3> QED
      BY <3>2, <1>1, <1>8, GraphParts DEF EndsAreIds, EdgesFit
  <2>5. BuiltIsIn("memory")'
    <3> SUFFICES ASSUME crashes # "lost", NEW x \in Doc, job'[x].phase \in {"relate", "built"},
                        NEW n \in job'[x].kept
                 PROVE  n \in DOMAIN entities' /\ x \in entities'[n].docs
      BY <1>1, <1>8, GraphParts DEF BuiltIsIn, InGraph
    <3>1. x # d
      BY <1>6
    <3>2. InGraph("memory", x, n)
      BY <3>1, <1>2, <1>6 DEF GraphInv, BuiltIsIn
    <3> QED
      BY <3>2, <1>12, GraphParts DEF InGraph
  <2>6. Forgotten("memory")'
    <3> SUFFICES ASSUME ~mixed, NEW x \in Doc
                 PROVE  /\ Gone(x)' => \A n \in DOMAIN entities' : x \notin entities'[n].docs
                        /\ Unlinked(x)' => \A l \in DOMAIN relations : x \notin relations[l]
      BY <1>1, GraphParts DEF Forgotten
    <3>1. (Gone(x)' => Gone(x) /\ x # d) /\ (Unlinked(x)' => Unlinked(x))
      BY <1>6 DEF Gone, Unlinked
    <3>2. ASSUME Gone(x)', NEW n \in DOMAIN entities'
          PROVE  x \notin entities'[n].docs
      <4>1. CASE n \in DOMAIN entities
        <5>1. x \notin entities[n].docs
          BY <4>1, <1>2, <3>1, <3>2, GraphParts DEF GraphInv, Forgotten
        <5> QED
          BY <4>1, <5>1, <3>1, <3>2, <1>12
      <4>2. CASE n \notin DOMAIN entities
        BY <4>2, <3>1, <3>2, <1>4, <1>13
      <4> QED
        BY <4>1, <4>2
    <3> QED
      BY <3>1, <3>2, <1>2, GraphParts DEF GraphInv, Forgotten
  <2>7. ReferencedOrLeft("memory")'
    <3>1. \A o \in Doc : job[o].phase \in {"detach", "aborted"} => job'[o].phase = job[o].phase
      BY <1>1, <1>6
    <3>2. \A o \in Doc : job[o].phase \in {"prune", "aborted"} => job'[o].phase = job[o].phase
      BY <1>1, <1>6
    <3>3. \A l \in DOMAIN relations : relations[l] = {} =>
              \E o \in Doc : job'[o].phase \in {"prune", "aborted"}
      BY <3>2, <1>2, GraphParts DEF GraphInv, ReferencedOrLeft
    <3>4. ASSUME NEW n \in DOMAIN entities', entities'[n].docs = {}
          PROVE  \E o \in Doc : job'[o].phase \in {"detach", "aborted"}
      <4>1. CASE n \in DOMAIN entities
        <5>1. entities[n].docs = {}
          BY <3>4, <4>1, <1>12
        <5>2. \E o \in Doc : job[o].phase \in {"detach", "aborted"}
          BY <4>1, <5>1, <1>2, GraphParts DEF GraphInv, ReferencedOrLeft
        <5> QED
          BY <3>1, <5>2
      <4>2. CASE n \notin DOMAIN entities
        BY <3>4, <4>2, <1>4, <1>13
      <4> QED
        BY <4>1, <4>2
    <3> QED
      BY <3>4, <3>3, <1>1, <1>8, GraphParts DEF ReferencedOrLeft
  <2> QED
    BY <2>1, <2>2, <2>3, <2>4, <2>5, <2>6, <2>7 DEF GraphInv
<1>21. \A g \in Graphs' : GraphInv(g)'
  BY <1>8, <1>20
<1> QED
  BY <1>6, <1>15, <1>16, <1>17, <1>18, <1>21
--------------------------------------------------------------------------------
(* The statements of a deletion have what they need to know of the jobs in *)
(* common: unless the deletion is one that was mixed with a build, nobody  *)
(* else holds anything.                                                    *)
LEMMA DeletionStep ==
    ASSUME KGInv, NEW d \in Doc, Mix(d),
           job[d].phase \in {"delete", "detach", "unlink", "prune"},
           NEW p \in {"detach", "unlink", "prune", "gone", "extract"},
           Becomes(d, p, job[d].own, job[d].batch, job[d].links, job[d].kept, job[d].rebuild),
           crashes' = crashes, wiring' = wiring,
           disk' \in {disk, Written', Empty},
           entities' = [n \in DOMAIN entities' |-> entities'[n]],
           \A n \in DOMAIN entities' :
               /\ n \in DOMAIN entities /\ IsEntity(entities'[n])
               /\ entities'[n].norm = entities[n].norm /\ entities'[n].id = entities[n].id
               /\ entities'[n].docs \subseteq entities[n].docs
               /\ ~mixed' => d \notin entities'[n].docs,
           \A l \in DOMAIN relations' :
               /\ l \in DOMAIN relations /\ relations'[l] \subseteq relations[l]
               /\ ~mixed' /\ p \in {"prune", "gone", "extract"} => d \notin relations'[l],
           nodes' \subseteq nodes,
           \A x \in Doc \ {d} : \A n :
               InGraph("memory", x, n) => InGraph("memory", x, n)'
    PROVE  /\ Jobs' /\ OneNorm' /\ IdsAreFinite' /\ LinksAreKnown' /\ NotHeld' /\ KeptIsHeld'
           /\ EntitiesAreKeyed("memory")' /\ DistinctIds("memory")'
           /\ BuiltIsIn("memory")' /\ Forgotten("memory")'
<1> USE DEF KGInv
<1>1. /\ Jobs' /\ \A x \in Doc \ {d} : job'[x] = job[x]
      /\ job'[d].phase = p /\ job'[d].own = job[d].own /\ job'[d].batch = job[d].batch
      /\ job'[d].links = job[d].links /\ job'[d].rebuild = job[d].rebuild
  BY DEF Becomes
<1>2. \A x \in Doc : Held(x)' = Held(x) /\ job'[x].links = job[x].links
  <2>1. /\ Held(d)' = ToSet(job[d].batch) \cup ToSet(job[d].own)
        /\ \A x \in Doc \ {d} : Held(x)' = Held(x)
    BY HeldAfter
  <2> QED
    BY <1>1, <2>1 DEF Held
<1>3. ~mixed' => ~mixed /\ \A x \in Doc : Held(x) = {} /\ job[x].links = {}
  <2> HAVE ~mixed'
  <2>1. ~mixed /\ \A o \in Doc \ {d} : ~Working(o)
    BY DEF Mix
  <2>2. ASSUME NEW x \in Doc
        PROVE  Held(x) = {} /\ job[x].links = {}
    <3>1. job[x].phase \notin {"extract", "merge", "upsert", "relate"}
      BY <2>1 DEF Working
    <3> QED
      BY <3>1, NoElements DEF Jobs, GoodJob, Held
  <2> QED
    BY <2>1, <2>2
<1>4. Nx' = Nx /\ "memory" \in Graphs
  BY DEF Nx, Graphs
<1>5. OneNorm' /\ IdsAreFinite'
  <2>1. \A n \in DOMAIN entities' : \E f \in Known :
          f.id = entities'[n].id /\ f.norm = entities'[n].norm
    BY DEF Known
  <2>2. /\ \A l \in DOMAIN relations' : l[1] \in UsedIds /\ l[2] \in UsedIds
        /\ nodes' \subseteq UsedIds
    BY StoredIdsAreUsed
  <2> HIDE DEF KGInv, Known
  <2> QED
    BY <1>1, <1>2, <2>1, <2>2, HoldingLess
<1>6. LinksAreKnown'
  <2> SUFFICES ASSUME ~mixed', NEW x \in Doc, job'[x].links # {}
               PROVE  FALSE
    BY DEF LinksAreKnown
  <2> QED
    BY <1>2, <1>3
<1>7. NotHeld'
  <2> SUFFICES ASSUME ~mixed', NEW y \in Doc, Held(y)' # {}
               PROVE  FALSE
    BY DEF NotHeld
  <2> QED
    BY <1>2, <1>3
<1>8. KeptIsHeld'
  <2> SUFFICES ASSUME NEW x \in Doc, job'[x].phase = "upsert", NEW n \in job'[x].kept
               PROVE  \/ \E f \in ToSet(job'[x].batch) : f.norm = n
                      \/ ~Nx' /\ InGraph("memory", x, n)'
    BY DEF KeptIsHeld, ToSet
  <2>1. x # d
    BY <1>1
  <2> QED
    BY <2>1, <1>1, <1>4 DEF KeptIsHeld
<1>9. EntitiesAreKeyed("memory")' /\ DistinctIds("memory")'
  <2>1. EntitiesAreKeyed("memory") /\ DistinctIds("memory")
    BY <1>4 DEF GraphInv
  <2>2. /\ \A n \in DOMAIN entities : entities[n].norm = n
        /\ \A m, n \in DOMAIN entities : entities[m].id = entities[n].id => m = n
    BY <2>1, GraphParts DEF EntitiesAreKeyed, DistinctIds
  <2>3. EntitiesAreKeyed("memory")'
    BY <2>2, GraphParts DEF EntitiesAreKeyed, IsEntity
  <2>4. DistinctIds("memory")'
    BY <2>2, GraphParts DEF DistinctIds
  <2> QED
    BY <2>3, <2>4
<1>10. BuiltIsIn("memory")'
  <2> SUFFICES ASSUME crashes # "lost", NEW x \in Doc, job'[x].phase \in {"relate", "built"},
                      NEW n \in job'[x].kept
               PROVE  InGraph("memory", x, n)'
    BY DEF BuiltIsIn
  <2>1. x # d
    BY <1>1
  <2> QED
    BY <2>1, <1>1, <1>4 DEF GraphInv, BuiltIsIn
<1>11. Forgotten("memory")'
  <2> SUFFICES ASSUME ~mixed', NEW x \in Doc
               PROVE  /\ Gone(x)' => \A n \in DOMAIN entities' : x \notin entities'[n].docs
                      /\ Unlinked(x)' => \A l \in DOMAIN relations' : x \notin relations'[l]
    BY GraphParts DEF Forgotten
  <2>1. CASE x = d
    BY <2>1, <1>1 DEF Unlinked
  <2>2. CASE x # d
    <3>1. (Gone(x)' => Gone(x)) /\ (Unlinked(x)' => Unlinked(x))
      BY <2>2, <1>1 DEF Gone, Unlinked
    <3>2. /\ Gone(x) => \A n \in DOMAIN entities : x \notin entities[n].docs
          /\ Unlinked(x) => \A l \in DOMAIN relations : x \notin relations[l]
      BY <1>3, <1>4, GraphParts DEF GraphInv, Forgotten
    <3> QED
      BY <3>1, <3>2
  <2> QED
    BY <2>1, <2>2
<1> HIDE DEF KGInv
<1> QED
  BY <1>1, <1>5, <1>6, <1>7, <1>8, <1>9, <1>10, <1>11

(* The entities without the document. *)
LEMMA WithoutTheDocument ==
    ASSUME EntitiesAreKeyed("memory"), NEW d
    PROVE  /\ DOMAIN Without(d) = DOMAIN entities
           /\ Without(d) = [n \in DOMAIN Without(d) |-> Without(d)[n]]
           /\ \A n \in DOMAIN entities :
                /\ IsEntity(Without(d)[n])
                /\ Without(d)[n].norm = entities[n].norm /\ Without(d)[n].id = entities[n].id
                /\ Without(d)[n].docs = entities[n].docs \ {d}
<1>1. ASSUME NEW n \in DOMAIN entities
      PROVE  /\ IsEntity(Without(d)[n])
             /\ Without(d)[n].norm = entities[n].norm /\ Without(d)[n].id = entities[n].id
             /\ Without(d)[n].docs = entities[n].docs \ {d}
  <2>1. IsEntity(entities[n])
    BY GraphParts DEF EntitiesAreKeyed
  <2>2. PICK a, b, c, x, v : entities[n] = [norm |-> a, id |-> b, name |-> c, docs |-> x, vec |-> v]
    BY <2>1 DEF IsEntity
  <2>3. PICK y : y = entities[n].docs \ {d}
    OBVIOUS
  <2>4. Without(d)[n] = [entities[n] EXCEPT !.docs = y]
    BY <2>3 DEF Without
  <2>5. Without(d)[n] = [norm |-> a, id |-> b, name |-> c, docs |-> y, vec |-> v]
    BY <2>2, <2>4
  <2> QED
    BY <2>2, <2>3, <2>5 DEF IsEntity
<1> QED
  BY <1>1 DEF Without

(* networkx: document, entities nobody references, and their relations go. *)
LEMMA DeleteNxStep ==
    ASSUME KGInv, NEW d \in Doc, DeleteNx(d)
    PROVE  KGInv'
<1> USE DEF KGInv
<1> DEFINE removed == {entities[n].id : n \in DOMAIN entities \ DOMAIN entities'}
           left == {l \in DOMAIN relations : l[1] \notin removed /\ l[2] \notin removed}
<1>1. /\ Nx /\ job[d].phase = "delete" /\ Mix(d)
      /\ entities' = Referenced(Without(d))
      /\ relations' = Listed(Unlisted(d, [l \in left |-> relations[l]]))
      /\ nodes' = nodes \ removed
      /\ edges' = {e \in edges : e[1] \notin removed /\ e[2] \notin removed}
      /\ disk' = IF wiring.persist
                 THEN Written' ELSE disk
      /\ crashes' = crashes /\ wiring' = wiring
  BY DEF DeleteNx, Dump, Written
<1>2. "memory" \in Graphs /\ GraphInv("memory")
  BY DEF Graphs
<1>3. PICK p \in {"gone", "extract"} :
        Becomes(d, p, job[d].own, job[d].batch, job[d].links, job[d].kept, job[d].rebuild)
  BY DeleteNxJob
<1>4. /\ DOMAIN entities' = {n \in DOMAIN entities : entities[n].docs \ {d} # {}}
      /\ entities' = [n \in DOMAIN entities' |-> entities'[n]]
      /\ \A n \in DOMAIN entities' :
          /\ IsEntity(entities'[n])
          /\ entities'[n].norm = entities[n].norm /\ entities'[n].id = entities[n].id
          /\ entities'[n].docs = entities[n].docs \ {d}
  <2>1. /\ DOMAIN Without(d) = DOMAIN entities
        /\ \A n \in DOMAIN entities :
             /\ IsEntity(Without(d)[n])
             /\ Without(d)[n].norm = entities[n].norm /\ Without(d)[n].id = entities[n].id
             /\ Without(d)[n].docs = entities[n].docs \ {d}
    BY <1>2, WithoutTheDocument DEF GraphInv
  <2>2. entities' = [n \in {m \in DOMAIN Without(d) : Without(d)[m].docs # {}} |-> Without(d)[n]]
    BY <1>1 DEF Referenced
  <2>3. DOMAIN entities' = {n \in DOMAIN entities : entities[n].docs \ {d} # {}}
    BY <2>1, <2>2
  <2>4. \A n \in DOMAIN entities' : n \in DOMAIN entities /\ entities'[n] = Without(d)[n]
    BY <2>2, <2>3
  <2> QED
    BY <2>1, <2>2, <2>3, <2>4
<1>5. /\ DOMAIN relations' = {k \in left : relations[k] \ {d} # {}}
      /\ \A l \in DOMAIN relations' : relations'[l] = relations[l] \ {d}
  <2> HIDE DEF left
  <2>1. PICK rels : rels = [l \in left |-> relations[l]]
    OBVIOUS
  <2>2. PICK less : less = [l \in left |-> rels[l] \ {d}]
    OBVIOUS
  <2>3. relations' = [l \in {k \in DOMAIN less : less[k] # {}} |-> less[l]]
    BY <1>1, <2>1, <2>2 DEF Listed, Unlisted
  <2> QED
    BY <2>1, <2>2, <2>3
<1>6. Ids' = Ids \ removed
  <2>1. \A m, n \in DOMAIN entities : entities[m].id = entities[n].id => m = n
    BY <1>2, GraphParts DEF GraphInv, DistinctIds
  <2>2. Ids' = {entities[n].id : n \in DOMAIN entities'}
    BY <1>4 DEF Ids
  <2> QED
    BY <1>4, <2>1, <2>2 DEF Ids
<1> HIDE DEF removed
<1>7. Nx' = Nx /\ Graphs' = Graphs
  BY <1>1 DEF Nx, Graphs
<1>8. Ids \subseteq nodes /\ (~mixed => nodes = Ids)
  BY <1>1, <1>2, GraphParts DEF GraphInv, NodesAreIds
<1>9. Ids' \subseteq nodes'
  BY <1>1, <1>6, <1>8
<1>10. \A x \in Doc \ {d} : \A n : InGraph("memory", x, n) => InGraph("memory", x, n)'
  <2> TAKE x \in Doc \ {d}
  <2> TAKE n
  <2> HAVE InGraph("memory", x, n)
  <2>1. n \in DOMAIN entities /\ x \in entities[n].docs
    BY GraphParts DEF InGraph
  <2>2. n \in DOMAIN entities' /\ x \in entities'[n].docs
    BY <2>1, <1>4
  <2>3. entities'[n].id \in nodes'
    BY <2>2, <1>9 DEF Ids
  <2> QED
    BY <2>2, <2>3, GraphParts DEF InGraph
<1>11. /\ Jobs' /\ OneNorm' /\ IdsAreFinite' /\ LinksAreKnown' /\ NotHeld' /\ KeptIsHeld'
       /\ EntitiesAreKeyed("memory")' /\ DistinctIds("memory")'
       /\ BuiltIsIn("memory")' /\ Forgotten("memory")'
  <2>1. \A n \in DOMAIN entities' :
          /\ n \in DOMAIN entities /\ IsEntity(entities'[n])
          /\ entities'[n].norm = entities[n].norm /\ entities'[n].id = entities[n].id
          /\ entities'[n].docs \subseteq entities[n].docs /\ d \notin entities'[n].docs
    BY <1>4
  <2>2. \A l \in DOMAIN relations' :
          l \in DOMAIN relations /\ relations'[l] \subseteq relations[l] /\ d \notin relations'[l]
    BY <1>5
  <2>3. disk' \in {disk, Written', Empty}
    BY <1>1
  <2>4. /\ job[d].phase \in {"delete", "detach", "unlink", "prune"} /\ Mix(d)
        /\ crashes' = crashes /\ wiring' = wiring /\ nodes' \subseteq nodes
        /\ p \in {"detach", "unlink", "prune", "gone", "extract"}
    BY <1>1
  <2>5. entities' = [n \in DOMAIN entities' |-> entities'[n]]
    BY <1>4
  <2> HIDE DEF KGInv, left
  <2> QED
    BY <1>3, <1>10, <2>1, <2>2, <2>3, <2>4, <2>5, DeletionStep
<1>12. NodesAreIds("memory")'
  <2>1. ~mixed' => nodes' = Ids'
    BY <1>1, <1>6, <1>8 DEF Mix
  <2> QED
    BY <2>1, <1>9, GraphParts DEF NodesAreIds
<1>13. EndsAreIds("memory")'
  <2>1. ~mixed' => \A l \in DOMAIN relations : l[1] \in Ids /\ l[2] \in Ids
    BY <1>1, <1>2, GraphParts DEF GraphInv, EndsAreIds, Mix
  <2>2. ~mixed' => \A l \in DOMAIN relations' : l[1] \in Ids' /\ l[2] \in Ids'
    BY <2>1, <1>5, <1>6
  <2> QED
    BY <2>2, <1>1, <1>7, GraphParts DEF EndsAreIds
<1>14. ReferencedOrLeft("memory")'
  <2>1. \A n \in DOMAIN entities' : entities'[n].docs # {}
    BY <1>4
  <2>2. \A l \in DOMAIN relations' : relations'[l] # {}
    BY <1>5
  <2> QED
    BY <2>1, <2>2, GraphParts DEF ReferencedOrLeft
<1>15. EdgesFit("memory")'
  <2>1. /\ \A l \in DOMAIN relations : <<l[1], l[2]>> \in edges
        /\ \A e \in edges : e[1] \in nodes /\ e[2] \in nodes
    BY <1>1, <1>2, GraphParts DEF GraphInv, EdgesFit
  <2>2. \A l \in DOMAIN relations' : <<l[1], l[2]>> \in edges'
    <3> TAKE l \in DOMAIN relations'
    <3>1. l \in DOMAIN relations /\ l[1] \notin removed /\ l[2] \notin removed
      BY <1>5
    <3> QED
      BY <3>1, <2>1, <1>1
  <2>3. \A e \in edges' : e[1] \in nodes' /\ e[2] \in nodes'
    BY <2>1, <1>1
  <2> QED
    BY <2>2, <2>3, GraphParts DEF EdgesFit
<1>16. GraphInv("memory")'
  BY <1>11, <1>12, <1>13, <1>14, <1>15 DEF GraphInv
<1>17. \A g \in Graphs' : GraphInv(g)'
  <2>1. "disk" \in Graphs => disk' = Written'
    BY <1>1 DEF Graphs
  <2> QED
    BY <2>1, <1>7, <1>16, DiskCopied DEF Graphs
<1> QED
  BY <1>11, <1>17
--------------------------------------------------------------------------------
(* neo4j: the document leaves the entities ... *)
LEMMA DeleteNeo4jStep ==
    ASSUME KGInv, NEW d \in Doc, DeleteNeo4j(d)
    PROVE  KGInv'
<1> USE DEF KGInv
<1>1. /\ ~Nx /\ job[d].phase = "delete" /\ Mix(d) /\ entities' = Without(d)
      /\ nodes' = nodes /\ relations' = relations /\ disk' = disk
      /\ crashes' = crashes /\ wiring' = wiring
  BY DEF DeleteNeo4j
<1>2. "memory" \in Graphs /\ GraphInv("memory")
  BY DEF Graphs
<1>3. /\ DOMAIN entities' = DOMAIN entities
      /\ entities' = [n \in DOMAIN entities' |-> entities'[n]]
      /\ \A n \in DOMAIN entities :
          /\ IsEntity(entities'[n])
          /\ entities'[n].norm = entities[n].norm /\ entities'[n].id = entities[n].id
          /\ entities'[n].docs = entities[n].docs \ {d}
  BY <1>1, <1>2, WithoutTheDocument DEF GraphInv
<1>4. Becomes(d, "detach", job[d].own, job[d].batch, job[d].links, job[d].kept, job[d].rebuild)
  BY DeleteNeo4jJob
<1>5. Nx' = Nx /\ Graphs' = {"memory"}
  BY <1>1 DEF Nx, Graphs
<1>6. \A x \in Doc \ {d} : \A n : InGraph("memory", x, n) => InGraph("memory", x, n)'
  BY <1>1, <1>3, <1>5, GraphParts DEF InGraph
<1>7. /\ Jobs' /\ OneNorm' /\ IdsAreFinite' /\ LinksAreKnown' /\ NotHeld' /\ KeptIsHeld'
      /\ EntitiesAreKeyed("memory")' /\ DistinctIds("memory")'
      /\ BuiltIsIn("memory")' /\ Forgotten("memory")'
  <2>1. \A n \in DOMAIN entities' :
          /\ n \in DOMAIN entities /\ IsEntity(entities'[n])
          /\ entities'[n].norm = entities[n].norm /\ entities'[n].id = entities[n].id
          /\ entities'[n].docs \subseteq entities[n].docs /\ d \notin entities'[n].docs
    BY <1>3
  <2>2. /\ \A l \in DOMAIN relations' :
              l \in DOMAIN relations /\ relations'[l] \subseteq relations[l]
        /\ nodes' \subseteq nodes
    BY <1>1
  <2>3. disk' \in {disk, Written', Empty}
    BY <1>1
  <2> HIDE DEF KGInv
  <2> QED
    BY <1>1, <1>3, <1>4, <1>6, <2>1, <2>2, <2>3, DeletionStep
<1>8. NodesAreIds("memory")' /\ EdgesFit("memory")'
  BY <1>1, <1>5 DEF NodesAreIds, EdgesFit
<1>9. EndsAreIds("memory")'
  <2>1. Ids' = Ids
    BY <1>3 DEF Ids
  <2> QED
    BY <2>1, <1>1, <1>2, GraphParts DEF GraphInv, EndsAreIds
<1>10. ReferencedOrLeft("memory")'
  <2>1. job'[d].phase = "detach"
    BY <1>4 DEF Becomes
  <2>2. \A o \in Doc : job[o].phase \in {"prune", "aborted"} => job'[o].phase = job[o].phase
    BY <1>1, <1>4 DEF Becomes
  <2>3. \A l \in DOMAIN relations : relations[l] = {} =>
            \E o \in Doc : job'[o].phase \in {"prune", "aborted"}
    BY <2>2, <1>2, GraphParts DEF GraphInv, ReferencedOrLeft
  <2> QED
    BY <2>1, <2>3, <1>1, <1>5, GraphParts DEF ReferencedOrLeft
<1> QED
  BY <1>5, <1>7, <1>8, <1>9, <1>10 DEF GraphInv

(* ... then entities without documents go with their relations ... *)
LEMMA DetachStep ==
    ASSUME KGInv, NEW d \in Doc, DetachNeo4j(d)
    PROVE  KGInv'
<1> USE DEF KGInv
<1>1. /\ ~Nx /\ job[d].phase = "detach" /\ Mix(d) /\ entities' = Referenced(entities)
      /\ relations' = AmongIds(relations, {entities'[n].id : n \in DOMAIN entities'})
      /\ nodes' = nodes /\ disk' = disk /\ crashes' = crashes /\ wiring' = wiring
  BY DEF DetachNeo4j
<1>2. "memory" \in Graphs /\ GraphInv("memory")
  BY DEF Graphs
<1>3. /\ DOMAIN entities' = {n \in DOMAIN entities : entities[n].docs # {}}
      /\ entities' = [n \in DOMAIN entities' |-> entities'[n]]
      /\ \A n \in DOMAIN entities' : entities'[n] = entities[n]
  BY <1>1 DEF Referenced
<1>4. /\ DOMAIN relations' = {k \in DOMAIN relations : k[1] \in Ids' /\ k[2] \in Ids'}
      /\ \A l \in DOMAIN relations' : relations'[l] = relations[l]
  <2>1. relations' = AmongIds(relations, Ids')
    BY <1>1 DEF Ids
  <2> QED
    BY <2>1 DEF AmongIds
<1>5. /\ job[d].rebuild
      /\ Becomes(d, "unlink", job[d].own, job[d].batch, job[d].links, job[d].kept, job[d].rebuild)
  BY DetachNeo4jJob
<1>6. Nx' = Nx /\ Graphs' = {"memory"}
  BY <1>1 DEF Nx, Graphs
<1>7. \A x \in Doc \ {d} : \A n : InGraph("memory", x, n) => InGraph("memory", x, n)'
  BY <1>1, <1>3, <1>6, GraphParts DEF InGraph
<1>8. ~mixed' => \A n \in DOMAIN entities : d \notin entities[n].docs
  <2>1. Gone(d) /\ (mixed => mixed')
    BY <1>1, <1>5 DEF Gone, Mix
  <2> QED
    BY <2>1, <1>2, GraphParts DEF GraphInv, Forgotten
<1>9. /\ Jobs' /\ OneNorm' /\ IdsAreFinite' /\ LinksAreKnown' /\ NotHeld' /\ KeptIsHeld'
      /\ EntitiesAreKeyed("memory")' /\ DistinctIds("memory")'
      /\ BuiltIsIn("memory")' /\ Forgotten("memory")'
  <2>1. \A n \in DOMAIN entities : IsEntity(entities[n])
    BY <1>2, GraphParts DEF GraphInv, EntitiesAreKeyed
  <2>2. \A n \in DOMAIN entities' :
          /\ n \in DOMAIN entities /\ IsEntity(entities'[n])
          /\ entities'[n].norm = entities[n].norm /\ entities'[n].id = entities[n].id
          /\ entities'[n].docs \subseteq entities[n].docs
          /\ ~mixed' => d \notin entities'[n].docs
    BY <1>3, <1>8, <2>1
  <2>3. \A l \in DOMAIN relations' :
            /\ l \in DOMAIN relations /\ relations'[l] \subseteq relations[l]
            /\ ~mixed' /\ "unlink" \in {"prune", "gone", "extract"} => d \notin relations'[l]
    BY <1>1, <1>4
  <2>4. disk' \in {disk, Written', Empty} /\ nodes' \subseteq nodes
    BY <1>1
  <2>5. job[d].phase \in {"delete", "detach", "unlink", "prune"} /\ Mix(d)
        /\ crashes' = crashes /\ wiring' = wiring
    BY <1>1
  <2>6. entities' = [n \in DOMAIN entities' |-> entities'[n]]
    BY <1>3
  <2> HIDE DEF KGInv
  <2> QED
    BY <1>5, <1>7, <2>2, <2>3, <2>4, <2>5, <2>6, DeletionStep
<1>10. NodesAreIds("memory")' /\ EndsAreIds("memory")' /\ EdgesFit("memory")'
  BY <1>1, <1>4, <1>6, GraphParts DEF NodesAreIds, EndsAreIds, EdgesFit
<1>11. ReferencedOrLeft("memory")'
  <2>1. \A o \in Doc : job[o].phase \in {"prune", "aborted"} => job'[o].phase = job[o].phase
    BY <1>1, <1>5 DEF Becomes
  <2>2. \A l \in DOMAIN relations : relations[l] = {} =>
            \E o \in Doc : job'[o].phase \in {"prune", "aborted"}
    BY <2>1, <1>2, GraphParts DEF GraphInv, ReferencedOrLeft
  <2>3. \A l \in DOMAIN relations' : relations'[l] = {} =>
            \E o \in Doc : job'[o].phase \in {"prune", "aborted"}
    BY <2>2, <1>4
  <2>4. ~Nx' /\ \A n \in DOMAIN entities' : entities'[n].docs # {}
    BY <1>1, <1>3, <1>6
  <2> QED
    BY <2>3, <2>4, GraphParts DEF ReferencedOrLeft
<1> QED
  BY <1>6, <1>9, <1>10, <1>11 DEF GraphInv

(* ... the document leaves the relations ... *)
LEMMA UnlinkStep ==
    ASSUME KGInv, NEW d \in Doc, UnlinkNeo4j(d)
    PROVE  KGInv'
<1> USE DEF KGInv
<1>1. /\ ~Nx /\ job[d].phase = "unlink" /\ Mix(d) /\ relations' = Unlisted(d, relations)
      /\ entities' = entities /\ nodes' = nodes /\ disk' = disk
      /\ crashes' = crashes /\ wiring' = wiring
  BY DEF UnlinkNeo4j
<1>2. "memory" \in Graphs /\ GraphInv("memory")
  BY DEF Graphs
<1>3. /\ DOMAIN relations' = DOMAIN relations
      /\ \A l \in DOMAIN relations' : relations'[l] = relations[l] \ {d}
  BY <1>1 DEF Unlisted
<1>4. job[d].rebuild
  BY UnlinkNeo4jJob
<1>5. Becomes(d, "prune", job[d].own, job[d].batch, job[d].links, job[d].kept, job[d].rebuild)
  BY UnlinkNeo4jJob
<1>6. Nx' = Nx /\ Graphs' = {"memory"} /\ Ids' = Ids
  BY <1>1 DEF Nx, Graphs, Ids
<1>7. \A x \in Doc \ {d} : \A n : InGraph("memory", x, n) => InGraph("memory", x, n)'
  BY <1>1, <1>6, GraphParts DEF InGraph
<1>8. /\ Jobs' /\ OneNorm' /\ IdsAreFinite' /\ LinksAreKnown' /\ NotHeld' /\ KeptIsHeld'
      /\ EntitiesAreKeyed("memory")' /\ DistinctIds("memory")'
      /\ BuiltIsIn("memory")' /\ Forgotten("memory")'
  <2>1. ~mixed' => \A n \in DOMAIN entities : d \notin entities[n].docs
    <3>1. Gone(d) /\ (mixed => mixed')
      BY <1>1, <1>4 DEF Gone, Mix
    <3> QED
      BY <3>1, <1>2, GraphParts DEF GraphInv, Forgotten
  <2>2. /\ entities = [n \in DOMAIN entities |-> entities[n]]
        /\ \A n \in DOMAIN entities : IsEntity(entities[n])
    BY <1>2, GraphParts DEF GraphInv, EntitiesAreKeyed
  <2>3. \A n \in DOMAIN entities' :
          /\ n \in DOMAIN entities /\ IsEntity(entities'[n])
          /\ entities'[n].norm = entities[n].norm /\ entities'[n].id = entities[n].id
          /\ entities'[n].docs \subseteq entities[n].docs
          /\ ~mixed' => d \notin entities'[n].docs
    BY <1>1, <2>1, <2>2
  <2>4. \A l \in DOMAIN relations' :
          l \in DOMAIN relations /\ relations'[l] \subseteq relations[l] /\ d \notin relations'[l]
    BY <1>3
  <2>6. nodes' \subseteq nodes
    BY <1>1
  <2>5. /\ disk' \in {disk, Written', Empty}
        /\ entities' = [n \in DOMAIN entities' |-> entities'[n]]
    BY <1>1, <2>2
  <2> HIDE DEF KGInv
  <2> QED
    BY <1>1, <1>5, <1>7, <2>3, <2>4, <2>5, <2>6, DeletionStep
<1>9. NodesAreIds("memory")' /\ EndsAreIds("memory")' /\ EdgesFit("memory")'
  BY <1>1, <1>2, <1>3, <1>6, GraphParts DEF GraphInv, NodesAreIds, EndsAreIds, EdgesFit
<1>10. ReferencedOrLeft("memory")'
  <2>1. job'[d].phase = "prune"
    BY <1>5 DEF Becomes
  <2>2. \A o \in Doc : job[o].phase \in {"detach", "aborted"} => job'[o].phase = job[o].phase
    BY <1>1, <1>5 DEF Becomes
  <2>3. \A n \in DOMAIN entities : entities[n].docs = {} =>
            ~Nx' /\ \E o \in Doc : job'[o].phase \in {"detach", "aborted"}
    <3> TAKE n \in DOMAIN entities
    <3> HAVE entities[n].docs = {}
    <3>1. PICK o \in Doc : job[o].phase \in {"detach", "aborted"}
      BY <1>2, GraphParts DEF GraphInv, ReferencedOrLeft
    <3> QED
      BY <3>1, <2>2, <1>1, <1>6
  <2> QED
    BY <2>1, <2>3, <1>1, <1>6, GraphParts DEF ReferencedOrLeft
<1> QED
  BY <1>6, <1>8, <1>9, <1>10 DEF GraphInv

(* ... and relations without documents go. *)
LEMMA PruneStep ==
    ASSUME KGInv, NEW d \in Doc, PruneNeo4j(d)
    PROVE  KGInv'
<1> USE DEF KGInv
<1>1. /\ ~Nx /\ job[d].phase = "prune" /\ Mix(d) /\ relations' = Listed(relations)
      /\ entities' = entities /\ nodes' = nodes /\ disk' = disk
      /\ crashes' = crashes /\ wiring' = wiring
  BY DEF PruneNeo4j
<1>2. "memory" \in Graphs /\ GraphInv("memory")
  BY DEF Graphs
<1>3. /\ DOMAIN relations' = {l \in DOMAIN relations : relations[l] # {}}
      /\ \A l \in DOMAIN relations' : relations'[l] = relations[l]
  BY <1>1 DEF Listed
<1>4. job[d].rebuild
  BY PruneNeo4jJob
<1>5. PICK p \in {"gone", "extract"} :
        Becomes(d, p, job[d].own, job[d].batch, job[d].links, job[d].kept, job[d].rebuild)
  BY PruneNeo4jJob
<1>6. Nx' = Nx /\ Graphs' = {"memory"} /\ Ids' = Ids
  BY <1>1 DEF Nx, Graphs, Ids
<1>7. \A x \in Doc \ {d} : \A n : InGraph("memory", x, n) => InGraph("memory", x, n)'
  BY <1>1, <1>6, GraphParts DEF InGraph
<1>8. /\ Jobs' /\ OneNorm' /\ IdsAreFinite' /\ LinksAreKnown' /\ NotHeld' /\ KeptIsHeld'
      /\ EntitiesAreKeyed("memory")' /\ DistinctIds("memory")'
      /\ BuiltIsIn("memory")' /\ Forgotten("memory")'
  <2>1. ~mixed' => \A n \in DOMAIN entities : d \notin entities[n].docs
    <3>1. Gone(d) /\ (mixed => mixed')
      BY <1>1, <1>4 DEF Gone, Mix
    <3> QED
      BY <3>1, <1>2, GraphParts DEF GraphInv, Forgotten
  <2>2. /\ entities = [n \in DOMAIN entities |-> entities[n]]
        /\ \A n \in DOMAIN entities : IsEntity(entities[n])
    BY <1>2, GraphParts DEF GraphInv, EntitiesAreKeyed
  <2>3. \A n \in DOMAIN entities' :
          /\ n \in DOMAIN entities /\ IsEntity(entities'[n])
          /\ entities'[n].norm = entities[n].norm /\ entities'[n].id = entities[n].id
          /\ entities'[n].docs \subseteq entities[n].docs
          /\ ~mixed' => d \notin entities'[n].docs
    BY <1>1, <2>1, <2>2
  <2>4. ~mixed' => \A l \in DOMAIN relations : d \notin relations[l]
    <3>1. Unlinked(d) /\ (mixed => mixed')
      BY <1>1, <1>4 DEF Unlinked, Mix
    <3> QED
      BY <3>1, <1>2, GraphParts DEF GraphInv, Forgotten
  <2>5. \A l \in DOMAIN relations' :
          /\ l \in DOMAIN relations /\ relations'[l] \subseteq relations[l]
          /\ ~mixed' => d \notin relations'[l]
    BY <1>3, <2>4
  <2>7. nodes' \subseteq nodes
    BY <1>1
  <2>6. /\ disk' \in {disk, Written', Empty}
        /\ entities' = [n \in DOMAIN entities' |-> entities'[n]]
    BY <1>1, <2>2
  <2> HIDE DEF KGInv
  <2> QED
    BY <1>1, <1>5, <1>7, <2>3, <2>5, <2>6, <2>7, DeletionStep
<1>9. NodesAreIds("memory")' /\ EndsAreIds("memory")' /\ EdgesFit("memory")'
  BY <1>1, <1>2, <1>3, <1>6, GraphParts DEF GraphInv, NodesAreIds, EndsAreIds, EdgesFit
<1>10. ReferencedOrLeft("memory")'
  <2>1. \A l \in DOMAIN relations' : relations'[l] # {}
    BY <1>3
  <2>2. \A o \in Doc : job[o].phase \in {"detach", "aborted"} => job'[o].phase = job[o].phase
    BY <1>1, <1>5 DEF Becomes
  <2>3. \A n \in DOMAIN entities : entities[n].docs = {} =>
            ~Nx' /\ \E o \in Doc : job'[o].phase \in {"detach", "aborted"}
    <3> TAKE n \in DOMAIN entities
    <3> HAVE entities[n].docs = {}
    <3>1. PICK o \in Doc : job[o].phase \in {"detach", "aborted"}
      BY <1>2, GraphParts DEF GraphInv, ReferencedOrLeft
    <3> QED
      BY <3>1, <2>2, <1>1, <1>6
  <2> QED
    BY <2>1, <2>3, <1>1, <1>6, GraphParts DEF ReferencedOrLeft
<1> QED
  BY <1>6, <1>8, <1>9, <1>10 DEF GraphInv
--------------------------------------------------------------------------------
(* What the jobs are once the process has died. *)
LEMMA JobsAfterCrash ==
    ASSUME Jobs, Crash
    PROVE  /\ Jobs' /\ wiring' = wiring
           /\ \A d \in Doc :
                /\ Held(d)' = {} /\ job'[d].links = {}
                /\ job'[d].phase \notin {"upsert", "relate"}
                /\ job'[d].phase = "built" => job'[d] = job[d]
                /\ Gone(d)' => Gone(d) /\ Unlinked(d)
                /\ job[d].phase \in {"detach", "prune", "aborted"} => job'[d].phase = "aborted"
<1>1. /\ Jobs' /\ wiring' = wiring
      /\ \A d \in Doc :
           \/ job[d].phase \in {"new", "built", "gone", "aborted"} /\ job'[d] = job[d]
           \/ /\ job[d].phase \notin {"new", "built", "gone", "aborted"}
              /\ job'[d].phase = IF job[d].rebuild THEN "aborted" ELSE "raised"
              /\ job'[d].own = <<>> /\ job'[d].batch = <<>> /\ job'[d].links = {}
              /\ job'[d].kept = {} /\ job'[d].rebuild = FALSE
  BY CrashJobs
<1>2. ASSUME NEW d \in Doc
      PROVE  /\ Held(d)' = {} /\ job'[d].links = {}
             /\ job'[d].phase \notin {"upsert", "relate"}
             /\ job'[d].phase = "built" => job'[d] = job[d]
             /\ Gone(d)' => Gone(d) /\ Unlinked(d)
             /\ job[d].phase \in {"detach", "prune", "aborted"} => job'[d].phase = "aborted"
  <2>1. GoodJob(d, job[d])
    BY DEF Jobs
  <2>2. CASE job[d].phase \in {"new", "built", "gone", "aborted"} /\ job'[d] = job[d]
    <3>1. job[d].own = <<>> /\ job[d].batch = <<>> /\ job[d].links = {}
      BY <2>1, <2>2 DEF GoodJob
    <3>2. Held(d)' = {}
      BY <2>2, <3>1, NoElements DEF Held, ToSet
    <3> QED
      BY <2>2, <3>1, <3>2 DEF Gone, Unlinked
  <2>3. CASE job[d].phase \notin {"new", "built", "gone", "aborted"}
    <3>1. /\ job'[d].phase \in {"aborted", "raised"} /\ job'[d].own = <<>> /\ job'[d].batch = <<>>
          /\ job'[d].links = {}
          /\ job[d].rebuild => job'[d].phase = "aborted"
      BY <1>1, <2>3
    <3>2. Held(d)' = {}
      BY <3>1, NoElements DEF Held, ToSet
    <3>3. job[d].phase \in {"detach", "prune"} => job[d].rebuild
      BY <2>1 DEF GoodJob
    <3> QED
      BY <2>3, <3>1, <3>2, <3>3 DEF Gone, Unlinked
  <2> QED
    BY <1>1, <2>2, <2>3
<1> QED
  BY <1>1, <1>2

(* A graph that outlives the process is that of memory, or of the file. *)
LEMMA GraphOutlives ==
    ASSUME KGInv, Crash, NEW s \in Graphs, NEW g \in {"memory", "disk"}, crashes' = "kept",
           Ents(g)' = Ents(s), Nds(g)' = Nds(s), Eds(g)' = Eds(s), Rels(g)' = Rels(s)
    PROVE  GraphInv(g)'
<1>1. /\ crashes = "none" /\ mixed' = mixed /\ Nx' = Nx
  BY DEF Crash, Nx
<1>2. \A d \in Doc :
        /\ job'[d].phase \notin {"upsert", "relate"}
        /\ job'[d].phase = "built" => job'[d] = job[d]
        /\ Gone(d)' => Gone(d) /\ Unlinked(d)
        /\ job[d].phase \in {"detach", "prune", "aborted"} => job'[d].phase = "aborted"
  BY JobsAfterCrash DEF KGInv
<1>3. GraphInv(s)
  BY DEF KGInv
<1>4. IdsOf(g)' = IdsOf(s)
  BY DEF IdsOf
<1> USE <1>3 DEF GraphInv
<1>5. EntitiesAreKeyed(g)' /\ DistinctIds(g)'
  BY DEF EntitiesAreKeyed, DistinctIds, IsEntity
<1>6. NodesAreIds(g)' /\ EndsAreIds(g)' /\ EdgesFit(g)'
  BY <1>1, <1>4 DEF NodesAreIds, EndsAreIds, EdgesFit
<1>7. BuiltIsIn(g)'
  <2> SUFFICES ASSUME NEW x \in Doc, job'[x].phase \in {"relate", "built"}, NEW n \in job'[x].kept
               PROVE  InGraph(g, x, n)'
    BY DEF BuiltIsIn
  <2>1. InGraph(s, x, n)
    BY <1>1, <1>2 DEF BuiltIsIn
  <2> QED
    BY <2>1, <1>1 DEF InGraph
<1>8. Forgotten(g)'
  <2>1. \A d \in Doc : Unlinked(d)' => Gone(d)'
    BY DEF Unlinked, Gone
  <2> QED
    BY <1>1, <1>2, <2>1 DEF Forgotten
<1>9. ReferencedOrLeft(g)'
  <2>1. ASSUME NEW n \in DOMAIN Ents(s), Ents(s)[n].docs = {}
        PROVE  ~Nx' /\ \E o \in Doc : job'[o].phase \in {"detach", "aborted"}
    <3>1. PICK o \in Doc : ~Nx /\ job[o].phase \in {"detach", "aborted"}
      BY <2>1 DEF ReferencedOrLeft
    <3> QED
      BY <1>1, <1>2, <3>1
  <2>2. ASSUME NEW l \in DOMAIN Rels(s), Rels(s)[l] = {}
        PROVE  ~Nx' /\ \E o \in Doc : job'[o].phase \in {"prune", "aborted"}
    <3>1. PICK o \in Doc : ~Nx /\ job[o].phase \in {"prune", "aborted"}
      BY <2>2 DEF ReferencedOrLeft
    <3> QED
      BY <1>1, <1>2, <3>1
  <2> QED
    BY <2>1, <2>2 DEF ReferencedOrLeft
<1> QED
  BY <1>5, <1>6, <1>7, <1>8, <1>9

(* Only the graph is read again, and nobody holds anything. *)
LEMMA CrashStep ==
    ASSUME KGInv, Crash
    PROVE  KGInv'
<1> USE DEF KGInv
<1>1. /\ Jobs' /\ wiring' = wiring
      /\ \A d \in Doc : Held(d)' = {} /\ job'[d].links = {} /\ job'[d].phase # "upsert"
  BY JobsAfterCrash
<1>2. "memory" \in Graphs /\ Graphs' = Graphs /\ Graphs \subseteq {"memory", "disk"}
  BY <1>1 DEF Graphs, Nx
<1>3. \/ ~Nx /\ crashes' = "kept" /\ UNCHANGED <<graph, disk>>
      \/ Nx /\ wiring.persist /\ crashes' = "kept" /\ Load(disk) /\ disk' = disk
      \/ Nx /\ crashes' = "lost" /\ Load(Empty) /\ disk' = Empty
  BY DEF Crash
<1>4. \A g \in Graphs' : GraphInv(g)'
  <2>1. CASE ~Nx /\ crashes' = "kept" /\ UNCHANGED <<graph, disk>>
    <3>1. /\ Ents("memory")' = Ents("memory") /\ Nds("memory")' = Nds("memory")
          /\ Eds("memory")' = Eds("memory") /\ Rels("memory")' = Rels("memory")
      BY <2>1, GraphParts DEF graph
    <3>2. GraphInv("memory")'
      BY <1>2, <2>1, <3>1, GraphOutlives
    <3> QED
      BY <1>2, <2>1, <3>2 DEF Graphs
  <2>2. CASE Nx /\ wiring.persist /\ crashes' = "kept" /\ Load(disk) /\ disk' = disk
    <3>1. "disk" \in Graphs
      BY <2>2 DEF Graphs
    <3>2. ASSUME NEW g \in {"memory", "disk"}
          PROVE  /\ Ents(g)' = Ents("disk") /\ Nds(g)' = Nds("disk")
                 /\ Eds(g)' = Eds("disk") /\ Rels(g)' = Rels("disk")
      BY <2>2, GraphParts DEF Load
    <3>3. \A g \in {"memory", "disk"} : GraphInv(g)'
      BY <2>2, <3>1, <3>2, GraphOutlives
    <3> QED
      BY <1>2, <3>3
  <2>3. CASE Nx /\ crashes' = "lost" /\ Load(Empty) /\ disk' = Empty
    <3>1. ASSUME NEW g \in {"memory", "disk"}
          PROVE  GraphInv(g)'
      <4>1. Ents(g)' = <<>> /\ Nds(g)' = {} /\ Eds(g)' = {} /\ Rels(g)' = <<>>
        BY <2>3, GraphParts DEF Load, Empty
      <4>2. IdsOf(g)' = {}
        BY <4>1 DEF IdsOf
      <4>3. EntitiesAreKeyed(g)' /\ DistinctIds(g)'
        BY <4>1 DEF EntitiesAreKeyed, DistinctIds
      <4>4. NodesAreIds(g)' /\ EndsAreIds(g)' /\ EdgesFit(g)'
        BY <4>1, <4>2 DEF NodesAreIds, EndsAreIds, EdgesFit
      <4>5. BuiltIsIn(g)' /\ Forgotten(g)' /\ ReferencedOrLeft(g)'
        BY <4>1, <2>3 DEF BuiltIsIn, Forgotten, ReferencedOrLeft
      <4> QED
        BY <4>3, <4>4, <4>5 DEF GraphInv
    <3> QED
      BY <1>2, <3>1
  <2> QED
    BY <1>3, <2>1, <2>2, <2>3
<1>5. OneNorm'
  <2>1. EntitiesAreKeyed("memory")' /\ DistinctIds("memory")'
    BY <1>2, <1>4 DEF GraphInv
  <2>2. /\ \A n \in DOMAIN entities' : entities'[n].norm = n
        /\ \A m, n \in DOMAIN entities' : entities'[m].id = entities'[n].id => m = n
    BY <2>1, GraphParts DEF EntitiesAreKeyed, DistinctIds
  <2>3. Known' = {entities'[n] : n \in DOMAIN entities'}
    BY <1>1 DEF Known
  <2> QED
    BY <2>2, <2>3 DEF OneNorm
<1>6. IdsAreFinite'
  <2> DEFINE A == UsedIds \cup DiskIds \cup {FreshId}
  <2>1. /\ \A n \in DOMAIN entities' : entities'[n].id \in A
        /\ nodes' \subseteq A
        /\ \A l \in DOMAIN relations' : l[1] \in A /\ l[2] \in A
    <3>1. CASE UNCHANGED <<graph, disk>>
      BY <3>1, UsedIdsAre DEF Ids, graph
    <3>2. CASE Load(disk)
      BY <3>2 DEF Load, DiskIds
    <3>3. CASE Load(Empty)
      BY <3>3 DEF Load, Empty
    <3> QED
      BY <1>3, <3>1, <3>2, <3>3
  <2>2. disk' \in {disk, Written', Empty}
    BY <1>3
  <2>3. /\ \A d \in Doc : \A l \in job'[d].links : l[1] \in A /\ l[2] \in A
        /\ \A d \in Doc : \A e \in Held(d)' : e.id \in A
    BY <1>1
  <2> HIDE DEF A
  <2> QED
    BY <1>1, <2>1, <2>2, <2>3, StaysFinite DEF A
<1>7. LinksAreKnown'
  BY <1>1 DEF LinksAreKnown
<1>8. NotHeld'
  BY <1>1 DEF NotHeld
<1>9. KeptIsHeld'
  BY <1>1 DEF KeptIsHeld
<1> QED
  BY <1>1, <1>4, <1>5, <1>6, <1>7, <1>8, <1>9
--------------------------------------------------------------------------------
(* The invariant: at first, when nothing happens, and in every step. *)
LEMMA KGInit == Init => KGInv
<1> SUFFICES ASSUME Init
             PROVE  KGInv
  OBVIOUS
<1>1. /\ job = [d \in Doc |-> NoJob] /\ entities = <<>> /\ nodes = {} /\ edges = {}
      /\ relations = <<>> /\ disk = Empty /\ crashes = "none" /\ mixed = FALSE
  BY DEF Init
<1>2. /\ IsJob(NoJob) /\ NoJob.phase = "new" /\ NoJob.own = <<>> /\ NoJob.batch = <<>>
      /\ NoJob.links = {} /\ NoJob.rebuild = FALSE
  BY DEF NoJob, IsJob
<1>3. \A d \in Doc : GoodJob(d, NoJob)
  BY <1>2, NoElements DEF GoodJob
<1>4. Jobs
  BY <1>1, <1>3 DEF Jobs
<1>5. \A d \in Doc : Held(d) = {} /\ job[d].links = {} /\ job[d].phase = "new" /\ ~job[d].rebuild
  BY <1>1, <1>2, NoElements DEF Held
<1>6. OneNorm /\ LinksAreKnown /\ NotHeld /\ KeptIsHeld
  <2>1. Known = {}
    BY <1>1, <1>5 DEF Known
  <2> QED
    BY <1>5, <2>1 DEF OneNorm, LinksAreKnown, NotHeld, KeptIsHeld
<1>7. IdsAreFinite
  <2>1. UsedIds = {}
    BY <1>1, <1>4, <1>5, UsedIdsAre DEF Ids
  <2>2. DiskIds = {}
    BY <1>1 DEF DiskIds, Empty
  <2> QED
    BY <2>1, <2>2, FS_EmptySet DEF IdsAreFinite
<1>8. ASSUME NEW g \in {"memory", "disk"}
      PROVE  GraphInv(g)
  <2>1. Ents(g) = <<>> /\ Nds(g) = {} /\ Eds(g) = {} /\ Rels(g) = <<>>
    BY <1>1, GraphParts DEF Empty
  <2>2. /\ EntitiesAreKeyed(g) /\ DistinctIds(g) /\ NodesAreIds(g)
        /\ EndsAreIds(g) /\ EdgesFit(g)
    BY <2>1 DEF EntitiesAreKeyed, DistinctIds, NodesAreIds, EndsAreIds, EdgesFit, IdsOf
  <2>3. BuiltIsIn(g) /\ Forgotten(g) /\ ReferencedOrLeft(g)
    BY <1>5, <2>1 DEF BuiltIsIn, Forgotten, ReferencedOrLeft
  <2> QED
    BY <2>2, <2>3 DEF GraphInv
<1> QED
  BY <1>4, <1>6, <1>7, <1>8 DEF KGInv, Graphs

LEMMA KGStutter == KGInv /\ UNCHANGED vars => KGInv'
<1> SUFFICES ASSUME KGInv, UNCHANGED vars
             PROVE  KGInv'
  OBVIOUS
<1>1. /\ job' = job /\ entities' = entities /\ nodes' = nodes /\ edges' = edges
      /\ relations' = relations
      /\ disk' = disk /\ crashes' = crashes /\ mixed' = mixed /\ wiring' = wiring
  BY DEF vars, graph, history
<1>2. /\ Nx' = Nx /\ Ids' = Ids /\ Graphs' = Graphs /\ UsedIds' = UsedIds /\ DiskIds' = DiskIds
      /\ \A d : Held(d)' = Held(d) /\ Gone(d)' = Gone(d) /\ Unlinked(d)' = Unlinked(d)
  BY <1>1 DEF Nx, Ids, Graphs, UsedIds, DiskIds, Held, Gone, Unlinked, ToSet
<1>3. Jobs'
  <2>1. job = [d \in Doc |-> job[d]] /\ \A d \in Doc : GoodJob(d, job[d])
    BY DEF KGInv, Jobs
  <2>2. \A d \in Doc : GoodJob(d, job'[d])
    BY <1>1, <2>1
  <2>3. \A d \in Doc : GoodJob(d, job[d])'
    BY <1>2, <2>2 DEF GoodJob, IsJob, IsEntity
  <2> QED
    BY <1>1, <2>1, <2>3 DEF Jobs
<1>4. OneNorm' /\ IdsAreFinite' /\ LinksAreKnown' /\ NotHeld'
  BY <1>1, <1>2 DEF KGInv, OneNorm, Known, IdsAreFinite, LinksAreKnown, NotHeld, ToSet
<1>5. KeptIsHeld'
  BY <1>1, <1>2, GraphParts DEF KGInv, KeptIsHeld, InGraph, ToSet
<1>6. ASSUME NEW g \in {"memory", "disk"}, GraphInv(g)
      PROVE  GraphInv(g)'
  <2>1. /\ Ents(g)' = Ents(g) /\ Nds(g)' = Nds(g) /\ Eds(g)' = Eds(g)
        /\ Rels(g)' = Rels(g) /\ IdsOf(g)' = IdsOf(g)
    BY <1>1 DEF Ents, Nds, Eds, Rels, IdsOf
  <2>2. EntitiesAreKeyed(g)' /\ DistinctIds(g)'
    BY <1>6, <2>1 DEF GraphInv, EntitiesAreKeyed, DistinctIds, IsEntity
  <2>3. NodesAreIds(g)' /\ EndsAreIds(g)' /\ EdgesFit(g)'
    BY <1>1, <1>2, <1>6, <2>1 DEF GraphInv, NodesAreIds, EndsAreIds, EdgesFit
  <2>4. BuiltIsIn(g)'
    BY <1>1, <1>2, <1>6, <2>1 DEF GraphInv, BuiltIsIn, InGraph
  <2>5. Forgotten(g)' /\ ReferencedOrLeft(g)'
    BY <1>1, <1>2, <1>6, <2>1 DEF GraphInv, Forgotten, ReferencedOrLeft
  <2> QED
    BY <2>2, <2>3, <2>4, <2>5 DEF GraphInv
<1>7. \A g \in Graphs' : GraphInv(g)'
  BY <1>2, <1>6 DEF KGInv, Graphs
<1> QED
  BY <1>3, <1>4, <1>5, <1>7 DEF KGInv

LEMMA KGNext == KGInv /\ [Next]_vars => KGInv'
<1> SUFFICES ASSUME KGInv, [Next]_vars
             PROVE  KGInv'
  OBVIOUS
<1>1. CASE UNCHANGED vars
  BY <1>1, KGStutter
<1>2. CASE Crash
  BY <1>2, CrashStep
<1>3. ASSUME NEW d \in Doc, Step(d)
      PROVE  KGInv'
  <2>1. CASE \/ StartBuild(d) \/ Extract(d) \/ EndExtraction(d) \/ EndEntitiesNeo4j(d)
             \/ EndRelationsNeo4j(d) \/ StoreFails(d) \/ StartReindex(d)
    BY <2>1, QuietSteps
  <2>2. CASE MergeEntity(d)
    BY <2>2, MergeStep
  <2>3. CASE FinishChunk(d)
    BY <2>3, FinishStep
  <2>4. CASE UpsertEntitiesNx(d)
    BY <2>4, UpsertNxStep
  <2>5. CASE UpsertEntityNeo4j(d)
    BY <2>5, UpsertNeo4jStep
  <2>6. CASE UpsertRelationsNx(d)
    BY <2>6, RelationsNxStep
  <2>7. CASE UpsertRelationNeo4j(d)
    BY <2>7, RelationNeo4jStep
  <2>8. CASE DeleteChunkFromGraph(d)
    BY <2>8, DeleteChunkStep
  <2>9. CASE DeleteNx(d)
    BY <2>9, DeleteNxStep
  <2>10. CASE DeleteNeo4j(d)
    BY <2>10, DeleteNeo4jStep
  <2>11. CASE DetachNeo4j(d)
    BY <2>11, DetachStep
  <2>12. CASE UnlinkNeo4j(d)
    BY <2>12, UnlinkStep
  <2>13. CASE PruneNeo4j(d)
    BY <2>13, PruneStep
  <2> QED
    BY <1>3, <2>1, <2>2, <2>3, <2>4, <2>5, <2>6, <2>7, <2>8, <2>9, <2>10, <2>11, <2>12, <2>13
       DEF Step
<1> QED
  BY <1>1, <1>2, <1>3 DEF Next

(* Memory and file are graphs in order, and the jobs hold what belongs to  *)
(* them, whatever builds, deletions and reindexes overlap, and across a    *)
(* restart (KGBuilder.build_for_chunks, upsert_entities, upsert_relations, *)
(* delete_by_doc, _dump_locked, _load).                                    *)
THEOREM KnowledgeGraphInvariant == Spec => []KGInv
<1>1. Init => KGInv
  BY KGInit
<1>2. KGInv /\ [Next]_vars => KGInv'
  BY KGNext
<1> QED
  BY <1>1, <1>2, PTL DEF Spec

(* A document whose build returned is in the graph: every entity its       *)
(* chunks were merged into is stored, lists the document and has its node, *)
(* through other documents' builds and deletions and a restart that read   *)
(* the file (build_for_chunks, upsert_entities, delete_by_doc, _load).     *)
THEOREM BuiltDocumentsArePresent == Spec => []BuiltMeansPresent
<1>1. KGInv => BuiltMeansPresent
  <2> SUFFICES ASSUME KGInv
               PROVE  BuiltMeansPresent
    OBVIOUS
  <2>1. BuiltIsIn("memory")
    BY DEF KGInv, Graphs, GraphInv
  <2> QED
    BY <2>1, GraphParts DEF BuiltIsIn, InGraph, BuiltMeansPresent
<1> QED
  BY <1>1, KnowledgeGraphInvariant, PTL

(* As long as no deletion overlapped another document's build: a document *)
(* that was deleted is in no entity and no relation until it is built      *)
(* again, and with networkx every edge left joins entities that other      *)
(* documents list.  Always: what nobody lists is only there, with neo4j,   *)
(* while a deletion has yet to collect it, or failed to (delete_by_doc of  *)
(* both stores).                                                           *)
THEOREM DeletedDocumentsAreForgotten == Spec => []DeletedIsForgotten
<1>1. KGInv => DeletedIsForgotten
  <2> SUFFICES ASSUME KGInv
               PROVE  DeletedIsForgotten
    OBVIOUS
  <2>1. /\ Forgotten("memory") /\ ReferencedOrLeft("memory")
        /\ NodesAreIds("memory") /\ EdgesFit("memory")
    BY DEF KGInv, Graphs, GraphInv
  <2>2. /\ \A n \in DOMAIN entities : entities[n].docs = {} =>
                ~Nx /\ \E o \in Doc : job[o].phase \in {"detach", "aborted"}
        /\ \A l \in DOMAIN relations : relations[l] = {} =>
                ~Nx /\ \E o \in Doc : job[o].phase \in {"prune", "aborted"}
    BY <2>1, GraphParts DEF ReferencedOrLeft
  <2>3. ASSUME NEW d \in Doc, job[d].rebuild, ~mixed, job[d].phase \in {"extract", "merge", "gone"}
        PROVE  /\ \A n \in DOMAIN entities : d \notin entities[n].docs
               /\ \A l \in DOMAIN relations : d \notin relations[l]
               /\ Nx => \A e \in edges : \A id \in {e[1], e[2]} :
                    \E n \in DOMAIN entities : entities[n].id = id /\ entities[n].docs \ {d} # {}
    <3>1. Gone(d) /\ Unlinked(d)
      BY <2>3 DEF Gone, Unlinked
    <3>2. /\ \A n \in DOMAIN entities : d \notin entities[n].docs
          /\ \A l \in DOMAIN relations : d \notin relations[l]
      BY <3>1, <2>1, <2>3, GraphParts DEF Forgotten
    <3>3. ASSUME Nx, NEW e \in edges, NEW id \in {e[1], e[2]}
          PROVE  \E n \in DOMAIN entities : entities[n].id = id /\ entities[n].docs \ {d} # {}
      <4>1. id \in Ids
        BY <3>3, <2>1, <2>3, GraphParts DEF EdgesFit, NodesAreIds
      <4>2. PICK n \in DOMAIN entities : entities[n].id = id
        BY <4>1 DEF Ids
      <4>3. entities[n].docs # {} /\ d \notin entities[n].docs
        BY <3>2, <3>3, <2>2
      <4> QED
        BY <4>2, <4>3
    <3> QED
      BY <3>2, <3>3
  <2> QED
    BY <2>2, <2>3 DEF DeletedIsForgotten
<1> QED
  BY <1>1, KnowledgeGraphInvariant, PTL

(* No two entities share an id, and with networkx every relation has its   *)
(* edge and every edge its nodes.  With neo4j always, with networkx as     *)
(* long as no deletion overlapped another document's build, what an entity *)
(* is expanded to, over a relation or an edge, is an entity of the graph   *)
(* (_build_relations, upsert_relations, delete_by_doc, neighbors).         *)
THEOREM RelationsAlwaysJoinEntities == Spec => []RelationsJoinEntities
<1>1. KGInv => RelationsJoinEntities
  <2> SUFFICES ASSUME KGInv
               PROVE  RelationsJoinEntities
    OBVIOUS
  <2>1. /\ DistinctIds("memory") /\ NodesAreIds("memory")
        /\ EndsAreIds("memory") /\ EdgesFit("memory")
    BY DEF KGInv, Graphs, GraphInv
  <2>2. /\ \A m, n \in DOMAIN entities : entities[m].id = entities[n].id => m = n
        /\ Nx => nodes = Ids \/ mixed
        /\ Nx => \A e \in edges : e[1] \in nodes /\ e[2] \in nodes
    BY <2>1, GraphParts DEF DistinctIds, NodesAreIds, EdgesFit
  <2>3. \A l \in DOMAIN relations : <<l[1], l[2]>> \in Edges
    BY <2>1, GraphParts DEF EdgesFit, Edges
  <2>4. ASSUME ~mixed \/ ~Nx
        PROVE  \A e \in Edges : e[1] \in Ids /\ e[2] \in Ids
    <3>1. CASE Nx
      BY <3>1, <2>2, <2>4 DEF Edges
    <3>2. CASE ~Nx
      <4>1. \A l \in DOMAIN relations : l[1] \in Ids /\ l[2] \in Ids
        BY <3>2, <2>1, GraphParts DEF EndsAreIds
      <4> QED
        BY <3>2, <4>1 DEF Edges
    <3> QED
      BY <3>1, <3>2
  <2>5. ~mixed \/ ~Nx => \A id : Neighbors(id) \subseteq Ids
    BY <2>4 DEF Neighbors
  <2> QED
    BY <2>2, <2>3, <2>4, <2>5 DEF RelationsJoinEntities
<1> QED
  BY <1>1, KnowledgeGraphInvariant, PTL
================================================================================
