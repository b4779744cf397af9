----------------------------- MODULE VectorFilters -----------------------------
(***************************************************************************)
(* FilterExpr (ragx/core/models.py), its validation, and what the three    *)
(* vector stores make of it: an SQL predicate, an Elasticsearch bool       *)
(* filter, a Qdrant Filter.  The stores differ where a row has no value    *)
(* for a field, and where a clause is negated.                             *)
(***************************************************************************)
EXTENDS Integers

CONSTANTS
    Chunk,        \* numbers, in the order of the rows
    Field,        \* columns and metadata fields, doc_id among them
    NumberField,  \* the fields whose values are numbers, not texts
    Meta,         \* Chunk -> Field -> value
    Containing,   \* <<value, part>>: the text of value contains part
    CacheDoc      \* the doc_id of the entries of the semantic cache

Absent == -1
Unnamed == ""

ASSUME FilterConstants ==
    /\ Chunk \subseteq Nat
    /\ "doc_id" \in Field /\ Unnamed \notin Field
    /\ NumberField \subseteq Field
    /\ Meta \in [Chunk -> [Field -> Nat \cup {Absent}]]
    /\ CacheDoc \in Nat

(* The operators after normalisation, which refuses all others. *)
Ops == {"eq", "ne", "gt", "ge", "lt", "le", "in", "contains"}

(* A clause compares with one value, or with those of a list; a filter has *)
(* two groups of clauses.  Values are numbers, also where they stand for   *)
(* names.                                                                  *)
Clause == [field : Field \cup {Unnamed}, op : Ops, values : SUBSET Nat, list : BOOLEAN]
FilterExpr == [and : SUBSET Clause, or : SUBSET Clause]
NoFilter == [and |-> {}, or |-> {}]

(* validate_filter *)
ValidFilter(expr) ==
    \A clause \in expr.and \cup expr.or :
        clause.field # Unnamed /\ (clause.op = "in" => clause.list)

Compare(op, x, values) ==
    CASE op \in {"eq", "in"} -> x \in values
      [] op = "ne" -> x \notin values
      [] op = "gt" -> \A v \in values : x > v
      [] op = "ge" -> \A v \in values : x >= v
      [] op = "lt" -> \A v \in values : x < v
      [] op = "le" -> \A v \in values : x <= v
      [] op = "contains" -> \A v \in values : <<x, v>> \in Containing

HasField(clause, c) == Meta[c][clause.field] # Absent

(* sqlite: a comparison with NULL, <> included, selects no row. *)
ClauseSql(clause, c) ==
    HasField(clause, c) /\ Compare(clause.op, Meta[c][clause.field], clause.values)

Predicate(expr, c) ==
    /\ \A clause \in expr.and : ClauseSql(clause, c)
    /\ expr.or # {} => \E clause \in expr.or : ClauseSql(clause, c)

(* Elasticsearch: ne is a must_not, which a document without the field passes. *)
ClauseFilter(clause, c) ==
    IF clause.op = "ne"
    THEN ~(HasField(clause, c) /\ Meta[c][clause.field] \in clause.values)
    ELSE HasField(clause, c) /\ Compare(clause.op, Meta[c][clause.field], clause.values)

BuildEsFilter(expr, c) ==
    /\ \A clause \in expr.and : ClauseFilter(clause, c)
    /\ expr.or # {} => \E clause \in expr.or : ClauseFilter(clause, c)

(* Qdrant: the condition of ne is that of eq, for its caller to negate; the *)
(* values of in are made texts, which no number matches.                    *)
ClauseCondition(clause, c) ==
    /\ HasField(clause, c)
    /\ IF clause.op = "ne" THEN Meta[c][clause.field] \in clause.values
       ELSE Compare(clause.op, Meta[c][clause.field], clause.values)
    /\ clause.op = "in" => clause.field \notin NumberField

(* In the and group a ne goes to must_not; the or group takes the          *)
(* condition as it is, so that ne there selects the rows that are equal.   *)
BuildQdrantFilter(expr, c) ==
    /\ \A clause \in expr.and : ClauseCondition(clause, c) <=> clause.op # "ne"
    /\ expr.or # {} => \E clause \in expr.or : ClauseCondition(clause, c)

Passing(store, expr) ==
    {c \in Chunk : CASE store = "sqlite" -> Predicate(expr, c)
                     [] store = "es" -> BuildEsFilter(expr, c)
                     [] store = "qdrant" -> BuildQdrantFilter(expr, c)}

(* _exclude_cache *)
ExcludeCache(expr) ==
    [expr EXCEPT !.and =
        @ \cup {[field |-> "doc_id", op |-> "ne", values |-> {CacheDoc}, list |-> FALSE]}]

CacheChunk == {c \in Chunk : Meta[c]["doc_id"] = CacheDoc}
================================================================================
