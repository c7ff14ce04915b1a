--------------------------------- MODULE Aql ---------------------------------
(***************************************************************************)
(* The AQL a translation is made of, and what ArangoDB returns for it.     *)
(*                                                                         *)
(* The first half is AqlQueryBuilder (translate/builder.py): clauses in    *)
(* the order they were added and finalize, which puts SORT, LIMIT and      *)
(* RETURN after them whatever the order of the visits.  The second half is *)
(* the database: what a clause does to the rows in front of it.            *)
(*                                                                         *)
(* Expressions are records [op |-> ...]; every value is a string, "null"   *)
(* is AQL's null; a row is a function from field names to values, and the  *)
(* null row of an OPTIONAL has no field.                                   *)
(***************************************************************************)
EXTENDS Sparql

(***************************************************************************)
(* Expressions the translator writes.                                      *)
(***************************************************************************)
Const(v) == [op |-> "const", c |-> v]
Null == Const(NullValue)
subject_ref(alias) == [op |-> "uri", of |-> alias]
attribute_ref(alias, f) == [op |-> "attr", of |-> alias, f |-> f]
FieldRef(alias, f) == [op |-> "field", of |-> alias, f |-> f]
AliasRef(alias) == [op |-> "alias", of |-> alias]
Op2(o, l, r) == [op |-> o, l |-> l, r |-> r]
Eq(l, r) == Op2("==", l, r)
IsNull(e) == Eq(e, Null)
NotNull(e) == Op2("!=", e, Null)
AndE(l, r) == Op2("&&", l, r)
OrE(l, r) == Op2("||", l, r)
Positive(e) == [op |-> "> 0", l |-> e]
NotE(e) == [op |-> "!", l |-> e]
Choice(c, l, r) == [op |-> "?", c |-> c, l |-> l, r |-> r]
NOT_NULL(l, r) == Op2("NOT_NULL", l, r)
KeyIn(e, keys) == [op |-> "IN", l |-> e, keys |-> keys]
ValueAt(alias, key) == [op |-> "at", of |-> alias, l |-> key]
MappedBy(map, key) == [op |-> "map", map |-> map, l |-> key]
CollIn(alias, colls) == [op |-> "IN_COLL", of |-> alias, colls |-> colls]

AllOf(es) == FoldLeft(AndE, es[1], Tail(es))
AnyOf(es) == FoldLeft(OrE, es[1], Tail(es))

(***************************************************************************)
(* The builder.                                                            *)
(***************************************************************************)
NewBuilder == [body |-> <<>>, sorts |-> <<>>, limit |-> <<>>, ret |-> <<>>, parts |-> <<>>, distinct |-> FALSE,
               ask |-> FALSE, fallback |-> FALSE, scanned |-> {}]

Add(b, clause) == [b EXCEPT !.body = Append(@, clause)]
AddFirst(b, clause) == [b EXCEPT !.body = <<clause>> \o @]

for_(b, alias, coll) == [Add(b, [c |-> "for", a |-> alias, coll |-> coll]) EXCEPT !.scanned = @ \cup {alias}]
for_traversal(b, v, e, start, ecoll, dir) ==
    Add(b, [c |-> "walk", a |-> v, edge |-> e, start |-> start, ecoll |-> ecoll, dir |-> dir])
for_rows(b, alias, rows) == Add(b, [c |-> "rows", a |-> alias, rows |-> rows])
for_subquery(b, alias, plan) == Add(b, [c |-> "sub", a |-> alias, plan |-> plan])
for_padded(b, alias, let) == Add(b, [c |-> "pad", a |-> alias, let |-> let])
for_union(b, alias, arms, distinct, scans) ==
    [Add(b, [c |-> "union", a |-> alias, arms |-> arms, distinct |-> distinct])
        EXCEPT !.scanned = IF scans THEN @ \cup {alias} ELSE @]
for_attributes(b, key, alias) == Add(b, [c |-> "attrs", a |-> key, of |-> alias])
for_alias(b, alias, of) == Add(b, [c |-> "one", a |-> alias, of |-> of])
filter_raw(b, e) == Add(b, [c |-> "filter", e |-> e])
let(b, alias, e) == Add(b, [c |-> "let", a |-> alias, e |-> e])
let_rows(b, alias, plan) == Add(b, [c |-> "letrows", a |-> alias, plan |-> plan])
let_length(b, alias, plan) == Add(b, [c |-> "letlen", a |-> alias, plan |-> plan])
let_first(b, alias, rows) == AddFirst(b, [c |-> "letrowsof", a |-> alias, rows |-> rows])
collect(b, keys, aggs) == Add(b, [c |-> "collect", keys |-> keys, aggs |-> aggs])

IsFor(clause) == clause.c \in {"for", "walk", "rows", "sub", "pad", "union", "attrs", "one"}
has_for_clause(b) == \E i \in DOMAIN b.body : IsFor(b.body[i])
open_one_row_scope_first(b, alias) ==
    IF has_for_clause(b) THEN b ELSE AddFirst(b, [c |-> "one", a |-> alias, of |-> ""])

(* RETURN {k: e, ...}; a scalar RETURN is a row with one field.            *)
return_object(b, mapping, distinct) == [b EXCEPT !.ret = <<mapping>>, !.distinct = distinct]
(* A graph: the triples of a template, or of the subqueries, of every row.  *)
return_triples(b, triples) == [b EXCEPT !.ret = triples]
return_triples_subquery(b, plans) == [b EXCEPT !.parts = plans]
return_scalar(b, field, e) == return_object(b, field :> e, FALSE)

(* The clauses of a finished query, outermost first: the body, SORT, and   *)
(* RETURN; with a grouped empty-input fallback, or a LIMIT on a RETURN     *)
(* DISTINCT, the LIMIT is applied to the rows a subquery returned.         *)
finalize(b) ==
    [body |-> b.body, sorts |-> b.sorts, ret |-> b.ret, parts |-> b.parts, distinct |-> b.distinct, ask |-> b.ask,
     padEmpty |-> b.fallback,
     innerLimit |-> IF b.fallback \/ b.distinct THEN <<>> ELSE b.limit,
     outerLimit |-> IF b.fallback \/ b.distinct THEN b.limit ELSE <<>>]
Finalizes(b) == (b.ret # <<>> \/ b.parts # <<>>) /\ has_for_clause(b)

clear_empty_result_fallback(b) == [b EXCEPT !.fallback = FALSE]
limit(b, start, count) == [b EXCEPT !.limit = <<start, count>>]

(***************************************************************************)
(* The database, and what ArangoDB makes of a finished query.              *)
(* db.docs: the documents; db.coll: document -> collection; db.attr:       *)
(* document or edge -> stored attributes; db.edge: edge -> [coll, from, to].*)
(***************************************************************************)
Truthy(v) == v \notin {NullValue, "false"}
FieldOf(row, f) == IF f \in DOMAIN row THEN row[f] ELSE NullValue

RECURSIVE Eval(_, _, _)
Eval(e, env, db) ==
    LET V(x) == Eval(x, env, db) IN
    CASE e.op = "const" -> e.c
      [] e.op = "uri" -> env[e.of]
      [] e.op = "attr" -> IF env[e.of] = NullValue THEN NullValue ELSE FieldOf(db.attr[env[e.of]], e.f)
      [] e.op = "field" -> FieldOf(env[e.of], e.f)
      [] e.op = "alias" -> env[e.of]
      [] e.op = "==" -> Truth(V(e.l) = V(e.r))
      [] e.op = "!=" -> Truth(V(e.l) # V(e.r))
      [] e.op = "&&" -> IF Truthy(V(e.l)) THEN V(e.r) ELSE V(e.l)
      [] e.op = "||" -> IF Truthy(V(e.l)) THEN V(e.l) ELSE V(e.r)
      [] e.op = "!" -> Truth(~Truthy(V(e.l)))
      [] e.op = "?" -> IF Truthy(V(e.c)) THEN V(e.l) ELSE V(e.r)
      [] e.op = "NOT_NULL" -> IF V(e.l) # NullValue THEN V(e.l) ELSE V(e.r)
      [] e.op = "HAS" -> Truth(env[e.of] # NullValue /\ e.f \in DOMAIN db.attr[env[e.of]])
      [] e.op = "at" -> FieldOf(db.attr[env[e.of]], V(e.l))
      [] e.op = "map" -> FieldOf(e.map, V(e.l))
      [] e.op = "IN" -> Truth(V(e.l) \in e.keys)
      [] e.op = "IN_COLL" -> Truth(env[e.of] # NullValue /\ db.coll[env[e.of]] \in e.colls)
      [] e.op = "> 0" -> Truth(V(e.l) \notin {NullValue, "0"})
      [] e.op = "IN_ROWS" -> Truth([n \in DOMAIN e.tested |-> V(e.tested[n])] \in ToSet(env[e.of]))

(* One step from a vertex along the edges of a collection: pairs of edge   *)
(* and vertex.  A symmetric edge is looked up, once, from either end.      *)
Steps(db, clause, start) ==
    LET touching(end) == {x \in DOMAIN db.edge : db.edge[x].coll = clause.ecoll /\ db.edge[x][end] = start}
    IN CASE clause.dir = "OUTBOUND" -> Listed({<<e, db.edge[e].to>> : e \in touching("from")})
         [] clause.dir = "INBOUND" -> Listed({<<e, db.edge[e].from>> : e \in touching("to")})
         [] clause.dir = "ANY" ->
                Listed({<<e, IF db.edge[e].from = start THEN db.edge[e].to ELSE db.edge[e].from>> :
                            e \in touching("from") \cup touching("to")})

(* The groups of a COLLECT: keys and aggregates are sequences of           *)
(* [a |-> alias, e |-> expression, f |-> function].                        *)
Known(vs) == SelectSeq(vs, LAMBDA v : v # NullValue)
SumOf(vs) == FoldLeft(LAMBDA n, v : n + NumberOf(v), 0, vs)
Aggregated(f, vs) ==
    CASE f = "COUNT" -> ToString(Len(vs))
      [] f = "COUNT_UNIQUE" -> ToString(Cardinality(ToSet(Known(vs))))
      [] f = "SUM" -> IF Known(vs) = <<>> THEN NullValue ELSE ToString(SumOf(Known(vs)))
      [] f = "COUNT_NULL" -> IF vs = <<>> THEN NullValue ELSE ToString(Len(vs) - Len(Known(vs)))
      [] f = "COUNT_KNOWN" -> IF vs = <<>> THEN NullValue ELSE ToString(Len(Known(vs)))
      [] f = "MIN" -> IF Known(vs) = <<>> THEN NullValue ELSE ToString(Min({NumberOf(v) : v \in ToSet(Known(vs))}))

ValuesIn(envs, e, db) == [i \in DOMAIN envs |-> Eval(e, envs[i], db)]
KeyOf(clause, env, db) == [i \in DOMAIN clause.keys |-> Eval(clause.keys[i].e, env, db)]
GroupRow(clause, key, group, db) ==
    [a \in {x.a : x \in ToSet(clause.keys \o clause.aggs)} |->
        IF \E i \in DOMAIN key : clause.keys[i].a = a
        THEN key[CHOOSE i \in DOMAIN key : clause.keys[i].a = a]
        ELSE LET agg == CHOOSE x \in ToSet(clause.aggs) : x.a = a
             IN Aggregated(agg.f, ValuesIn(group, agg.e, db))]
Collected(clause, envs, db) ==
    LET keys == [i \in DOMAIN envs |-> KeyOf(clause, envs[i], db)]
        groups == Listed(IF clause.keys = <<>> THEN {<<>>} ELSE ToSet(keys))
        members(key) == Listed({i \in DOMAIN envs : keys[i] = key})
    IN [n \in DOMAIN groups |->
           GroupRow(clause, groups[n], [i \in DOMAIN members(groups[n]) |-> envs[members(groups[n])[i]]], db)]

RECURSIVE Execute(_, _, _)

(* What a clause with one loop variable, or one LET, gives it for a row.   *)
Rows(plans, env, db) == FlattenSeq([i \in DOMAIN plans |-> Execute(plans[i], env, db)])
ValuesOf(clause, env, db) ==
    CASE clause.c = "for" -> Listed({d \in db.docs : db.coll[d] = clause.coll})
      [] clause.c = "rows" -> clause.rows
      [] clause.c = "letrowsof" -> <<clause.rows>>
      [] clause.c = "sub" -> Rows(<<clause.plan>>, env, db)
      [] clause.c = "letrows" -> <<Rows(<<clause.plan>>, env, db)>>
      [] clause.c = "letlen" -> <<ToString(Len(Rows(<<clause.plan>>, env, db)))>>
      [] clause.c = "union" -> IF clause.distinct THEN Distinct(Rows(clause.arms, env, db))
                               ELSE Rows(clause.arms, env, db)
      [] clause.c = "attrs" -> Listed(DOMAIN db.attr[env[clause.of]])
      [] clause.c = "one" -> IF clause.of = "" THEN <<"1">> ELSE <<env[clause.of]>>
      [] clause.c = "pad" -> IF env[clause.let] # <<>> THEN env[clause.let] ELSE <<NoSolution>>
      [] clause.c = "let" -> <<Eval(clause.e, env, db)>>

(* The rows a clause makes of one row.                                     *)
EachValue(a, values, env) == [i \in DOMAIN values |-> (a :> values[i]) @@ env]
EachStep(clause, steps, env) ==
    [i \in DOMAIN steps |-> (clause.edge :> steps[i][1]) @@ (clause.a :> steps[i][2]) @@ env]
RowsFrom(clause, env, db) ==
    CASE clause.c = "filter" -> IF Truthy(Eval(clause.e, env, db)) THEN <<env>> ELSE <<>>
      [] clause.c = "walk" -> EachStep(clause, Steps(db, clause, Eval(clause.start, env, db)), env)
      [] OTHER -> EachValue(clause.a, ValuesOf(clause, env, db), env)

RECURSIVE RunClauses(_, _, _)
RunClauses(clauses, envs, db) ==
    IF clauses = <<>> THEN envs
    ELSE RunClauses(Tail(clauses),
                    IF Head(clauses).c = "collect" THEN Collected(Head(clauses), envs, db)
                    ELSE FlattenSeq([i \in DOMAIN envs |-> RowsFrom(Head(clauses), envs[i], db)]), db)

Limited(rows, lim) ==
    IF lim = <<>> THEN rows ELSE SubSeq(rows, lim[1] + 1, Min({Len(rows), lim[1] + lim[2]}))

RowObject(ret, env, db) == [f \in DOMAIN ret |-> Eval(ret[f], env, db)]
RowsReturned(plan, env, db) == [n \in DOMAIN plan.ret |-> RowObject(plan.ret[n], env, db)] \o Rows(plan.parts, env, db)
AllReturned(plan, envs, db) == FlattenSeq([i \in DOMAIN envs |-> RowsReturned(plan, envs[i], db)])
Kept(plan, rows) == IF plan.distinct THEN Distinct(rows) ELSE rows
Padded(plan, rows) == IF plan.padEmpty /\ rows = <<>> THEN <<NoSolution>> ELSE rows

(* The document a union of collections returns is the loop variable itself *)
(* ("doc"), not a row object.                                              *)
Unwrapped(plan, rows) ==
    IF plan.ret # <<>> /\ DOMAIN plan.ret[1] = {"doc"} THEN [i \in DOMAIN rows |-> rows[i]["doc"]] ELSE rows
Execute(plan, env, db) ==
    Unwrapped(plan, Limited(Padded(plan, Kept(plan,
        AllReturned(plan, Limited(RunClauses(plan.body, <<env>>, db), plan.innerLimit), db))), plan.outerLimit))
=============================================================================
