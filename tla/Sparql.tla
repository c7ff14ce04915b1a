------------------------------- MODULE Sparql -------------------------------
(***************************************************************************)
(* What a SPARQL query means over the triples of a database: the multiset  *)
(* of solutions of SPARQL 1.1, section 18, for the part of the algebra     *)
(* that rdflib hands to the translator.  This module says nothing about    *)
(* the translator; Translate.tla is compared with it.                      *)
(*                                                                         *)
(* A term is [k |-> "var" | "bn" | "iri" | "lit", n |-> name]; values are  *)
(* strings; a solution is a function from variable names to values; a      *)
(* multiset of solutions is a sequence whose order means nothing.          *)
(***************************************************************************)
EXTENDS Naturals, Sequences, FiniteSets, TLC, SequencesExt

CONSTANT MaxDepth   \* hops of a * or + path (property_path_max_depth)

Var(n) == [k |-> "var", n |-> n]
Iri(n) == [k |-> "iri", n |-> n]
Lit(n) == [k |-> "lit", n |-> n]
Bnode(n) == [k |-> "bn", n |-> n]
IsVar(t) == t.k \in {"var", "bn"}

NullValue == "null"
TypeIri == "type"
NoSolution == [x \in {} |-> NullValue]       \* the empty solution

TrueFilter == [op |-> "term", n |-> "true"]  \* an OPTIONAL without a FILTER

(* A set in some order; one step per element.                              *)
Listed(S) == FoldSet(LAMBDA e, seq : Append(seq, e), <<>>, S)
MapSeq(s, Op(_)) == [i \in 1..Len(s) |-> Op(s[i])]
FlatMap(s, Op(_)) == FlattenSeq(MapSeq(s, Op))
Bind(mu, name, value) == (name :> value) @@ mu

Compatible(m, n) == \A v \in DOMAIN m \cap DOMAIN n : m[v] = n[v]

(***************************************************************************)
(* Property paths, as pairs of nodes.  Alternatives and repetitions are    *)
(* sets, as docs and code of the repository read section 18.4.             *)
(***************************************************************************)
Compose(R, S) == {<<a[1], b[2]>> : <<a, b>> \in {ab \in R \X S : ab[1][2] = ab[2][1]}}

RECURSIVE Hops(_, _)
Hops(R, n) == IF n = 1 THEN R ELSE Compose(Hops(R, n - 1), R)

RECURSIVE PathPairs(_, _)
PathPairs(path, G) ==
    CASE path.k = "iri" -> {<<t[1], t[3]>> : t \in {x \in G : x[2] = path.n}}
      [] path.k = "seq" -> Compose(PathPairs(path.l, G), PathPairs(path.r, G))
      [] path.k = "inv" -> {<<p[2], p[1]>> : p \in PathPairs(path.l, G)}
      [] path.k = "alt" -> PathPairs(path.l, G) \cup PathPairs(path.r, G)
      [] path.k = "mul" ->
            LET R == PathPairs(path.l, G)
                zero == {<<n, n>> : n \in UNION {{t[1], t[3]} : t \in G}}
                top == IF path.m = "?" THEN 1 ELSE MaxDepth
            IN (IF path.m = "+" THEN {} ELSE zero) \cup UNION {Hops(R, n) : n \in 1..top}

(* A sequence path is a join on a hidden variable: it keeps one solution   *)
(* per walk, so it is expanded into triples before matching.               *)
RECURSIVE Expand(_, _)
Expand(t, n) ==
    IF t.p.k = "seq"
    THEN LET mid == Bnode("mid" \o ToString(n))
         IN Expand([s |-> t.s, p |-> t.p.l, o |-> mid], 2 * n)
            \o Expand([s |-> mid, p |-> t.p.r, o |-> t.o], 2 * n + 1)
    ELSE IF t.p.k = "inv" THEN Expand([s |-> t.o, p |-> t.p.l, o |-> t.s], n)
    ELSE <<t>>

TermValue(t, mu) == IF ~IsVar(t) THEN t.n ELSE IF t.n \in DOMAIN mu THEN mu[t.n] ELSE NullValue
Matches(t, value, mu) == ~(IsVar(t) /\ t.n \notin DOMAIN mu) => TermValue(t, mu) = value
BindTerm(t, value, mu) == IF IsVar(t) THEN Bind(mu, t.n, value) ELSE mu

(* A variable predicate ranges over attributes and edges, as the source    *)
(* documents: not over rdf:type.                                           *)
MatchAnyPredicate(mu, t, G) ==
    LET bound(x) == BindTerm(t.o, x[3], BindTerm(t.p, x[2], BindTerm(t.s, x[1], mu)))
        fits == {x \in G : /\ x[2] # TypeIri
                           /\ Matches(t.s, x[1], mu)
                           /\ Matches(t.p, x[2], BindTerm(t.s, x[1], mu))
                           /\ Matches(t.o, x[3], BindTerm(t.p, x[2], BindTerm(t.s, x[1], mu)))}
    IN MapSeq(Listed(fits), bound)

TermsOf(t) == {t.s, t.p, t.o}

MatchTriple(mu, t, G) ==
    LET ends == IF t.p.k = "mul" /\ t.p.m # "+" THEN {<<x.n, x.n>> : x \in {y \in {t.s, t.o} : ~IsVar(y)}} ELSE {}
        fits == {p \in PathPairs(t.p, G) \cup ends : /\ Matches(t.s, p[1], mu)
                                           /\ Matches(t.o, p[2], BindTerm(t.s, p[1], mu))}
    IN MapSeq(Listed(fits), LAMBDA p : BindTerm(t.o, p[2], BindTerm(t.s, p[1], mu)))

(* sub: the constants an enclosing EXISTS substitutes into the pattern.    *)
MatchBgp(triples, G, sub) ==
    LET all == FlatMap([i \in 1..Len(triples) |-> <<triples[i], i>>], LAMBDA ti : Expand(ti[1], ti[2] + 7))
        match(mu, t) == IF t.p.k = "var" THEN MatchAnyPredicate(mu, t, G) ELSE MatchTriple(mu, t, G)
        found == FoldLeft(LAMBDA sols, t : FlatMap(sols, LAMBDA mu : match(mu, t)), <<sub>>, all)
        named == {t.n : t \in {x \in UNION {TermsOf(all[i]) : i \in 1..Len(all)} : x.k = "var"}}
    IN MapSeq(found, LAMBDA mu : [v \in named \ DOMAIN sub |-> mu[v]])

(***************************************************************************)
(* Patterns.  G is the active graph, N the named graphs (name -> triples). *)
(***************************************************************************)
RECURSIVE Solutions(_, _, _, _)
RECURSIVE Value(_, _, _, _)

Truth(b) == IF b THEN "true" ELSE "false"

(* The value of an expression in solution mu, "error" when it has none.    *)
Value(e, mu, G, N) ==
    CASE e.op = "var" -> IF e.n \in DOMAIN mu THEN mu[e.n] ELSE "error"
      [] e.op = "term" -> e.n
      [] e.op = "bound" -> Truth(e.n \in DOMAIN mu)
      [] e.op \in {"exists", "notexists"} ->
            Truth((Solutions(e.graph, G, N, mu) # <<>>) <=> (e.op = "exists"))
      [] e.op = "not" -> LET v == Value(e.l, mu, G, N)
                         IN IF v = "error" THEN v ELSE Truth(v # "true")
      [] OTHER ->
            LET l == Value(e.l, mu, G, N)
                r == Value(e.r, mu, G, N)
            IN CASE e.op \in {"eq", "ne"} ->
                        IF "error" \in {l, r} THEN "error" ELSE Truth((l = r) <=> (e.op = "eq"))
                 [] e.op = "and" ->
                        IF "false" \in {l, r} THEN "false"
                        ELSE IF "error" \in {l, r} THEN "error" ELSE "true"
                 [] e.op = "or" ->
                        IF "true" \in {l, r} THEN "true"
                        ELSE IF "error" \in {l, r} THEN "error" ELSE "false"
                 [] e.op = "coalesce" -> IF l # "error" THEN l ELSE r

JoinSols(L, R) == FlatMap(L, LAMBDA l : MapSeq(SelectSeq(R, LAMBDA r : Compatible(l, r)), LAMBDA r : l @@ r))

Distinct(rows) == Listed(ToSet(rows))

NumberOf(v) == CHOOSE n \in 0..9 : ToString(n) = v

(* One aggregate over the solutions of a group; NullValue is "unbound".    *)
Aggregate(agg, group) ==
    LET all == MapSeq(group, LAMBDA mu : IF agg.v = "*" THEN "1"
                                         ELSE IF agg.v \in DOMAIN mu THEN mu[agg.v] ELSE "error")
        bound == SelectSeq(all, LAMBDA v : v # "error")
        failed == Len(bound) # Len(all)
    IN CASE agg.f = "count" -> ToString(IF agg.distinct THEN Cardinality(ToSet(bound)) ELSE Len(bound))
         [] agg.f = "sum" -> IF failed THEN NullValue
                             ELSE ToString(FoldLeft(LAMBDA n, v : n + NumberOf(v), 0, all))
         [] agg.f = "min" -> IF failed \/ all = <<>> THEN NullValue
                             ELSE ToString(Min({NumberOf(all[i]) : i \in DOMAIN all}))

GroupRows(node, sols) ==
    LET keyOf(mu) == [v \in ToSet(node.keys) \cap DOMAIN mu |-> mu[v]]
        groups == IF node.keys = <<>> THEN {NoSolution} ELSE {keyOf(sols[i]) : i \in DOMAIN sols}
        rowOf(key) == LET group == SelectSeq(sols, LAMBDA mu : keyOf(mu) = key)
                          values == [i \in DOMAIN node.aggs |-> Aggregate(node.aggs[i], group)]
                          bound == {i \in DOMAIN values : values[i] # NullValue}
                      IN key @@ [a \in {node.aggs[i].res : i \in bound} |->
                                    values[CHOOSE i \in bound : node.aggs[i].res = a]]
    IN IF node.keys # <<>> /\ sols = <<>> THEN <<NoSolution>> ELSE MapSeq(Listed(groups), rowOf)

(* The multiset of solutions of a pattern; sub is what an enclosing EXISTS  *)
(* substitutes.  A slice is left to SlicedFrom: it is not deterministic.    *)
Solutions(q, G, N, sub) ==
    LET S(p) == Solutions(p, G, N, sub)
        holds(e, mu) == Value(e, mu @@ sub, G, N) = "true"
    IN CASE q.k = "bgp" -> MatchBgp(q.triples, G, sub)
         [] q.k = "join" -> JoinSols(S(q.l), S(q.r))
         [] q.k = "opt" ->
                LET right == S(q.r)
                IN FlatMap(S(q.l), LAMBDA l :
                      LET both == SelectSeq(JoinSols(<<l>>, right), LAMBDA mu : holds(q.e, mu))
                      IN IF both = <<>> THEN <<l>> ELSE both)
         [] q.k = "union" -> S(q.l) \o S(q.r)
         [] q.k = "minus" ->
                LET right == S(q.r)
                IN SelectSeq(S(q.l), LAMBDA l : ~\E i \in DOMAIN right :
                                /\ DOMAIN l \cap DOMAIN right[i] # {}
                                /\ Compatible(l, right[i]))
         [] q.k = "filter" -> SelectSeq(S(q.p), LAMBDA mu : holds(q.e, mu))
         [] q.k = "extend" ->
                MapSeq(S(q.p), LAMBDA mu : LET v == Value(q.e, mu @@ sub, G, N)
                                           IN IF v = "error" THEN mu ELSE Bind(mu, q.v, v))
         [] q.k = "values" -> SelectSeq(q.rows, LAMBDA mu : Compatible(mu, sub))
         [] q.k = "graph" ->
                IF ~IsVar(q.g) THEN Solutions(q.p, IF q.g.n \in DOMAIN N THEN N[q.g.n] ELSE {}, N, sub)
                ELSE FlatMap(Listed(DOMAIN N), LAMBDA g :
                        JoinSols(<<q.g.n :> g>>, Solutions(q.p, N[g], N, sub)))
         [] q.k = "project" -> MapSeq(S(q.p), LAMBDA mu : [v \in ToSet(q.vars) \cap DOMAIN mu |-> mu[v]])
         [] q.k \in {"sub", "order", "slice"} -> S(q.p)
         [] q.k = "distinct" -> Distinct(S(q.p))
         [] q.k = "group" -> GroupRows(q, S(q.p))

(***************************************************************************)
(* Rows: what the caller receives, every projected variable present and    *)
(* null when unbound.  RowsOf is the complete answer of a query; an answer *)
(* to a sliced one is any part of it of the right length.                  *)
(***************************************************************************)
Row(vars, mu) == [v \in vars |-> IF v \in DOMAIN mu THEN mu[v] ELSE NullValue]

SameBag(a, b) == ToBag(a) = ToBag(b)
PartOf(a, b) == \A x \in ToSet(a) : /\ x \in ToSet(b)
                                    /\ Cardinality({i \in DOMAIN a : a[i] = x})
                                         <= Cardinality({i \in DOMAIN b : b[i] = x})
SlicedFrom(rows, all, start, length) ==
    /\ Len(rows) = (IF Len(all) <= start THEN 0
                    ELSE IF Len(all) - start < length THEN Len(all) - start ELSE length)
    /\ PartOf(rows, all)
=============================================================================
