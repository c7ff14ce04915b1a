------------------------------ MODULE MCAnswering ------------------------------
(***************************************************************************)
(* An ontology of every storage shape the translator distinguishes, two    *)
(* databases and the queries asked of them: patterns two and three levels  *)
(* deep over every operator, with the forms of query around them.          *)
(***************************************************************************)
EXTENDS Answering

(* A: a collection of its own, scoped to a tenant; B, C: one collection,   *)
(* told apart by a label; D: another; S: a class stored as B or D.         *)

MCClasses ==
    "A" :> [coll |-> "ca", label |-> "", tenant |-> TRUE, members |-> <<>>] @@
    "B" :> [coll |-> "cbc", label |-> "B", tenant |-> FALSE, members |-> <<>>] @@
    "C" :> [coll |-> "cbc", label |-> "C", tenant |-> FALSE, members |-> <<>>] @@
    "D" :> [coll |-> "cd", label |-> "", tenant |-> FALSE, members |-> <<>>] @@
    "S" :> [coll |-> "cbc", label |-> "", tenant |-> FALSE, members |-> <<"B", "D">>]

Data(f, dom) == [obj |-> FALSE, attr |-> f, ecoll |-> "", etype |-> "", sym |-> FALSE, domain |-> dom, range |-> <<>>]
Edge(coll, type, sym, dom, ran) ==
    [obj |-> TRUE, attr |-> "", ecoll |-> coll, etype |-> type, sym |-> sym, domain |-> dom, range |-> ran]

MCProps ==
    "p" :> Data("p", <<"A">>) @@ "q" :> Data("q", <<"B">>) @@ "n" :> Data("n", <<"B", "D">>) @@
    "k" :> Edge("ek", "", FALSE, <<"A">>, <<"B">>) @@
    "r" :> Edge("eg", "r", FALSE, <<"B">>, <<"D">>) @@
    "s" :> Edge("eg", "s", TRUE, <<"B">>, <<"B">>) @@
    "t" :> Edge("et", "", FALSE, <<"B">>, <<"A">>) @@
    "u" :> Edge("eu", "", FALSE, <<>>, <<>>)

(* Every storage of a relationship; two tenants.                            *)
E(c, f, t) == [coll |-> c, from |-> f, to |-> t]
NoAttr == [i \in {} |-> ""]
Docs1 == {"a1", "a2", "b1", "b2", "c1", "d1"}
Coll1 == [i \in Docs1 |-> CASE i \in {"a1", "a2"} -> "ca" [] i = "d1" -> "cd" [] OTHER -> "cbc"]
Label(l) == "label" :> l

DB1 == [docs |-> Docs1, coll |-> Coll1,
        attr |-> "a1" :> ("tenant" :> "t1" @@ "p" :> "1") @@ "a2" :> ("tenant" :> "t2" @@ "p" :> "2") @@
                 "b1" :> (Label("B") @@ "q" :> "1" @@ "n" :> "1") @@ "b2" :> (Label("B") @@ "n" :> "2") @@
                 "c1" :> Label("C") @@ "d1" :> ("n" :> "1") @@
                 "e1" :> NoAttr @@ "e2" :> NoAttr @@ "e3" :> ("type" :> "r") @@ "e4" :> ("type" :> "s") @@
                 "e5" :> NoAttr @@ "e6" :> NoAttr @@ "e7" :> NoAttr @@ "e8" :> NoAttr @@ "e9" :> NoAttr,
        edge |-> "e1" :> E("ek", "a1", "b1") @@ "e2" :> E("ek", "a2", "b2") @@ "e3" :> E("eg", "b1", "d1") @@
                 "e4" :> E("eg", "b1", "b2") @@ "e5" :> E("et", "b1", "a2") @@ "e6" :> E("et", "b2", "a1") @@
                 "e7" :> E("eu", "b1", "a2") @@ "e8" :> E("eu", "a2", "b2") @@ "e9" :> E("eu", "b1", "d1")]


(* Named graphs, parallel edges, an edge from a document to itself.        *)
Docs2 == {"a1", "a2", "b1", "b2", "b3", "d1"}
Graph(n) == "graph" :> n
DB2 == [docs |-> Docs2,
        coll |-> [i \in Docs2 |-> CASE i \in {"a1", "a2"} -> "ca" [] i = "d1" -> "cd" [] OTHER -> "cbc"],
        attr |-> "a1" :> ("tenant" :> "t1" @@ "p" :> "3") @@ "a2" :> ("tenant" :> "t2" @@ "p" :> "2") @@
                 "b1" :> (Label("B") @@ "q" :> "1" @@ "n" :> "1" @@ Graph("g1")) @@
                 "b2" :> (Label("B") @@ "q" :> "1" @@ "n" :> "2" @@ Graph("g1")) @@
                 "b3" :> (Label("B") @@ "q" :> "2" @@ "n" :> "2") @@ "d1" :> NoAttr @@
                 "e1" :> NoAttr @@ "e2" :> NoAttr @@ "e3" :> NoAttr @@ "e4" :> ("type" :> "s") @@
                 "e5" :> ("type" :> "s") @@ "e6" :> ("type" :> "r") @@ "e7" :> NoAttr @@ "e8" :> ("type" :> "s") @@
                 "e9" :> NoAttr @@ "e10" :> NoAttr,
        edge |-> "e1" :> E("ek", "a1", "b3") @@ "e2" :> E("ek", "a2", "b3") @@ "e3" :> E("et", "b3", "a2") @@
                 "e4" :> E("eg", "b1", "b1") @@ "e5" :> E("eg", "b1", "b2") @@ "e6" :> E("eg", "b3", "d1") @@
                 "e7" :> E("et", "b3", "a1") @@ "e8" :> E("eg", "b3", "b3") @@
                 "e9" :> E("eu", "b3", "a2") @@ "e10" :> E("eu", "a2", "b3")]
x == Var("x")
y == Var("y")
z == Var("z")
v == Var("v")
w == Var("w")
g == Var("g")
Tr(s, p, o) == [s |-> s, p |-> Iri(p), o |-> o]
Bgp(ts) == [k |-> "bgp", triples |-> ts]
IsA(s, c) == Tr(s, TypeIri, Iri(c))


Nobody == Bnode("m")
VarE(n) == [op |-> "var", n |-> n]
TermE(n) == [op |-> "term", n |-> n]
BoundE(n) == [op |-> "bound", n |-> n]
Op(o, l, r) == [op |-> o, l |-> l, r |-> r]
B2(k, l, r) == [k |-> k, l |-> l, r |-> r]
Opt(l, r, e) == [k |-> "opt", l |-> l, r |-> r, e |-> e]
FilterP(p, e) == [k |-> "filter", p |-> p, e |-> e]
Exists(op, p) == [op |-> op, graph |-> p]
Extend(p, n, e) == [k |-> "extend", p |-> p, v |-> n, e |-> e]
Values(rs) == [k |-> "values", rows |-> rs]
Sub(p, vs) == [k |-> "sub", p |-> [k |-> "project", p |-> p, vars |-> vs]]
Group(p, keys, f, n, d) == [k |-> "group", p |-> p, keys |-> keys, aggs |-> <<[f |-> f, v |-> n, distinct |-> d, res |-> "agg"]>>]
Star(p, m) == [k |-> "mul", l |-> p, m |-> m]
Alt(l, r) == [k |-> "alt", l |-> l, r |-> r]
Inv(l) == [k |-> "inv", l |-> l]

Left == { Bgp(<<IsA(x, "B")>>),
          Bgp(<<IsA(x, "B"), Tr(x, "q", v)>>),
          Bgp(<<Tr(x, "s", y)>>),
          Bgp(<<Tr(y, "k", x)>>),
          Bgp(<<IsA(x, "S"), Tr(x, "n", v)>>) }
Inner == { Bgp(<<Tr(x, "q", w)>>),
           Bgp(<<Tr(x, "s", z)>>),
           Bgp(<<Tr(z, "k", x), Tr(z, "p", w)>>),
           Bgp(<<IsA(z, "B"), Tr(z, "q", w)>>),
           Bgp(<<Tr(x, "n", v)>>),
           Bgp(<<Tr(z, "u", x)>>),
           Opt(Bgp(<<Tr(x, "s", z)>>), Bgp(<<Tr(z, "q", w)>>), TrueFilter) }
Right == Inner \cup
         { Bgp(<<Tr(x, "u", z)>>),
           Bgp(<<Triple(x, Star(Iri("u"), "+"), z)>>),
           Bgp(<<Tr(x, "t", z), IsA(z, "A")>>),
           Bgp(<<Tr(x, "q", w), Tr(x, "n", v)>>),
           Bgp(<<Triple(x, PathSeq(Iri("s"), Iri("n")), w)>>),
           Bgp(<<Triple(x, Star(Iri("s"), "*"), z)>>),
           Bgp(<<Triple(z, Star(Iri("s"), "+"), x)>>),
           Bgp(<<Triple(x, Alt(Iri("r"), Inv(Iri("k"))), z)>>),
           Bgp(<<Tr(x, "s", Nobody), Tr(Nobody, "n", w)>>),
           Bgp(<<Tr(Iri("b1"), "n", v), Tr(Iri("b1"), "s", x)>>),
           Values(<<"x" :> "b1" @@ "w" :> "1", "x" :> "b2">>),
           Values(<<"x" :> "b1", "x" :> "d1">>),
           Sub(Bgp(<<IsA(x, "B"), Tr(x, "n", w)>>), <<"x", "w">>),
           Sub(Group(Bgp(<<Tr(x, "s", z)>>), <<"x">>, "count", "z", FALSE), <<"x", "agg">>),
           B2("union", Bgp(<<Tr(x, "q", w)>>), Bgp(<<Tr(x, "n", v)>>)),
           Opt(Bgp(<<IsA(x, "B")>>), Bgp(<<Tr(x, "s", z), Tr(z, "q", w)>>), Op("eq", VarE("w"), TermE("1"))),
           Extend(Bgp(<<IsA(x, "B"), Tr(x, "n", z)>>), "w", VarE("z")) }
Pair(l, r) == {B2("join", l, r), B2("union", l, r), B2("minus", l, r), Opt(l, r, TrueFilter)}
              \cup {FilterP(l, Exists(o, r)) : o \in {"exists", "notexists"}}
Pairs == UNION {Pair(l, r) : l \in Left, r \in Right}

(* Three levels: an operator under an operator.                            *)
Outer == {Bgp(<<IsA(x, "B")>>), Bgp(<<Tr(x, "s", y)>>)}
Nested == UNION {Pair(l, r) : l \in Outer, r \in UNION {Pair(Bgp(<<IsA(x, "B"), Tr(x, "n", v)>>), j) : j \in Inner}}
          \cup UNION {Pair(p, r) : p \in UNION {Pair(i, j) : i \in Outer, j \in Inner}, r \in Inner}

Tests == {BoundE("w"), Op("or", BoundE("v"), Op("eq", VarE("w"), TermE("1"))),
          Op("not", Op("eq", VarE("x"), TermE("b1")), TrueFilter),
          Op("ne", Op("coalesce", VarE("w"), TermE("2")), TermE("1"))}
Tested == {FilterP(p, e) : p \in UNION {Pair(l, r) : l \in Outer, r \in Inner}, e \in Tests}

Bs == Bgp(<<IsA(x, "B"), Tr(x, "q", v)>>)
InGraph(t, p) == [k |-> "graph", g |-> t, p |-> p]
GraphBodies == { Bs, Bgp(<<Tr(x, "n", w)>>), Bgp(<<IsA(x, "B"), Tr(x, "s", z), Tr(z, "n", w)>>),
                 Opt(Bgp(<<IsA(x, "B")>>), Bgp(<<Tr(x, "q", v)>>), TrueFilter),
                 Opt(Bgp(<<IsA(x, "B")>>), Bgp(<<IsA(z, "B"), Tr(z, "q", v)>>), TrueFilter),
                 B2("union", Bs, Bgp(<<Tr(x, "n", w)>>)),
                 Bgp(<<Triple(x, Star(Iri("s"), "+"), z)>>) }
Named == Values(<<"g" :> "g1">>)
InGraphs == UNION {{InGraph(Iri("g1"), b), B2("join", Bgp(<<IsA(x, "B")>>), InGraph(Iri("g1"), b)),
                    B2("join", Named, InGraph(g, b)), B2("join", InGraph(Iri("g1"), b), Bgp(<<Tr(x, "n", w)>>)),
                    Opt(Bgp(<<IsA(y, "A")>>), InGraph(Iri("g1"), b), TrueFilter)} : b \in GraphBodies}

Sources == { Bs, Bgp(<<IsA(x, "C"), Tr(x, "n", v)>>), Bgp(<<Tr(x, "s", y)>>), Bgp(<<IsA(x, "S"), Tr(x, "n", v)>>),
             Bgp(<<IsA(y, "A"), Tr(y, "k", x), Tr(x, "n", v)>>),
             Opt(Bgp(<<IsA(x, "B")>>), Bgp(<<Tr(x, "q", v)>>), TrueFilter),
             B2("union", Bs, Bgp(<<Tr(x, "s", y)>>)) }
Groups == {Group(p, ks, f, n, d) : p \in Sources, ks \in {<<>>, <<"x">>, <<"v">>},
                                   f \in {"count", "sum", "min"}, n \in {"x", "v", "*"}, d \in BOOLEAN}
Grouped == {p \in Groups : p.aggs[1].f = "count" \/ (p.aggs[1].v = "v" /\ ~p.aggs[1].distinct)}
Having == {FilterP(p, Op("eq", VarE("agg"), TermE("1"))) : p \in Grouped}

(* The forms of query.                                                     *)
Project(p, vs) == [k |-> "project", p |-> p, vars |-> vs]
Query(p, vs) == [form |-> "select", star |-> FALSE, vars |-> vs, template |-> <<>>, describe |-> <<>>,
                 p |-> Project(p, vs)]
SelectAll(p) == Query(p, Listed(bound_variables(p)))
Ask(p) == [form |-> "ask", star |-> FALSE, vars |-> <<>>, template |-> <<>>, describe |-> <<>>, p |-> p]
Construct(t, p) == [SelectAll(p) EXCEPT !.form = "construct", !.template = t]
Describe(ts, p) == [Ask(p) EXCEPT !.form = "describe", !.describe = ts, !.p = Project(p, <<>>)]
Forms(p, vs) == LET q == Query(p, vs)
                    all == Listed(bound_variables(p))
                IN { Ask(p), [q EXCEPT !.star = TRUE, !.vars = all, !.p.vars = all],
                     [q EXCEPT !.p = [k |-> "distinct", p |-> q.p]],
                     [q EXCEPT !.p = [k |-> "slice", start |-> 1, length |-> <<1>>, p |-> @]],
                     [q EXCEPT !.p = [k |-> "slice", start |-> 1, length |-> <<>>, p |-> @]],
                     Query([k |-> "order", e |-> VarE("x"), p |-> p], vs) }
GroupVars(p) == <<"agg">> \o (IF p.k = "filter" THEN p.p.keys ELSE p.keys)

(* Variable predicates and negated paths, in patterns and in templates.    *)
AnyP(s, o) == [s |-> s, p |-> Var("pr"), o |-> o]
Wild == { Bgp(<<IsA(x, "B"), AnyP(x, w)>>), Bgp(<<Tr(x, "s", y), AnyP(y, w)>>), Bgp(<<AnyP(Iri("b1"), w)>>),
          Bgp(<<IsA(x, "B"), AnyP(x, Lit("1"))>>), Bgp(<<IsA(x, "B"), Tr(x, "q", v), AnyP(x, v)>>),
          Bgp(<<AnyP(x, Iri("d1")), Tr(x, "q", v)>>), Bgp(<<Tr(z, "u", x), AnyP(x, w), AnyP(w, v)>>),
          Bgp(<<IsA(x, "B"), Triple(x, [k |-> "neg", iris |-> {"q"}], w)>>),
          Bgp(<<IsA(y, "A"), Triple(y, [k |-> "neg", iris |-> {"k"}], Lit("1"))>>) }
WildPairs == Wild \cup UNION {Pair(l, r) : l \in Outer, r \in Wild} \cup {InGraph(Iri("g1"), p) : p \in Wild}
Graphed == Wild \cup UNION {Pair(l, r) : l \in Outer, r \in Inner} \cup InGraphs
Templates == {<<Tr(x, "q", w)>>, <<Triple(y, Var("pr"), x), Tr(x, "made", Lit("1"))>>, <<Tr(x, "s", Nobody)>>}
GraphQuery(p) == {Construct(t, p) : t \in Templates} \cup {Describe(<<x>>, p), Describe(<<Iri("b1"), y>>, p), Describe(<<Iri("a2")>>, p)}
Graphs == UNION {GraphQuery(p) : p \in Graphed} \cup {Construct(<<>>, p) : p \in {q \in Left \cup Wild : q.k = "bgp"}}
          \cup {[Ask([k |-> "none"]) EXCEPT !.form = "describe", !.describe = ts] :
                    ts \in {<<Iri("b1")>>, <<Iri("a1"), Iri("a2")>>, <<Iri("b3"), Iri("d1")>>}}
          \cup {[q EXCEPT !.p = [k |-> "slice", start |-> 0, length |-> <<1>>, p |-> @]] :
                    q \in {Construct(t, Bs) : t \in Templates} \cup {Describe(<<x>>, Bs)}}

MCQueries == {SelectAll(p) : p \in WildPairs} \cup Graphs \cup {SelectAll(p) : p \in Pairs \cup Nested \cup Tested \cup InGraphs} \cup {Query(p, GroupVars(p)) : p \in Grouped \cup Having}
             \cup UNION {Forms(p, <<"x">>) : p \in UNION {Pair(l, r) : l \in Outer, r \in Inner}}
             \cup {SelectAll(InGraph(g, b)) : b \in GraphBodies}
MCDatabases == {DB1, DB2}

(* Patterns under a GRAPH that are translated by a visitor of their own.   *)
Probes == { B2("minus", Bs, Bgp(<<IsA(z, "B"), Tr(z, "n", v)>>)),
            FilterP(Bs, Exists("exists", Bgp(<<IsA(z, "B"), Tr(z, "q", v)>>))),
            FilterP(Bs, Exists("notexists", Bgp(<<Tr(x, "s", z)>>))) }
GraphQueries == {SelectAll(InGraph(Iri("g1"), b)) : b \in Probes \cup GraphBodies}
MinusQueries == {SelectAll(B2("minus", l, r)) : l \in Left, r \in {p \in Right : p.k # "values"}}
                \cup {SelectAll(B2("minus", l, p)) : l \in Left, p \in {Values(<<"x" :> "b1", "x" :> "d1">>)}}
=============================================================================
