------------------------------- MODULE Answering -------------------------------
(***************************************************************************)
(* One SPARQL query answered: parsed, translated to AQL (api.translate),   *)
(* executed by ArangoDB on whatever the database then holds.               *)
(* The translation knows the ontology and the caller's tenant and nothing  *)
(* of the data; what the caller may see is the triples of the data that    *)
(* are not another tenant's.                                               *)
(***************************************************************************)
EXTENDS Translate

CONSTANTS Queries, Databases   \* the queries asked and the contents they are asked of

VARIABLES query, db, phase, plan, rows
vars == <<query, db, phase, plan, rows>>

NoPlan == [refused |-> TRUE]

Init == /\ query \in Queries
        /\ db \in Databases
        /\ phase = "parsed"
        /\ plan = NoPlan
        /\ rows = <<>>

(* A query is refused before anything is sent to the database.             *)
Translates ==
    /\ phase = "parsed"
    /\ \E st \in {Translated(query)} :
          \/ Refused(st) /\ phase' = "refused" /\ plan' = plan
          \/ ~Refused(st) /\ phase' = "translated" /\ plan' = finalize(st.b)
    /\ UNCHANGED <<query, db, rows>>

Executes == /\ phase = "translated"
            /\ phase' = "answered"
            /\ rows' = Execute(plan, NoSolution, db)
            /\ UNCHANGED <<query, db, plan>>

Next == Translates \/ Executes

Spec == Init /\ [][Next]_vars

(***************************************************************************)
(* The triples a database stands for.                                      *)
(***************************************************************************)
IsInstance(d, doc, c) ==
    IF IsUnion(c) THEN \E m \in ToSet(Classes[c].members) :
                          /\ d.coll[doc] = Classes[m].coll
                          /\ Classes[m].label # "" => FieldOf(d.attr[doc], LabelField) = Classes[m].label
    ELSE /\ d.coll[doc] = Classes[c].coll
         /\ Classes[c].label # "" => FieldOf(d.attr[doc], LabelField) = Classes[c].label

TriplesOf(d, docs) ==
    LET types == {<<x, TypeIri, c>> : x \in docs, c \in DOMAIN Classes}
        data == {<<x, p>> \in docs \X (DOMAIN Props) : ~Props[p].obj /\ Props[p].attr \in DOMAIN d.attr[x]}
        edges == {<<e, p>> \in (DOMAIN d.edge) \X (DOMAIN Props) :
                    /\ Props[p].obj /\ d.edge[e].coll = Props[p].ecoll
                    /\ Props[p].etype # "" => FieldOf(d.attr[e], "type") = Props[p].etype
                    /\ {d.edge[e].from, d.edge[e].to} \subseteq d.docs}
    IN {t \in types : IsInstance(d, t[1], t[3])}
       \cup {<<x[1], x[2], d.attr[x[1]][Props[x[2]].attr]>> : x \in data}
       \cup {<<d.edge[x[1]].from, x[2], d.edge[x[1]].to>> : x \in {y \in edges : d.edge[y[1]].from \in docs}}
       \cup {<<d.edge[x[1]].to, x[2], d.edge[x[1]].from>> :
                x \in {y \in edges : Props[y[2]].sym /\ d.edge[y[1]].to \in docs}}

GraphOf(d, doc) == FieldOf(d.attr[doc], GraphField)
DefaultGraph(d) == TriplesOf(d, {x \in d.docs : IncludeNamed \/ GraphOf(d, x) = NullValue})
NamedGraphs(d) == [g \in {GraphOf(d, x) : x \in d.docs} \ {NullValue} |->
                      TriplesOf(d, {x \in d.docs : GraphOf(d, x) = g})]

(* What the caller's tenant may see of a database.                         *)
Foreign(d, x) == /\ \E c \in tenant_scoped_classes : IsInstance(d, x, c)
                 /\ FieldOf(d.attr[x], TenantField) # TenantId
Visible(d) == LET docs == {x \in d.docs : ~Foreign(d, x)}
                  edges == {e \in DOMAIN d.edge : {d.edge[e].from, d.edge[e].to} \subseteq docs}
              IN [d EXCEPT !.docs = docs, !.edge = [e \in edges |-> d.edge[e]]]

(* CONSTRUCT: the triples of the template, instantiated by every solution   *)
(* that binds all their variables.  DESCRIBE: the attributes of the         *)
(* documents the solutions name.                                            *)
SolutionsOf(q, d) == ToSet(Solutions(Under(q.p, {"project", "distinct"}), DefaultGraph(d), NamedGraphs(d), NoSolution))
Constructed(q, d) ==
    LET template == IF q.template = <<>> THEN Under(q.p, {"project"}).triples ELSE q.template
        complete(t, mu) == \A x \in TermsOf(t) : IsVar(x) => x.n \in DOMAIN mu
    IN UNION {{<<TermValue(t.s, mu), TermValue(t.p, mu), TermValue(t.o, mu)>> :
                  t \in {x \in ToSet(template) : complete(x, mu)}} : mu \in SolutionsOf(q, d)}
Described(q, d) ==
    LET sols == IF q.p.k = "none" THEN {NoSolution} ELSE SolutionsOf(q, d)
        named == {TermValue(x, mu) : x \in {y \in ToSet(q.describe) : IsVar(y)}, mu \in sols}
        constant == {x.n : x \in {y \in ToSet(q.describe) : ~IsVar(y) /\ sols # {}}}
        docs == {x \in d.docs : x \in named \/ (x \in constant /\ GraphOf(d, x) = NullValue)}
    IN UNION {{<<x, f, d.attr[x][f]>> : f \in DOMAIN d.attr[x]} : x \in docs}
Complete(r) == \A f \in DOMAIN r : r[f] # NullValue
Triples == {<<r["subject"], r["predicate"], r["object"]>> : r \in {x \in ToSet(rows) : Complete(x)}}

(* The pattern under a slice, and the slice.                               *)
Sliced(q) == q.p.k = "slice"
Pattern(q) == IF Sliced(q) THEN q.p.p ELSE q.p
Expected(q, d) == MapSeq(Solutions(Pattern(q), DefaultGraph(d), NamedGraphs(d), NoSolution),
                         LAMBDA mu : Row(ToSet(q.vars), mu))
Returned(q) == MapSeq(rows, LAMBDA r : [v \in ToSet(q.vars) |-> FieldOf(r, v)])

(***************************************************************************)
(* The queries whose answer is claimed exact.  AQL joins on null as on any *)
(* other value where SPARQL joins on no value, so operands may share only  *)
(* variables bound in every solution of both, comparisons may read only    *)
(* such variables, and a zero-length path has to start somewhere.          *)
(***************************************************************************)
RECURSIVE Certain(_)   \* the variables bound in every solution
Certain(p) ==
    CASE p.k = "bgp" -> bound_variables(p)
      [] p.k = "join" -> Certain(p.l) \cup Certain(p.r)
      [] p.k \in {"opt", "minus"} -> Certain(p.l)
      [] p.k = "union" -> Certain(p.l) \cap Certain(p.r)
      [] p.k = "values" -> {v \in bound_variables(p) : \A i \in DOMAIN p.rows : v \in DOMAIN p.rows[i]}
      [] p.k = "extend" -> Certain(p.p) \cup (IF ReadNames(p.e) \subseteq Certain(p.p) THEN {p.v} ELSE {})
      [] p.k = "graph" -> Certain(p.p) \cup bound_variables([k |-> "graph", g |-> p.g, p |-> [k |-> "none"]])
      [] p.k = "project" -> Certain(p.p) \cap ToSet(p.vars)
      [] p.k = "group" -> (Certain(p.p) \cap ToSet(p.keys))
                          \cup {p.aggs[i].res : i \in {j \in DOMAIN p.aggs : p.aggs[j].f = "count"}}
      [] OTHER -> Certain(p.p)

RECURSIVE Compared(_)   \* the variables whose value an expression compares
Compared(e) == CASE e.op \in {"eq", "ne"} -> ReadNames(e)
                 [] e.op \in {"and", "or", "coalesce"} -> Compared(e.l) \cup Compared(e.r)
                 [] e.op = "not" -> Compared(e.l)
                 [] OTHER -> {}

RECURSIVE Below(_)     \* a pattern and the patterns it is made of
Below(p) == {p} \cup UNION {Below(p[f]) : f \in {"l", "r", "p"} \cap DOMAIN p}
Assigned(p) == {x.v : x \in {y \in Below(p) : y.k = "extend"}}

Probing(p) == p.k \in {"sub", "minus"} \/ (p.k = "filter" /\ p.e.op \in {"exists", "notexists"})
Shared(l, r) == bound_variables(l) \cap bound_variables(r)
Sound(l, r) == Shared(l, r) \subseteq (Certain(l) \cap Certain(r)) \ Assigned(r)

RECURSIVE Covered(_, _)   \* bound: what is bound before the pattern
CoveredE(e, p, bound) ==
    /\ Compared(e) \cap bound_variables(p) \subseteq Certain(p)
    /\ e.op \in {"exists", "notexists"} =>
          /\ Covered(e.graph, bound \cup Certain(p)) /\ Sound(p, e.graph)
          /\ ~\E x \in Below(e.graph) : x.k \in {"group", "minus"}
Covered(p, bound) ==
    CASE p.k = "bgp" ->
            \A i \in DOMAIN p.triples :
                LET t == p.triples[i]
                IN /\ t.p.k # "neg"
                   /\ t.p.k = "mul" /\ t.p.m # "+" =>
                         \/ ~IsVar(t.s) \/ t.s.n \in bound
                         \/ \E j \in DOMAIN p.triples \ {i} : t.s \in {p.triples[j].s, p.triples[j].o}
      [] p.k = "join" -> /\ Covered(p.l, bound) /\ Covered(p.r, bound \cup Certain(p.l))
                         /\ p.r.k \in {"sub", "values"} \/ Sound(p.l, p.r)
      [] p.k = "opt" -> /\ Covered(p.l, bound) /\ Covered(p.r, bound \cup Certain(p.l)) /\ Sound(p.l, p.r)
                        /\ CoveredE(p.e, [k |-> "join", l |-> p.l, r |-> p.r], bound)
      [] p.k = "union" -> Covered(p.l, bound) /\ Covered(p.r, bound)
      [] p.k = "minus" -> /\ Covered(p.l, bound) /\ Covered(p.r, Shared(p.l, p.r)) /\ Sound(p.l, p.r)
                          /\ _collect_referenced_variables(p.r) \cap bound_variables(p.l) = Shared(p.l, p.r)
      [] p.k \in {"filter", "extend"} -> Covered(p.p, bound) /\ CoveredE(p.e, p.p, bound)
      [] p.k = "values" -> TRUE
      [] p.k = "sub" -> Covered(p.p, {})
      [] p.k = "graph" -> /\ Covered(p.p, bound)
                          /\ IsVar(p.g) => p.g.n \in bound /\ ~\E x \in Below(p.p) : x.k = "opt"
                          /\ ~\E x \in Below(p.p) : Probing(x)
      [] p.k = "none" -> TRUE
      [] OTHER -> Covered(p.p, bound)
CoveredQuery(q) == Covered(q.p, {}) /\ ~\E i \in DOMAIN q.template : \E x \in TermsOf(q.template[i]) : x.k = "bn"

(***************************************************************************)
(* Properties.                                                             *)
(***************************************************************************)
(* The variables an AQL expression reads, and the plans and expressions of *)
(* a clause.                                                               *)
RECURSIVE Aliases(_)
Aliases(e) ==
    LET parts == IF e.op = "const" THEN {} ELSE {"c", "l", "r"} \cap DOMAIN e
        tested == IF e.op = "IN_ROWS" THEN Range(e.tested) ELSE {}
    IN (IF "of" \in DOMAIN e THEN {e.of} ELSE {}) \cup UNION {Aliases(x) : x \in {e[f] : f \in parts} \cup tested}
ClauseReads(c) ==
    CASE c.c \in {"filter", "let"} -> Aliases(c.e)
      [] c.c = "walk" -> Aliases(c.start)
      [] c.c = "pad" -> {c.let}
      [] c.c = "attrs" -> {c.of}
      [] c.c = "one" -> {c.of} \ {""}
      [] c.c = "collect" -> UNION {Aliases(x.e) : x \in ToSet(c.keys) \cup ToSet(c.aggs)}
      [] OTHER -> {}
ClauseBinds(c) ==
    CASE c.c = "filter" -> <<>>
      [] c.c = "walk" -> <<c.edge, c.a>>
      [] c.c = "collect" -> MapSeq(c.keys \o c.aggs, LAMBDA x : x.a)
      [] OTHER -> <<c.a>>
ClausePlans(c) == CASE c.c \in {"sub", "letrows", "letlen"} -> {c.plan}
                    [] c.c = "union" -> ToSet(c.arms)
                    [] OTHER -> {}

(* AQL takes a plan: a variable is read after it was bound, in its scope   *)
(* or one around it, and none is bound again where it can be read.         *)
RECURSIVE Compiles(_, _)
Compiles(p, around) ==
    LET step(s, c) ==
            LET new == ClauseBinds(c)
            IN [ok |-> /\ s.ok /\ ClauseReads(c) \subseteq s.bound
                       /\ IsInjective(new) /\ (ToSet(new) \cap (IF c.c = "collect" THEN around ELSE s.bound)) = {}
                       /\ \A sub \in ClausePlans(c) : Compiles(sub, s.bound),
                bound |-> ToSet(new) \cup (IF c.c = "collect" THEN around ELSE s.bound)]
        body == FoldLeft(step, [ok |-> TRUE, bound |-> around], p.body)
    IN /\ body.ok
       /\ \A i \in DOMAIN p.ret : \A f \in DOMAIN p.ret[i] : Aliases(p.ret[i][f]) \subseteq body.bound
       /\ \A i \in DOMAIN p.parts : Compiles(p.parts[i], body.bound)

(* A translation the translator hands over is one the database takes:      *)
(* names minted by the visitors of sub-selects, probes, UNION arms and     *)
(* OPTIONAL bodies neither collide nor leave their scope.                  *)
PlanCompiles == phase = "translated" => Compiles(plan, {})

(* The rows are the solutions SPARQL defines, each as often as SPARQL      *)
(* defines it; a slice is part of them; ASK is whether there are any; a    *)
(* graph has the triples SPARQL defines.                                   *)
Agree == LET all == Expected(query, Visible(db))
         IN IF query.form = "construct" THEN Triples = Constructed(query, Visible(db))
            ELSE IF query.form = "describe" THEN Triples = Described(query, Visible(db))
            ELSE IF query.form = "ask" THEN (rows = <<>>) = (all = <<>>)
            ELSE IF Sliced(query) THEN SlicedFrom(Returned(query), all, query.p.start, query.p.length[1])
            ELSE SameBag(Returned(query), all)

(* A query that is not refused returns SPARQL's answer.                    *)
RowsAgree == phase = "answered" /\ CoveredQuery(query) => Agree

(* Nothing another tenant stored changes an answer.                        *)
OtherTenantsUnseen ==
    phase = "answered" => SameBag(rows, Execute(plan, NoSolution, Visible(db)))

(* What is read under GRAPH <g> is read in <g>, in the probes of EXISTS    *)
(* and MINUS too: "UNION arms, OPTIONAL bodies and probes opened inside a  *)
(* scope see only its documents" (PRD.md:1357).                            *)
GraphScopeKept == phase = "answered" => Agree

(* MINUS removes every solution compatible with one of its pattern's:      *)
(* "collect every SPARQL variable referenced anywhere inside p2" finds     *)
(* what the two share (minus_exists.py:74), VALUES included.               *)
MinusRemoves == phase = "answered" => Agree
=============================================================================
