------------------------------ MODULE Translate ------------------------------
(***************************************************************************)
(* The SPARQL to AQL translator: AlgebraVisitor (translate/visitor.py) and *)
(* the modules it delegates to (union_paths, optional_subquery,            *)
(* minus_exists, subselect, paths).  Every visit_X of the source is an     *)
(* operator from a visitor state to a visitor state; the state is the      *)
(* source's _BindingState with the builder, restricted to the tables the   *)
(* modelled constructs use.                                                *)
(*                                                                         *)
(* Abstracted: attributes hold one value (fan_out_list_values off), no     *)
(* shard family, no triples table (RPT), no reified relationship, no       *)
(* registered predicate, an IRI stored as one document.                    *)
(***************************************************************************)
EXTENDS Aql

CONSTANTS
    Classes,        \* class IRI -> [coll, label, tenant, members]
    Props,          \* property IRI -> [obj, attr, ecoll, etype, sym, domain, range]
    TenantId,       \* the caller's tenant, "" for none
    DefaultCollection,
    StrictSubjects, \* strict_subject_resolution
    IncludeNamed,   \* default_graph_includes_named
    BnodeLabels     \* labels of the blank nodes of the queries

ASSUME DomainsAreDeclared == \A p \in DOMAIN Props : ToSet(Props[p].domain) \subseteq DOMAIN Classes

GraphField == "graph"
TenantField == "tenant"
LabelField == "label"

EmptyMap == [x \in {} |-> ""]
Internal == {"_path_" \o ToString(i) : i \in 1..9}
            \cup {"_bn_" \o ToString(i) \o "_" \o l : i \in 1..9, l \in BnodeLabels}

NewState == [b |-> NewBuilder, n |-> 0, err |-> FALSE, expr |-> EmptyMap, doc |-> EmptyMap,
             const |-> EmptyMap, cls |-> EmptyMap, colls |-> EmptyMap, unb |-> {}, hidden |-> EmptyMap,
             subst |-> {}, probing |-> FALSE, sink |-> <<>>, scope |-> <<>>, homes |-> EmptyMap,
             paths |-> 0, bgps |-> 0, vars |-> <<>>, star |-> FALSE, distinct |-> FALSE]

Refuse(st) == [st EXCEPT !.err = TRUE]
Filter(st, e) == [st EXCEPT !.b = filter_raw(@, e)]
BindVar(st, name, e) == [st EXCEPT !.expr = Bind(@, name, e)]
Without(f, names) == [x \in DOMAIN f \ names |-> f[x]]

(* Builders that return an alias as well return [st, a].                   *)
Fresh(st, prefix) == [st |-> [st EXCEPT !.n = @ + 1], a |-> prefix \o ToString(st.n + 1)]

(* A child has the parent's counters and a builder of its own; absorbing   *)
(* it moves the counters on.                                               *)
Absorb(st, child) == [st EXCEPT !.n = child.n, !.paths = child.paths, !.bgps = child.bgps,
                                !.err = @ \/ child.err]
PlanOf(child) == finalize(child.b)

(* The arms of a union, gathered one after the other, and the union.       *)
Arms(st) == [st |-> st, plans |-> <<>>]
Gather(acc, arm) == [st |-> Absorb(acc.st, arm.st), plans |-> Append(acc.plans, arm.plan)]
DocArm(st, alias) == [st |-> st, plan |-> finalize(return_scalar(st.b, "doc", AliasRef(alias)))]
DocUnion(acc) == LET f == Fresh(acc.st, "doc")
                 IN [st |-> [f.st EXCEPT !.b = for_union(@, f.a, acc.plans, FALSE, TRUE)], a |-> f.a]

(***************************************************************************)
(* Resolver: what the ontology says of a class or a property.              *)
(***************************************************************************)
IsUnion(c) == Classes[c].members # <<>>
supertype_members(c) == IF IsUnion(c) THEN Classes[c].members ELSE <<c>>
tenant_scoped_classes == {c \in DOMAIN Classes : Classes[c].tenant /\ ~IsUnion(c)}

_concrete_classes(iris) == FlatMap(iris, supertype_members)

(* Collection -> the classes of the range it holds; nothing when a class   *)
(* of the range is not declared.                                           *)
_range_classes(iris) ==
    IF \E i \in DOMAIN iris : iris[i] \notin DOMAIN Classes THEN EmptyMap
    ELSE LET cs == ToSet(_concrete_classes(iris))
         IN [k \in {Classes[c].coll : c \in cs} |-> {c \in cs : Classes[c].coll = k}]

(***************************************************************************)
(* Tests every read of a document carries: its graph, its tenant, its      *)
(* class.                                                                  *)
(***************************************************************************)
_graph_scope_test(st, alias) ==
    LET graph == attribute_ref(alias, GraphField)
        g == Last(st.scope)
    IN IF st.scope = <<>> THEN IF IncludeNamed THEN <<>> ELSE <<IsNull(graph)>>
       ELSE IF g.k = "iri" THEN <<Eq(graph, Const(g.n))>>
       ELSE IF g.n \in DOMAIN st.expr THEN <<Eq(graph, st.expr[g.n])>> ELSE <<>>

_apply_graph_scope(st, alias) ==
    IF st.scope # <<>> /\ Last(st.scope).k = "var" /\ Last(st.scope).n \notin DOMAIN st.expr
    THEN BindVar(st, Last(st.scope).n, attribute_ref(alias, GraphField))
    ELSE FoldLeft(Filter, st, _graph_scope_test(st, alias))

(* A walked document of a tenant-scoped class is the caller's own.         *)
IsStoredAs(alias, c) ==
    IF Classes[c].label = "" THEN CollIn(alias, {Classes[c].coll})
    ELSE AndE(CollIn(alias, {Classes[c].coll}), Eq(attribute_ref(alias, LabelField), Const(Classes[c].label)))
OwnedByCaller(alias) ==
    IF TenantId = "" THEN Const("false") ELSE Eq(attribute_ref(alias, TenantField), Const(TenantId))
_tenant_test(alias) ==
    FoldSet(LAMBDA c, e : AndE(e, Choice(IsStoredAs(alias, c), OwnedByCaller(alias), Const("true"))),
            Const("true"), tenant_scoped_classes)
(* Mutant: a document reached by a walk is not held to the tenant.         *)
GuardNothing(st, alias) == st

_guard_tenants(st, alias) ==
    IF tenant_scoped_classes = {} THEN st ELSE Filter(st, _tenant_test(alias))

_enforce_tenant_scope(st, alias, c) ==
    IF ~Classes[c].tenant THEN st
    ELSE IF TenantId = "" THEN Refuse(st)
    ELSE Filter(st, Eq(attribute_ref(alias, TenantField), Const(TenantId)))

(* The label test of a document that may be of any of the classes cs of    *)
(* one collection; refused when only some of them have a label.            *)
_class_tests(st, alias, cs) ==
    LET labelled == {c \in cs : Classes[c].label # ""}
        test(c) == Eq(attribute_ref(alias, LabelField), Const(Classes[c].label))
    IN IF labelled = {} THEN st
       ELSE IF labelled # cs THEN Refuse(st)
       ELSE Filter(st, AnyOf(MapSeq(Listed(cs), test)))

EnforceTenants(st, alias, cs) ==
    IF \E c \in cs : Classes[c].tenant
    THEN _enforce_tenant_scope(st, alias, CHOOSE c \in cs : Classes[c].tenant) ELSE st

(***************************************************************************)
(* Opening documents.  c = "" opens a collection without a class.          *)
(***************************************************************************)
Opened(f, coll, c) ==
    [f.st EXCEPT !.b = for_(@, f.a, coll), !.colls = Bind(@, f.a, {coll}),
                 !.cls = IF c = "" THEN @ ELSE Bind(@, f.a, c)]
OpenScoped(f, coll, c) ==
    [f EXCEPT !.st = IF c = "" THEN _guard_tenants(_apply_graph_scope(Opened(f, coll, c), f.a), f.a)
                     ELSE _apply_graph_scope(Opened(f, coll, c), f.a)]
_open_collection(st, coll, c) == OpenScoped(Fresh(st, "doc"), coll, c)

(* The first document of a variable is its document; a value it already    *)
(* has, and any later document, is joined on the IRI.                      *)
_bind_subject(st, s, alias) ==
    IF ~IsVar(s) THEN st
    ELSE IF s.n \notin DOMAIN st.doc
    THEN LET known == [st EXCEPT !.doc = Bind(@, s.n, alias)]
         IN IF s.n \notin DOMAIN st.expr THEN BindVar(known, s.n, subject_ref(alias))
            ELSE IF st.expr[s.n] # subject_ref(alias)
            THEN Filter(known, Eq(subject_ref(alias), st.expr[s.n])) ELSE known
    ELSE IF st.doc[s.n] = alias THEN st
    ELSE Filter(st, Eq(subject_ref(alias), subject_ref(st.doc[s.n])))

_bind_opened_subject(st, s, alias, matched) ==
    IF IsVar(s) THEN IF matched THEN [st EXCEPT !.doc = Bind(@, s.n, alias)]
                     ELSE _bind_subject(st, s, alias)
    ELSE IF s.n \in DOMAIN st.const
    THEN Filter(st, Eq(subject_ref(alias), subject_ref(st.const[s.n])))
    ELSE LET tested == IF matched THEN st ELSE Filter(st, Eq(subject_ref(alias), Const(s.n)))
         IN [tested EXCEPT !.const = Bind(@, s.n, alias)]

(* Classes in several collections are one union of their documents, each   *)
(* arm with its label test and, for a known subject, its IRI.              *)
Guarded(st, alias, cs, tenants) == IF tenants THEN EnforceTenants(st, alias, cs) ELSE st
FilterAll(st, es) == FoldLeft(Filter, st, es)
ClassArm(f, coll, cs, uri, tenants) ==
    DocArm(FilterAll(Guarded(_class_tests([f.st EXCEPT !.b = for_(@, f.a, coll)], f.a, cs), f.a, cs, tenants),
                     [i \in DOMAIN uri |-> Eq(subject_ref(f.a), uri[i])]), f.a)
NewArm(st) == Fresh([st EXCEPT !.b = NewBuilder], "doc")

RECURSIVE ClassArms(_, _, _, _, _)
ClassArms(acc, colls, byColl, uri, tenants) ==
    IF colls = <<>> THEN acc
    ELSE ClassArms(Gather(acc, ClassArm(NewArm(acc.st), Head(colls), byColl[Head(colls)], uri, tenants)),
                   Tail(colls), byColl, uri, tenants)
HeldIn(u, colls) == [u EXCEPT !.st.colls = Bind(@, u.a, colls)]
UnionOfArms(st, byColl, uri, tenants) ==
    HeldIn(DocUnion(ClassArms(Arms(st), Listed(DOMAIN byColl), byColl, uri, tenants)), DOMAIN byColl)

(* The IRI of a known subject that has no document yet.                    *)
UriToMatch(st, s) ==
    IF IsVar(s) THEN IF s.n \in DOMAIN st.expr /\ s.n \notin DOMAIN st.doc THEN <<st.expr[s.n]>> ELSE <<>>
    ELSE IF s.n \notin DOMAIN st.const THEN <<Const(s.n)>> ELSE <<>>
BindUnion(u, s, c, uri) ==
    [u EXCEPT !.st = _bind_opened_subject(
        _enforce_tenant_scope(_apply_graph_scope(@, u.a), u.a, c), s, u.a, uri # <<>>)]
_open_class_union(st, s, byColl, cs, uri) ==
    IF Cardinality({Classes[x].tenant : x \in cs}) > 1 THEN [st |-> Refuse(st), a |-> ""]
    ELSE BindUnion(UnionOfArms(st, byColl, uri, FALSE), s, CHOOSE x \in cs : TRUE, uri)

InCollections(cs) == [k \in {Classes[c].coll : c \in cs} |-> {c \in cs : Classes[c].coll = k}]
BindDocument(o, s, cs, c) ==
    [o EXCEPT !.st = _bind_opened_subject(
        _enforce_tenant_scope(_class_tests(@, o.a, cs), o.a, c), s, o.a, FALSE)]
OpenOneOf(st, s, cs, c) == BindDocument(_open_collection(st, Classes[c].coll, c), s, cs, c)
_open_classes(st, s, cs) ==
    IF Cardinality({Classes[c].coll : c \in cs}) > 1
    THEN _open_class_union(st, s, InCollections(cs), cs, UriToMatch(st, s))
    ELSE OpenOneOf(st, s, cs, CHOOSE c \in cs : TRUE)

BindHome(st, s, a) ==
    IF IsVar(s) THEN _bind_subject(st, s, a)
    ELSE [Filter(st, Eq(subject_ref(a), Const(s.n))) EXCEPT !.const = Bind(@, s.n, a)]
AtHome(o, s, c) == [o EXCEPT !.st = BindHome(_enforce_tenant_scope(@, o.a, c), s, o.a)]
_reopen_at_home(st, s) == AtHome(_open_collection(st, Classes[st.homes[s.n]].coll, st.homes[s.n]), s, st.homes[s.n])

(* The document a subject's properties are read from: the one already      *)
(* open, else one routed by the property's domain, else its home outside   *)
(* the GRAPH, else (unless strict) the default collection.                 *)
BindOpened(o, s) ==
    [o EXCEPT !.st = IF IsVar(s) THEN _bind_subject(@, s, o.a) ELSE Filter(@, Eq(subject_ref(o.a), Const(s.n)))]
_ensure_subject_alias(st, s, domain) ==
    IF IsVar(s) /\ s.n \in DOMAIN st.doc THEN [st |-> st, a |-> st.doc[s.n]]
    ELSE IF ~IsVar(s) /\ s.n \in DOMAIN st.const THEN [st |-> st, a |-> st.const[s.n]]
    ELSE IF domain # <<>> THEN _open_classes(st, s, ToSet(_concrete_classes(domain)))
    ELSE IF s.n \in DOMAIN st.homes THEN _reopen_at_home(st, s)
    ELSE IF StrictSubjects THEN [st |-> Refuse(st), a |-> ""]
    ELSE BindOpened(_open_collection(st, DefaultCollection, ""), s)

(***************************************************************************)
(* A document also in the collections of another range: the row itself     *)
(* when it is in none of them, and the document of its IRI in each.        *)
(***************************************************************************)
SelfArm(self, alias, colls, onlyOutside) ==
    DocArm(FilterAll([self.st EXCEPT !.b = for_alias(@, self.a, alias)],
                     IF onlyOutside THEN <<>> ELSE <<NotE(CollIn(self.a, colls))>>), self.a)
CopyTests(alias, colls, onlyOutside, missing) ==
    (IF onlyOutside THEN <<NotE(CollIn(alias, colls))>> ELSE <<>>)
    \o (IF missing = "" THEN <<>> ELSE <<NotE([op |-> "HAS", of |-> alias, f |-> missing])>>)
CopyArm(f, k, cs, alias, tests) ==
    DocArm(EnforceTenants(FilterAll([f.st EXCEPT !.b = for_(@, f.a, k)],
                                    tests \o <<Eq(subject_ref(f.a), subject_ref(alias))>>
                                          \o _graph_scope_test(f.st, f.a)), f.a, cs), f.a)
RECURSIVE CopyArms(_, _, _, _, _)
CopyArms(acc, colls, byColl, alias, tests) ==
    IF colls = <<>> THEN acc
    ELSE CopyArms(Gather(acc, CopyArm(NewArm(acc.st), Head(colls), byColl[Head(colls)], alias, tests)),
                  Tail(colls), byColl, alias, tests)
EveryCopy(st, alias, byColl, onlyOutside, missing) ==
    IF DOMAIN byColl = {} THEN [st |-> st, a |-> alias]
    ELSE DocUnion(CopyArms(Gather(Arms(st), SelfArm(NewArm(st), alias, DOMAIN byColl, onlyOutside)),
                           Listed(DOMAIN byColl), byColl, alias,
                           CopyTests(alias, DOMAIN byColl, onlyOutside, missing)))
_every_copy(st, alias, range, onlyOutside, missing) ==
    EveryCopy(st, alias, _range_classes(range), onlyOutside, missing)

(* The document an attribute is read from: the subject's, unless it is     *)
(* known to be in no collection of the property's domain.                  *)
_attribute_source(st, alias, prop) ==
    LET byColl == _range_classes(prop.domain)
        known == IF alias \in DOMAIN st.colls THEN st.colls[alias] ELSE {}
    IN IF DOMAIN byColl = {} \/ known \subseteq DOMAIN byColl THEN [st |-> st, a |-> alias]
       ELSE _every_copy(st, alias, prop.domain, TRUE, prop.attr)

(* The document of an object that is already known, looked up in the range *)
(* when only its value is; a = "" when it cannot be found that way.        *)
KnownValue(st, o) ==
    IF IsVar(o) THEN IF o.n \in DOMAIN st.expr THEN <<st.expr[o.n]>> ELSE <<>> ELSE <<Const(o.n)>>
IsOpen(st, o) == o.n \in (IF IsVar(o) THEN DOMAIN st.doc ELSE DOMAIN st.const)
DocumentOf(st, o) == IF IsVar(o) THEN st.doc[o.n] ELSE st.const[o.n]
ScopeUnion(u) == [u EXCEPT !.st = _apply_graph_scope(@, u.a)]
TestOpened(one, cs, value) ==
    [one EXCEPT !.st = Filter(EnforceTenants(_class_tests(@, one.a, cs), one.a, cs),
                              Eq(subject_ref(one.a), value))]
OpenedFor(found, o) == IF IsVar(o) THEN [found EXCEPT !.st.doc = Bind(@, o.n, found.a)]
                       ELSE [found EXCEPT !.st.const = Bind(@, o.n, found.a)]
FindOne(st, value, k, cs) == TestOpened(_open_collection(st, k, CHOOSE c \in cs : TRUE), cs, value)
FindDocument(st, value, byColl) ==
    IF Cardinality(DOMAIN byColl) > 1 THEN ScopeUnion(UnionOfArms(st, byColl, value, TRUE))
    ELSE FindOne(st, value[1], CHOOSE k \in DOMAIN byColl : TRUE, UNION Range(byColl))
_object_document(st, o, range) ==
    IF o.k = "lit" \/ KnownValue(st, o) = <<>> THEN [st |-> st, a |-> ""]
    ELSE IF IsOpen(st, o) THEN _every_copy(st, DocumentOf(st, o), range, FALSE, "")
    ELSE IF DOMAIN _range_classes(range) = {} THEN [st |-> st, a |-> ""]
    ELSE OpenedFor(FindDocument(st, KnownValue(st, o), _range_classes(range)), o)

(***************************************************************************)
(* Edges.                                                                  *)
(***************************************************************************)
Walk(st, source, prop, dir) ==
    LET v == Fresh(st, "v")
        e == Fresh(v.st, "e")
        walked == [e.st EXCEPT !.b = for_traversal(@, v.a, e.a, AliasRef(source), prop.ecoll,
                                                   IF prop.sym THEN "ANY" ELSE dir)]
        typed == IF prop.etype = "" THEN walked
                 ELSE Filter(walked, Eq(attribute_ref(e.a, "type"), Const(prop.etype)))
    IN [st |-> typed, a |-> v.a]

_record_vertex_home(st, alias, iris) ==
    LET cs == ToSet(_concrete_classes(iris))
        colls == {Classes[c].coll : c \in cs}
        known == [st EXCEPT !.colls = Bind(@, alias, colls)]
    IN IF cs = {} THEN st
       ELSE IF Cardinality(colls) = 1 /\ Cardinality({Classes[c].tenant : c \in cs}) = 1
       THEN [known EXCEPT !.cls = Bind(@, alias, Head(_concrete_classes(iris)))] ELSE known

_keep_subject_collections(st, alias, prop) ==
    LET cs == ToSet(_concrete_classes(prop.domain))
        tested(colls) == Filter(st, CollIn(alias, colls))
    IN IF cs = {} THEN IF StrictSubjects THEN st ELSE tested({DefaultCollection})
       ELSE IF Cardinality({Classes[c].tenant : c \in cs}) > 1 THEN Refuse(st)
       ELSE _enforce_tenant_scope(tested({Classes[c].coll : c \in cs}), alias, CHOOSE c \in cs : TRUE)

_bind_vertex_object(st, o, alias) ==
    IF o.k = "lit" THEN Refuse(st)
    ELSE IF ~IsVar(o) THEN Filter(st, Eq(subject_ref(alias), Const(o.n)))
    ELSE IF o.n \in DOMAIN st.doc THEN Filter(st, Eq(subject_ref(alias), subject_ref(st.doc[o.n])))
    ELSE IF o.n \in DOMAIN st.expr THEN Filter(st, Eq(subject_ref(alias), st.expr[o.n]))
    ELSE _bind_subject(st, o, alias)

(* An edge triple walks from its subject, or, when only its object is      *)
(* known, backwards from the object to subjects of the property's domain.  *)
WalkBack(w, s, prop) ==
    _bind_subject(_record_vertex_home(_guard_tenants(_keep_subject_collections(w.st, w.a, prop), w.a),
                                      w.a, prop.domain), s, w.a)
WalkForth(w, prop, o) ==
    _bind_vertex_object(_record_vertex_home(_guard_tenants(w.st, w.a), w.a, prop.range), o, w.a)
EdgeFrom(subject, prop, o) ==
    IF subject.st.err THEN subject.st ELSE WalkForth(Walk(subject.st, subject.a, prop, "OUTBOUND"), prop, o)
EdgeVia(target, st, s, prop, o) ==
    IF target.a = "" THEN EdgeFrom(_ensure_subject_alias(st, s, prop.domain), prop, o)
    ELSE WalkBack(Walk(target.st, target.a, prop, "INBOUND"), s, prop)
_emit_edge_triple(st, s, prop, o) ==
    EdgeVia(IF ~IsVar(s) \/ s.n \in DOMAIN st.doc \cup DOMAIN st.expr THEN [st |-> st, a |-> ""]
            ELSE _object_document(st, o, prop.range), st, s, prop, o)

(***************************************************************************)
(* Basic graph patterns.                                                   *)
(***************************************************************************)
RECURSIVE Visit(_, _)
RECURSIVE _emit_triple(_, _)
RECURSIVE _translate_expr(_, _)
RECURSIVE _emit_zero_hop_path(_, _, _)

IsTypePattern(t) == t.p.k = "iri" /\ t.p.n = TypeIri /\ t.o.k = "iri"

_emit_type_pattern(st, s, c) ==
    IF c \notin DOMAIN Classes THEN Refuse(st)
    ELSE IF IsUnion(c) THEN _open_classes(st, s, ToSet(supertype_members(c))).st
    ELSE OpenOneOf(st, s, {c}, c).st

Has(value) == [op |-> "HAS", of |-> value.of, f |-> value.f]

(* A required attribute is stored; its value is the variable's, or equals  *)
(* what the variable or the constant already is.                           *)
MatchValue(st, o, value) ==
    IF ~IsVar(o) THEN Filter(st, Eq(value, Const(o.n)))
    ELSE IF o.n \notin DOMAIN st.expr THEN BindVar(Filter(st, Has(value)), o.n, value)
    ELSE IF st.expr[o.n] # value THEN Filter(Filter(st, Has(value)), Eq(value, st.expr[o.n]))
    ELSE Filter(st, Has(value))
ReadAttribute(source, prop, o) == MatchValue(source.st, o, attribute_ref(source.a, prop.attr))
AttributeOf(subject, prop, o) ==
    IF subject.st.err THEN subject.st ELSE ReadAttribute(_attribute_source(subject.st, subject.a, prop), prop, o)
_emit_attribute_triple(st, s, prop, o) == AttributeOf(_ensure_subject_alias(st, s, prop.domain), prop, o)

_fresh_path_var(st) == [st |-> [st EXCEPT !.paths = @ + 1], v |-> Var("_path_" \o ToString(st.paths + 1))]

(* _join_rank: what a triple costs to emit next.                           *)
_join_rank(st, t, bound, walks) ==
    LET known(x) == IF IsVar(x) THEN x.n \in bound ELSE TRUE
    IN CASE IsTypePattern(t) -> IF known(t.s) THEN 0 ELSE 3
         [] OTHER -> IF known(t.s) THEN 1 ELSE IF walks THEN 2 ELSE IF known(t.o) THEN 4 ELSE 5

(* An edge whose object is an open document, and whose subject is new and  *)
(* has one type pattern: the walk back finds the subject, and its type     *)
(* pattern becomes a test of the vertex.                                   *)
_class_walk(st, t, triples, absorbed) ==
    LET types == SelectSeq(triples, LAMBDA x : IsTypePattern(x) /\ x.s = t.s)
        open == IF IsVar(t.o) THEN t.o.n \in DOMAIN st.doc ELSE t.o.n \in DOMAIN st.const
    IN /\ IsVar(t.s) /\ t.p.k = "iri" /\ t.p.n # TypeIri /\ t.p.n \in DOMAIN Props
       /\ t.s.n \notin DOMAIN st.doc \cup DOMAIN st.expr
       /\ Len(types) = 1 /\ types[1] \notin absorbed
       /\ t.o.k # "lit" /\ open
       /\ types[1].o.n \in DOMAIN Classes /\ ~IsUnion(types[1].o.n)
       /\ Props[t.p.n].obj /\ DOMAIN _range_classes(Props[t.p.n].range) # {}

EnterClass(w, s, c) ==
    _bind_subject([_enforce_tenant_scope(_class_tests(Filter(_apply_graph_scope(w.st, w.a),
                                                             CollIn(w.a, {Classes[c].coll})), w.a, {c}), w.a, c)
                      EXCEPT !.cls = Bind(@, w.a, c)], s, w.a)
WalkFrom(source, prop) == Walk(source.st, source.a, prop, "INBOUND")
_walk_back_into_class(st, t, prop, c) ==
    EnterClass(WalkFrom(_every_copy(st, DocumentOf(st, t.o), prop.range, FALSE, ""), prop), t.s, c)

(* The triples left, cheapest first; ties keep the order they were given.  *)
RECURSIVE BgpLoop(_, _, _, _, _)
BgpLoop(st, left, triples, bound, absorbed) ==
    LET rank == [i \in DOMAIN left |-> _join_rank(st, left[i], bound, _class_walk(st, left[i], triples, absorbed))]
        best == CHOOSE i \in DOMAIN left : \A j \in DOMAIN left :
                    rank[i] < rank[j] \/ (rank[i] = rank[j] /\ i <= j)
        t == left[best]
        type == SelectSeq(triples, LAMBDA x : IsTypePattern(x) /\ x.s = t.s)[1]
        rest == RemoveAt(left, best)
        seen == bound \cup {x.n : x \in {y \in TermsOf(t) : IsVar(y)}}
    IN IF left = <<>> \/ st.err THEN st
       ELSE IF t \in absorbed THEN BgpLoop(st, rest, triples, seen, absorbed \ {t})
       ELSE IF _class_walk(st, t, triples, absorbed)
       THEN BgpLoop(_walk_back_into_class(st, t, Props[t.p.n], type.o.n), rest, triples, seen, absorbed \cup {type})
       ELSE BgpLoop(_emit_triple(st, t), rest, triples, seen, absorbed)

(* Blank nodes are hidden variables, fresh in every basic graph pattern.   *)
_substitute_bnode_existentials(triples, id) ==
    LET var(x) == IF x.k = "bn" THEN Var("_bn_" \o ToString(id) \o "_" \o x.n) ELSE x
    IN MapSeq(triples, LAMBDA t : [t EXCEPT !.s = var(@), !.o = var(@)])

OneRow(st) == LET f == Fresh(st, "empty")
              IN IF has_for_clause(st.b) THEN st ELSE [f.st EXCEPT !.b = for_alias(@, f.a, "")]

_emit_bgp(st, triples) ==
    LET named == _substitute_bnode_existentials(triples, st.bgps + 1)
        counted == [st EXCEPT !.bgps = @ + 1]
    IN IF triples = <<>> THEN OneRow(st)
       ELSE BgpLoop(counted, named, named, DOMAIN st.expr \cup DOMAIN st.doc, {})

(***************************************************************************)
(* Children.  _spawn_child carries the bindings an arm of a UNION or an    *)
(* OPTIONAL may use; the probe of an EXISTS or MINUS has only their values,*)
(* and a sub-SELECT has nothing.                                           *)
(***************************************************************************)
(* Mutant: the names of a child start afresh.                              *)
ChildNamingAfresh(st) == NewState

Child(st) == [NewState EXCEPT !.n = st.n, !.paths = st.paths, !.bgps = st.bgps]

_spawn_child(st) ==
    [Child(st) EXCEPT !.expr = st.expr, !.doc = st.doc, !.cls = st.cls, !.unb = st.unb,
                      !.hidden = st.hidden, !.subst = st.subst, !.scope = st.scope, !.homes = st.homes]

_translate_probe(st, p, probing, substitute, overlap) ==
    LET values == IF substitute THEN st.expr @@ st.hidden ELSE st.expr
        probe(child) ==
            LET soft == {child.sink[i].v : i \in DOMAIN child.sink}
                same == MapSeq(child.sink, LAMBDA x :
                            AndE(AndE(NotNull(x.value), NotNull(x.bound)), Eq(x.value, x.bound)))
                b == IF soft # {} /\ overlap \subseteq soft THEN filter_raw(child.b, AnyOf(same)) ELSE child.b
            IN [st |-> Absorb(st, child), plan |-> finalize(return_scalar(limit(b, 0, 1), "one", Const("1")))]
    IN probe(Visit([Child(st) EXCEPT !.expr = values, !.probing = probing,
                                     !.subst = IF substitute THEN st.subst \cup DOMAIN values ELSE {}], p))

(* The probe's rows, counted. *)
CountProbe(probe, prefix) ==
    LET f == Fresh(probe.st, prefix)
    IN [st |-> [f.st EXCEPT !.b = let_length(@, f.a, probe.plan)], e |-> AliasRef(f.a)]

(* The variables MINUS takes to be those of its right side: every variable *)
(* met below it, except in an argument list, BOUND, a BIND target, VALUES, *)
(* a projection and the name of a GRAPH.                                   *)
RECURSIVE _collect_referenced_variables(_)
ExprVars(e) ==
    CASE e.op = "var" -> {e.n}
      [] e.op \in {"and", "or", "not"} -> _collect_referenced_variables([k |-> "e", e |-> e.l])
      [] e.op \in {"eq", "ne"} -> _collect_referenced_variables([k |-> "e", e |-> e.l])
                                  \cup _collect_referenced_variables([k |-> "e", e |-> e.r])
      [] e.op \in {"exists", "notexists"} -> _collect_referenced_variables(e.graph)
      [] OTHER -> {}
_collect_referenced_variables(p) ==
    LET below == UNION {_collect_referenced_variables(p[f]) : f \in {"l", "r", "p"} \cap DOMAIN p}
    IN CASE p.k = "bgp" -> {t.n : t \in {x \in UNION {TermsOf(p.triples[i]) : i \in DOMAIN p.triples} :
                                           x.k = "var"}}
         [] p.k = "e" -> ExprVars(p.e)
         [] p.k \in {"filter", "extend", "opt"} -> below \cup ExprVars(p.e)
         [] p.k = "values" -> {}
         [] OTHER -> below

emit_minus(st, q) ==
    LET shared == _collect_referenced_variables(q.r) \cap DOMAIN st.expr
        none(count) == Filter(count.st, Eq(count.e, Const("0")))
    IN IF st.err \/ shared = {} THEN st
       ELSE none(CountProbe(_translate_probe(st, q.r, TRUE, FALSE, shared), "minus_probe"))

emit_exists_filter(st, graph, negated) ==
    LET tested(count) == [count EXCEPT !.e = IF negated THEN Eq(@, Const("0")) ELSE Positive(@)]
    IN tested(CountProbe(_translate_probe(st, graph, FALSE, TRUE, {}), "exists_probe"))

(***************************************************************************)
(* UNION, and the alternatives of a path.  Every arm is translated twice:  *)
(* once for the names it binds, once for its rows, which all have the same *)
(* fields; an arm that lacks a name returns null for it.  An arm is a      *)
(* pattern, or a length of a path: a triple, or no hop at all.             *)
(***************************************************************************)
PathArm(t) == [k |-> "hops", t |-> t]
StayArm(s, o) == [k |-> "no hop", s |-> s, o |-> o]
Drive(child, arm) ==
    CASE arm.k = "hops" -> _emit_triple(child, arm.t)
      [] arm.k = "no hop" -> _emit_zero_hop_path(child, arm.s, arm.o)
      [] OTHER -> Visit(child, arm)

(* The names the arms bind that the pattern before them does not.          *)
ArmNames(acc, c) == [st |-> [acc.st EXCEPT !.paths = c.paths, !.bgps = c.bgps, !.err = @ \/ c.err],
                     vars |-> acc.vars \cup (DOMAIN c.expr \ DOMAIN acc.st.expr)]
RECURSIVE ProbeArms(_, _)
ProbeArms(acc, arms) ==
    IF arms = <<>> THEN acc
    ELSE ProbeArms(ArmNames(acc, Drive(_spawn_child(acc.st), Head(arms))), Tail(arms))

(* The rows of an arm, with the fields of all of them.                     *)
ArmFields(c, all) ==
    [v \in all |-> IF v = "_path_hit" THEN Const("1") ELSE IF v \in DOMAIN c.expr THEN c.expr[v] ELSE Null]
ArmRows(acc, c, all, f) ==
    [st |-> Absorb(acc.st, IF has_for_clause(c.b) THEN c ELSE f.st),
     plans |-> Append(acc.plans, finalize(return_object(open_one_row_scope_first(c.b, f.a),
                                                        ArmFields(c, all), FALSE))),
     unb |-> acc.unb \cup {v \in all : v \notin DOMAIN c.expr \/ v \in c.unb}]
EmitArm(acc, c, all) == ArmRows(acc, c, all, Fresh(c, "empty"))
RECURSIVE EmitArms(_, _, _)
EmitArms(acc, arms, all) ==
    IF arms = <<>> THEN acc
    ELSE EmitArms(EmitArm(acc, Drive(_spawn_child(acc.st), Head(arms)), all), Tail(arms), all)

UnionRows(emitted, distinct, new, f) ==
    [f.st EXCEPT !.b = for_union(@, f.a, emitted.plans, distinct, FALSE),
                 !.expr = [v \in new |-> FieldRef(f.a, v)] @@ @,
                 !.unb = @ \cup (new \cap emitted.unb)]
OpenUnion(emitted, distinct, new) == UnionRows(emitted, distinct, new, Fresh(emitted.st, "row"))

(* The fields of a row: internal names only when there are no others.      *)
UnionFields(vars, collapse) ==
    IF vars \ Internal # {} THEN vars \ Internal
    ELSE IF vars = {} \/ collapse THEN {"_path_hit"} ELSE vars
UnionOf(st, arms, distinct, all) ==
    IF st.err THEN st
    ELSE OpenUnion(EmitArms([st |-> st, plans |-> <<>>, unb |-> {}], arms, all), distinct, all \ {"_path_hit"})
CollapsedUnion(probed, arms, distinct, collapse) ==
    UnionOf(probed.st, arms, distinct, UnionFields(probed.vars, collapse))
_emit_union_of_arms(st, arms, distinct, collapse) ==
    CollapsedUnion(ProbeArms([st |-> st, vars |-> {}], arms), arms, distinct, collapse)

emit_union(st, q) == _emit_union_of_arms(st, <<q.l, q.r>>, FALSE, FALSE)

(***************************************************************************)
(* Property paths.                                                         *)
(***************************************************************************)
Triple(s, p, o) == [s |-> s, p |-> p, o |-> o]
PathSeq(l, r) == [k |-> "seq", l |-> l, r |-> r]

SecondStep(first, mid, p, o) == IF first.err THEN first ELSE _emit_triple(first, Triple(mid, p.r, o))
_emit_sequence_path(st, s, p, o) ==
    LET mid == _fresh_path_var(st)
    IN SecondStep(_emit_triple(mid.st, Triple(s, p.l, mid.v)), mid.v, p, o)

(* No hop: the object is the subject, which needs no document when its     *)
(* value is known.                                                         *)
MeetAt(st, uri, o) ==
    IF st.err THEN st
    ELSE IF o.k = "lit" THEN Refuse(st)
    ELSE IF ~IsVar(o) THEN Filter(st, Eq(uri, Const(o.n)))
    ELSE IF o.n \notin DOMAIN st.expr THEN BindVar(st, o.n, uri)
    ELSE IF st.expr[o.n] # uri THEN Filter(st, Eq(uri, st.expr[o.n])) ELSE st
MeetAtDocument(opened, o) == MeetAt(OneRow(opened.st), subject_ref(opened.a), o)
_emit_zero_hop_path(st, s, o) ==
    IF IsVar(s) /\ (s.n \in DOMAIN st.doc \/ s.n \notin DOMAIN st.expr)
    THEN MeetAtDocument(_ensure_subject_alias(st, s, <<>>), o)
    ELSE MeetAt(OneRow(st), IF IsVar(s) THEN st.expr[s.n] ELSE Const(s.n), o)

RECURSIVE _repeat_inner_path(_, _)
_repeat_inner_path(inner, count) ==
    IF count = 1 THEN inner ELSE PathSeq(inner, _repeat_inner_path(inner, count - 1))

_combine_mul_modifiers(outer, inner) ==
    IF {outer, inner} = {"?"} THEN "?" ELSE IF {outer, inner} \cap {"*", "?"} # {} THEN "*" ELSE "+"

(* A repeated path is the set of its lengths, each a path of its own.      *)
RECURSIVE _emit_mul_path(_, _, _, _)
_emit_mul_path(st, s, p, o) ==
    LET top == IF p.m = "?" THEN 1 ELSE MaxDepth
        expanded == [i \in 1..top |-> PathArm(Triple(s, _repeat_inner_path(p.l, i), o))]
        lengths == IF p.m = "+" THEN expanded ELSE <<StayArm(s, o)>> \o expanded
    IN IF p.l.k = "mul"
       THEN _emit_mul_path(st, s, [p EXCEPT !.m = _combine_mul_modifiers(p.m, p.l.m), !.l = p.l.l], o)
       ELSE IF p.l.k = "alt" THEN Refuse(st)
       ELSE IF Len(lengths) = 1 THEN Drive(st, lengths[1])
       ELSE _emit_union_of_arms(st, lengths, TRUE, TRUE)

resolve_property(iri) ==
    IF iri \in DOMAIN Props THEN Props[iri]
    ELSE [obj |-> FALSE, attr |-> iri, ecoll |-> "", etype |-> "", sym |-> FALSE, domain |-> <<>>, range |-> <<>>]

(***************************************************************************)
(* ?s ?p ?o: the mapped attributes of the subject's document and the edges *)
(* of every object property, one arm each.  A negated path reads whatever  *)
(* attribute the document has.                                             *)
(***************************************************************************)
SYSTEM_ATTRIBUTES_TO_SKIP == {"_uri", GraphField}
edge_properties == {p \in DOMAIN Props : Props[p].obj /\ Props[p].ecoll # ""}
attribute_uri_map ==
    LET data == {p \in DOMAIN Props : ~Props[p].obj}
    IN [a \in {Props[p].attr : p \in data} |-> CHOOSE p \in data : Props[p].attr = a]

Attributes(st, alias, skip) ==
    LET f == Fresh(st, "k")
    IN [st |-> Filter([f.st EXCEPT !.b = for_attributes(@, f.a, alias)], NotE(KeyIn(AliasRef(f.a), skip))),
        a |-> f.a]

_build_attribute_arm(st, alias) ==
    LET k == Attributes([st EXCEPT !.b = NewBuilder], alias, SYSTEM_ATTRIBUTES_TO_SKIP)
        f == Fresh(k.st, "p")
        mapped == Filter([f.st EXCEPT !.b = let(@, f.a, MappedBy(attribute_uri_map, AliasRef(k.a)))],
                         NotNull(AliasRef(f.a)))
    IN [st |-> mapped,
        plan |-> finalize(return_object(mapped.b, "predicate" :> AliasRef(f.a)
                                                  @@ "object" :> ValueAt(alias, AliasRef(k.a)), FALSE))]

EdgeArm(st, alias, iri) ==
    LET w == Walk([st EXCEPT !.b = NewBuilder], alias, Props[iri], "OUTBOUND")
        guarded == _guard_tenants(w.st, w.a)
    IN [st |-> guarded,
        plan |-> finalize(return_object(guarded.b, "predicate" :> Const(iri) @@ "object" :> subject_ref(w.a), FALSE))]

_bind_union_term(st, x, e) ==
    IF x.n \notin DOMAIN st.expr THEN BindVar(st, x.n, e)
    ELSE IF st.expr[x.n] # e THEN Filter(st, Eq(e, st.expr[x.n])) ELSE st
_bind_union_object(st, o, e) ==
    IF IsVar(o) THEN _bind_union_term(st, o, e) ELSE Filter(st, Eq(e, Const(o.n)))

_emit_document_edge_union(st, alias, p, o) ==
    LET add(acc, iri) == Gather(acc, EdgeArm(acc.st, alias, iri))
        bound(arms) ==
            LET f == Fresh(arms.st, "triple")
                open == [f.st EXCEPT !.b = for_union(@, f.a, arms.plans, FALSE, FALSE)]
            IN _bind_union_object(_bind_union_term(open, p, FieldRef(f.a, "predicate")), o, FieldRef(f.a, "object"))
    IN bound(FoldLeft(add, Gather(Arms(st), _build_attribute_arm(st, alias)), Listed(edge_properties)))

emit_variable_predicate_triple(st, t) ==
    LET from(subject) == IF subject.st.err THEN subject.st
                         ELSE _emit_document_edge_union(subject.st, subject.a, t.p, t.o)
    IN from(_ensure_subject_alias(st, t.s, <<>>))

_emit_negated_path(st, s, p, o) ==
    LET skipped == SYSTEM_ATTRIBUTES_TO_SKIP \cup {resolve_property(iri).attr : iri \in p.iris}
        value(k, alias) == _bind_union_object(k.st, o, ValueAt(alias, AliasRef(k.a)))
        from(subject) == IF subject.st.err THEN subject.st
                         ELSE value(Attributes(subject.st, subject.a, skipped), subject.a)
    IN from(_ensure_subject_alias(st, s, <<>>))

emit_path_triple(st, s, p, o) ==
    CASE p.k = "seq" -> _emit_sequence_path(st, s, p, o)
      [] p.k = "inv" -> _emit_triple(st, Triple(o, p.l, s))
      [] p.k = "alt" -> _emit_union_of_arms(st, <<PathArm(Triple(s, p.l, o)), PathArm(Triple(s, p.r, o))>>, TRUE, FALSE)
      [] p.k = "mul" -> _emit_mul_path(st, s, p, o)
      [] p.k = "neg" -> _emit_negated_path(st, s, p, o)

_emit_triple(st, t) ==
    IF st.err THEN st
    ELSE IF t.p.k = "var" THEN emit_variable_predicate_triple(st, t)
    ELSE IF t.p.k # "iri" THEN emit_path_triple(st, t.s, t.p, t.o)
    ELSE IF IsTypePattern(t) THEN _emit_type_pattern(st, t.s, t.o.n)
    ELSE IF resolve_property(t.p.n).obj THEN _emit_edge_triple(st, t.s, resolve_property(t.p.n), t.o)
    ELSE _emit_attribute_triple(st, t.s, resolve_property(t.p.n), t.o)

(***************************************************************************)
(* Expressions: [st, e].  What cannot but be an error is null as a whole.  *)
(***************************************************************************)
RECURSIVE certainly_error(_, _)
certainly_error(st, e) ==
    CASE e.op = "var" -> e.n \notin DOMAIN st.expr
      [] e.op \in {"term", "bound", "exists", "notexists"} -> FALSE
      [] e.op = "not" -> certainly_error(st, e.l)
      [] e.op \in {"and", "or", "coalesce"} -> certainly_error(st, e.l) /\ certainly_error(st, e.r)
      [] e.op \in {"eq", "ne"} -> certainly_error(st, e.l) \/ certainly_error(st, e.r)

(* An operand of && or || that is an error leaves the other to decide.     *)
_translate_logical(st, e) ==
    LET failed == {x \in {"l", "r"} : certainly_error(st, e[x])}
        kept(x) == [x EXCEPT !.e = IF e.op = "and" THEN Choice(@, Null, Const("false"))
                                   ELSE Choice(@, Const("true"), Null)]
        joined(l, r) == [r EXCEPT !.e = IF e.op = "and" THEN AndE(l.e, @) ELSE OrE(l.e, @)]
        right(l) == joined(l, _translate_expr(l.st, e.r))
    IN IF failed = {} THEN right(_translate_expr(st, e.l))
       ELSE IF "l" \in failed THEN kept(_translate_expr(st, e.r)) ELSE kept(_translate_expr(st, e.l))

_translate_expr(st, e) ==
    LET value(n) == IF n \in DOMAIN st.expr THEN st.expr[n] ELSE Null
        joined(l, r) == [r EXCEPT !.e = CASE e.op = "eq" -> Eq(l.e, @)
                                          [] e.op = "ne" -> Op2("!=", l.e, @)
                                          [] e.op = "coalesce" -> NOT_NULL(l.e, @)]
        right(l) == joined(l, _translate_expr(l.st, e.r))
    IN CASE e.op = "var" -> [st |-> st, e |-> value(e.n)]
         [] e.op = "term" -> [st |-> st, e |-> Const(e.n)]
         [] e.op = "bound" -> [st |-> st, e |-> NotNull(value(e.n))]
         [] e.op \in {"exists", "notexists"} -> emit_exists_filter(st, e.graph, e.op = "notexists")
         [] OTHER ->
              IF certainly_error(st, e) THEN [st |-> st, e |-> Null]
              ELSE CASE e.op = "not" -> [_translate_expr(st, e.l) EXCEPT !.e = NotE(@)]
                     [] e.op \in {"and", "or"} -> _translate_logical(st, e)
                     [] OTHER -> right(_translate_expr(st, e.l))

RECURSIVE ReadNames(_)
ReadNames(e) == CASE e.op \in {"var", "bound"} -> {e.n}
                  [] e.op = "term" -> {}
                  [] e.op = "not" -> ReadNames(e.l)
                  [] OTHER -> ReadNames(e.l) \cup ReadNames(e.r)

(***************************************************************************)
(* OPTIONAL.  A body whose triples all read the attributes or edges of a   *)
(* document of the required side is inlined; any other is a subquery.  A   *)
(* variable predicate is left to the inline emitter, which refuses it.     *)
(***************************************************************************)
needs_subquery(st, p2) ==
    /\ ~st.probing
    /\ \/ p2.k # "bgp"
       \/ /\ \A i \in DOMAIN p2.triples : ~IsVar(p2.triples[i].p)
          /\ \E i \in DOMAIN p2.triples :
                LET t == p2.triples[i]
                IN \/ ~(IsVar(t.s) /\ t.s.n \in DOMAIN st.doc)
                   \/ t.p.k # "iri"
                   \/ ~IsVar(t.o)

RECURSIVE bound_variables(_)
bound_variables(p) ==
    LET below == UNION {bound_variables(p[f]) : f \in {"l", "r", "p"} \cap DOMAIN p}
    IN CASE p.k = "bgp" -> {t.n : t \in {x \in UNION {TermsOf(p.triples[i]) : i \in DOMAIN p.triples} :
                                           x.k = "var"}}
         [] p.k = "values" -> UNION {DOMAIN p.rows[i] : i \in DOMAIN p.rows}
         [] p.k = "project" -> ToSet(p.vars)
         [] p.k = "extend" -> below \cup {p.v}
         [] p.k = "graph" -> below \cup (IF IsVar(p.g) THEN {p.g.n} ELSE {})
         [] p.k = "minus" -> bound_variables(p.l)
         [] p.k = "group" -> below \cup {p.aggs[i].res : i \in DOMAIN p.aggs}
         [] OTHER -> below

(* The rows of the child, or one row of nulls: every match is a row.       *)
Pad(st, child, fields, field) ==
    LET sub == Fresh(Absorb(st, child), "optsub")
        row == Fresh(sub.st, "optrow")
        plan == finalize(return_object(child.b, fields, FALSE))
    IN [st |-> [row.st EXCEPT !.b = for_padded(let_rows(@, sub.a, plan), row.a, sub.a)], a |-> row.a,
        field |-> field]

BindOptional(row) ==
    [row.st EXCEPT !.expr = [v \in DOMAIN row.field |-> FieldRef(row.a, row.field[v])] @@ @,
                   !.unb = @ \cup DOMAIN row.field]

(* The rows of a group that its FILTER keeps; it reads the group's state   *)
(* as inside says.                                                         *)
FilterGroup(group, inside, e) ==
    LET kept(test) == Filter([test.st EXCEPT !.expr = group.expr], test.e)
    IN IF e = TrueFilter THEN group ELSE kept(_translate_expr(inside, e))

(* Only the variables the body shares with the outside are visible inside  *)
(* it; its FILTER sees the whole group.                                    *)
emit_optional_subquery(st, q) ==
    LET outer == DOMAIN st.expr
        unshared == (outer \ bound_variables(q.r)) \ st.subst
        hidden == [v \in unshared |-> st.expr[v]]
        child0 == [_spawn_child(st) EXCEPT !.expr = Without(@, unshared), !.doc = Without(@, unshared),
                                           !.unb = @ \ unshared, !.hidden = hidden @@ @]
        padded(child, new) ==
            BindOptional(Pad(st, child, IF new = {} THEN "one" :> Const("1") ELSE [v \in new |-> child.expr[v]],
                             [v \in new |-> v]))
        rows(child) == padded(child, (DOMAIN child.expr \ outer) \ Internal)
        optional(body) == IF body.err THEN Refuse(st)
                          ELSE rows(OneRow(FilterGroup(body, [body EXCEPT !.expr = hidden @@ @], q.e)))
    IN optional(Visit(child0, q.r))

(* edges: [v, prop, of], attrs: [v, e].  The fields are numbered.          *)
_emit_padded_rows(st, edges, attrs, e) ==
    LET reached(acc, w) == [st |-> _guard_tenants(w.st, w.a), fields |-> Append(acc.fields, subject_ref(w.a))]
        walk(acc, x) == reached(acc, Walk(acc.st, x.of, x.prop, "OUTBOUND"))
        names == MapSeq(edges \o attrs, LAMBDA x : x.v)
        last(v) == Max({i \in DOMAIN names : names[i] = v})
        padded(kept, fields) ==
            LET bind(s, i) == BindVar(s, names[i], fields[i])
            IN Pad(st, FilterGroup(kept, FoldLeft(bind, kept, [i \in DOMAIN names |-> i]), e),
                   [f \in {"f" \o ToString(i) : i \in DOMAIN fields} |->
                        fields[CHOOSE i \in DOMAIN fields : f = "f" \o ToString(i)]],
                   [v \in ToSet(names) |-> "f" \o ToString(last(v))])
        rows(walked) == padded(FoldLeft(LAMBDA s, x : Filter(s, NotNull(x.e)), walked.st, attrs),
                               walked.fields \o MapSeq(attrs, LAMBDA x : x.e))
    IN rows(FoldLeft(walk, [st |-> [st EXCEPT !.b = NewBuilder], fields |-> <<>>], edges))

(* One triple of an inlined OPTIONAL.  Inside a MINUS probe a variable of  *)
(* the outside may be matched again, softly: null agrees with everything.  *)
OptionalTriple(acc, t) ==
    LET st == acc.st
        prop == resolve_property(t.p.n)
        of == st.doc[t.s.n]
        rebind == t.o.n \in DOMAIN st.expr
        edge == [v |-> t.o.n, prop |-> prop, of |-> of]
        bound == st.expr[t.o.n]
        soft(read, value) ==
            [Filter(read, OrE(OrE(IsNull(value), IsNull(bound)), Eq(value, bound)))
                EXCEPT !.sink = Append(@, [v |-> t.o.n, value |-> value, bound |-> bound])]
        walked(row) == soft(row.st, FieldRef(row.a, "f1"))
    IN IF st.err THEN acc
       ELSE IF ~(IsVar(t.s) /\ t.s.n \in DOMAIN st.doc) \/ t.p.k # "iri" \/ ~IsVar(t.o)
               \/ (rebind /\ ~st.probing)
            THEN [acc EXCEPT !.st = Refuse(st)]
       ELSE IF rebind
       THEN [acc EXCEPT !.st = IF prop.obj THEN walked(_emit_padded_rows(st, <<edge>>, <<>>, TrueFilter))
                               ELSE soft(st, attribute_ref(of, prop.attr))]
       ELSE IF prop.obj THEN [acc EXCEPT !.edges = Append(@, edge)]
       ELSE [acc EXCEPT !.attrs = Append(@, [v |-> t.o.n, e |-> attribute_ref(of, prop.attr)])]

InlineOptional(read, e) ==
    LET st == read.st
        attrs == read.attrs
        bound == FoldLeft(LAMBDA s, x : BindVar(s, x.v, x.e), st, attrs)
        stored == MapSeq(attrs, LAMBDA x : NotNull(x.e))
        kept(st1, match) ==
            LET keep(s, x) ==
                    LET f == Fresh(s, "opt")
                    IN [BindVar([f.st EXCEPT !.b = let(@, f.a, Choice(match, x.e, Null))], x.v, AliasRef(f.a))
                          EXCEPT !.unb = @ \cup {x.v}]
            IN FoldLeft(keep, st1, attrs)
        tested(test) == kept([test.st EXCEPT !.expr = st.expr], AllOf(stored \o <<test.e>>))
    IN IF st.err \/ (read.edges = <<>> /\ attrs = <<>>) THEN st
       ELSE IF read.edges # <<>> THEN BindOptional(_emit_padded_rows(st, read.edges, attrs, e))
       ELSE IF e # TrueFilter THEN tested(_translate_expr(bound, e))
       ELSE IF Len(attrs) = 1
       THEN [BindVar(st, attrs[1].v, attrs[1].e) EXCEPT !.unb = @ \cup {attrs[1].v}]
       ELSE kept(st, AllOf(stored))

visit_LeftJoin(st, q) ==
    IF st.err THEN st
    ELSE IF needs_subquery(st, q.r) THEN emit_optional_subquery(st, q)
    ELSE IF q.r.k # "bgp" THEN Refuse(st)
    ELSE InlineOptional(FoldLeft(OptionalTriple, [st |-> st, edges |-> <<>>, attrs |-> <<>>], q.r.triples), q.e)

(***************************************************************************)
(* BIND, aggregation.                                                      *)
(***************************************************************************)
visit_Extend(st, q) ==
    LET copied == q.e.op = "var" /\ q.e.n \in DOMAIN st.expr
        computed(t) == LET f == Fresh(t.st, "bv")
                       IN BindVar([f.st EXCEPT !.b = let(@, f.a, t.e)], q.v, AliasRef(f.a))
        open == IF ReadNames(q.e) \cap st.unb # {} THEN {q.v} ELSE {}
    IN IF st.err THEN st
       ELSE IF ~copied /\ q.v \in DOMAIN st.expr THEN Refuse(st)
       ELSE [(IF copied THEN BindVar(st, q.v, st.expr[q.e.n]) ELSE computed(_translate_expr(st, q.e)))
                EXCEPT !.unb = @ \cup open]

(* Mutant: COUNT counts the rows that leave its argument unbound.          *)
CountsEveryRow(st, agg, scope) == TRUE

(* Whether counting the rows counts the values of the argument.            *)
_counts_every_row(st, agg, scope) ==
    \/ agg.v = "*"
    \/ agg.v \in DOMAIN scope /\ \E a \in st.b.scanned : scope[agg.v] = subject_ref(a)

(* An aggregate over an unbound value is an error: null.  One counter of   *)
(* nulls serves every aggregate of the same argument.                      *)
_unbound_is_error(acc, read, arg) ==
    LET counted == {i \in DOMAIN acc.aggs : acc.aggs[i].f = "COUNT_NULL" /\ acc.aggs[i].e = arg}
        f == Fresh(acc.st, "nulls")
        nulls == IF counted # {} THEN acc.aggs[CHOOSE i \in counted : TRUE].a ELSE f.a
        added == IF counted # {} THEN acc
                 ELSE [acc EXCEPT !.st = f.st, !.aggs = Append(@, [a |-> f.a, f |-> "COUNT_NULL", e |-> arg])]
    IN [acc |-> added, read |-> Choice(Positive(AliasRef(nulls)), Null, read)]

_aggregate(acc, agg, scope, grouped) ==
    LET st == acc.st
        f == Fresh(st, "agg")
        named == agg.v = "*" \/ agg.v \in DOMAIN scope
        arg == IF agg.v = "*" THEN Const("1") ELSE IF named THEN scope[agg.v] ELSE Null
        func == CASE agg.f = "count" /\ agg.distinct -> "COUNT_UNIQUE"
                  [] agg.f = "count" -> IF _counts_every_row(st, agg, scope) THEN "COUNT" ELSE "COUNT_KNOWN"
                  [] agg.f = "sum" -> "SUM"
                  [] agg.f = "min" -> "MIN"
        defaulted == ~grouped /\ func \in {"COUNT_KNOWN", "SUM"}
        plain == IF defaulted THEN NOT_NULL(AliasRef(f.a), Const("0")) ELSE AliasRef(f.a)
        added == [acc EXCEPT !.st = f.st, !.aggs = Append(@, [a |-> f.a, f |-> func, e |-> arg])]
        open == agg.f # "count" /\ agg.v \in st.unb
        guarded == IF open THEN _unbound_is_error(added, plain, arg) ELSE [acc |-> added, read |-> plain]
        bound == BindVar(guarded.acc.st, agg.res, guarded.read)
    IN IF (agg.f # "count" /\ (agg.distinct \/ ~named)) \/ (agg.f = "count" /\ agg.distinct /\ agg.v = "*")
       THEN [acc EXCEPT !.st = Refuse(st)]
       ELSE [guarded.acc EXCEPT
                !.st = IF open \/ agg.f = "min" THEN [bound EXCEPT !.unb = @ \cup {agg.res}] ELSE bound]

(* After COLLECT only its keys and aggregates are in scope.                *)
_leave_pattern_scope(st, scope) ==
    LET kept == [v \in {x \in DOMAIN st.expr : ~(x \in DOMAIN scope /\ scope[x] = st.expr[x])} |-> st.expr[v]]
    IN [st EXCEPT !.expr = kept, !.doc = EmptyMap, !.const = EmptyMap, !.unb = @ \cap DOMAIN kept]

visit_AggregateJoin(st, q) ==
    LET scope == st.expr
        key(acc, v) == LET f == Fresh(acc.st, "grp")
                       IN [st |-> BindVar(f.st, v, AliasRef(f.a)),
                           keys |-> Append(acc.keys, [a |-> f.a, e |-> IF v \in DOMAIN scope THEN scope[v] ELSE Null])]
        keyed == FoldLeft(key, [st |-> st, keys |-> <<>>], q.keys)
        aggregate(acc, agg) == _aggregate(acc, agg, scope, q.keys # <<>>)
        collected(agged) ==
            IF agged.st.err THEN Refuse(st)
            ELSE _leave_pattern_scope([agged.st EXCEPT !.b =
                     [collect(@, keyed.keys, agged.aggs) EXCEPT !.fallback = @ \/ q.keys # <<>>]], scope)
        missed == (ToSet(q.keys) \cap bound_variables(q.p)) \ DOMAIN scope
    IN IF st.err \/ (q.keys = <<>> /\ q.aggs = <<>>) \/ missed # {} THEN Refuse(st)
       ELSE collected(FoldLeft(aggregate, [st |-> keyed.st, aggs |-> <<>>], q.aggs))

(***************************************************************************)
(* GRAPH, VALUES, sub-SELECT.                                              *)
(***************************************************************************)
(* Inside GRAPH every document is opened again in that graph; a subject    *)
(* known outside is found by its class.                                    *)
visit_Graph(st, q) ==
    LET outside == st.const @@ st.doc
        homes == [v \in {x \in DOMAIN outside : outside[x] \in DOMAIN st.cls} |-> st.cls[outside[v]]] @@ st.homes
        inside == Visit([st EXCEPT !.scope = Append(@, q.g), !.homes = homes,
                                   !.doc = EmptyMap, !.const = EmptyMap], q.p)
    IN [inside EXCEPT !.scope = Front(@), !.homes = st.homes, !.doc = st.doc, !.const = st.const]

(* Rows joined on the variables they share with the pattern before them;   *)
(* unb: the variables a row may leave unbound.                             *)
_bind_outer_scope(st0, row, names, unb) ==
    LET bind(st, v) ==
            LET new == FieldRef(row, v)
                old == st.expr[v]
                open == v \in st.unb
                tests == (IF open THEN <<IsNull(old)>> ELSE <<>>)
                         \o (IF v \in unb THEN <<IsNull(new)>> ELSE <<>>) \o <<Eq(new, old)>>
                joined == Filter(st, AnyOf(tests))
                merged == BindVar(joined, v, NOT_NULL(old, new))
            IN IF v \notin DOMAIN st.expr
               THEN [BindVar(st, v, new) EXCEPT !.unb = IF v \in unb THEN @ \cup {v} ELSE @]
               ELSE IF ~open THEN joined
               ELSE IF v \in unb THEN merged ELSE [merged EXCEPT !.unb = @ \ {v}]
    IN FoldLeft(bind, st0, Listed(names))

_emit_subselect(st, q) ==
    LET RECURSIVE Projection(_)
        Projection(p) == IF p.k = "project" THEN p.vars ELSE Projection(p.p)
        vars == Projection(q.p)
        rows(child) ==
            LET f == Fresh(Absorb(st, child), "row")
            IN IF child.err THEN Refuse(st)
               ELSE _bind_outer_scope([f.st EXCEPT !.b = for_subquery(@, f.a, PlanOf(child))], f.a, ToSet(vars),
                                      ToSet(vars) \cap child.unb)
    IN rows(Visit([Child(st) EXCEPT !.vars = vars], q.p))

(* VALUES over bound variables, all rows different, is a test; any other   *)
(* is a join.                                                              *)
_emit_values(st, q) ==
    LET names == UNION {DOMAIN q.rows[i] : i \in DOMAIN q.rows}
        rows == MapSeq(q.rows, LAMBDA r : [v \in names |-> FieldOf(r, v)])
        unb == {v \in names : \E i \in DOMAIN rows : rows[i][v] = NullValue}
        semi == /\ unb = {} /\ has_for_clause(st.b) /\ names # {}
                /\ names \subseteq DOMAIN st.expr \ st.unb
                /\ Cardinality(ToSet(rows)) = Len(rows)
        f == Fresh(st, IF semi THEN "values" ELSE "row")
    IN IF semi
       THEN Filter([f.st EXCEPT !.b = let_first(@, f.a, rows)],
                   [op |-> "IN_ROWS", of |-> f.a, tested |-> [v \in names |-> st.expr[v]]])
       ELSE _bind_outer_scope([f.st EXCEPT !.b = for_rows(@, f.a, rows)], f.a, names, unb)

(***************************************************************************)
(* The visits.                                                             *)
(***************************************************************************)
IsEmptyBgp(p) == p.k = "bgp" /\ p.triples = <<>>

visit_Join(st, q) ==
    LET swap == IsEmptyBgp(q.l) /\ ~IsEmptyBgp(q.r)
        second(first) == IF first.err THEN first ELSE Visit(first, IF swap THEN q.l ELSE q.r)
    IN second(Visit(st, IF swap THEN q.r ELSE q.l))

visit_Filter(st, q) ==
    LET kept(t) == Filter(t.st, t.e)
    IN IF st.err THEN st ELSE kept(_translate_expr([st EXCEPT !.b = clear_empty_result_fallback(@)], q.e))

visit_Slice(st, q) ==
    IF q.length = <<>> THEN Refuse(st) ELSE [st EXCEPT !.b = limit(@, q.start, q.length[1])]

visit_OrderBy(st, q) == IF st.err THEN st ELSE _translate_expr(st, q.e).st

(* SELECT * projects whatever was bound, a SELECT refuses a variable that  *)
(* was not.                                                                *)
_emit_projection(st) ==
    LET names == IF st.vars = <<>> THEN DOMAIN st.expr \ Internal ELSE ToSet(st.vars)
    IN IF st.err \/ ~(names \subseteq DOMAIN st.expr) THEN Refuse(st)
       ELSE [st EXCEPT !.b = return_object(@, [v \in names |-> st.expr[v]], st.distinct)]

Visit(st, q) ==
    CASE st.err -> st
      [] q.k = "bgp" -> _emit_bgp(st, q.triples)
      [] q.k = "join" -> visit_Join(st, q)
      [] q.k = "opt" -> visit_LeftJoin(Visit(st, q.l), q)
      [] q.k = "union" -> emit_union(st, q)
      [] q.k = "minus" -> emit_minus(Visit(st, q.l), q)
      [] q.k = "filter" -> visit_Filter(Visit(st, q.p), q)
      [] q.k = "extend" -> visit_Extend(Visit(st, q.p), q)
      [] q.k = "group" -> visit_AggregateJoin(Visit(st, q.p), q)
      [] q.k = "graph" -> visit_Graph(st, q)
      [] q.k = "values" -> _emit_values([st EXCEPT !.b = clear_empty_result_fallback(@)], q)
      [] q.k = "sub" -> _emit_subselect([st EXCEPT !.b = clear_empty_result_fallback(@)], q)
      [] q.k = "project" -> _emit_projection(Visit(st, q.p))
      [] q.k = "distinct" -> Visit([st EXCEPT !.distinct = TRUE], q.p)
      [] q.k = "order" -> visit_OrderBy(Visit(st, q.p), q)
      [] q.k = "slice" -> visit_Slice(Visit(st, q.p), q)

(***************************************************************************)
(* CONSTRUCT and DESCRIBE.                                                 *)
(***************************************************************************)
RECURSIVE Under(_, _)
Under(p, kinds) == IF p.k \in kinds THEN Under(p.p, kinds) ELSE p

(* The pattern a form of query is answered from. *)
WherePart(q) == CASE q.form = "ask" -> IF q.p.k = "project" THEN q.p.p ELSE q.p
                  [] q.form = "select" -> q.p
                  [] q.form \in {"construct", "describe"} -> Under(q.p, {"project", "distinct"})

(* The template of CONSTRUCT WHERE: every triple below the pattern.        *)
RECURSIVE _collect_bgp_triples(_)
_collect_bgp_triples(p) ==
    IF p.k = "bgp" THEN p.triples
    ELSE FlatMap(SelectSeq(<<"p", "l", "r">>, LAMBDA f : f \in DOMAIN p), LAMBDA f : _collect_bgp_triples(p[f]))

_construct_term_to_aql(st, x) == CASE x.k = "var" -> st.expr[x.n]
                                   [] x.k = "bn" -> Const("_:" \o x.n)
                                   [] OTHER -> Const(x.n)

AsTriple(s, p, o) == "subject" :> s @@ "predicate" :> p @@ "object" :> o

(* A LIMIT keeps the projection under it, which returns before the triples *)
(* can: refused.                                                           *)
visit_ConstructQuery(st, q) ==
    LET template == IF q.template = <<>> THEN _collect_bgp_triples(WherePart(q)) ELSE q.template
        named == {x \in UNION {TermsOf(template[i]) : i \in DOMAIN template} : x.k = "var"}
        term(x) == _construct_term_to_aql(st, x)
    IN IF template = <<>> \/ st.err \/ st.b.ret # <<>> \/ ~(\A x \in named : x.n \in DOMAIN st.expr)
          \/ \E i \in DOMAIN template : template[i].p.k \notin {"iri", "var"}
       THEN Refuse(st)
       ELSE [st EXCEPT !.b = return_triples(@, MapSeq(template, LAMBDA t : AsTriple(term(t.s), term(t.p), term(t.o))))]

_describe_pg_attributes_subquery(st, alias) ==
    LET k == "k"
        b == filter_raw(for_attributes(st.b, k, alias),
                        NotE(KeyIn(AliasRef(k), {"_id", "_key", "_rev", "_uri", "_type"})))
    IN [b EXCEPT !.ret = <<AsTriple(subject_ref(alias), AliasRef(k), ValueAt(alias, AliasRef(k)))>>]

described_sources ==
    {Classes[c].coll : c \in {x \in DOMAIN Classes : ~IsUnion(x)}}
    \cup (IF StrictSubjects THEN {} ELSE {DefaultCollection})

(* Documents of the given IRIs, looked for in every collection a class is  *)
(* mapped to, each in its graph and its tenant.                            *)
_describe_constants(st, iris) ==
    LET arm(st1, coll) ==
            LET f == Fresh([st1 EXCEPT !.b = NewBuilder], "doc")
                found == Filter([f.st EXCEPT !.b = for_(@, f.a, coll)], KeyIn(subject_ref(f.a), iris))
            IN DocArm(FoldLeft(Filter, found, _graph_scope_test(st, f.a)), f.a)
        add(acc, coll) == Gather(acc, arm(acc.st, coll))
        described(u) == [st |-> Absorb(st, u.st),
                         plan |-> finalize(_describe_pg_attributes_subquery(_guard_tenants(u.st, u.a), u.a))]
    IN described(DocUnion(FoldLeft(add, Arms([st EXCEPT !.b = NewBuilder]), Listed(described_sources))))

_emit_describe_bare(st, iris) ==
    LET rows(found) ==
            LET f == Fresh(found.st, "t")
                field(n) == FieldRef(f.a, n)
            IN [f.st EXCEPT !.b = return_triples(for_subquery(@, f.a, found.plan),
                                                 <<AsTriple(field("subject"), field("predicate"), field("object"))>>)]
    IN rows(_describe_constants(st, iris))

(* A variable is described by the document it was bound with.              *)
visit_DescribeQuery(st, q) ==
    LET document(acc, x) ==
            [st |-> acc.st, plan |-> finalize(_describe_pg_attributes_subquery([acc.st EXCEPT !.b = NewBuilder],
                                                                                st.doc[x.n]))]
        part(acc, x) ==
            Gather(acc, IF IsVar(x) THEN document(acc, x) ELSE _describe_constants(acc.st, {x.n}))
        described(parts) == [parts.st EXCEPT !.b = return_triples_subquery(@, parts.plans)]
    IN IF st.err \/ st.b.ret # <<>>
          \/ \E i \in DOMAIN q.describe : IsVar(q.describe[i]) /\ q.describe[i].n \notin DOMAIN st.doc
       THEN Refuse(st) ELSE described(FoldLeft(part, Arms(st), q.describe))

visit_AskQuery(st) ==
    LET limited == IF st.b.limit = <<>> THEN limit(st.b, 0, 1) ELSE st.b
    IN IF st.err THEN st
       ELSE [st EXCEPT !.b = [return_scalar(limited, "one", Const("1")) EXCEPT !.ask = TRUE]]

(* A query is [form, star, vars, template, describe, p]; the plan of one   *)
(* that is refused is never built.                                         *)
visit_query(st, q) ==
    CASE q.form = "ask" -> visit_AskQuery(st)
      [] q.form = "select" -> st
      [] q.form = "construct" -> visit_ConstructQuery(st, q)
      [] q.form = "describe" -> visit_DescribeQuery(st, q)

Translated(q) ==
    IF q.p.k = "none" THEN _emit_describe_bare(NewState, {q.describe[i].n : i \in DOMAIN q.describe})
    ELSE visit_query(Visit([NewState EXCEPT !.vars = IF q.form = "select" /\ ~q.star THEN q.vars ELSE <<>>],
                           WherePart(q)), q)

Refused(st) == st.err \/ ~Finalizes(st.b)
=============================================================================
