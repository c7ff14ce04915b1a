---------------------------- MODULE Acquisition ----------------------------
(***************************************************************************)
(* How a mapping of the database is acquired (schema/acquire.py,           *)
(* schema/detect.py, schema/graph_scope.py): the analyzer's bundle or the  *)
(* heuristic detector's, overlaid pass by pass with what samples of the    *)
(* data show, while the data changes, and cut down to a named graph.       *)
(*                                                                         *)
(* The database is a set of documents and edges out of a fixed universe.   *)
(* A document has a collection, a key, at most one discriminator field     *)
(* with its values (an array of them, one string, or nothing usable) and   *)
(* possibly the columns of a triple; an edge has none of those.            *)
(***************************************************************************)
EXTENDS Naturals, Sequences, FiniteSets, SequencesExt

CONSTANTS
    Order,         \* the collections of documents, in the order of their names
    EdgeOrder,     \* the collections of edges, in the order of their names
    Doc,           \* the universe: [in, key, field, values, array, row]
    Edge,          \* and [in, key, from, to, type]; handles are <<collection, key>>
    Databases,     \* what may be stored at first: [docs, edges]
    LegacyTriples, \* the collections called _triples
    ClassOf,       \* the analyzer's class of a collection without a discriminator
    RdfType,       \* the predicate rdf:type
    Plain,         \* the names that Turtle takes as they are (_PN_LOCAL_SAFE)
    Graphs,        \* the named graphs: [vertex, edges]
    SampleSize,    \* DEFAULT_SAMPLE_SIZE
    CoverNum, CoverDen,  \* COVERAGE_THRESHOLD, as a fraction
    MaxChanges     \* bound on the changes during an acquisition

ASSUME StoredIsInUniverse == \A db \in Databases : db.docs \subseteq Doc /\ db.edges \subseteq Edge
ASSUME SamplingBounds ==
    /\ SampleSize \in Nat \ {0} /\ MaxChanges \in Nat
    /\ CoverNum \in Nat \ {0} /\ CoverDen \in Nat \ {0} /\ CoverNum <= CoverDen

Collection == ToSet(Order)
EdgeCollection == ToSet(EdgeOrder)

ANY_ENTITY == "Any"
None == "none"

(* A collection is one of documents or one of edges; what may be stored is *)
(* finite; no collection and no label is called None.                      *)
ASSUME CollectionsAreOfOneKind ==
    /\ Order \in Seq(Collection) /\ EdgeOrder \in Seq(EdgeCollection)
    /\ Collection \cap EdgeCollection = {}
ASSUME UniverseIsFinite ==
    /\ IsFiniteSet(Doc) /\ \A d \in Doc : d.in \in Collection
    /\ IsFiniteSet(Edge) /\ \A e \in Edge : e.in \in EdgeCollection
ASSUME NoneIsNoName == None \notin Collection /\ \A d \in Doc : None \notin d.values
ASSUME ArraysAreKnown == \A d \in Doc : d.array \in BOOLEAN

Whole == [vertex |-> {}, edges |-> {}]  \* no graph: the whole database

VARIABLES
    docs, edges,   \* what the database holds
    changes,       \* how often it changed since the acquisition began
    strategy,      \* "analyzer", "heuristic"
    graph,         \* the session's graph, or Whole
    stage,         \* the next pass
    cls,           \* the classification of every collection a pass works with
    entities,      \* of the bundle: by name, [style, collection, field, value, array]
    relationships, \* of the bundle: by name, [style, collection, value, from, to]
    text           \* of the bundle: the entities and relationships of its owl_turtle

database == <<docs, edges, changes>>
request == <<strategy, graph>>
bundle == <<entities, relationships, text>>
vars == <<database, request, stage, cls, bundle>>

Part(S, c) == {x \in S : x.in = c}
In(c) == Part(docs, c)
EdgesIn(c) == Part(edges, c)

Over(new, old) == [n \in DOMAIN new \cup DOMAIN old |-> IF n \in DOMAIN new THEN new[n] ELSE old[n]]
Nothing == [n \in {} |-> None]
NoText == [entities |-> Nothing, relationships |-> Nothing]

(* Of the functions given by position, the last one that has a name tells. *)
Named(given, n) == {i \in DOMAIN given : n \in DOMAIN given[i]}
NamesOf(given) == UNION {DOMAIN given[i] : i \in DOMAIN given}
LastWins(given) ==
    [n \in NamesOf(given) |->
        given[CHOOSE i \in Named(given, n) : \A j \in Named(given, n) : j <= i][n]]

(* _sample_collection of every collection: "LIMIT n" without an order      *)
(* gives any n of what it holds, and everything when it holds no more.     *)
Samples(S) ==
    LET larger == {x \in S : Cardinality(Part(S, x.in)) > SampleSize}
    IN  {S \ left : left \in {T \in SUBSET larger :
            \A x \in larger : Cardinality(Part(S, x.in) \ T) = SampleSize}}

Covers(part, whole) ==
    whole # {} /\ Cardinality(part) * CoverDen >= CoverNum * Cardinality(whole)

----------------------------------------------------------------------------
(* schema/detect.py: classification *)

NoRow == [s |-> None, p |-> None, o |-> None]
Triples(sample) == {d \in sample : d.row # NoRow}

_classify_rpt_from_sample(c, sample) ==
    \/ c \in LegacyTriples /\ sample # {}
    \/ Covers(Triples(sample), sample)

Present(sample, field) == {d \in sample : d.field = field}
ValuesOf(sample) == UNION {d.values : d \in sample}

(* Mutant: any document with the field makes it the discriminator.         *)
Tier1Uncovered(sample, field) == ValuesOf(Present(sample, field)) # {}

(* A tier-1 field qualifies by its coverage alone. *)
Tier1(sample, field) ==
    Covers(Present(sample, field), sample) /\ ValuesOf(Present(sample, field)) # {}

(* A tier-2 field needs few distinct values besides; all names of classes  *)
(* here are class-like, and fewer than TIER_2_MAX_DISTINCT.                *)
Tier2(sample, field) ==
    /\ Tier1(sample, field)
    /\ 2 * Cardinality(ValuesOf(Present(sample, field))) <= Cardinality(sample)

_detect_discriminator(sample) ==
    IF Tier1(sample, "type") THEN "type"
    ELSE IF Tier2(sample, "labels") THEN "labels" ELSE None

Class(style, field, values) == [style |-> style, field |-> field, values |-> values]

_classify_document_collection(c, sample) ==
    LET field == _detect_discriminator(sample)
    IN  IF _classify_rpt_from_sample(c, sample) THEN Class("RPT", None, {})
        ELSE IF field = None THEN Class("COLLECTION", None, {})
        ELSE Class("LABEL", field, ValuesOf(Present(sample, field)))

(* The discriminator of an edge is a tier-1 field with one string. *)
_classify_edge_collection(sample) ==
    LET typed == {e \in sample : e.type # None}
    IN  IF Covers(typed, sample)
        THEN Class("GENERIC_WITH_TYPE", "type", {e.type : e \in typed})
        ELSE Class("DEDICATED_COLLECTION", None, {})

(* _classify_all, from a sample of the documents and one of the edges.     *)
Classified(ds, es) ==
    [c \in Collection \cup EdgeCollection |->
        IF c \in Collection THEN _classify_document_collection(c, Part(ds, c))
        ELSE _classify_edge_collection(Part(es, c))]

----------------------------------------------------------------------------
(* schema/detect.py: the bundle and the endpoints *)

Entity(style, c, field, value) ==
    [style |-> style, collection |-> c, field |-> field, value |-> value, array |-> "unknown"]

(* What one collection emits, by name. *)
EntitiesOf(k, c) ==
    IF k.style = "LABEL" THEN [v \in k.values |-> Entity("LABEL", c, k.field, v)]
    ELSE [n \in {c} |-> Entity(k.style, c, None, None)]

(* A name that two collections give belongs to the last of them. *)
_emit_entities(k) ==
    LastWins([i \in DOMAIN Order |-> EntitiesOf(k[Order[i]], Order[i])])

(* _resolve_edge_handle_labels: a handle's class, None when unresolved. A  *)
(* document of a labelled collection is read, now; several labels resolve  *)
(* to none.                                                                *)
HandleLabel(k, handle) ==
    IF handle[1] \notin Collection THEN None
    ELSE LET c == k[handle[1]]
             read == {d \in In(handle[1]) : d.key = handle[2] /\ d.field = c.field /\ ~d.array}
         IN  IF c.style = "COLLECTION" THEN handle[1]
             ELSE IF c.style = "LABEL" /\ ValuesOf(read) # {} THEN CHOOSE v \in ValuesOf(read) : TRUE
             ELSE None

(* Mutant: a majority, here whichever label comes first, is good enough. *)
Guessed(labels) == IF labels = {} THEN ANY_ENTITY ELSE CHOOSE l \in labels : TRUE

Agreed(labels) ==
    IF \E l \in labels : labels = {l} THEN CHOOSE l \in labels : TRUE ELSE ANY_ENTITY

Resolved(k, handles) == {HandleLabel(k, h) : h \in handles} \ {None}

_endpoints_from_edges(k, group) ==
    [from |-> Agreed(Resolved(k, {e.from : e \in group})),
     to   |-> Agreed(Resolved(k, {e.to : e \in group}))]

(* infer_edge_endpoint_index: of each edge collection that has a sample,   *)
(* per type of edge, or under None for all of them.                        *)
EndpointIndex(k, sample) ==
    [c \in {ec \in EdgeCollection : Part(sample, ec) # {}} |->
        LET types == IF k[c].style = "GENERIC_WITH_TYPE"
                     THEN {e.type : e \in Part(sample, c)} \ {None} ELSE {None}
        IN  [t \in types |->
                _endpoints_from_edges(k, {e \in Part(sample, c) : t = None \/ e.type = t})]]

Unknown == [from |-> ANY_ENTITY, to |-> ANY_ENTITY]
Inferred(index, c, value) ==
    IF c \in DOMAIN index /\ value \in DOMAIN index[c] THEN index[c][value] ELSE Unknown

Relationship(style, c, value, ends) ==
    [style |-> style, collection |-> c, value |-> value, from |-> ends.from, to |-> ends.to]

RelationshipsOf(k, c, index) ==
    IF k.style = "GENERIC_WITH_TYPE"
    THEN [t \in k.values |-> Relationship(k.style, c, t, Inferred(index, c, t))]
    ELSE [n \in {c} |-> Relationship(k.style, c, None, Inferred(index, c, None))]

_emit_relationships(k, index) ==
    LastWins([i \in DOMAIN EdgeOrder |-> RelationshipsOf(k[EdgeOrder[i]], EdgeOrder[i], index)])

----------------------------------------------------------------------------
(* The passes *)

Init ==
    /\ \E db \in Databases : docs = db.docs /\ edges = db.edges
    /\ changes = 0
    /\ strategy \in {"analyzer", "heuristic"} /\ graph \in Graphs \cup {Whole}
    /\ stage = "acquire" /\ cls = Nothing
    /\ entities = Nothing /\ relationships = Nothing /\ text = NoText

(* The heuristic path classifies, and infers endpoints from new samples.   *)
_classify_all ==
    /\ \/ stage = "acquire" /\ strategy = "heuristic" /\ stage' = "infer"
       \/ stage = "classify" /\ stage' = "enrich"
    /\ \E ds \in Samples(docs), es \in Samples(edges) : cls' = Classified(ds, es)
    /\ UNCHANGED <<database, request, bundle>>

build_heuristic_mapping ==
    /\ stage = "infer"
    /\ entities' = _emit_entities(cls)
    /\ \E sample \in Samples(edges) :
          relationships' = _emit_relationships(cls, EndpointIndex(cls, sample))
    /\ stage' = "rpt" /\ cls' = Nothing
    /\ UNCHANGED <<database, request, text>>

(* The analyzer knows no triples, names the class of a collection in its   *)
(* own way and leaves endpoints open, or pins one.  It also writes what it *)
(* found as an ontology, unless that fails.                                *)
AnalyzerClass(c) ==
    IF In(c) # {} /\ \A d \in In(c) : d.field = "type" /\ d.values # {}
    THEN [v \in ValuesOf(In(c)) |-> Entity("LABEL", c, "type", v)]
    ELSE [n \in {ClassOf[c]} |-> Entity("COLLECTION", c, None, None)]

_acquire_via_analyzer ==
    /\ stage = "acquire" /\ strategy = "analyzer"
    /\ entities' = LastWins([i \in DOMAIN Order |-> AnalyzerClass(Order[i])])
    /\ \E pinned \in DOMAIN entities' \cup {ANY_ENTITY} :
          LET k == [c \in EdgeCollection |-> _classify_edge_collection(EdgesIn(c))]
              open == _emit_relationships(k, Nothing)
          IN  relationships' = [n \in DOMAIN open |-> [open[n] EXCEPT !.from = pinned]]
    /\ text' \in {NoText, [entities |-> entities', relationships |-> relationships']}
    /\ stage' = "rpt"
    /\ UNCHANGED <<database, request, cls>>

(* A pass that fails leaves the bundle as it was. *)
PassFails ==
    /\ \/ stage = "rpt" /\ stage' = "classify"
       \/ stage \in {"classify", "enrich"} /\ stage' = "shape"
       \/ stage = "shape" /\ stage' = "scope"
    /\ cls' = Nothing
    /\ UNCHANGED <<database, request, bundle>>

(* infer_rpt_object_property_relationships: the classes of subjects are    *)
(* those the sample tells, then the table; a subject typed twice keeps one *)
(* of its classes.                                                         *)
RptEdge(c, p, sample) ==
    LET typing == {d \in Triples(In(c)) : d.row.p = RdfType}
        TypesOf(u) == {d.row.o : d \in {t \in typing : t.row.s = u}}
        pairs == {d.row : d \in {t \in Triples(sample) : t.row.p = p}}
        Sole(us) == Agreed({CHOOSE t \in TypesOf(u) : TRUE : u \in {v \in us : TypesOf(v) # {}}})
    IN  Relationship("RPT_EDGE", c, p, [from |-> Sole({r.s : r \in pairs}), to |-> Sole({r.o : r \in pairs})])

RptRelationships(c, sample) ==
    [p \in {d.row.p : d \in Triples(sample)} \ {RdfType} |-> RptEdge(c, p, sample)]

(* The triples' entry replaces one of its name; a relationship of its name *)
(* stays, and all do when their inference fails.  The text stays as it is. *)
_apply_rpt_enrichment ==
    /\ stage = "rpt"
    /\ \E first, second \in Samples(docs) :
          LET found == {i \in DOMAIN Order : _classify_rpt_from_sample(Order[i], Part(first, Order[i]))}
              overlay == [c \in {Order[i] : i \in found} |-> Entity("RPT", c, None, None)]
              triples == [i \in found |-> RptRelationships(Order[i], Part(second, Order[i]))]
          IN  /\ entities' = Over(overlay, entities)
              /\ relationships' \in {relationships, Over(relationships, LastWins(triples))}
    /\ stage' = "classify"
    /\ UNCHANGED <<database, request, cls, text>>

(* Mutant: the inferred name as it comes. *)
AsInferred(inferred) == inferred

(* The bundle's own name for an inferred class: its key, or the one key of *)
(* the collection it names.                                                *)
_as_entity_key(inferred) ==
    LET keys == {n \in DOMAIN entities :
                    entities[n].style = "COLLECTION" /\ entities[n].collection = inferred}
    IN  IF inferred \in DOMAIN entities \cup {ANY_ENTITY} THEN inferred ELSE Agreed(keys)

(* Mutant: the inference wins over what the producer pinned. *)
Overwrite(pinned, inferred) == IF inferred = ANY_ENTITY THEN pinned ELSE inferred

Fill(pinned, inferred) == IF pinned = ANY_ENTITY THEN inferred ELSE pinned

_apply_edge_endpoint_enrichment ==
    /\ stage = "enrich"
    /\ \E sample \in Samples(edges) :
          relationships' = [n \in DOMAIN relationships |->
              LET r == relationships[n]
                  ends == Inferred(EndpointIndex(cls, sample), r.collection, r.value)
              IN  IF r.style = "RPT_EDGE" THEN r
                  ELSE [r EXCEPT !.from = Fill(@, _as_entity_key(ends.from)),
                                 !.to = Fill(@, _as_entity_key(ends.to))]]
    /\ stage' = "shape" /\ cls' = Nothing
    /\ UNCHANGED <<database, request, entities, text>>

(* One document with the field tells whether it holds an array; none, or a *)
(* probe that fails, leaves the entity unflagged.                          *)
Probe(e) ==
    LET with == {d \in Present(In(e.collection), e.field) : d.values # {}}
    IN  {IF d.array THEN "yes" ELSE "no" : d \in with} \cup {"unknown"}

(* The flags go into the text too, of the names it takes as they are.      *)
_append_label_shape_annotations(written, flags) ==
    [n \in DOMAIN written |->
        IF n \in DOMAIN flags \cap Plain /\ flags[n] # "unknown"
        THEN [written[n] EXCEPT !.array = flags[n]] ELSE written[n]]

_apply_label_shape_enrichment ==
    /\ stage = "shape"
    /\ \E flags \in [DOMAIN entities -> {"unknown", "yes", "no"}] :
          /\ \A n \in DOMAIN entities :
                flags[n] \in IF entities[n].style = "LABEL" THEN Probe(entities[n]) ELSE {"unknown"}
          /\ entities' = [n \in DOMAIN entities |-> [entities[n] EXCEPT !.array = flags[n]]]
          /\ text' = [text EXCEPT !.entities = _append_label_shape_annotations(@, flags)]
    /\ stage' = "scope"
    /\ UNCHANGED <<database, request, cls, relationships>>

(* Mutant: only the classes are cut down. *)
AnyRelationship(r) == TRUE

InScope(r) == r.collection \in graph.edges

(* A graph that cannot be resolved, or none, leaves the bundle whole. An   *)
(* entry for triples has no collection of vertices, nor of edges.  The     *)
(* text is not cut down.                                                   *)
scope_bundle_to_graph ==
    /\ stage = "scope"
    /\ \/ UNCHANGED bundle
       \/ /\ graph # Whole
          /\ LET vertices == {n \in DOMAIN entities :
                                 entities[n].style # "RPT" /\ entities[n].collection \in graph.vertex}
                 kept == {n \in DOMAIN relationships : InScope(relationships[n])}
             IN  /\ entities' = [n \in vertices |-> entities[n]]
                 /\ relationships' = [n \in kept |-> relationships[n]]
    /\ stage' = "done"
    /\ UNCHANGED <<database, request, cls, text>>

(* A client of the database stores or removes a document or an edge. *)
Change ==
    /\ stage # "done" /\ changes < MaxChanges /\ changes' = changes + 1
    /\ \/ \E d \in Doc : docs' = (IF d \in docs THEN docs \ {d} ELSE docs \cup {d}) /\ UNCHANGED edges
       \/ \E e \in Edge : edges' = (IF e \in edges THEN edges \ {e} ELSE edges \cup {e}) /\ UNCHANGED docs
    /\ UNCHANGED <<request, stage, cls, bundle>>

Next ==
    \/ _classify_all \/ build_heuristic_mapping \/ _acquire_via_analyzer \/ PassFails
    \/ _apply_rpt_enrichment \/ _apply_edge_endpoint_enrichment
    \/ _apply_label_shape_enrichment \/ scope_bundle_to_graph \/ Change

Spec == Init /\ [][Next]_vars

----------------------------------------------------------------------------
(* Properties *)

Quiet == changes = 0
Complete ==
    /\ \A c \in Collection : Cardinality(In(c)) <= SampleSize
    /\ \A c \in EdgeCollection : Cardinality(EdgesIn(c)) <= SampleSize

(* What a class stored in a collection may be called. *)
NamesIn(c) == {c, ClassOf[c]} \cup ValuesOf(In(c))

(* No two collections share a name of a class, and no field holds strings  *)
(* in some documents of a collection and arrays in others.                 *)
Uniform ==
    /\ \A c, other \in Collection : c # other => NamesIn(c) \cap NamesIn(other) = {}
    /\ \A d, other \in docs :
          d.in = other.in /\ {} \notin {d.values, other.values} => d.array = other.array

Members(e) ==
    {d \in In(e.collection) :
        \/ e.style = "COLLECTION"
        \/ /\ e.style = "LABEL" /\ d.field = e.field /\ e.value \in d.values
           /\ e.array = "unknown" \/ d.array = (e.array = "yes")}

ClassesOf(handle) ==
    {n \in DOMAIN entities : \E d \in Members(entities[n]) : <<d.in, d.key>> = handle}

EdgesOf(r) == {e \in EdgesIn(r.collection) : r.value = None \/ e.type = r.value}
Stored == {n \in DOMAIN relationships : relationships[n].style # "RPT_EDGE"}
Enriched == stage \in {"shape", "scope"}

Declared(n) == {relationships[n].from, relationships[n].to} \subseteq DOMAIN entities \cup {ANY_ENTITY}

(* A relationship names only classes the bundle declares: one that does    *)
(* not cannot be queried (the comment at acquire.py:836).  Over an         *)
(* analyzer's bundle whatever the samples miss and whatever changes        *)
(* between the passes; a heuristic one needs samples that are complete.    *)
EndpointsDeclared ==
    Enriched /\ (strategy = "analyzer" \/ (Quiet /\ Complete)) => \A n \in Stored : Declared(n)

HeuristicEndpointsDeclared == Enriched => \A n \in Stored : Declared(n)

Admits(end, handle) ==
    end # ANY_ENTITY /\ ClassesOf(handle) # {} => end \in ClassesOf(handle)

(* The analyzer may have a class for an endpoint that the inference cannot *)
(* resolve, and that it leaves out of account.                             *)
Accounted(handle) ==
    strategy = "heuristic" \/ HandleLabel(Classified(docs, edges), handle) # None

ExcludesNothing(n) ==
    LET r == relationships[n] IN
    \A e \in EdgesOf(r) :
       /\ strategy = "heuristic" => Admits(r.from, e.from)
       /\ Accounted(e.to) => Admits(r.to, e.to)

(* The declared domain and range exclude no endpoint an edge has (the      *)
(* docstring of _endpoints_from_edges), as far as the labels are strings   *)
(* and the samples show every document.                                    *)
EndpointsHold ==
    Enriched /\ Quiet /\ Complete /\ Uniform /\ (\A d \in docs : ~d.array)
    => \A n \in Stored : ExcludesNothing(n)

(* Also when labels are arrays (an endpoint in such a collection resolves  *)
(* to nothing, and does not count).                                        *)
EndpointsHoldForArrays ==
    Enriched /\ Quiet /\ Complete /\ Uniform => \A n \in Stored : ExcludesNothing(n)

(* And of those the inference leaves out: a class that the analyzer has    *)
(* for the documents of a triple collection may be excluded.               *)
EndpointsHoldUnresolved ==
    Enriched /\ Quiet /\ Complete /\ Uniform /\ (\A d \in docs : ~d.array)
    => \A n \in Stored : \A e \in EdgesOf(relationships[n]) : Admits(relationships[n].to, e.to)

(* Choosing a discriminator loses no more of a collection's documents than *)
(* its coverage admits: the others belong to a class, labels in arrays     *)
(* included, when every discriminator holds a label.                       *)
FewAreLost ==
    Enriched /\ Quiet /\ Complete /\ Uniform /\ strategy = "heuristic"
    /\ (\A d \in docs : d.field # None => d.values # {})
    => \A c \in Collection :
          LET lost == In(c) \ UNION {Members(entities[n]) : n \in DOMAIN entities}
          IN  \/ (c \in DOMAIN entities /\ entities[c].style = "RPT")
              \/ Cardinality(lost) * CoverDen <= (CoverDen - CoverNum) * Cardinality(In(c))

(* A bundle cut down to a graph names only classes it keeps, when the      *)
(* edges of the graph's edge collections run inside the graph.             *)
ScopeIsClosed ==
    /\ stage = "done" /\ graph # Whole /\ Quiet /\ Complete /\ Uniform /\ strategy = "heuristic"
    /\ \A e \in edges : e.in \in graph.edges => {e.from[1], e.to[1]} \subseteq graph.vertex
    => \A n \in Stored : Declared(n)

(* A collection of triples is served as nothing else: the RPT entry wins   *)
(* over the analyzer's (the docstring of _apply_rpt_enrichment).           *)
RptEntryWins ==
    Enriched => \A n, m \in DOMAIN entities :
       entities[n].style = "RPT" /\ entities[m].collection = entities[n].collection => n = m

(* Strictly additive: an endpoint that is pinned stays what it is.         *)
PinnedStays ==
    [][\A n \in DOMAIN relationships \cap DOMAIN relationships' :
          /\ relationships[n].from # ANY_ENTITY => relationships'[n].from = relationships[n].from
          /\ relationships[n].to # ANY_ENTITY => relationships'[n].to = relationships[n].to]_vars
=============================================================================
