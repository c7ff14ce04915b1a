------------------------------ MODULE Ontology ------------------------------
(***************************************************************************)
(* A mapping as an OWL ontology (translate/owl.py, translate/resolver.py,  *)
(* service/mapping.py): exported, imported, merged into the ontology that  *)
(* comes with a request, and resolved to where a class or a property is    *)
(* stored.                                                                 *)
(*                                                                         *)
(* A specification of a bundle is a set of <<field, value>>; so is a node  *)
(* of an ontology, whose fields are the annotations "phys:".  An ontology  *)
(* is a function from local names to nodes; the spellings of "phys:" and   *)
(* the syntax of Turtle are left out, and so are datatype properties and   *)
(* supertypes.                                                             *)
(* A bundle is [entities, relationships, owl, imported].                   *)
(***************************************************************************)
EXTENDS FiniteSets

CONSTANTS
    Nothing,   \* no value
    Quoted     \* of each name, its percent-encoding

Empty == [n \in {} |-> {}]  \* the ontology without a triple

Values(node, field) == {s[2] : s \in {x \in node : x[1] = field}}
Has(node, field) == Values(node, field) # {}
Only(node, fields) == {s \in node : s[1] \in fields}

(* One value of the field, or the default.  rdflib gives any of several.   *)
Get(node, field, default) ==
    IF Has(node, field) THEN CHOOSE v \in Values(node, field) : TRUE ELSE default

IsClass(node) == <<"a", "Class">> \in node
IsObjectProperty(node) == <<"a", "ObjectProperty">> \in node

----------------------------------------------------------------------------
(* A bundle as an ontology *)

Columns == {"subjectColumn", "predicateColumn", "objectUriColumn", "objectValueColumn"}
Tenancy == {"tenantField", "tenantEntity"}

_BUNDLE_ENTITY_ANNOTATIONS ==
    {"typeField", "typeValue", "typeFieldIsArray", "triplesCollection", "labelsField", "labelValue"}
    \cup Columns \cup Tenancy
_BUNDLE_RELATIONSHIP_ANNOTATIONS == {"typeField", "typeValue", "triplesCollection"}

(* The collection stated, or for triples their table.                      *)
Stated(spec, field, rpt) ==
    IF Has(spec, field) THEN Only(spec, {field})
    ELSE IF Get(spec, "mappingStyle", Nothing) = rpt
         THEN {<<field, Get(spec, "triplesCollection", "_triples")>>} ELSE {}

ClassNode(spec) ==
    {<<"a", "Class">>, <<"mappingStyle", Get(spec, "mappingStyle", "COLLECTION")>>}
    \cup Stated(spec, "collectionName", "RPT") \cup Only(spec, _BUNDLE_ENTITY_ANNOTATIONS)

PropertyNode(spec) ==
    {<<"a", "ObjectProperty">>, <<"mappingStyle", Get(spec, "mappingStyle", "DEDICATED_COLLECTION")>>}
    \cup Stated(spec, "edgeCollectionName", "RPT_EDGE")
    \cup Only(spec, _BUNDLE_RELATIONSHIP_ANNOTATIONS)
    \cup {<<"domain", Quoted[c]>> : c \in Values(spec, "fromEntity")}
    \cup {<<"range", Quoted[c]>> : c \in Values(spec, "toEntity")}

(* A class and a relationship of one name are one node.                    *)
_synthesize_graph_from_bundle(b) ==
    [iri \in {Quoted[n] : n \in DOMAIN b.entities \cup DOMAIN b.relationships} |->
        (UNION {ClassNode(b.entities[n]) : n \in {m \in DOMAIN b.entities : Quoted[m] = iri}}) \cup
        UNION {PropertyNode(b.relationships[n]) :
                  n \in {m \in DOMAIN b.relationships : Quoted[m] = iri}}]

(* Also what SchemaResolver.from_mapping_bundle resolves by.               *)
mapping_to_turtle(b) == IF b.owl # Empty THEN b.owl ELSE _synthesize_graph_from_bundle(b)

----------------------------------------------------------------------------
(* An ontology as a bundle *)

(* Mutants: an annotation is missing from a table. *)
ImportedWithoutDiscriminator ==
    {"collectionName", "edgeCollectionName", "typeField", "typeFieldIsArray", "triplesCollection"}
    \cup Columns \cup Tenancy
InheritedWithoutDiscriminator ==
    {"collectionName", "edgeCollectionName", "typeValue", "triplesCollection", "mappingStyle"}
    \cup Columns \cup Tenancy

_PHYS_TO_ENTITY_FIELD ==
    {"collectionName", "edgeCollectionName", "typeField", "typeValue", "typeFieldIsArray",
     "triplesCollection"} \cup Columns \cup Tenancy
_PHYS_TO_RELATIONSHIP_FIELD ==
    {"edgeCollectionName", "typeField", "typeValue", "triplesCollection"} \cup Tenancy

Harvest(node, fields) ==
    {<<f, Get(node, f, Nothing)>> : f \in {g \in fields : Has(node, g)}}

_entities_from_graph(g) ==
    [iri \in {i \in DOMAIN g : IsClass(g[i])} |->
        Harvest(g[iri], _PHYS_TO_ENTITY_FIELD)
        \cup {<<"mappingStyle", Get(g[iri], "mappingStyle", "COLLECTION")>>}]

_relationships_from_graph(g) ==
    [iri \in {i \in DOMAIN g : IsObjectProperty(g[i])} |->
        Harvest(g[iri], _PHYS_TO_RELATIONSHIP_FIELD)
        \cup {<<"mappingStyle", Get(g[iri], "mappingStyle", "DEDICATED_COLLECTION")>>}
        \cup {<<"fromEntity", c>> : c \in Values(g[iri], "domain")}
        \cup {<<"toEntity", c>> : c \in Values(g[iri], "range")}]

turtle_to_mapping(g) ==
    [entities |-> _entities_from_graph(g), relationships |-> _relationships_from_graph(g),
     owl |-> g, imported |-> TRUE]

----------------------------------------------------------------------------
(* The ontology of a request *)

_ENTITY_FIELD_TO_PHYS_LOCAL ==
    {"collectionName", "edgeCollectionName", "typeField", "typeValue", "triplesCollection",
     "mappingStyle"} \cup Columns \cup Tenancy
_REL_FIELD_TO_PHYS_LOCAL ==
    {"edgeCollectionName", "typeField", "typeValue", "triplesCollection", "mappingStyle"}
    \cup Tenancy

(* What the node does not say itself it takes from the specification.      *)
_apply_phys_annotations(node, spec, fields) ==
    node \cup {s \in Only(spec, fields) : ~Has(node, s[1])}

_enrich_graph_with_bundle(g, b) ==
    LET classes == [i \in DOMAIN g |->
            IF IsClass(g[i]) /\ i \in DOMAIN b.entities
            THEN _apply_phys_annotations(g[i], b.entities[i], _ENTITY_FIELD_TO_PHYS_LOCAL)
            ELSE g[i]]
    IN  [i \in DOMAIN g |->
            IF IsObjectProperty(g[i]) /\ i \in DOMAIN b.relationships
            THEN _apply_phys_annotations(classes[i], b.relationships[i], _REL_FIELD_TO_PHYS_LOCAL)
            ELSE classes[i]]

(* The ontology that comes with the request, or an imported one.           *)
_resolver_from_request(inline, b) ==
    _enrich_graph_with_bundle(IF inline = Empty /\ b.imported THEN b.owl ELSE inline, b)

----------------------------------------------------------------------------
(* Resolution: the possible results, of which Refused is an error *)

CLASS_MAPPING_STYLES ==
    {"COLLECTION", "DOCUMENT", "LABEL", "LABELS", "MULTI_LABEL", "RPT", "UNION"}
Refused == [collection |-> Nothing, style |-> Nothing]

_physical_string(node, field) == IF Has(node, field) THEN Values(node, field) ELSE {Nothing}

Located(iri, node, style) ==
    LET labels == style \in {"LABELS", "MULTI_LABEL"}
        Default(c) ==
            IF c # Nothing THEN c
            ELSE IF style = "RPT" THEN Get(node, "triplesCollection", "_triples") ELSE iri
        Value(v) == IF labels /\ v = Nothing THEN iri ELSE v
    IN  {[style |-> style, collection |-> Default(c), field |-> f, value |-> Value(v),
          array |-> IF labels THEN "yes" ELSE a] :
            c \in _physical_string(node, "collectionName"),
            f \in _physical_string(node, IF labels THEN "labelsField" ELSE "typeField"),
            v \in _physical_string(node, IF labels THEN "labelValue" ELSE "typeValue"),
            a \in _physical_string(node, "typeFieldIsArray")}

(* A supertype has no collection of its own. *)
Union == [style |-> "UNION", collection |-> "", field |-> Nothing, value |-> Nothing, array |-> Nothing]

_resolve_class(g, iri) ==
    IF iri \notin DOMAIN g \/ ~IsClass(g[iri]) THEN {Refused}
    ELSE LET Of(style) ==
                IF style \notin CLASS_MAPPING_STYLES \cup {Nothing} THEN {Refused}
                ELSE IF style = "UNION" THEN {Union}
                ELSE {IF style \in {"LABELS", "MULTI_LABEL"} /\ r.field = Nothing THEN Refused ELSE r :
                         r \in Located(iri, g[iri], style)}
         IN  UNION {Of(style) : style \in _physical_string(g[iri], "mappingStyle")}

(* Without a style, a discriminator tells. *)
StyleOf(style, f, v, collection) ==
    IF style # Nothing THEN style
    ELSE IF Nothing \notin {f, v} THEN "GENERIC_WITH_TYPE"
    ELSE IF collection # Nothing THEN "DEDICATED_COLLECTION" ELSE Nothing

_resolve_property(g, iri) ==
    IF iri \notin DOMAIN g \/ ~IsObjectProperty(g[iri]) THEN {Refused}
    ELSE {[style |-> StyleOf(s, f, v, c), collection |-> c, field |-> f, value |-> v] :
             c \in _physical_string(g[iri], "edgeCollectionName"),
             s \in _physical_string(g[iri], "mappingStyle"),
             f \in _physical_string(g[iri], "typeField"),
             v \in _physical_string(g[iri], "typeValue")}
=============================================================================
