-------------------------- MODULE AcquiredOntology --------------------------
(***************************************************************************)
(* An acquired mapping on its way to a query: resolved itself, exported    *)
(* and imported, or merged into the ontology of a request.                 *)
(***************************************************************************)
EXTENDS Acquisition

CONSTANT Quoted  \* the percent-encoding of each name

Onto == INSTANCE Ontology WITH Nothing <- None

(* What a class or a relationship may be called. *)
Name ==
    Collection \cup EdgeCollection \cup {ClassOf[c] : c \in Collection}
    \cup (UNION {d.values : d \in Doc}) \cup {e.type : e \in Edge} \cup {d.row.p : d \in Doc}

(* quote(label, safe="") loses nothing.                                    *)
ASSUME EncodingIsOneToOne == \A m, n \in Name : Quoted[m] = Quoted[n] => m = n

----------------------------------------------------------------------------
(* The bundle as it goes over the wire *)

Flag(e) == IF e.array = "unknown" THEN {} ELSE {<<"typeFieldIsArray", e.array>>}

EntitySpec(e) ==
    {<<"mappingStyle", e.style>>} \cup
    CASE e.style = "RPT" -> {<<"triplesCollection", e.collection>>}
      [] e.style = "LABEL" -> {<<"collectionName", e.collection>>, <<"typeField", e.field>>,
                               <<"typeValue", e.value>>} \cup Flag(e)
      [] OTHER -> {<<"collectionName", e.collection>>}

RelationshipSpec(r) ==
    {<<"mappingStyle", r.style>>, <<"fromEntity", r.from>>, <<"toEntity", r.to>>} \cup
    CASE r.style = "RPT_EDGE" -> {<<"triplesCollection", r.collection>>}
      [] r.style = "GENERIC_WITH_TYPE" -> {<<"edgeCollectionName", r.collection>>,
                                           <<"typeField", "type">>, <<"typeValue", r.value>>}
      [] OTHER -> {<<"edgeCollectionName", r.collection>>}

Specified(es, rs, owl) ==
    [entities |-> [n \in DOMAIN es |-> EntitySpec(es[n])],
     relationships |-> [n \in DOMAIN rs |-> RelationshipSpec(rs[n])],
     owl |-> owl, imported |-> FALSE]

(* The text of the analyzer annotates what it describes as an export does; *)
(* one that describes nothing is no text.                                  *)
export_conceptual_model_as_owl_turtle(es, rs) ==
    Onto!_synthesize_graph_from_bundle(Specified(es, rs, Onto!Empty))

Wire ==
    Specified(entities, relationships,
              export_conceptual_model_as_owl_turtle(text.entities, text.relationships))

----------------------------------------------------------------------------
(* What a query reads *)

(* The test of a discriminator, by the shape of its field if it is known.  *)
type_predicate(d, r) ==
    d.field = r.field /\ r.value \in d.values /\ (r.array = None \/ d.array = (r.array = "yes"))

Reads(r) ==
    {d \in In(r.collection) : r.field # None /\ r.value # None => type_predicate(d, r)}

ReadsEdges(r) ==
    {e \in EdgesIn(r.collection) : r.style = "GENERIC_WITH_TYPE" => e.type = r.value}

----------------------------------------------------------------------------
(* Properties *)

(* The class is read where the bundle says it is stored.                   *)
ReadsClass(r, e) ==
    /\ r # Onto!Refused
    /\ r.style = "RPT" <=> e.style = "RPT"
    /\ IF e.style = "RPT" THEN r.collection = e.collection ELSE Reads(r) = Members(e)

ReadsRelationship(r, rel) ==
    /\ r # Onto!Refused /\ r.style = rel.style
    /\ rel.style # "RPT_EDGE" => r.collection = rel.collection /\ ReadsEdges(r) = EdgesOf(rel)

ReadsTheSame(g, names) ==
    /\ \A n \in DOMAIN entities \cap names : \A r \in Onto!_resolve_class(g, Quoted[n]) :
          ReadsClass(r, entities[n])
    /\ \A n \in DOMAIN relationships \cap names : \A r \in Onto!_resolve_property(g, Quoted[n]) :
          ReadsRelationship(r, relationships[n])

Names == DOMAIN entities \cup DOMAIN relationships
Shared == DOMAIN entities \cap DOMAIN relationships

(* What the text of an analyzer does not describe, or not as the bundle    *)
(* does: the entries of triples, which are put in later.                   *)
Overlaid ==
    IF text = NoText THEN {}
    ELSE {n \in DOMAIN entities : entities[n].style = "RPT"} \cup
         {n \in DOMAIN relationships : relationships[n].style = "RPT_EDGE"}
Own == Names \ (Shared \cup Overlaid)

(* No name is the encoding of another. *)
Unmixed == \A m, n \in Names : Quoted[m] = n => m = n

Finished == stage = "done" /\ graph = Whole /\ Quiet /\ Uniform

Imported(b) == Onto!turtle_to_mapping(Onto!mapping_to_turtle(b))

(* An ontology that declares the names and says no more of them.           *)
Bare ==
    [iri \in {Quoted[n] : n \in Names} |->
        {<<"a", "Class">> : n \in {m \in DOMAIN entities : Quoted[m] = iri}} \cup
        {<<"a", "ObjectProperty">> : n \in {m \in DOMAIN relationships : Quoted[m] = iri}}]

(* One that places a class itself, where the bundle does.                  *)
Placing(n) ==
    [Bare EXCEPT ![Quoted[n]] = @ \cup {<<"collectionName", entities[n].collection>>}]

(* A mapping says the same of every class and relationship when it is      *)
(* resolved itself, after an export and an import, by a request that       *)
(* brings the export back, and by one that only declares the names of an   *)
(* imported one: the cycle of export and import preserves it (the          *)
(* docstring of translate/owl.py), as far as no class and relationship     *)
(* have one name and no name is the encoding of another.  An analyzer's    *)
(* mapping is exported as the analyzer's text: it says the same of what    *)
(* the analyzer found, whatever the passes did to the mapping since, but   *)
(* knows no triples.                                                       *)
OntologyKeepsMeaning ==
    Finished /\ Unmixed =>
    LET exported == Onto!mapping_to_turtle(Wire)
        imported == Onto!turtle_to_mapping(exported)
    IN  \A g \in {exported, Onto!_resolver_from_request(Onto!Empty, imported),
                  Onto!_resolver_from_request(exported, Wire),
                  Onto!_resolver_from_request(Bare, imported)} :
           ReadsTheSame(g, Own)

(* A class or property that a request's ontology declares and does not     *)
(* annotate inherits the discovered mapping (the docstring of              *)
(* _resolver_from_request), by local name: a name that is percent-encoded  *)
(* there does not match.  The shape of a label's field is not inherited,   *)
(* and the test of an unknown shape matches both.                          *)
BareInheritsMeaning ==
    Finished =>
    \A g \in {Bare} \cup {Placing(n) : n \in {m \in DOMAIN entities : entities[m].style # "RPT"}} :
       ReadsTheSame(Onto!_resolver_from_request(g, Wire), {n \in Names \ Shared : Quoted[n] = n})

(* Also what the triples pass put into an analyzer's mapping.              *)
TriplesKeepMeaning == Finished => ReadsTheSame(Onto!mapping_to_turtle(Wire), Names \ Shared)

(* Also when a label and a type of edge have the same name.                *)
SharedNamesKeepMeaning == Finished => ReadsTheSame(Onto!mapping_to_turtle(Wire), Names \ Overlaid)

(* Also when one name is the encoding of another: the bundle is looked up  *)
(* by encodings.                                                           *)
MixedNamesKeepMeaning ==
    Finished => ReadsTheSame(Onto!_resolver_from_request(Onto!mapping_to_turtle(Wire), Wire), Own)

(* The names of an exported mapping are those of its import (the docstring *)
(* of _synthetic_iri: a round-trippable IRI).                              *)
NamesSurvive == Finished => DOMAIN entities \ Overlaid \subseteq DOMAIN Imported(Wire).entities

(* A class that a request's ontology places elsewhere is not tested for    *)
(* the discriminator of the collection the bundle knows.                   *)
PlacedIsNotMixed ==
    Finished =>
    \A n \in DOMAIN entities, c \in Collection :
       LET own == [Bare EXCEPT ![Quoted[n]] = @ \cup {<<"collectionName", c>>}]
       IN  c # entities[n].collection =>
           \A r \in Onto!_resolve_class(Onto!_resolver_from_request(own, Wire), Quoted[n]) :
              r.field = None
=============================================================================
