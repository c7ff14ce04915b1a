---------------------- MODULE AcquiredOntologyProofs ----------------------
(***************************************************************************)
(* An acquired mapping means the same on every way to a query, for any     *)
(* data, samples and names.                                                *)
(***************************************************************************)
EXTENDS AcquiredOntology, AcquisitionProofs

----------------------------------------------------------------------------
(* Lemmas on annotations *)

Said(f, v) == {<<f, v>>}

LEMMA ValuesOfParts ==
  /\ \A f, a, b : Onto!Values(a \cup b, f) = Onto!Values(a, f) \cup Onto!Values(b, f)
  /\ \A f, a, fs : Onto!Values(Onto!Only(a, fs), f) = IF f \in fs THEN Onto!Values(a, f) ELSE {}
  /\ \A f, g, v : Onto!Values(Said(g, v), f) = IF f = g THEN {v} ELSE {}
  /\ \A f : Onto!Values({}, f) = {}
<1>1. \A f, a, b : Onto!Values(a \cup b, f) = Onto!Values(a, f) \cup Onto!Values(b, f)
  BY DEF Onto!Values
<1>2. \A f, a, fs : Onto!Values(Onto!Only(a, fs), f) = IF f \in fs THEN Onto!Values(a, f) ELSE {}
  BY DEF Onto!Values, Onto!Only
<1>3. \A f, g, v : Onto!Values(Said(g, v), f) = IF f = g THEN {v} ELSE {}
  <2> TAKE f, g, v
  <2>1. <<g, v>>[1] = g /\ <<g, v>>[2] = v
    OBVIOUS
  <2> DEFINE pair == <<g, v>>
  <2>2. pair[1] = g /\ pair[2] = v
    BY <2>1
  <2> HIDE DEF pair
  <2>3. Onto!Values({pair}, f) = IF f = g THEN {v} ELSE {}
    <3>1. CASE f = g
      <4>1. {x \in {pair} : x[1] = f} = {pair}
        BY <2>2, <3>1
      <4> QED BY <2>2, <3>1, <4>1 DEF Onto!Values
    <3>2. CASE f # g
      <4>1. {x \in {pair} : x[1] = f} = {}
        BY <2>2, <3>2
      <4> QED BY <3>2, <4>1 DEF Onto!Values
    <3> QED BY <3>1, <3>2
  <2> QED BY <2>3 DEF pair, Said
<1>4. \A f : Onto!Values({}, f) = {}
  BY DEF Onto!Values
<1> QED BY <1>1, <1>2, <1>3, <1>4

LEMMA ValuesOfThree ==
  ASSUME NEW f, NEW a, NEW b, NEW c
  PROVE  Onto!Values(a \cup b \cup c, f) =
            Onto!Values(a, f) \cup Onto!Values(b, f) \cup Onto!Values(c, f)
BY DEF Onto!Values

LEMMA ValuesOfFour ==
  ASSUME NEW f, NEW a, NEW b, NEW c, NEW d
  PROVE  Onto!Values(a \cup b \cup c \cup d, f) =
            Onto!Values(a, f) \cup Onto!Values(b, f) \cup Onto!Values(c, f) \cup Onto!Values(d, f)
BY DEF Onto!Values

LEMMA SoleValue ==
  ASSUME NEW node, NEW f, NEW v, Onto!Values(node, f) = {v}
  PROVE  Onto!Has(node, f) /\ \A default : Onto!Get(node, f, default) = v
BY DEF Onto!Has, Onto!Get

LEMMA ValuesHarvested ==
  ASSUME NEW node, NEW fs, NEW f
  PROVE  Onto!Values(Onto!Harvest(node, fs), f) =
            IF f \in fs /\ Onto!Has(node, f) THEN {Onto!Get(node, f, None)} ELSE {}
<1> DEFINE said == {g \in fs : Onto!Has(node, g)}
           harvest == {<<g, Onto!Get(node, g, None)>> : g \in said}
<1>1. harvest = Onto!Harvest(node, fs)
  BY DEF Onto!Harvest
<1>2. \A x \in harvest : \E g \in said : x[1] = g /\ x[2] = Onto!Get(node, g, None)
  OBVIOUS
<1>3. \A g \in said : \E x \in harvest : x[1] = g /\ x[2] = Onto!Get(node, g, None)
  <2> TAKE g \in said
  <2> WITNESS <<g, Onto!Get(node, g, None)>> \in harvest
  <2> QED OBVIOUS
<1> HIDE DEF harvest
<1>4. Onto!Values(harvest, f) = {x[2] : x \in {y \in harvest : y[1] = f}}
  BY DEF Onto!Values
<1>5. CASE f \in said
  <2>1. \A x \in harvest : x[1] = f => x[2] = Onto!Get(node, f, None)
    BY <1>2
  <2>2. \E x \in harvest : x[1] = f /\ x[2] = Onto!Get(node, f, None)
    BY <1>3, <1>5
  <2> QED BY <1>1, <1>4, <1>5, <2>1, <2>2
<1>6. CASE f \notin said
  BY <1>1, <1>2, <1>4, <1>6
<1> QED BY <1>5, <1>6

(* What a node says itself stays, what it does not say is inherited.       *)
LEMMA ValuesInherited ==
  ASSUME NEW node, NEW spec, NEW fs, NEW f
  PROVE  Onto!Values(Onto!_apply_phys_annotations(node, spec, fs), f) =
            IF Onto!Values(node, f) = {} /\ f \in fs THEN Onto!Values(spec, f)
            ELSE Onto!Values(node, f)
<1> DEFINE added == {s \in Onto!Only(spec, fs) : ~ Onto!Has(node, s[1])}
<1>1. Onto!Values(added, f) = IF Onto!Values(node, f) = {} /\ f \in fs THEN Onto!Values(spec, f) ELSE {}
  BY DEF Onto!Values, Onto!Only, Onto!Has
<1>2. Onto!_apply_phys_annotations(node, spec, fs) = node \cup added
  BY DEF Onto!_apply_phys_annotations
<1> HIDE DEF added
<1>3. Onto!Values(node \cup added, f) = Onto!Values(node, f) \cup Onto!Values(added, f)
  BY ValuesOfParts
<1> QED BY <1>1, <1>2, <1>3

LEMMA NothingInherited ==
  ASSUME NEW node, NEW spec, NEW fs,
         \A f \in fs : Onto!Values(node, f) = {} => Onto!Values(spec, f) = {}
  PROVE  Onto!_apply_phys_annotations(node, spec, fs) = node
<1> SUFFICES ASSUME NEW s \in Onto!Only(spec, fs), ~ Onto!Has(node, s[1]) PROVE FALSE
  BY DEF Onto!_apply_phys_annotations
<1>1. s \in spec /\ s[1] \in fs
  BY DEF Onto!Only
<1>2. s[2] \in Onto!Values(spec, s[1])
  BY <1>1 DEF Onto!Values
<1> QED BY <1>1, <1>2 DEF Onto!Has

----------------------------------------------------------------------------
(* What a node, or a specification, says of a class and of a relationship  *)

WellFormed(e) ==
    /\ e.style \in {"RPT", "COLLECTION", "LABEL"} /\ e.array \in {"unknown", "yes", "no"}
    /\ e.style = "LABEL" => e.field # None /\ e.value # None

WellTyped(r) ==
    /\ r.style \in {"RPT_EDGE", "GENERIC_WITH_TYPE", "DEDICATED_COLLECTION"}
    /\ r.style = "GENERIC_WITH_TYPE" => r.value # None
    /\ r.style = "DEDICATED_COLLECTION" => r.value = None

Discriminated(e, v) == IF e.style = "LABEL" THEN {v} ELSE {}
Columnar == Onto!Columns \cup Onto!Tenancy \cup {"edgeCollectionName", "labelsField", "labelValue"}

(* The shape of a label's field may be lost, but not altered.              *)
SaysOfClass(node, e) ==
    /\ Onto!Values(node, "mappingStyle") = {e.style}
    /\ IF e.style = "RPT"
       THEN /\ Onto!Values(node, "triplesCollection") = {e.collection}
            /\ Onto!Values(node, "collectionName") \subseteq {e.collection}
       ELSE /\ Onto!Values(node, "collectionName") = {e.collection}
            /\ Onto!Values(node, "triplesCollection") = {}
    /\ Onto!Values(node, "typeField") = Discriminated(e, e.field)
    /\ Onto!Values(node, "typeValue") = Discriminated(e, e.value)
    /\ Onto!Values(node, "typeFieldIsArray") \subseteq (IF e.array = "unknown" THEN {} ELSE {e.array})
    /\ \A f \in Columnar : Onto!Values(node, f) = {}

SaysOfRelationship(node, r) ==
    /\ Onto!Values(node, "mappingStyle") = {r.style}
    /\ IF r.style = "RPT_EDGE"
       THEN /\ Onto!Values(node, "triplesCollection") = {r.collection}
            /\ Onto!Values(node, "edgeCollectionName") \subseteq {r.collection}
       ELSE /\ Onto!Values(node, "edgeCollectionName") = {r.collection}
            /\ Onto!Values(node, "triplesCollection") = {}
    /\ Onto!Values(node, "typeField") = (IF r.style = "GENERIC_WITH_TYPE" THEN {"type"} ELSE {})
    /\ Onto!Values(node, "typeValue") = (IF r.style = "GENERIC_WITH_TYPE" THEN {r.value} ELSE {})
    /\ \A f \in Onto!Tenancy : Onto!Values(node, f) = {}

(* The specifications of a bundle say so. *)
LEMMA EntitySpecSays ==
  ASSUME NEW e, WellFormed(e)
  PROVE  SaysOfClass(EntitySpec(e), e) /\ Onto!Values(EntitySpec(e), "a") = {}
<1> DEFINE V(f) == Onto!Values(EntitySpec(e), f)
           style == Said("mappingStyle", e.style)
           table == Said("triplesCollection", e.collection)
           place == Said("collectionName", e.collection)
           field == Said("typeField", e.field)
           value == Said("typeValue", e.value)
<1>1. /\ \A f : Onto!Values(style, f) = IF f = "mappingStyle" THEN {e.style} ELSE {}
      /\ \A f : Onto!Values(table, f) = IF f = "triplesCollection" THEN {e.collection} ELSE {}
      /\ \A f : Onto!Values(place, f) = IF f = "collectionName" THEN {e.collection} ELSE {}
      /\ \A f : Onto!Values(field, f) = IF f = "typeField" THEN {e.field} ELSE {}
      /\ \A f : Onto!Values(value, f) = IF f = "typeValue" THEN {e.value} ELSE {}
  BY ValuesOfParts
<1>2. \A f : Onto!Values(Flag(e), f) =
                IF f = "typeFieldIsArray" /\ e.array # "unknown" THEN {e.array} ELSE {}
  <2>1. CASE e.array = "unknown"
    <3>1. Flag(e) = {}
      BY <2>1 DEF Flag
    <3> QED BY <2>1, <3>1, ValuesOfParts
  <2>2. CASE e.array # "unknown"
    <3>1. Flag(e) = Said("typeFieldIsArray", e.array)
      BY <2>2 DEF Flag, Said
    <3> QED BY <2>2, <3>1, ValuesOfParts
  <2> QED BY <2>1, <2>2
<1>3. CASE e.style = "RPT"
  <2>1. EntitySpec(e) = style \cup table
    BY <1>3 DEF EntitySpec, Said
  <2> HIDE DEF style, table
  <2>2. \A f : V(f) = Onto!Values(style, f) \cup Onto!Values(table, f)
    BY <2>1, ValuesOfParts
  <2> QED BY <1>1, <1>3, <2>2 DEF SaysOfClass, Discriminated, Columnar, Onto!Columns, Onto!Tenancy
<1>4. CASE e.style = "COLLECTION"
  <2>1. EntitySpec(e) = style \cup place
    BY <1>4 DEF EntitySpec, Said
  <2> HIDE DEF style, place
  <2>2. \A f : V(f) = Onto!Values(style, f) \cup Onto!Values(place, f)
    BY <2>1, ValuesOfParts
  <2> QED BY <1>1, <1>4, <2>2 DEF SaysOfClass, Discriminated, Columnar, Onto!Columns, Onto!Tenancy
<1>5. CASE e.style = "LABEL"
  <2>1. EntitySpec(e) = style \cup place \cup field \cup value \cup Flag(e)
    BY <1>5 DEF EntitySpec, Said
  <2> HIDE DEF style, place, field, value
  <2>2. \A f : V(f) = Onto!Values(style, f) \cup Onto!Values(place, f) \cup Onto!Values(field, f)
                    \cup Onto!Values(value, f) \cup Onto!Values(Flag(e), f)
    <3> TAKE f
    <3> DEFINE four == style \cup place \cup field \cup value
               flag == Flag(e)
    <3>1. Onto!Values(four, f) = Onto!Values(style, f) \cup Onto!Values(place, f)
                                 \cup Onto!Values(field, f) \cup Onto!Values(value, f)
      BY ValuesOfFour
    <3>2. EntitySpec(e) = four \cup flag
      BY <2>1
    <3> HIDE DEF four, flag
    <3>3. Onto!Values(four \cup flag, f) = Onto!Values(four, f) \cup Onto!Values(flag, f)
      BY ValuesOfParts
    <3> QED BY <3>1, <3>2, <3>3 DEF flag
  <2> HIDE DEF V
  <2>3. /\ V("mappingStyle") = {e.style} /\ V("collectionName") = {e.collection}
        /\ V("triplesCollection") = {} /\ V("typeField") = {e.field} /\ V("typeValue") = {e.value}
        /\ V("typeFieldIsArray") = (IF e.array = "unknown" THEN {} ELSE {e.array})
        /\ V("a") = {}
    BY <1>1, <1>2, <2>2
  <2>4. \A f \in Columnar : V(f) = {}
    BY <1>1, <1>2, <2>2 DEF Columnar, Onto!Columns, Onto!Tenancy
  <2> QED BY <1>5, <2>3, <2>4 DEF SaysOfClass, Discriminated, V
<1> QED BY <1>3, <1>4, <1>5 DEF WellFormed

LEMMA RelationshipSpecSays ==
  ASSUME NEW r, WellTyped(r)
  PROVE  SaysOfRelationship(RelationshipSpec(r), r) /\ Onto!Values(RelationshipSpec(r), "a") = {}
<1> DEFINE V(f) == Onto!Values(RelationshipSpec(r), f)
           style == Said("mappingStyle", r.style)
           from == Said("fromEntity", r.from)
           to == Said("toEntity", r.to)
           table == Said("triplesCollection", r.collection)
           place == Said("edgeCollectionName", r.collection)
           field == Said("typeField", "type")
           value == Said("typeValue", r.value)
<1>1. /\ \A f : Onto!Values(style, f) = IF f = "mappingStyle" THEN {r.style} ELSE {}
      /\ \A f : Onto!Values(from, f) = IF f = "fromEntity" THEN {r.from} ELSE {}
      /\ \A f : Onto!Values(to, f) = IF f = "toEntity" THEN {r.to} ELSE {}
      /\ \A f : Onto!Values(table, f) = IF f = "triplesCollection" THEN {r.collection} ELSE {}
      /\ \A f : Onto!Values(place, f) = IF f = "edgeCollectionName" THEN {r.collection} ELSE {}
      /\ \A f : Onto!Values(field, f) = IF f = "typeField" THEN {"type"} ELSE {}
      /\ \A f : Onto!Values(value, f) = IF f = "typeValue" THEN {r.value} ELSE {}
  BY ValuesOfParts
<1> DEFINE ends == style \cup from \cup to
<1>2. /\ r.style = "RPT_EDGE" => RelationshipSpec(r) = ends \cup table
      /\ r.style = "GENERIC_WITH_TYPE" => RelationshipSpec(r) = ends \cup place \cup field \cup value
      /\ r.style = "DEDICATED_COLLECTION" => RelationshipSpec(r) = ends \cup place
  BY DEF RelationshipSpec, Said
<1> HIDE DEF style, from, to, table, place, field, value
<1>6. \A f : Onto!Values(ends, f) = Onto!Values(style, f) \cup Onto!Values(from, f) \cup Onto!Values(to, f)
  BY ValuesOfThree
<1> HIDE DEF ends
<1>3. CASE r.style = "RPT_EDGE"
  <2>1. \A f : V(f) = Onto!Values(ends, f) \cup Onto!Values(table, f)
    BY <1>2, <1>3, ValuesOfParts
  <2> QED BY <1>1, <1>3, <1>6, <2>1 DEF SaysOfRelationship, Onto!Tenancy
<1>4. CASE r.style = "GENERIC_WITH_TYPE"
  <2>1. \A f : V(f) = Onto!Values(ends, f) \cup Onto!Values(place, f) \cup Onto!Values(field, f)
                    \cup Onto!Values(value, f)
    BY <1>2, <1>4, ValuesOfFour
  <2> QED BY <1>1, <1>4, <1>6, <2>1 DEF SaysOfRelationship, Onto!Tenancy
<1>5. CASE r.style = "DEDICATED_COLLECTION"
  <2>1. \A f : V(f) = Onto!Values(ends, f) \cup Onto!Values(place, f)
    BY <1>2, <1>5, ValuesOfParts
  <2> QED BY <1>1, <1>5, <1>6, <2>1 DEF SaysOfRelationship, Onto!Tenancy
<1> QED BY <1>3, <1>4, <1>5 DEF WellTyped

----------------------------------------------------------------------------
(* What is said so is read so *)

(* A class is read where it is stored.  The test of a shape that is not    *)
(* known matches both, and in uniform data every label has the one flagged.*)
LEMMA ClassIsRead ==
  ASSUME Uniform, NEW e, WellFormed(e), e.collection \in Collection, Flagged(docs, e),
         NEW g, NEW iri \in DOMAIN g, Onto!IsClass(g[iri]), SaysOfClass(g[iri], e),
         NEW r \in Onto!_resolve_class(g, iri)
  PROVE  ReadsClass(r, e)
<1> DEFINE node == g[iri]
<1>1. Onto!_physical_string(node, "mappingStyle") = {e.style}
  BY DEF SaysOfClass, Onto!_physical_string, Onto!Has
<1>2. e.style \in {"RPT", "COLLECTION", "LABEL"} /\ e.style \in Onto!CLASS_MAPPING_STYLES
  BY DEF WellFormed, Onto!CLASS_MAPPING_STYLES
<1>3. r \in Onto!Located(iri, node, e.style)
  BY <1>1, <1>2 DEF Onto!_resolve_class
<1> DEFINE place(c) == IF c # None THEN c
                       ELSE IF e.style = "RPT" THEN Onto!Get(node, "triplesCollection", "_triples")
                       ELSE iri
<1>4. PICK c \in Onto!_physical_string(node, "collectionName"),
           f \in Onto!_physical_string(node, "typeField"),
           v \in Onto!_physical_string(node, "typeValue"),
           a \in Onto!_physical_string(node, "typeFieldIsArray") :
         r = [style |-> e.style, collection |-> place(c), field |-> f, value |-> v, array |-> a]
  BY <1>2, <1>3 DEF Onto!Located
<1>5. /\ e.style # "RPT" => c = e.collection
      /\ e.style = "RPT" => c \in {e.collection, None}
      /\ e.style = "RPT" => Onto!Get(node, "triplesCollection", "_triples") = e.collection
  <2>1. e.style = "RPT" => Onto!Values(node, "triplesCollection") = {e.collection}
    BY DEF SaysOfClass
  <2>2. e.style = "RPT" => Onto!Get(node, "triplesCollection", "_triples") = e.collection
    BY <2>1, SoleValue
  <2> QED BY <1>4, <2>2 DEF SaysOfClass, Onto!_physical_string, Onto!Has
<1>6. e.collection # None
  BY NoneIsNoName
<1>7. r.style = e.style /\ r.collection = e.collection /\ r.field = f /\ r.value = v /\ r.array = a
  <2>1. place(c) = e.collection
    BY <1>2, <1>5, <1>6
  <2> QED BY <1>4, <2>1
<1>8. r # Onto!Refused
  BY <1>2, <1>7 DEF Onto!Refused, None
<1>9. CASE e.style = "RPT"
  BY <1>7, <1>8, <1>9 DEF ReadsClass
<1>10. CASE e.style = "COLLECTION"
  <2>1. r.field = None
    BY <1>4, <1>7, <1>10 DEF SaysOfClass, Discriminated, Onto!_physical_string, Onto!Has
  <2>2. Reads(r) = Members(e)
    BY <1>7, <1>10, <2>1 DEF Reads, Members
  <2> QED BY <1>7, <1>8, <1>10, <2>2 DEF ReadsClass
<1>11. CASE e.style = "LABEL"
  <2>1. r.field = e.field /\ r.value = e.value /\ e.field # None /\ e.value # None
    BY <1>4, <1>7, <1>11 DEF SaysOfClass, Discriminated, WellFormed, Onto!_physical_string, Onto!Has
  <2>2. r.array = None \/ (e.array # "unknown" /\ r.array = e.array)
    BY <1>4, <1>7 DEF SaysOfClass, Onto!_physical_string, Onto!Has
  <2>3. ASSUME NEW d \in In(e.collection), d.field = e.field, e.value \in d.values
        PROVE  (r.array = None \/ d.array = (r.array = "yes"))
               <=> (e.array = "unknown" \/ d.array = (e.array = "yes"))
    <3>1. CASE e.array = "unknown"
      BY <2>2, <3>1
    <3>2. CASE e.array # "unknown"
      <4>1. PICK x \in Part(docs, e.collection) : x.values # {} /\ x.array = (e.array = "yes")
        BY <3>2 DEF Flagged
      <4>2. d \in docs /\ x \in docs /\ d.in = x.in /\ d.values # {}
        BY <2>3 DEF In, Part
      <4>3. d.array = x.array
        BY <4>1, <4>2 DEF Uniform
      <4> QED BY <2>2, <3>2, <4>1, <4>3
    <3> QED BY <3>1, <3>2
  <2>4. Reads(r) = Members(e)
    BY <1>7, <1>11, <2>1, <2>3 DEF Reads, Members, type_predicate
  <2> QED BY <1>7, <1>8, <1>11, <2>4 DEF ReadsClass
<1> QED BY <1>2, <1>9, <1>10, <1>11

LEMMA RelationshipIsRead ==
  ASSUME NEW rel, WellTyped(rel), NEW g, NEW iri \in DOMAIN g, Onto!IsObjectProperty(g[iri]),
         SaysOfRelationship(g[iri], rel), NEW r \in Onto!_resolve_property(g, iri)
  PROVE  ReadsRelationship(r, rel)
<1> DEFINE node == g[iri]
<1>1. PICK c \in Onto!_physical_string(node, "edgeCollectionName"),
           s \in Onto!_physical_string(node, "mappingStyle"),
           f \in Onto!_physical_string(node, "typeField"),
           v \in Onto!_physical_string(node, "typeValue") :
         r = [style |-> Onto!StyleOf(s, f, v, c), collection |-> c, field |-> f, value |-> v]
  BY DEF Onto!_resolve_property
<1>2. s = rel.style /\ s # None
  BY <1>1 DEF SaysOfRelationship, WellTyped, None, Onto!_physical_string, Onto!Has
<1>3. r.style = rel.style /\ r.collection = c /\ r.value = v
  BY <1>1, <1>2 DEF Onto!StyleOf
<1>4. r # Onto!Refused
  BY <1>2, <1>3 DEF Onto!Refused
<1>5. rel.style # "RPT_EDGE" => c = rel.collection
  BY <1>1 DEF SaysOfRelationship, Onto!_physical_string, Onto!Has
<1>6. rel.style = "GENERIC_WITH_TYPE" => v = rel.value
  BY <1>1 DEF SaysOfRelationship, Onto!_physical_string, Onto!Has
<1>7. rel.style # "RPT_EDGE" => ReadsEdges(r) = EdgesOf(rel)
  BY <1>3, <1>5, <1>6 DEF WellTyped, ReadsEdges, EdgesOf
<1> QED BY <1>3, <1>4, <1>5, <1>7 DEF ReadsRelationship
----------------------------------------------------------------------------
(* The export, the import and the merge preserve what is said *)

LEMMA ClassNodeSays ==
  ASSUME NEW e, NEW spec, SaysOfClass(spec, e), Onto!Values(spec, "a") = {}
  PROVE  LET node == Onto!ClassNode(spec) IN
         /\ Onto!IsClass(node) /\ ~ Onto!IsObjectProperty(node)
         /\ SaysOfClass(node, e) /\ Onto!Values(node, "collectionName") = {e.collection}
<1> DEFINE node == Onto!ClassNode(spec)
           class == Said("a", "Class")
           style == Said("mappingStyle", e.style)
           stated == Onto!Stated(spec, "collectionName", "RPT")
           kept == Onto!Only(spec, Onto!_BUNDLE_ENTITY_ANNOTATIONS)
<1>1. node = class \cup style \cup stated \cup kept
  <2>1. Onto!Values(spec, "mappingStyle") = {e.style}
    BY DEF SaysOfClass
  <2>2. Onto!Get(spec, "mappingStyle", "COLLECTION") = e.style
    BY <2>1, SoleValue
  <2> QED BY <2>2 DEF Onto!ClassNode, Said
<1>2. \A f : Onto!Values(stated, f) = IF f = "collectionName" THEN {e.collection} ELSE {}
  <2>1. CASE Onto!Has(spec, "collectionName")
    <3>1. stated = Onto!Only(spec, {"collectionName"})
      BY <2>1 DEF Onto!Stated
    <3>2. Onto!Values(spec, "collectionName") = {e.collection}
      BY <2>1 DEF SaysOfClass, Onto!Has
    <3> HIDE DEF stated
    <3>3. \A f : Onto!Values(stated, f) = IF f \in {"collectionName"} THEN Onto!Values(spec, f) ELSE {}
      BY <3>1, ValuesOfParts
    <3> QED BY <3>2, <3>3
  <2>2. CASE ~ Onto!Has(spec, "collectionName")
    <3>1. e.style = "RPT" /\ Onto!Values(spec, "triplesCollection") = {e.collection}
          /\ Onto!Values(spec, "mappingStyle") = {e.style}
      BY <2>2 DEF SaysOfClass, Onto!Has
    <3>2. Onto!Get(spec, "mappingStyle", None) = "RPT"
          /\ Onto!Get(spec, "triplesCollection", "_triples") = e.collection
      BY <3>1, SoleValue
    <3>3. stated = Said("collectionName", e.collection)
      BY <2>2, <3>2 DEF Onto!Stated, Said
    <3> HIDE DEF stated
    <3> QED BY <3>3, ValuesOfParts
  <2> QED BY <2>1, <2>2
<1>3. \A f : /\ Onto!Values(class, f) = IF f = "a" THEN {"Class"} ELSE {}
             /\ Onto!Values(style, f) = IF f = "mappingStyle" THEN {e.style} ELSE {}
             /\ Onto!Values(kept, f) = IF f \in Onto!_BUNDLE_ENTITY_ANNOTATIONS
                                       THEN Onto!Values(spec, f) ELSE {}
  BY ValuesOfParts
<1>4. <<"a", "Class">> \in class
  BY DEF Said
<1> HIDE DEF node, class, style, stated, kept
<1>5. \A f : Onto!Values(node, f) =
         Onto!Values(class, f) \cup Onto!Values(style, f) \cup Onto!Values(stated, f) \cup Onto!Values(kept, f)
  BY <1>1, ValuesOfFour
<1>6. /\ Onto!Values(node, "a") = {"Class"} /\ Onto!Values(node, "mappingStyle") = {e.style}
      /\ Onto!Values(node, "collectionName") = {e.collection}
      /\ \A f \in {"triplesCollection", "typeField", "typeValue", "typeFieldIsArray"} :
            Onto!Values(node, f) = Onto!Values(spec, f)
  <2>1. /\ "a" \notin Onto!_BUNDLE_ENTITY_ANNOTATIONS
        /\ "mappingStyle" \notin Onto!_BUNDLE_ENTITY_ANNOTATIONS
        /\ "collectionName" \notin Onto!_BUNDLE_ENTITY_ANNOTATIONS
    BY DEF Onto!_BUNDLE_ENTITY_ANNOTATIONS, Onto!Columns, Onto!Tenancy
  <2>2. \A f \in {"triplesCollection", "typeField", "typeValue", "typeFieldIsArray"} :
           f \in Onto!_BUNDLE_ENTITY_ANNOTATIONS /\ f \notin {"a", "mappingStyle", "collectionName"}
    BY DEF Onto!_BUNDLE_ENTITY_ANNOTATIONS
  <2>3. ASSUME NEW f \in {"triplesCollection", "typeField", "typeValue", "typeFieldIsArray"}
        PROVE  Onto!Values(node, f) = Onto!Values(spec, f)
    <3>1. /\ Onto!Values(class, f) = {} /\ Onto!Values(style, f) = {} /\ Onto!Values(stated, f) = {}
          /\ Onto!Values(kept, f) = Onto!Values(spec, f)
      BY <1>2, <1>3, <2>2
    <3> QED BY <1>5, <3>1
  <2>4. Onto!Values(node, "a") = {"Class"}
    BY <1>2, <1>3, <1>5, <2>1
  <2>5. Onto!Values(node, "mappingStyle") = {e.style}
    BY <1>2, <1>3, <1>5, <2>1
  <2>6. Onto!Values(node, "collectionName") = {e.collection}
    BY <1>2, <1>3, <1>5, <2>1
  <2> QED BY <2>3, <2>4, <2>5, <2>6
<1>7. \A f \in Columnar : Onto!Values(node, f) = {}
  <2>1. \A f \in Columnar : Onto!Values(spec, f) = {}
    BY DEF SaysOfClass
  <2>2. \A f \in Columnar : f \notin {"a", "mappingStyle", "collectionName"}
    BY DEF Columnar, Onto!Columns, Onto!Tenancy
  <2> QED BY <1>2, <1>3, <1>5, <2>1, <2>2
<1>8. SaysOfClass(node, e)
  BY <1>6, <1>7 DEF SaysOfClass
<1>9. Onto!IsClass(node) /\ ~ Onto!IsObjectProperty(node)
  <2>1. <<"a", "ObjectProperty">> \in node => "ObjectProperty" \in Onto!Values(node, "a")
    BY DEF Onto!Values
  <2> QED BY <1>1, <1>4, <1>6, <2>1 DEF Onto!IsClass, Onto!IsObjectProperty
<1> QED BY <1>6, <1>8, <1>9 DEF node

LEMMA PropertyNodeSays ==
  ASSUME NEW r, NEW spec, SaysOfRelationship(spec, r), Onto!Values(spec, "a") = {}
  PROVE  LET node == Onto!PropertyNode(spec) IN
         /\ Onto!IsObjectProperty(node) /\ ~ Onto!IsClass(node)
         /\ SaysOfRelationship(node, r) /\ Onto!Values(node, "edgeCollectionName") = {r.collection}
<1> DEFINE node == Onto!PropertyNode(spec)
           property == Said("a", "ObjectProperty")
           style == Said("mappingStyle", r.style)
           stated == Onto!Stated(spec, "edgeCollectionName", "RPT_EDGE")
           kept == Onto!Only(spec, Onto!_BUNDLE_RELATIONSHIP_ANNOTATIONS)
           ends == {<<"domain", Quoted[c]>> : c \in Onto!Values(spec, "fromEntity")}
                   \cup {<<"range", Quoted[c]>> : c \in Onto!Values(spec, "toEntity")}
<1>1. node = property \cup style \cup stated \cup kept \cup ends
  <2>1. Onto!Values(spec, "mappingStyle") = {r.style}
    BY DEF SaysOfRelationship
  <2>2. Onto!Get(spec, "mappingStyle", "DEDICATED_COLLECTION") = r.style
    BY <2>1, SoleValue
  <2> QED BY <2>2 DEF Onto!PropertyNode, Said
<1>2. \A f : Onto!Values(stated, f) = IF f = "edgeCollectionName" THEN {r.collection} ELSE {}
  <2>1. CASE Onto!Has(spec, "edgeCollectionName")
    <3>1. stated = Onto!Only(spec, {"edgeCollectionName"})
      BY <2>1 DEF Onto!Stated
    <3>2. Onto!Values(spec, "edgeCollectionName") = {r.collection}
      BY <2>1 DEF SaysOfRelationship, Onto!Has
    <3> HIDE DEF stated
    <3>3. \A f : Onto!Values(stated, f) = IF f \in {"edgeCollectionName"} THEN Onto!Values(spec, f) ELSE {}
      BY <3>1, ValuesOfParts
    <3> QED BY <3>2, <3>3
  <2>2. CASE ~ Onto!Has(spec, "edgeCollectionName")
    <3>1. r.style = "RPT_EDGE" /\ Onto!Values(spec, "triplesCollection") = {r.collection}
          /\ Onto!Values(spec, "mappingStyle") = {r.style}
      BY <2>2 DEF SaysOfRelationship, Onto!Has
    <3>2. Onto!Get(spec, "mappingStyle", None) = "RPT_EDGE"
          /\ Onto!Get(spec, "triplesCollection", "_triples") = r.collection
      BY <3>1, SoleValue
    <3>3. stated = Said("edgeCollectionName", r.collection)
      BY <2>2, <3>2 DEF Onto!Stated, Said
    <3> HIDE DEF stated
    <3> QED BY <3>3, ValuesOfParts
  <2> QED BY <2>1, <2>2
<1>3. \A f : /\ Onto!Values(property, f) = IF f = "a" THEN {"ObjectProperty"} ELSE {}
             /\ Onto!Values(style, f) = IF f = "mappingStyle" THEN {r.style} ELSE {}
             /\ Onto!Values(kept, f) = IF f \in Onto!_BUNDLE_RELATIONSHIP_ANNOTATIONS
                                       THEN Onto!Values(spec, f) ELSE {}
  BY ValuesOfParts
<1>4. \A f : f \notin {"domain", "range"} => Onto!Values(ends, f) = {}
  <2>1. \A x \in ends : x[1] \in {"domain", "range"}
    OBVIOUS
  <2> HIDE DEF ends
  <2> QED BY <2>1 DEF Onto!Values
<1>5. <<"a", "ObjectProperty">> \in property
  BY DEF Said
<1> HIDE DEF node, property, style, stated, kept, ends
<1>6. \A f : Onto!Values(node, f) =
         Onto!Values(property, f) \cup Onto!Values(style, f) \cup Onto!Values(stated, f)
         \cup Onto!Values(kept, f) \cup Onto!Values(ends, f)
  <2> TAKE f
  <2> DEFINE four == property \cup style \cup stated \cup kept
  <2>1. Onto!Values(four, f) = Onto!Values(property, f) \cup Onto!Values(style, f)
                               \cup Onto!Values(stated, f) \cup Onto!Values(kept, f)
    BY ValuesOfFour
  <2>2. node = four \cup ends
    BY <1>1
  <2> HIDE DEF four
  <2>3. Onto!Values(four \cup ends, f) = Onto!Values(four, f) \cup Onto!Values(ends, f)
    BY ValuesOfParts
  <2> QED BY <2>1, <2>2, <2>3
<1>7. /\ Onto!Values(node, "a") = {"ObjectProperty"} /\ Onto!Values(node, "mappingStyle") = {r.style}
      /\ Onto!Values(node, "edgeCollectionName") = {r.collection}
      /\ \A f \in {"triplesCollection", "typeField", "typeValue"} :
            Onto!Values(node, f) = Onto!Values(spec, f)
      /\ \A f \in Onto!Tenancy : Onto!Values(node, f) = {}
  <2>1. /\ "a" \notin Onto!_BUNDLE_RELATIONSHIP_ANNOTATIONS
        /\ "mappingStyle" \notin Onto!_BUNDLE_RELATIONSHIP_ANNOTATIONS
        /\ "edgeCollectionName" \notin Onto!_BUNDLE_RELATIONSHIP_ANNOTATIONS
    BY DEF Onto!_BUNDLE_RELATIONSHIP_ANNOTATIONS
  <2>2. \A f \in {"triplesCollection", "typeField", "typeValue"} :
           /\ f \in Onto!_BUNDLE_RELATIONSHIP_ANNOTATIONS
           /\ f \notin {"a", "mappingStyle", "edgeCollectionName", "domain", "range"}
    BY DEF Onto!_BUNDLE_RELATIONSHIP_ANNOTATIONS
  <2>3. ASSUME NEW f \in {"triplesCollection", "typeField", "typeValue"}
        PROVE  Onto!Values(node, f) = Onto!Values(spec, f)
    <3>1. /\ Onto!Values(property, f) = {} /\ Onto!Values(style, f) = {} /\ Onto!Values(stated, f) = {}
          /\ Onto!Values(ends, f) = {} /\ Onto!Values(kept, f) = Onto!Values(spec, f)
      BY <1>2, <1>3, <1>4, <2>2
    <3> QED BY <1>6, <3>1
  <2>4. Onto!Values(node, "a") = {"ObjectProperty"}
    BY <1>2, <1>3, <1>4, <1>6, <2>1
  <2>5. Onto!Values(node, "mappingStyle") = {r.style}
    BY <1>2, <1>3, <1>4, <1>6, <2>1
  <2>6. Onto!Values(node, "edgeCollectionName") = {r.collection}
    BY <1>2, <1>3, <1>4, <1>6, <2>1
  <2>7. \A f \in Onto!Tenancy :
           /\ f \notin Onto!_BUNDLE_RELATIONSHIP_ANNOTATIONS
           /\ f \notin {"a", "mappingStyle", "edgeCollectionName", "domain", "range"}
    BY DEF Onto!_BUNDLE_RELATIONSHIP_ANNOTATIONS, Onto!Tenancy
  <2>8. \A f \in Onto!Tenancy : Onto!Values(node, f) = {}
    BY <1>2, <1>3, <1>4, <1>6, <2>7
  <2> QED BY <2>3, <2>4, <2>5, <2>6, <2>8
<1>8. SaysOfRelationship(node, r)
  BY <1>7 DEF SaysOfRelationship
<1>9. Onto!IsObjectProperty(node) /\ ~ Onto!IsClass(node)
  <2>1. <<"a", "Class">> \in node => "Class" \in Onto!Values(node, "a")
    BY DEF Onto!Values
  <2> QED BY <1>1, <1>5, <1>7, <2>1 DEF Onto!IsClass, Onto!IsObjectProperty
<1> QED BY <1>7, <1>8, <1>9 DEF node

(* What is imported says what the node said.                               *)
LEMMA ImportedClassSays ==
  ASSUME NEW e, NEW g, NEW iri \in DOMAIN g, Onto!IsClass(g[iri]), SaysOfClass(g[iri], e)
  PROVE  LET b == Onto!turtle_to_mapping(g) IN
         iri \in DOMAIN b.entities /\ SaysOfClass(b.entities[iri], e)
<1> DEFINE node == g[iri]
           harvest == Onto!Harvest(node, Onto!_PHYS_TO_ENTITY_FIELD)
           style == Said("mappingStyle", e.style)
           spec == harvest \cup style
<1>1. Onto!Values(node, "mappingStyle") = {e.style}
  BY DEF SaysOfClass
<1>2. Onto!Get(node, "mappingStyle", "COLLECTION") = e.style
  BY <1>1, SoleValue
<1>3. LET b == Onto!turtle_to_mapping(g) IN iri \in DOMAIN b.entities /\ b.entities[iri] = spec
  BY <1>2 DEF Onto!turtle_to_mapping, Onto!_entities_from_graph, Said
<1>4. \A f : Onto!Values(harvest, f) =
                IF f \in Onto!_PHYS_TO_ENTITY_FIELD /\ Onto!Has(node, f)
                THEN {Onto!Get(node, f, None)} ELSE {}
  BY ValuesHarvested
<1>5. \A f : Onto!Values(style, f) = IF f = "mappingStyle" THEN {e.style} ELSE {}
  BY ValuesOfParts
<1> HIDE DEF harvest, style
<1>6. \A f : Onto!Values(spec, f) = Onto!Values(harvest, f) \cup Onto!Values(style, f)
  BY ValuesOfParts
<1> HIDE DEF spec
<1>7. Onto!Values(spec, "mappingStyle") = {e.style}
  BY <1>4, <1>5, <1>6 DEF Onto!_PHYS_TO_ENTITY_FIELD, Onto!Columns, Onto!Tenancy
<1>8. ASSUME NEW f, NEW v, f # "mappingStyle", f \in Onto!_PHYS_TO_ENTITY_FIELD,
             Onto!Values(node, f) = {v}
      PROVE  Onto!Values(spec, f) = {v}
  <2>1. Onto!Has(node, f) /\ Onto!Get(node, f, None) = v
    BY <1>8, SoleValue
  <2> QED BY <1>4, <1>5, <1>6, <1>8, <2>1
<1>9. \A f : f # "mappingStyle" /\ Onto!Values(node, f) = {} => Onto!Values(spec, f) = {}
  BY <1>4, <1>5, <1>6 DEF Onto!Has
<1>10. ASSUME NEW f \in {"collectionName", "triplesCollection", "typeField", "typeValue", "typeFieldIsArray"}
       PROVE  /\ f # "mappingStyle" /\ f \in Onto!_PHYS_TO_ENTITY_FIELD
              /\ \A v : Onto!Values(node, f) \subseteq {v} => Onto!Values(spec, f) = Onto!Values(node, f)
  <2>1. f # "mappingStyle" /\ f \in Onto!_PHYS_TO_ENTITY_FIELD
    BY DEF Onto!_PHYS_TO_ENTITY_FIELD
  <2>2. ASSUME NEW v, Onto!Values(node, f) \subseteq {v}
        PROVE  Onto!Values(spec, f) = Onto!Values(node, f)
    <3>1. CASE Onto!Values(node, f) = {}
      BY <1>9, <2>1, <3>1
    <3>2. CASE Onto!Values(node, f) = {v}
      BY <1>8, <2>1, <3>2
    <3> QED BY <2>2, <3>1, <3>2
  <2> QED BY <2>1, <2>2
<1>11. Onto!Values(node, "collectionName") \subseteq {e.collection}
       /\ Onto!Values(node, "triplesCollection") \subseteq {e.collection}
       /\ Onto!Values(node, "typeField") \subseteq {e.field}
       /\ Onto!Values(node, "typeValue") \subseteq {e.value}
       /\ Onto!Values(node, "typeFieldIsArray") \subseteq {e.array}
  BY DEF SaysOfClass, Discriminated
<1>12. /\ Onto!Values(spec, "collectionName") = Onto!Values(node, "collectionName")
       /\ Onto!Values(spec, "triplesCollection") = Onto!Values(node, "triplesCollection")
       /\ Onto!Values(spec, "typeField") = Onto!Values(node, "typeField")
       /\ Onto!Values(spec, "typeValue") = Onto!Values(node, "typeValue")
       /\ Onto!Values(spec, "typeFieldIsArray") = Onto!Values(node, "typeFieldIsArray")
  BY <1>10, <1>11
<1>13. \A f \in Columnar : Onto!Values(spec, f) = {}
  <2>1. \A f \in Columnar : f # "mappingStyle"
    BY DEF Columnar, Onto!Columns, Onto!Tenancy
  <2>2. \A f \in Columnar : Onto!Values(node, f) = {}
    BY DEF SaysOfClass
  <2> QED BY <1>9, <2>1, <2>2
<1>14. SaysOfClass(spec, e)
  BY <1>7, <1>12, <1>13 DEF SaysOfClass
<1> QED BY <1>3, <1>14

LEMMA ImportedRelationshipSays ==
  ASSUME NEW r, NEW g, NEW iri \in DOMAIN g, Onto!IsObjectProperty(g[iri]),
         SaysOfRelationship(g[iri], r)
  PROVE  LET b == Onto!turtle_to_mapping(g) IN
         iri \in DOMAIN b.relationships /\ SaysOfRelationship(b.relationships[iri], r)
<1> DEFINE node == g[iri]
           harvest == Onto!Harvest(node, Onto!_PHYS_TO_RELATIONSHIP_FIELD)
           style == Said("mappingStyle", r.style)
           from == {<<"fromEntity", c>> : c \in Onto!Values(node, "domain")}
           to == {<<"toEntity", c>> : c \in Onto!Values(node, "range")}
           spec == harvest \cup style \cup from \cup to
<1>1. Onto!Values(node, "mappingStyle") = {r.style}
  BY DEF SaysOfRelationship
<1>2. Onto!Get(node, "mappingStyle", "DEDICATED_COLLECTION") = r.style
  BY <1>1, SoleValue
<1>3. LET b == Onto!turtle_to_mapping(g) IN
      iri \in DOMAIN b.relationships /\ b.relationships[iri] = spec
  BY <1>2 DEF Onto!turtle_to_mapping, Onto!_relationships_from_graph, Said
<1>4. \A f : Onto!Values(harvest, f) =
                IF f \in Onto!_PHYS_TO_RELATIONSHIP_FIELD /\ Onto!Has(node, f)
                THEN {Onto!Get(node, f, None)} ELSE {}
  BY ValuesHarvested
<1>5. \A f : Onto!Values(style, f) = IF f = "mappingStyle" THEN {r.style} ELSE {}
  BY ValuesOfParts
<1>6. \A f : /\ f # "fromEntity" => Onto!Values(from, f) = {}
             /\ f # "toEntity" => Onto!Values(to, f) = {}
  <2>1. (\A x \in from : x[1] = "fromEntity") /\ (\A x \in to : x[1] = "toEntity")
    OBVIOUS
  <2> HIDE DEF from, to
  <2> QED BY <2>1 DEF Onto!Values
<1> HIDE DEF harvest, style, from, to
<1>7. \A f : Onto!Values(spec, f) = Onto!Values(harvest, f) \cup Onto!Values(style, f)
                                    \cup Onto!Values(from, f) \cup Onto!Values(to, f)
  BY ValuesOfFour
<1> HIDE DEF spec
<1> DEFINE Ends == {"fromEntity", "toEntity"}
<1>8. Onto!Values(spec, "mappingStyle") = {r.style}
  BY <1>4, <1>5, <1>6, <1>7 DEF Onto!_PHYS_TO_RELATIONSHIP_FIELD, Onto!Tenancy
<1>9. \A f : f \notin Ends \cup {"mappingStyle"} => Onto!Values(spec, f) = Onto!Values(harvest, f)
  <2> SUFFICES ASSUME NEW f, f \notin Ends \cup {"mappingStyle"}
               PROVE  Onto!Values(spec, f) = Onto!Values(harvest, f)
    OBVIOUS
  <2>1. Onto!Values(style, f) = {} /\ Onto!Values(from, f) = {} /\ Onto!Values(to, f) = {}
    BY <1>5, <1>6
  <2> QED BY <1>7, <2>1
<1>10. ASSUME NEW f \in {"edgeCollectionName", "triplesCollection", "typeField", "typeValue"}
       PROVE  \A v : Onto!Values(node, f) \subseteq {v} => Onto!Values(spec, f) = Onto!Values(node, f)
  <2>1. f \notin Ends \cup {"mappingStyle"} /\ f \in Onto!_PHYS_TO_RELATIONSHIP_FIELD
    BY DEF Onto!_PHYS_TO_RELATIONSHIP_FIELD
  <2>2. ASSUME NEW v, Onto!Values(node, f) \subseteq {v}
        PROVE  Onto!Values(spec, f) = Onto!Values(node, f)
    <3>1. CASE Onto!Values(node, f) = {}
      BY <1>4, <1>9, <2>1, <3>1 DEF Onto!Has
    <3>2. CASE Onto!Values(node, f) = {v}
      <4>1. Onto!Has(node, f) /\ Onto!Get(node, f, None) = v
        BY <3>2, SoleValue
      <4> QED BY <1>4, <1>9, <2>1, <3>2, <4>1
    <3> QED BY <2>2, <3>1, <3>2
  <2> QED BY <2>2
<1>11. /\ Onto!Values(node, "edgeCollectionName") \subseteq {r.collection}
       /\ Onto!Values(node, "triplesCollection") \subseteq {r.collection}
       /\ Onto!Values(node, "typeField") \subseteq {"type"}
       /\ Onto!Values(node, "typeValue") \subseteq {r.value}
  BY DEF SaysOfRelationship
<1>12. /\ Onto!Values(spec, "edgeCollectionName") = Onto!Values(node, "edgeCollectionName")
       /\ Onto!Values(spec, "triplesCollection") = Onto!Values(node, "triplesCollection")
       /\ Onto!Values(spec, "typeField") = Onto!Values(node, "typeField")
       /\ Onto!Values(spec, "typeValue") = Onto!Values(node, "typeValue")
  BY <1>10, <1>11
<1>13. \A f \in Onto!Tenancy : Onto!Values(spec, f) = {}
  <2>1. \A f \in Onto!Tenancy : f \notin Ends \cup {"mappingStyle"}
    BY DEF Onto!Tenancy
  <2>2. \A f \in Onto!Tenancy : Onto!Values(node, f) = {}
    BY DEF SaysOfRelationship
  <2> QED BY <1>4, <1>9, <2>1, <2>2 DEF Onto!Has
<1>14. SaysOfRelationship(spec, r)
  BY <1>8, <1>12, <1>13 DEF SaysOfRelationship
<1> QED BY <1>3, <1>14

(* A node that says it all takes nothing from a specification that says    *)
(* the same.                                                               *)
LEMMA ClassKept ==
  ASSUME NEW e, NEW node, SaysOfClass(node, e), Onto!Has(node, "collectionName"),
         NEW spec, SaysOfClass(spec, e)
  PROVE  Onto!_apply_phys_annotations(node, spec, Onto!_ENTITY_FIELD_TO_PHYS_LOCAL) = node
<1>1. /\ Onto!Values(node, "mappingStyle") # {} /\ Onto!Values(node, "collectionName") # {}
      /\ Onto!Values(node, "typeField") = Onto!Values(spec, "typeField")
      /\ Onto!Values(node, "typeValue") = Onto!Values(spec, "typeValue")
      /\ Onto!Values(node, "triplesCollection") = Onto!Values(spec, "triplesCollection")
      /\ \A f \in Columnar : Onto!Values(spec, f) = {}
  BY DEF SaysOfClass, Onto!Has
<1>2. \A f \in Onto!_ENTITY_FIELD_TO_PHYS_LOCAL :
         \/ f \in Columnar
         \/ f \in {"mappingStyle", "collectionName", "typeField", "typeValue", "triplesCollection"}
  BY DEF Onto!_ENTITY_FIELD_TO_PHYS_LOCAL, Columnar
<1>3. \A f \in Onto!_ENTITY_FIELD_TO_PHYS_LOCAL :
         Onto!Values(node, f) = {} => Onto!Values(spec, f) = {}
  BY <1>1, <1>2
<1> QED BY <1>3, NothingInherited

LEMMA RelationshipKept ==
  ASSUME NEW r, NEW node, SaysOfRelationship(node, r), Onto!Has(node, "edgeCollectionName"),
         NEW spec, SaysOfRelationship(spec, r)
  PROVE  Onto!_apply_phys_annotations(node, spec, Onto!_REL_FIELD_TO_PHYS_LOCAL) = node
<1>1. /\ Onto!Values(node, "mappingStyle") # {} /\ Onto!Values(node, "edgeCollectionName") # {}
      /\ Onto!Values(node, "typeField") = Onto!Values(spec, "typeField")
      /\ Onto!Values(node, "typeValue") = Onto!Values(spec, "typeValue")
      /\ Onto!Values(node, "triplesCollection") = Onto!Values(spec, "triplesCollection")
      /\ \A f \in Onto!Tenancy : Onto!Values(spec, f) = {}
  BY DEF SaysOfRelationship, Onto!Has
<1>2. \A f \in Onto!_REL_FIELD_TO_PHYS_LOCAL :
         \/ f \in Onto!Tenancy
         \/ f \in {"mappingStyle", "edgeCollectionName", "typeField", "typeValue", "triplesCollection"}
  BY DEF Onto!_REL_FIELD_TO_PHYS_LOCAL
<1>3. \A f \in Onto!_REL_FIELD_TO_PHYS_LOCAL :
         Onto!Values(node, f) = {} => Onto!Values(spec, f) = {}
  BY <1>1, <1>2
<1> QED BY <1>3, NothingInherited

(* A node that says nothing, or only where the class is stored, says all   *)
(* that the specification does, but for the shape of a label's field.      *)
LEMMA ClassInherited ==
  ASSUME NEW e, NEW spec, SaysOfClass(spec, e), NEW node,
         \A f : f \notin {"a", "collectionName"} => Onto!Values(node, f) = {},
         Onto!Values(node, "collectionName") \subseteq {e.collection}
  PROVE  SaysOfClass(Onto!_apply_phys_annotations(node, spec, Onto!_ENTITY_FIELD_TO_PHYS_LOCAL), e)
<1> DEFINE result == Onto!_apply_phys_annotations(node, spec, Onto!_ENTITY_FIELD_TO_PHYS_LOCAL)
<1>1. \A f : Onto!Values(result, f) =
                IF Onto!Values(node, f) = {} /\ f \in Onto!_ENTITY_FIELD_TO_PHYS_LOCAL
                THEN Onto!Values(spec, f) ELSE Onto!Values(node, f)
  BY ValuesInherited
<1> HIDE DEF result
<1>2. \A f \in {"mappingStyle", "triplesCollection", "typeField", "typeValue"} :
         f \notin {"a", "collectionName"} /\ f \in Onto!_ENTITY_FIELD_TO_PHYS_LOCAL
  BY DEF Onto!_ENTITY_FIELD_TO_PHYS_LOCAL
<1>3. \A f \in {"mappingStyle", "triplesCollection", "typeField", "typeValue"} :
         Onto!Values(result, f) = Onto!Values(spec, f)
  BY <1>1, <1>2
<1>4. /\ Onto!Values(result, "mappingStyle") = Onto!Values(spec, "mappingStyle")
      /\ Onto!Values(result, "triplesCollection") = Onto!Values(spec, "triplesCollection")
      /\ Onto!Values(result, "typeField") = Onto!Values(spec, "typeField")
      /\ Onto!Values(result, "typeValue") = Onto!Values(spec, "typeValue")
  BY <1>3
<1>5. /\ e.style = "RPT" => Onto!Values(result, "collectionName") \subseteq {e.collection}
      /\ e.style # "RPT" => Onto!Values(result, "collectionName") = {e.collection}
  <2>1. "collectionName" \in Onto!_ENTITY_FIELD_TO_PHYS_LOCAL
    BY DEF Onto!_ENTITY_FIELD_TO_PHYS_LOCAL
  <2>2. Onto!Values(result, "collectionName") \in
           {Onto!Values(spec, "collectionName"), Onto!Values(node, "collectionName")}
        /\ (Onto!Values(node, "collectionName") = {}
            => Onto!Values(result, "collectionName") = Onto!Values(spec, "collectionName"))
    BY <1>1, <2>1
  <2> QED BY <2>2 DEF SaysOfClass
<1>6. Onto!Values(result, "typeFieldIsArray") = {}
  <2>1. "typeFieldIsArray" \notin Onto!_ENTITY_FIELD_TO_PHYS_LOCAL
    BY DEF Onto!_ENTITY_FIELD_TO_PHYS_LOCAL, Onto!Columns, Onto!Tenancy
  <2> QED BY <1>1, <2>1
<1>7. \A f \in Columnar : Onto!Values(result, f) = {}
  <2>1. \A f \in Columnar : f \notin {"a", "collectionName"}
    BY DEF Columnar, Onto!Columns, Onto!Tenancy
  <2>2. \A f \in Columnar : Onto!Values(spec, f) = {}
    BY DEF SaysOfClass
  <2> QED BY <1>1, <2>1, <2>2
<1>8. /\ Onto!Values(spec, "mappingStyle") = {e.style}
      /\ Onto!Values(spec, "triplesCollection") = (IF e.style = "RPT" THEN {e.collection} ELSE {})
      /\ Onto!Values(spec, "typeField") = Discriminated(e, e.field)
      /\ Onto!Values(spec, "typeValue") = Discriminated(e, e.value)
  BY DEF SaysOfClass
<1> HIDE DEF Discriminated
<1> SUFFICES SaysOfClass(result, e)
  BY DEF result
<1> QED BY <1>4, <1>5, <1>6, <1>7, <1>8 DEF SaysOfClass

LEMMA RelationshipInherited ==
  ASSUME NEW r, NEW spec, SaysOfRelationship(spec, r), NEW node,
         \A f : f # "a" => Onto!Values(node, f) = {}
  PROVE  SaysOfRelationship(Onto!_apply_phys_annotations(node, spec, Onto!_REL_FIELD_TO_PHYS_LOCAL), r)
<1> DEFINE result == Onto!_apply_phys_annotations(node, spec, Onto!_REL_FIELD_TO_PHYS_LOCAL)
           Fields == {"mappingStyle", "edgeCollectionName", "triplesCollection", "typeField", "typeValue"}
                     \cup Onto!Tenancy
<1>1. \A f : Onto!Values(result, f) =
                IF Onto!Values(node, f) = {} /\ f \in Onto!_REL_FIELD_TO_PHYS_LOCAL
                THEN Onto!Values(spec, f) ELSE Onto!Values(node, f)
  BY ValuesInherited
<1> HIDE DEF result
<1>2. \A f \in Fields : f # "a" /\ f \in Onto!_REL_FIELD_TO_PHYS_LOCAL
  BY DEF Onto!_REL_FIELD_TO_PHYS_LOCAL, Onto!Tenancy
<1>3. \A f \in Fields : Onto!Values(result, f) = Onto!Values(spec, f)
  BY <1>1, <1>2
<1>4. /\ Onto!Values(result, "mappingStyle") = Onto!Values(spec, "mappingStyle")
      /\ Onto!Values(result, "edgeCollectionName") = Onto!Values(spec, "edgeCollectionName")
      /\ Onto!Values(result, "triplesCollection") = Onto!Values(spec, "triplesCollection")
      /\ Onto!Values(result, "typeField") = Onto!Values(spec, "typeField")
      /\ Onto!Values(result, "typeValue") = Onto!Values(spec, "typeValue")
      /\ \A f \in Onto!Tenancy : Onto!Values(result, f) = Onto!Values(spec, f)
  BY <1>3
<1> SUFFICES SaysOfRelationship(result, r)
  BY DEF result
<1> QED BY <1>4 DEF SaysOfRelationship

(* A node that is not both a class and a property is enriched as one.      *)
LEMMA EnrichedClass ==
  ASSUME NEW g, NEW b, NEW iri \in DOMAIN g, Onto!IsClass(g[iri]), ~ Onto!IsObjectProperty(g[iri])
  PROVE  LET enriched == Onto!_enrich_graph_with_bundle(g, b) IN
         /\ iri \in DOMAIN enriched
         /\ iri \notin DOMAIN b.entities => enriched[iri] = g[iri]
         /\ iri \in DOMAIN b.entities =>
               /\ enriched[iri] = Onto!_apply_phys_annotations(g[iri], b.entities[iri],
                                                               Onto!_ENTITY_FIELD_TO_PHYS_LOCAL)
               /\ Onto!IsClass(enriched[iri])
BY DEF Onto!_enrich_graph_with_bundle, Onto!_apply_phys_annotations, Onto!IsClass

LEMMA EnrichedProperty ==
  ASSUME NEW g, NEW b, NEW iri \in DOMAIN g, ~ Onto!IsClass(g[iri]), Onto!IsObjectProperty(g[iri])
  PROVE  LET enriched == Onto!_enrich_graph_with_bundle(g, b) IN
         /\ iri \in DOMAIN enriched
         /\ iri \notin DOMAIN b.relationships => enriched[iri] = g[iri]
         /\ iri \in DOMAIN b.relationships =>
               /\ enriched[iri] = Onto!_apply_phys_annotations(g[iri], b.relationships[iri],
                                                               Onto!_REL_FIELD_TO_PHYS_LOCAL)
               /\ Onto!IsObjectProperty(enriched[iri])
BY DEF Onto!_enrich_graph_with_bundle, Onto!_apply_phys_annotations, Onto!IsObjectProperty

----------------------------------------------------------------------------
(* The ontologies of an acquired mapping *)

Wired ==
    /\ Names \subseteq Name
    /\ \A n \in DOMAIN entities : WellFormed(entities[n])
    /\ \A n \in DOMAIN relationships : WellTyped(relationships[n])

(* The nodes of the names say what the bundle does. *)
ServesClass(g, n) ==
    /\ Quoted[n] \in DOMAIN g /\ Onto!IsClass(g[Quoted[n]])
    /\ SaysOfClass(g[Quoted[n]], entities[n])

ServesRelationship(g, n) ==
    /\ Quoted[n] \in DOMAIN g /\ Onto!IsObjectProperty(g[Quoted[n]])
    /\ SaysOfRelationship(g[Quoted[n]], relationships[n])

Serves(g, names) ==
    /\ \A n \in DOMAIN entities \cap names : ServesClass(g, n)
    /\ \A n \in DOMAIN relationships \cap names : ServesRelationship(g, n)

LEMMA ServedIsRead ==
  ASSUME Typed, Wired, Uniform, \A n \in DOMAIN entities : Flagged(docs, entities[n]),
         NEW g, NEW names, Serves(g, names)
  PROVE  ReadsTheSame(g, names)
<1>1. ASSUME NEW n \in DOMAIN entities \cap names, NEW r \in Onto!_resolve_class(g, Quoted[n])
      PROVE  ReadsClass(r, entities[n])
  <2>1. WellFormed(entities[n]) /\ entities[n].collection \in Collection /\ Flagged(docs, entities[n])
    BY DEF Wired, Typed, IsEntity
  <2>2. Quoted[n] \in DOMAIN g /\ Onto!IsClass(g[Quoted[n]]) /\ SaysOfClass(g[Quoted[n]], entities[n])
    BY DEF Serves, ServesClass
  <2> QED BY <2>1, <2>2, ClassIsRead
<1>2. ASSUME NEW n \in DOMAIN relationships \cap names, NEW r \in Onto!_resolve_property(g, Quoted[n])
      PROVE  ReadsRelationship(r, relationships[n])
  <2>1. WellTyped(relationships[n])
    BY DEF Wired
  <2>2. Quoted[n] \in DOMAIN g /\ Onto!IsObjectProperty(g[Quoted[n]])
        /\ SaysOfRelationship(g[Quoted[n]], relationships[n])
    BY DEF Serves, ServesRelationship
  <2> QED BY <2>1, <2>2, RelationshipIsRead
<1> QED BY <1>1, <1>2 DEF ReadsTheSame

(* What the text says of a class or a relationship, but for the shape of a *)
(* label's field, which it may not know, and for the endpoints.            *)
AlikeClass(w, e) ==
    /\ w.style = e.style /\ w.collection = e.collection
    /\ w.field = e.field /\ w.value = e.value /\ w.array \in {"unknown", e.array}

AlikeRelationship(w, r) == w.style = r.style /\ w.collection = r.collection /\ w.value = r.value

(* The text of a bundle, if it has one, describes all but the triples.     *)
Texted ==
    /\ \E es, rs : text = [entities |-> es, relationships |-> rs]
    /\ text # NoText => DOMAIN text.entities \cup DOMAIN text.relationships # {}
    /\ DOMAIN text.entities \cup DOMAIN text.relationships \subseteq Name
    /\ \A n \in DOMAIN text.entities : WellFormed(text.entities[n]) /\ IsEntity(text.entities[n])
    /\ \A n \in DOMAIN text.relationships : WellTyped(text.relationships[n])
    /\ text # NoText =>
          /\ \A n \in DOMAIN entities : entities[n].style # "RPT" =>
                n \in DOMAIN text.entities /\ AlikeClass(text.entities[n], entities[n])
          /\ \A n \in DOMAIN relationships : relationships[n].style # "RPT_EDGE" =>
                /\ n \in DOMAIN text.relationships
                /\ AlikeRelationship(text.relationships[n], relationships[n])

(* It describes nothing that the mapping of the whole database has not.    *)
TextNames ==
    /\ DOMAIN text.entities \subseteq DOMAIN entities
    /\ DOMAIN text.relationships \subseteq DOMAIN relationships

Exported == Onto!mapping_to_turtle(Wire)

LEMMA SynthesizedClass ==
  ASSUME NEW es, NEW rs, NEW owl, DOMAIN es \cup DOMAIN rs \subseteq Name,
         NEW n \in DOMAIN es \ DOMAIN rs
  PROVE  LET g == Onto!_synthesize_graph_from_bundle(Specified(es, rs, owl)) IN
         Quoted[n] \in DOMAIN g /\ g[Quoted[n]] = Onto!ClassNode(EntitySpec(es[n]))
<1> DEFINE b == Specified(es, rs, owl)
           iri == Quoted[n]
           class(m) == Onto!ClassNode(b.entities[m])
           property(m) == Onto!PropertyNode(b.relationships[m])
<1>1. /\ DOMAIN b.entities = DOMAIN es /\ DOMAIN b.relationships = DOMAIN rs
      /\ b.entities[n] = EntitySpec(es[n])
  BY DEF Specified
<1>2. {m \in DOMAIN es : Quoted[m] = iri} = {n} /\ {m \in DOMAIN rs : Quoted[m] = iri} = {}
  BY EncodingIsOneToOne
<1> DEFINE g == Onto!_synthesize_graph_from_bundle(b)
<1>3. iri \in DOMAIN g
      /\ g[iri] = (UNION {class(m) : m \in {k \in DOMAIN es : Quoted[k] = iri}}) \cup
                  UNION {property(m) : m \in {k \in DOMAIN rs : Quoted[k] = iri}}
  BY <1>1 DEF Onto!_synthesize_graph_from_bundle
<1>4. g[iri] = class(n)
  <2> HIDE DEF class, property, b, g
  <2>1. UNION {class(m) : m \in {n}} = class(n) /\ UNION {property(m) : m \in {}} = {}
    OBVIOUS
  <2> QED BY <1>2, <1>3, <2>1
<1> QED BY <1>1, <1>3, <1>4

LEMMA SynthesizedProperty ==
  ASSUME NEW es, NEW rs, NEW owl, DOMAIN es \cup DOMAIN rs \subseteq Name,
         NEW n \in DOMAIN rs \ DOMAIN es
  PROVE  LET g == Onto!_synthesize_graph_from_bundle(Specified(es, rs, owl)) IN
         Quoted[n] \in DOMAIN g /\ g[Quoted[n]] = Onto!PropertyNode(RelationshipSpec(rs[n]))
<1> DEFINE b == Specified(es, rs, owl)
           iri == Quoted[n]
           class(m) == Onto!ClassNode(b.entities[m])
           property(m) == Onto!PropertyNode(b.relationships[m])
<1>1. /\ DOMAIN b.entities = DOMAIN es /\ DOMAIN b.relationships = DOMAIN rs
      /\ b.relationships[n] = RelationshipSpec(rs[n])
  BY DEF Specified
<1>2. {m \in DOMAIN es : Quoted[m] = iri} = {} /\ {m \in DOMAIN rs : Quoted[m] = iri} = {n}
  BY EncodingIsOneToOne
<1> DEFINE g == Onto!_synthesize_graph_from_bundle(b)
<1>3. iri \in DOMAIN g
      /\ g[iri] = (UNION {class(m) : m \in {k \in DOMAIN es : Quoted[k] = iri}}) \cup
                  UNION {property(m) : m \in {k \in DOMAIN rs : Quoted[k] = iri}}
  BY <1>1 DEF Onto!_synthesize_graph_from_bundle
<1>4. g[iri] = property(n)
  <2> DEFINE classes == UNION {class(m) : m \in {k \in DOMAIN es : Quoted[k] = iri}}
             properties == UNION {property(m) : m \in {k \in DOMAIN rs : Quoted[k] = iri}}
  <2> HIDE DEF class, property, b, g
  <2>1. classes = {}
    BY <1>2
  <2>2. properties = property(n)
    BY <1>2
  <2>3. g[iri] = classes \cup properties
    BY <1>3
  <2> HIDE DEF classes, properties
  <2> QED BY <2>1, <2>2, <2>3
<1> QED BY <1>1, <1>3, <1>4

(* A bundle without a text is exported itself, one with a text as it.      *)
LEMMA ExportedAs ==
  ASSUME Wired, Texted
  PROVE  /\ text = NoText =>
               \E owl : Exported = Onto!_synthesize_graph_from_bundle(
                                      Specified(entities, relationships, owl))
         /\ text # NoText =>
               Exported = Onto!_synthesize_graph_from_bundle(
                             Specified(text.entities, text.relationships, Onto!Empty))
<1> DEFINE owl == export_conceptual_model_as_owl_turtle(text.entities, text.relationships)
           written == Specified(text.entities, text.relationships, Onto!Empty)
<1>1. Wire = Specified(entities, relationships, owl) /\ Wire.owl = owl
  BY DEF Wire, Specified
<1>2. owl = Onto!_synthesize_graph_from_bundle(written)
  BY DEF export_conceptual_model_as_owl_turtle
<1>3. /\ DOMAIN written.entities = DOMAIN text.entities
      /\ DOMAIN written.relationships = DOMAIN text.relationships
  BY DEF Specified
<1> HIDE DEF written
<1>4. DOMAIN owl = {Quoted[n] : n \in DOMAIN text.entities \cup DOMAIN text.relationships}
  BY <1>2, <1>3 DEF Onto!_synthesize_graph_from_bundle
<1>5. text # NoText => owl # Onto!Empty
  <2>1. text # NoText => DOMAIN owl # {}
    BY <1>4 DEF Texted
  <2>2. DOMAIN Onto!Empty = {}
    BY DEF Onto!Empty
  <2> QED BY <2>1, <2>2
<1>6. text = NoText => owl = Onto!Empty
  <2> SUFFICES ASSUME text = NoText PROVE owl = Onto!Empty
    OBVIOUS
  <2>1. DOMAIN text.entities = {} /\ DOMAIN text.relationships = {}
    BY DEF NoText, Nothing
  <2>2. DOMAIN owl = {} /\ owl = [iri \in DOMAIN owl |-> owl[iri]]
    BY <1>2, <1>4, <2>1 DEF Onto!_synthesize_graph_from_bundle
  <2> QED BY <2>2 DEF Onto!Empty
<1> HIDE DEF owl
<1>7. CASE text = NoText
  <2>1. Exported = Onto!_synthesize_graph_from_bundle(Wire)
    BY <1>1, <1>6, <1>7 DEF Exported, Onto!mapping_to_turtle
  <2> QED BY <1>1, <1>7, <2>1
<1>8. CASE text # NoText
  <2>1. Exported = owl
    BY <1>1, <1>5, <1>8 DEF Exported, Onto!mapping_to_turtle
  <2> QED BY <1>2, <1>8, <2>1 DEF written
<1> QED BY <1>7, <1>8

LEMMA ExportedClass ==
  ASSUME Wired, Texted, TextNames, NEW n \in DOMAIN entities \cap Own
  PROVE  \E w : /\ WellFormed(w) /\ AlikeClass(w, entities[n]) /\ Quoted[n] \in DOMAIN Exported
                /\ Exported[Quoted[n]] = Onto!ClassNode(EntitySpec(w))
<1>1. n \notin DOMAIN relationships
  BY DEF Own, Shared
<1>2. CASE text = NoText
  <2>1. PICK owl : Exported = Onto!_synthesize_graph_from_bundle(
                                 Specified(entities, relationships, owl))
    BY <1>2, ExportedAs
  <2>2. DOMAIN entities \cup DOMAIN relationships \subseteq Name
    BY DEF Wired, Names
  <2>3. Quoted[n] \in DOMAIN Exported
        /\ Exported[Quoted[n]] = Onto!ClassNode(EntitySpec(entities[n]))
    BY <1>1, <2>1, <2>2, SynthesizedClass
  <2>4. WellFormed(entities[n]) /\ AlikeClass(entities[n], entities[n])
    BY DEF Wired, AlikeClass
  <2> QED BY <2>3, <2>4
<1>3. CASE text # NoText
  <2> DEFINE w == text.entities[n]
  <2>1. entities[n].style # "RPT" /\ n \notin DOMAIN text.relationships
    BY <1>1, <1>3 DEF Own, Overlaid, TextNames
  <2>2. n \in DOMAIN text.entities \ DOMAIN text.relationships
        /\ AlikeClass(w, entities[n]) /\ WellFormed(w)
    BY <1>3, <2>1 DEF Texted
  <2>3. DOMAIN text.entities \cup DOMAIN text.relationships \subseteq Name
    BY DEF Texted
  <2>4. Quoted[n] \in DOMAIN Exported /\ Exported[Quoted[n]] = Onto!ClassNode(EntitySpec(w))
    BY <1>3, <2>2, <2>3, ExportedAs, SynthesizedClass
  <2> QED BY <2>2, <2>4
<1> QED BY <1>2, <1>3

LEMMA ExportedProperty ==
  ASSUME Wired, Texted, TextNames, NEW n \in DOMAIN relationships \cap Own
  PROVE  \E w : /\ WellTyped(w) /\ AlikeRelationship(w, relationships[n])
                /\ Quoted[n] \in DOMAIN Exported
                /\ Exported[Quoted[n]] = Onto!PropertyNode(RelationshipSpec(w))
<1>1. n \notin DOMAIN entities
  BY DEF Own, Shared
<1>2. CASE text = NoText
  <2>1. PICK owl : Exported = Onto!_synthesize_graph_from_bundle(
                                 Specified(entities, relationships, owl))
    BY <1>2, ExportedAs
  <2>2. DOMAIN entities \cup DOMAIN relationships \subseteq Name
    BY DEF Wired, Names
  <2>3. Quoted[n] \in DOMAIN Exported
        /\ Exported[Quoted[n]] = Onto!PropertyNode(RelationshipSpec(relationships[n]))
    BY <1>1, <2>1, <2>2, SynthesizedProperty
  <2>4. WellTyped(relationships[n]) /\ AlikeRelationship(relationships[n], relationships[n])
    BY DEF Wired, AlikeRelationship
  <2> QED BY <2>3, <2>4
<1>3. CASE text # NoText
  <2> DEFINE w == text.relationships[n]
  <2>1. relationships[n].style # "RPT_EDGE" /\ n \notin DOMAIN text.entities
    BY <1>1, <1>3 DEF Own, Overlaid, TextNames
  <2>2. n \in DOMAIN text.relationships \ DOMAIN text.entities
        /\ AlikeRelationship(w, relationships[n]) /\ WellTyped(w)
    BY <1>3, <2>1 DEF Texted
  <2>3. DOMAIN text.entities \cup DOMAIN text.relationships \subseteq Name
    BY DEF Texted
  <2>4. Quoted[n] \in DOMAIN Exported /\ Exported[Quoted[n]] = Onto!PropertyNode(RelationshipSpec(w))
    BY <1>3, <2>2, <2>3, ExportedAs, SynthesizedProperty
  <2> QED BY <2>2, <2>4
<1> QED BY <1>2, <1>3

LEMMA ExportServes ==
  ASSUME Wired, Texted, TextNames
  PROVE  /\ \A n \in DOMAIN entities \cap Own :
               /\ ServesClass(Exported, n) /\ ~ Onto!IsObjectProperty(Exported[Quoted[n]])
               /\ Onto!Has(Exported[Quoted[n]], "collectionName")
         /\ \A n \in DOMAIN relationships \cap Own :
               /\ ServesRelationship(Exported, n) /\ ~ Onto!IsClass(Exported[Quoted[n]])
               /\ Onto!Has(Exported[Quoted[n]], "edgeCollectionName")
<1>1. ASSUME NEW n \in DOMAIN entities \cap Own
      PROVE  /\ ServesClass(Exported, n) /\ ~ Onto!IsObjectProperty(Exported[Quoted[n]])
             /\ Onto!Has(Exported[Quoted[n]], "collectionName")
  <2>1. PICK w : /\ WellFormed(w) /\ AlikeClass(w, entities[n]) /\ Quoted[n] \in DOMAIN Exported
                 /\ Exported[Quoted[n]] = Onto!ClassNode(EntitySpec(w))
    BY ExportedClass
  <2> DEFINE spec == EntitySpec(w)
             node == Onto!ClassNode(spec)
  <2>2. SaysOfClass(spec, w) /\ Onto!Values(spec, "a") = {}
    BY <2>1, EntitySpecSays
  <2>3. /\ Onto!IsClass(node) /\ ~ Onto!IsObjectProperty(node) /\ SaysOfClass(node, w)
        /\ Onto!Values(node, "collectionName") = {w.collection}
    BY <2>2, ClassNodeSays
  <2> HIDE DEF node
  <2>4. SaysOfClass(node, entities[n])
    BY <2>1, <2>3 DEF AlikeClass, SaysOfClass, Discriminated
  <2> QED BY <2>1, <2>3, <2>4 DEF ServesClass, Onto!Has, node
<1>2. ASSUME NEW n \in DOMAIN relationships \cap Own
      PROVE  /\ ServesRelationship(Exported, n) /\ ~ Onto!IsClass(Exported[Quoted[n]])
             /\ Onto!Has(Exported[Quoted[n]], "edgeCollectionName")
  <2>1. PICK w : /\ WellTyped(w) /\ AlikeRelationship(w, relationships[n])
                 /\ Quoted[n] \in DOMAIN Exported
                 /\ Exported[Quoted[n]] = Onto!PropertyNode(RelationshipSpec(w))
    BY ExportedProperty
  <2> DEFINE spec == RelationshipSpec(w)
             node == Onto!PropertyNode(spec)
  <2>2. SaysOfRelationship(spec, w) /\ Onto!Values(spec, "a") = {}
    BY <2>1, RelationshipSpecSays
  <2>3. /\ Onto!IsObjectProperty(node) /\ ~ Onto!IsClass(node) /\ SaysOfRelationship(node, w)
        /\ Onto!Values(node, "edgeCollectionName") = {w.collection}
    BY <2>2, PropertyNodeSays
  <2> HIDE DEF node
  <2>4. SaysOfRelationship(node, relationships[n])
    BY <2>1, <2>3 DEF AlikeRelationship, SaysOfRelationship
  <2> QED BY <2>1, <2>3, <2>4 DEF ServesRelationship, Onto!Has, node
<1> QED BY <1>1, <1>2

(* What a bundle says where it is looked up, of the names given.           *)
SaysNothingElse(b, names) ==
    /\ \A n \in DOMAIN entities \cap names :
          Quoted[n] \in DOMAIN b.entities => SaysOfClass(b.entities[Quoted[n]], entities[n])
    /\ \A n \in DOMAIN relationships \cap names :
          Quoted[n] \in DOMAIN b.relationships
          => SaysOfRelationship(b.relationships[Quoted[n]], relationships[n])

Knows(b, names) ==
    /\ \A n \in DOMAIN entities \cap names : Quoted[n] \in DOMAIN b.entities
    /\ \A n \in DOMAIN relationships \cap names : Quoted[n] \in DOMAIN b.relationships

(* The export, enriched by a bundle that agrees with it.                   *)
LEMMA EnrichedExportServes ==
  ASSUME Wired, Texted, TextNames, NEW b, SaysNothingElse(b, Own)
  PROVE  Serves(Onto!_enrich_graph_with_bundle(Exported, b), Own)
<1> DEFINE enriched == Onto!_enrich_graph_with_bundle(Exported, b)
<1>1. ASSUME NEW n \in DOMAIN entities \cap Own
      PROVE  ServesClass(enriched, n)
  <2> DEFINE iri == Quoted[n]
  <2>1. /\ ServesClass(Exported, n) /\ ~ Onto!IsObjectProperty(Exported[iri])
        /\ Onto!Has(Exported[iri], "collectionName")
    BY ExportServes
  <2>2. iri \in DOMAIN Exported /\ Onto!IsClass(Exported[iri])
        /\ SaysOfClass(Exported[iri], entities[n])
    BY <2>1 DEF ServesClass
  <2>3. iri \in DOMAIN enriched /\ enriched[iri] = Exported[iri]
    <3>1. CASE iri \notin DOMAIN b.entities
      BY <2>1, <2>2, <3>1, EnrichedClass
    <3>2. CASE iri \in DOMAIN b.entities
      <4>1. SaysOfClass(b.entities[iri], entities[n])
        BY <3>2 DEF SaysNothingElse
      <4>2. Onto!_apply_phys_annotations(Exported[iri], b.entities[iri],
                                         Onto!_ENTITY_FIELD_TO_PHYS_LOCAL) = Exported[iri]
        BY <2>1, <2>2, <4>1, ClassKept
      <4> QED BY <2>1, <2>2, <3>2, <4>2, EnrichedClass
    <3> QED BY <3>1, <3>2
  <2> QED BY <2>2, <2>3 DEF ServesClass
<1>2. ASSUME NEW n \in DOMAIN relationships \cap Own
      PROVE  ServesRelationship(enriched, n)
  <2> DEFINE iri == Quoted[n]
  <2>1. /\ ServesRelationship(Exported, n) /\ ~ Onto!IsClass(Exported[iri])
        /\ Onto!Has(Exported[iri], "edgeCollectionName")
    BY ExportServes
  <2>2. iri \in DOMAIN Exported /\ Onto!IsObjectProperty(Exported[iri])
        /\ SaysOfRelationship(Exported[iri], relationships[n])
    BY <2>1 DEF ServesRelationship
  <2>3. iri \in DOMAIN enriched /\ enriched[iri] = Exported[iri]
    <3>1. CASE iri \notin DOMAIN b.relationships
      BY <2>1, <2>2, <3>1, EnrichedProperty
    <3>2. CASE iri \in DOMAIN b.relationships
      <4>1. SaysOfRelationship(b.relationships[iri], relationships[n])
        BY <3>2 DEF SaysNothingElse
      <4>2. Onto!_apply_phys_annotations(Exported[iri], b.relationships[iri],
                                         Onto!_REL_FIELD_TO_PHYS_LOCAL) = Exported[iri]
        BY <2>1, <2>2, <4>1, RelationshipKept
      <4> QED BY <2>1, <2>2, <3>2, <4>2, EnrichedProperty
    <3> QED BY <3>1, <3>2
  <2> QED BY <2>2, <2>3 DEF ServesRelationship
<1> QED BY <1>1, <1>2 DEF Serves

LEMMA BareNodes ==
  ASSUME Wired
  PROVE  /\ DOMAIN Bare = {Quoted[n] : n \in Names}
         /\ \A n \in DOMAIN entities \ DOMAIN relationships : Bare[Quoted[n]] = Said("a", "Class")
         /\ \A n \in DOMAIN relationships \ DOMAIN entities :
               Bare[Quoted[n]] = Said("a", "ObjectProperty")
<1>1. DOMAIN Bare = {Quoted[n] : n \in Names}
  BY DEF Bare
<1>2. \A m, n \in Names : Quoted[m] = Quoted[n] => m = n
  BY EncodingIsOneToOne DEF Wired
<1>3. ASSUME NEW n \in Names
      PROVE  Bare[Quoted[n]] =
                {<<"a", "Class">> : m \in {k \in DOMAIN entities : Quoted[k] = Quoted[n]}} \cup
                {<<"a", "ObjectProperty">> : m \in {k \in DOMAIN relationships : Quoted[k] = Quoted[n]}}
  BY DEF Bare
<1>4. ASSUME NEW n \in DOMAIN entities \ DOMAIN relationships
      PROVE  Bare[Quoted[n]] = Said("a", "Class")
  <2>1. /\ {k \in DOMAIN entities : Quoted[k] = Quoted[n]} = {n}
        /\ {k \in DOMAIN relationships : Quoted[k] = Quoted[n]} = {}
    BY <1>2 DEF Names
  <2> QED BY <1>3, <2>1 DEF Names, Said
<1>5. ASSUME NEW n \in DOMAIN relationships \ DOMAIN entities
      PROVE  Bare[Quoted[n]] = Said("a", "ObjectProperty")
  <2>1. /\ {k \in DOMAIN entities : Quoted[k] = Quoted[n]} = {}
        /\ {k \in DOMAIN relationships : Quoted[k] = Quoted[n]} = {n}
    BY <1>2 DEF Names
  <2> QED BY <1>3, <2>1 DEF Names, Said
<1> QED BY <1>1, <1>4, <1>5

(* An ontology that declares the names, and at most says where a class is  *)
(* stored.                                                                 *)
Declares(g, names) ==
    /\ \A n \in DOMAIN entities \cap names :
          /\ Quoted[n] \in DOMAIN g
          /\ \/ g[Quoted[n]] = Said("a", "Class")
             \/ g[Quoted[n]] = Said("a", "Class") \cup Said("collectionName", entities[n].collection)
    /\ \A n \in DOMAIN relationships \cap names :
          Quoted[n] \in DOMAIN g /\ g[Quoted[n]] = Said("a", "ObjectProperty")

LEMMA BareDeclares ==
  ASSUME Wired
  PROVE  /\ Declares(Bare, Names \ Shared)
         /\ \A m \in DOMAIN entities : Declares(Placing(m), Names \ Shared)
<1>1. /\ \A n \in DOMAIN entities \cap (Names \ Shared) :
            n \in DOMAIN entities \ DOMAIN relationships /\ n \in Names
      /\ \A n \in DOMAIN relationships \cap (Names \ Shared) :
            n \in DOMAIN relationships \ DOMAIN entities /\ n \in Names
  BY DEF Shared, Names
<1>2. Declares(Bare, Names \ Shared)
  BY <1>1, BareNodes DEF Declares
<1>3. ASSUME NEW m \in DOMAIN entities PROVE Declares(Placing(m), Names \ Shared)
  <2>1. /\ DOMAIN Placing(m) = DOMAIN Bare
        /\ \A iri \in DOMAIN Bare :
              Placing(m)[iri] = IF iri = Quoted[m]
                                THEN Bare[iri] \cup Said("collectionName", entities[m].collection)
                                ELSE Bare[iri]
    BY DEF Placing, Bare, Said
  <2>2. \A n \in Names : Quoted[n] \in DOMAIN Bare /\ (Quoted[n] = Quoted[m] => n = m)
    BY BareNodes, EncodingIsOneToOne DEF Wired, Names
  <2>3. m \in Names
    BY DEF Names
  <2>4. ASSUME NEW n \in DOMAIN entities \cap (Names \ Shared)
        PROVE  /\ Quoted[n] \in DOMAIN Placing(m)
               /\ \/ Placing(m)[Quoted[n]] = Said("a", "Class")
                  \/ Placing(m)[Quoted[n]] =
                        Said("a", "Class") \cup Said("collectionName", entities[n].collection)
    <3>1. Bare[Quoted[n]] = Said("a", "Class")
      BY <1>1, BareNodes
    <3>2. CASE n = m
      BY <1>1, <2>1, <2>2, <3>1, <3>2
    <3>3. CASE n # m
      BY <1>1, <2>1, <2>2, <3>1, <3>3
    <3> QED BY <3>2, <3>3
  <2>5. ASSUME NEW n \in DOMAIN relationships \cap (Names \ Shared)
        PROVE  /\ Quoted[n] \in DOMAIN Placing(m)
               /\ Placing(m)[Quoted[n]] = Said("a", "ObjectProperty")
    <3>1. Bare[Quoted[n]] = Said("a", "ObjectProperty")
      BY <1>1, BareNodes
    <3>2. Quoted[n] # Quoted[m]
      BY <1>1, <2>2
    <3> QED BY <1>1, <2>1, <2>2, <3>1, <3>2
  <2> QED BY <2>4, <2>5 DEF Declares
<1> QED BY <1>2, <1>3

(* One that declares the names, enriched by a bundle that knows them.      *)
LEMMA EnrichedDeclarationServes ==
  ASSUME NEW g, NEW b, NEW names, Declares(g, names), Knows(b, names), SaysNothingElse(b, names)
  PROVE  Serves(Onto!_enrich_graph_with_bundle(g, b), names)
<1> DEFINE enriched == Onto!_enrich_graph_with_bundle(g, b)
<1>1. ASSUME NEW n \in DOMAIN entities \cap names
      PROVE  ServesClass(enriched, n)
  <2> DEFINE iri == Quoted[n]
             class == Said("a", "Class")
             place == Said("collectionName", entities[n].collection)
  <2>1. iri \in DOMAIN g /\ (g[iri] = class \/ g[iri] = class \cup place)
    BY DEF Declares
  <2>2. iri \in DOMAIN b.entities /\ SaysOfClass(b.entities[iri], entities[n])
    BY DEF Knows, SaysNothingElse
  <2>3. /\ \A f : Onto!Values(class, f) = IF f = "a" THEN {"Class"} ELSE {}
        /\ \A f : Onto!Values(place, f) = IF f = "collectionName" THEN {entities[n].collection} ELSE {}
    BY ValuesOfParts
  <2>4. \A f : Onto!Values(class \cup place, f) = Onto!Values(class, f) \cup Onto!Values(place, f)
    BY ValuesOfParts
  <2>5. <<"a", "Class">> \in class
    BY DEF Said
  <2> HIDE DEF class, place
  <2>6. /\ \A f : f \notin {"a", "collectionName"} => Onto!Values(g[iri], f) = {}
        /\ Onto!Values(g[iri], "collectionName") \subseteq {entities[n].collection}
        /\ Onto!Values(g[iri], "a") = {"Class"}
    <3>1. CASE g[iri] = class
      BY <2>3, <3>1
    <3>2. CASE g[iri] = class \cup place
      BY <2>4, <2>3, <3>2
    <3> QED BY <2>1, <3>1, <3>2
  <2>7. Onto!IsClass(g[iri]) /\ ~ Onto!IsObjectProperty(g[iri])
    <3>1. <<"a", "ObjectProperty">> \in g[iri] => "ObjectProperty" \in Onto!Values(g[iri], "a")
      BY DEF Onto!Values
    <3> QED BY <2>1, <2>5, <2>6, <3>1 DEF Onto!IsClass, Onto!IsObjectProperty
  <2>8. SaysOfClass(Onto!_apply_phys_annotations(g[iri], b.entities[iri],
                                                 Onto!_ENTITY_FIELD_TO_PHYS_LOCAL), entities[n])
    BY <2>2, <2>6, ClassInherited
  <2> QED BY <2>1, <2>2, <2>7, <2>8, EnrichedClass DEF ServesClass
<1>2. ASSUME NEW n \in DOMAIN relationships \cap names
      PROVE  ServesRelationship(enriched, n)
  <2> DEFINE iri == Quoted[n]
             property == Said("a", "ObjectProperty")
  <2>1. iri \in DOMAIN g /\ g[iri] = property
    BY DEF Declares
  <2>2. iri \in DOMAIN b.relationships /\ SaysOfRelationship(b.relationships[iri], relationships[n])
    BY DEF Knows, SaysNothingElse
  <2>3. \A f : Onto!Values(property, f) = IF f = "a" THEN {"ObjectProperty"} ELSE {}
    BY ValuesOfParts
  <2>4. <<"a", "ObjectProperty">> \in property
    BY DEF Said
  <2> HIDE DEF property
  <2>5. Onto!IsObjectProperty(g[iri]) /\ ~ Onto!IsClass(g[iri])
    <3>1. <<"a", "Class">> \in g[iri] => "Class" \in Onto!Values(g[iri], "a")
      BY DEF Onto!Values
    <3> QED BY <2>1, <2>3, <2>4, <3>1 DEF Onto!IsClass, Onto!IsObjectProperty
  <2>6. \A f : f # "a" => Onto!Values(g[iri], f) = {}
    BY <2>1, <2>3
  <2>7. SaysOfRelationship(Onto!_apply_phys_annotations(g[iri], b.relationships[iri],
                                                        Onto!_REL_FIELD_TO_PHYS_LOCAL),
                           relationships[n])
    BY <2>2, <2>6, RelationshipInherited
  <2> QED BY <2>1, <2>2, <2>5, <2>7, EnrichedProperty DEF ServesRelationship
<1> QED BY <1>1, <1>2 DEF Serves

(* What is imported from the export is what the bundle says.               *)
LEMMA ImportedAgrees ==
  ASSUME Wired, Texted, TextNames
  PROVE  LET imported == Onto!turtle_to_mapping(Exported) IN
         SaysNothingElse(imported, Own) /\ Knows(imported, Own)
<1> DEFINE imported == Onto!turtle_to_mapping(Exported)
<1>1. ASSUME NEW n \in DOMAIN entities \cap Own
      PROVE  /\ Quoted[n] \in DOMAIN imported.entities
             /\ SaysOfClass(imported.entities[Quoted[n]], entities[n])
  <2>1. ServesClass(Exported, n)
    BY ExportServes
  <2> QED BY <2>1, ImportedClassSays DEF ServesClass
<1>2. ASSUME NEW n \in DOMAIN relationships \cap Own
      PROVE  /\ Quoted[n] \in DOMAIN imported.relationships
             /\ SaysOfRelationship(imported.relationships[Quoted[n]], relationships[n])
  <2>1. ServesRelationship(Exported, n)
    BY ExportServes
  <2> QED BY <2>1, ImportedRelationshipSays DEF ServesRelationship
<1> HIDE DEF imported
<1>3. SaysNothingElse(imported, Own) /\ Knows(imported, Own)
  BY <1>1, <1>2 DEF SaysNothingElse, Knows
<1> QED BY <1>3 DEF imported

(* The bundle itself, looked up under names that are their own encodings,  *)
(* or are nobody else's.                                                   *)
LEMMA WireAgrees ==
  ASSUME Wired, NEW names, names \subseteq Names,
         \A n \in names : Quoted[n] \in Names => Quoted[n] = n
  PROVE  SaysNothingElse(Wire, names)
<1>1. ASSUME NEW n \in DOMAIN entities \cap names, Quoted[n] \in DOMAIN Wire.entities
      PROVE  SaysOfClass(Wire.entities[Quoted[n]], entities[n])
  <2>1. Quoted[n] = n
    BY <1>1 DEF Wire, Specified, Names
  <2>2. Wire.entities[n] = EntitySpec(entities[n])
    BY DEF Wire, Specified
  <2>3. SaysOfClass(EntitySpec(entities[n]), entities[n])
    BY EntitySpecSays DEF Wired
  <2> QED BY <2>1, <2>2, <2>3
<1>2. ASSUME NEW n \in DOMAIN relationships \cap names, Quoted[n] \in DOMAIN Wire.relationships
      PROVE  SaysOfRelationship(Wire.relationships[Quoted[n]], relationships[n])
  <2>1. Quoted[n] = n
    BY <1>2 DEF Wire, Specified, Names
  <2>2. Wire.relationships[n] = RelationshipSpec(relationships[n])
    BY DEF Wire, Specified
  <2>3. SaysOfRelationship(RelationshipSpec(relationships[n]), relationships[n])
    BY RelationshipSpecSays DEF Wired
  <2> QED BY <2>1, <2>2, <2>3
<1> QED BY <1>1, <1>2 DEF SaysNothingElse

(* Which ontology a request resolves by. *)
LEMMA ResolvedBy ==
  /\ \A g : Onto!_resolver_from_request(g, Wire) = Onto!_enrich_graph_with_bundle(g, Wire)
  /\ \A g, imported : imported = Onto!turtle_to_mapping(g) =>
        /\ Onto!_resolver_from_request(Onto!Empty, imported)
              = Onto!_enrich_graph_with_bundle(g, imported)
        /\ \A inline : inline # Onto!Empty =>
              Onto!_resolver_from_request(inline, imported)
                 = Onto!_enrich_graph_with_bundle(inline, imported)
<1>1. ~ Wire.imported
  BY DEF Wire, Specified
<1>2. \A g, imported : imported = Onto!turtle_to_mapping(g) => imported.imported /\ imported.owl = g
  BY DEF Onto!turtle_to_mapping
<1> QED BY <1>1, <1>2 DEF Onto!_resolver_from_request

LEMMA EveryWayServes ==
  ASSUME Wired, Texted, TextNames, Unmixed
  PROVE  LET imported == Onto!turtle_to_mapping(Exported) IN
         \A g \in {Exported, Onto!_resolver_from_request(Onto!Empty, imported),
                   Onto!_resolver_from_request(Exported, Wire),
                   Onto!_resolver_from_request(Bare, imported)} :
            Serves(g, Own)
<1> DEFINE imported == Onto!turtle_to_mapping(Exported)
<1>1. SaysNothingElse(imported, Own) /\ Knows(imported, Own)
  BY ImportedAgrees
<1>2. Serves(Exported, Own)
  BY ExportServes DEF Serves
<1>3. Serves(Onto!_resolver_from_request(Onto!Empty, imported), Own)
  BY <1>1, EnrichedExportServes, ResolvedBy
<1>4. Serves(Onto!_resolver_from_request(Exported, Wire), Own)
  <2>1. SaysNothingElse(Wire, Own)
    BY WireAgrees DEF Unmixed, Own
  <2> QED BY <2>1, EnrichedExportServes, ResolvedBy
<1>5. Serves(Onto!_resolver_from_request(Bare, imported), Own)
  <2>1. CASE Names = {}
    BY <2>1 DEF Serves, Own
  <2>2. CASE Names # {}
    <3>1. Bare # Onto!Empty
      BY <2>2, BareNodes DEF Onto!Empty
    <3>2. Serves(Onto!_enrich_graph_with_bundle(Bare, imported), Own)
      <4>1. Declares(Bare, Own)
        BY BareDeclares DEF Declares, Own
      <4> QED BY <1>1, <4>1, EnrichedDeclarationServes
    <3> QED BY <3>1, <3>2, ResolvedBy
  <2> QED BY <2>1, <2>2
<1> QED BY <1>2, <1>3, <1>4, <1>5

LEMMA DeclarationServes ==
  ASSUME Wired, NEW g, Declares(g, Names \ Shared)
  PROVE  Serves(Onto!_resolver_from_request(g, Wire), {n \in Names \ Shared : Quoted[n] = n})
<1> DEFINE own == {n \in Names \ Shared : Quoted[n] = n}
<1>1. Declares(g, own)
  BY DEF Declares
<1>2. SaysNothingElse(Wire, own)
  BY WireAgrees
<1>3. Knows(Wire, own)
  BY DEF Knows, Wire, Specified
<1>4. Serves(Onto!_enrich_graph_with_bundle(g, Wire), own)
  BY <1>1, <1>2, <1>3, EnrichedDeclarationServes
<1> QED BY <1>4, ResolvedBy

----------------------------------------------------------------------------
(* The inductive invariant: what is acquired is well-formed                *)

Classed ==
    stage = "infer" => \E ds \in SUBSET Doc, es \in SUBSET Edge : cls = Classified(ds, es)

FlagsLast == stage = "done" /\ Quiet => \A n \in DOMAIN entities : Flagged(docs, entities[n])

OntologyInv == Classed /\ Wired /\ FlagsLast

LEMMA NamedClasses ==
  ASSUME NEW ds \in SUBSET Doc, NEW es, NEW ents, Emits(Classified(ds, es), ents),
         \A n \in DOMAIN ents : IsEntity(ents[n]) /\ ents[n].array = "unknown",
         NEW n \in DOMAIN ents
  PROVE  n \in Name /\ WellFormed(ents[n])
<1> DEFINE e == ents[n]
           k == Classified(ds, es)[e.collection]
<1>1. e.collection \in Collection /\ e.array = "unknown" /\ Emitted(Classified(ds, es), n, e)
  BY DEF Emits, IsEntity
<1>2. /\ k.style \in {"RPT", "COLLECTION", "LABEL"}
      /\ k.style = "LABEL" => /\ k.field # None
                              /\ k.values = ValuesOf(Present(Part(ds, e.collection), k.field))
  BY <1>1, ClassOfDocuments
<1> HIDE DEF e
<1>3. CASE e.style # "LABEL"
  <2>1. n \in Name
    BY <1>1, <1>3 DEF Emitted, Name
  <2> QED BY <1>1, <1>2, <1>3, <2>1 DEF Emitted, WellFormed, e
<1>4. CASE e.style = "LABEL"
  <2>1. n \in ValuesOf(Present(Part(ds, e.collection), k.field)) /\ e.field # None /\ e.value = n
    BY <1>1, <1>2, <1>4 DEF Emitted
  <2>2. PICK d \in Doc : n \in d.values
    BY <2>1 DEF ValuesOf, Present, Part
  <2>3. n # None
    BY <2>2, NoneIsNoName
  <2>4. n \in Name
    BY <2>2 DEF Name
  <2> QED BY <1>1, <1>4, <2>1, <2>3, <2>4 DEF WellFormed, e
<1> QED BY <1>3, <1>4

LEMMA NamedRelationships ==
  ASSUME NEW k, NEW index, NEW n \in DOMAIN _emit_relationships(k, index),
         \A c \in EdgeCollection :
            \E es \in SUBSET Edge : k[c] = _classify_edge_collection(Part(es, c))
  PROVE  n \in Name /\ WellTyped(_emit_relationships(k, index)[n])
<1> DEFINE given == [i \in DOMAIN EdgeOrder |-> RelationshipsOf(k[EdgeOrder[i]], EdgeOrder[i], index)]
           rels == LastWins(given)
<1>1. rels = _emit_relationships(k, index)
  BY DEF _emit_relationships
<1>2. /\ DOMAIN rels = NamesOf(given)
      /\ \A m \in NamesOf(given) : \E i \in DOMAIN given :
            m \in DOMAIN given[i] /\ rels[m] = given[i][m]
  <2>1. DOMAIN given \subseteq 1..Len(EdgeOrder) /\ Len(EdgeOrder) \in Nat
    BY Positions
  <2> HIDE DEF given
  <2> QED BY <2>1, LastTells
<1>3. ASSUME NEW i \in DOMAIN given, n \in DOMAIN given[i]
      PROVE  n \in Name /\ WellTyped(given[i][n])
  <2> DEFINE c == EdgeOrder[i]
  <2>1. c \in EdgeCollection /\ given[i] = RelationshipsOf(k[c], c, index)
    BY Positions
  <2> HIDE DEF given, c
  <2>2. PICK es \in SUBSET Edge : k[c] = _classify_edge_collection(Part(es, c))
    BY <2>1
  <2>3. k[c] = Classified({}, es)[c]
    BY <2>1, <2>2, ClassOfEdges
  <2>4. /\ k[c].style \in {"GENERIC_WITH_TYPE", "DEDICATED_COLLECTION"}
        /\ k[c].style = "GENERIC_WITH_TYPE" =>
              k[c].values = {e.type : e \in {x \in Part(es, c) : x.type # None}}
    BY <2>1, <2>3, ClassOfEdges
  <2>5. CASE k[c].style = "GENERIC_WITH_TYPE"
    <3>1. n \in k[c].values /\ given[i][n] = Relationship("GENERIC_WITH_TYPE", c, n, Inferred(index, c, n))
      BY <1>3, <2>1, <2>5 DEF RelationshipsOf
    <3>2. PICK e \in Edge : e.type = n /\ e.type # None
      BY <2>4, <2>5, <3>1 DEF Part
    <3>3. n \in Name
      BY <3>2 DEF Name
    <3> QED BY <3>1, <3>2, <3>3 DEF Relationship, WellTyped
  <2>6. CASE k[c].style # "GENERIC_WITH_TYPE"
    <3>1. n = c /\ given[i][n] = Relationship("DEDICATED_COLLECTION", c, None, Inferred(index, c, None))
      BY <1>3, <2>1, <2>4, <2>6 DEF RelationshipsOf
    <3>2. n \in Name
      BY <2>1, <3>1 DEF Name
    <3> QED BY <3>1, <3>2 DEF Relationship, WellTyped
  <2> QED BY <2>5, <2>6
<1> HIDE DEF given, rels
<1> QED BY <1>1, <1>2, <1>3

LEMMA WiredBuild ==
  ASSUME AcquisitionInv, OntologyInv, build_heuristic_mapping
  PROVE  OntologyInv'
<1>1. stage = "infer" /\ stage' = "rpt" /\ entities' = _emit_entities(cls)
  BY DEF build_heuristic_mapping
<1>2. PICK sample \in Samples(edges) :
         relationships' = _emit_relationships(cls, EndpointIndex(cls, sample))
  BY DEF build_heuristic_mapping
<1>3. PICK ds \in SUBSET Doc, es \in SUBSET Edge : cls = Classified(ds, es)
  BY <1>1 DEF OntologyInv, Classed
<1>4. \A n \in DOMAIN entities' : n \in Name /\ WellFormed(entities'[n])
  BY <1>1, <1>3, EmittedEntities, NamedClasses
<1>5. \A c \in EdgeCollection : cls[c] = _classify_edge_collection(Part(es, c))
  BY <1>3, ClassOfEdges
<1>6. \A n \in DOMAIN relationships' : n \in Name /\ WellTyped(relationships'[n])
  BY <1>2, <1>5, NamedRelationships
<1>7. Wired'
  BY <1>4, <1>6 DEF Wired, Names
<1> QED BY <1>1, <1>7 DEF OntologyInv, Classed, FlagsLast

LEMMA WiredAnalyze ==
  ASSUME AcquisitionInv, OntologyInv, _acquire_via_analyzer
  PROVE  OntologyInv'
<1>1. /\ stage' = "rpt"
      /\ entities' = LastWins([i \in DOMAIN Order |-> AnalyzerClass(Order[i])])
  BY DEF _acquire_via_analyzer
<1> DEFINE k == [c \in EdgeCollection |-> _classify_edge_collection(EdgesIn(c))]
           open == _emit_relationships(k, Nothing)
<1>2. PICK pinned : relationships' = [n \in DOMAIN open |-> [open[n] EXCEPT !.from = pinned]]
  BY DEF _acquire_via_analyzer
<1>3. docs \subseteq Doc /\ edges \in SUBSET Edge
  BY DEF AcquisitionInv, Typed
<1>4. ASSUME NEW n \in DOMAIN entities' PROVE n \in Name /\ WellFormed(entities'[n])
  <2> DEFINE e == entities'[n]
  <2>1. IsEntity(e) /\ e.array = "unknown" /\ Analyzed(docs, Exact, n, e)
    BY <1>1, AnalyzedEntities
  <2> HIDE DEF e
  <2>2. CASE e.style = "LABEL"
    <3>1. e.field = "type" /\ e.value = n /\ n \in ValuesOf(Part(docs, e.collection))
      BY <2>1, <2>2 DEF Analyzed
    <3>2. PICK d \in Doc : n \in d.values
      BY <1>3, <3>1 DEF ValuesOf, Part
    <3>3. n # None /\ n \in Name
      BY <3>2, NoneIsNoName DEF Name
    <3> QED BY <2>1, <2>2, <3>1, <3>3 DEF WellFormed, None, e
  <2>3. CASE e.style # "LABEL"
    <3>1. e.style \in {"RPT", "COLLECTION"} /\ n \in {e.collection, ClassOf[e.collection]}
          /\ e.collection \in Collection
      BY <2>1, <2>3 DEF Analyzed, IsEntity
    <3>2. n \in Name
      BY <3>1 DEF Name
    <3> QED BY <2>1, <3>1, <3>2 DEF WellFormed, e
  <2> QED BY <2>2, <2>3
<1>5. \A c \in EdgeCollection : k[c] = _classify_edge_collection(Part(edges, c))
  BY DEF EdgesIn
<1>6. \A n \in DOMAIN open : n \in Name /\ WellTyped(open[n])
  <2> HIDE DEF k
  <2> QED BY <1>3, <1>5, NamedRelationships
<1>7. \A n \in DOMAIN open : IsRelationship(open[n])
  <2>1. \A n \in DOMAIN open : \E style, c, value, ends : open[n] = Relationship(style, c, value, ends)
    <3> HIDE DEF k
    <3> QED BY EmittedRelationships
  <2> HIDE DEF open
  <2> QED BY <2>1 DEF Relationship, IsRelationship
<1> HIDE DEF open
<1>8. ASSUME NEW n \in DOMAIN relationships' PROVE n \in Name /\ WellTyped(relationships'[n])
  <2>1. n \in DOMAIN open /\ relationships'[n] = [open[n] EXCEPT !.from = pinned]
    BY <1>2
  <2>2. PICK a, b, c, d, f :
           open[n] = [style |-> a, collection |-> b, value |-> c, from |-> d, to |-> f]
    BY <1>7, <2>1 DEF IsRelationship
  <2>3. relationships'[n] = [style |-> a, collection |-> b, value |-> c, from |-> pinned, to |-> f]
    BY <2>1, <2>2
  <2> QED BY <1>6, <2>1, <2>2, <2>3 DEF WellTyped
<1>9. Wired'
  BY <1>4, <1>8 DEF Wired, Names
<1> QED BY <1>1, <1>9 DEF OntologyInv, Classed, FlagsLast

LEMMA WiredRpt ==
  ASSUME AcquisitionInv, OntologyInv, _apply_rpt_enrichment
  PROVE  OntologyInv'
<1>1. stage' = "classify"
  BY DEF _apply_rpt_enrichment
<1>2. PICK first \in Samples(docs), second \in Samples(docs) :
         LET found == {i \in DOMAIN Order : _classify_rpt_from_sample(Order[i], Part(first, Order[i]))}
             overlay == [c \in {Order[i] : i \in found} |-> Entity("RPT", c, None, None)]
             triples == [i \in found |-> RptRelationships(Order[i], Part(second, Order[i]))]
         IN  /\ entities' = Over(overlay, entities)
             /\ relationships' \in {relationships, Over(relationships, LastWins(triples))}
  BY DEF _apply_rpt_enrichment
<1> DEFINE found == {i \in DOMAIN Order : _classify_rpt_from_sample(Order[i], Part(first, Order[i]))}
           tables == {Order[i] : i \in found}
           triples == [i \in found |-> RptRelationships(Order[i], Part(second, Order[i]))]
           added == LastWins(triples)
<1>3. second \subseteq Doc
  BY SamplesAreParts DEF AcquisitionInv, Typed
<1>4. tables \subseteq Collection
  BY Positions
<1>5. ASSUME NEW n \in DOMAIN entities' PROVE n \in Name /\ WellFormed(entities'[n])
  <2>1. /\ n \in tables \cup DOMAIN entities
        /\ entities'[n] = IF n \in tables THEN Entity("RPT", n, None, None) ELSE entities[n]
    BY <1>2 DEF Over
  <2> HIDE DEF tables
  <2>2. CASE n \in tables
    BY <1>4, <2>1, <2>2 DEF Entity, WellFormed, Name
  <2>3. CASE n \notin tables
    BY <2>1, <2>3 DEF OntologyInv, Wired, Names
  <2> QED BY <2>2, <2>3
<1>6. ASSUME NEW n \in DOMAIN added PROVE n \in Name /\ WellTyped(added[n])
  <2>1. DOMAIN triples \subseteq 1..Len(Order) /\ Len(Order) \in Nat
    BY Positions
  <2>2. PICK i \in DOMAIN triples : n \in DOMAIN triples[i] /\ added[n] = triples[i][n]
    <3> HIDE DEF triples
    <3> QED BY <2>1, LastTells
  <2>3. triples[i] = RptRelationships(Order[i], Part(second, Order[i]))
    OBVIOUS
  <2> HIDE DEF triples, added
  <2>4. /\ n \in {d.row.p : d \in Triples(Part(second, Order[i]))}
        /\ added[n] = RptEdge(Order[i], n, Part(second, Order[i]))
    BY <2>2, <2>3 DEF RptRelationships
  <2>5. PICK d \in Doc : n = d.row.p
    BY <1>3, <2>4 DEF Triples, Part
  <2>6. n \in Name
    BY <2>5 DEF Name
  <2>7. added[n].style = "RPT_EDGE"
    BY <2>4 DEF RptEdge, Relationship
  <2> QED BY <2>6, <2>7 DEF WellTyped
<1>7. ASSUME NEW n \in DOMAIN relationships' PROVE n \in Name /\ WellTyped(relationships'[n])
  <2>1. \/ relationships' = relationships
        \/ relationships' = Over(relationships, added)
    BY <1>2
  <2> HIDE DEF added
  <2>2. \/ n \in DOMAIN relationships /\ relationships'[n] = relationships[n]
        \/ n \in DOMAIN added /\ relationships'[n] = added[n]
    BY <2>1 DEF Over
  <2> QED BY <1>6, <2>2 DEF OntologyInv, Wired, Names
<1>8. Wired'
  BY <1>5, <1>7 DEF Wired, Names
<1> QED BY <1>1, <1>8 DEF OntologyInv, Classed, FlagsLast

LEMMA WiredEnrich ==
  ASSUME AcquisitionInv, OntologyInv, _apply_edge_endpoint_enrichment
  PROVE  OntologyInv'
<1>1. stage' = "shape" /\ entities' = entities
  BY DEF _apply_edge_endpoint_enrichment
<1>2. PICK sample \in Samples(edges) :
         relationships' = [n \in DOMAIN relationships |->
             LET r == relationships[n]
                 ends == Inferred(EndpointIndex(cls, sample), r.collection, r.value)
             IN  IF r.style = "RPT_EDGE" THEN r
                 ELSE [r EXCEPT !.from = Fill(@, _as_entity_key(ends.from)),
                                !.to = Fill(@, _as_entity_key(ends.to))]]
  BY DEF _apply_edge_endpoint_enrichment
<1>3. ASSUME NEW n \in DOMAIN relationships' PROVE n \in Name /\ WellTyped(relationships'[n])
  <2> DEFINE r == relationships[n]
  <2>1. n \in DOMAIN relationships
        /\ \E from, to : relationships'[n] \in {r, [r EXCEPT !.from = from, !.to = to]}
    BY <1>2
  <2>2. n \in Name /\ WellTyped(r) /\ IsRelationship(r)
    BY <2>1 DEF OntologyInv, Wired, Names, AcquisitionInv, Typed
  <2> HIDE DEF r
  <2>3. PICK from, to : relationships'[n] \in {r, [r EXCEPT !.from = from, !.to = to]}
    BY <2>1
  <2>4. PICK a, b, c, d, f : r = [style |-> a, collection |-> b, value |-> c, from |-> d, to |-> f]
    BY <2>2 DEF IsRelationship
  <2>5. \/ relationships'[n] = r
        \/ relationships'[n] = [style |-> a, collection |-> b, value |-> c, from |-> from, to |-> to]
    BY <2>3, <2>4
  <2>6. relationships'[n].style = r.style /\ relationships'[n].value = r.value
    BY <2>4, <2>5
  <2> QED BY <2>2, <2>6 DEF WellTyped
<1>4. Wired'
  BY <1>1, <1>3 DEF OntologyInv, Wired, Names
<1> QED BY <1>1, <1>4 DEF OntologyInv, Classed, FlagsLast

LEMMA WiredShape ==
  ASSUME AcquisitionInv, OntologyInv, _apply_label_shape_enrichment
  PROVE  OntologyInv'
<1>1. stage' = "scope" /\ relationships' = relationships
  BY DEF _apply_label_shape_enrichment
<1>2. PICK flags \in [DOMAIN entities -> {"unknown", "yes", "no"}] :
         entities' = [n \in DOMAIN entities |-> [entities[n] EXCEPT !.array = flags[n]]]
  BY DEF _apply_label_shape_enrichment
<1>3. ASSUME NEW n \in DOMAIN entities' PROVE n \in Name /\ WellFormed(entities'[n])
  <2> DEFINE e == entities[n]
             flag == flags[n]
  <2>1. n \in DOMAIN entities /\ entities'[n] = [e EXCEPT !.array = flag]
        /\ flag \in {"unknown", "yes", "no"}
    BY <1>2
  <2>2. n \in Name /\ WellFormed(e) /\ IsEntity(e)
    BY <2>1 DEF OntologyInv, Wired, Names, AcquisitionInv, Typed
  <2> HIDE DEF e, flag
  <2>3. PICK a, b, c, d, f :
           e = [style |-> a, collection |-> b, field |-> c, value |-> d, array |-> f]
    BY <2>2 DEF IsEntity
  <2>4. entities'[n] = [style |-> a, collection |-> b, field |-> c, value |-> d, array |-> flag]
    BY <2>1, <2>3
  <2> QED BY <2>1, <2>2, <2>3, <2>4 DEF WellFormed
<1>4. Wired'
  BY <1>1, <1>3 DEF OntologyInv, Wired, Names
<1> QED BY <1>1, <1>4 DEF OntologyInv, Classed, FlagsLast

LEMMA WiredScope ==
  ASSUME AcquisitionInv, OntologyInv, scope_bundle_to_graph
  PROVE  OntologyInv'
<1>1. stage = "scope" /\ stage' = "done" /\ UNCHANGED <<database, request, cls>>
  BY DEF scope_bundle_to_graph
<1>2. docs' = docs /\ Quiet' = Quiet
  BY <1>1, DatabaseKept DEF database
<1>3. /\ \A n \in DOMAIN entities' : n \in DOMAIN entities /\ entities'[n] = entities[n]
      /\ \A n \in DOMAIN relationships' : n \in DOMAIN relationships /\ relationships'[n] = relationships[n]
  <2>1. CASE UNCHANGED bundle
    BY <2>1 DEF bundle
  <2>2. CASE ~ UNCHANGED bundle
    BY <2>2 DEF scope_bundle_to_graph
  <2> QED BY <2>1, <2>2
<1>4. Wired'
  BY <1>3 DEF OntologyInv, Wired, Names
<1>5. FlagsLast'
  BY <1>1, <1>2, <1>3 DEF FlagsLast, AcquisitionInv, FlagsShown, Flagged, Filling
<1> QED BY <1>1, <1>4, <1>5 DEF OntologyInv, Classed

LEMMA OntologyStep ==
  ASSUME AcquisitionInv, OntologyInv, [Next]_vars
  PROVE  OntologyInv'
<1>1. ASSUME UNCHANGED bundle PROVE Wired'
  <2>1. entities' = entities /\ relationships' = relationships
    BY <1>1 DEF bundle
  <2> QED BY <2>1 DEF OntologyInv, Wired, Names
<1>2. CASE UNCHANGED vars
  <2>1. /\ stage' = stage /\ cls' = cls /\ docs' = docs /\ changes' = changes
        /\ entities' = entities /\ relationships' = relationships
    BY <1>2 DEF vars, bundle, database
  <2>2. Classed' /\ FlagsLast'
    BY <2>1 DEF OntologyInv, Classed, FlagsLast, Flagged, Quiet
  <2> QED BY <1>1, <1>2, <2>2 DEF OntologyInv, vars
<1>3. CASE _classify_all
  <2>1. stage' \in {"infer", "enrich"} /\ UNCHANGED bundle
    BY <1>3 DEF _classify_all
  <2>2. PICK ds \in Samples(docs), es \in Samples(edges) : cls' = Classified(ds, es)
    BY <1>3 DEF _classify_all
  <2>3. ds \subseteq Doc /\ es \subseteq Edge
    BY SamplesAreParts DEF AcquisitionInv, Typed
  <2> QED BY <1>1, <2>1, <2>2, <2>3 DEF OntologyInv, Classed, FlagsLast
<1>4. CASE PassFails
  <2>1. stage' \notin {"infer", "done"} /\ UNCHANGED bundle
    BY <1>4 DEF PassFails
  <2> QED BY <1>1, <2>1 DEF OntologyInv, Classed, FlagsLast
<1>5. CASE Change
  <2>1. stage # "done" /\ stage' = stage /\ cls' = cls /\ UNCHANGED bundle
    BY <1>5 DEF Change
  <2> QED BY <1>1, <2>1 DEF OntologyInv, Classed, FlagsLast
<1>6. CASE build_heuristic_mapping
  BY <1>6, WiredBuild
<1>7. CASE _acquire_via_analyzer
  BY <1>7, WiredAnalyze
<1>8. CASE _apply_rpt_enrichment
  BY <1>8, WiredRpt
<1>9. CASE _apply_edge_endpoint_enrichment
  BY <1>9, WiredEnrich
<1>10. CASE _apply_label_shape_enrichment
  BY <1>10, WiredShape
<1>11. CASE scope_bundle_to_graph
  BY <1>11, WiredScope
<1> QED BY <1>2, <1>3, <1>4, <1>5, <1>6, <1>7, <1>8, <1>9, <1>10, <1>11 DEF Next

LEMMA OntologyInductive == Spec => [](AcquisitionInv /\ OntologyInv)
<1>1. Init => OntologyInv
  BY DEF Init, OntologyInv, Classed, Wired, FlagsLast, Names, Nothing
<1>2. AcquisitionInv /\ OntologyInv /\ [Next]_vars => OntologyInv'
  BY OntologyStep
<1> QED BY <1>1, <1>2, Inductive, PTL DEF Spec

(* The text, which the analyzer writes and the flags are put into.         *)
TextInv ==
    /\ Texted
    /\ graph = Whole => TextNames
    /\ stage \in Building => text = NoText
    /\ stage \in {"rpt", "classify", "enrich", "shape"} =>
          \A n \in DOMAIN text.entities : text.entities[n].array = "unknown"

LEMMA NoTextIsTexted ==
  /\ text = NoText => Texted /\ TextNames /\ DOMAIN text.entities = {}
  /\ text' = NoText => Texted' /\ TextNames' /\ DOMAIN text'.entities = {}
<1>1. ASSUME text = NoText PROVE Texted /\ TextNames /\ DOMAIN text.entities = {}
  <2>1. DOMAIN text.entities = {} /\ DOMAIN text.relationships = {}
        /\ text = [entities |-> Nothing, relationships |-> Nothing]
    BY <1>1 DEF NoText, Nothing
  <2> QED BY <1>1, <2>1 DEF Texted, TextNames
<1>2. ASSUME text' = NoText PROVE Texted' /\ TextNames' /\ DOMAIN text'.entities = {}
  <2>1. DOMAIN text'.entities = {} /\ DOMAIN text'.relationships = {}
        /\ text' = [entities |-> Nothing, relationships |-> Nothing]
    BY <1>2 DEF NoText, Nothing
  <2> QED BY <1>2, <2>1 DEF Texted, TextNames
<1> QED BY <1>1, <1>2

LEMMA TextAnalyze ==
  ASSUME AcquisitionInv, OntologyInv', _acquire_via_analyzer
  PROVE  TextInv'
<1>1. /\ stage' = "rpt"
      /\ entities' = LastWins([i \in DOMAIN Order |-> AnalyzerClass(Order[i])])
      /\ text' \in {NoText, [entities |-> entities', relationships |-> relationships']}
  BY DEF _acquire_via_analyzer
<1>2. CASE text' = NoText
  BY <1>1, <1>2, NoTextIsTexted DEF TextInv, Building
<1>3. CASE text' # NoText
  <2>1. text' = [entities |-> entities', relationships |-> relationships']
    BY <1>1, <1>3
  <2>2. text'.entities = entities' /\ text'.relationships = relationships'
    BY <2>1
  <2>3. \A n \in DOMAIN entities' : IsEntity(entities'[n]) /\ entities'[n].array = "unknown"
    BY <1>1, AnalyzedEntities
  <2>4. /\ DOMAIN entities' \cup DOMAIN relationships' \subseteq Name
        /\ \A n \in DOMAIN entities' : WellFormed(entities'[n])
        /\ \A n \in DOMAIN relationships' : WellTyped(relationships'[n])
    BY DEF OntologyInv, Wired, Names
  <2>5. DOMAIN entities' \cup DOMAIN relationships' # {}
    <3> SUFFICES ASSUME DOMAIN entities' = {}, DOMAIN relationships' = {} PROVE FALSE
      OBVIOUS
    <3>1. entities' = [n \in DOMAIN entities' |-> entities'[n]]
      BY <1>1, AnalyzedEntities
    <3>2. relationships' = [n \in DOMAIN relationships' |-> relationships'[n]]
      BY DEF _acquire_via_analyzer
    <3>3. entities' = Nothing /\ relationships' = Nothing
      BY <3>1, <3>2 DEF Nothing
    <3> QED BY <1>3, <2>1, <3>3 DEF NoText
  <2>6. /\ \A n \in DOMAIN entities' : AlikeClass(entities'[n], entities'[n])
        /\ \A n \in DOMAIN relationships' : AlikeRelationship(relationships'[n], relationships'[n])
    BY DEF AlikeClass, AlikeRelationship
  <2>7. Texted'
    BY <2>1, <2>2, <2>3, <2>4, <2>5, <2>6 DEF Texted
  <2>8. TextNames'
    BY <2>2 DEF TextNames
  <2> QED BY <1>1, <2>2, <2>3, <2>7, <2>8 DEF TextInv, Building
<1> QED BY <1>2, <1>3

(* A pass that leaves the text alone, and of the bundle what it describes. *)
LEMMA TextStays ==
  ASSUME Texted, text' = text,
         \A n \in DOMAIN entities' : entities'[n].style # "RPT" =>
            n \in DOMAIN entities /\ entities'[n] = entities[n],
         \A n \in DOMAIN relationships' : relationships'[n].style # "RPT_EDGE" =>
            n \in DOMAIN relationships /\ AlikeRelationship(relationships[n], relationships'[n])
  PROVE  Texted'
<1>1. ASSUME text # NoText, NEW n \in DOMAIN entities', entities'[n].style # "RPT"
      PROVE  n \in DOMAIN text.entities /\ AlikeClass(text.entities[n], entities'[n])
  BY <1>1 DEF Texted
<1>2. ASSUME text # NoText, NEW n \in DOMAIN relationships', relationships'[n].style # "RPT_EDGE"
      PROVE  /\ n \in DOMAIN text.relationships
             /\ AlikeRelationship(text.relationships[n], relationships'[n])
  BY <1>2 DEF Texted, AlikeRelationship
<1> QED BY <1>1, <1>2 DEF Texted

LEMMA TextRpt ==
  ASSUME TextInv, _apply_rpt_enrichment
  PROVE  TextInv'
<1>1. stage = "rpt" /\ stage' = "classify" /\ text' = text /\ graph' = graph
  BY DEF _apply_rpt_enrichment, request
<1>2. PICK first \in Samples(docs), second \in Samples(docs) :
         LET found == {i \in DOMAIN Order : _classify_rpt_from_sample(Order[i], Part(first, Order[i]))}
             overlay == [c \in {Order[i] : i \in found} |-> Entity("RPT", c, None, None)]
             triples == [i \in found |-> RptRelationships(Order[i], Part(second, Order[i]))]
         IN  /\ entities' = Over(overlay, entities)
             /\ relationships' \in {relationships, Over(relationships, LastWins(triples))}
  BY DEF _apply_rpt_enrichment
<1> DEFINE found == {i \in DOMAIN Order : _classify_rpt_from_sample(Order[i], Part(first, Order[i]))}
           tables == {Order[i] : i \in found}
           triples == [i \in found |-> RptRelationships(Order[i], Part(second, Order[i]))]
           added == LastWins(triples)
<1>3. ASSUME NEW n \in DOMAIN entities', entities'[n].style # "RPT"
      PROVE  n \in DOMAIN entities /\ entities'[n] = entities[n]
  <2>1. /\ n \in tables \cup DOMAIN entities
        /\ entities'[n] = IF n \in tables THEN Entity("RPT", n, None, None) ELSE entities[n]
    BY <1>2 DEF Over
  <2> QED BY <1>3, <2>1 DEF Entity
<1>4. ASSUME NEW n \in DOMAIN added PROVE added[n].style = "RPT_EDGE"
  <2>1. DOMAIN triples \subseteq 1..Len(Order) /\ Len(Order) \in Nat
    BY Positions
  <2>2. PICK i \in DOMAIN triples : n \in DOMAIN triples[i] /\ added[n] = triples[i][n]
    <3> HIDE DEF triples
    <3> QED BY <1>4, <2>1, LastTells
  <2>3. triples[i] = RptRelationships(Order[i], Part(second, Order[i]))
    OBVIOUS
  <2>4. RptEdge(Order[i], n, Part(second, Order[i])).style = "RPT_EDGE"
    BY DEF RptEdge, Relationship
  <2>5. RptRelationships(Order[i], Part(second, Order[i]))[n] = RptEdge(Order[i], n, Part(second, Order[i]))
    <3> HIDE DEF triples, added
    <3> QED BY <2>2, <2>3 DEF RptRelationships
  <2> HIDE DEF triples, added
  <2> QED BY <2>2, <2>3, <2>4, <2>5
<1>5. ASSUME NEW n \in DOMAIN relationships', relationships'[n].style # "RPT_EDGE"
      PROVE  n \in DOMAIN relationships /\ AlikeRelationship(relationships[n], relationships'[n])
  <2>1. \/ relationships' = relationships
        \/ relationships' = Over(relationships, added)
    BY <1>2
  <2> HIDE DEF added
  <2>2. \/ n \in DOMAIN relationships /\ relationships'[n] = relationships[n]
        \/ n \in DOMAIN added /\ relationships'[n] = added[n]
    BY <1>5, <2>1 DEF Over
  <2> QED BY <1>4, <1>5, <2>2 DEF AlikeRelationship
<1>6. Texted'
  BY <1>1, <1>3, <1>5, TextStays DEF TextInv
<1>7. DOMAIN entities \subseteq DOMAIN entities' /\ DOMAIN relationships \subseteq DOMAIN relationships'
  <2> HIDE DEF added
  <2> QED BY <1>2 DEF Over, added
<1> QED BY <1>1, <1>6, <1>7 DEF TextInv, TextNames, Building

LEMMA TextEnrich ==
  ASSUME AcquisitionInv, TextInv, _apply_edge_endpoint_enrichment
  PROVE  TextInv'
<1>1. stage = "enrich" /\ stage' = "shape" /\ entities' = entities /\ text' = text
      /\ graph' = graph
  BY DEF _apply_edge_endpoint_enrichment, request
<1>2. PICK sample \in Samples(edges) :
         relationships' = [n \in DOMAIN relationships |->
             LET r == relationships[n]
                 ends == Inferred(EndpointIndex(cls, sample), r.collection, r.value)
             IN  IF r.style = "RPT_EDGE" THEN r
                 ELSE [r EXCEPT !.from = Fill(@, _as_entity_key(ends.from)),
                                !.to = Fill(@, _as_entity_key(ends.to))]]
  BY DEF _apply_edge_endpoint_enrichment
<1>3. ASSUME NEW n \in DOMAIN relationships'
      PROVE  n \in DOMAIN relationships /\ AlikeRelationship(relationships[n], relationships'[n])
  <2> DEFINE r == relationships[n]
  <2>1. n \in DOMAIN relationships
        /\ \E from, to : relationships'[n] \in {r, [r EXCEPT !.from = from, !.to = to]}
    BY <1>2
  <2>2. IsRelationship(r)
    BY <2>1 DEF AcquisitionInv, Typed
  <2> HIDE DEF r
  <2>3. PICK from, to : relationships'[n] \in {r, [r EXCEPT !.from = from, !.to = to]}
    BY <2>1
  <2>4. PICK a, b, c, d, f : r = [style |-> a, collection |-> b, value |-> c, from |-> d, to |-> f]
    BY <2>2 DEF IsRelationship
  <2>5. \/ relationships'[n] = r
        \/ relationships'[n] = [style |-> a, collection |-> b, value |-> c, from |-> from, to |-> to]
    BY <2>3, <2>4
  <2>6. AlikeRelationship(r, relationships'[n])
    BY <2>4, <2>5 DEF AlikeRelationship
  <2> QED BY <2>1, <2>6 DEF r
<1>4. Texted'
  BY <1>1, <1>3, TextStays DEF TextInv
<1>5. DOMAIN relationships' = DOMAIN relationships
  BY <1>2
<1> QED BY <1>1, <1>4, <1>5 DEF TextInv, TextNames, Building

LEMMA TextShape ==
  ASSUME AcquisitionInv, TextInv, _apply_label_shape_enrichment
  PROVE  TextInv'
<1>1. stage = "shape" /\ stage' = "scope" /\ relationships' = relationships /\ graph' = graph
  BY DEF _apply_label_shape_enrichment, request
<1>2. PICK flags \in [DOMAIN entities -> {"unknown", "yes", "no"}] :
         /\ entities' = [n \in DOMAIN entities |-> [entities[n] EXCEPT !.array = flags[n]]]
         /\ text' = [text EXCEPT !.entities = _append_label_shape_annotations(@, flags)]
  BY DEF _apply_label_shape_enrichment
<1> DEFINE flagged == _append_label_shape_annotations(text.entities, flags)
<1>3. text' = [entities |-> flagged, relationships |-> text.relationships]
  <2>1. PICK es, rs : text = [entities |-> es, relationships |-> rs]
    BY DEF TextInv, Texted
  <2> QED BY <1>2, <2>1
<1>4. text'.entities = flagged /\ text'.relationships = text.relationships
  BY <1>3
<1>5. /\ DOMAIN flags = DOMAIN entities /\ \A n \in DOMAIN entities : flags[n] \in {"unknown", "yes", "no"}
      /\ DOMAIN flagged = DOMAIN text.entities
      /\ \A n \in DOMAIN text.entities :
            flagged[n] = IF n \in DOMAIN flags \cap Plain /\ flags[n] # "unknown"
                         THEN [text.entities[n] EXCEPT !.array = flags[n]] ELSE text.entities[n]
  BY DEF _append_label_shape_annotations
<1> HIDE DEF flagged
<1>6. ASSUME NEW n \in DOMAIN flagged
      PROVE  /\ WellFormed(flagged[n]) /\ IsEntity(flagged[n])
             /\ n \in DOMAIN entities /\ AlikeClass(text.entities[n], entities[n]) =>
                   AlikeClass(flagged[n], entities'[n])
  <2> DEFINE w == text.entities[n]
  <2>1. WellFormed(w) /\ IsEntity(w) /\ w.array = "unknown"
    BY <1>1, <1>5 DEF TextInv, Texted
  <2> HIDE DEF w
  <2>2. PICK a, b, c, d, f : w = [style |-> a, collection |-> b, field |-> c, value |-> d, array |-> f]
    BY <2>1 DEF IsEntity
  <2>3. \/ flagged[n] = w
        \/ /\ n \in DOMAIN entities /\ flags[n] \in {"yes", "no"}
           /\ flagged[n] = [w EXCEPT !.array = flags[n]]
    BY <1>5 DEF w
  <2>4. \/ flagged[n] = w
        \/ /\ n \in DOMAIN entities /\ flags[n] \in {"yes", "no"}
           /\ flagged[n] = [style |-> a, collection |-> b, field |-> c, value |-> d, array |-> flags[n]]
    BY <2>2, <2>3
  <2>5. WellFormed(flagged[n]) /\ IsEntity(flagged[n])
    BY <2>1, <2>2, <2>4 DEF WellFormed, IsEntity
  <2>6. ASSUME n \in DOMAIN entities, AlikeClass(w, entities[n])
        PROVE  AlikeClass(flagged[n], entities'[n])
    <3> DEFINE e == entities[n]
    <3>1. IsEntity(e) /\ AlikeClass(w, e) /\ entities'[n] = [e EXCEPT !.array = flags[n]]
      BY <1>2, <2>6 DEF AcquisitionInv, Typed
    <3> HIDE DEF e
    <3>2. PICK p, q, x, y, z : e = [style |-> p, collection |-> q, field |-> x, value |-> y, array |-> z]
      BY <3>1 DEF IsEntity
    <3>3. entities'[n] = [style |-> p, collection |-> q, field |-> x, value |-> y, array |-> flags[n]]
      BY <3>1, <3>2
    <3>4. flagged[n].style = p /\ flagged[n].collection = q /\ flagged[n].field = x /\ flagged[n].value = y
      BY <2>2, <2>4, <3>1, <3>2 DEF AlikeClass
    <3>5. flagged[n].array \in {"unknown", flags[n]}
      BY <2>1, <2>4
    <3> QED BY <3>3, <3>4, <3>5 DEF AlikeClass
  <2> QED BY <2>5, <2>6 DEF w
<1>7. \A n \in DOMAIN entities' : n \in DOMAIN entities /\ (entities'[n].style # "RPT" => entities[n].style # "RPT")
  <2> SUFFICES ASSUME NEW n \in DOMAIN entities
               PROVE  [entities[n] EXCEPT !.array = flags[n]].style = entities[n].style
    BY <1>2
  <2>1. IsEntity(entities[n])
    BY DEF AcquisitionInv, Typed
  <2> QED BY <2>1 DEF IsEntity
<1>8. text' # NoText => text # NoText
  <2> SUFFICES ASSUME text = NoText PROVE text' = NoText
    OBVIOUS
  <2>1. DOMAIN flagged = {} /\ text.relationships = Nothing
    BY <1>5 DEF NoText, Nothing
  <2>2. flagged = [n \in DOMAIN flagged |-> flagged[n]]
    BY DEF flagged, _append_label_shape_annotations
  <2>3. flagged = Nothing
    BY <2>1, <2>2 DEF Nothing
  <2> QED BY <1>3, <2>1, <2>3 DEF NoText
<1>9. ASSUME text' # NoText, NEW n \in DOMAIN entities', entities'[n].style # "RPT"
      PROVE  n \in DOMAIN flagged /\ AlikeClass(flagged[n], entities'[n])
  BY <1>5, <1>6, <1>7, <1>8, <1>9 DEF TextInv, Texted
<1>10. ASSUME text' # NoText, NEW n \in DOMAIN relationships', relationships'[n].style # "RPT_EDGE"
       PROVE  /\ n \in DOMAIN text.relationships
              /\ AlikeRelationship(text.relationships[n], relationships'[n])
  BY <1>1, <1>8, <1>10 DEF TextInv, Texted
<1>11. /\ text' # NoText => DOMAIN flagged \cup DOMAIN text.relationships # {}
       /\ DOMAIN flagged \cup DOMAIN text.relationships \subseteq Name
       /\ \A n \in DOMAIN text.relationships : WellTyped(text.relationships[n])
  BY <1>5, <1>8 DEF TextInv, Texted
<1>12. Texted'
  BY <1>3, <1>4, <1>6, <1>9, <1>10, <1>11 DEF Texted
<1>13. graph = Whole => TextNames'
  BY <1>1, <1>2, <1>4, <1>5 DEF TextInv, TextNames
<1> QED BY <1>1, <1>12, <1>13 DEF TextInv, Building

LEMMA TextScope ==
  ASSUME TextInv, scope_bundle_to_graph
  PROVE  TextInv'
<1>1. stage' = "done" /\ text' = text /\ graph' = graph
  BY DEF scope_bundle_to_graph, request
<1>2. /\ \A n \in DOMAIN entities' : n \in DOMAIN entities /\ entities'[n] = entities[n]
      /\ \A n \in DOMAIN relationships' : n \in DOMAIN relationships /\ relationships'[n] = relationships[n]
  <2>1. CASE UNCHANGED bundle
    BY <2>1 DEF bundle
  <2>2. CASE ~ UNCHANGED bundle
    BY <2>2 DEF scope_bundle_to_graph
  <2> QED BY <2>1, <2>2
<1>3. Texted'
  BY <1>1, <1>2, TextStays DEF TextInv, AlikeRelationship
<1>4. graph = Whole => TextNames'
  BY <1>1 DEF scope_bundle_to_graph, bundle, TextInv, TextNames
<1> QED BY <1>1, <1>3, <1>4 DEF TextInv, Building

LEMMA TextStep ==
  ASSUME AcquisitionInv, OntologyInv', TextInv, [Next]_vars
  PROVE  TextInv'
<1>1. ASSUME UNCHANGED <<request, bundle>>
      PROVE  Texted' /\ (graph' = Whole => TextNames') /\ text' = text
  <2>1. entities' = entities /\ relationships' = relationships /\ text' = text /\ graph' = graph
    BY <1>1 DEF bundle, request
  <2>2. Texted'
    BY <2>1 DEF TextInv, Texted
  <2>3. graph' = Whole => TextNames'
    BY <2>1 DEF TextInv, TextNames
  <2> QED BY <2>1, <2>2, <2>3
<1>2. CASE UNCHANGED vars
  <2>1. stage' = stage /\ UNCHANGED <<request, bundle>>
    BY <1>2 DEF vars
  <2> QED BY <1>1, <2>1 DEF TextInv
<1>3. CASE _classify_all
  <2>1. /\ UNCHANGED <<request, bundle>>
        /\ (stage = "acquire" /\ stage' = "infer") \/ (stage = "classify" /\ stage' = "enrich")
    BY <1>3 DEF _classify_all
  <2> QED BY <1>1, <2>1 DEF TextInv, Building
<1>4. CASE PassFails
  <2>1. /\ UNCHANGED <<request, bundle>> /\ stage' \in {"classify", "shape", "scope"}
        /\ stage \in {"rpt", "classify", "enrich", "shape"}
    BY <1>4 DEF PassFails
  <2> QED BY <1>1, <2>1 DEF TextInv, Building
<1>5. CASE Change
  <2>1. stage' = stage /\ UNCHANGED <<request, bundle>>
    BY <1>5 DEF Change
  <2> QED BY <1>1, <2>1 DEF TextInv
<1>6. CASE build_heuristic_mapping
  <2>1. stage = "infer" /\ text' = text
    BY <1>6 DEF build_heuristic_mapping
  <2>2. text' = NoText
    BY <2>1 DEF TextInv, Building
  <2> QED BY <2>2, NoTextIsTexted DEF TextInv
<1>7. CASE _acquire_via_analyzer
  BY <1>7, TextAnalyze
<1>8. CASE _apply_rpt_enrichment
  BY <1>8, TextRpt
<1>9. CASE _apply_edge_endpoint_enrichment
  BY <1>9, TextEnrich
<1>10. CASE _apply_label_shape_enrichment
  BY <1>10, TextShape
<1>11. CASE scope_bundle_to_graph
  BY <1>11, TextScope
<1> QED BY <1>2, <1>3, <1>4, <1>5, <1>6, <1>7, <1>8, <1>9, <1>10, <1>11 DEF Next

LEMMA TextInductive == Spec => [](AcquisitionInv /\ OntologyInv /\ TextInv)
<1>1. Init => TextInv
  BY NoTextIsTexted DEF Init, TextInv
<1>2. AcquisitionInv /\ OntologyInv' /\ TextInv /\ [Next]_vars => TextInv'
  BY TextStep
<1> QED BY <1>1, <1>2, OntologyInductive, PTL DEF Spec

----------------------------------------------------------------------------
(* Theorems *)

(* In a mapping acquired of uniform data that did not change meanwhile,    *)
(* every class and relationship with a name of its own reads the same when *)
(* it is exported, imported, brought back, or only declared (translate/    *)
(* owl.py, _resolver_from_request), however many collections there are and *)
(* whatever their samples missed: also where the export is the analyzer's  *)
(* text (mapping_to_turtle), written before the other passes, but for the  *)
(* triples these put in.                                                   *)
THEOREM MeaningIsKept == Spec => []OntologyKeepsMeaning
<1>1. AcquisitionInv /\ OntologyInv /\ TextInv => OntologyKeepsMeaning
  <2> SUFFICES ASSUME AcquisitionInv, OntologyInv, TextInv, Finished, Unmixed
               PROVE  LET exported == Onto!mapping_to_turtle(Wire)
                          imported == Onto!turtle_to_mapping(exported)
                      IN  \A g \in {exported, Onto!_resolver_from_request(Onto!Empty, imported),
                                    Onto!_resolver_from_request(exported, Wire),
                                    Onto!_resolver_from_request(Bare, imported)} :
                             ReadsTheSame(g, Own)
    BY DEF OntologyKeepsMeaning
  <2>1. /\ Typed /\ Wired /\ Texted /\ TextNames /\ Uniform /\ \A n \in DOMAIN entities : Flagged(docs, entities[n])
    BY DEF AcquisitionInv, OntologyInv, TextInv, FlagsLast, Finished
  <2>2. \A g : Serves(g, Own) => ReadsTheSame(g, Own)
    BY <2>1, ServedIsRead
  <2> QED BY <2>1, <2>2, EveryWayServes DEF Exported
<1> QED BY <1>1, TextInductive, PTL

(* And when a request's ontology declares a class or a relationship that   *)
(* its bundle knows by the same local name, and at most says itself where  *)
(* the class is stored (_enrich_graph_with_bundle).                        *)
THEOREM BareInherits == Spec => []BareInheritsMeaning
<1>1. AcquisitionInv /\ OntologyInv => BareInheritsMeaning
  <2> SUFFICES ASSUME AcquisitionInv, OntologyInv, Finished,
                      NEW g, g = Bare \/ \E n \in DOMAIN entities : g = Placing(n)
               PROVE  ReadsTheSame(Onto!_resolver_from_request(g, Wire),
                                   {n \in Names \ Shared : Quoted[n] = n})
    BY DEF BareInheritsMeaning
  <2>1. /\ Typed /\ Wired /\ Uniform /\ \A n \in DOMAIN entities : Flagged(docs, entities[n])
    BY DEF AcquisitionInv, OntologyInv, FlagsLast, Finished
  <2>2. Declares(g, Names \ Shared)
    BY <2>1, BareDeclares
  <2>3. Serves(Onto!_resolver_from_request(g, Wire), {n \in Names \ Shared : Quoted[n] = n})
    BY <2>1, <2>2, DeclarationServes
  <2> QED BY <2>1, <2>3, ServedIsRead
<1> QED BY <1>1, OntologyInductive, PTL
=============================================================================
