------------------------- MODULE AcquisitionProofs -------------------------
(***************************************************************************)
(* Acquisition for any collections, documents, edges, samples, coverage    *)
(* and changes: what is pinned, which endpoints are declared and hold,     *)
(* what a graph keeps, and how few documents are lost.                     *)
(***************************************************************************)
EXTENDS Acquisition, FiniteSetTheorems, WellFoundedInduction, TLAPS

----------------------------------------------------------------------------
(* The inductive invariant.  What it says of bundles is said of a bundle   *)
(* and a database given as arguments.                                      *)

Building == {"acquire", "infer"}
Filling == {"rpt", "classify", "enrich", "shape", "scope"}

IsEntity(e) ==
    /\ e = [style |-> e.style, collection |-> e.collection, field |-> e.field,
            value |-> e.value, array |-> e.array]
    /\ e.collection \in Collection

IsRelationship(r) ==
    r = [style |-> r.style, collection |-> r.collection, value |-> r.value,
         from |-> r.from, to |-> r.to]

Typed ==
    /\ docs \subseteq Doc /\ edges \subseteq Edge /\ changes \in Nat
    /\ strategy \in {"analyzer", "heuristic"}
    /\ stage \in Building \cup Filling \cup {"done"}
    /\ entities = [n \in DOMAIN entities |-> entities[n]]
    /\ relationships = [n \in DOMAIN relationships |-> relationships[n]]
    /\ \A n \in DOMAIN entities : IsEntity(entities[n])
    /\ \A n \in DOMAIN relationships : IsRelationship(relationships[n])
    /\ stage \in Building => entities = Nothing /\ relationships = Nothing
    /\ stage = "infer" => strategy = "heuristic"

(* Nothing changed and nothing is missing from a sample: the database is   *)
(* known, and so is its classification.                                    *)
Known == Quiet /\ Complete
Exact == Classified(docs, edges)

Fresh == stage \in {"infer", "enrich"} /\ Known => cls = Exact

DeclaredIn(ents, r) == {r.from, r.to} \subseteq DOMAIN ents \cup {ANY_ENTITY}

AnalyzerDeclares ==
    stage \in Filling /\ strategy = "analyzer" => \A n \in Stored : DeclaredIn(entities, relationships[n])

(* HandleLabel, over documents that are given. *)
Told(ds, k, handle) ==
    IF handle[1] \notin Collection THEN None
    ELSE LET c == k[handle[1]]
             read == {d \in Part(ds, handle[1]) : d.key = handle[2] /\ d.field = c.field /\ ~d.array}
         IN  IF c.style = "COLLECTION" THEN handle[1]
             ELSE IF c.style = "LABEL" /\ ValuesOf(read) # {} THEN CHOOSE v \in ValuesOf(read) : TRUE
             ELSE None

Group(es, r) == {e \in Part(es, r.collection) : r.value = None \/ e.type = r.value}
FromOf(ds, es, k, r) == Agreed({Told(ds, k, e.from) : e \in Group(es, r)} \ {None})
ToOf(ds, es, k, r) == Agreed({Told(ds, k, e.to) : e \in Group(es, r)} \ {None})

(* A class that the detection emits, and all it emits of a collection.     *)
Emitted(k, n, e) ==
    /\ e.style = k[e.collection].style
    /\ IF e.style = "LABEL"
       THEN n \in k[e.collection].values /\ e.field = k[e.collection].field /\ e.value = n
       ELSE n = e.collection

ClassNames(k, c) == IF k[c].style = "LABEL" THEN k[c].values ELSE {c}

Emits(k, ents) ==
    /\ \A n \in DOMAIN ents : Emitted(k, n, ents[n])
    /\ \A c \in Collection : ClassNames(k, c) \subseteq DOMAIN ents

Relates(ds, es, k, r) ==
    /\ r.collection \in EdgeCollection /\ r.style = k[r.collection].style
    /\ IF r.style = "GENERIC_WITH_TYPE" THEN r.value \in k[r.collection].values ELSE r.value = None
    /\ r.from = FromOf(ds, es, k, r) /\ r.to = ToOf(ds, es, k, r)

HeuristicIsExact ==
    stage \in Filling /\ strategy = "heuristic" /\ Known =>
    /\ Emits(Exact, entities)
    /\ \A n \in Stored : Relates(docs, edges, Exact, relationships[n])

(* What the analyzer emits, and the triples beside it.                     *)
IsTyped(ds, c) == Part(ds, c) # {} /\ \A d \in Part(ds, c) : d.field = "type" /\ d.values # {}

Analyzed(ds, k, n, e) ==
    \/ e.style = "RPT" /\ n = e.collection /\ k[e.collection].style = "RPT"
    \/ /\ e.style = "LABEL" /\ e.field = "type" /\ e.value = n
       /\ IsTyped(ds, e.collection) /\ n \in ValuesOf(Part(ds, e.collection))
    \/ e.style = "COLLECTION" /\ n = ClassOf[e.collection] /\ ~IsTyped(ds, e.collection)

(* An endpoint that is filled in is the inferred one, or the key of the    *)
(* collection it names.                                                    *)
Keyed(ents, key, inferred) ==
    \/ key = inferred
    \/ key \in DOMAIN ents /\ ents[key].style = "COLLECTION" /\ ents[key].collection = inferred

AnalyzerIsExact ==
    stage \in Filling /\ strategy = "analyzer" /\ Known =>
    /\ \A n \in DOMAIN entities : Analyzed(docs, Exact, n, entities[n])
    /\ \A n \in Stored :
          LET r == relationships[n] IN
          /\ r.collection \in EdgeCollection /\ r.style = Exact[r.collection].style
          /\ IF r.style = "GENERIC_WITH_TYPE" THEN r.value \in Exact[r.collection].values
             ELSE r.value = None
          /\ stage \in {"rpt", "classify", "enrich"} => r.to = ANY_ENTITY
          /\ r.to # ANY_ENTITY =>
                LET inferred == ToOf(docs, edges, Exact, r)
                IN  inferred # ANY_ENTITY /\ Keyed(entities, r.to, inferred)

(* A flag tells the shape of a document that is there.                     *)
Flagged(ds, e) ==
    e.array # "unknown" =>
    \E d \in Part(ds, e.collection) :
       d.field = e.field /\ d.values # {} /\ d.array = (e.array = "yes")

FlagsShown == stage \in Filling /\ Quiet => \A n \in DOMAIN entities : Flagged(docs, entities[n])

AcquisitionInv ==
    /\ Typed /\ Fresh /\ AnalyzerDeclares /\ HeuristicIsExact /\ AnalyzerIsExact
    /\ FlagsShown /\ ScopeIsClosed

----------------------------------------------------------------------------
(* Lemmas on the operators *)

LEMMA SmallestIs ==
  ASSUME NEW S \in SUBSET Nat, S # {}
  PROVE  \E x \in S : \A y \in S : x <= y
<1>1. PICK x \in S : \A y \in S : ~ (<<y, x>> \in OpToRel(<, Nat))
  BY WFMin, NatLessThanWellFounded
<1>2. \A y \in S : x <= y
  <2> SUFFICES ASSUME NEW y \in S, y < x PROVE FALSE
    OBVIOUS
  <2>1. <<y, x>> \in OpToRel(<, Nat)
    BY DEF OpToRel
  <2> QED BY <1>1, <2>1
<1> QED BY <1>2

LEMMA LargestIs ==
  ASSUME NEW m \in Nat, NEW S \in SUBSET (1..m), S # {}
  PROVE  \E x \in S : \A y \in S : y <= x
<1> DEFINE T == {k \in Nat : k <= m /\ m - k \in S}
<1>1. T \in SUBSET Nat /\ T # {}
  <2>1. PICK x \in S : TRUE
    OBVIOUS
  <2>2. x \in 1..m /\ m - (m - x) = x
    OBVIOUS
  <2>3. m - x \in T
    BY <2>1, <2>2
  <2> QED BY <2>3
<1>2. PICK k \in T : \A l \in T : k <= l
  <2> HIDE DEF T
  <2> QED BY <1>1, SmallestIs
<1>3. m - k \in S
  BY <1>2
<1>4. ASSUME NEW y \in S PROVE y <= m - k
  <2>1. y \in 1..m /\ m - y \in Nat /\ m - (m - y) = y
    OBVIOUS
  <2>2. m - y \in T
    BY <2>1
  <2>3. k \in Nat
    OBVIOUS
  <2> HIDE DEF T
  <2>4. k <= m - y
    BY <1>2, <2>2
  <2> QED BY <2>1, <2>3, <2>4
<1> QED BY <1>3, <1>4

(* Of several functions one tells the value of a name. *)
LEMMA LastTells ==
  ASSUME NEW given, NEW m \in Nat, DOMAIN given \subseteq 1..m
  PROVE  /\ DOMAIN LastWins(given) = NamesOf(given)
         /\ LastWins(given) = [n \in DOMAIN LastWins(given) |-> LastWins(given)[n]]
         /\ \A n \in NamesOf(given) : \E i \in DOMAIN given :
               n \in DOMAIN given[i] /\ LastWins(given)[n] = given[i][n]
<1>1. ASSUME NEW n \in NamesOf(given)
      PROVE  \E i \in DOMAIN given : n \in DOMAIN given[i] /\ LastWins(given)[n] = given[i][n]
  <2> DEFINE S == Named(given, n)
             i == CHOOSE x \in S : \A y \in S : y <= x
  <2>1. S \in SUBSET (1..m) /\ S # {}
    BY DEF NamesOf, Named
  <2>2. i \in S
    <3> HIDE DEF S
    <3>1. \E x \in S : \A y \in S : y <= x
      BY <2>1, LargestIs
    <3> QED BY <3>1
  <2>3. LastWins(given)[n] = given[i][n]
    BY DEF LastWins
  <2> HIDE DEF i
  <2> QED BY <2>2, <2>3 DEF Named
<1> QED BY <1>1 DEF LastWins

(* Positions of collections. *)
LEMMA Positions ==
  /\ DOMAIN Order = 1..Len(Order) /\ Len(Order) \in Nat
  /\ DOMAIN EdgeOrder = 1..Len(EdgeOrder) /\ Len(EdgeOrder) \in Nat
  /\ \A i \in DOMAIN Order : Order[i] \in Collection
  /\ \A c \in Collection : \E i \in DOMAIN Order : Order[i] = c
  /\ \A i \in DOMAIN EdgeOrder : EdgeOrder[i] \in EdgeCollection
  /\ \A c \in EdgeCollection : c \notin Collection
<1>1. Order \in Seq(Collection) /\ EdgeOrder \in Seq(EdgeCollection)
  BY CollectionsAreOfOneKind
<1>2. /\ DOMAIN Order = 1..Len(Order) /\ Len(Order) \in Nat
      /\ DOMAIN EdgeOrder = 1..Len(EdgeOrder) /\ Len(EdgeOrder) \in Nat
  BY <1>1
<1>3. Collection \cap EdgeCollection = {}
  BY CollectionsAreOfOneKind
<1> QED BY <1>2, <1>3 DEF Collection, EdgeCollection, ToSet

(* A sample is of what is there, and of all of it where it fits. *)
LEMMA SamplesAreParts ==
  ASSUME NEW S, NEW T \in Samples(S)
  PROVE  T \subseteq S
BY DEF Samples

LEMMA OneSample ==
  ASSUME NEW S, NEW cs, \A c \in cs : Cardinality(Part(S, c)) <= SampleSize,
         \A x \in S : x.in \in cs, \A c \in cs : Cardinality(Part(S, c)) \in Nat,
         NEW T \in Samples(S)
  PROVE  T = S
<1>1. \A x \in S : ~ (Cardinality(Part(S, x.in)) > SampleSize)
  BY SamplingBounds
<1> QED BY <1>1 DEF Samples

----------------------------------------------------------------------------
(* Lemmas on the classification and what is emitted from it *)

(* The classification of a collection of documents. *)
LEMMA ClassOfDocuments ==
  ASSUME NEW ds, NEW es, NEW c \in Collection
  PROVE  LET k == Classified(ds, es)[c]
             sample == Part(ds, c)
         IN  /\ k.style \in {"RPT", "COLLECTION", "LABEL"}
             /\ k.style = "RPT" <=> _classify_rpt_from_sample(c, sample)
             /\ k.style = "LABEL" =>
                   /\ k.field = _detect_discriminator(sample) /\ k.field # None
                   /\ Tier1(sample, k.field)
                   /\ k.values = ValuesOf(Present(sample, k.field))
<1> DEFINE k == Classified(ds, es)[c]
           sample == Part(ds, c)
           field == _detect_discriminator(sample)
<1>1. k = _classify_document_collection(c, sample)
  BY DEF Classified
<1>2. field # None => Tier1(sample, field)
  BY DEF _detect_discriminator, Tier2
<1>3. k = IF _classify_rpt_from_sample(c, sample) THEN Class("RPT", None, {})
          ELSE IF field = None THEN Class("COLLECTION", None, {})
          ELSE Class("LABEL", field, ValuesOf(Present(sample, field)))
  BY <1>1 DEF _classify_document_collection
<1> HIDE DEF k, sample, field
<1>4. CASE _classify_rpt_from_sample(c, sample)
  <2>1. k = Class("RPT", None, {})
    BY <1>3, <1>4
  <2>2. k.style = "RPT"
    BY <2>1 DEF Class
  <2> QED BY <1>4, <2>2 DEF k, sample
<1>5. CASE ~ _classify_rpt_from_sample(c, sample) /\ field = None
  <2>1. k = Class("COLLECTION", None, {})
    BY <1>3, <1>5
  <2>2. k.style = "COLLECTION"
    BY <2>1 DEF Class
  <2> QED BY <1>5, <2>2 DEF k, sample
<1>6. CASE ~ _classify_rpt_from_sample(c, sample) /\ field # None
  <2>1. k = Class("LABEL", field, ValuesOf(Present(sample, field)))
    BY <1>3, <1>6
  <2>2. k.style = "LABEL" /\ k.field = field /\ k.values = ValuesOf(Present(sample, field))
    BY <2>1 DEF Class
  <2> QED BY <1>2, <1>6, <2>2 DEF k, sample, field
<1> QED BY <1>4, <1>5, <1>6

(* And of a collection of edges. *)
LEMMA ClassOfEdges ==
  ASSUME NEW ds, NEW es, NEW c \in EdgeCollection
  PROVE  LET k == Classified(ds, es)[c]
             typed == {e \in Part(es, c) : e.type # None}
         IN  /\ k = _classify_edge_collection(Part(es, c))
             /\ k.style \in {"GENERIC_WITH_TYPE", "DEDICATED_COLLECTION"}
             /\ k.style = "GENERIC_WITH_TYPE" => k.values = {e.type : e \in typed}
<1> DEFINE k == Classified(ds, es)[c]
           typed == {e \in Part(es, c) : e.type # None}
<1>1. k = _classify_edge_collection(Part(es, c))
  BY Positions DEF Classified
<1>2. k = IF Covers(typed, Part(es, c)) THEN Class("GENERIC_WITH_TYPE", "type", {e.type : e \in typed})
          ELSE Class("DEDICATED_COLLECTION", None, {})
  BY <1>1 DEF _classify_edge_collection
<1> HIDE DEF k, typed
<1>3. CASE Covers(typed, Part(es, c))
  <2>1. k = Class("GENERIC_WITH_TYPE", "type", {e.type : e \in typed})
    BY <1>2, <1>3
  <2>2. k.style = "GENERIC_WITH_TYPE" /\ k.values = {e.type : e \in typed}
    BY <2>1 DEF Class
  <2> QED BY <1>1, <2>2 DEF k, typed
<1>4. CASE ~ Covers(typed, Part(es, c))
  <2>1. k = Class("DEDICATED_COLLECTION", None, {})
    BY <1>2, <1>4
  <2>2. k.style = "DEDICATED_COLLECTION"
    BY <2>1 DEF Class
  <2> QED BY <1>1, <2>2 DEF k, typed
<1> QED BY <1>3, <1>4

LEMMA FiniteParts ==
  ASSUME NEW ds \in SUBSET Doc, NEW c
  PROVE  IsFiniteSet(Part(ds, c)) /\ Cardinality(Part(ds, c)) \in Nat
<1>1. Part(ds, c) \in SUBSET Doc
  BY DEF Part
<1> QED BY <1>1, UniverseIsFinite, FS_Subset, FS_CardinalityType

LEMMA FiniteEdgeParts ==
  ASSUME NEW es \in SUBSET Edge, NEW c
  PROVE  IsFiniteSet(Part(es, c)) /\ Cardinality(Part(es, c)) \in Nat
<1>1. Part(es, c) \in SUBSET Edge
  BY DEF Part
<1> QED BY <1>1, UniverseIsFinite, FS_Subset, FS_CardinalityType

(* What is known is sampled whole. *)
LEMMA WholeSamples ==
  ASSUME docs \subseteq Doc, edges \subseteq Edge, Known
  PROVE  (\A T \in Samples(docs) : T = docs) /\ (\A T \in Samples(edges) : T = edges)
<1>1. \A T \in Samples(docs) : T = docs
  <2>1. \A c \in Collection : Cardinality(Part(docs, c)) <= SampleSize
    BY DEF Known, Complete, In
  <2>2. \A x \in docs : x.in \in Collection
    BY UniverseIsFinite
  <2> QED BY <2>1, <2>2, FiniteParts, OneSample
<1>2. \A T \in Samples(edges) : T = edges
  <2>1. \A c \in EdgeCollection : Cardinality(Part(edges, c)) <= SampleSize
    BY DEF Known, Complete, EdgesIn
  <2>2. \A x \in edges : x.in \in EdgeCollection
    BY UniverseIsFinite
  <2> QED BY <2>1, <2>2, FiniteEdgeParts, OneSample
<1> QED BY <1>1, <1>2

(* Where the analyzer sees labels, so does the detection. *)
LEMMA TypedIsDetected ==
  ASSUME NEW ds \in SUBSET Doc, NEW es, NEW c \in Collection, IsTyped(ds, c)
  PROVE  LET k == Classified(ds, es)[c]
         IN  k.style # "COLLECTION" /\ (k.style = "LABEL" => k.field = "type")
<1> DEFINE sample == Part(ds, c)
<1>1. Present(sample, "type") = sample /\ sample # {} /\ ValuesOf(sample) # {}
  BY DEF IsTyped, Present, ValuesOf
<1>2. Cardinality(sample) * CoverDen >= CoverNum * Cardinality(sample)
  <2>1. /\ Cardinality(sample) \in Nat /\ CoverDen \in Nat /\ CoverNum \in Nat
        /\ CoverNum <= CoverDen
    BY FiniteParts, SamplingBounds
  <2> HIDE DEF sample
  <2> QED BY <2>1
<1>3. Tier1(sample, "type")
  BY <1>1, <1>2 DEF Tier1, Covers
<1>4. _detect_discriminator(sample) = "type"
  BY <1>3 DEF _detect_discriminator
<1>5. Classified(ds, es)[c] = _classify_document_collection(c, sample)
  BY DEF Classified
<1>6. Classified(ds, es)[c] =
         IF _classify_rpt_from_sample(c, sample) THEN Class("RPT", None, {})
         ELSE Class("LABEL", "type", ValuesOf(Present(sample, "type")))
  BY <1>4, <1>5 DEF _classify_document_collection, None
<1> HIDE DEF sample
<1> QED BY <1>6 DEF Class

(* The classes a detection emits. *)
LEMMA EmittedEntities ==
  ASSUME NEW k
  PROVE  LET ents == _emit_entities(k)
         IN  /\ ents = [n \in DOMAIN ents |-> ents[n]]
             /\ Emits(k, ents)
             /\ \A n \in DOMAIN ents : IsEntity(ents[n]) /\ ents[n].array = "unknown"
<1> DEFINE given == [i \in DOMAIN Order |-> EntitiesOf(k[Order[i]], Order[i])]
           ents == LastWins(given)
<1>1. ents = _emit_entities(k)
  BY DEF _emit_entities
<1>2. /\ DOMAIN ents = NamesOf(given)
      /\ ents = [n \in DOMAIN ents |-> ents[n]]
      /\ \A n \in NamesOf(given) : \E i \in DOMAIN given :
            n \in DOMAIN given[i] /\ ents[n] = given[i][n]
  <2>1. DOMAIN given \subseteq 1..Len(Order) /\ Len(Order) \in Nat
    BY Positions
  <2> HIDE DEF given
  <2> QED BY <2>1, LastTells
<1>3. ASSUME NEW i \in DOMAIN Order, NEW n \in DOMAIN given[i]
      PROVE  /\ IsEntity(given[i][n]) /\ given[i][n].array = "unknown"
             /\ Emitted(k, n, given[i][n])
  <2> DEFINE c == Order[i]
  <2>1. c \in Collection /\ given[i] = EntitiesOf(k[c], c)
    BY Positions
  <2> HIDE DEF given, c
  <2>2. CASE k[c].style = "LABEL"
    <3>1. n \in k[c].values /\ given[i][n] = Entity("LABEL", c, k[c].field, n)
      BY <2>1, <2>2 DEF EntitiesOf
    <3> QED BY <2>1, <2>2, <3>1 DEF Entity, IsEntity, Emitted
  <2>3. CASE k[c].style # "LABEL"
    <3>1. n = c /\ given[i][n] = Entity(k[c].style, c, None, None)
      BY <2>1, <2>3 DEF EntitiesOf
    <3> QED BY <2>1, <2>3, <3>1 DEF Entity, IsEntity, Emitted
  <2> QED BY <2>2, <2>3
<1>4. ASSUME NEW c \in Collection PROVE ClassNames(k, c) \subseteq DOMAIN ents
  <2>1. PICK i \in DOMAIN Order : Order[i] = c
    BY Positions
  <2>2. DOMAIN given[i] = ClassNames(k, c)
    BY <2>1 DEF EntitiesOf, ClassNames
  <2>3. i \in DOMAIN given
    OBVIOUS
  <2> HIDE DEF given
  <2> QED BY <1>2, <2>2, <2>3 DEF NamesOf
<1>5. DOMAIN given = DOMAIN Order
  OBVIOUS
<1> HIDE DEF given, ents
<1>6. \A n \in DOMAIN ents : IsEntity(ents[n]) /\ ents[n].array = "unknown" /\ Emitted(k, n, ents[n])
  BY <1>2, <1>3, <1>5
<1> QED BY <1>1, <1>2, <1>4, <1>6 DEF Emits

(* The relationships emitted with an index of endpoints. *)
LEMMA EmittedRelationships ==
  ASSUME NEW k, NEW index
  PROVE  LET rels == _emit_relationships(k, index)
         IN  /\ rels = [n \in DOMAIN rels |-> rels[n]]
             /\ \A n \in DOMAIN rels : \E c \in EdgeCollection : \E value :
                   /\ IF k[c].style = "GENERIC_WITH_TYPE" THEN value \in k[c].values ELSE value = None
                   /\ rels[n] = Relationship(k[c].style, c, value, Inferred(index, c, value))
<1> DEFINE given == [i \in DOMAIN EdgeOrder |-> RelationshipsOf(k[EdgeOrder[i]], EdgeOrder[i], index)]
           rels == LastWins(given)
<1>1. rels = _emit_relationships(k, index)
  BY DEF _emit_relationships
<1>2. /\ DOMAIN rels = NamesOf(given)
      /\ rels = [n \in DOMAIN rels |-> rels[n]]
      /\ \A n \in NamesOf(given) : \E i \in DOMAIN given :
            n \in DOMAIN given[i] /\ rels[n] = given[i][n]
  <2>1. DOMAIN given \subseteq 1..Len(EdgeOrder) /\ Len(EdgeOrder) \in Nat
    BY Positions
  <2> HIDE DEF given
  <2> QED BY <2>1, LastTells
<1>3. ASSUME NEW i \in DOMAIN EdgeOrder, NEW n \in DOMAIN given[i]
      PROVE  \E c \in EdgeCollection : \E value :
                /\ IF k[c].style = "GENERIC_WITH_TYPE" THEN value \in k[c].values ELSE value = None
                /\ given[i][n] = Relationship(k[c].style, c, value, Inferred(index, c, value))
  <2> DEFINE c == EdgeOrder[i]
  <2>1. c \in EdgeCollection /\ given[i] = RelationshipsOf(k[c], c, index)
    BY Positions
  <2> HIDE DEF given, c
  <2>2. CASE k[c].style = "GENERIC_WITH_TYPE"
    <3>1. n \in k[c].values /\ given[i][n] = Relationship(k[c].style, c, n, Inferred(index, c, n))
      BY <2>1, <2>2 DEF RelationshipsOf
    <3> QED BY <2>1, <2>2, <3>1
  <2>3. CASE k[c].style # "GENERIC_WITH_TYPE"
    <3>1. given[i][n] = Relationship(k[c].style, c, None, Inferred(index, c, None))
      BY <2>1, <2>3 DEF RelationshipsOf
    <3> QED BY <2>1, <2>3, <3>1
  <2> QED BY <2>2, <2>3
<1>5. DOMAIN given = DOMAIN EdgeOrder
  OBVIOUS
<1> HIDE DEF given, rels
<1>6. \A n \in DOMAIN rels : \E c \in EdgeCollection : \E value :
         /\ IF k[c].style = "GENERIC_WITH_TYPE" THEN value \in k[c].values ELSE value = None
         /\ rels[n] = Relationship(k[c].style, c, value, Inferred(index, c, value))
  BY <1>2, <1>3, <1>5
<1> QED BY <1>1, <1>2, <1>6

(* The index has the endpoints of every edge of a relationship. *)
LEMMA IndexedEnds ==
  ASSUME NEW ds, NEW es, NEW k, k = Classified(ds, es), NEW c \in EdgeCollection, NEW value,
         IF k[c].style = "GENERIC_WITH_TYPE" THEN value \in k[c].values ELSE value = None,
         NEW handles, handles = {e \in Part(es, c) : value = None \/ e.type = value}
  PROVE  Inferred(EndpointIndex(k, es), c, value) = _endpoints_from_edges(k, handles)
<1> DEFINE index == EndpointIndex(k, es)
           types == IF k[c].style = "GENERIC_WITH_TYPE"
                    THEN {e.type : e \in Part(es, c)} \ {None} ELSE {None}
<1>1. CASE Part(es, c) = {}
  <2>1. c \notin DOMAIN index
    BY <1>1 DEF EndpointIndex
  <2>2. Inferred(index, c, value) = Unknown
    BY <2>1 DEF Inferred
  <2>3. handles = {}
    BY <1>1
  <2>4. Resolved(k, {e.from : e \in handles}) = {} /\ Resolved(k, {e.to : e \in handles}) = {}
    BY <2>3 DEF Resolved
  <2> QED BY <2>2, <2>4 DEF _endpoints_from_edges, Unknown, Agreed
<1>2. CASE Part(es, c) # {}
  <2>1. /\ c \in DOMAIN index
        /\ index[c] = [t \in types |->
              _endpoints_from_edges(k, {e \in Part(es, c) : t = None \/ e.type = t})]
    BY <1>2 DEF EndpointIndex
  <2>2. value \in types
    <3>1. CASE k[c].style = "GENERIC_WITH_TYPE"
      <4>1. value \in {e.type : e \in {x \in Part(es, c) : x.type # None}}
        BY <3>1, ClassOfEdges
      <4> QED BY <3>1, <4>1
    <3>2. CASE k[c].style # "GENERIC_WITH_TYPE"
      BY <3>2
    <3> QED BY <3>1, <3>2
  <2> HIDE DEF index, types
  <2>3. Inferred(index, c, value) = index[c][value]
    BY <2>1, <2>2 DEF Inferred
  <2>4. index[c][value] = _endpoints_from_edges(k, handles)
    BY <2>1, <2>2
  <2> QED BY <2>3, <2>4 DEF index
<1> QED BY <1>1, <1>2

(* Endpoints as the invariant tells them. *)
LEMMA EndsAreTold ==
  ASSUME NEW k, NEW handles
  PROVE  /\ _endpoints_from_edges(k, handles).from =
               Agreed({Told(docs, k, e.from) : e \in handles} \ {None})
         /\ _endpoints_from_edges(k, handles).to =
               Agreed({Told(docs, k, e.to) : e \in handles} \ {None})
<1>1. \A h : HandleLabel(k, h) = Told(docs, k, h)
  BY DEF HandleLabel, Told, In, Part
<1>2. /\ Resolved(k, {e.from : e \in handles}) = {Told(docs, k, e.from) : e \in handles} \ {None}
      /\ Resolved(k, {e.to : e \in handles}) = {Told(docs, k, e.to) : e \in handles} \ {None}
  BY <1>1 DEF Resolved
<1> QED BY <1>2 DEF _endpoints_from_edges

LEMMA AgreedIsOne ==
  ASSUME NEW labels, Agreed(labels) # ANY_ENTITY
  PROVE  labels = {Agreed(labels)}
BY DEF Agreed

(* A handle that resolves does so to a class of its collection, of which   *)
(* it is a document.                                                       *)
LEMMA ToldIsEmitted ==
  ASSUME NEW ds, NEW es, NEW k, k = Classified(ds, es), NEW h, Told(ds, k, h) # None
  PROVE  /\ h[1] \in Collection /\ Told(ds, k, h) \in ClassNames(k, h[1])
         /\ \/ k[h[1]].style = "COLLECTION" /\ Told(ds, k, h) = h[1]
            \/ /\ k[h[1]].style = "LABEL"
               /\ \E d \in Part(ds, h[1]) : /\ d.key = h[2] /\ d.field = k[h[1]].field
                                            /\ ~d.array /\ Told(ds, k, h) \in d.values
<1> DEFINE c == h[1]
           read == {d \in Part(ds, c) : d.key = h[2] /\ d.field = k[c].field /\ ~d.array}
           told == Told(ds, k, h)
<1>1. c \in Collection
  BY DEF Told
<1>2. told = IF k[c].style = "COLLECTION" THEN c
             ELSE IF k[c].style = "LABEL" /\ ValuesOf(read) # {} THEN CHOOSE v \in ValuesOf(read) : TRUE
             ELSE None
  BY <1>1 DEF Told
<1> HIDE DEF told
<1>3. CASE k[c].style = "COLLECTION"
  BY <1>1, <1>2, <1>3 DEF ClassNames, told
<1>4. CASE k[c].style # "COLLECTION"
  <2>1. k[c].style = "LABEL" /\ told \in ValuesOf(read)
    BY <1>2, <1>4 DEF told
  <2>2. PICK d \in read : told \in d.values
    BY <2>1 DEF ValuesOf
  <2>3. k[c].values = ValuesOf(Present(Part(ds, c), k[c].field))
    BY <1>1, <2>1, ClassOfDocuments
  <2>4. told \in k[c].values
    BY <2>2, <2>3 DEF ValuesOf, Present
  <2> QED BY <1>1, <2>1, <2>2, <2>4 DEF ClassNames, told
<1> QED BY <1>3, <1>4

(* The classes of a detection are all its relationships name. *)
LEMMA DetectedIsDeclared ==
  ASSUME NEW ds, NEW es, NEW k, k = Classified(ds, es), NEW ents, Emits(k, ents),
         NEW r, Relates(ds, es, k, r)
  PROVE  DeclaredIn(ents, r)
<1>1. ASSUME NEW h, Told(ds, k, h) # None PROVE Told(ds, k, h) \in DOMAIN ents
  BY <1>1, ToldIsEmitted DEF Emits
<1>2. r.from \in DOMAIN ents \cup {ANY_ENTITY}
  <2> DEFINE labels == {Told(ds, k, e.from) : e \in Group(es, r)} \ {None}
  <2>1. labels \subseteq DOMAIN ents
    BY <1>1
  <2>2. r.from = Agreed(labels)
    BY DEF Relates, FromOf
  <2> HIDE DEF labels
  <2> QED BY <2>1, <2>2, AgreedIsOne
<1>3. r.to \in DOMAIN ents \cup {ANY_ENTITY}
  <2> DEFINE labels == {Told(ds, k, e.to) : e \in Group(es, r)} \ {None}
  <2>1. labels \subseteq DOMAIN ents
    BY <1>1
  <2>2. r.to = Agreed(labels)
    BY DEF Relates, ToOf
  <2> HIDE DEF labels
  <2> QED BY <2>1, <2>2, AgreedIsOne
<1> QED BY <1>2, <1>3 DEF DeclaredIn

(* In a uniform database a name is of one collection. *)
LEMMA EmittedInOne ==
  ASSUME NEW es, Uniform, NEW c \in Collection, NEW n \in NamesIn(c),
         NEW e, e.collection \in Collection, Emitted(Classified(docs, es), n, e)
  PROVE  e.collection = c
<1> DEFINE k == Classified(docs, es)[e.collection]
<1>1. e.style = "LABEL" => k.style = "LABEL" /\ n \in k.values
  BY DEF Emitted
<1>2. k.style = "LABEL" => k.values = ValuesOf(Present(In(e.collection), k.field))
  BY ClassOfDocuments DEF In
<1>3. n \in NamesIn(e.collection)
  <2>1. CASE e.style = "LABEL"
    BY <1>1, <1>2, <2>1 DEF NamesIn, ValuesOf, Present
  <2>2. CASE e.style # "LABEL"
    BY <2>2 DEF Emitted, NamesIn
  <2> QED BY <2>1, <2>2
<1> QED BY <1>3 DEF Uniform

LEMMA AnalyzedInOne ==
  ASSUME Uniform, NEW k, NEW c \in Collection, NEW n \in NamesIn(c),
         NEW e, e.collection \in Collection, Analyzed(docs, k, n, e)
  PROVE  e.collection = c
<1>1. n \in NamesIn(e.collection)
  BY DEF Analyzed, NamesIn, In
<1> QED BY <1>1 DEF Uniform

(* The analyzer's classes. *)
LEMMA AnalyzedEntities ==
  ASSUME NEW k
  PROVE  LET ents == LastWins([i \in DOMAIN Order |-> AnalyzerClass(Order[i])])
         IN  /\ ents = [n \in DOMAIN ents |-> ents[n]]
             /\ \A n \in DOMAIN ents : /\ IsEntity(ents[n]) /\ ents[n].array = "unknown"
                                       /\ Analyzed(docs, k, n, ents[n])
<1> DEFINE given == [i \in DOMAIN Order |-> AnalyzerClass(Order[i])]
           ents == LastWins(given)
<1>2. /\ DOMAIN ents = NamesOf(given)
      /\ ents = [n \in DOMAIN ents |-> ents[n]]
      /\ \A n \in NamesOf(given) : \E i \in DOMAIN given :
            n \in DOMAIN given[i] /\ ents[n] = given[i][n]
  <2>1. DOMAIN given \subseteq 1..Len(Order) /\ Len(Order) \in Nat
    BY Positions
  <2> HIDE DEF given
  <2> QED BY <2>1, LastTells
<1>3. ASSUME NEW i \in DOMAIN Order, NEW n \in DOMAIN given[i]
      PROVE  /\ IsEntity(given[i][n]) /\ given[i][n].array = "unknown"
             /\ Analyzed(docs, k, n, given[i][n])
  <2> DEFINE c == Order[i]
  <2>1. c \in Collection /\ given[i] = AnalyzerClass(c)
    BY Positions
  <2> HIDE DEF given, c
  <2>2. CASE IsTyped(docs, c)
    <3>1. AnalyzerClass(c) = [v \in ValuesOf(In(c)) |-> Entity("LABEL", c, "type", v)]
      BY <2>2 DEF AnalyzerClass, IsTyped, In
    <3>2. n \in ValuesOf(Part(docs, c)) /\ given[i][n] = Entity("LABEL", c, "type", n)
      BY <2>1, <3>1 DEF In
    <3> QED BY <2>1, <2>2, <3>2 DEF Entity, IsEntity, Analyzed
  <2>3. CASE ~ IsTyped(docs, c)
    <3>1. AnalyzerClass(c) = [m \in {ClassOf[c]} |-> Entity("COLLECTION", c, None, None)]
      BY <2>3 DEF AnalyzerClass, IsTyped, In
    <3>2. n = ClassOf[c] /\ given[i][n] = Entity("COLLECTION", c, None, None)
      BY <2>1, <3>1
    <3> QED BY <2>1, <2>3, <3>2 DEF Entity, IsEntity, Analyzed
  <2> QED BY <2>2, <2>3
<1>5. DOMAIN given = DOMAIN Order
  OBVIOUS
<1> HIDE DEF given, ents
<1>6. \A n \in DOMAIN ents : /\ IsEntity(ents[n]) /\ ents[n].array = "unknown"
                             /\ Analyzed(docs, k, n, ents[n])
  BY <1>2, <1>3, <1>5
<1> QED BY <1>2, <1>6 DEF ents, given

----------------------------------------------------------------------------
(* The steps *)

LEMMA InitiallyInv == Init => AcquisitionInv
<1> SUFFICES ASSUME Init PROVE AcquisitionInv
  OBVIOUS
<1>1. Typed
  BY StoredIsInUniverse DEF Init, Typed, Nothing, Building
<1>2. stage = "acquire" /\ stage \notin Filling
  BY DEF Init, Filling
<1>3. Fresh /\ AnalyzerDeclares /\ HeuristicIsExact /\ AnalyzerIsExact /\ FlagsShown /\ ScopeIsClosed
  BY <1>2 DEF Fresh, AnalyzerDeclares, HeuristicIsExact, AnalyzerIsExact, FlagsShown, ScopeIsClosed
<1> QED BY <1>1, <1>3 DEF AcquisitionInv

(* What is told of the database stays while it does. *)
LEMMA DatabaseKept ==
  ASSUME UNCHANGED database
  PROVE  Known' = Known /\ Quiet' = Quiet /\ Exact' = Exact
<1>1. docs' = docs /\ edges' = edges /\ changes' = changes
  BY DEF database
<1>2. Exact' = Exact
  BY <1>1 DEF Exact
<1>3. Quiet' = Quiet
  BY <1>1 DEF Quiet
<1>4. Complete' = Complete
  BY <1>1 DEF Complete, In, EdgesIn
<1> QED BY <1>2, <1>3, <1>4 DEF Known

(* A pass that leaves the bundle alone. *)
LEMMA BundleKept ==
  ASSUME AcquisitionInv, UNCHANGED <<database, request, bundle>>,
         \/ stage \in Building /\ stage' \in Building
         \/ /\ stage \in Filling /\ stage' \in Filling
            /\ stage' \in {"rpt", "classify", "enrich"} => stage \in {"rpt", "classify", "enrich"},
         stage' = "infer" => strategy = "heuristic"
  PROVE  Typed' /\ AnalyzerDeclares' /\ HeuristicIsExact' /\ AnalyzerIsExact' /\ FlagsShown'
         /\ ScopeIsClosed'
<1>1. /\ docs' = docs /\ edges' = edges /\ changes' = changes /\ strategy' = strategy
      /\ entities' = entities /\ relationships' = relationships
  BY DEF database, request, bundle
<1>2. Known' = Known /\ Quiet' = Quiet /\ Exact' = Exact
  BY DatabaseKept
<1>3. Stored' = Stored
  BY <1>1 DEF Stored
<1>4. stage' \in Filling => stage \in Filling
  BY DEF Building, Filling
<1>5. Typed'
  BY <1>1 DEF AcquisitionInv, Typed, Building, Filling
<1>6. AnalyzerDeclares' /\ FlagsShown'
  BY <1>1, <1>2, <1>3, <1>4 DEF AcquisitionInv, AnalyzerDeclares, FlagsShown
<1>7. HeuristicIsExact'
  BY <1>1, <1>2, <1>3, <1>4 DEF AcquisitionInv, HeuristicIsExact
<1>8. AnalyzerIsExact'
  BY <1>1, <1>2, <1>3, <1>4 DEF AcquisitionInv, AnalyzerIsExact, Building, Filling
<1>9. ScopeIsClosed'
  <2>1. stage' # "done"
    BY DEF Building, Filling
  <2> QED BY <2>1 DEF ScopeIsClosed
<1> QED BY <1>5, <1>6, <1>7, <1>8, <1>9

LEMMA ClassifyStep ==
  ASSUME AcquisitionInv, _classify_all
  PROVE  AcquisitionInv'
<1>1. UNCHANGED <<database, request, bundle>>
  BY DEF _classify_all
<1>2. /\ \/ stage \in Building /\ stage' \in Building
         \/ stage \in Filling /\ stage' \in Filling /\ stage \in {"rpt", "classify", "enrich"}
      /\ stage' = "infer" => strategy = "heuristic"
  BY DEF _classify_all, Building, Filling
<1>3. Fresh'
  <2>1. PICK ds \in Samples(docs), es \in Samples(edges) : cls' = Classified(ds, es)
    BY DEF _classify_all
  <2>2. Known => ds = docs /\ es = edges
    BY WholeSamples DEF AcquisitionInv, Typed
  <2>3. Known' = Known /\ Exact' = Exact
    BY <1>1, DatabaseKept
  <2> QED BY <2>1, <2>2, <2>3 DEF Fresh, Exact
<1> QED BY <1>1, <1>2, <1>3, BundleKept DEF AcquisitionInv

LEMMA FailStep ==
  ASSUME AcquisitionInv, PassFails
  PROVE  AcquisitionInv'
<1>1. UNCHANGED <<database, request, bundle>>
  BY DEF PassFails
<1>2. /\ stage \in Filling /\ stage' \in Filling /\ stage' \notin {"infer", "enrich"}
      /\ stage' \in {"rpt", "classify", "enrich"} => stage \in {"rpt", "classify", "enrich"}
  BY DEF PassFails, Filling
<1>3. Fresh'
  BY <1>2 DEF Fresh
<1> QED BY <1>1, <1>2, <1>3, BundleKept DEF AcquisitionInv

LEMMA ChangeStep ==
  ASSUME AcquisitionInv, Change
  PROVE  AcquisitionInv'
<1>1. /\ UNCHANGED <<request, stage, cls, bundle>> /\ changes' = changes + 1
      /\ stage # "done"
  BY DEF Change
<1>2. /\ strategy' = strategy /\ entities' = entities /\ relationships' = relationships
      /\ stage' = stage /\ cls' = cls
  BY <1>1 DEF request, bundle
<1>3. changes \in Nat /\ changes' \in Nat /\ ~ Quiet'
  BY <1>1 DEF AcquisitionInv, Typed, Quiet
<1>4. docs' \subseteq Doc /\ edges' \subseteq Edge
  BY DEF Change, AcquisitionInv, Typed
<1>5. Typed'
  BY <1>2, <1>3, <1>4 DEF AcquisitionInv, Typed
<1>6. AnalyzerDeclares'
  <2>1. Stored' = Stored
    BY <1>2 DEF Stored
  <2> QED BY <1>2, <2>1 DEF AcquisitionInv, AnalyzerDeclares
<1>7. ~ Known'
  BY <1>3 DEF Known
<1>8. stage' # "done"
  BY <1>1, <1>2
<1> QED BY <1>3, <1>5, <1>6, <1>7, <1>8
        DEF AcquisitionInv, Fresh, HeuristicIsExact, AnalyzerIsExact, FlagsShown, ScopeIsClosed

(* Any sample of a known database is all of it, so its classes are exact.  *)
LEMMA BuildStep ==
  ASSUME AcquisitionInv, build_heuristic_mapping
  PROVE  AcquisitionInv'
<1>1. /\ stage = "infer" /\ stage' = "rpt" /\ UNCHANGED <<database, request>>
      /\ entities' = _emit_entities(cls)
  BY DEF build_heuristic_mapping
<1>2. PICK sample \in Samples(edges) :
         relationships' = _emit_relationships(cls, EndpointIndex(cls, sample))
  BY DEF build_heuristic_mapping
<1>3. /\ docs' = docs /\ edges' = edges /\ changes' = changes
      /\ strategy = "heuristic" /\ strategy' = strategy
  BY <1>1 DEF database, request, AcquisitionInv, Typed
<1>4. /\ entities' = [n \in DOMAIN entities' |-> entities'[n]]
      /\ \A n \in DOMAIN entities' : IsEntity(entities'[n]) /\ entities'[n].array = "unknown"
      /\ Emits(cls, entities')
  BY <1>1, EmittedEntities
<1> DEFINE index == EndpointIndex(cls, sample)
<1>5. /\ relationships' = [n \in DOMAIN relationships' |-> relationships'[n]]
      /\ \A n \in DOMAIN relationships' : \E c \in EdgeCollection : \E value :
            /\ IF cls[c].style = "GENERIC_WITH_TYPE" THEN value \in cls[c].values ELSE value = None
            /\ relationships'[n] = Relationship(cls[c].style, c, value, Inferred(index, c, value))
  BY <1>2, EmittedRelationships
<1> HIDE DEF index
<1>6. Typed'
  <2>1. \A n \in DOMAIN relationships' : IsRelationship(relationships'[n])
    BY <1>5 DEF IsRelationship, Relationship
  <2> QED BY <1>1, <1>3, <1>4, <1>5, <2>1 DEF AcquisitionInv, Typed, Building, Filling
<1>7. FlagsShown'
  BY <1>4 DEF FlagsShown, Flagged
<1>8. HeuristicIsExact'
  <2> SUFFICES ASSUME Known'
               PROVE  /\ Emits(Exact', entities')
                      /\ \A n \in DOMAIN relationships' :
                            Relates(docs', edges', Exact', relationships'[n])
    BY DEF HeuristicIsExact, Stored
  <2>1. Known /\ Exact' = Exact
    BY <1>1, DatabaseKept
  <2>2. cls = Exact /\ sample = edges
    BY <1>1, <2>1, WholeSamples DEF AcquisitionInv, Fresh, Typed
  <2>3. ASSUME NEW n \in DOMAIN relationships'
        PROVE  Relates(docs, edges, cls, relationships'[n])
    <3>8. PICK c \in EdgeCollection : \E value :
             /\ IF cls[c].style = "GENERIC_WITH_TYPE" THEN value \in cls[c].values ELSE value = None
             /\ relationships'[n] = Relationship(cls[c].style, c, value, Inferred(index, c, value))
      BY <1>5, <2>3
    <3>1. PICK value :
             /\ IF cls[c].style = "GENERIC_WITH_TYPE" THEN value \in cls[c].values ELSE value = None
             /\ relationships'[n] = Relationship(cls[c].style, c, value, Inferred(index, c, value))
      BY <3>8
    <3> DEFINE r == relationships'[n]
               handles == {e \in Part(edges, c) : value = None \/ e.type = value}
               ends == Inferred(index, c, value)
    <3>2. ends = _endpoints_from_edges(cls, handles)
      <4>1. cls = Classified(docs, edges)
        BY <2>2 DEF Exact
      <4>2. Inferred(EndpointIndex(cls, edges), c, value) = _endpoints_from_edges(cls, handles)
        BY <3>1, <4>1, IndexedEnds
      <4> QED BY <2>2, <4>2 DEF index
    <3>3. /\ r.style = cls[c].style /\ r.collection = c /\ r.value = value
          /\ r.from = ends.from /\ r.to = ends.to
      <4> HIDE DEF ends
      <4>1. r = Relationship(cls[c].style, c, value, ends)
        BY <3>1 DEF ends
      <4> HIDE DEF r
      <4> QED BY <4>1 DEF Relationship
    <3>4. Group(edges, r) = handles
      <4> HIDE DEF r
      <4> QED BY <3>3 DEF Group
    <3>5. /\ ends.from = Agreed({Told(docs, cls, e.from) : e \in handles} \ {None})
          /\ ends.to = Agreed({Told(docs, cls, e.to) : e \in handles} \ {None})
      BY <3>2, EndsAreTold
    <3> HIDE DEF r, ends, handles
    <3>6. r.from = FromOf(docs, edges, cls, r) /\ r.to = ToOf(docs, edges, cls, r)
      BY <3>3, <3>4, <3>5 DEF FromOf, ToOf
    <3>7. Relates(docs, edges, cls, r)
      BY <3>1, <3>3, <3>6 DEF Relates
    <3> QED BY <3>7 DEF r
  <2> QED BY <1>3, <1>4, <2>1, <2>2, <2>3
<1>9. Fresh' /\ AnalyzerDeclares' /\ AnalyzerIsExact' /\ ScopeIsClosed'
  BY <1>1, <1>3 DEF Fresh, AnalyzerDeclares, AnalyzerIsExact, ScopeIsClosed
<1> QED BY <1>6, <1>7, <1>8, <1>9 DEF AcquisitionInv

LEMMA AnalyzeStep ==
  ASSUME AcquisitionInv, _acquire_via_analyzer
  PROVE  AcquisitionInv'
<1>1. /\ stage = "acquire" /\ stage' = "rpt" /\ strategy = "analyzer"
      /\ UNCHANGED <<database, request, cls>>
      /\ entities' = LastWins([i \in DOMAIN Order |-> AnalyzerClass(Order[i])])
  BY DEF _acquire_via_analyzer
<1> DEFINE k == [c \in EdgeCollection |-> _classify_edge_collection(EdgesIn(c))]
           open == _emit_relationships(k, Nothing)
<1>2. PICK pinned \in DOMAIN entities' \cup {ANY_ENTITY} :
         relationships' = [n \in DOMAIN open |-> [open[n] EXCEPT !.from = pinned]]
  BY DEF _acquire_via_analyzer
<1>3. /\ docs' = docs /\ edges' = edges /\ changes' = changes /\ strategy' = strategy
  BY <1>1 DEF database, request
<1>4. /\ entities' = [n \in DOMAIN entities' |-> entities'[n]]
      /\ \A n \in DOMAIN entities' : /\ IsEntity(entities'[n]) /\ entities'[n].array = "unknown"
                                     /\ Analyzed(docs, Exact, n, entities'[n])
  BY <1>1, AnalyzedEntities
<1>5. \A n \in DOMAIN open : \E c \in EdgeCollection : \E value :
         /\ IF k[c].style = "GENERIC_WITH_TYPE" THEN value \in k[c].values ELSE value = None
         /\ open[n] = Relationship(k[c].style, c, value, Inferred(Nothing, c, value))
  <2> HIDE DEF k
  <2> QED BY EmittedRelationships
<1>6. \A c \in EdgeCollection : k[c] = Exact[c]
  BY ClassOfEdges DEF Exact, EdgesIn
<1> HIDE DEF k, open
<1>7. ASSUME NEW n \in DOMAIN relationships'
      PROVE  LET r == relationships'[n] IN
             /\ IsRelationship(r) /\ r.from = pinned /\ r.to = ANY_ENTITY
             /\ r.collection \in EdgeCollection /\ r.style = Exact[r.collection].style
             /\ IF r.style = "GENERIC_WITH_TYPE" THEN r.value \in Exact[r.collection].values
                ELSE r.value = None
  <2>1. n \in DOMAIN open /\ relationships'[n] = [open[n] EXCEPT !.from = pinned]
    BY <1>2, <1>7
  <2>7. PICK c \in EdgeCollection : \E value :
           /\ IF k[c].style = "GENERIC_WITH_TYPE" THEN value \in k[c].values ELSE value = None
           /\ open[n] = Relationship(k[c].style, c, value, Inferred(Nothing, c, value))
    BY <1>5, <2>1
  <2>2. PICK value :
           /\ IF k[c].style = "GENERIC_WITH_TYPE" THEN value \in k[c].values ELSE value = None
           /\ open[n] = Relationship(k[c].style, c, value, Inferred(Nothing, c, value))
    BY <2>7
  <2>3. Inferred(Nothing, c, value) = Unknown
    BY DEF Inferred, Nothing
  <2>4. open[n] = [style |-> k[c].style, collection |-> c, value |-> value,
                   from |-> ANY_ENTITY, to |-> ANY_ENTITY]
    BY <2>2, <2>3 DEF Relationship, Unknown
  <2>5. relationships'[n] = [style |-> k[c].style, collection |-> c, value |-> value,
                             from |-> pinned, to |-> ANY_ENTITY]
    BY <2>1, <2>4
  <2> QED BY <1>6, <2>2, <2>5 DEF IsRelationship
<1>8. Typed'
  <2>1. relationships' = [n \in DOMAIN relationships' |-> relationships'[n]]
    BY <1>2
  <2> QED BY <1>1, <1>3, <1>4, <1>7, <2>1 DEF AcquisitionInv, Typed, Building, Filling
<1>9. FlagsShown'
  BY <1>4 DEF FlagsShown, Flagged
<1>10. AnalyzerDeclares'
  BY <1>2, <1>7 DEF AnalyzerDeclares, DeclaredIn, Stored
<1>11. AnalyzerIsExact'
  <2>1. Exact' = Exact
    BY <1>1, DatabaseKept
  <2> QED BY <1>3, <1>4, <1>7, <2>1 DEF AnalyzerIsExact, Stored
<1>12. Fresh' /\ HeuristicIsExact' /\ ScopeIsClosed'
  BY <1>1, <1>3 DEF Fresh, HeuristicIsExact, ScopeIsClosed
<1> QED BY <1>8, <1>9, <1>10, <1>11, <1>12 DEF AcquisitionInv

LEMMA RptStep ==
  ASSUME AcquisitionInv, _apply_rpt_enrichment
  PROVE  AcquisitionInv'
<1>1. stage = "rpt" /\ stage' = "classify" /\ UNCHANGED <<database, request, cls>>
  BY DEF _apply_rpt_enrichment
<1>2. PICK first \in Samples(docs), second \in Samples(docs) :
         LET found == {i \in DOMAIN Order : _classify_rpt_from_sample(Order[i], Part(first, Order[i]))}
             overlay == [c \in {Order[i] : i \in found} |-> Entity("RPT", c, None, None)]
             triples == [i \in found |-> RptRelationships(Order[i], Part(second, Order[i]))]
         IN  /\ entities' = Over(overlay, entities)
             /\ relationships' \in {relationships, Over(relationships, LastWins(triples))}
  BY DEF _apply_rpt_enrichment
<1> DEFINE found == {i \in DOMAIN Order : _classify_rpt_from_sample(Order[i], Part(first, Order[i]))}
           tables == {Order[i] : i \in found}
           overlay == [c \in tables |-> Entity("RPT", c, None, None)]
           triples == [i \in found |-> RptRelationships(Order[i], Part(second, Order[i]))]
<1>3. PICK added \in {Nothing, LastWins(triples)} :
         entities' = Over(overlay, entities) /\ relationships' = Over(relationships, added)
  <2>1. CASE relationships' = relationships
    <3>1. relationships = Over(relationships, Nothing)
      BY DEF AcquisitionInv, Typed, Over, Nothing
    <3> QED BY <1>2, <2>1, <3>1
  <2>2. CASE relationships' = Over(relationships, LastWins(triples))
    BY <1>2, <2>2
  <2> QED BY <1>2, <2>1, <2>2
<1>4. /\ docs' = docs /\ edges' = edges /\ changes' = changes /\ strategy' = strategy
  BY <1>1 DEF database, request
<1>5. Known' = Known /\ Quiet' = Quiet /\ Exact' = Exact
  BY <1>1, DatabaseKept
<1>6. \A c \in tables : c \in Collection /\ (Known => Exact[c].style = "RPT")
  <2> SUFFICES ASSUME NEW i \in found PROVE Order[i] \in Collection /\ (Known => Exact[Order[i]].style = "RPT")
    OBVIOUS
  <2>1. Order[i] \in Collection /\ _classify_rpt_from_sample(Order[i], Part(first, Order[i]))
    BY Positions
  <2>2. Known => first = docs
    BY WholeSamples DEF AcquisitionInv, Typed
  <2> QED BY <2>1, <2>2, ClassOfDocuments DEF Exact
<1>7. \A n \in DOMAIN added : IsRelationship(added[n]) /\ added[n].style = "RPT_EDGE"
  <2> SUFFICES ASSUME added = LastWins(triples)
               PROVE  \A n \in DOMAIN added : IsRelationship(added[n]) /\ added[n].style = "RPT_EDGE"
    BY <1>3 DEF Nothing
  <2>1. DOMAIN triples \subseteq 1..Len(Order) /\ Len(Order) \in Nat
    BY Positions
  <2>2. /\ DOMAIN added = NamesOf(triples)
        /\ \A n \in NamesOf(triples) : \E i \in DOMAIN triples :
              n \in DOMAIN triples[i] /\ added[n] = triples[i][n]
    <3> HIDE DEF triples
    <3> QED BY <2>1, LastTells
  <2>3. ASSUME NEW i \in DOMAIN triples, NEW n \in DOMAIN triples[i]
        PROVE  IsRelationship(triples[i][n]) /\ triples[i][n].style = "RPT_EDGE"
    <3>1. triples[i] = RptRelationships(Order[i], Part(second, Order[i]))
      OBVIOUS
    <3> HIDE DEF triples
    <3>2. triples[i][n] = RptEdge(Order[i], n, Part(second, Order[i]))
      BY <3>1 DEF RptRelationships
    <3> QED BY <3>2 DEF RptEdge, Relationship, IsRelationship
  <2> HIDE DEF triples
  <2> QED BY <2>2, <2>3
<1>8. /\ DOMAIN relationships' = DOMAIN relationships \cup DOMAIN added
      /\ relationships' = [n \in DOMAIN relationships' |-> relationships'[n]]
      /\ \A n \in DOMAIN relationships' :
            relationships'[n] = IF n \in DOMAIN relationships THEN relationships[n] ELSE added[n]
  BY <1>3 DEF Over
<1>9. /\ DOMAIN entities' = tables \cup DOMAIN entities
      /\ entities' = [n \in DOMAIN entities' |-> entities'[n]]
      /\ \A n \in DOMAIN entities' :
            entities'[n] = IF n \in tables THEN Entity("RPT", n, None, None) ELSE entities[n]
  BY <1>3 DEF Over
<1> HIDE DEF tables
<1>10. \A n \in tables : LET e == Entity("RPT", n, None, None) IN
          /\ IsEntity(e) /\ e.array = "unknown" /\ e.style = "RPT" /\ e.collection = n
  BY <1>6 DEF Entity, IsEntity
<1>11. /\ Stored' = Stored
       /\ \A n \in Stored : relationships'[n] = relationships[n]
  BY <1>7, <1>8 DEF Stored
<1>12. Typed'
  BY <1>1, <1>4, <1>7, <1>8, <1>9, <1>10 DEF AcquisitionInv, Typed, Building, Filling
<1>13. FlagsShown'
  BY <1>1, <1>4, <1>5, <1>9, <1>10 DEF AcquisitionInv, FlagsShown, Flagged, Filling
<1>14. AnalyzerDeclares'
  BY <1>1, <1>4, <1>9, <1>11 DEF AcquisitionInv, AnalyzerDeclares, DeclaredIn, Filling
<1>15. HeuristicIsExact'
  <2> SUFFICES ASSUME Known, strategy = "heuristic"
               PROVE  /\ Emits(Exact, entities')
                      /\ \A n \in Stored : Relates(docs, edges, Exact, relationships[n])
    BY <1>4, <1>5, <1>11 DEF HeuristicIsExact
  <2>1. /\ Emits(Exact, entities)
        /\ \A n \in Stored : Relates(docs, edges, Exact, relationships[n])
    BY <1>1 DEF AcquisitionInv, HeuristicIsExact, Filling
  <2>2. \A n \in tables : Emitted(Exact, n, Entity("RPT", n, None, None))
    BY <1>6, <1>10 DEF Emitted
  <2> QED BY <1>9, <2>1, <2>2 DEF Emits
<1>16. AnalyzerIsExact'
  <2>1. \A n \in tables : Known => Analyzed(docs, Exact, n, Entity("RPT", n, None, None))
    BY <1>6, <1>10 DEF Analyzed
  <2>2. ASSUME Known, strategy = "analyzer"
        PROVE  /\ \A n \in DOMAIN entities : Analyzed(docs, Exact, n, entities[n])
               /\ \A n \in Stored :
                     LET r == relationships[n] IN
                     /\ r.collection \in EdgeCollection /\ r.style = Exact[r.collection].style
                     /\ IF r.style = "GENERIC_WITH_TYPE" THEN r.value \in Exact[r.collection].values
                        ELSE r.value = None
                     /\ r.to = ANY_ENTITY
    BY <1>1, <2>2 DEF AcquisitionInv, AnalyzerIsExact, Filling
  <2> QED BY <1>4, <1>5, <1>9, <1>11, <2>1, <2>2 DEF AnalyzerIsExact
<1>17. Fresh' /\ ScopeIsClosed'
  BY <1>1 DEF Fresh, ScopeIsClosed
<1> QED BY <1>12, <1>13, <1>14, <1>15, <1>16, <1>17 DEF AcquisitionInv

LEMMA EntityKeys ==
  ASSUME NEW inferred
  PROVE  LET key == _as_entity_key(inferred)
         IN  /\ key \in DOMAIN entities \cup {ANY_ENTITY}
             /\ inferred = ANY_ENTITY => key = ANY_ENTITY
             /\ key # ANY_ENTITY => Keyed(entities, key, inferred)
<1> DEFINE keys == {n \in DOMAIN entities :
                       entities[n].style = "COLLECTION" /\ entities[n].collection = inferred}
<1>1. CASE inferred \in DOMAIN entities \cup {ANY_ENTITY}
  BY <1>1 DEF _as_entity_key, Keyed
<1>2. CASE inferred \notin DOMAIN entities \cup {ANY_ENTITY}
  <2>1. _as_entity_key(inferred) = Agreed(keys)
    BY <1>2 DEF _as_entity_key
  <2>2. Agreed(keys) # ANY_ENTITY => Agreed(keys) \in keys
    <3> HIDE DEF keys
    <3> QED BY AgreedIsOne
  <2> QED BY <1>2, <2>1, <2>2 DEF Keyed
<1> QED BY <1>1, <1>2

LEMMA EnrichStep ==
  ASSUME AcquisitionInv, _apply_edge_endpoint_enrichment
  PROVE  AcquisitionInv'
<1>1. /\ stage = "enrich" /\ stage' = "shape" /\ UNCHANGED <<database, request, entities>>
  BY DEF _apply_edge_endpoint_enrichment
<1>2. PICK sample \in Samples(edges) :
         relationships' = [n \in DOMAIN relationships |->
             LET r == relationships[n]
                 ends == Inferred(EndpointIndex(cls, sample), r.collection, r.value)
             IN  IF r.style = "RPT_EDGE" THEN r
                 ELSE [r EXCEPT !.from = Fill(@, _as_entity_key(ends.from)),
                                !.to = Fill(@, _as_entity_key(ends.to))]]
  BY DEF _apply_edge_endpoint_enrichment
<1> DEFINE index == EndpointIndex(cls, sample)
           Ends(r) == Inferred(index, r.collection, r.value)
<1>3. /\ docs' = docs /\ edges' = edges /\ changes' = changes /\ strategy' = strategy
      /\ entities' = entities
  BY <1>1 DEF database, request
<1>4. Known' = Known /\ Quiet' = Quiet /\ Exact' = Exact
  BY <1>1, DatabaseKept
<1>5. /\ DOMAIN relationships' = DOMAIN relationships
      /\ relationships' = [n \in DOMAIN relationships' |-> relationships'[n]]
  BY <1>2
<1>6. ASSUME NEW n \in DOMAIN relationships
      PROVE  LET r == relationships[n]
                 new == relationships'[n]
             IN  /\ IsRelationship(new) /\ new.style = r.style
                 /\ new.collection = r.collection /\ new.value = r.value
                 /\ r.style = "RPT_EDGE" => new = r
                 /\ r.style # "RPT_EDGE" => /\ new.from = Fill(r.from, _as_entity_key(Ends(r).from))
                                            /\ new.to = Fill(r.to, _as_entity_key(Ends(r).to))
  <2> DEFINE r == relationships[n]
             from == Fill(r.from, _as_entity_key(Ends(r).from))
             to == Fill(r.to, _as_entity_key(Ends(r).to))
  <2>1. IsRelationship(r)
    BY DEF AcquisitionInv, Typed
  <2>2. relationships'[n] = IF r.style = "RPT_EDGE" THEN r
                            ELSE [r EXCEPT !.from = from, !.to = to]
    BY <1>2
  <2> HIDE DEF r, from, to
  <2>5. CASE r.style = "RPT_EDGE"
    <3>1. relationships'[n] = r
      BY <2>2, <2>5
    <3> QED BY <2>1, <2>5, <3>1 DEF r
  <2>6. CASE r.style # "RPT_EDGE"
    <3>1. PICK a, b, c, d, f :
             r = [style |-> a, collection |-> b, value |-> c, from |-> d, to |-> f]
      BY <2>1 DEF IsRelationship
    <3> DEFINE new == relationships'[n]
    <3>2. new = [style |-> a, collection |-> b, value |-> c, from |-> from, to |-> to]
      BY <2>2, <2>6, <3>1
    <3>3. /\ IsRelationship(new) /\ new.style = r.style /\ new.collection = r.collection
          /\ new.value = r.value /\ new.from = from /\ new.to = to
      BY <3>1, <3>2 DEF IsRelationship
    <3> HIDE DEF new
    <3> QED BY <2>6, <3>3 DEF r, from, to, new
  <2> QED BY <2>5, <2>6
<1>7. Stored' = Stored /\ Stored \subseteq DOMAIN relationships
      /\ \A n \in Stored : relationships[n].style # "RPT_EDGE"
  BY <1>5, <1>6 DEF Stored
<1>8. Typed'
  BY <1>1, <1>3, <1>5, <1>6 DEF AcquisitionInv, Typed, Building, Filling
<1>9. FlagsShown'
  BY <1>1, <1>3, <1>4 DEF AcquisitionInv, FlagsShown, Filling
<1>10. AnalyzerDeclares'
  <2> SUFFICES ASSUME strategy = "analyzer", NEW n \in Stored
               PROVE  DeclaredIn(entities, relationships'[n])
    BY <1>3, <1>7 DEF AnalyzerDeclares
  <2>1. DeclaredIn(entities, relationships[n])
    BY <1>1 DEF AcquisitionInv, AnalyzerDeclares, Filling
  <2>2. /\ relationships'[n].from = Fill(relationships[n].from, _as_entity_key(Ends(relationships[n]).from))
        /\ relationships'[n].to = Fill(relationships[n].to, _as_entity_key(Ends(relationships[n]).to))
    BY <1>6, <1>7
  <2> HIDE DEF Ends
  <2> QED BY <2>1, <2>2, EntityKeys DEF DeclaredIn, Fill
(* What a known database lets infer. *)
<1>11. ASSUME Known, NEW r, r.collection \in EdgeCollection,
              IF r.style = "GENERIC_WITH_TYPE" THEN r.value \in Exact[r.collection].values
              ELSE r.value = None,
              r.style = Exact[r.collection].style
       PROVE  Ends(r).from = FromOf(docs, edges, Exact, r) /\ Ends(r).to = ToOf(docs, edges, Exact, r)
  <2>1. cls = Exact /\ sample = edges
    BY <1>1, <1>11, WholeSamples DEF AcquisitionInv, Fresh, Typed
  <2>2. Group(edges, r) = {e \in Part(edges, r.collection) : r.value = None \/ e.type = r.value}
    BY DEF Group
  <2>3. Ends(r) = _endpoints_from_edges(Exact, Group(edges, r))
    <3>1. Exact = Classified(docs, edges)
      BY DEF Exact
    <3>2. IF Exact[r.collection].style = "GENERIC_WITH_TYPE"
          THEN r.value \in Exact[r.collection].values ELSE r.value = None
      BY <1>11
    <3> HIDE DEF Exact
    <3>3. Inferred(EndpointIndex(Exact, edges), r.collection, r.value) =
             _endpoints_from_edges(Exact, Group(edges, r))
      BY <1>11, <2>2, <3>1, <3>2, IndexedEnds
    <3> QED BY <2>1, <3>3
  <2> HIDE DEF Ends
  <2> QED BY <2>3, EndsAreTold DEF FromOf, ToOf
<1>12. HeuristicIsExact'
  <2> SUFFICES ASSUME Known, strategy = "heuristic"
               PROVE  /\ Emits(Exact, entities)
                      /\ \A n \in Stored : Relates(docs, edges, Exact, relationships'[n])
    BY <1>3, <1>4, <1>7 DEF HeuristicIsExact
  <2>1. /\ Emits(Exact, entities)
        /\ \A n \in Stored : Relates(docs, edges, Exact, relationships[n])
    BY <1>1 DEF AcquisitionInv, HeuristicIsExact, Filling
  <2>2. ASSUME NEW n \in Stored PROVE Relates(docs, edges, Exact, relationships'[n])
    <3> DEFINE r == relationships[n]
               new == relationships'[n]
    <3>1. Relates(docs, edges, Exact, r)
      BY <2>1, <2>2
    <3>2. Ends(r).from = r.from /\ Ends(r).to = r.to
      BY <1>11, <3>1 DEF Relates
    <3>3. /\ new.style = r.style /\ new.collection = r.collection /\ new.value = r.value
          /\ new.from = Fill(r.from, _as_entity_key(Ends(r).from))
          /\ new.to = Fill(r.to, _as_entity_key(Ends(r).to))
      BY <1>6, <1>7, <2>2
    <3> HIDE DEF r, new, Ends
    <3>4. new.from = r.from /\ new.to = r.to
      BY <3>2, <3>3, EntityKeys DEF Fill
    <3>5. FromOf(docs, edges, Exact, new) = FromOf(docs, edges, Exact, r)
          /\ ToOf(docs, edges, Exact, new) = ToOf(docs, edges, Exact, r)
      BY <3>3 DEF FromOf, ToOf, Group
    <3>6. Relates(docs, edges, Exact, new)
      BY <3>1, <3>3, <3>4, <3>5 DEF Relates
    <3> QED BY <3>6 DEF new
  <2> QED BY <2>1, <2>2
<1>13. AnalyzerIsExact'
  <2> SUFFICES ASSUME Known, strategy = "analyzer"
               PROVE  /\ \A n \in DOMAIN entities : Analyzed(docs, Exact, n, entities[n])
                      /\ \A n \in Stored :
                            LET new == relationships'[n] IN
                            /\ new.collection \in EdgeCollection
                            /\ new.style = Exact[new.collection].style
                            /\ IF new.style = "GENERIC_WITH_TYPE"
                               THEN new.value \in Exact[new.collection].values ELSE new.value = None
                            /\ new.to # ANY_ENTITY =>
                                  LET inferred == ToOf(docs, edges, Exact, new)
                                  IN  inferred # ANY_ENTITY /\ Keyed(entities, new.to, inferred)
    BY <1>1, <1>3, <1>4, <1>7 DEF AnalyzerIsExact
  <2>1. /\ \A n \in DOMAIN entities : Analyzed(docs, Exact, n, entities[n])
        /\ \A n \in Stored :
              LET r == relationships[n] IN
              /\ r.collection \in EdgeCollection /\ r.style = Exact[r.collection].style
              /\ IF r.style = "GENERIC_WITH_TYPE" THEN r.value \in Exact[r.collection].values
                 ELSE r.value = None
              /\ r.to = ANY_ENTITY
    BY <1>1 DEF AcquisitionInv, AnalyzerIsExact, Filling
  <2>2. ASSUME NEW n \in Stored
        PROVE  LET new == relationships'[n] IN
               /\ new.collection \in EdgeCollection
               /\ new.style = Exact[new.collection].style
               /\ IF new.style = "GENERIC_WITH_TYPE"
                  THEN new.value \in Exact[new.collection].values ELSE new.value = None
               /\ new.to # ANY_ENTITY =>
                     LET inferred == ToOf(docs, edges, Exact, new)
                     IN  inferred # ANY_ENTITY /\ Keyed(entities, new.to, inferred)
    <3> DEFINE r == relationships[n]
               new == relationships'[n]
    <3>1. /\ r.collection \in EdgeCollection /\ r.style = Exact[r.collection].style
          /\ IF r.style = "GENERIC_WITH_TYPE" THEN r.value \in Exact[r.collection].values
             ELSE r.value = None
          /\ r.to = ANY_ENTITY
      BY <2>1, <2>2
    <3>2. Ends(r).to = ToOf(docs, edges, Exact, r)
      BY <1>11, <3>1
    <3>3. /\ new.style = r.style /\ new.collection = r.collection /\ new.value = r.value
          /\ new.to = Fill(r.to, _as_entity_key(Ends(r).to))
      BY <1>6, <1>7, <2>2
    <3> HIDE DEF r, new, Ends
    <3>4. new.to = _as_entity_key(ToOf(docs, edges, Exact, r))
      BY <3>1, <3>2, <3>3 DEF Fill
    <3>5. ToOf(docs, edges, Exact, new) = ToOf(docs, edges, Exact, r)
      BY <3>3 DEF ToOf, Group
    <3>6. new.to # ANY_ENTITY => /\ ToOf(docs, edges, Exact, new) # ANY_ENTITY
                                 /\ Keyed(entities, new.to, ToOf(docs, edges, Exact, new))
      BY <3>4, <3>5, EntityKeys
    <3> QED BY <3>1, <3>3, <3>6 DEF new
  <2> QED BY <2>1, <2>2
<1>14. Fresh' /\ ScopeIsClosed'
  BY <1>1 DEF Fresh, ScopeIsClosed
<1> QED BY <1>8, <1>9, <1>10, <1>12, <1>13, <1>14 DEF AcquisitionInv

LEMMA ShapeStep ==
  ASSUME AcquisitionInv, _apply_label_shape_enrichment
  PROVE  AcquisitionInv'
<1>1. /\ stage = "shape" /\ stage' = "scope"
      /\ UNCHANGED <<database, request, cls, relationships>>
  BY DEF _apply_label_shape_enrichment
<1>2. PICK flags \in [DOMAIN entities -> {"unknown", "yes", "no"}] :
         /\ \A n \in DOMAIN entities :
               flags[n] \in IF entities[n].style = "LABEL" THEN Probe(entities[n]) ELSE {"unknown"}
         /\ entities' = [n \in DOMAIN entities |-> [entities[n] EXCEPT !.array = flags[n]]]
  BY DEF _apply_label_shape_enrichment
<1>3. /\ docs' = docs /\ edges' = edges /\ changes' = changes /\ strategy' = strategy
      /\ relationships' = relationships
  BY <1>1 DEF database, request
<1>4. Known' = Known /\ Quiet' = Quiet /\ Exact' = Exact
  BY <1>1, DatabaseKept
<1>5. /\ DOMAIN entities' = DOMAIN entities
      /\ entities' = [n \in DOMAIN entities' |-> entities'[n]]
  BY <1>2
<1>6. ASSUME NEW n \in DOMAIN entities
      PROVE  LET e == entities[n]
                 new == entities'[n]
             IN  /\ IsEntity(new) /\ new.style = e.style /\ new.collection = e.collection
                 /\ new.field = e.field /\ new.value = e.value /\ new.array = flags[n]
  <2> DEFINE e == entities[n]
             flag == flags[n]
  <2>1. IsEntity(e)
    BY DEF AcquisitionInv, Typed
  <2>2. entities'[n] = [e EXCEPT !.array = flag]
    BY <1>2
  <2> HIDE DEF e, flag
  <2>3. PICK a, b, c, d, f :
           e = [style |-> a, collection |-> b, field |-> c, value |-> d, array |-> f]
    BY <2>1 DEF IsEntity
  <2>4. entities'[n] = [style |-> a, collection |-> b, field |-> c, value |-> d, array |-> flag]
    BY <2>2, <2>3
  <2>5. b \in Collection
    BY <2>1, <2>3 DEF IsEntity
  <2> DEFINE new == entities'[n]
  <2>6. /\ IsEntity(new) /\ new.style = e.style /\ new.collection = e.collection
        /\ new.field = e.field /\ new.value = e.value /\ new.array = flag
    BY <2>3, <2>4, <2>5 DEF IsEntity
  <2> HIDE DEF new
  <2> QED BY <2>6 DEF e, flag, new
<1>7. Stored' = Stored
  BY <1>3 DEF Stored
<1>8. Typed'
  BY <1>1, <1>3, <1>5, <1>6 DEF AcquisitionInv, Typed, Building, Filling
<1>9. FlagsShown'
  <2> SUFFICES ASSUME NEW n \in DOMAIN entities PROVE Flagged(docs, entities'[n])
    BY <1>3, <1>5 DEF FlagsShown
  <2>1. CASE entities[n].style = "LABEL"
    <3> DEFINE e == entities[n]
               with == {d \in Present(In(e.collection), e.field) : d.values # {}}
    <3>1. flags[n] \in {IF d.array THEN "yes" ELSE "no" : d \in with} \cup {"unknown"}
      BY <1>2, <2>1 DEF Probe
    <3>2. /\ entities'[n].array = flags[n] /\ entities'[n].collection = e.collection
          /\ entities'[n].field = e.field
      BY <1>6
    <3>3. \A d \in with : /\ d \in Part(docs, e.collection) /\ d.field = e.field /\ d.values # {}
                          /\ d.array \in BOOLEAN
      BY ArraysAreKnown DEF AcquisitionInv, Typed, Present, In, Part
    <3> HIDE DEF e, with
    <3>4. CASE flags[n] = "unknown"
      BY <3>2, <3>4 DEF Flagged
    <3>5. CASE flags[n] # "unknown"
      <4>1. PICK d \in with : flags[n] = IF d.array THEN "yes" ELSE "no"
        BY <3>1, <3>5
      <4>2. d.array = (flags[n] = "yes")
        BY <3>3, <4>1
      <4> QED BY <3>2, <3>3, <4>2 DEF Flagged
    <3> QED BY <3>4, <3>5
  <2>2. CASE entities[n].style # "LABEL"
    BY <1>2, <1>6, <2>2 DEF Flagged
  <2> QED BY <2>1, <2>2
<1>10. AnalyzerDeclares'
  BY <1>1, <1>3, <1>5, <1>7 DEF AcquisitionInv, AnalyzerDeclares, DeclaredIn, Filling
<1>11. HeuristicIsExact'
  <2> SUFFICES ASSUME Known, strategy = "heuristic"
               PROVE  /\ Emits(Exact, entities')
                      /\ \A n \in Stored : Relates(docs, edges, Exact, relationships[n])
    BY <1>3, <1>4, <1>7 DEF HeuristicIsExact
  <2>1. /\ Emits(Exact, entities)
        /\ \A n \in Stored : Relates(docs, edges, Exact, relationships[n])
    BY <1>1 DEF AcquisitionInv, HeuristicIsExact, Filling
  <2>2. \A n \in DOMAIN entities' : Emitted(Exact, n, entities'[n])
    BY <1>5, <1>6, <2>1 DEF Emits, Emitted
  <2> QED BY <1>5, <2>1, <2>2 DEF Emits
<1>12. AnalyzerIsExact'
  <2> SUFFICES ASSUME Known, strategy = "analyzer"
               PROVE  /\ \A n \in DOMAIN entities : Analyzed(docs, Exact, n, entities'[n])
                      /\ \A n \in Stored :
                            LET r == relationships[n] IN
                            /\ r.collection \in EdgeCollection /\ r.style = Exact[r.collection].style
                            /\ IF r.style = "GENERIC_WITH_TYPE"
                               THEN r.value \in Exact[r.collection].values ELSE r.value = None
                            /\ r.to # ANY_ENTITY =>
                                  LET inferred == ToOf(docs, edges, Exact, r)
                                  IN  inferred # ANY_ENTITY /\ Keyed(entities', r.to, inferred)
    BY <1>1, <1>3, <1>4, <1>5, <1>7 DEF AnalyzerIsExact
  <2>1. /\ \A n \in DOMAIN entities : Analyzed(docs, Exact, n, entities[n])
        /\ \A n \in Stored :
              LET r == relationships[n] IN
              /\ r.collection \in EdgeCollection /\ r.style = Exact[r.collection].style
              /\ IF r.style = "GENERIC_WITH_TYPE" THEN r.value \in Exact[r.collection].values
                 ELSE r.value = None
              /\ r.to # ANY_ENTITY =>
                    LET inferred == ToOf(docs, edges, Exact, r)
                    IN  inferred # ANY_ENTITY /\ Keyed(entities, r.to, inferred)
    BY <1>1 DEF AcquisitionInv, AnalyzerIsExact, Filling
  <2>2. \A key, inferred : Keyed(entities, key, inferred) => Keyed(entities', key, inferred)
    BY <1>5, <1>6 DEF Keyed
  <2>3. \A n \in DOMAIN entities : Analyzed(docs, Exact, n, entities'[n])
    BY <1>6, <2>1 DEF Analyzed
  <2> QED BY <2>1, <2>2, <2>3
<1>13. Fresh' /\ ScopeIsClosed'
  BY <1>1 DEF Fresh, ScopeIsClosed
<1> QED BY <1>8, <1>9, <1>10, <1>11, <1>12, <1>13 DEF AcquisitionInv

(* A class is named as one of its collection may be. *)
LEMMA ClassesAreNamed ==
  ASSUME NEW c \in Collection, NEW n \in ClassNames(Exact, c)
  PROVE  n \in NamesIn(c)
<1>1. CASE Exact[c].style = "LABEL"
  <2>1. Exact[c].values = ValuesOf(Present(In(c), Exact[c].field))
    BY <1>1, ClassOfDocuments DEF Exact, In
  <2> QED BY <1>1, <2>1 DEF ClassNames, NamesIn, ValuesOf, Present
<1>2. CASE Exact[c].style # "LABEL"
  BY <1>2 DEF ClassNames, NamesIn
<1> QED BY <1>1, <1>2

(* The class of an endpoint inside the graph is stored in the graph. *)
LEMMA EndIsInScope ==
  ASSUME AcquisitionInv, stage \in Filling, strategy = "heuristic", Known, Uniform,
         NEW labels, NEW hs, labels = {Told(docs, Exact, h) : h \in hs} \ {None},
         Agreed(labels) # ANY_ENTITY, NEW vertex, \A h \in hs : h[1] \in vertex
  PROVE  /\ Agreed(labels) \in DOMAIN entities
         /\ entities[Agreed(labels)].style # "RPT"
         /\ entities[Agreed(labels)].collection \in vertex
<1>1. PICK h \in hs : Agreed(labels) = Told(docs, Exact, h) /\ Told(docs, Exact, h) # None
  BY AgreedIsOne
<1> DEFINE n == Told(docs, Exact, h)
           e == entities[n]
<1>2. /\ h[1] \in Collection /\ n \in ClassNames(Exact, h[1])
      /\ Exact[h[1]].style \in {"COLLECTION", "LABEL"}
  BY <1>1, ToldIsEmitted DEF Exact
<1>3. Emits(Exact, entities) /\ \A m \in DOMAIN entities : IsEntity(entities[m])
  BY DEF AcquisitionInv, HeuristicIsExact, Typed
<1>4. n \in DOMAIN entities /\ Emitted(Exact, n, e) /\ e.collection \in Collection
  BY <1>2, <1>3 DEF Emits, IsEntity
<1>5. n \in NamesIn(h[1])
  BY <1>2, ClassesAreNamed
<1>6. e.collection = h[1]
  BY <1>2, <1>4, <1>5, EmittedInOne DEF Exact
<1>7. e.style # "RPT"
  BY <1>2, <1>4, <1>6 DEF Emitted
<1> QED BY <1>1, <1>4, <1>6, <1>7

LEMMA ScopeStep ==
  ASSUME AcquisitionInv, scope_bundle_to_graph
  PROVE  AcquisitionInv'
<1>1. /\ stage = "scope" /\ stage' = "done" /\ UNCHANGED <<database, request, cls>>
  BY DEF scope_bundle_to_graph
<1>2. /\ docs' = docs /\ edges' = edges /\ changes' = changes /\ strategy' = strategy
      /\ graph' = graph
  BY <1>1 DEF database, request
<1>3. Known' = Known /\ Quiet' = Quiet
  BY <1>1, DatabaseKept
<1> DEFINE vertices == {n \in DOMAIN entities :
                           entities[n].style # "RPT" /\ entities[n].collection \in graph.vertex}
           kept == {n \in DOMAIN relationships : InScope(relationships[n])}
           Cut == /\ entities' = [n \in vertices |-> entities[n]]
                  /\ relationships' = [n \in kept |-> relationships[n]]
<1>4. CASE UNCHANGED bundle
  <2>1. entities' = entities /\ relationships' = relationships
    BY <1>4 DEF bundle
  <2>2. Typed'
    BY <1>1, <1>2, <2>1 DEF AcquisitionInv, Typed, Building, Filling
  <2>3. ScopeIsClosed'
    <3> SUFFICES ASSUME Known, strategy = "heuristic", NEW n \in Stored PROVE Declared(n)'
      BY <1>2, <1>3, <2>1 DEF ScopeIsClosed, Stored, Known, Quiet, Complete, In, EdgesIn
    <3>1. Emits(Exact, entities) /\ Relates(docs, edges, Exact, relationships[n])
      BY <1>1 DEF AcquisitionInv, HeuristicIsExact, Filling
    <3>2. DeclaredIn(entities, relationships[n])
      BY <3>1, DetectedIsDeclared DEF Exact
    <3> QED BY <2>1, <3>2 DEF Declared, DeclaredIn
  <2> QED BY <1>1, <2>2, <2>3 DEF AcquisitionInv, Fresh, AnalyzerDeclares, HeuristicIsExact,
                                  AnalyzerIsExact, FlagsShown, Filling
<1>5. CASE Cut
  <2>1. /\ DOMAIN entities' = vertices /\ DOMAIN relationships' = kept
        /\ \A n \in vertices : entities'[n] = entities[n]
        /\ \A n \in kept : relationships'[n] = relationships[n]
        /\ entities' = [n \in DOMAIN entities' |-> entities'[n]]
        /\ relationships' = [n \in DOMAIN relationships' |-> relationships'[n]]
        /\ vertices \subseteq DOMAIN entities /\ kept \subseteq DOMAIN relationships
    BY <1>5
  <2> HIDE DEF Cut
  <2>2. Typed'
    <3> HIDE DEF vertices, kept
    <3> QED BY <1>1, <1>2, <2>1 DEF AcquisitionInv, Typed, Building, Filling
  <2>3. ScopeIsClosed'
    <3> SUFFICES ASSUME Known, Uniform', strategy = "heuristic",
                        \A e \in edges : e.in \in graph.edges => {e.from[1], e.to[1]} \subseteq graph.vertex,
                        NEW n \in kept, relationships[n].style # "RPT_EDGE"
                 PROVE  {relationships[n].from, relationships[n].to} \subseteq vertices \cup {ANY_ENTITY}
      <4> HIDE DEF vertices, kept
      <4>1. (Quiet /\ Complete)' => Known
        BY <1>3 DEF Known
      <4> QED BY <1>2, <2>1, <4>1 DEF ScopeIsClosed, Stored, Declared
    <3>1. Uniform
      BY <1>2 DEF Uniform, NamesIn, In
    <3> DEFINE r == relationships[n]
    <3>2. Relates(docs, edges, Exact, r)
      BY <1>1 DEF AcquisitionInv, HeuristicIsExact, Filling, Stored
    <3>3. \A e \in Group(edges, r) : e.from[1] \in graph.vertex /\ e.to[1] \in graph.vertex
      BY DEF Group, Part, InScope
    <3>4. stage \in Filling
      BY <1>1 DEF Filling
    <3>5. r.from \in vertices \cup {ANY_ENTITY}
      <4> DEFINE hs == {e.from : e \in Group(edges, r)}
                 labels == {Told(docs, Exact, h) : h \in hs} \ {None}
      <4>1. r.from = Agreed(labels)
        <5>1. labels = {Told(docs, Exact, e.from) : e \in Group(edges, r)} \ {None}
          OBVIOUS
        <5> QED BY <3>2, <5>1 DEF Relates, FromOf
      <4>2. \A h \in hs : h[1] \in graph.vertex
        BY <3>3
      <4> HIDE DEF hs, r
      <4> QED BY <3>1, <3>4, <4>1, <4>2, EndIsInScope
    <3>6. r.to \in vertices \cup {ANY_ENTITY}
      <4> DEFINE hs == {e.to : e \in Group(edges, r)}
                 labels == {Told(docs, Exact, h) : h \in hs} \ {None}
      <4>1. r.to = Agreed(labels)
        <5>1. labels = {Told(docs, Exact, e.to) : e \in Group(edges, r)} \ {None}
          OBVIOUS
        <5> QED BY <3>2, <5>1 DEF Relates, ToOf
      <4>2. \A h \in hs : h[1] \in graph.vertex
        BY <3>3
      <4> HIDE DEF hs, r
      <4> QED BY <3>1, <3>4, <4>1, <4>2, EndIsInScope
    <3> QED BY <3>5, <3>6
  <2> QED BY <1>1, <2>2, <2>3 DEF AcquisitionInv, Fresh, AnalyzerDeclares, HeuristicIsExact,
                                  AnalyzerIsExact, FlagsShown, Filling
<1> QED BY <1>4, <1>5 DEF scope_bundle_to_graph

LEMMA InvStep ==
  ASSUME AcquisitionInv, [Next]_vars
  PROVE  AcquisitionInv'
<1>1. CASE UNCHANGED vars
  <2>1. /\ UNCHANGED <<database, request, stage, cls, bundle>>
        /\ docs' = docs /\ edges' = edges /\ changes' = changes /\ strategy' = strategy
        /\ graph' = graph /\ stage' = stage /\ cls' = cls
        /\ entities' = entities /\ relationships' = relationships
    BY <1>1 DEF vars, database, request, bundle
  <2>2. Known' = Known /\ Quiet' = Quiet /\ Exact' = Exact
    BY <2>1, DatabaseKept
  <2>3. Stored' = Stored
    BY <2>1 DEF Stored
  <2>4. Typed'
    BY <2>1 DEF AcquisitionInv, Typed
  <2>5. Fresh' /\ AnalyzerDeclares' /\ FlagsShown'
    BY <2>1, <2>2, <2>3 DEF AcquisitionInv, Fresh, AnalyzerDeclares, FlagsShown
  <2>6. HeuristicIsExact'
    BY <2>1, <2>2, <2>3 DEF AcquisitionInv, HeuristicIsExact
  <2>7. AnalyzerIsExact'
    BY <2>1, <2>2, <2>3 DEF AcquisitionInv, AnalyzerIsExact
  <2>8. ScopeIsClosed'
    <3>1. Uniform' = Uniform
      BY <2>1 DEF Uniform, NamesIn, In
    <3>2. (Quiet /\ Complete)' => Quiet /\ Complete
      BY <2>2 DEF Known
    <3> QED BY <2>1, <2>3, <3>1, <3>2 DEF AcquisitionInv, ScopeIsClosed, Declared
  <2> QED BY <2>4, <2>5, <2>6, <2>7, <2>8 DEF AcquisitionInv
<1> QED BY <1>1, ClassifyStep, BuildStep, AnalyzeStep, FailStep, RptStep, EnrichStep, ShapeStep,
           ScopeStep, ChangeStep DEF Next

(* The invariant the others rest on: what a bundle says of a database that *)
(* is known is exact, and what passes leave of it stays so.                *)
THEOREM Inductive == Spec => []AcquisitionInv
<1> QED BY InitiallyInv, InvStep, PTL DEF Spec

----------------------------------------------------------------------------
(* The theorems *)

(* A relationship names only classes that the bundle declares, for any     *)
(* data: over an analyzer's bundle whatever samples miss and whatever      *)
(* changes between the passes, over a heuristic one when they are complete.*)
THEOREM DeclaresEndpoints == Spec => []EndpointsDeclared
<1>1. AcquisitionInv => EndpointsDeclared
  <2> SUFFICES ASSUME AcquisitionInv, Enriched, strategy = "analyzer" \/ Known, NEW n \in Stored
               PROVE  DeclaredIn(entities, relationships[n])
    BY DEF EndpointsDeclared, Declared, DeclaredIn, Known
  <2>1. stage \in Filling
    BY DEF Enriched, Filling
  <2>2. CASE strategy = "analyzer"
    BY <2>1, <2>2 DEF AcquisitionInv, AnalyzerDeclares
  <2>3. CASE strategy = "heuristic" /\ Known
    <3>1. Emits(Exact, entities) /\ Relates(docs, edges, Exact, relationships[n])
      BY <2>1, <2>3 DEF AcquisitionInv, HeuristicIsExact
    <3> QED BY <3>1, DetectedIsDeclared DEF Exact
  <2> QED BY <2>2, <2>3 DEF AcquisitionInv, Typed
<1> QED BY <1>1, Inductive, PTL

(* A bundle that is cut down to a graph names only classes it keeps, for   *)
(* any uniform data whose edges run inside the graph.                      *)
THEOREM ScopesAreClosed == Spec => []ScopeIsClosed
<1>1. AcquisitionInv => ScopeIsClosed
  BY DEF AcquisitionInv
<1> QED BY <1>1, Inductive, PTL

(* No pass changes an endpoint that the producer of the bundle, or an      *)
(* earlier pass, has pinned, whatever the data and however they change.    *)
THEOREM PinsAreKept == Spec => PinnedStays
<1> DEFINE Keeps ==
       \A n \in DOMAIN relationships \cap DOMAIN relationships' :
          /\ relationships[n].from # ANY_ENTITY => relationships'[n].from = relationships[n].from
          /\ relationships[n].to # ANY_ENTITY => relationships'[n].to = relationships[n].to
<1>1. ASSUME AcquisitionInv, [Next]_vars PROVE Keeps
  <2>1. CASE UNCHANGED bundle
    BY <2>1 DEF bundle
  <2>2. CASE stage \in Building
    <3>1. DOMAIN relationships = {}
      BY <1>1, <2>2 DEF AcquisitionInv, Typed, Nothing
    <3> QED BY <3>1
  <2>3. CASE _apply_rpt_enrichment
    BY <2>3 DEF _apply_rpt_enrichment, Over
  <2>4. CASE _apply_edge_endpoint_enrichment
    <3> SUFFICES ASSUME NEW n \in DOMAIN relationships
                 PROVE  /\ relationships[n].from # ANY_ENTITY => relationships'[n].from = relationships[n].from
                        /\ relationships[n].to # ANY_ENTITY => relationships'[n].to = relationships[n].to
      OBVIOUS
    <3>1. PICK sample \in Samples(edges) :
             relationships' = [m \in DOMAIN relationships |->
                 LET r == relationships[m]
                     ends == Inferred(EndpointIndex(cls, sample), r.collection, r.value)
                 IN  IF r.style = "RPT_EDGE" THEN r
                     ELSE [r EXCEPT !.from = Fill(@, _as_entity_key(ends.from)),
                                    !.to = Fill(@, _as_entity_key(ends.to))]]
      BY <2>4 DEF _apply_edge_endpoint_enrichment
    <3> DEFINE r == relationships[n]
               ends == Inferred(EndpointIndex(cls, sample), r.collection, r.value)
               from == Fill(r.from, _as_entity_key(ends.from))
               to == Fill(r.to, _as_entity_key(ends.to))
    <3>3. relationships'[n] = IF r.style = "RPT_EDGE" THEN r ELSE [r EXCEPT !.from = from, !.to = to]
      BY <3>1
    <3>4. (r.from # ANY_ENTITY => from = r.from) /\ (r.to # ANY_ENTITY => to = r.to)
      BY DEF Fill
    <3>2. IsRelationship(relationships[n])
      BY <1>1 DEF AcquisitionInv, Typed
    <3> HIDE DEF from, to, ends
    <3>5. r.style # "RPT_EDGE" => relationships'[n].from = from /\ relationships'[n].to = to
      <4> HIDE DEF r
      <4>1. PICK a, b, c, d, f :
               r = [style |-> a, collection |-> b, value |-> c, from |-> d, to |-> f]
        BY <3>2 DEF IsRelationship, r
      <4> QED BY <3>3, <4>1
    <3> QED BY <3>3, <3>4, <3>5
  <2>5. CASE _apply_label_shape_enrichment
    BY <2>5 DEF _apply_label_shape_enrichment
  <2>6. CASE scope_bundle_to_graph
    BY <2>6 DEF scope_bundle_to_graph, bundle
  <2>7. CASE Next /\ ~ UNCHANGED bundle /\ stage \notin Building
    <3>1. _apply_rpt_enrichment \/ _apply_edge_endpoint_enrichment
          \/ _apply_label_shape_enrichment \/ scope_bundle_to_graph
      BY <2>7 DEF Next, _classify_all, build_heuristic_mapping, _acquire_via_analyzer, PassFails,
                  Change, Building
    <3> QED BY <2>3, <2>4, <2>5, <2>6, <3>1
  <2>8. UNCHANGED vars => UNCHANGED bundle
    BY DEF vars, bundle
  <2> QED BY <1>1, <2>1, <2>2, <2>7, <2>8
<1>2. AcquisitionInv /\ [Next]_vars => [Keeps]_vars
  BY <1>1
<1> QED BY <1>2, Inductive, PTL DEF Spec, PinnedStays

(* Where all labels are strings, no test of a shape rules a document out.  *)
LEMMA PlainShapes ==
  ASSUME docs \subseteq Doc, \A d \in docs : ~ d.array, NEW e, Flagged(docs, e), NEW d \in docs
  PROVE  e.array = "unknown" \/ d.array = (e.array = "yes")
<1>1. \A x \in docs : x.array = FALSE
  BY ArraysAreKnown
<1>2. CASE e.array # "unknown"
  <2>1. PICK x \in Part(docs, e.collection) : x.array = (e.array = "yes")
    BY <1>2 DEF Flagged
  <2>2. x \in docs
    BY DEF Part
  <2> QED BY <1>1, <2>1, <2>2
<1> QED BY <1>2

(* A handle of a labelled document resolves.                               *)
LEMMA LabelledIsTold ==
  ASSUME NEW ds, NEW k, NEW h, h[1] \in Collection, k[h[1]].style = "LABEL",
         NEW d \in Part(ds, h[1]), d.key = h[2], d.field = k[h[1]].field, ~ d.array, d.values # {},
         \A x \in Part(ds, h[1]) : None \notin x.values
  PROVE  Told(ds, k, h) # None
<1> DEFINE read == {x \in Part(ds, h[1]) : x.key = h[2] /\ x.field = k[h[1]].field /\ ~ x.array}
<1>1. Told(ds, k, h) = IF ValuesOf(read) # {} THEN CHOOSE v \in ValuesOf(read) : TRUE ELSE None
  BY DEF Told
<1>2. d \in read /\ \A x \in read : None \notin x.values
  OBVIOUS
<1> HIDE DEF read
<1>3. ValuesOf(read) # {} /\ None \notin ValuesOf(read)
  BY <1>2 DEF ValuesOf
<1> QED BY <1>1, <1>3

(* The class agreed on for a heuristic bundle admits every endpoint. *)
LEMMA DetectedAdmits ==
  ASSUME AcquisitionInv, stage \in Filling, strategy = "heuristic", Known, Uniform,
         \A d \in docs : ~ d.array,
         NEW labels, NEW hs, labels = {Told(docs, Exact, h) : h \in hs} \ {None}, NEW h \in hs
  PROVE  Admits(Agreed(labels), h)
<1> DEFINE end == Agreed(labels)
<1> SUFFICES ASSUME end # ANY_ENTITY, ClassesOf(h) # {} PROVE end \in ClassesOf(h)
  BY DEF Admits
<1>1. docs \subseteq Doc /\ \A n \in DOMAIN entities : IsEntity(entities[n])
  BY DEF AcquisitionInv, Typed
<1>2. Emits(Exact, entities) /\ \A n \in DOMAIN entities : Flagged(docs, entities[n])
  BY DEF AcquisitionInv, HeuristicIsExact, FlagsShown, Known
<1>3. PICK m \in DOMAIN entities : \E d \in Members(entities[m]) : <<d.in, d.key>> = h
  BY DEF ClassesOf
<1>4. PICK d \in Members(entities[m]) : <<d.in, d.key>> = h
  BY <1>3
<1> DEFINE c == h[1]
           k == Exact[c]
<1>5. /\ d \in In(c) /\ c = d.in /\ h[2] = d.key /\ c = entities[m].collection
      /\ \/ entities[m].style = "COLLECTION"
         \/ /\ entities[m].style = "LABEL" /\ d.field = entities[m].field
            /\ entities[m].value \in d.values
  BY <1>4 DEF Members, In, Part
<1>6. c \in Collection /\ Emitted(Exact, m, entities[m])
  BY <1>1, <1>2, <1>5 DEF IsEntity, Emits
<1>7. k.style = entities[m].style /\ (k.style = "LABEL" => d.field = k.field /\ d.values # {})
  BY <1>5, <1>6 DEF Emitted
<1>8. Told(docs, Exact, h) # None
  <2>1. CASE k.style = "COLLECTION"
    <3>1. Told(docs, Exact, h) = c
      BY <1>6, <2>1 DEF Told
    <3> QED BY <1>6, <3>1, NoneIsNoName
  <2>2. CASE k.style = "LABEL"
    <3>1. d \in Part(docs, c) /\ d.key = h[2] /\ ~ d.array
      BY <1>1, <1>5 DEF In, Part
    <3>2. \A x \in Part(docs, c) : None \notin x.values
      BY <1>1, NoneIsNoName DEF Part
    <3> HIDE DEF c, k
    <3>3. c \in Collection /\ k.style = "LABEL" /\ d.field = k.field /\ d.values # {}
      BY <1>6, <1>7, <2>2
    <3> QED BY <3>1, <3>2, <3>3, LabelledIsTold DEF c, k
  <2> QED BY <1>5, <1>7, <2>1, <2>2
<1>9. end = Told(docs, Exact, h)
  BY <1>8, AgreedIsOne
<1> DEFINE told == Told(docs, Exact, h)
<1>14. /\ c \in Collection /\ told \in ClassNames(Exact, c)
        /\ \/ k.style = "COLLECTION" /\ told = c
           \/ /\ k.style = "LABEL"
              /\ \E x \in Part(docs, c) : /\ x.key = h[2] /\ x.field = k.field /\ ~ x.array
                                          /\ told \in x.values
  BY <1>8, ToldIsEmitted DEF Exact
<1> HIDE DEF told, end
<1>10. /\ end \in ClassNames(Exact, c)
       /\ \/ k.style = "COLLECTION" /\ end = c
          \/ /\ k.style = "LABEL"
             /\ \E x \in Part(docs, c) : /\ x.key = h[2] /\ x.field = k.field /\ ~ x.array
                                         /\ end \in x.values
  <2>1. end = told
    BY <1>9 DEF told
  <2> QED BY <1>14, <2>1
<1> DEFINE e == entities[end]
<1>11. /\ end \in DOMAIN entities /\ Emitted(Exact, end, e) /\ e.collection \in Collection
       /\ Flagged(docs, e)
  BY <1>1, <1>2, <1>6, <1>10 DEF Emits, IsEntity
<1>12. e.collection = c
  <2>1. end \in NamesIn(c)
    BY <1>6, <1>10, ClassesAreNamed
  <2> QED BY <1>6, <1>11, <2>1, EmittedInOne DEF Exact
<1> HIDE DEF end, c, k
<1>13. \E x \in Members(e) : <<x.in, x.key>> = h
  <2>1. CASE k.style = "COLLECTION"
    <3>1. e.style = "COLLECTION"
      BY <1>11, <1>12, <2>1 DEF Emitted, k
    <3> QED BY <1>4, <1>5, <1>12, <3>1 DEF Members
  <2>2. CASE k.style = "LABEL"
    <3>1. PICK x \in Part(docs, c) : x.key = h[2] /\ x.field = k.field /\ ~ x.array /\ end \in x.values
      BY <1>10, <2>2
    <3>2. e.style = "LABEL" /\ e.field = k.field /\ e.value = end
      BY <1>11, <1>12, <2>2 DEF Emitted, k
    <3>3. e.array = "unknown" \/ x.array = (e.array = "yes")
      BY <1>1, <1>11, <3>1, PlainShapes DEF Part
    <3>4. x \in Members(e)
      BY <1>12, <3>1, <3>2, <3>3 DEF Members, In
    <3>5. x.in = c /\ x.key = h[2] /\ h = <<c, h[2]>>
      BY <1>4, <1>5, <3>1 DEF Part
    <3> QED BY <3>4, <3>5
  <2> QED BY <1>10, <2>1, <2>2
<1> QED BY <1>11, <1>13 DEF ClassesOf, end

(* And so does an end filled in for the analyzer's, if the endpoint        *)
(* resolves.                                                               *)
LEMMA FilledAdmits ==
  ASSUME AcquisitionInv, stage \in Filling, strategy = "analyzer", Known, Uniform,
         \A d \in docs : ~ d.array,
         NEW labels, NEW hs, labels = {Told(docs, Exact, h) : h \in hs} \ {None}, NEW h \in hs,
         NEW end, end \in DOMAIN entities \cup {ANY_ENTITY},
         end # ANY_ENTITY => Agreed(labels) # ANY_ENTITY /\ Keyed(entities, end, Agreed(labels)),
         Told(docs, Exact, h) # None
  PROVE  Admits(end, h)
<1> SUFFICES ASSUME end # ANY_ENTITY, ClassesOf(h) # {} PROVE end \in ClassesOf(h)
  BY DEF Admits
<1>1. docs \subseteq Doc /\ \A n \in DOMAIN entities : IsEntity(entities[n])
  BY DEF AcquisitionInv, Typed
<1>2. \A n \in DOMAIN entities : Analyzed(docs, Exact, n, entities[n]) /\ Flagged(docs, entities[n])
  BY DEF AcquisitionInv, AnalyzerIsExact, FlagsShown, Known
<1>3. PICK m \in DOMAIN entities : \E d \in Members(entities[m]) : <<d.in, d.key>> = h
  BY DEF ClassesOf
<1>4. PICK d \in Members(entities[m]) : <<d.in, d.key>> = h
  BY <1>3
<1> DEFINE c == h[1]
           k == Exact[c]
           told == Told(docs, Exact, h)
<1>5. d \in In(c) /\ c = d.in /\ h[2] = d.key
  BY <1>4 DEF Members, In, Part
<1>6. Agreed(labels) = told
  BY AgreedIsOne
<1>7. /\ c \in Collection /\ told \in ClassNames(Exact, c)
      /\ \/ k.style = "COLLECTION" /\ told = c
         \/ /\ k.style = "LABEL"
            /\ \E x \in Part(docs, c) : /\ x.key = h[2] /\ x.field = k.field /\ ~ x.array
                                        /\ told \in x.values
  BY ToldIsEmitted DEF Exact
<1>8. told \in NamesIn(c)
  BY <1>7, ClassesAreNamed
<1> DEFINE e == entities[end]
<1>9. /\ end \in DOMAIN entities /\ Analyzed(docs, Exact, end, e) /\ e.collection \in Collection
      /\ Flagged(docs, e)
  BY <1>1, <1>2 DEF IsEntity
<1>10. Keyed(entities, end, told)
  BY <1>6
<1>11. e.collection = c
  <2>1. CASE end = told
    BY <1>7, <1>8, <1>9, <2>1, AnalyzedInOne
  <2>2. CASE e.collection = told
    <3>1. told \in NamesIn(told)
      BY DEF NamesIn
    <3> QED BY <1>7, <1>8, <1>9, <2>2, <3>1 DEF Uniform
  <2> QED BY <1>10, <2>1, <2>2 DEF Keyed
<1>12. k.style = Exact[e.collection].style /\ k.style # "RPT"
  BY <1>7, <1>11
<1>13. \E x \in Members(e) : <<x.in, x.key>> = h
  <2>1. CASE e.style = "COLLECTION"
    BY <1>4, <1>5, <1>11, <2>1 DEF Members
  <2>2. CASE e.style = "LABEL"
    <3>1. e.field = "type" /\ e.value = end /\ IsTyped(docs, c)
      BY <1>9, <1>11, <2>2 DEF Analyzed
    <3>2. k.style = "LABEL" /\ k.field = "type"
      <4>1. k.style # "COLLECTION" /\ (k.style = "LABEL" => k.field = "type")
        BY <1>1, <1>7, <3>1, TypedIsDetected DEF Exact
      <4> QED BY <1>7, <4>1
    <3>3. end = told
      BY <1>10, <2>2 DEF Keyed
    <3>4. PICK x \in Part(docs, c) : x.key = h[2] /\ x.field = k.field /\ ~ x.array /\ told \in x.values
      BY <1>7, <3>2
    <3>5. e.array = "unknown" \/ x.array = (e.array = "yes")
      BY <1>1, <1>9, <3>4, PlainShapes DEF Part
    <3>6. x \in Members(e)
      BY <1>11, <2>2, <3>1, <3>2, <3>3, <3>4, <3>5 DEF Members, In
    <3>7. x.in = c /\ x.key = h[2] /\ h = <<c, h[2]>>
      BY <1>4, <1>5, <3>4 DEF Part
    <3> QED BY <3>6, <3>7
  <2>3. CASE e.style = "RPT"
    BY <1>9, <1>12, <2>3 DEF Analyzed
  <2> QED BY <1>9, <2>1, <2>2, <2>3 DEF Analyzed
<1> QED BY <1>9, <1>13 DEF ClassesOf

(* The declared domain and range exclude no endpoint an edge has, for any  *)
(* uniform data with labels as strings that the samples show whole.        *)
THEOREM EndpointsAreHeld == Spec => []EndpointsHold
<1>1. AcquisitionInv => EndpointsHold
  <2> SUFFICES ASSUME AcquisitionInv, Enriched, Known, Uniform, \A d \in docs : ~ d.array,
                      NEW n \in Stored
               PROVE  ExcludesNothing(n)
    BY DEF EndpointsHold, Known
  <2> DEFINE r == relationships[n]
  <2>1. stage \in Filling
    BY DEF Enriched, Filling
  <2>2. EdgesOf(r) = Group(edges, r)
    BY DEF EdgesOf, Group, EdgesIn
  <2> SUFFICES ASSUME NEW e \in Group(edges, r)
               PROVE  /\ strategy = "heuristic" => Admits(r.from, e.from)
                      /\ Accounted(e.to) => Admits(r.to, e.to)
    BY <2>2 DEF ExcludesNothing
  <2> DEFINE heads == {x.to : x \in Group(edges, r)}
             tails == {x.from : x \in Group(edges, r)}
             HeadLabels == {Told(docs, Exact, h) : h \in heads} \ {None}
             TailLabels == {Told(docs, Exact, h) : h \in tails} \ {None}
  <2>3. /\ ToOf(docs, edges, Exact, r) = Agreed(HeadLabels)
        /\ FromOf(docs, edges, Exact, r) = Agreed(TailLabels)
    <3>1. HeadLabels = {Told(docs, Exact, x.to) : x \in Group(edges, r)} \ {None}
      OBVIOUS
    <3>2. TailLabels = {Told(docs, Exact, x.from) : x \in Group(edges, r)} \ {None}
      OBVIOUS
    <3> QED BY <3>1, <3>2 DEF ToOf, FromOf
  <2>4. e.to \in heads /\ e.from \in tails
    OBVIOUS
  <2> HIDE DEF r, heads, tails
  <2>5. CASE strategy = "heuristic"
    <3>1. r.from = Agreed(TailLabels) /\ r.to = Agreed(HeadLabels)
      BY <2>1, <2>3, <2>5 DEF AcquisitionInv, HeuristicIsExact, Relates, r
    <3> QED BY <2>1, <2>4, <2>5, <3>1, DetectedAdmits
  <2>6. CASE strategy = "analyzer"
    <3>1. /\ r.to \in DOMAIN entities \cup {ANY_ENTITY}
          /\ r.to # ANY_ENTITY => Agreed(HeadLabels) # ANY_ENTITY /\ Keyed(entities, r.to, Agreed(HeadLabels))
      BY <2>1, <2>3, <2>6 DEF AcquisitionInv, AnalyzerIsExact, AnalyzerDeclares, DeclaredIn, r
    <3>2. Accounted(e.to) => Told(docs, Exact, e.to) # None
      BY <2>6 DEF Accounted, HandleLabel, Told, In, Part, Exact
    <3> QED BY <2>1, <2>4, <2>6, <3>1, <3>2, FilledAdmits
  <2> QED BY <2>5, <2>6 DEF AcquisitionInv, Typed
<1> QED BY <1>1, Inductive, PTL

(* What is outside of a part that covers is little. *)
LEMMA LittleIsLeft ==
  ASSUME NEW n \in Nat, NEW p \in Nat, NEW l \in Nat, p <= n, l <= n - p,
         p * CoverDen >= CoverNum * n
  PROVE  l * CoverDen <= (CoverDen - CoverNum) * n
<1>1. CoverNum \in Nat /\ CoverDen \in Nat
  BY SamplingBounds
<1>2. \A a, b \in Nat : a * b \in Nat
  OBVIOUS
<1>3. PICK rest \in Nat : n = p + l + rest
  <2>1. n - p - l \in Nat /\ n = p + l + (n - p - l)
    OBVIOUS
  <2> QED BY <2>1
<1>4. n * CoverDen = p * CoverDen + l * CoverDen + rest * CoverDen
  BY <1>1, <1>3
<1>5. (CoverDen - CoverNum) * n = n * CoverDen - CoverNum * n
  BY <1>1
<1>6. rest * CoverDen \in Nat /\ p * CoverDen \in Nat /\ l * CoverDen \in Nat /\ CoverNum * n \in Nat
  BY <1>1, <1>2
<1> QED BY <1>4, <1>5, <1>6

(* A document with the discriminator belongs to the class of its label.    *)
LEMMA LabelledIsMember ==
  ASSUME AcquisitionInv, stage \in Filling, strategy = "heuristic", Known, Uniform,
         NEW c \in Collection, Exact[c].style = "LABEL",
         NEW d \in Present(In(c), Exact[c].field), d.values # {}
  PROVE  \E n \in DOMAIN entities : d \in Members(entities[n])
<1> DEFINE k == Exact[c]
<1>1. PICK v \in d.values : TRUE
  OBVIOUS
<1>2. d \in docs /\ d.in = c /\ d.field = k.field /\ d \in In(c)
  BY DEF Present, In, Part
<1>3. v \in ClassNames(Exact, c)
  <2>1. k.values = ValuesOf(Present(In(c), k.field))
    BY ClassOfDocuments DEF Exact, In
  <2> QED BY <2>1 DEF ClassNames, ValuesOf
<1> DEFINE e == entities[v]
<1>4. v \in DOMAIN entities /\ Emitted(Exact, v, e) /\ Flagged(docs, e) /\ e.collection \in Collection
  BY <1>3 DEF AcquisitionInv, HeuristicIsExact, FlagsShown, Known, Emits, Typed, IsEntity
<1>5. e.collection = c
  BY <1>3, <1>4, ClassesAreNamed, EmittedInOne DEF Exact
<1>6. e.style = "LABEL" /\ e.field = k.field /\ e.value = v
  BY <1>4, <1>5 DEF Emitted
<1> HIDE DEF e, k
<1>7. e.array = "unknown" \/ d.array = (e.array = "yes")
  <2> SUFFICES ASSUME e.array # "unknown" PROVE d.array = (e.array = "yes")
    OBVIOUS
  <2>1. PICK x \in Part(docs, c) : x.values # {} /\ x.array = (e.array = "yes")
    BY <1>4, <1>5 DEF Flagged
  <2>2. x \in docs /\ x.in = c
    BY DEF Part
  <2>3. d.array = x.array
    BY <1>2, <2>1, <2>2 DEF Uniform
  <2> QED BY <2>1, <2>3
<1>8. d \in Members(e)
  BY <1>1, <1>2, <1>5, <1>6, <1>7 DEF Members
<1> QED BY <1>4, <1>8 DEF e

(* The discriminator that detection chooses leaves no more documents of a  *)
(* collection without a class than its coverage admits, for any uniform    *)
(* data, any sample that is whole and any threshold.                       *)
THEOREM LittleIsLost == Spec => []FewAreLost
<1>1. AcquisitionInv => FewAreLost
  <2> SUFFICES ASSUME AcquisitionInv, Enriched, Known, Uniform, strategy = "heuristic",
                      \A d \in docs : d.field # None => d.values # {}, NEW c \in Collection
               PROVE  LET lost == In(c) \ UNION {Members(entities[n]) : n \in DOMAIN entities}
                      IN  \/ (c \in DOMAIN entities /\ entities[c].style = "RPT")
                          \/ Cardinality(lost) * CoverDen <= (CoverDen - CoverNum) * Cardinality(In(c))
    BY DEF FewAreLost, Known
  <2> DEFINE members == UNION {Members(entities[n]) : n \in DOMAIN entities}
             lost == In(c) \ members
             k == Exact[c]
  <2>1. stage \in Filling
    BY DEF Enriched, Filling
  <2>2. /\ k.style \in {"RPT", "COLLECTION", "LABEL"}
        /\ k.style = "LABEL" => k.field # None /\ Tier1(In(c), k.field)
    BY ClassOfDocuments DEF Exact, In
  <2>3. IsFiniteSet(In(c)) /\ Cardinality(In(c)) \in Nat
    BY FiniteParts DEF AcquisitionInv, Typed, In
  <2>4. ASSUME k.style # "LABEL"
        PROVE  c \in DOMAIN entities /\ entities[c].style = k.style /\ entities[c].collection = c
    <3>1. c \in ClassNames(Exact, c)
      BY <2>4 DEF ClassNames
    <3>2. /\ c \in DOMAIN entities /\ Emitted(Exact, c, entities[c])
          /\ entities[c].collection \in Collection
      BY <2>1, <3>1 DEF AcquisitionInv, HeuristicIsExact, Emits, Typed, IsEntity
    <3>3. entities[c].collection = c
      BY <3>1, <3>2, ClassesAreNamed, EmittedInOne DEF Exact
    <3> QED BY <3>2, <3>3 DEF Emitted
  <2>5. CASE k.style = "RPT"
    BY <2>4, <2>5
  <2>6. CASE k.style = "COLLECTION"
    <3>1. Members(entities[c]) = In(c)
      BY <2>4, <2>6 DEF Members
    <3>2. lost = {}
      BY <2>4, <2>6, <3>1
    <3>3. Cardinality(lost) = 0
      BY <3>2, FS_EmptySet
    <3>4. (CoverDen - CoverNum) * Cardinality(In(c)) \in Nat
      <4>1. CoverDen - CoverNum \in Nat
        BY SamplingBounds
      <4> QED BY <2>3, <4>1
    <3> HIDE DEF lost
    <3>5. Cardinality(lost) * CoverDen <= (CoverDen - CoverNum) * Cardinality(In(c))
      BY <3>3, <3>4, SamplingBounds
    <3> QED BY <3>5 DEF lost
  <2>7. CASE k.style = "LABEL"
    <3> DEFINE with == Present(In(c), k.field)
               without == In(c) \ with
    <3>1. with \in SUBSET In(c) /\ In(c) \cap with = with
      BY DEF Present
    <3>2. \A d \in with : d.values # {} /\ d \in with
      <4>1. \A d \in with : d \in docs /\ d.field = k.field
        BY DEF Present, In, Part
      <4> QED BY <2>2, <2>7, <4>1
    <3>3. with \subseteq members
      <4>1. \A d \in with : \E n \in DOMAIN entities : d \in Members(entities[n])
        BY <2>1, <2>7, <3>2, LabelledIsMember
      <4> QED BY <4>1
    <3>4. Cardinality(with) * CoverDen >= CoverNum * Cardinality(In(c))
      BY <2>2, <2>7 DEF Tier1, Covers
    <3> HIDE DEF with, members
    <3>5. lost \in SUBSET without
      BY <3>3
    <3>6. /\ IsFiniteSet(with) /\ Cardinality(with) \in Nat /\ Cardinality(with) <= Cardinality(In(c))
          /\ IsFiniteSet(without) /\ Cardinality(without) = Cardinality(In(c)) - Cardinality(with)
      <4>1. IsFiniteSet(with) /\ Cardinality(with) <= Cardinality(In(c))
        BY <2>3, <3>1, FS_Subset
      <4>2. Cardinality(with) \in Nat
        BY <4>1, FS_CardinalityType
      <4>3. /\ IsFiniteSet(without)
            /\ Cardinality(without) = Cardinality(In(c)) - Cardinality(In(c) \cap with)
        BY <2>3, FS_Difference
      <4> QED BY <3>1, <4>1, <4>2, <4>3
    <3> HIDE DEF lost, without
    <3>7. Cardinality(lost) \in Nat /\ Cardinality(lost) <= Cardinality(In(c)) - Cardinality(with)
      BY <3>5, <3>6, FS_Subset, FS_CardinalityType
    <3>8. Cardinality(lost) * CoverDen <= (CoverDen - CoverNum) * Cardinality(In(c))
      BY <2>3, <3>4, <3>6, <3>7, LittleIsLeft
    <3> QED BY <3>8 DEF lost, members
  <2> QED BY <2>2, <2>5, <2>6, <2>7
<1> QED BY <1>1, Inductive, PTL
=============================================================================
