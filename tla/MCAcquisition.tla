--------------------------- MODULE MCAcquisition ---------------------------
(* A small universe of documents, labels, triples and edges for TLC. *)
EXTENDS AcquiredOntology

D(c, key, field, values, array) ==
    [in |-> c, key |-> key, field |-> field, values |-> values, array |-> array, row |-> NoRow]
Row(key, s, p, o) ==
    [in |-> "triples", key |-> key, field |-> None, values |-> {}, array |-> FALSE,
     row |-> [s |-> s, p |-> p, o |-> o]]
E(c, key, from, to, type) == [in |-> c, key |-> key, from |-> from, to |-> to, type |-> type]

MCOrder == <<"persons", "triples", "vertices">>
MCEdgeOrder == <<"links", "owns">>

(* Persons without a discriminator or with arrays of labels, vertices with *)
(* a label, none, or an unusable one, a table of triples.                  *)
MCDoc ==
    { D("persons", 1, None, {}, FALSE), D("persons", 2, "labels", {"Admin"}, TRUE),
      D("persons", 3, "labels", {"Admin"}, TRUE),
      D("vertices", 1, "type", {"City"}, FALSE), D("vertices", 2, "type", {"Shop"}, FALSE),
      D("vertices", 3, "type", {}, FALSE), D("vertices", 4, None, {}, FALSE),
      Row(1, "x", "rdf:type", "Class"), Row(2, "x", "near", "x") }

MCEdge ==
    { E("links", 1, <<"vertices", 1>>, <<"vertices", 2>>, "near"),
      E("links", 2, <<"persons", 1>>, <<"vertices", 1>>, "Shop"),
      E("links", 3, <<"persons", 2>>, <<"triples", 1>>, "near"),
      E("owns", 1, <<"persons", 1>>, <<"vertices", 2>>, None) }

Persons == {{}, {1}, {2, 3}, {1, 2, 3}}
Vertices == {{1, 2}, {1, 4}, {1, 2, 4}, {1, 2, 3}, {1, 2, 3, 4}}
Rows == {{}, {1, 2}}

MCDatabases ==
    {[docs |-> {d \in MCDoc : d.key \in CASE d.in = "persons" -> p [] d.in = "vertices" -> v [] OTHER -> t},
      edges |-> es] : p \in Persons, v \in Vertices, t \in Rows, es \in SUBSET MCEdge}

MCClassOf == [c \in ToSet(MCOrder) |-> "a " \o c]
MCGraphs ==
    { [vertex |-> {"persons", "vertices"}, edges |-> {"owns"}],
      [vertex |-> {"vertices"}, edges |-> {"links"}] }

(* The analyzer's names of collections have a blank, the others are plain. *)
MCPlain ==
    {"Any"} \cup ToSet(MCOrder) \cup ToSet(MCEdgeOrder) \cup UNION {d.values : d \in MCDoc}
    \cup {e.type : e \in MCEdge} \cup {d.row.p : d \in MCDoc} \cup {d.row.o : d \in MCDoc}
MCQuoted ==
    [n \in MCPlain \cup {MCClassOf[c] : c \in ToSet(MCOrder)} |->
        IF n \in MCPlain THEN n
        ELSE "a%20" \o (CHOOSE c \in ToSet(MCOrder) : MCClassOf[c] = n)]
=============================================================================
