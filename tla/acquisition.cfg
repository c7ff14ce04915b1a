SPECIFICATION Spec
CONSTANTS
    Order <- MCOrder
    EdgeOrder <- MCEdgeOrder
    Doc <- MCDoc
    Edge <- MCEdge
    Databases <- MCDatabases
    LegacyTriples = {}
    ClassOf <- MCClassOf
    RdfType = "rdf:type"
    Plain <- MCPlain
    Graphs <- MCGraphs
    SampleSize = 3
    CoverNum = 2
    CoverDen = 3
    MaxChanges = 1
    Quoted <- MCQuoted
INVARIANTS OntologyKeepsMeaning BareInheritsMeaning EndpointsDeclared EndpointsHold FewAreLost ScopeIsClosed
PROPERTIES PinnedStays
CHECK_DEADLOCK FALSE
