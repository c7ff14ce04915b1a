SPECIFICATION Spec
CONSTANTS
    Request = {r1, r2}
    Kinds = {"platform", "project"}
    LoginTtl = 1
    RefreshAfter = 1
    ReadTimeout = 1
    MaxVersions = 3
    MaxNow = 4
INVARIANTS TypeOK AgreesUnlessRaced MappingIsRecent NotAnalyzedOver
