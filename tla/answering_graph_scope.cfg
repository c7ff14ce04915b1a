CONSTANTS
  MaxDepth = 2
  Classes <- MCClasses
  Props <- MCProps
  TenantId = "t1"
  DefaultCollection = "cbc"
  StrictSubjects = FALSE
  IncludeNamed = FALSE
  BnodeLabels = {"m"}
  Queries <- GraphQueries
  Databases <- MCDatabases
SPECIFICATION Spec
INVARIANT GraphScopeKept
CHECK_DEADLOCK FALSE
