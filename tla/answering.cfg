CONSTANTS
  MaxDepth = 2
  Classes <- MCClasses
  Props <- MCProps
  TenantId = "t1"
  DefaultCollection = "cbc"
  StrictSubjects = FALSE
  IncludeNamed = FALSE
  BnodeLabels = {"m"}
  Queries <- MCQueries
  Databases <- MCDatabases
SPECIFICATION Spec
INVARIANTS PlanCompiles RowsAgree OtherTenantsUnseen
CHECK_DEADLOCK FALSE
