CONSTANTS
  PVCs <- MCPVCs
  Pods <- MCPods
  StatefulSets <- MCStatefulSets
  TemplatesOf <- MCTemplatesOf
  Ordinal <- MCOrdinal
  NotAnOrdinal = NotAnOrdinal
  MaxReplicas = 2
  Unset = Unset
  Int32Half = 4
ACTION_CONSTRAINT MovesThatMatter
SPECIFICATION Spec
INVARIANTS TypeOK AbandonedClaimIsReported ClaimInUseIsNotReported OnlyLateMountMisleads
PROPERTY ImplementsOrphanScan
