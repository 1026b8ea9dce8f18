CONSTANTS
  Namespaces <- MCNamespaces
  excludedNamespaces <- MCExcluded
ACTION_CONSTRAINT MovesThatMatter
CONSTRAINT OwnNamespaceIsQuiet
SPECIFICATION Spec
INVARIANTS TypeOK EmptyNamespaceIsReported OnlyLateWorkloadMisleads
PROPERTY ImplementsOrphanScan
