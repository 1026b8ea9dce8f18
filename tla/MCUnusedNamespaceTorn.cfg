CONSTANTS
  Namespaces <- MCNamespaces
  excludedNamespaces <- MCExcluded
ACTION_CONSTRAINT MovesThatMatter
CONSTRAINT OwnNamespaceIsQuiet
SPECIFICATION Spec
INVARIANT ReportIsSnapshot
