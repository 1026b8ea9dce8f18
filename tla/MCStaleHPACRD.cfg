CONSTANTS
  HPAs <- MCHPAs
  Refs <- MCRefs
ACTION_CONSTRAINT MovesThatMatter
SPECIFICATION Spec
INVARIANT ReportedTargetWasGone
