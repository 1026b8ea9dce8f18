CONSTANTS
  Deployments <- MCDeployments
  HPAs <- MCHPAs
  ScaledHPAs <- MCScaledHPAs
  Refs <- MCRefs
SPECIFICATION MCSpec
INVARIANTS EveryTypeOK IdleDeploymentIsReported ManagedDeploymentIsNotReported
           DanglingHPAIsReported ReportedTargetWasGone
PROPERTY ImplementsOrphanScan
