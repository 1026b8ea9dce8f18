CONSTANTS
  Services <- MCServices
  ServiceStates <- MCServiceStates
  Slices <- MCSlices
  Endpoints <- MCEndpoints
  Unlabelled = Unlabelled
  Ingresses <- MCIngresses
  IngressStates <- MCIngressStates
  NoBackend = NoBackend
ACTION_CONSTRAINT OneScanAtATime
SPECIFICATION MCSpec
INVARIANTS EveryTypeOK DeadIngressIsReported StandingRouteIsNotReported OnlyHandoverMisleads
PROPERTY ImplementsOrphanScan
