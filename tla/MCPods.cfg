CONSTANTS
  ConfigMaps <- MCConfigMaps
  ConfigMapStates <- MCConfigMapStates
  Secrets <- MCSecrets
  SecretStates <- MCSecretStates
  Pods <- MCPodSet
  Jobs = {j1}
  BackoffLimit = 2
  MaxPods = 2
ACTION_CONSTRAINT OwnConfigMapIsQuiet
SPECIFICATION MCSpec
INVARIANTS EveryTypeOK EndedJobIsReported OnlyRetryingJobIsReportedEarly
PROPERTY ImplementsOrphanScan
