CONSTANTS
  PVCs <- MCPVCs
  Pods <- MCPods
  StatefulSets = {}
  TemplatesOf <- MCTemplatesOf
  Ordinal <- MCOrdinal
  NotAnOrdinal = NotAnOrdinal
  MaxReplicas = 0
  Unset = Unset
  Int32Half = 2
  PVs = {v1}
  NoClaim = NoClaim
  OldClaim = OldClaim
  AnyNamespace = AnyNamespace
  MaxTime = 1
  Inputs <- MCInputs
CONSTRAINT SecondScanMatters
ACTION_CONSTRAINTS ClusterMatters ReadThenReport
VIEW WhatMatters
SPECIFICATION ActionSpec
INVARIANTS ActionTypeOK IdleVolumeIsBilledOnce QuietScansAgree GreenGateHidesOnlySkips
