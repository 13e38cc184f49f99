CONSTANTS
  ga = ga
  gb = gb
  forged = forged
  Gateways <- MCGateways
  Forged <- forged
  Faults <- RetriedFaults
  MaxFaults = 2
SPECIFICATION FairSpec
PROPERTY BothCompleteUnlessCrashed
CHECK_DEADLOCK FALSE
