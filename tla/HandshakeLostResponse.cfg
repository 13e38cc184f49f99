CONSTANTS
  ga = ga
  gb = gb
  forged = forged
  Gateways <- MCGateways
  Forged <- forged
  Faults <- LostResponse
  MaxFaults = 1
SPECIFICATION FairSpec
PROPERTY BothCompleteUnlessCrashed
CHECK_DEADLOCK FALSE
