CONSTANTS
  ga = ga
  gb = gb
  forged = forged
  Gateways <- MCGateways
  Forged <- forged
  Faults <- ForgedRequest
  MaxFaults = 1
SPECIFICATION Spec
INVARIANT KeyAuthentic
CHECK_DEADLOCK FALSE
