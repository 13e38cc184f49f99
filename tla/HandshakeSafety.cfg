CONSTANTS
  ga = ga
  gb = gb
  forged = forged
  Gateways <- MCGateways
  Forged <- forged
  Faults <- AllFaults
  MaxFaults = 3
SPECIFICATION Spec
PROPERTY ImplementsHandshakeFlags
CHECK_DEADLOCK FALSE
