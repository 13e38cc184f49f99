CONSTANTS
  ga = ga
  gb = gb
  forged = forged
  Gateways <- MCGateways
  Forged <- forged
  Faults <- NoFailure
  MaxFaults = 0
SPECIFICATION Spec
INVARIANT NoHandlerPanic
CHECK_DEADLOCK FALSE
