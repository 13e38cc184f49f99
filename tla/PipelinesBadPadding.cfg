CONSTANTS
  r1 = r1  r2 = r2  listener = listener
  b1 = b1  b2 = b2  b3 = b3  b4 = b4  e1 = e1  e2 = e2
  Readers <- MCReaders
  Listener <- listener
  PoolBuffers <- MCPoolBuffers
  ReaderBuffers <- MCReaderBuffers
  ChanLength = 2
  BlockSize = 16
  Payloads <- MCPayloads
  ForgedLens <- MCForgedLens
  None = None
  ForgedLast <- OutOfRangeLast
SPECIFICATION Spec
SYMMETRY PoolSymmetry
INVARIANT NoReaderPanic
