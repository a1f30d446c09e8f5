SPECIFICATION Spec
CONSTANTS
  a1 = a1
  a2 = a2
  b = b
  dsp = dsp
  arm = arm
  Thread <- MCThread
  procOf <- MCprocOf
  Addr = {g1, g2, g3, l}
  LocalAddr = {l}
  NumRemote = 2
  NULL = NULL
  AppLocks = TRUE
SYMMETRY Symmetry
INVARIANTS OneLockPerGate ResourcesAccounted Inv
