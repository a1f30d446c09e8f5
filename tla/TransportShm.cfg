SPECIFICATION Spec
CONSTANTS
  dsp = dsp
  arm = arm
  queue1 = queue1
  queue2 = queue2
  reader = reader
  writer = writer
  remote = remote
  m1 = m1
  m2 = m2
  Proc <- MCProc
  Other <- MCOther
  Queue <- MCQueue
  home <- MChome
  Thread <- MCThread
  procOf <- MCprocOf
  reads <- MCreads
  puts <- MCputs
  Msg <- MCMsg
  Priority <- MCPriority
  None = None
SYMMETRY MCSymmetry
INVARIANTS Inv InOrder DoorbellRung ReaderWoken
CHECK_DEADLOCK FALSE
