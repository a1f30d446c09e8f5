SPECIFICATION Spec
CONSTANTS
  a = a
  b1 = b1
  b2 = b2
  dsp = dsp
  arm = arm
  Proc <- MCProc
  Thread <- MCThread
  procOf <- MCprocOf
  Name = {n1, n2}
  KeyNames = {n1}
  Value = {v1}
  numDynamic = 1
  NULL = NULL
  Writer = {b1, b2}
  Getter = {a, b1, b2}
  MaxTimeouts <- MCMaxTimeouts
INVARIANTS Inv AnswerInWindow ReplyUnderWay
