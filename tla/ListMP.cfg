SPECIFICATION ListSpec
CONSTANTS
  dsp = dsp
  arm = arm
  e1 = e1
  e2 = e2
  e3 = e3
  Proc <- MCProc
  Elem <- MCElem
  Head_ = head
  CachedLine <- MCCachedLine
  Arm = {arm}
  Speculated = {head}
  NULL = NULL
INVARIANTS ListInv NothingToWriteBack
PROPERTY ImplementsIListMP
