SPECIFICATION FairSpec
CONSTANTS
  a1 = a1
  a2 = a2
  b = b
  c = c
  NumProcs = 3
  Thread <- MCThread
  selfId <- MCselfId
  NoThread = NoThread
  MaxNested = 2
INVARIANT Inv
PROPERTIES EntersEventually ImplementsGate
