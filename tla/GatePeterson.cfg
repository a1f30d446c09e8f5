SPECIFICATION FairSpec
CONSTANTS
  Thread0 = {a1, a2}
  Thread1 = {b1, b2}
  NoThread = NoThread
  MaxNested = 2
INVARIANTS MutualExclusion IInv
PROPERTIES EntersEventually ImplementsGate
