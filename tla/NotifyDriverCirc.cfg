SPECIFICATION CircSpec
CONSTANTS
  numMsgs = 4
  Event = {e1, e2}
  None = None
  Sender = {s1}
  MayDisable = TRUE
SYMMETRY Events
INVARIANTS CircInv
PROPERTIES NoOverrun ImplementsFifo
