SPECIFICATION NotifySpec
CONSTANTS
  NumEvents = 2
  Sender = {s1}
  sendEventPollCount = 2
  WaitEvents = {0}
  DisableEvents = {1}
  MaxSends = 1
  Listener = {l1, l2}
  SingleEvents = {0}
  ManyEvents = {0, 1}
  MaxNesting = 2
  MaxMisses = 1
INVARIANTS IsrFindsCallback NotifyInv
