SPECIFICATION FairSpec
CONSTANTS
  NumEvents = 2
  Sender = {s1, s2}
  sendEventPollCount = 2
  WaitEvents = {0}
  DisableEvents = {1}
  MaxSends = 2
INVARIANTS DeliveredInOrder Inv
PROPERTIES UpIsServiced
