SPECIFICATION Spec
CONSTANTS
  reader = reader
  sender = sender
  endpoint = endpoint
  Swi = Swi
  None = None
  RingSize = 1
  MailboxSize = 1
  MaxSend = 2
  HeapSize = 2
  Endpoint <- MCEndpoint
  Thread <- MCThread
  owner <- MCowner
  sends <- MCsends
INVARIANTS Inv MessagesSeen SenderWoken HostTold InOrder
CHECK_DEADLOCK FALSE
