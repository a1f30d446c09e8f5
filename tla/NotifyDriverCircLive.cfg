SPECIFICATION CircFairSpec
CONSTANTS
  numMsgs = 8
  Event = {e1}
  None = None
  Sender = {s1}
  MayDisable = FALSE
PROPERTIES EntryTaken RoomAtLast
