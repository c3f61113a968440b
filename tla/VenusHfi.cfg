SPECIFICATION FairSpec
CONSTANTS
  QueueSize = 5
  MaxPacket = 3
  CommandLengths = {3}
  Sessions = {1, 2}
  Types = {"a"}
  MaxCommands = 2
  MaxMessages = 3
  Deadline = 1
INVARIANTS RingsIntact FirmwareNotified
PROPERTIES MessagesMatched MessagesTaken
CHECK_DEADLOCK FALSE
