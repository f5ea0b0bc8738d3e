\* One Session, opened up to twice, whose own traffic fills the channels.
SPECIFICATION LiveSpec
CONSTANTS
  s1 = s1
  None = None
  Sessions = {s1}
  UpCapacity = 2
  OutCapacity = 1
  InboxCapacity = 1
  MaxOpens = 2
  MaxActions = 2
  MaxEvents = 3
  MaxEnds = 2
INVARIANTS GivenUpIsClosed OpenedIsAnswered EndIsTold
PROPERTIES TrafficInOrder 
CHECK_DEADLOCK FALSE
