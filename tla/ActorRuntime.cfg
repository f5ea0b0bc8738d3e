\* Two Sessions of one Actor, through three generations of it, under the fairness of tasks and timers.
SPECIFICATION LiveSpec
CONSTANTS
  a1 = a1
  s1 = s1
  s2 = s2
  Addresses = {a1}
  SessionIds = {s1, s2}
  AddressOf <- OneActor
  MailboxCapacity = 1
  MaxActive = 1
  MaxGen = 3
  Env = {}
INVARIANTS
   OpenSessionHasActor PassivationLosesNothing QuietAfterStop
  WithinCapacity
PROPERTIES
  OpenIsAnswered StopsEnd PermitComesBack
CHECK_DEADLOCK FALSE
