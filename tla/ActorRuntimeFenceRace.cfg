\* A dispatch stands between the check of the status and the actors lock.
SPECIFICATION Spec
CONSTANTS
  a1 = a1
  s1 = s1
  s2 = s2
  Addresses = {a1}
  SessionIds = {s1, s2}
  AddressOf <- OneActor
  MailboxCapacity = 1
  MaxActive = 1
  MaxGen = 3
  Env = {"straddle"}
INVARIANT QuietAfterStop
CHECK_DEADLOCK FALSE
