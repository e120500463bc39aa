CONSTANTS
  a = a
  b = b
  c = c
  t = t
  e1 = e1
  User = {0, 1, 2}
  Device = {a, b}
  Event = {e1}
  Text = {}
  Time = {1}
  Owner <- MCOwner
  HostOf <- MCHostOf
  Hash <- MCHash
  Registered0 = {1, 2}
  MaxMsgs = 2
  MaxQueue = 4
  InviteSlots = 2
SPECIFICATION Spec
INVARIANTS TypeOK JoinNeedsReaction InvitersWereInvited UpdatesFindTheirDocument ReactedByAddressee
PROPERTY ImplementsGuestList
CHECK_DEADLOCK FALSE
CONSTRAINT OneToNewcomers
