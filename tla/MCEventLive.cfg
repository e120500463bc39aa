CONSTANTS
  a = a
  b = b
  c = c
  t = t
  e1 = e1
  User = {1, 2}
  Device = {a, b}
  Event = {e1}
  Text = {t}
  Time = {1}
  Owner <- MCOwner
  HostOf <- MCHostOf
  Hash <- MCHash
  Registered0 = {1, 2}
  MaxMsgs = 2
  MaxQueue = 3
  InviteSlots = 2
SPECIFICATION FairSpec
PROPERTIES AcceptedJoins ReceiptComesBack
CONSTRAINT TextsOrEvent
CHECK_DEADLOCK FALSE
