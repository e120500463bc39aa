CONSTANTS
  a = a
  b = b
  c = c
  t = t
  e1 = e1
  User = {1, 2}
  Device = {a, b, c}
  Event = {e1}
  Text = {}
  Time = {1, 2}
  Owner <- MCOwner3
  HostOf <- MCHostOf
  Hash <- MCHash
  Registered0 = {1, 2}
  MaxMsgs = 2
  MaxQueue = 4
  InviteSlots = 2
SPECIFICATION Spec
INVARIANTS ConsentedMembers
CHECK_DEADLOCK FALSE
CONSTRAINT TwoAnswers
