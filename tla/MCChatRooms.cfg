CONSTANTS
  a = a
  b = b
  c = c
  t = t
  User = {1, 2}
  Device = {a, b}
  Event = {}
  Text = {t}
  Time = {1, 2}
  Owner <- MCOwner
  HostOf <- MCHostOf
  Hash <- MCHash
  Registered0 = {2}
  MaxMsgs = 2
  MaxQueue = 4
SPECIFICATION ChatSpec
INVARIANTS ChatTypeOK ReadByAddressee RoomHasMessage OneRoomPerPair TickIsTruthful
CHECK_DEADLOCK FALSE
