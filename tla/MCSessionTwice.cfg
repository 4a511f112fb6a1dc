CONSTANTS
  Publishers = {p1}
  Subscribers = {s1, s2, s3}
  MaxSockets = 4
  MaxTroubles = 2
  Room = Room
  NoRoom = NoRoom
  NoConn = NoConn
  NoPc = NoPc
SPECIFICATION Spec
INVARIANTS
  OneLiveSession
CHECK_DEADLOCK FALSE
