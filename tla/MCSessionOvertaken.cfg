CONSTANTS
  Publishers = {p1, p2}
  Subscribers = {s1}
  MaxSockets = 3
  MaxTroubles = 1
  Room = Room
  NoRoom = NoRoom
  NoConn = NoConn
  NoPc = NoPc
SPECIFICATION FairSpec
PROPERTIES
  SelfHeals
CHECK_DEADLOCK FALSE
