CONSTANTS
  Publishers = {p1}
  Subscribers = {s1}
  Codes = {k1, k2}
  Rooms = {r1, r2}
  ClientVersions = {2}
  MaxFrames = 2
  NoRoom = NoRoom
  NoCode = NoCode
  NoTarget = NoTarget
  Bodies = {b1}
SPECIFICATION FairSpec
INVARIANTS
  SilentAfterLeft
  SignalsStayInRoom
PROPERTIES
  ImplementsSignalling
  EmptyRoomsAreCollected
CHECK_DEADLOCK FALSE
