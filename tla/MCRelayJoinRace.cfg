CONSTANTS
  Publishers = {p1, p2}
  Subscribers = {s1}
  Codes = {k1}
  Rooms = {r1, r2}
  ClientVersions = {2}
  MaxFrames = 0
  NoRoom = NoRoom
  NoCode = NoCode
  NoTarget = NoTarget
  Bodies = {b1}
SPECIFICATION Spec
SYMMETRY Symmetry
INVARIANT
  EveryoneIsNotifiedOfJoins
CHECK_DEADLOCK FALSE
