CONSTANTS
  Publishers = {p1, p2}
  Subscribers = {s1, s2}
  MaxSockets = 3
  MaxTroubles = 1
  Room = Room
  NoRoom = NoRoom
  NoConn = NoConn
  NoPc = NoPc
SPECIFICATION FairSpec
INVARIANTS
  TypeOK
  AnsweredIsCurrent
  AtMostTwoOffers
  DepartedPublisherIsDropped
  AnnouncedLeaversAreClosed
  PageNeverGivesUp
PROPERTIES
  PictureComesBack
CHECK_DEADLOCK FALSE
