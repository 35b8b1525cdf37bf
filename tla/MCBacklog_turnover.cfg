SPECIFICATION FairSpec
CONSTANTS
  NumConns = 2
  NumLanes = 2
  BufSize = 3
  Reserve = 1
  PassCap = 1
  ByteCap = 2
  NoProgress = 1
  MaxSends = 4
  MaxKicks = 1
  MaxMoved = 0
CHECK_DEADLOCK FALSE
INVARIANTS
  TypeOK
  StreamInOrder
  VerdictHasQueue
PROPERTIES
  LostByStrangersOnly
  CondemnedByItsOwn
  PrivateChannels
  SentOrClosed
