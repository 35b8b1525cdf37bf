SPECIFICATION FairSpec
CONSTANTS
  c1 = c1
  c2 = c2
  c3 = c3
  k1 = k1
  k2 = k2
  k3 = k3
  NoConn = NoConn
  Keys = {k1, k2, k3}
  NoKey = NoKey
  Conns = {c1, c2}
  KeyOf <- OwnKeys
  Mismatched = {}
  NumSeats = 2
  MaxMsgs = 2
  MaxKicks = 0
INVARIANTS
  TypeOK
  GenPublishedFirst
  InboxIsOccupants
  EpochIsOccupants
  StateMatchesPeers
PROPERTIES
  RowsConform
