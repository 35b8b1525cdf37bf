SPECIFICATION Spec
CONSTANTS
  c1 = c1
  c2 = c2
  c3 = c3
  k1 = k1
  k2 = k2
  Conns = {c1, c2, c3}
  NoConn = NoConn
  Keys = {k1, k2}
  NoKey = NoKey
  KeyOf <- RejoinKeys
  Faulty = {c3}
  BandSize = 2
  NumSeats = 2
  Deadline = 1
  FilterInstalled = TRUE
  MaxMail = 1
INVARIANTS
  TypeOK
  SocketOwned
  ExchangeDiesWithEntry
  OneSeatPerIdentity
  SeatedByProof
PROPERTIES
  RejoinNeverRefused
  LobbyRefinement
