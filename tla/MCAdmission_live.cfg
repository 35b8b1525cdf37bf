SPECIFICATION FairSpec
CONSTANTS
  c1 = c1
  c2 = c2
  c3 = c3
  k1 = k1
  k2 = k2
  Conns = {c1, c2, c3}
  NoConn = NoConn
  Keys = {k1, k2}
  NoKey = NoKey
  KeyOf <- RejoinKeys
  Faulty = {}
  BandSize = 1
  NumSeats = 1
  Deadline = 1
  FilterInstalled = FALSE
  MaxMail = 1
PROPERTIES
  BandDrains
