SPECIFICATION Spec
CONSTANTS
  c1 = c1
  c2 = c2
  c3 = c3
  k1 = k1
  k2 = k2
  k3 = k3
  NoConn = NoConn
  Keys = {k1, k2, k3}
  NoKey = NoKey
  Conns = {c1, c2}
  KeyOf <- OwnKeys
  Mismatched = {}
  NumSeats = 1
  MaxMsgs = 1
  MaxKicks = 1
INVARIANTS
  GenPublishedFirst
