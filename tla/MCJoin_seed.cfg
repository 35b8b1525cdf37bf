\* One row of the host's, in its save, and one of the other peer's, in two
\* parts; three edits, two occupants of the slot.
CONSTANTS
  HostRows = {h1}
  PeerRows = {p1}
  Saves = {{h1}}
  Parts = 2
  MaxEdits = 3
  MaxSeats = 2
SPECIFICATION Spec
INVARIANT TypeOK
INVARIANT InStep
INVARIANT WorldlessHearsNothing
PROPERTY Converges
\* The players may stop editing and stay.
CHECK_DEADLOCK FALSE
