\* One row of the host's, one edit, one joiner.
CONSTANTS
  HostRows = {h1}
  PeerRows = {}
  Saves = {{}}
  Parts = 2
  MaxEdits = 1
  MaxSeats = 1
SPECIFICATION Spec
INVARIANT NeverTwice
CHECK_DEADLOCK FALSE
