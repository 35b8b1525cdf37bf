\* A host and two clients at the desk and one other device.  Three events in
\* any mix: a claim that crosses a grant, a ping outlived by a second sitting,
\* an entry before the announce, an arrival after a departure.
CONSTANTS
  Clients = {c1, c2}
  Host = h
  Devices = {desk, radar}
  Desk = desk
  None = none
  MaxEvents = 3
SPECIFICATION Spec
INVARIANT TypeOK
INVARIANT ClaimIsAccounted
INVARIANT OneAtADevice
INVARIANT MirrorCatchesUp
INVARIANT HolderIsHere
PROPERTY ClaimIsDecided
\* The players may stop playing.
CHECK_DEADLOCK FALSE
