\* Two clients in turn, on a channel that is reset with the slot and one that is
\* not; their five numbers wrap around at four, and a datagram lives as long as the
\* numbers allow.
CONSTANTS
  Channels = {pose, cursor}
  Kept = {cursor}
  Half = 2
  Life = 2
  MaxSeq = 5
  MaxConns = 2
  MaxStores = 2
SPECIFICATION Spec
INVARIANT TypeOK
INVARIANT HostShowsNewest
INVARIANT WatcherShowsNewest
INVARIANT WatcherBehindHost
INVARIANT NewIffUnread
PROPERTY NewestWins
\* The numbers, the connections and the stores are used up.
CHECK_DEADLOCK FALSE
