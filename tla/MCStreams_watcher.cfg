\* Two clients in turn, seen by another client; no number wraps around.
CONSTANTS
  Channels = {pose}
  Kept = {}
  Half = 4
  Life = 2
  MaxSeq = 4
  MaxConns = 2
  MaxStores = 5
SPECIFICATION Spec
INVARIANT NewcomerShownByWatcher
\* The numbers, the connections and the stores are used up.
CHECK_DEADLOCK FALSE
