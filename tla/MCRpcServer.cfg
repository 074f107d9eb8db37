CONSTANTS
  Blocks <- MCBlocks
  MaxHeight = 4
  MaxStops = 2
  c1 = c1
  c2 = c2
  Conns = {c1, c2}
  Plans <- MCPlans
SPECIFICATION MCSpec
CHECK_DEADLOCK FALSE
INVARIANTS
  NoGap
  IndexMatchesList
  NotifiedOnce
PROPERTIES
  IndexCatchesUp
  PeerDropped
