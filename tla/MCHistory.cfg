CONSTANTS
  RATE_QUERY_FIRST = 7
  HARVEST_QUERY_FIRST = 2
  MAX_POINTS = 2
  MIN_GAP = 2
  BlocksPerDay = 2
  BlockContents <- MCBlocks
  MaxBlocks = 3
  MaxLoads = 2
  MaxFailures = 1
  MaxVisits = 1
SPECIFICATION HistorySpec
INVARIANTS ChartIsHistory
PROPERTIES ChartCatchesUp
CHECK_DEADLOCK FALSE
