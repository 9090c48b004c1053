CONSTANTS
  NUM_PROCESSES = 4
  NUM_PRIORITY_LEVELS = 2
SPECIFICATION FairSpec
PROPERTIES
  NoStarvation
  YieldReturns
