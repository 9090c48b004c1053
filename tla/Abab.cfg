CONSTANTS
  NUM_PROCESSES = 4
  NUM_PRIORITY_LEVELS = 3
  ABAB_TURNS = 5
  MaxTicks = 3
SPECIFICATION ASpec
INVARIANTS
  LettersInTurn
PROPERTIES
  BothFinish
