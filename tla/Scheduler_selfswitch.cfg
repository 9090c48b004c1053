CONSTANTS
  NUM_PROCESSES = 4
  NUM_PRIORITY_LEVELS = 3
SPECIFICATION Spec
INVARIANT NeverSwitchesToItself
