CONSTANTS
  NUM_PROCESSES = 4
  NUM_PRIORITY_LEVELS = 3
SPECIFICATION Spec
INVARIANTS
  TypeOK
  NoneLost
  QueuedIsResumable
  NoSelfDeadlock
  SchedulerCanResume
  ScanFindsSomeone
PROPERTIES
  ImplementsMLFQ
