CONSTANTS
  RING_BUFFER_SIZE = 3
  KEYBOARD_QUEUE_LEVELS = 1
  Listeners = {p1}
  Preemptive = TRUE
  MayRemove = TRUE
  MaxKeys = 8
SPECIFICATION FairSpec
INVARIANT NeverBackwards
PROPERTY WaitingKeyIsRead
