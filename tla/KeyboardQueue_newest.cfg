CONSTANTS
  RING_BUFFER_SIZE = 3
  KEYBOARD_QUEUE_LEVELS = 1
  Listeners = {p1}
  Preemptive = TRUE
  MayRemove = FALSE
  MaxKeys = 6
SPECIFICATION Spec
INVARIANT NewestIsKept
