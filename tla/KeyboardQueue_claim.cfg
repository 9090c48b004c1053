CONSTANTS
  RING_BUFFER_SIZE = 3
  KEYBOARD_QUEUE_LEVELS = 2
  Listeners = {p1, p2}
  Preemptive = TRUE
  MayRemove = FALSE
  MaxKeys = 3
SPECIFICATION Spec
INVARIANT OneListenerPerLevel
