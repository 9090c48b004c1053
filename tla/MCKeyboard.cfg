CONSTANTS
  RING_BUFFER_SIZE = 3
  KEYBOARD_QUEUE_LEVELS = 2
  Listeners = {p1, p2, p3}
  Preemptive = FALSE
  MayRemove = FALSE
  MaxKeys = 5
  KeyCodes <- MCKeyCodes
  LeftShift = "L"
  RightShift = "R"
  Printable = {"A"}
  MaxWire = 4
  MaxTicks = 0
  TimestampRange = 256
SPECIFICATION KbdSpec
INVARIANTS
  TypeOK
  WholeAndNewer
  OneListenerPerLevel
  InSync
  CaseIsShift
PROPERTIES
  ImplementsFifo
