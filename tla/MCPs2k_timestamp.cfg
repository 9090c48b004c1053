SPECIFICATION Spec
CONSTANTS
  Keys <- FewKeys
  LeftShift = "L"
  RightShift = "R"
  Printable = {"A"}
  MaxWire = 1
  MaxTicks = 5
  TimestampRange = 8
INVARIANT TimestampIsUptime
