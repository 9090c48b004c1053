SPECIFICATION FoundationSpec
CONSTANTS
    Entries <- MCEntries
    Items <- MCItems
    Cap = 2
    MaxSize = 5
    Keys <- MCKeys
    Nodes <- MCNodes
    Elems = 5
    Values <- MCValues
    MaxLen = 4
    Bytes <- MCBytes
    MemSize = 4
    MaxStr = 3
    Numbers <- MCNumbers
    FormatChars <- MCFormatChars
    LogChars <- MCLogChars
INVARIANTS
    ListsHold
    ContainersHold
    FunctionsCompute
CHECK_DEADLOCK FALSE
