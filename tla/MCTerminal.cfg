SPECIFICATION Spec
CONSTANTS
    A = A
    B = B
    Printers = {A, B}
    Program <- MCProgram
    log_level = "INFO"
    TxFifo = 2
    max_cols = 3
    cell_h = 2
    screen_h = 5
    TypedKeys <- MCTypedKeys
    BufferSize = 5
    MaxKeys = 9
    COMMAND_NAME_LEN = 3
    MAX_ARGS = 2
    ARG_LEN = 3
    MAX_COMMANDS = 3
    AddrBits = 16
    Letters = {"a", "b"}
    MaxLine = 6
    Names <- MCNames
    HexChars = {"0", "x", "1", "f", " "}
    MaxHex = 5
    MAZE_WIDTH = 4
    MAZE_HEIGHT = 3
    DISPLAY_WIDTH = 8
    DISPLAY_HEIGHT = 7
    MaxCommands = 3
    EllerSize = 3
    MaxGenerated = 2
    VGA_WIDTH = 3
    VGA_HEIGHT = 2
    Chars <- MCChars
    Decimals = {0, 10, 207}
    MaxText = 7
    screen_width = 60
    screen_height = 40
    PADDLE_WIDTH = 4
    PADDLE_HEIGHT = 16
    BALL_RADIUS = 6
    PLAYER_SPEED = 1000
    EVENT_DEBOUNCE_TICKS = 10
    PONG_FRAME_MS = 16
    PONG_WIN_SCORE = 1
    TickBits = 9
    StartTicks = 450
    PastEvent = 400
    PastRows = {30}
    Serves <- MCServes
    KeySets <- MCKeySets
    Frames = {16, 40}
    Lags = {0, 12}
    MaxFrames = 5
INVARIANTS
    LogIsText
    EchoIsLine
    ShellsObey
    MazesRight
    TerminalsShowText
    PongInside
PROPERTIES
    PointPerServe
CHECK_DEADLOCK FALSE
