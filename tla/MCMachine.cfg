SPECIFICATION Spec
CONSTANTS
    TableMin = 1
    TableMax = 9
    AddressSpace = 16
    MaxOverrides = 2
    ps2k_pnp_ids = {"PNP0303"}
    AC97 <- MCAC97
    Firmwares <- MCFirmwares
    Pins = {0, 1, 2, 3, 5}
    LocalId = 1
    SleepTicks = 2
    CodecTicks = 2
    Stale = {"key", "55"}
    NUM_BDL_ENTRIES = 4
    AC97_MAX_SAMPLES_PER_ENTRY = 4
    MaxAddr = 1000
    Clips <- MCClips
    MaxPlays = 2
    NUM_PROCESSES = 3
    SIZE = 21
    Sites <- MCSites
    Local = 19
    MaxDepth = 1
    WIDTH = 20
    TIMER_HZ = 4
    NANO = 3
    FREQ = 2
    Delays = {0, 1, 5}
    MaxGap = 2
    UNIT = 2
    HHDM = 16
    KVIRT = 32
    KPHYS = 0
    NFrames = 16
    RamEnd = 12
    HeapEnd = 12
    BootBlocks = 1
    Procs = {p, q}
    KSTACK = 2
    Ranges <- MCRanges
    Remaps <- MCRemaps
    Touched = {1, 8, 18, 19, 28}
    TlbSize = 1
    SPAN = 4
    WORD = 4
    nframes = 10
    Pages386 = 16
    KernelEnd = 0
    EXTRA = 3
    BootRanges <- MCLowRanges
    Window <- MCWindow
    Ranges386 <- MCRanges386
INVARIANTS
    InterruptsTaken
    FirmwareObeyed
    ControllerAnswers
    SoundSupplied
    UnwindsOnOwnStack
    NeverEarly
    MemoryApart
    TlbCoherent
    FramesKept
PROPERTIES
    Completes
    MappingKept
