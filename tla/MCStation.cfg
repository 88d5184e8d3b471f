CONSTANTS
    Bits = 3
    Polynomial = 11
    DualBasis <- Basis
    RootSpacing = 3
    InverseRootSpacing = 5
    CodecParity = {2, 4}
    InterleaveDepths = {1, 2}
    Taps = {1, 2}
    PRIMARY_HEADER_BYTES = 1
    OCF_BYTES = 1
    FECF_BYTES = 1
    TM_VERSION = 0
    ONLY_IDLE_DATA = 8
    NO_PACKET_START = 9
    Vcids = {0, 1}
    HeaderOf <- OneOfEach
    CspVersions = {"v1", "v2"}
    HeaderBytes <- Widths
    FlagsOf <- FlagSymbols
    None = None
    Given = Given
    Blank = Blank
    SPACE_PACKET_HEADER_BYTES = 6
    ACCEPTED_PARITY = {2, 4}
    ACCEPTED_INTERLEAVE = {1, 2}
    DEFAULT_INTERLEAVE = 1
    DEFAULT_HISTORY_DEPTH = 4
    EXPORT_HISTORY_DEPTH = 1
    DEFAULT_EVENT_CAPACITY = 2
    MAX_TIME_BYTES = 8
    CommandLines <- StationLines
    SentHeaders = {0, 2, 3}
    Fills = {1}
    Payloads <- SentPayloads
    Strays <- StrayMessages
    Noise <- NoiseInTurn
    MaxStrikes = 3
    MaxArrivals = 2
    NANOS_PER_SECOND = 16
    NANOS_PER_MILLI = 8
    SECONDS_PER_DAY = 3
    OctetValues = 4
    NANOS_PER_MICRO = 2
    PicosPerNano = 2
    CDS_MILLISECONDS_BYTES = 4
    MinUtc <- Earliest
    MaxUtc = 1300000
    EpochOf <- Epochs
    Exports <- MCExports
    WriterRows = 2
    ChunkSizes = {1, 5, 11}
    SEQUENCE_MODULUS = 4
    Apids = {"A1", "A2"}
    Probes <- MCProbes
    SYNC_MARKER <- Marker
    CCSDS_INTERLEAVE = {1, 2}
    FollowedLines <- Followed
    LIVE_WINDOW = 1
    QUIET_WINDOW = 2
    RATE_WINDOW = 3
    RATE_SAMPLE = 2
    RATE_SAMPLES = 3
    MaxTime = 5
    MaxChunks = 1
    SetBack = {2}
    NaN = NaN
    Refusal = Refusal
    NamesInOrder <- InOrder
    TableSetups <- Tables
    MantissaBits = 7
    Series <- Histories
    Budgets = {0, 2, 3, 4, 13}
    Ratios = {0, 1, 2}
    Tolerances = {0, 1, 2}
SPECIFICATION StationSpec
INVARIANTS
    RepairIsExact
    BoundedDistance
    FramesAccounted
    ConfigurationWorks
    PayloadIsSent
    ExportIsTheRecording
    ProbeFinds
    BarIsRecent
    ScreenIsFaithful
CHECK_DEADLOCK FALSE
