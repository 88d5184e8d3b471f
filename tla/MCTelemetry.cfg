\* The counts say what was lost, and the log says it without repeating itself.
SPECIFICATION TelemetrySpec
CONSTANTS
    Apids = {a1, a2}
    Containers = {c1}
    SequenceModulus = 4
    GapSummaryInterval = 2
    HealthyRun = 2
    MaxBurst = 2
    FirstCounts = {0, 3}
    MaxPackets = 5
    MaxUnread = 1
SYMMETRY Symmetry
INVARIANTS
    DecoderTypeOK
    DropoutsEnd
    MissingIsWhatWasLost
    LogKeepsUp
