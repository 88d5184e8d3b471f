\* What arrives is recorded, marked where it restarts, and told once.
SPECIFICATION AcquisitionSpec
CONSTANTS
    Specs <- MCSpecs
    MaxRead = 2
    MaxStreams = 3
    Reasons = {"locked", "lost", "checksum", "packet loss"}
    Worded = {"gap"}
    EventCapacity = 2
    RecordBuffer = 2
    Existing <- MCExisting
    ReadErrorLimit = 2
    LogCapacity = 2
    Verbose = FALSE
    Setups <- MCSetups
INVARIANTS
    RecordingIsTheStream
    LinesAreCounted
    PrinterMissesNone
CHECK_DEADLOCK FALSE
