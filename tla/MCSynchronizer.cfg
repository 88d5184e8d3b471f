\* Frames are cut out of any stream of bits, pushed in any pieces.
SPECIFICATION Spec
CONSTANTS
    ByteBits = 2
    FrameLength = 2
    Flywheel = 1
    Markers <- MCMarkers
    MaxPush = 2
INVARIANTS
    BytesAccounted
PROPERTY
    CutsTheStream
