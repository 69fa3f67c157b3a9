SPECIFICATION Spec
CONSTANTS
    QueueSize = 2
    MaxTable = 3
    MaxBytes = 5
    Lens = {0, 1, 2}
    MaxAsked = 3
    SectorSize = 2
    SegmentLen = 2
    IdBytes = 2
    DiskBytes = 5
    Wide = 16
    Sectors = {0, 1, 8}
    MaxSegment = 2
    FeatureSets <- MCFeatureSets
    Capacity = 3
    MaxInput = 4
    HeaderSize = 1
    MaxData = 1
    HeaderLens = {0, 1, 2}
INVARIANTS
    ChainBounded
    StreamExact
    DiskExact
    InputInOrder
    PacketFits
