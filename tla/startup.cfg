SPECIFICATION Spec
CONSTANTS
    Floor = 1
    Cap = 2
    HeaderLen = 1
    TagLen = 1
    QueueLen = 1
    InFlight = 2
    Single = {k1, k2}
    Switch = {b1}
    Repeat = {a1}
    Value = {v1, v2}
    Unknown = unknown
    None = None
    MaxArgs = 2
    MaxOptions = 4
    LastYear = 9999
    SecondEdge = {0, 1, 15, 16, 17, 18, 19, 20, 31, 32, 50, 51, 52, 63, 64, 127, 128, 167, 168, 169, 253, 254, 255}
    ThirdEdge = {0, 1, 2, 3, 99, 100, 101, 112, 113, 114}
    SegmentEdge = {0, 1, 15, 16, 47, 48, 100, 255, 256, 257, 3512, 8193, 8194, 64511, 64512, 65023, 65024, 65151, 65152, 65215, 65216, 65279, 65280, 65435, 65535}
INVARIANTS FramesAccepted OversizeHarmless MergeExact DateExact 
CHECK_DEADLOCK FALSE
