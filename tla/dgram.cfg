SPECIFICATION Spec
CONSTANTS
    Sender = {s1, s2}
    Base = 2
    MaxFrames = 6
    Window = 3
CHECK_DEADLOCK FALSE
INVARIANTS CounterUnique MaskExact
PROPERTIES FiltersExactly
