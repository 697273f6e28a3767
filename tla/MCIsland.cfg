SPECIFICATION Spec
CONSTANTS
    Height = 2
    Widths = {1, 2}
    Span = 2
INVARIANTS
    ShownIsComing
    TransitionsAreDriven
    ContentIsTheModes
    HiddenIsBlank
    BufferInPool
PROPERTY ModeIsPainted
