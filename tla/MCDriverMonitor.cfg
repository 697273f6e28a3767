SPECIFICATION Spec
CONSTANT Numbers = {3, 4}
INVARIANTS
    ClosesOnlyItsOwn
    ReadsItsOwn
    NothingLeaks
PROPERTIES
    ReportsAreRead
    StopIsNoticed
