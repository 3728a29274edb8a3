CONSTANTS
    Capacity = 2
    FrameLength = 2
    CounterModulus = 3
    OfferedSizes <- Sizes
    OfferedFlags <- Flags
    RenderSizes <- Renders
    MaxOffers = 3
SPECIFICATION Spec
INVARIANTS TypeOK NoSlotRace RingHoldsPublished PlaysInOrder ReportsWhatItPlayed CountersAddUp SnapshotNeverUnderstates
PROPERTIES NeverReplays
