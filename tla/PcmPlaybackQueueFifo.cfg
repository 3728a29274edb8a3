\* Refinement of the bounded FIFO and progress, without the counters.
CONSTANTS
    Capacity = 2
    FrameLength = 2
    CounterModulus = 1
    OfferedSizes <- WholeFrame
    OfferedFlags <- PlainFlags
    RenderSizes <- Renders
    MaxOffers = 3
SPECIFICATION FairSpec
PROPERTIES ImplementsFifo EveryFrameLeaves
