\* A discontinuity that arrives after a later frame.
CONSTANTS
    PacketHeaderSize = 3
    MaximumPayloadSize = 2
    ControlSizes <- TestControlSizes
    MaximumInFlight = 2
    MaximumFramePayload = 3
    ReassemblyTimeout = 1
    SequenceModulus = 4
    QueueCapacity = 2
    SessionTimeout = 2
    CounterModulus = 8
    Datagrams <- ReorderedTraffic
    SentFrames <- Reordered
    MaxTime = 1
    MaxDatagrams = 4
    CallerResets = FALSE
SPECIFICATION Spec
PROPERTIES DiscontinuityClearsOnlyOlder
