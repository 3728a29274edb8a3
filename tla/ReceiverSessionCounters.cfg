\* Every kind of datagram, five at most, with the counters.
CONSTANTS
    PacketHeaderSize = 3
    MaximumPayloadSize = 2
    ControlSizes <- TestControlSizes
    MaximumInFlight = 2
    MaximumFramePayload = 3
    ReassemblyTimeout = 1
    SequenceModulus = 4
    QueueCapacity = 1
    SessionTimeout = 2
    CounterModulus = 8
    Datagrams <- AllTraffic
    SentFrames <- AllFrames
    MaxTime = 3
    MaxDatagrams = 5
    CallerResets = FALSE
SPECIFICATION Spec
INVARIANTS NothingOverstays CompletedFramesAddUp OpenedFramesAddUp
PROPERTIES OnlyAcceptedTrafficKeepsAlive
