\* Fragments that the reassembler refuses.
CONSTANTS
    PacketHeaderSize = 3
    MaximumPayloadSize = 2
    ControlSizes <- TestControlSizes
    MaximumInFlight = 2
    MaximumFramePayload = 3
    ReassemblyTimeout = 1
    SequenceModulus = 4
    QueueCapacity = 2
    SessionTimeout = 2
    CounterModulus = 8
    Datagrams <- AllTraffic
    SentFrames <- AllFrames
    MaxTime = 0
    MaxDatagrams = 3
    CallerResets = FALSE
SPECIFICATION Spec
PROPERTIES RejectedDataIsCounted
