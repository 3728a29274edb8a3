\* Any traffic of audio and stream changes, without the counters.
CONSTANTS
    PacketHeaderSize = 3
    MaximumPayloadSize = 2
    ControlSizes <- TestControlSizes
    MaximumInFlight = 2
    MaximumFramePayload = 3
    ReassemblyTimeout = 1
    SequenceModulus = 4
    QueueCapacity = 2
    SessionTimeout = 2
    CounterModulus = 1
    Datagrams <- AudioTraffic
    SentFrames <- AudioFrames
    MaxTime = 2
    MaxDatagrams = 1
    CallerResets = TRUE
SPECIFICATION Spec
INVARIANTS TypeOK IdleIsClean SlotsAreIncompleteFrames SlotsHoldWhatArrived QueueHoldsWhatArrived
PROPERTIES ImplementsContract
