\* Every type of datagram, one byte of it damaged.
CONSTANTS
    PacketHeaderSize = 32
    MaximumPayloadSize = 1168
    ControlSizes <- CodecControlSizes
    ErrorMessageMaximumSize = 4
    Offers <- TestOffers
    DamagedBytes <- TestDamage
    MaxDamage = 1
SPECIFICATION Spec
INVARIANTS ReadsWhatWasWritten TextIsUnicode
