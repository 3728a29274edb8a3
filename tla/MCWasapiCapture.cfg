\* Devices that change and fail while frames are assembled.
CONSTANTS
    NoEndpoint = NoEndpoint
    Endpoints = {speakers, headset, phone}
    SupportedEndpoints = {speakers, headset}
    EndpointBuffer = 5
    FrameSamples = 2
    MaximumAttempts = 2
    Packets <- FewPackets
    MaxPosition = 3
    MaxFaults = 3
    MaxChanges = 2
SPECIFICATION Spec
INVARIANTS TypeOK StreamIsLive RecoveryIsAnnounced
    GapsAreAnnounced SamplesAddUp
