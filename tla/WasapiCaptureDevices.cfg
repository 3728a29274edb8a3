\* The default device moves and calls fail, while the caller keeps polling.
CONSTANTS
    NoEndpoint = NoEndpoint
    Endpoints = {speakers, headset, phone}
    SupportedEndpoints = {speakers, headset}
    EndpointBuffer = 5
    FrameSamples = 2
    MaximumAttempts = 3
    Packets <- OnePacket
    MaxPosition = 1
    MaxFaults = 4
    MaxChanges = 2
SPECIFICATION FairSpec
INVARIANTS NoChangeIsMissed RestartsAddUp
PROPERTIES CatchesUp
