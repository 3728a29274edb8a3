\* Packets of every kind from one client, stopped and started anywhere.
CONSTANTS
    NoEndpoint = NoEndpoint
    Endpoints = {speakers}
    SupportedEndpoints = {speakers}
    EndpointBuffer = 5
    FrameSamples = 2
    MaximumAttempts = 3
    Packets <- AllPackets
    MaxPosition = 7
    MaxFaults = 0
    MaxChanges = 0
SPECIFICATION Spec
INVARIANTS FramesAreWhole
