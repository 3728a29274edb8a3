\* Two activities that may overlap, two test signals of two frames, two
\* failures of AAudio.
CONSTANTS
    Capacity = 2
    FrameParts = 2
    FramesPerBatch = 2
    MaximumStopStateChanges = 2
    MaxBatches = 2
    MaxFaults = 2
    first = first
    second = second
    Instances <- MCInstances
SPECIFICATION AppFairSpec
INVARIANTS
    AppTypeOK
    QueueContract
    StatusIsHonest
    NothingLeftBehind
    HiddenIsSilent
PROPERTIES
    FailureSticks
    HearsFreshAudio
    CallsReturn
    UnheardIsTold
