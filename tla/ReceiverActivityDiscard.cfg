\* One failure of AAudio is enough.
CONSTANTS
    Capacity = 2
    FrameParts = 2
    FramesPerBatch = 2
    MaximumStopStateChanges = 2
    MaxBatches = 2
    MaxFaults = 1
    first = first
    second = second
    Instances <- MCInstances
SPECIFICATION AppSpec
INVARIANTS StopDiscardsWhenStopped
