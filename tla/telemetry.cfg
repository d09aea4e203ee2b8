SPECIFICATION FairSpec
CONSTANTS
    Devices = {d1, d2}
    MaxSamples = 2
    SensorBatch = 2
    ResultBatch = 2
    BufferSize = 1
    MaxFaults = 1
    MaxCrashes = 2
INVARIANTS
    ShownInOrder
    CountedOnce
    AckedIsKept
PROPERTIES
    DeviceGetsThrough
