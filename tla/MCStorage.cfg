CONSTANTS
    Values = {"x", "y"}
    Default = "x"
    SequenceModulus = 4
    Failures = {"BUS", "SLOW", "BOOT_READ", "CHANCE"}
    Capacity = 3
    FrameBytes = 4
    PopLimit = 2
    Stream = 12
SPECIFICATION StorageSpec
INVARIANT NoSplice
PROPERTIES StoresImplement SlotsUntouched WritesEnd
