CONSTANTS
    Values = {"x", "y"}
    Default = "x"
    SequenceModulus = 4
    Failures = {"BOOT_READ", "CHANCE"}
SPECIFICATION Spec
INVARIANT SavedIsRestored
