CONSTANTS
    Frequencies = 2
    Ladder = 2
    Samples = 2
    MaxCaptures = 3
SPECIFICATION FairSpec
INVARIANTS WorkspaceReturned
