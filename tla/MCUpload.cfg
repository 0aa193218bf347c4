CONSTANTS
    Packs = {"p", "q"}
    ChunkEnds <- MCChunkEnds
    SectorEnds <- MCSectorEnds
    Checked = {1, 2}
    Failures = {"BUS", "SLOW", "LINE", "POWER"}
    Strays = {"ABORT", "BAD_BEGIN", "END"}
    MaxReplies = 2
SPECIFICATION FairSpec
INVARIANTS ServedWhole AcknowledgedIsStored WorkspaceAccounted
PROPERTY AckArrives
