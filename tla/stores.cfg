CONSTANTS
    Catalogue <- MCCatalogue
    Builtin = {"clock"}
    ReservedCommands = {"help"}
    Stray <- MCStray
    RequireSignature = FALSE
    CommunityRing0 = FALSE
    None = None
    Blocks <- MCBlocks
    Pos = {1, 2}
    Data = {"x"}
    Ids = {2, 3}
    MaxOps = 5
    MaxLeaks = 1
    Inos = {1, 2}
    WINDOW = 2
    MAX_DIRTY = 3
    Writes <- MCWrites
    MaxSize = 3
    MaxFileOps = 5
SPECIFICATION MCSpec
INVARIANTS DbCheck NeedsMet DiskMatches EveryPlanExecutable RefsExact FilesTrue
PROPERTIES Isolation
