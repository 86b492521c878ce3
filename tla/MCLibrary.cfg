CONSTANTS
    LastCell = 56
    Cell <- ModelCells
    W = 8
    BLOCK = 2
    MAX_LENGTH = 4
    UINT8_MAX = 3
    Scenes <- ModelScenes
    Memories <- ModelMemories
    Worlds <- ModelWorlds
    Address <- ModelAddress
    Hash <- ModelHash
    DiskSize = 6
    MAX_PATHFILENAME = 4
SPECIFICATION Spec
INVARIANT CallsMean
INVARIANT ListsKept
INVARIANT FilesKept
