SPECIFICATION Spec
CONSTANTS
    UINT32_MAX = 15
    Args <- MCArgs
    MaxArgs = 5
    Sections <- MCSections
    CfgFiles <- MCCfgFiles
    SaFiles <- MCSaFiles
    CfgLines <- MCCfgLines
    SaLines <- MCSaLines
    MaxLines = 6
    Fds <- MCFds
    Files <- MCFiles
    Abstracts <- MCAbstracts
INVARIANTS
    TypeOK
    FilesReadAsWritten
    AuthenticatesAsTold
    PlannedIsBuilt
    SocketKeepsItsOwn
CHECK_DEADLOCK FALSE
