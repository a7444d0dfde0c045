SPECIFICATION FairSpec
CONSTANTS
    Commands <- MCCommands
    MaxCommands = 2
    MaxInbox = 1
    MaxNoise = 1
    Wait = 1
    Auths <- MCAuths
INVARIANTS
    TypeOK
    ShownIsAccepted
    BuildReadsOwnTlv
PROPERTY WaitEnds
CHECK_DEADLOCK FALSE
