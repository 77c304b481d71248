CONSTANTS
    Puts = {put}
    Gets = {get}
    SEND_CAP = 1
    Size = 2
SPECIFICATION FairTransferSpec
INVARIANTS
    FilesWhole
PROPERTIES
    TransferEnds
\* The transfers have ended.
CHECK_DEADLOCK FALSE
