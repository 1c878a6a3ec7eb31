CONSTANTS
    c1 = c1
    c2 = c2
    c3 = c3
    Procs = {p1, p2}
    Commands <- MCCommands
    Replay <- MCReplay
    Bytes <- MCBytes
    Rejected = Rejected
    NoCommand = NoCommand
    Faults = {"open"}
    Serial = TRUE
SPECIFICATION FairSpec
PROPERTIES ImplementsRecentList SaveNeverBlocks
