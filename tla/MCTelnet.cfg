CONSTANTS
    Words = {"ls", "quit"}
    QuitWords = {"quit"}
    CRLF = CRLF
    Options = {"echo"}
    MaxTyped = 3
    MaxOffers = 2
    MaxInbox = 2
SPECIFICATION FairSpec
INVARIANTS TypeOK HandedInOrder QuitFlushes
PROPERTIES NegotiationSettles LineServed SessionEnds
CHECK_DEADLOCK FALSE
