CONSTANTS
    Unset = Unset
    NoPort = NoPort
    NoProxy = NoProxy
    NoResponse = NoResponse
    Numeric <- MCNumeric
    Urls <- MCUrls
    SchemeOf <- MCSchemeOf
    HostOf <- MCHostOf
    MaxRedirects = 3
    PrintLimit = 2
    Environments <- MCEnvironments
    OptionSets <- MCOptionSets
    Sizes = {0, 1, 2, 3}
SPECIFICATION FairSpec
INVARIANTS TypeOK OutputBelongsToFinal WholeBodyOnSuccess ProgressExact TerminalAllOrNothing RequestsBounded BypassHonoured
PROPERTY OnlyTheBodyStalls
CHECK_DEADLOCK FALSE
