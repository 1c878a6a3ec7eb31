CONSTANTS
    Unset = Unset
    NoPort = NoPort
    NoProxy = NoProxy
    NoResponse = NoResponse
    Numeric <- MCNumeric
    Urls <- MCUrls
    SchemeOf <- MCSchemeOf
    HostOf <- MCHostOf
    MaxRedirects = 3
    PrintLimit = 2
    Environments <- MCEnvironments
    OptionSets <- PlainOnly
    Sizes = {0, 1}
SPECIFICATION Spec
INVARIANT ExceededAfterMaximum
CHECK_DEADLOCK FALSE
