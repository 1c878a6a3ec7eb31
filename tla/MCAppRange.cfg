CONSTANTS
    Payloads <- MCPayloads
    Paths = {"far", "near"}
    BareName <- MCBareName
    Contents = {"x", "y"}
    Absent = Absent
    MaxHops = 3
    Orders <- MCOrders
    Servers <- MCServers
    Authorities = {"public", "private"}
    DefaultRoots = {"public"}
    NoFile = NoFile
    Day = 3
    Soon = 2
    Horizon = 8
    Gap = 2
    NoRange = NoRange
    Ranges <- MCRanges
    FtpOptions <- MCFtpOptions
    Lengths = {0, 1, 3}
    UploadSize = 2
    Probes = 4
    Rtts = {0, 1, 3}
    Trees <- MCTrees
    NameWidth = 5
    Kilo = 4
    Targets <- MCTargets
    Registry <- MCRegistry
    Address <- MCAddress
    Answers <- MCAnswers
    BufferSize = 3
    PortJobs <- MCPortJobs
    Pids = {1, 2}
    MaxBirths = 2
    Tables <- MCTables
    ValueFlags = {"-X", "-d", "-o"}
    Switches = {"-k", "-v"}
    Subcommands <- MCSubcommands
    None = None
    PastClis <- MCPastClis
SPECIFICATION AppSpec
INVARIANT RangeRetrieved
CHECK_DEADLOCK FALSE
