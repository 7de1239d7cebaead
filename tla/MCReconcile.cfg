CONSTANTS
    Services = {"a", "b"}
    Repos = {"a", "b"}
    RepoOf <- MCRepoOf
    Providers = {"amqp", "kafka"}
    Vhosts = {"v", "w"}
    None = None
    Environments <- MCEnvironments
    OldBrokers <- MCOldBrokers
    MaxEdits = 1
    MaxLost = 1
    MaxCrashes = 1
    Functions = {"f", "g"}
    MessageBrokers = {"host", "vhost"}
    HostOnly = {"host"}
    Doubted = {"host"}
    Logical = Logical
    Names = {"n", "q", "short", "long", "Event"}
    Phantoms = {"Event"}
    MaxAnalyses = 2
    MaxCuts = 1
    ServiceOf <- MCServiceOf
    LongsOf <- MCLongsOf
    Worlds <- MCWorlds
    Sayings <- MCSayings
SPECIFICATION FairSpecAll
INVARIANTS TypeOK CleanByContract HintsLeaveATrace ChannelTypeOK UsesAreServed OnlyOwnChannels
PROPERTIES BindingsFollowConfiguration RunsSettle
CHECK_DEADLOCK FALSE
