SPECIFICATION NetSpec
CONSTANTS
    MaxSize = 3
    MaxOps = 2
    Socks = {s1, s2}
    NumFds = 3
    MaxTickets = 3
    NumHosts = 2
    MaxQids = 2
    MaxSubmits = 3
    NumNumbers = 4
    MaxDepth = 3
    Attempts = 2
    Search <- MCSearch
    Lookups <- MCLookups
    MaxReferrals = 1
    Lookers = {l1, l2}
    MaxAddrs = 2
    LocalNames = {"", "v4", "v6", "lo", "eth", "no"}
    Literals <- MCLiterals
    IfaceLists <- MCIfaces
    PortLimit = 8
    LocalPorts <- MCPorts
    DictSize = 3
    MaxPtrs = 5
    MaxChunk = 2
    PacketSize = 50
    DataOffset = 84
    FreshOctets = {193}
    Pushes <- MCPushes
    MaxRecords = 4
INVARIANTS
    BytesAccounted
    OwnsWhatItHas
    AnswerIsForQuery
    PollfdUnambiguous
    AnswersItsQuestion
    AddressesHold
    PacketKeepsRecords
PROPERTIES
    ResolverEnds
CHECK_DEADLOCK FALSE
