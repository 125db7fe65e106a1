INIT DataInit
NEXT DataNext
CONSTANTS
    Ranges <- MCRanges
    Rounds = 4
    Wrap = 8
    ByteBits = 2
    MaxIds = 7
    HostLines <- MCHostLines
    MaxHostLines = 4
    MaxAnswers = 3
    ResLines <- MCResLines
    MaxResLines = 3
    Clauses <- MCClauses
    MaxClauses = 3
    LegalAddrs = {"a1", "a2"}
    HostDomain <- MCHostDomain
    MaxWords = 6
    MaxServers = 2
    MaxSearch = 2
    LookupSize = 10
    MaxTokens = 5
    HintZones <- MCZones
    HintAddrs <- MCAddrs
    HintPris = {0, 2}
    ServerLists <- MCServerLists
    HintSlots = 2
    MaxInserts = 3
    ByteSet = {0, 44, 37, 255, 43, 65}
    MaxText = 4
    Delims <- MCDelims
    Flags <- MCFlags
    GlobalFlags <- MCGlobalFlags
    CmdDecls <- MCCmdDecls
    MaxDecls = 2
    CmdWords <- MCCmdWords
    MaxCmdWords = 4
    Takers = {b1, b2, b3}
    PoolSize = 1
    BlockCount = 2
    MaxTakes = 4
    SHOULD = 64
    Eaters = {d1, d2}
    Modulus = 16
    BLOCK_SIZE = 2
    IndexSize = 2
    SubBlocks = 3
    MaxItems = 5
    MaxRepaid = 1
    Senders = {q1, q2, q3}
    Hash <- MCHash
    HashSize = 2
    MaxSent = 4
    MaxFailures = 1
    Receivers = {r1, r2}
    MaxProducers = 3
    NonEmptyLimit = 2
    MaxPosted = 2
    MaxTries = 3
INVARIANTS IdsNeverRepeat HostsAgree ServersByPriority
    ConfAsWritten TextSurvives WordsUsedOnce
    OneProducerEach EachItemOnce BlocksHaveOneOwner NothingMissed
CHECK_DEADLOCK FALSE
