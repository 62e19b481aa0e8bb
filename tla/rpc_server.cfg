SPECIFICATION FairSpec
CONSTANTS
    Links = {l1}
    Calls = {h1}
    Configs <- MCConfigs
    MaxLines = 2
    NumShards = 2
    PoolSize = 1
INVARIANT TypeOK
INVARIANT AnswersInOrder
INVARIANT NothingLost
PROPERTY AllPublished
PROPERTY LoanEnds
PROPERTY HandshakeEnds
