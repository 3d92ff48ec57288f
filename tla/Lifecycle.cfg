SPECIFICATION FairSpec
CONSTANTS
    i1 = i1  i2 = i2
    Instance = {i1, i2}
    Socks5 <- FirstOnly
INVARIANTS
    TypeOK
    NoOrphanTable
    OneRuleSet
    RunsWithTable
    QueueServed
PROPERTIES
    StopsAfterSigint
