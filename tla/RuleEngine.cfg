SPECIFICATION Spec
CONSTANTS
    curl = curl  wget = wget
    h1 = h1  h2 = h2
    Wild = Wild
    NoRule = NoRule
    pcurl = pcurl  phost = phost  pall = pall
    Pattern = {Wild, Empty, pcurl, phost, pall}
    Matched <- MCMatched
    Empty = Empty
    Program = {curl, wget}
    Host = {h1, h2}
    DestPort = {80}
    Caller = {c1, c2}
    RuleId <- MCRuleId
    Submitted <- MCSubmitted
    Modulus = 5
    MaxRules = 3
INVARIANTS
    TypeOK
    UniqueIds
    AddOrder
    MatchIsExpected
    FastPathSound
CHECK_DEADLOCK FALSE
