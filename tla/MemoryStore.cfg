SPECIFICATION Spec
CONSTANTS
    Clients = {c1, c2}
    MemoryIds = {m1, m2}
    FactNames <- MCFacts
    TypeOf <- MCTypeOf
    Words <- MCWords
    Tier <- MCTier
    Precedence <- MCPrecedence
    Evolving = {"favorite"}
    Relationship = "relationship"
    Needs = 70
    Minimum = 0
    DecayPerDay = 30
    MaxDay = 1
    MaxVersion = 2
    MaxHistory = 3
CHECK_DEADLOCK FALSE
INVARIANTS
    HistoryKeepsTheDiary
    EveryMemoryIsExplained
    ConfidenceFitsStatement
    VersionCountsCorrections
