SPECIFICATION FairSpec
CONSTANTS
    r1 = r1
    r2 = r2
    NoRule = NoRule
    Nobody = Nobody
    Callers = {"c1", "c2"}
    Keys = {"disk", "heat"}
    Severities = {2, 3}
    Suppressed <- MCSuppressed
    Rules = {r1, r2}
    RuleMatches <- MCRuleMatches
    RuleActions <- MCRuleActions
    InitialRules <- MCInitialRules
    MaxHistory = 1
    Evicted = 1
    MaxCalls = 2
    MaxLevel = 1
    MaxRules = 2
CHECK_DEADLOCK FALSE
INVARIANT TypeOK
INVARIANT OneOpenPerKey
INVARIANT BooksAgree
PROPERTY DecisionsStand
PROPERTY CreateEnds
