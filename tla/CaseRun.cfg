SPECIFICATION Spec
CONSTANTS
    Cases <- SmallCases
    HasNamespace = TRUE
INVARIANTS TypeOK NoFalsePass NoFalseFail TeardownRuns ScriptFollowed StatsMatch
