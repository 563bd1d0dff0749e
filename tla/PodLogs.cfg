SPECIFICATION Spec
CONSTANTS
    Pods = {p1, p2}
    TailLines = 2
    Policies = {"any", "all", "none"}
    Targets = {"named", "selector"}
    Faults = TRUE
INVARIANTS TypeOK MatchSeen AbsenceWatched
PROPERTY Returns
