\* A range that ended a moment ago is declared immutable while its bar forms.
SPECIFICATION Spec
CONSTANTS
    r1 = r1
    r2 = r2
    Requests = {r1}
    Queries <- MCOneQuery
    Step = 4
    Offset = 0
    UpstreamLimit = 2
    Capacity = 2
    HistoricalAge = 1
    Delay = 0
    MaxTime = 4
INVARIANTS
    ImmutableIsClosed
