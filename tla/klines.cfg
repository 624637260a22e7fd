\* Two requests share a cache that holds fewer bars than they ask for.
SPECIFICATION PartSpec
CONSTANTS
    r1 = r1
    r2 = r2
    Requests = {r1, r2}
    Queries <- MCQueries
    Step = 2
    Offset = 0
    UpstreamLimit = 2
    Capacity = 2
    HistoricalAge = 1
    Delay = 1
    MaxTime = 6
    Templates <- MCTemplates
    Pairs = {1}
    Names = {symbolA, symbolB}
    Scenarios <- MCTemplateCalls
    TemplateMaxTime = 1
    symbolA = symbolA
    symbolB = symbolB
    AnyPair = AnyPair
SYMMETRY RequestSymmetry
INVARIANTS
    ChartsTypeOK
    ServedIsFresh
    ServedIsComplete
PROPERTIES
    LoneCallSettles
    ChosenIsDefault
