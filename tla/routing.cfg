SPECIFICATION Spec
CONSTANTS
    Routes <- MCRoutes
    MaxRoutes = 3
    Asks <- MCAsks
    MaxDigits = 2
    MaxPairs = 2
INVARIANTS
    RoutedToFirstMatch
    ThrowsOnlyIfUnfit
    RefusalTellsWhy
    RedirectLeads
    ParametersAsMeant
CHECK_DEADLOCK FALSE
