CONSTANTS
    Services = {nav, explorer}
    NoService = None
    Priorities = {10}
    Navs = {n1, n2}
    Callers = {c1}
    Targets = {charger}
    Charger = charger
    NoTarget = None
    Nav = nav
    MaxAttempts = 2
    Segments = 1
SPECIFICATION NavFairSpec
INVARIANTS
    NavTypeOK
    QuietMeansAvailable
PROPERTIES
    EveryNavigationEnds
    ImplementsNavService
