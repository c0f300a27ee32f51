CONSTANTS
    Navs = {n1, n2}
    Callers = {l1}
    Stops = 2
SPECIFICATION PatrolSpec
PROPERTY ScansWhereItArrived
