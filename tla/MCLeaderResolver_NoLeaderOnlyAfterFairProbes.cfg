CONSTANTS
    Nodes = {n1, n2}
    BaseURL = base
    Callers = {c1, c2}
    Ctor = ctor
    None = none
    Torn = torn
    MaxEndpoints = 2
    Deadline <- MCDeadline
    ProbeLatencies <- MCProbeLatencies
    EndpointLists <- MCEndpointLists
SPECIFICATION Spec
SYMMETRY MCSymmetry
INVARIANTS

    NoLeaderOnlyAfterFairProbes
