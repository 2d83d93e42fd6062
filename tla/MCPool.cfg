CONSTANTS
    N = 2
    QueueCapacity = 3
    Calls = {c1, c2}
    Stoppers = {s1, s2}
    Probes = {p1}
    c1 = c1
    c2 = c2
    s1 = s1
    s2 = s2
    p1 = p1
SPECIFICATION Spec
INVARIANTS
    PendingCountsCalls
    
    ReadinessIsNotStale
    ShutdownNeverStuck
SYMMETRY Alike
