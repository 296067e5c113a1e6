\* Two application threads share one cache, as spec.md §5 allows: both miss
\* on a line, and the second insert_entry overwrites the line the first
\* already wrote.
CONSTANTS
    Threads = {t1, t2}
    Addrs = {a1}
    MaxVal = 1
    OpKinds = {"read", "write", "rmw"}
    MaxOps = 2
    ProbeOps = {"ProbeBlock"}
    ProbeCaps = {"ToN"}
    MaxProbes = 0
    MaxOtherWrites = 0
    None = None
SPECIFICATION Spec
CHECK_DEADLOCK FALSE
INVARIANT DataCoherent
