\* Safety of the cache with one application thread, releases and probes.
\* A release racing a probe deadlocks the tick thread (run relprobe), so
\* deadlock is not what this run asks about.
CONSTANTS
    Threads = {t1}
    Addrs = {a1, a2}
    MaxVal = 1
    OpKinds = {"read", "write", "rmw", "release", "releaseAll"}
    MaxOps = 4
    ProbeOps = {"ProbeBlock"}
    ProbeCaps = {"ToN", "ToB"}
    MaxProbes = 2
    MaxOtherWrites = 0
    None = None
SPECIFICATION Spec
CHECK_DEADLOCK FALSE
INVARIANTS TypeOK DataCoherent
