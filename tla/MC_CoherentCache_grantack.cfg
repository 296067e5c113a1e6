\* perform() sends the GrantAck before the cache installs the Grant; a
\* probe in between is answered from the old entry, and another client's
\* write then leaves the host reading stale data.
CONSTANTS
    Threads = {t1}
    Addrs = {a1}
    MaxVal = 1
    OpKinds = {"read", "write", "rmw", "release"}
    MaxOps = 4
    ProbeOps = {"ProbeBlock"}
    ProbeCaps = {"ToN", "ToB"}
    MaxProbes = 2
    MaxOtherWrites = 1
    None = None
SPECIFICATION Spec
CHECK_DEADLOCK FALSE
INVARIANT DataCoherent
