\* A release of a line the manager is probing: does every call return?
CONSTANTS
    Threads = {t1}
    Addrs = {a1}
    MaxVal = 1
    OpKinds = {"write", "release", "releaseAll"}
    MaxOps = 2
    ProbeOps = {"ProbeBlock"}
    ProbeCaps = {"ToN"}
    MaxProbes = 1
    MaxOtherWrites = 0
    None = None
SPECIFICATION FairSpec
CHECK_DEADLOCK FALSE
PROPERTY OpsComplete
