\* Progress of reads, writes and rmw against a probing manager, under the
\* fairness of the tick, receive and manager loops.
CONSTANTS
    Threads = {t1}
    Addrs = {a1}
    MaxVal = 1
    OpKinds = {"read", "write", "rmw"}
    MaxOps = 4
    ProbeOps = {"ProbeBlock", "ProbePerm"}
    ProbeCaps = {"ToN", "ToB"}
    MaxProbes = 3
    MaxOtherWrites = 1
    None = None
SPECIFICATION FairSpec
PROPERTIES OpsComplete ProbeAnswered
