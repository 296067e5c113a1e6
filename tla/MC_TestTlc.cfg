CONSTANTS
    c = c
    f1 = f1
    Nodes = {c, f1}
    Coordinator = c
    NumLines = 2
    Iters = 2
    Width = 3
    InitCmp = {FALSE}
    InitLine = {0}
    DebugBuild = FALSE
SPECIFICATION FairSpec
PROPERTY AllThreadsFinish
