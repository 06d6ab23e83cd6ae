\* The same pool when a task may last as long as its client does.
CONSTANTS
    k1 = k1  k2 = k2  k3 = k3  k4 = k4
    t1 = t1  t2 = t2
    NoTask = NoTask
    Tasks <- ThreeTasks
    Threads <- TwoThreads
    Lasting <- AllLasting
SPECIFICATION FairSpec
PROPERTY GrowsOnDemand
