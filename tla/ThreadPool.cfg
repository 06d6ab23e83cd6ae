\* Four connections over at most two threads; every task ends.
CONSTANTS
    k1 = k1  k2 = k2  k3 = k3  k4 = k4
    t1 = t1  t2 = t2
    NoTask = NoTask
    Tasks <- FourTasks
    Threads <- TwoThreads
    Lasting <- NoneLasting
SPECIFICATION FairSpec
INVARIANTS TypeOK EachTaskOnce NoLostWakeup
PROPERTIES ImplementsService EveryTaskServed StopReturns
