---------------------------- MODULE MCThreadPool ----------------------------
(* Instances of ThreadPool for TLC: more tasks than threads, so that tasks *)
(* queue behind busy workers, and at least two threads, so that a worker   *)
(* can find its task taken by another.                                     *)
EXTENDS ThreadPool

CONSTANTS k1, k2, k3, k4, t1, t2

FourTasks == {k1, k2, k3, k4}
ThreeTasks == {k1, k2, k3}
TwoThreads == {t1, t2}
NoneLasting == {}
AllLasting == ThreeTasks
=============================================================================
