-------------------------- MODULE ThreadPoolProofs --------------------------
(***************************************************************************)
(* For any number of tasks and of threads: the pool's type correctness,    *)
(* that a task is never lost or served twice, that no wake-up is lost, and *)
(* that the threads together do what one queue would (TaskService): tasks  *)
(* are begun in their turn and stop() returns when all have ended.         *)
(***************************************************************************)
EXTENDS ThreadPool, SequenceTheorems, FiniteSetTheorems, TLAPS

(***************************************************************************)
(* The inductive invariant.  The service needs to know why a worker        *)
(* leaves and that queued work has workers at all, which in turn rests on  *)
(* mIdle being the number of workers inside mCv.wait: post() creates no    *)
(* thread when mIdle # 0, and is right not to only if someone is idle.     *)
(***************************************************************************)
Idle == {t \in Threads : worker[t] \in {"waiting", "woken"}}
IdleCounted == mIdle = Cardinality(Idle)

(* A running worker holds a task. *)
Holding == \A t \in Threads : worker[t] = "running" => task[t] \in Tasks

(* Only stop() makes a worker leave, and only from an empty queue. *)
LeftDrained ==
    \A t \in Threads : worker[t] = "exited" => mStopping /\ mQueue = <<>>

(* Queued work has a thread that can serve it. *)
Manned == mQueue # <<>> => mThreads # {}

(* Where main() is says whether the pool is stopping, and stop() returns   *)
(* only when every thread has.                                             *)
Phases ==
    /\ mStopping <=> main \in {"stopping", "joining", "stopped"}
    /\ main = "stopped" => \A t \in mThreads : worker[t] = "exited"

PoolInv == IdleCounted /\ Holding /\ LeftDrained /\ Manned /\ Phases
-----------------------------------------------------------------------------
(***************************************************************************)
(* Lemmas about the queue and the set of idle workers.                     *)
(***************************************************************************)

(* Appending adds one element, and a new one leaves the queue injective. *)
LEMMA AppendQueue ==
    ASSUME NEW q \in Seq(Tasks), NEW k \in Tasks
    PROVE  /\ Append(q, k) \in Seq(Tasks)
           /\ Append(q, k) # <<>>
           /\ ToSet(Append(q, k)) = ToSet(q) \cup {k}
           /\ IsInjective(q) /\ k \notin ToSet(q) => IsInjective(Append(q, k))
<1>. DEFINE a == Append(q, k)
<1>1. /\ a \in Seq(Tasks) /\ Len(a) = Len(q) + 1 /\ Len(q) \in Nat
      /\ a[Len(q) + 1] = k
      /\ \A i \in 1 .. Len(q) : a[i] = q[i]
  OBVIOUS
<1>2. DOMAIN q = 1 .. Len(q) /\ DOMAIN a = 1 .. Len(q) + 1
  BY <1>1
<1>3. DOMAIN a = DOMAIN q \cup {Len(q) + 1}
  BY <1>1, <1>2
<1>4. ToSet(a) = ToSet(q) \cup {k}
  <2>1. ToSet(a) \subseteq ToSet(q) \cup {k}
    BY <1>1, <1>2, <1>3 DEF ToSet
  <2>2. ToSet(q) \subseteq ToSet(a)
    <3>. SUFFICES ASSUME NEW i \in DOMAIN q PROVE q[i] \in ToSet(a)
      BY DEF ToSet
    <3>1. a[i] = q[i] /\ i \in DOMAIN a
      BY <1>1, <1>2, <1>3
    <3>. QED
      BY <3>1 DEF ToSet
  <2>3. k \in ToSet(a)
    BY <1>1, <1>2, <1>3 DEF ToSet
  <2>. QED
    BY <2>1, <2>2, <2>3
<1>5. ASSUME IsInjective(q), k \notin ToSet(q) PROVE IsInjective(a)
  <2>. SUFFICES ASSUME NEW i \in DOMAIN a, NEW j \in DOMAIN a, a[i] = a[j]
                PROVE  i = j
    BY DEF IsInjective
  <2>1. \A n \in DOMAIN q : q[n] # k
    BY <1>5 DEF ToSet
  <2>2. CASE i \in DOMAIN q /\ j \in DOMAIN q
    BY <2>2, <1>5, <1>1, <1>2 DEF IsInjective
  <2>3. CASE i \notin DOMAIN q \/ j \notin DOMAIN q
    BY <2>3, <2>1, <1>1, <1>2, <1>3
  <2>. QED
    BY <2>2, <2>3
<1>. QED
  BY <1>1, <1>4, <1>5

(* Taking the front of an injective queue removes it from the queue. *)
LEMMA TakeQueue ==
    ASSUME NEW q \in Seq(Tasks), q # <<>>
    PROVE  /\ Head(q) \in Tasks
           /\ Tail(q) \in Seq(Tasks)
           /\ ToSet(q) = ToSet(Tail(q)) \cup {Head(q)}
           /\ IsInjective(q) => IsInjective(Tail(q)) /\ Head(q) \notin ToSet(Tail(q))
<1>. DEFINE b == Tail(q)
<1>1. /\ b \in Seq(Tasks) /\ Len(q) \in Nat \ {0} /\ Len(b) = Len(q) - 1
      /\ Head(q) = q[1] /\ q[1] \in Tasks
      /\ \A i \in 1 .. Len(b) : b[i] = q[i + 1]
  BY HeadTailProperties
<1>2. DOMAIN q = 1 .. Len(q) /\ DOMAIN b = 1 .. Len(q) - 1
  BY <1>1
<1>3. ToSet(q) = ToSet(b) \cup {Head(q)}
  <2>1. ToSet(q) \subseteq ToSet(b) \cup {Head(q)}
    <3>. SUFFICES ASSUME NEW i \in DOMAIN q PROVE q[i] \in ToSet(b) \cup {Head(q)}
      BY DEF ToSet
    <3>1. CASE i = 1
      BY <3>1, <1>1
    <3>2. CASE i # 1
      <4>1. i - 1 \in DOMAIN b /\ b[i - 1] = q[i]
        BY <3>2, <1>1, <1>2
      <4>. QED
        BY <4>1 DEF ToSet
    <3>. QED
      BY <3>1, <3>2
  <2>2. ToSet(b) \subseteq ToSet(q)
    <3>. SUFFICES ASSUME NEW i \in DOMAIN b PROVE b[i] \in ToSet(q)
      BY DEF ToSet
    <3>1. i + 1 \in DOMAIN q /\ b[i] = q[i + 1]
      BY <1>1, <1>2
    <3>. QED
      BY <3>1 DEF ToSet
  <2>3. Head(q) \in ToSet(q)
    <3>1. 1 \in DOMAIN q
      BY <1>1, <1>2
    <3>. QED
      BY <3>1, <1>1 DEF ToSet
  <2>. QED
    BY <2>1, <2>2, <2>3
<1>4. ASSUME IsInjective(q) PROVE IsInjective(b) /\ Head(q) \notin ToSet(b)
  <2>1. \A i \in DOMAIN b : i \in Nat \ {0} /\ i + 1 \in DOMAIN q /\ b[i] = q[i + 1]
    BY <1>1, <1>2
  <2>2. 1 \in DOMAIN q
    BY <1>1, <1>2
  <2>3. IsInjective(b)
    <3>. SUFFICES ASSUME NEW i \in DOMAIN b, NEW j \in DOMAIN b, b[i] = b[j]
                  PROVE  i = j
      BY DEF IsInjective
    <3>1. i + 1 = j + 1
      BY <2>1, <1>4 DEF IsInjective
    <3>. QED
      BY <3>1, <2>1
  <2>4. \A i \in DOMAIN b : b[i] # Head(q)
    <3>. SUFFICES ASSUME NEW i \in DOMAIN b, b[i] = Head(q) PROVE FALSE
      OBVIOUS
    <3>1. i + 1 = 1
      BY <2>1, <2>2, <1>1, <1>4 DEF IsInjective
    <3>. QED
      BY <3>1, <2>1
  <2>. QED
    BY <2>3, <2>4 DEF ToSet
<1>. QED
  BY <1>1, <1>3, <1>4

(* The idle threads are a finite set, so mIdle can count them. *)
LEMMA IdleFinite == IsFiniteSet(Idle)
  BY PoolAssumption, FS_Subset DEF Idle

(* What TakeOrReturn does to the types and to LeftDrained and Manned. *)
LEMMA TakeType ==
    ASSUME TypeOK, Manned, LeftDrained,
           NEW t \in Threads, worker[t] \in {"starting", "woken"},
           Ready, TakeOrReturn(t), UNCHANGED mStopping
    PROVE  /\ mQueue' \in Seq(Tasks)
           /\ worker' \in [Threads -> {"none", "starting", "waiting", "woken",
                                       "running", "exited"}]
           /\ task' \in [Threads -> Tasks \cup {NoTask}]
           /\ worker'[t] = "running" => task'[t] \in Tasks
           /\ Manned' /\ LeftDrained'
<1>1. CASE mStopping /\ mQueue = <<>>
  BY <1>1 DEF TypeOK, TakeOrReturn, Manned, LeftDrained
<1>2. CASE ~(mStopping /\ mQueue = <<>>)
  <2>1. mQueue # <<>> /\ mQueue \in Seq(Tasks)
    BY <1>2 DEF TypeOK, Ready
  <2>2. Head(mQueue) \in Tasks /\ Tail(mQueue) \in Seq(Tasks)
    BY <2>1, TakeQueue
  <2>3. worker' = [worker EXCEPT ![t] = "running"]
        /\ task' = [task EXCEPT ![t] = Head(mQueue)] /\ mQueue' = Tail(mQueue)
    BY <1>2 DEF TakeOrReturn
  <2>4. \A s \in Threads : worker[s] # "exited"
    BY <2>1 DEF LeftDrained
  <2>5. Manned' /\ LeftDrained'
    BY <2>3, <2>4 DEF TypeOK, Manned, LeftDrained, mThreads
  <2>. QED
    BY <2>2, <2>3, <2>5 DEF TypeOK
<1>. QED
  BY <1>1, <1>2
-----------------------------------------------------------------------------
(* The type invariant and PoolInv are inductive together: mIdle \in Nat    *)
(* after a decrement needs that the worker was counted, and done' needs    *)
(* that a running worker holds a task.                                     *)
THEOREM PoolInvariant == Spec => [](TypeOK /\ PoolInv)
<1>. USE PoolAssumption
<1>1. Init => TypeOK /\ PoolInv
  <2>. SUFFICES ASSUME Init PROVE TypeOK /\ PoolInv
    OBVIOUS
  <2>1. Idle = {}
    BY DEF Init, Idle
  <2>2. Cardinality(Idle) = 0
    BY <2>1, FS_EmptySet
  <2>3. TypeOK
    <3>1. mQueue \in Seq(Tasks)
      BY EmptySeq DEF Init
    <3>2. /\ worker \in [Threads -> {"none", "starting", "waiting", "woken",
                                      "running", "exited"}]
          /\ task \in [Threads -> Tasks \cup {NoTask}]
      BY DEF Init
    <3>3. mStopping \in BOOLEAN /\ mIdle \in Nat
      BY DEF Init
    <3>. QED
      BY <3>1, <3>2, <3>3 DEF Init, TypeOK
  <2>4. IdleCounted
    BY <2>2 DEF Init, IdleCounted
  <2>5. Holding /\ LeftDrained /\ Manned /\ Phases
    BY DEF Init, Holding, LeftDrained, Manned, Phases, mThreads
  <2>. QED
    BY <2>3, <2>4, <2>5 DEF PoolInv
<1>2. TypeOK /\ PoolInv /\ [Next]_vars => (TypeOK /\ PoolInv)'
  <2>. SUFFICES ASSUME TypeOK, PoolInv, [Next]_vars
                PROVE  TypeOK' /\ PoolInv'
    OBVIOUS
  <2>. USE IdleFinite
  <2>1. ASSUME NEW k \in Tasks, Post(k) PROVE TypeOK' /\ PoolInv'
    <3>1. mQueue' \in Seq(Tasks)
      BY <2>1, AppendQueue DEF TypeOK, Post
    <3>2. worker' = worker \/ \E t \in Threads : Grow(t)
      BY <2>1 DEF Post
    <3>3. Idle' = Idle
      BY <3>2 DEF TypeOK, Grow, Idle
    <3>4. TypeOK'
      BY <2>1, <3>1, <3>2 DEF TypeOK, Post, Grow
    <3>5. IdleCounted' /\ Holding' /\ LeftDrained' /\ Phases'
      BY <2>1, <3>2, <3>3
      DEF TypeOK, PoolInv, Post, Grow, IdleCounted, Holding, LeftDrained, Phases
    <3>6. mThreads' # {}
      <4>1. CASE mIdle = 0 /\ mThreads # Threads
        BY <2>1, <4>1 DEF TypeOK, Post, Grow, mThreads
      <4>2. CASE mThreads = Threads
        BY <4>2, <3>2 DEF TypeOK, Grow, mThreads
      <4>3. CASE mIdle # 0
        <5>1. Idle # {}
          BY <4>3, FS_EmptySet DEF PoolInv, IdleCounted
        <5>. QED
          BY <5>1, <3>2 DEF TypeOK, Idle, Grow, mThreads
      <4>. QED
        BY <4>1, <4>2, <4>3
    <3>. QED
      BY <3>4, <3>5, <3>6 DEF PoolInv, Manned
  <2>2. CASE NotifyOne \/ NotifyAll
    <3>1. Idle' = Idle
      BY <2>2 DEF TypeOK, NotifyOne, NotifyAll, Sleepers, Idle
    <3>2. TypeOK'
      BY <2>2 DEF TypeOK, NotifyOne, NotifyAll, Sleepers
    <3>3. IdleCounted' /\ Holding'
      BY <2>2, <3>1 DEF TypeOK, PoolInv, NotifyOne, NotifyAll, Sleepers, IdleCounted, Holding
    <3>4. LeftDrained' /\ Manned' /\ Phases'
      BY <2>2 DEF TypeOK, PoolInv, NotifyOne, NotifyAll, Sleepers, LeftDrained, Manned,
                  Phases, mThreads
    <3>. QED
      BY <3>2, <3>3, <3>4 DEF PoolInv
  <2>3. CASE Stop \/ Join
    <3>1. Idle' = Idle /\ mThreads' = mThreads
      BY <2>3 DEF Stop, Join, Idle, mThreads
    <3>. QED
      BY <2>3, <3>1 DEF TypeOK, PoolInv, Stop, Join, IdleCounted, Holding, LeftDrained,
                        Manned, Phases
  <2>4. ASSUME NEW t \in Threads, GoIdle(t) PROVE TypeOK' /\ PoolInv'
    <3>1. Idle' = Idle \cup {t} /\ t \notin Idle
      BY <2>4 DEF TypeOK, GoIdle, Idle
    <3>2. Cardinality(Idle') = Cardinality(Idle) + 1
      BY <3>1, FS_AddElement
    <3>3. TypeOK' /\ IdleCounted'
      BY <2>4, <3>2 DEF TypeOK, PoolInv, GoIdle, IdleCounted
    <3>. QED
      BY <2>4, <3>3 DEF TypeOK, PoolInv, GoIdle, Ready, Holding, LeftDrained, Manned,
                        Phases, mThreads
  <2>5. ASSUME NEW t \in Threads, Pass(t) PROVE TypeOK' /\ PoolInv'
    <3>1. Idle' = Idle
      BY <2>5 DEF TypeOK, Pass, TakeOrReturn, Idle
    <3>2. TypeOK' /\ IdleCounted' /\ Manned' /\ LeftDrained'
      BY <2>5, <3>1, TakeType DEF TypeOK, PoolInv, Pass, IdleCounted
    <3>3. Holding' /\ Phases'
      BY <2>5, TakeType DEF TypeOK, PoolInv, Pass, TakeOrReturn, Holding, Phases, mThreads
    <3>. QED
      BY <3>2, <3>3 DEF PoolInv
  <2>6. ASSUME NEW t \in Threads, Resume(t) PROVE TypeOK' /\ PoolInv'
    <3>1. Idle' = Idle \ {t} /\ t \in Idle
      BY <2>6 DEF TypeOK, Resume, TakeOrReturn, Idle
    <3>2. Cardinality(Idle') = Cardinality(Idle) - 1 /\ Cardinality(Idle') \in Nat
      BY <3>1, FS_RemoveElement, FS_Subset, FS_CardinalityType
    <3>3. TypeOK' /\ IdleCounted' /\ Manned' /\ LeftDrained'
      BY <2>6, <3>2, TakeType DEF TypeOK, PoolInv, Resume, IdleCounted
    <3>4. Holding' /\ Phases'
      BY <2>6, TakeType DEF TypeOK, PoolInv, Resume, TakeOrReturn, Holding, Phases, mThreads
    <3>. QED
      BY <3>3, <3>4 DEF PoolInv
  <2>7. ASSUME NEW t \in Threads, SleepAgain(t) \/ SpuriousWake(t) \/ Finish(t)
        PROVE  TypeOK' /\ PoolInv'
    <3>1. Idle' = Idle
      BY <2>7 DEF TypeOK, SleepAgain, SpuriousWake, Finish, Idle
    <3>2. TypeOK' /\ IdleCounted'
      BY <2>7, <3>1 DEF TypeOK, PoolInv, SleepAgain, SpuriousWake, Finish, IdleCounted,
                        Holding
    <3>. QED
      BY <2>7, <3>2 DEF TypeOK, PoolInv, SleepAgain, SpuriousWake, Finish, Holding,
                        LeftDrained, Manned, Phases, mThreads
  <2>8. CASE Exited \/ UNCHANGED vars
    <3>1. UNCHANGED vars
      BY <2>8 DEF Exited
    <3>2. Idle' = Idle /\ mThreads' = mThreads
      BY <3>1 DEF vars, Idle, mThreads
    <3>3. TypeOK'
      BY <3>1 DEF vars, TypeOK
    <3>4. IdleCounted' /\ Holding' /\ LeftDrained' /\ Manned' /\ Phases'
      BY <3>1, <3>2
      DEF vars, PoolInv, IdleCounted, Holding, LeftDrained, Manned, Phases
    <3>. QED
      BY <3>3, <3>4 DEF PoolInv
  <2>. QED
    BY <2>1, <2>2, <2>3, <2>4, <2>5, <2>6, <2>7, <2>8 DEF Next, WorkerStep
<1>. QED
  BY <1>1, <1>2, PTL DEF Spec

(* Type correctness of the pool. *)
THEOREM TypeCorrect == Spec => []TypeOK
  BY PoolInvariant, PTL

(* Between taking its task and returning from it a worker is the only one  *)
(* to hold it: the step of TakeOrReturn that moves the front task out.     *)
LEMMA TakeKeepsEachOnce ==
    ASSUME TypeOK, PoolInv, EachTaskOnce,
           NEW t \in Threads, worker[t] \in {"starting", "woken"},
           Ready, TakeOrReturn(t), UNCHANGED <<posted, done>>
    PROVE  EachTaskOnce'
<1>1. CASE mStopping /\ mQueue = <<>>
  <2>1. mQueue' = mQueue /\ task' = task /\ Running' = Running
    BY <1>1 DEF TypeOK, TakeOrReturn, Running
  <2>. QED
    BY <2>1 DEF EachTaskOnce, Queued
<1>2. CASE ~(mStopping /\ mQueue = <<>>)
  <2>1. /\ worker' = [worker EXCEPT ![t] = "running"]
        /\ task' = [task EXCEPT ![t] = Head(mQueue)]
        /\ mQueue' = Tail(mQueue)
    BY <1>2 DEF TakeOrReturn
  <2>2. /\ Head(mQueue) \in Tasks
        /\ Queued = Queued' \cup {Head(mQueue)}
        /\ IsInjective(mQueue') /\ Head(mQueue) \notin Queued'
    BY <1>2, <2>1, TakeQueue DEF TypeOK, Ready, EachTaskOnce, Queued
  <2>3. /\ t \notin Running /\ Running' = Running \cup {t}
        /\ task'[t] = Head(mQueue)
        /\ \A s \in Running : task'[s] = task[s]
    BY <2>1 DEF TypeOK, Running
  <2>4. {task'[s] : s \in Running'} = {task[s] : s \in Running} \cup {Head(mQueue)}
    BY <2>3
  <2>5. posted' = Queued' \cup {task'[s] : s \in Running'} \cup done'
    BY <2>2, <2>4 DEF EachTaskOnce
  <2>6. \A r, s \in Running' : task'[r] = task'[s] => r = s
    BY <2>2, <2>3 DEF EachTaskOnce
  <2>7. Queued' \cap done' = {} /\ \A s \in Running' : task'[s] \notin Queued' \cup done'
    BY <2>2, <2>3 DEF EachTaskOnce
  <2>. QED
    BY <2>2, <2>5, <2>6, <2>7 DEF EachTaskOnce
<1>. QED
  BY <1>1, <1>2

(* No interleaving of post(), the workers and stop() loses a task or       *)
(* serves one twice, and stop() returns only when all have been served.    *)
THEOREM TasksConserved == Spec => []EachTaskOnce
<1>1. Init => EachTaskOnce
  BY DEF Init, EachTaskOnce, Queued, Running, ToSet, IsInjective
<1>2. TypeOK /\ PoolInv /\ EachTaskOnce /\ [Next]_vars => EachTaskOnce'
  <2>. SUFFICES ASSUME TypeOK, PoolInv, EachTaskOnce, [Next]_vars
                PROVE  EachTaskOnce'
    OBVIOUS
  <2>1. ASSUME NEW k \in Tasks, Post(k) PROVE EachTaskOnce'
    <3>1. k \notin Queued /\ k \notin done /\ \A t \in Running : task[t] # k
      BY <2>1 DEF Post, EachTaskOnce
    <3>2. Queued' = Queued \cup {k} /\ IsInjective(mQueue')
      BY <2>1, <3>1, AppendQueue DEF TypeOK, Post, EachTaskOnce, Queued
    <3>3. Running' = Running /\ task' = task
      BY <2>1 DEF TypeOK, Post, Grow, Running
    <3>4. posted' = posted \cup {k} /\ done' = done
      BY <2>1 DEF Post
    <3>. QED
      BY <3>1, <3>2, <3>3, <3>4 DEF EachTaskOnce
  <2>2. ASSUME NEW t \in Threads, Pass(t) \/ Resume(t) PROVE EachTaskOnce'
    BY <2>2, TakeKeepsEachOnce DEF Pass, Resume
  <2>3. ASSUME NEW t \in Threads, Finish(t) PROVE EachTaskOnce'
    <3>1. /\ t \in Running /\ Running' = Running \ {t}
          /\ \A s \in Running' : task'[s] = task[s]
          /\ done' = done \cup {task[t]} /\ mQueue' = mQueue /\ posted' = posted
      BY <2>3 DEF TypeOK, Finish, Running
    <3>2. {task[s] : s \in Running} = {task'[s] : s \in Running'} \cup {task[t]}
      BY <3>1
    <3>3. Queued' = Queued
      BY <3>1 DEF Queued
    <3>4. posted' = Queued' \cup {task'[s] : s \in Running'} \cup done'
      BY <3>1, <3>2, <3>3 DEF EachTaskOnce
    <3>5. /\ IsInjective(mQueue')
          /\ \A r, s \in Running' : task'[r] = task'[s] => r = s
      BY <3>1 DEF EachTaskOnce
    <3>6. Queued' \cap done' = {} /\ \A s \in Running' : task'[s] \notin Queued' \cup done'
      BY <3>1, <3>3 DEF EachTaskOnce
    <3>. QED
      BY <3>4, <3>5, <3>6 DEF EachTaskOnce
  <2>4. ASSUME NEW t \in Threads, GoIdle(t) \/ SleepAgain(t) \/ SpuriousWake(t)
        PROVE  EachTaskOnce'
    <3>1. Running' = Running /\ UNCHANGED <<task, mQueue, posted, done>>
      BY <2>4 DEF TypeOK, GoIdle, SleepAgain, SpuriousWake, Running
    <3>. QED
      BY <3>1 DEF EachTaskOnce, Queued
  <2>5. CASE NotifyOne \/ NotifyAll
    <3>1. Running' = Running /\ UNCHANGED <<task, mQueue, posted, done>>
      BY <2>5 DEF TypeOK, NotifyOne, NotifyAll, Sleepers, Running
    <3>. QED
      BY <3>1 DEF EachTaskOnce, Queued
  <2>6. CASE Stop \/ Join \/ Exited \/ UNCHANGED vars
    <3>1. Running' = Running /\ UNCHANGED <<task, mQueue, posted, done>>
      BY <2>6 DEF Stop, Join, Exited, vars, Running
    <3>. QED
      BY <3>1 DEF EachTaskOnce, Queued
  <2>. QED
    BY <2>1, <2>2, <2>3, <2>4, <2>5, <2>6 DEF Next, WorkerStep
<1>. QED
  BY <1>1, <1>2, PoolInvariant, PTL DEF Spec

(* No wake-up is lost, whatever the order of notifications and waits.      *)
THEOREM WakeupsKept == Spec => []NoLostWakeup
<1>. DEFINE Awake == \E t \in Threads : worker[t] \in {"starting", "woken", "running"}
<1>1. Init => NoLostWakeup
  BY DEF Init, NoLostWakeup
<1>2. TypeOK /\ PoolInv /\ PoolInv' /\ NoLostWakeup /\ [Next]_vars => NoLostWakeup'
  <2>. SUFFICES ASSUME TypeOK, PoolInv, PoolInv', NoLostWakeup, [Next]_vars,
                       mQueue' # <<>>, main' # "notifying"
                PROVE  Awake'
    BY DEF NoLostWakeup
  <2>1. ASSUME NEW k \in Tasks, Post(k) PROVE Awake'
    BY <2>1 DEF Post
  <2>2. CASE NotifyOne \/ NotifyAll
    <3>1. CASE Sleepers = {}
      <4>1. PICK t \in mThreads : worker[t] # "exited"
        BY <2>2 DEF PoolInv, Manned, LeftDrained, NotifyOne, NotifyAll, mThreads
      <4>2. worker[t] \in {"starting", "woken", "running"} /\ t \in Threads
        BY <4>1, <3>1 DEF TypeOK, Sleepers, mThreads
      <4>3. worker'[t] = worker[t]
        BY <2>2, <3>1, <4>2 DEF TypeOK, NotifyOne, NotifyAll
      <4>. QED
        BY <4>2, <4>3
    <3>2. CASE Sleepers # {}
      BY <2>2, <3>2 DEF TypeOK, NotifyOne, NotifyAll, Sleepers
    <3>. QED
      BY <3>1, <3>2
  <2>3. CASE Stop \/ Join \/ Exited \/ UNCHANGED vars
    BY <2>3 DEF Stop, Join, Exited, vars, NoLostWakeup
  <2>4. ASSUME NEW t \in Threads, GoIdle(t) \/ SleepAgain(t) PROVE Awake'
    BY <2>4 DEF GoIdle, SleepAgain, Ready
  <2>5. ASSUME NEW t \in Threads, Pass(t) \/ Resume(t) PROVE Awake'
    <3>1. worker'[t] = "running" \/ (mQueue' = <<>>)
      BY <2>5 DEF TypeOK, Pass, Resume, TakeOrReturn
    <3>. QED
      BY <3>1
  <2>6. ASSUME NEW t \in Threads, SpuriousWake(t) \/ Finish(t) PROVE Awake'
    BY <2>6 DEF TypeOK, SpuriousWake, Finish
  <2>. QED
    BY <2>1, <2>2, <2>3, <2>4, <2>5, <2>6 DEF Next, WorkerStep
<1>. QED
  BY <1>1, <1>2, PoolInvariant, PTL DEF Spec
-----------------------------------------------------------------------------
(***************************************************************************)
(* The service.                                                            *)
(***************************************************************************)
Held == {task[t] : t \in Running}
Phase == IF main = "stopped" THEN "stopped"
         ELSE IF mStopping THEN "stopping" ELSE "open"

(* The count of the instance is that of the library. *)
LEMMA SameCount == \A S : Service!Cardinality(S) = Cardinality(S)
BY Zenon DEF Service!Cardinality, Cardinality

(* A thread that holds nothing is one that can hold the next task. *)
LEMMA HandFree ==
    ASSUME NEW t \in Threads, t \notin Running
    PROVE  Cardinality(Held) < Cardinality(Threads)
<1>. USE PoolAssumption
<1>1. Running \subseteq Threads \ {t} /\ IsFiniteSet(Threads \ {t}) /\ IsFiniteSet(Running)
  BY FS_RemoveElement, FS_Subset DEF Running
<1>2. /\ Cardinality(Running) <= Cardinality(Threads \ {t})
      /\ Cardinality(Threads \ {t}) = Cardinality(Threads) - 1
  BY <1>1, FS_RemoveElement, FS_Subset
<1>3. IsFiniteSet(Held) /\ Cardinality(Held) <= Cardinality(Running)
  <2>. DEFINE f == [s \in Running |-> task[s]]
  <2>1. f \in Surjection(Running, Held)
    BY DEF Surjection, Held
  <2>. QED
    BY <1>1, <2>1, FS_Surjection
<1>4. /\ Cardinality(Threads) \in Nat /\ Cardinality(Running) \in Nat
      /\ Cardinality(Held) \in Nat
  BY <1>1, <1>3, FS_CardinalityType
<1>. QED
  BY <1>2, <1>3, <1>4

(* A worker that comes to the queue begins the oldest task or leaves. *)
LEMMA TakeBegins ==
    ASSUME TypeOK, NEW t \in Threads, worker[t] \in {"starting", "woken"},
           Ready, TakeOrReturn(t), UNCHANGED <<mStopping, main, done>>
    PROVE  Service!Begin \/ UNCHANGED Service!serviceVars
<1>1. Service!serviceVars = <<mQueue, Held, done, Phase>>
  BY DEF Service!serviceVars, Held, Phase
<1>2. CASE mStopping /\ mQueue = <<>>
  <2>1. mQueue' = mQueue /\ Held' = Held /\ Phase' = Phase
    BY <1>2 DEF TypeOK, TakeOrReturn, Running, Held, Phase
  <2>. QED
    BY <1>1, <2>1 DEF Service!serviceVars, Held, Phase
<1>3. CASE ~(mStopping /\ mQueue = <<>>)
  <2>1. /\ worker' = [worker EXCEPT ![t] = "running"]
        /\ task' = [task EXCEPT ![t] = Head(mQueue)]
        /\ mQueue' = Tail(mQueue) /\ mQueue # <<>>
    BY <1>3 DEF TakeOrReturn, Ready
  <2>2. /\ t \notin Running /\ Running' = Running \cup {t}
        /\ task'[t] = Head(mQueue)
        /\ \A s \in Running : task'[s] = task[s]
    BY <2>1 DEF TypeOK, Running
  <2>3. Held' = Held \cup {Head(mQueue)}
    BY <2>2 DEF Held
  <2>4. Cardinality(Held) < Cardinality(Threads)
    BY <2>2, HandFree
  <2>. QED
    BY <2>1, <2>3, <2>4, SameCount DEF Service!Begin, Held
<1>. QED
  BY <1>2, <1>3

(* The threads together are one queue: each task that post() accepts is    *)
(* begun once and in its turn, and stop() returns when all have ended.     *)
THEOREM ServiceImplemented == Spec => ImplementsService
<1>. DEFINE Inv == TypeOK /\ PoolInv /\ EachTaskOnce
<1>1. Init => Service!Init
  BY DEF Init, Service!Init, Running
<1>2. Inv /\ [Next]_vars => [Service!Next]_Service!serviceVars
  <2>. SUFFICES ASSUME Inv, [Next]_vars
                PROVE  Service!Next \/ UNCHANGED Service!serviceVars
    OBVIOUS
  <2>1. UNCHANGED Service!serviceVars <=> UNCHANGED <<mQueue, Held, done, Phase>>
    BY DEF Service!serviceVars, Held, Phase
  <2>2. ASSUME NEW k \in Tasks, Post(k) PROVE Service!Next
    <3>1. k \notin Held /\ k \notin done /\ k \notin Queued
      BY <2>2 DEF Post, EachTaskOnce, Held
    <3>2. \A i \in 1 .. Len(mQueue) : mQueue[i] # k
      BY <3>1 DEF TypeOK, Queued, ToSet
    <3>3. Running' = Running /\ UNCHANGED <<task, done>>
      BY <2>2 DEF TypeOK, Post, Grow, Running
    <3>4. Held' = Held
      BY <3>3 DEF Held
    <3>5. Phase = "open" /\ Phase' = "open"
      BY <2>2 DEF Post, Phase
    <3>6. mQueue' = Append(mQueue, k)
      BY <2>2 DEF Post
    <3>7. Service!Accept(k)
      BY <3>1, <3>2, <3>3, <3>4, <3>5, <3>6 DEF Service!Accept, Held, Phase
    <3>. QED
      BY <3>7 DEF Service!Next
  <2>3. ASSUME NEW t \in Threads, Pass(t) \/ Resume(t)
        PROVE  Service!Next \/ UNCHANGED Service!serviceVars
    <3>1. Service!Begin \/ UNCHANGED Service!serviceVars
      BY <2>3, TakeBegins DEF Pass, Resume
    <3>. QED
      BY <3>1 DEF Service!Next
  <2>4. ASSUME NEW t \in Threads, Finish(t) PROVE Service!Next
    <3>1. /\ t \in Running /\ Running' = Running \ {t}
          /\ \A s \in Running' : task'[s] = task[s]
          /\ done' = done \cup {task[t]} /\ mQueue' = mQueue
      BY <2>4 DEF TypeOK, Finish, Running
    <3>2. Held' = Held \ {task[t]} /\ task[t] \in Held
      BY <3>1 DEF EachTaskOnce, Held
    <3>3. Phase' = Phase
      BY <2>4 DEF Finish, Phase
    <3>4. PICK k \in Held : k = task[t]
      BY <3>2
    <3>5. Service!End(k)
      BY <3>1, <3>2, <3>3, <3>4 DEF Service!End, Held, Phase
    <3>. QED
      BY <3>5 DEF Service!Next, Held
  <2>5. CASE Stop
    <3>1. Held' = Held /\ UNCHANGED <<mQueue, done>>
      BY <2>5 DEF Stop, Held, Running
    <3>2. Phase = "open" /\ Phase' = "stopping"
      BY <2>5 DEF Stop, Phase
    <3>3. Service!Stop
      BY <3>1, <3>2 DEF Service!Stop, Held, Phase
    <3>. QED
      BY <3>3 DEF Service!Next
  <2>6. CASE Join
    <3>1. Held' = Held /\ UNCHANGED <<mQueue, done>>
      BY <2>6 DEF Join, Held, Running
    <3>2. Phase = "stopping" /\ Phase' = "stopped"
      BY <2>6 DEF Join, Phase, PoolInv, Phases
    <3>3. mQueue = <<>>
      BY <2>6 DEF Join, PoolInv, Manned, LeftDrained, mThreads
    <3>4. Held = {}
      BY <2>6 DEF Join, mThreads, Running, Held
    <3>5. Service!Return
      BY <3>1, <3>2, <3>3, <3>4 DEF Service!Return, Held, Phase
    <3>. QED
      BY <3>5 DEF Service!Next
  <2>7. CASE NotifyOne \/ NotifyAll
    <3>1. Running' = Running /\ UNCHANGED <<task, mQueue, done, mStopping>>
      BY <2>7 DEF TypeOK, NotifyOne, NotifyAll, Sleepers, Running
    <3>2. main # "stopped" /\ main' # "stopped"
      BY <2>7 DEF NotifyOne, NotifyAll
    <3>. QED
      BY <2>1, <3>1, <3>2 DEF Held, Phase
  <2>8. ASSUME NEW t \in Threads, GoIdle(t) \/ SleepAgain(t) \/ SpuriousWake(t)
        PROVE  UNCHANGED Service!serviceVars
    <3>1. Running' = Running /\ UNCHANGED <<task, mQueue, done, mStopping, main>>
      BY <2>8 DEF TypeOK, GoIdle, SleepAgain, SpuriousWake, Running
    <3>. QED
      BY <2>1, <3>1 DEF Held, Phase
  <2>9. CASE Exited \/ UNCHANGED vars
    <3>1. Running' = Running /\ UNCHANGED <<task, mQueue, done, mStopping, main>>
      BY <2>9 DEF Exited, vars, Running
    <3>. QED
      BY <2>1, <3>1 DEF Held, Phase
  <2>. QED
    BY <2>2, <2>3, <2>4, <2>5, <2>6, <2>7, <2>8, <2>9 DEF Next, WorkerStep
<1>. QED
  BY <1>1, <1>2, PoolInvariant, TasksConserved, PTL DEF Spec, ImplementsService, Service!Spec
=============================================================================
