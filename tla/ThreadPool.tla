----------------------------- MODULE ThreadPool -----------------------------
(***************************************************************************)
(* The demand-grown pool of serving threads (backend/src/engine/           *)
(* thread_pool.h).  One thread, the accept loop of HttpServer::serve and   *)
(* later main(), posts connections and finally stops the pool; any number  *)
(* of workers take them.  Every critical section of mMu is one action; a   *)
(* thread between two critical sections is a state of its own, so that     *)
(* wake-ups, the two halves of post() and the three phases of stop()       *)
(* interleave as they do in the program.                                   *)
(***************************************************************************)
EXTENDS Naturals, Sequences, FiniteSets, SequencesExt

CONSTANTS Tasks,    \* the connections the accept loop will post, each once
          Threads,  \* the threads the pool may create: mMax of them
          Lasting,  \* tasks that last as long as their client wants
          NoTask    \* an empty std::function

ASSUME PoolAssumption ==
    /\ IsFiniteSet(Threads)
    /\ Threads # {}         \* mMax(maxThreads ? maxThreads : 1)
    /\ Lasting \subseteq Tasks
    /\ NoTask \notin Tasks

VARIABLES mQueue,    \* tasks posted and not yet taken
          mIdle,     \* workers inside mCv.wait
          mStopping,
          worker,    \* where each thread is in worker()
          task,      \* its local variable of that name
          main,      \* where the posting thread is
          posted,    \* history: tasks post() accepted
          done       \* history: tasks that returned

vars == <<mQueue, mIdle, mStopping, worker, task, main, posted, done>>

Init ==
    /\ mQueue = <<>>
    /\ mIdle = 0
    /\ mStopping = FALSE
    /\ worker = [t \in Threads |-> "none"]
    /\ task = [t \in Threads |-> NoTask]
    /\ main = "posting"
    /\ posted = {}
    /\ done = {}

mThreads == {t \in Threads : worker[t] # "none"}

Sleepers == {t \in Threads : worker[t] = "waiting"}

(* The predicate of mCv.wait. *)
Ready == mStopping \/ mQueue # <<>>
-----------------------------------------------------------------------------
(***************************************************************************)
(* The posting thread.                                                     *)
(***************************************************************************)

Grow(t) ==
    /\ worker[t] = "none"
    /\ worker' = [worker EXCEPT ![t] = "starting"]

(* Mutant: the thread is only created once a backlog exists. *)
PostLateGrowth(k) ==
    /\ main = "posting" /\ ~mStopping /\ k \notin posted
    /\ mQueue' = Append(mQueue, k)
    /\ IF mIdle = 0 /\ mThreads # Threads /\ mQueue # <<>>
         THEN \E t \in Threads : Grow(t)
         ELSE UNCHANGED worker
    /\ posted' = posted \cup {k}
    /\ main' = "notifying"
    /\ UNCHANGED <<mIdle, mStopping, task, done>>

(* post(), up to the unlock. *)
Post(k) ==
    /\ main = "posting" /\ ~mStopping /\ k \notin posted
    /\ mQueue' = Append(mQueue, k)
    /\ IF mIdle = 0 /\ mThreads # Threads
         THEN \E t \in Threads : Grow(t)
         ELSE UNCHANGED worker
    /\ posted' = posted \cup {k}
    /\ main' = "notifying"
    /\ UNCHANGED <<mIdle, mStopping, task, done>>

(* Mutant: post() without its notify_one. *)
NotifyNobody ==
    /\ main = "notifying"
    /\ main' = "posting"
    /\ UNCHANGED <<mQueue, mIdle, mStopping, worker, task, posted, done>>

(* mCv.notify_one() of post(), after the unlock. *)
NotifyOne ==
    /\ main = "notifying"
    /\ IF Sleepers = {}
         THEN UNCHANGED worker
         ELSE \E t \in Sleepers : worker' = [worker EXCEPT ![t] = "woken"]
    /\ main' = "posting"
    /\ UNCHANGED <<mQueue, mIdle, mStopping, task, posted, done>>

(* stop(), up to the unlock. *)
Stop ==
    /\ main = "posting" /\ ~mStopping
    /\ mStopping' = TRUE
    /\ main' = "stopping"
    /\ UNCHANGED <<mQueue, mIdle, worker, task, posted, done>>

(* Mutant: stop() wakes one worker only. *)
NotifyFirst ==
    /\ main = "stopping"
    /\ IF Sleepers = {}
         THEN UNCHANGED worker
         ELSE \E t \in Sleepers : worker' = [worker EXCEPT ![t] = "woken"]
    /\ main' = "joining"
    /\ UNCHANGED <<mQueue, mIdle, mStopping, task, posted, done>>

(* mCv.notify_all() of stop(). *)
NotifyAll ==
    /\ main = "stopping"
    /\ worker' = [t \in Threads |->
                    IF t \in Sleepers THEN "woken" ELSE worker[t]]
    /\ main' = "joining"
    /\ UNCHANGED <<mQueue, mIdle, mStopping, task, posted, done>>

(* The join loop of stop(), which ends when every thread has returned. *)
Join ==
    /\ main = "joining"
    /\ \A t \in mThreads : worker[t] = "exited"
    /\ main' = "stopped"
    /\ UNCHANGED <<mQueue, mIdle, mStopping, worker, task, posted, done>>
-----------------------------------------------------------------------------
(***************************************************************************)
(* A worker.                                                               *)
(***************************************************************************)

(* Mutant: a stopping worker leaves although work is queued. *)
LeaveAtOnce(t) ==
    IF mStopping
      THEN /\ worker' = [worker EXCEPT ![t] = "exited"]
           /\ UNCHANGED <<mQueue, task>>
      ELSE /\ worker' = [worker EXCEPT ![t] = "running"]
           /\ task' = [task EXCEPT ![t] = Head(mQueue)]
           /\ mQueue' = Tail(mQueue)

(* Mutant: the front task is copied and stays in the queue. *)
CopyFront(t) ==
    IF mStopping /\ mQueue = <<>>
      THEN /\ worker' = [worker EXCEPT ![t] = "exited"]
           /\ UNCHANGED <<mQueue, task>>
      ELSE /\ worker' = [worker EXCEPT ![t] = "running"]
           /\ task' = [task EXCEPT ![t] = Head(mQueue)]
           /\ mQueue' = mQueue

(* Mutant: the task that came last is served first. *)
TakeLast(t) ==
    IF mStopping /\ mQueue = <<>>
      THEN /\ worker' = [worker EXCEPT ![t] = "exited"]
           /\ UNCHANGED <<mQueue, task>>
      ELSE /\ worker' = [worker EXCEPT ![t] = "running"]
           /\ task' = [task EXCEPT ![t] = Last(mQueue)]
           /\ mQueue' = Front(mQueue)

(* What follows the wait: return, or move the front task out. *)
TakeOrReturn(t) ==
    IF mStopping /\ mQueue = <<>>
      THEN /\ worker' = [worker EXCEPT ![t] = "exited"]
           /\ UNCHANGED <<mQueue, task>>
      ELSE /\ worker' = [worker EXCEPT ![t] = "running"]
           /\ task' = [task EXCEPT ![t] = Head(mQueue)]
           /\ mQueue' = Tail(mQueue)

(* Lock, find the predicate false, and sleep. *)
GoIdle(t) ==
    /\ worker[t] = "starting" /\ ~Ready
    /\ worker' = [worker EXCEPT ![t] = "waiting"]
    /\ mIdle' = mIdle + 1
    /\ UNCHANGED <<mQueue, mStopping, task, main, posted, done>>

(* Mutant: ++mIdle is only reached by a worker that sleeps. *)
PassWithoutCounting(t) ==
    /\ worker[t] = "starting" /\ Ready
    /\ TakeOrReturn(t)
    /\ mIdle' = mIdle - 1
    /\ UNCHANGED <<mStopping, main, posted, done>>

(* Lock and find the predicate true: ++mIdle and --mIdle cancel out. *)
Pass(t) ==
    /\ worker[t] = "starting" /\ Ready
    /\ TakeOrReturn(t)
    /\ UNCHANGED <<mIdle, mStopping, main, posted, done>>

(* A notified worker has the lock back and finds the predicate true. *)
Resume(t) ==
    /\ worker[t] = "woken" /\ Ready
    /\ mIdle' = mIdle - 1
    /\ TakeOrReturn(t)
    /\ UNCHANGED <<mStopping, main, posted, done>>

(* ... or false: another worker took the task. *)
SleepAgain(t) ==
    /\ worker[t] = "woken" /\ ~Ready
    /\ worker' = [worker EXCEPT ![t] = "waiting"]
    /\ UNCHANGED <<mQueue, mIdle, mStopping, task, main, posted, done>>

(* A condition variable may wake without a notification. *)
SpuriousWake(t) ==
    /\ worker[t] = "waiting"
    /\ worker' = [worker EXCEPT ![t] = "woken"]
    /\ UNCHANGED <<mQueue, mIdle, mStopping, task, main, posted, done>>

(* task() returns. *)
Finish(t) ==
    /\ worker[t] = "running"
    /\ worker' = [worker EXCEPT ![t] = "starting"]
    /\ task' = [task EXCEPT ![t] = NoTask]
    /\ done' = done \cup {task[t]}
    /\ UNCHANGED <<mQueue, mIdle, mStopping, main, posted>>

WorkerStep(t) == GoIdle(t) \/ Pass(t) \/ Resume(t) \/ SleepAgain(t)

(* Once main() is past the join, _exit ends the process. *)
Exited == main = "stopped" /\ UNCHANGED vars

Next ==
    \/ \E k \in Tasks : Post(k)
    \/ NotifyOne \/ Stop \/ NotifyAll \/ Join \/ Exited
    \/ \E t \in Threads : WorkerStep(t) \/ SpuriousWake(t) \/ Finish(t)

Spec == Init /\ [][Next]_vars

(* Running threads keep running; a connection that is not Lasting ends     *)
(* (30 s socket timeouts bound it).  Nothing forces a client to connect,   *)
(* the operator to stop the server, or a wake-up to be spurious.           *)
SchedulerFairness ==
    /\ WF_vars(NotifyOne) /\ WF_vars(NotifyAll) /\ WF_vars(Join)
    /\ \A t \in Threads :
         /\ WF_vars(WorkerStep(t))
         /\ WF_vars(task[t] \notin Lasting /\ Finish(t))

FairSpec == Spec /\ SchedulerFairness
-----------------------------------------------------------------------------
TypeOK ==
    /\ mQueue \in Seq(Tasks)
    /\ mIdle \in Nat
    /\ mStopping \in BOOLEAN
    /\ worker \in [Threads -> {"none", "starting", "waiting", "woken",
                               "running", "exited"}]
    /\ task \in [Threads -> Tasks \cup {NoTask}]
    /\ main \in {"posting", "notifying", "stopping", "joining", "stopped"}
    /\ posted \subseteq Tasks
    /\ done \subseteq Tasks

Queued == ToSet(mQueue)
Running == {t \in Threads : worker[t] = "running"}

(* Every task post() accepted is at exactly one place: once in the queue,  *)
(* in the hands of one worker, or finished.  No interleaving of post() and *)
(* workers loses a connection or serves it twice.                          *)
EachTaskOnce ==
    /\ posted = Queued \cup {task[t] : t \in Running} \cup done
    /\ IsInjective(mQueue)
    /\ \A s, t \in Running : task[s] = task[t] => s = t
    /\ Queued \cap done = {}
    /\ \A t \in Running : task[t] \notin Queued \cup done

(* No wake-up is lost: while a task is queued and post() has notified,     *)
(* some worker is awake and will come to the queue.  (post() notifies      *)
(* after it has released the mutex, and counts on mIdle to decide that no  *)
(* thread need be created.)                                                *)
NoLostWakeup ==
    (mQueue # <<>> /\ main # "notifying") =>
        \E t \in Threads : worker[t] \in {"starting", "woken", "running"}

Service == INSTANCE TaskService WITH
               waiting <- mQueue, begun <- {task[t] : t \in Running}, ended <- done,
               phase <- IF main = "stopped" THEN "stopped"
                        ELSE IF mStopping THEN "stopping" ELSE "open"

(* The threads serve what was posted as one queue would: in the order in   *)
(* which it came, although each worker decides for itself when it comes to *)
(* the queue; and when stop() returns, everything that was accepted has    *)
(* been served ("In-flight responses complete", main.cpp).                 *)
ImplementsService == Service!Spec

(* Every accepted task is eventually served, if tasks end.                 *)
EveryTaskServed == \A k \in Tasks : (k \in posted) ~> (k \in done)

(* stop() returns: no worker sleeps through the shutdown.                  *)
StopReturns == mStopping ~> (main = "stopped")

(* thread_pool.h:5-6: "serving threads are added while work is queued and  *)
(* no worker is idle, up to a configurable maximum": with work queued, no  *)
(* worker idle and the maximum not reached, the work is taken, a thread is *)
(* added or the server stops.                                              *)
GrowsOnDemand ==
    (mQueue # <<>> /\ mIdle = 0 /\ mThreads # Threads)
        ~> (mQueue = <<>> \/ mIdle > 0 \/ mThreads = Threads \/ mStopping)
=============================================================================
