---------------------------- MODULE TaskDispatcher ----------------------------
(****************************************************************************)
(* ThreadedTaskDispatcher of waitress/task.py: a pool of handler threads    *)
(* that take tasks from one queue.  All of its state is read and written    *)
(* under `lock`, which is released only by service() and by the waits on    *)
(* the two condition variables, so one action is one critical section.      *)
(* Condition.notify() may wake any waiter here (CPython wakes the oldest).  *)
(****************************************************************************)
EXTENDS Integers, Sequences, FiniteSets

CONSTANTS
    Tasks,                \* one element per call of add_task
    ThreadNos,            \* the thread numbers (bound: the pool cannot outgrow it)
    Counts                \* the values set_thread_count is called with

ASSUME ThreadNosFinite == IsFiniteSet(ThreadNos)
ASSUME CountsAreNat == Counts \subseteq Nat

VARIABLES
    threads, queue, stop_count, active_count,    \* the dispatcher's attributes
    pc,           \* pc[t]: where handler_thread(t) is
    task,         \* task[t]: the task that thread t services while pc[t] = "serve"
    phase,        \* "run", in shutdown()'s wait ("stopping"), or after it ("down")
    wanted,       \* the last argument of set_thread_count
    expired,      \* shutdown() stopped waiting before all the threads were gone
    done,         \* the tasks whose service() has ended
    cancelled     \* the tasks that shutdown() cancelled

pool == <<threads, stop_count, wanted>>
vars == <<threads, queue, stop_count, active_count, pc, task, phase, wanted,
          expired, done, cancelled>>

At(label) == {t \in ThreadNos : pc[t] = label}

Serving == {task[t] : t \in At("serve")}
Queued == {queue[i] : i \in DOMAIN queue}
Used == Queued \union Serving \union done \union cancelled

TypeOK ==
    /\ threads \subseteq ThreadNos
    /\ queue \in Seq(Tasks)
    /\ stop_count \in Nat
    /\ active_count \in Int
    /\ pc \in [ThreadNos -> {"off", "ready", "wait", "woken", "serve"}]
    /\ task \in [ThreadNos -> Tasks \union {"none"}]
    /\ \A t \in At("serve") : task[t] \in Tasks
    /\ phase \in {"run", "stopping", "down"}
    /\ wanted \in Nat
    /\ expired \in BOOLEAN
    /\ done \subseteq Tasks
    /\ cancelled \subseteq Tasks

Init ==
    /\ threads = {}
    /\ queue = <<>>
    /\ stop_count = 0
    /\ active_count = 0
    /\ pc = [t \in ThreadNos |-> "off"]
    /\ task = [t \in ThreadNos |-> "none"]
    /\ phase = "run"
    /\ wanted = 0
    /\ expired = FALSE
    /\ done = {}
    /\ cancelled = {}

----------------------------------------------------------------------------
(* handler_thread: a thread holds the lock when it first enters the loop or *)
(* comes back from service() ("ready"), and when it returns from the wait   *)
(* ("woken"), where it first counts itself active again.                    *)

\* Mutant: active_count is not incremented after the wait.
NoWakeCount(t) == 0

WakeCount(t) == IF pc[t] = "woken" THEN 1 ELSE 0

AtLoopHead(t) == pc[t] \in {"ready", "woken"}

\* The loop's condition holds: count ourselves idle and wait.
Wait(t) ==
    /\ AtLoopHead(t)
    /\ queue = <<>> /\ stop_count = 0
    /\ active_count' = active_count + WakeCount(t) - 1
    /\ pc' = [pc EXCEPT ![t] = "wait"]
    /\ UNCHANGED <<pool, queue, task, phase, expired, done, cancelled>>

\* A stop is pending: this thread is the one that stops.
Stop(t) ==
    /\ AtLoopHead(t)
    /\ stop_count > 0
    /\ active_count' = active_count + WakeCount(t) - 1
    /\ stop_count' = stop_count - 1
    /\ threads' = threads \ {t}
    /\ pc' = [pc EXCEPT ![t] = "off"]
    /\ UNCHANGED <<queue, task, phase, wanted, expired, done, cancelled>>

\* Mutant: the task that is taken stays in the queue.
TakeWithoutPop(t) ==
    /\ AtLoopHead(t)
    /\ stop_count = 0 /\ queue # <<>>
    /\ active_count' = active_count + WakeCount(t)
    /\ task' = [task EXCEPT ![t] = Head(queue)]
    /\ pc' = [pc EXCEPT ![t] = "serve"]
    /\ UNCHANGED <<pool, queue, phase, expired, done, cancelled>>

Take(t) ==
    /\ AtLoopHead(t)
    /\ stop_count = 0 /\ queue # <<>>
    /\ active_count' = active_count + WakeCount(t)
    /\ task' = [task EXCEPT ![t] = Head(queue)]
    /\ queue' = Tail(queue)
    /\ pc' = [pc EXCEPT ![t] = "serve"]
    /\ UNCHANGED <<pool, phase, expired, done, cancelled>>

\* service() returns or raises: every exception is caught.
ServiceEnds(t) ==
    /\ pc[t] = "serve"
    /\ done' = done \union {task[t]}
    /\ pc' = [pc EXCEPT ![t] = "ready"]
    /\ UNCHANGED <<pool, queue, active_count, task, phase, expired, cancelled>>

----------------------------------------------------------------------------
(* add_task and set_thread_count, by whoever calls them.                    *)

\* Mutant: add_task does not notify.
NotifyNone == pc' = pc

\* pc after one queue_cv.notify(), and after queue_cv.notify_all().
NotifyOne ==
    IF At("wait") = {} THEN pc' = pc
    ELSE \E w \in At("wait") : pc' = [pc EXCEPT ![w] = "woken"]

\* Mutant: notify_all() is forgotten.
NotNotified == pc

Notified == [t \in ThreadNos |-> IF pc[t] = "wait" THEN "woken" ELSE pc[t]]

AddTask(k) ==
    /\ k \notin Used
    /\ queue' = Append(queue, k)
    /\ NotifyOne
    /\ UNCHANGED <<pool, active_count, task, phase, expired, done, cancelled>>

MainAdds(k) == phase = "run" /\ AddTask(k)

\* A channel's service() adds the channel again for its next request.
ServiceAdds(t, k) == pc[t] = "serve" /\ AddTask(k)

\* Mutant: the stops that are pending are forgotten.
AllThreads == Cardinality(threads)

Unstopped == Cardinality(threads) - stop_count

StartThreads(count) ==
    /\ Unstopped < count
    /\ \E new \in SUBSET (ThreadNos \ threads) :
          /\ Cardinality(new) = count - Unstopped
          /\ threads' = threads \union new
          /\ pc' = [t \in ThreadNos |-> IF t \in new THEN "ready" ELSE pc[t]]
    /\ active_count' = active_count + (count - Unstopped)
    /\ UNCHANGED stop_count

\* Mutant: the difference is taken the wrong way round.
StopThreadsSwapped(count) ==
    /\ Unstopped > count
    /\ stop_count' = stop_count + (count - Unstopped)
    /\ pc' = Notified
    /\ UNCHANGED <<threads, active_count>>

StopThreads(count) ==
    /\ Unstopped > count
    /\ stop_count' = stop_count + (Unstopped - count)
    /\ pc' = Notified
    /\ UNCHANGED <<threads, active_count>>

KeepThreads(count) ==
    /\ Unstopped = count
    /\ UNCHANGED <<threads, stop_count, active_count, pc>>

SetThreadCount(count) ==
    /\ StartThreads(count) \/ StopThreads(count) \/ KeepThreads(count)
    /\ wanted' = count
    /\ UNCHANGED <<queue, task, expired, done, cancelled>>

Resize(count) == phase = "run" /\ SetThreadCount(count) /\ UNCHANGED phase

----------------------------------------------------------------------------
(* shutdown(): stop all the threads, wait for them until the timeout, then  *)
(* cancel what is left in the queue.                                        *)

BeginShutdown ==
    /\ phase = "run"
    /\ SetThreadCount(0)
    /\ phase' = "stopping"

\* Mutant: shutdown() does not wait for threads that still have work.
FinishWithoutWaiting ==
    /\ phase = "stopping"
    /\ phase' = "down"
    /\ expired' = FALSE
    /\ cancelled' = cancelled \union Queued
    /\ queue' = <<>>
    /\ pc' = Notified
    /\ UNCHANGED <<pool, active_count, task, done>>

FinishShutdown ==
    /\ phase = "stopping"
    /\ phase' = "down"
    /\ expired' = (threads # {})      \* gone, or else the timeout has passed
    /\ cancelled' = cancelled \union Queued
    /\ queue' = <<>>
    /\ pc' = Notified
    /\ UNCHANGED <<pool, active_count, task, done>>

Terminated == phase = "down" /\ threads = {} /\ UNCHANGED vars

Handler(t) == Wait(t) \/ Stop(t) \/ Take(t) \/ ServiceEnds(t)

Next ==
    \/ \E t \in ThreadNos : Handler(t)
    \/ \E t \in ThreadNos, k \in Tasks : ServiceAdds(t, k)
    \/ \E k \in Tasks : MainAdds(k)
    \/ \E count \in Counts : Resize(count)
    \/ BeginShutdown
    \/ FinishShutdown
    \/ Terminated

Spec == Init /\ [][Next]_vars

\* The interpreter schedules every thread, a task's service() ends
\* (docs/design.rst: "it will eventually complete"), and shutdown() times out.
Fairness ==
    /\ \A t \in ThreadNos : WF_vars(Handler(t))
    /\ WF_vars(FinishShutdown)

FairSpec == Spec /\ Fairness

----------------------------------------------------------------------------
(* Properties *)

\* The idle-thread figure of add_task's warning is right: active_count, which
\* is decremented before a wait and incremented after it by the thread that
\* waits, is the number of threads that neither wait nor are on their way out
\* of a wait, whatever the order in which threads stop, wake and are started.
ActiveCountAccurate ==
    active_count = Cardinality(At("ready") \union At("serve"))

\* set_thread_count takes effect exactly, also while threads that an earlier
\* call told to stop have not stopped yet: the pending stops are never lost,
\* double-counted or taken by a thread that has already left the pool.
CountHonoured ==
    /\ threads = ThreadNos \ At("off")
    /\ Cardinality(threads) - stop_count = wanted

\* add_task's single notify() suffices: while a thread sleeps on queue_cv,
\* every queued task has a thread of its own that is awake and about to look
\* at the queue.  A thread that took a notify() and then stopped, or found the
\* queue emptied by another thread, must not have taken a wakeup with it.
NoLostWakeup ==
    At("wait") # {} =>
        Len(queue) =< Cardinality(At("ready") \union At("woken"))

\* No thread sleeps through set_thread_count's notify_all(): while a stop is
\* pending nobody waits on queue_cv, so the stop will be taken.
StopsAreSeen == stop_count > 0 => At("wait") = {}

\* A shutdown() that was not cut short by its timeout leaves nothing behind:
\* no task queued, none in service, and no thread that could add another.
ShutdownDrains ==
    phase = "down" /\ ~expired => queue = <<>> /\ Serving = {} /\ threads = {}

\* The dispatcher implements the work queue: nothing is started twice, dropped,
\* started out of order, or both serviced and cancelled.
WQ == INSTANCE WorkQueue WITH order <- queue, running <- Serving

ImplementsWorkQueue == WQ!WQSpec

\* Every task that was added is serviced or cancelled in the end, provided that
\* the pool size settles on some positive count and shutdown() is not cut short.
Settled == \E c \in Counts \ {0} : <>[](phase = "run" => wanted = c)

EveryTaskResolved ==
    Settled /\ []~expired =>
        \A k \in Tasks : (k \in Used) ~> (k \in done \union cancelled)

\* If the requested count stops changing, the pool gets to that size and stays
\* there: all superfluous threads do stop, and after shutdown() all of them.
PoolConverges ==
    \A c \in Counts : <>[](wanted = c) => <>[](Cardinality(threads) = c)

=============================================================================
