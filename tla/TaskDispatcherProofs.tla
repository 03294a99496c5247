------------------------- MODULE TaskDispatcherProofs -------------------------
(****************************************************************************)
(* Proofs about TaskDispatcher, for every set of tasks, every finite set of *)
(* thread numbers and every sequence of pool sizes.                         *)
(****************************************************************************)
EXTENDS TaskDispatcher, FiniteSetTheorems, TLAPS

\* The threads that count as active, and those about to look at the queue.
Active == At("ready") \union At("serve")
Awake == At("ready") \union At("woken")

\* Every set of thread numbers is finite.
LEMMA ThreadSets ==
    /\ \A S \in SUBSET ThreadNos : IsFiniteSet(S) /\ Cardinality(S) \in Nat
    /\ \A l : At(l) \in SUBSET ThreadNos
    /\ Active \in SUBSET ThreadNos
    /\ Awake \in SUBSET ThreadNos
<1>1. \A S \in SUBSET ThreadNos : IsFiniteSet(S)
  BY ThreadNosFinite, FS_Subset
<1>2. \A S \in SUBSET ThreadNos : Cardinality(S) \in Nat
  BY <1>1, FS_CardinalityType
<1> QED
  BY <1>1, <1>2 DEF At, Active, Awake

\* Adding a new element to a set of threads, and removing one, counts as one.
LEMMA CountOne ==
    ASSUME NEW S \in SUBSET ThreadNos, NEW t \in ThreadNos
    PROVE  /\ t \notin S => Cardinality(S \union {t}) = Cardinality(S) + 1
           /\ t \in S => Cardinality(S \ {t}) = Cardinality(S) - 1
<1>1. IsFiniteSet(S)
  BY ThreadSets
<1> QED
  BY <1>1, FS_AddElement, FS_RemoveElement

\* The union of two disjoint sets of threads has the sum of their sizes.
LEMMA CountUnion ==
    ASSUME NEW S \in SUBSET ThreadNos, NEW T \in SUBSET ThreadNos, S \cap T = {}
    PROVE  Cardinality(S \union T) = Cardinality(S) + Cardinality(T)
<1>1. IsFiniteSet(S) /\ IsFiniteSet(T)
  BY ThreadSets
<1>2. Cardinality(S \union T) = Cardinality(S) + Cardinality(T) - Cardinality(S \cap T)
  BY <1>1, FS_Union
<1>3. Cardinality(S \cap T) = 0
  BY FS_EmptySet
<1>4. Cardinality(S) \in Nat /\ Cardinality(T) \in Nat
  BY ThreadSets
<1> QED
  BY <1>2, <1>3, <1>4

----------------------------------------------------------------------------
(* Types *)

LEMMA TypeInit == Init => TypeOK
<1> SUFFICES ASSUME Init PROVE TypeOK
  OBVIOUS
<1>1. <<>> \in Seq(Tasks)
  OBVIOUS
<1>2. At("serve") = {}
  BY DEF Init, At
<1>3. expired \in BOOLEAN
  BY DEF Init
<1> QED
  BY <1>1, <1>2, <1>3 DEF Init, TypeOK

LEMMA TypeStep == TypeOK /\ [Next]_vars => TypeOK'
<1> SUFFICES ASSUME TypeOK, [Next]_vars PROVE TypeOK'
  OBVIOUS
<1>0. Cardinality(threads) \in Nat
  BY ThreadSets DEF TypeOK
<1> USE DEF TypeOK, At, pool
<1>1. ASSUME NEW t \in ThreadNos, Wait(t) PROVE TypeOK'
  BY <1>1 DEF Wait, WakeCount
<1>2. ASSUME NEW t \in ThreadNos, Stop(t) PROVE TypeOK'
  BY <1>2 DEF Stop, WakeCount
<1>3. ASSUME NEW t \in ThreadNos, Take(t) PROVE TypeOK'
  <2>1. Head(queue) \in Tasks /\ Tail(queue) \in Seq(Tasks)
    BY <1>3 DEF Take
  <2> QED
    BY <1>3, <2>1 DEF Take, WakeCount
<1>4. ASSUME NEW t \in ThreadNos, ServiceEnds(t) PROVE TypeOK'
  BY <1>4 DEF ServiceEnds
<1>5. ASSUME NEW k \in Tasks, AddTask(k), UNCHANGED phase PROVE TypeOK'
  <2>1. Append(queue, k) \in Seq(Tasks)
    OBVIOUS
  <2>2. pc' \in [ThreadNos -> {"off", "ready", "wait", "woken", "serve"}]
    BY <1>5 DEF AddTask, NotifyOne
  <2>3. \A t \in ThreadNos : pc'[t] = "serve" => pc[t] = "serve"
    BY <1>5 DEF AddTask, NotifyOne
  <2> QED
    BY <1>5, <2>1, <2>2, <2>3 DEF AddTask
<1>6. ASSUME NEW count \in Nat, SetThreadCount(count), phase' \in {"run", "stopping"}
      PROVE  TypeOK'
  <2>1. CASE StartThreads(count)
    BY <1>0, <1>6, <2>1 DEF SetThreadCount, StartThreads, Unstopped
  <2>2. CASE StopThreads(count)
    BY <1>0, <1>6, <2>2 DEF SetThreadCount, StopThreads, Unstopped, Notified
  <2>3. CASE KeepThreads(count)
    BY <1>6, <2>3 DEF SetThreadCount, KeepThreads
  <2> QED
    BY <1>6, <2>1, <2>2, <2>3 DEF SetThreadCount
<1>7. CASE FinishShutdown
  <2>1. <<>> \in Seq(Tasks)
    OBVIOUS
  <2>2. Queued \subseteq Tasks
    BY DEF Queued
  <2> QED
    BY <1>7, <2>1, <2>2 DEF FinishShutdown, Notified
<1>8. CASE UNCHANGED vars
  BY <1>8 DEF vars
<1> QED
  BY <1>1, <1>2, <1>3, <1>4, <1>5, <1>6, <1>7, <1>8, CountsAreNat
  DEF Next, Handler, ServiceAdds, MainAdds, Resize, BeginShutdown, Terminated, AddTask

\* Type correctness of the dispatcher's attributes and of its threads' states;
\* in particular stop_count never goes below zero.
THEOREM TypeCorrect == Spec => []TypeOK
BY TypeInit, TypeStep, PTL DEF Spec

----------------------------------------------------------------------------
(* The pool's accounting: how the size of a set of threads changes when one *)
(* thread goes from one label to another.                                   *)

Accounting == ActiveCountAccurate /\ CountHonoured /\ StopsAreSeen

LEMMA AccountingInit == Init => Accounting
<1> SUFFICES ASSUME Init PROVE Accounting
  OBVIOUS
<1>1. At("ready") \union At("serve") = {} /\ ThreadNos \ At("off") = {}
  BY DEF Init, At
<1>2. Cardinality({}) = 0
  BY FS_EmptySet
<1>3. ActiveCountAccurate
  BY <1>1, <1>2 DEF Init, ActiveCountAccurate
<1>4. CountHonoured
  BY <1>1, <1>2 DEF Init, CountHonoured
<1>5. StopsAreSeen
  BY DEF Init, StopsAreSeen
<1> QED
  BY <1>3, <1>4, <1>5 DEF Accounting

LEMMA AccountingStep == TypeOK /\ Accounting /\ [Next]_vars => Accounting'
<1> SUFFICES ASSUME TypeOK, Accounting, [Next]_vars PROVE Accounting'
  OBVIOUS
<1>0. /\ threads \in SUBSET ThreadNos /\ threads = ThreadNos \ At("off")
      /\ Cardinality(threads) \in Nat
      /\ Cardinality(Active) \in Nat
      /\ active_count = Cardinality(Active)
      /\ stop_count \in Nat
      /\ pc \in [ThreadNos -> {"off", "ready", "wait", "woken", "serve"}]
      /\ Cardinality(threads) - stop_count = wanted
  BY ThreadSets
  DEF TypeOK, Accounting, ActiveCountAccurate, CountHonoured, Active
<1>a. ASSUME active_count' = Cardinality(Active'), CountHonoured', StopsAreSeen'
      PROVE  Accounting'
  BY <1>a DEF Accounting, ActiveCountAccurate, Active
<1>b. Active \in SUBSET ThreadNos
  BY ThreadSets
<1>c. ASSUME NEW t \in ThreadNos, AtLoopHead(t)
      PROVE  pc[t] \in {"ready", "woken"} /\ t \in threads
  BY <1>0, <1>c DEF AtLoopHead, At
\* What becomes of active_count when a thread at the loop's head moves on.
<1>d. ASSUME NEW t \in ThreadNos, AtLoopHead(t), Active' = Active \ {t},
             active_count' = active_count + WakeCount(t) - 1
      PROVE  active_count' = Cardinality(Active')
  <2>1. CASE pc[t] = "ready"
    <3>1. t \in Active /\ WakeCount(t) = 0
      BY <2>1 DEF Active, At, WakeCount
    <3> QED
      BY <1>0, <1>b, <1>d, <3>1, CountOne
  <2>2. CASE pc[t] = "woken"
    <3>1. t \notin Active
      BY <2>2 DEF Active, At
    <3>2. Active' = Active
      BY <1>d, <3>1
    <3>3. WakeCount(t) = 1
      BY <2>2 DEF WakeCount
    <3>4. active_count' = active_count
      BY <1>0, <1>d, <3>3
    <3> QED
      BY <1>0, <3>2, <3>4
  <2> QED
    BY <1>c, <1>d, <2>1, <2>2
<1>1. ASSUME NEW t \in ThreadNos, Wait(t) PROVE Accounting'
  <2>1. Active' = Active \ {t} /\ At("off")' = At("off")
    BY <1>0, <1>1 DEF Wait, AtLoopHead, Active, At
  <2>2. active_count' = Cardinality(Active')
    BY <1>1, <1>d, <2>1 DEF Wait
  <2>3. CountHonoured' /\ StopsAreSeen'
    BY <1>0, <1>1, <2>1 DEF Wait, CountHonoured, StopsAreSeen, pool
  <2> QED
    BY <1>a, <2>2, <2>3
<1>2. ASSUME NEW t \in ThreadNos, Stop(t) PROVE Accounting'
  <2>1. Active' = Active \ {t} /\ At("off")' = At("off") \union {t}
        /\ At("wait")' = At("wait")
    BY <1>0, <1>2 DEF Stop, AtLoopHead, Active, At
  <2>2. active_count' = Cardinality(Active')
    BY <1>2, <1>d, <2>1 DEF Stop
  <2>3. Cardinality(threads') = Cardinality(threads) - 1
    BY <1>0, <1>2, <1>c, CountOne DEF Stop
  <2>4. CountHonoured'
    BY <1>0, <1>2, <2>1, <2>3 DEF Stop, CountHonoured
  <2>5. StopsAreSeen'
    BY <1>2, <2>1 DEF Stop, StopsAreSeen, Accounting
  <2> QED
    BY <1>a, <2>2, <2>4, <2>5
<1>3. ASSUME NEW t \in ThreadNos, Take(t) PROVE Accounting'
  <2>1. Active' = Active \union {t} /\ At("off")' = At("off")
    BY <1>0, <1>3 DEF Take, AtLoopHead, Active, At
  <2>2. active_count' = Cardinality(Active')
    <3>1. CASE pc[t] = "ready"
      <4>1. Active' = Active /\ WakeCount(t) = 0
        BY <2>1, <3>1 DEF Active, At, WakeCount
      <4> QED
        BY <1>0, <1>3, <4>1 DEF Take
    <3>2. CASE pc[t] = "woken"
      <4>1. t \notin Active /\ WakeCount(t) = 1
        BY <3>2 DEF Active, At, WakeCount
      <4> QED
        BY <1>0, <1>3, <1>b, <2>1, <4>1, CountOne DEF Take
    <3> QED
      BY <1>3, <1>c, <3>1, <3>2 DEF Take
  <2>3. CountHonoured' /\ StopsAreSeen'
    BY <1>0, <1>3, <2>1 DEF Take, CountHonoured, StopsAreSeen, pool
  <2> QED
    BY <1>a, <2>2, <2>3
<1>4. ASSUME NEW t \in ThreadNos, ServiceEnds(t) PROVE Accounting'
  <2>1. Active' = Active /\ At("off")' = At("off") /\ At("wait")' = At("wait")
    BY <1>0, <1>4 DEF ServiceEnds, Active, At
  <2> QED
    BY <1>0, <1>a, <1>4, <2>1
    DEF ServiceEnds, Accounting, CountHonoured, StopsAreSeen, pool
<1>5. ASSUME NEW k \in Tasks, AddTask(k) PROVE Accounting'
  <2>1. \A t \in ThreadNos :
           pc'[t] = pc[t] \/ (pc[t] = "wait" /\ pc'[t] = "woken")
    BY <1>0, <1>5 DEF AddTask, NotifyOne, At
  <2>2. Active' = Active /\ At("off")' = At("off")
        /\ At("wait")' \subseteq At("wait")
    BY <2>1 DEF Active, At
  <2> QED
    BY <1>0, <1>a, <1>5, <2>2
    DEF AddTask, Accounting, CountHonoured, StopsAreSeen, pool
<1>6. ASSUME NEW count \in Nat, SetThreadCount(count) PROVE Accounting'
  <2>1. CASE StartThreads(count)
    <3>1. PICK new \in SUBSET (ThreadNos \ threads) :
             /\ Cardinality(new) = count - Unstopped
             /\ threads' = threads \union new
             /\ pc' = [t \in ThreadNos |-> IF t \in new THEN "ready" ELSE pc[t]]
      BY <2>1 DEF StartThreads
    <3>2. Cardinality(threads') = Cardinality(threads) + Cardinality(new)
      BY <1>0, <3>1, CountUnion
    <3>3. Active' = Active \union new /\ Active \cap new = {}
          /\ At("off")' = At("off") \ new /\ At("wait")' = At("wait")
      BY <1>0, <3>1 DEF Active, At
    <3>4. Cardinality(Active') = Cardinality(Active) + Cardinality(new)
      BY <1>b, <3>1, <3>3, CountUnion
    <3>5. active_count' = Cardinality(Active')
      BY <1>0, <2>1, <3>1, <3>4 DEF StartThreads, Unstopped
    <3>6. CountHonoured'
      BY <1>0, <1>6, <2>1, <3>1, <3>2, <3>3
      DEF SetThreadCount, StartThreads, Unstopped, CountHonoured
    <3>7. StopsAreSeen'
      BY <2>1, <3>3 DEF StartThreads, StopsAreSeen, Accounting
    <3> QED
      BY <1>a, <3>5, <3>6, <3>7
  <2>2. CASE StopThreads(count)
    <3>1. Active' = Active /\ At("off")' = At("off") /\ At("wait")' = {}
      BY <1>0, <2>2 DEF StopThreads, Notified, Active, At
    <3>2. CountHonoured'
      BY <1>0, <1>6, <2>2, <3>1
      DEF SetThreadCount, StopThreads, Unstopped, CountHonoured
    <3> QED
      BY <1>0, <1>a, <2>2, <3>1, <3>2 DEF StopThreads, StopsAreSeen
  <2>3. CASE KeepThreads(count)
    <3>1. Active' = Active /\ At("off")' = At("off") /\ At("wait")' = At("wait")
      BY <2>3 DEF KeepThreads, Active, At
    <3> QED
      BY <1>0, <1>a, <1>6, <2>3, <3>1
      DEF SetThreadCount, KeepThreads, Unstopped, Accounting, CountHonoured,
          StopsAreSeen
  <2> QED
    BY <1>6, <2>1, <2>2, <2>3 DEF SetThreadCount
<1>7. CASE FinishShutdown
  <2>1. Active' = Active /\ At("off")' = At("off") /\ At("wait")' = {}
    BY <1>0, <1>7 DEF FinishShutdown, Notified, Active, At
  <2> QED
    BY <1>0, <1>a, <1>7, <2>1
    DEF FinishShutdown, CountHonoured, StopsAreSeen, pool
<1>8. CASE UNCHANGED vars
  <2>1. Active' = Active /\ At("off")' = At("off") /\ At("wait")' = At("wait")
    BY <1>8 DEF vars, Active, At
  <2> QED
    BY <1>0, <1>a, <1>8, <2>1
    DEF vars, Accounting, CountHonoured, StopsAreSeen
<1> QED
  BY <1>1, <1>2, <1>3, <1>4, <1>5, <1>6, <1>7, <1>8, CountsAreNat
  DEF Next, Handler, ServiceAdds, MainAdds, Resize, BeginShutdown, Terminated

\* The three need each other: a stop that nobody sees would leave the count.
LEMMA PoolAccounting ==
    Spec => [](ActiveCountAccurate /\ CountHonoured /\ StopsAreSeen)
<1>1. Init => TypeOK /\ Accounting
  BY TypeInit, AccountingInit
<1>2. TypeOK /\ Accounting /\ [Next]_vars => TypeOK' /\ Accounting'
  BY TypeStep, AccountingStep
<1>3. Accounting => ActiveCountAccurate /\ CountHonoured /\ StopsAreSeen
  BY DEF Accounting
<1> QED
  BY <1>1, <1>2, <1>3, PTL DEF Spec

\* For every pool: active_count, changed on both sides of a wait by threads that
\* may stop instead, is the number of threads that do not wait (task.py:64-79).
THEOREM ActiveCountIsExact == Spec => []ActiveCountAccurate
BY PoolAccounting, PTL

\* For every pool: set_thread_count takes effect exactly, also while stops of an
\* earlier call are pending (task.py:87-104).
THEOREM ResizesAreHonoured == Spec => []CountHonoured
BY PoolAccounting, PTL

\* For every pool: nobody sleeps on queue_cv while a stop is pending
\* (task.py:64-79, 101-104).
THEOREM StopsReachThreads == Spec => []StopsAreSeen
BY PoolAccounting, PTL

----------------------------------------------------------------------------
(* No lost wakeup *)

LEMMA WakeupInit == Init => NoLostWakeup
BY DEF Init, NoLostWakeup, At

LEMMA WakeupStep ==
    TypeOK /\ Accounting /\ NoLostWakeup /\ [Next]_vars => NoLostWakeup'
<1> SUFFICES ASSUME TypeOK, StopsAreSeen, NoLostWakeup, [Next]_vars,
                    At("wait")' # {}
             PROVE  Len(queue') =< Cardinality(Awake')
  BY DEF Accounting, NoLostWakeup, Awake
<1>0. /\ pc \in [ThreadNos -> {"off", "ready", "wait", "woken", "serve"}]
      /\ Awake \in SUBSET ThreadNos /\ Awake' \in SUBSET ThreadNos
      /\ Cardinality(Awake) \in Nat /\ Cardinality(Awake') \in Nat
      /\ Len(queue) \in Nat
      /\ queue \in Seq(Tasks)
      /\ stop_count \in Nat
  BY ThreadSets DEF TypeOK, Awake, At
<1>a. At("wait") # {} => Len(queue) =< Cardinality(Awake)
  BY DEF NoLostWakeup, Awake
\* A step after which no fewer threads are awake and no more tasks are queued.
<1>b. ASSUME Awake \subseteq Awake', queue' = queue, At("wait") # {}
      PROVE  Len(queue') =< Cardinality(Awake')
  <2>1. Cardinality(Awake) =< Cardinality(Awake')
    BY <1>0, <1>b, ThreadSets, FS_Subset
  <2> QED
    BY <1>0, <1>a, <1>b, <2>1
<1>1. ASSUME NEW t \in ThreadNos, Wait(t)
      PROVE  Len(queue') =< Cardinality(Awake')
  <2>1. Len(queue') = 0
    BY <1>1 DEF Wait
  <2> QED
    BY <1>0, <2>1
<1>2. ASSUME NEW t \in ThreadNos, Stop(t)
      PROVE  Len(queue') =< Cardinality(Awake')
  <2>1. At("wait") = {}
    BY <1>2 DEF Stop, StopsAreSeen
  <2>2. At("wait")' = {}
    BY <1>0, <1>2, <2>1 DEF Stop, At
  <2> QED
    BY <2>2
<1>3. ASSUME NEW t \in ThreadNos, Take(t)
      PROVE  Len(queue') =< Cardinality(Awake')
  <2>1. Awake' = Awake \ {t} /\ t \in Awake /\ At("wait")' = At("wait")
    BY <1>0, <1>3 DEF Take, AtLoopHead, Awake, At
  <2>2. Cardinality(Awake') = Cardinality(Awake) - 1
    BY <1>0, <2>1, CountOne
  <2>3. Len(queue') = Len(queue) - 1
    BY <1>0, <1>3 DEF Take
  <2> QED
    BY <1>0, <1>a, <2>1, <2>2, <2>3
<1>4. ASSUME NEW t \in ThreadNos, ServiceEnds(t)
      PROVE  Len(queue') =< Cardinality(Awake')
  <2>1. Awake \subseteq Awake' /\ At("wait")' = At("wait")
    BY <1>0, <1>4 DEF ServiceEnds, Awake, At
  <2> QED
    BY <1>4, <1>b, <2>1 DEF ServiceEnds
<1>5. ASSUME NEW k \in Tasks, AddTask(k)
      PROVE  Len(queue') =< Cardinality(Awake')
  <2>1. At("wait") # {}
    BY <1>0, <1>5 DEF AddTask, NotifyOne, At
  <2>2. PICK w \in At("wait") : pc' = [pc EXCEPT ![w] = "woken"]
    BY <1>5, <2>1 DEF AddTask, NotifyOne
  <2>3. w \in ThreadNos /\ pc[w] = "wait"
    BY DEF At
  <2>4. Awake' = Awake \union {w} /\ w \notin Awake
    BY <1>0, <2>2, <2>3 DEF Awake, At
  <2>5. Cardinality(Awake') = Cardinality(Awake) + 1
    BY <1>0, <2>3, <2>4, CountOne
  <2>6. Len(queue') = Len(queue) + 1
    BY <1>0, <1>5 DEF AddTask
  <2> QED
    BY <1>0, <1>a, <2>1, <2>5, <2>6
<1>6. ASSUME NEW count \in Nat, SetThreadCount(count)
      PROVE  Len(queue') =< Cardinality(Awake')
  <2>1. CASE StartThreads(count)
    <3>1. PICK new \in SUBSET (ThreadNos \ threads) :
             pc' = [t \in ThreadNos |-> IF t \in new THEN "ready" ELSE pc[t]]
      BY <2>1 DEF StartThreads
    <3>2. Awake \subseteq Awake' /\ At("wait")' \subseteq At("wait")
      BY <1>0, <3>1 DEF Awake, At
    <3> QED
      BY <1>6, <1>b, <3>2 DEF SetThreadCount
  <2>2. CASE StopThreads(count)
    <3>1. At("wait")' = {}
      BY <1>0, <2>2 DEF StopThreads, Notified, At
    <3> QED
      BY <3>1
  <2>3. CASE KeepThreads(count)
    <3>1. Awake' = Awake /\ At("wait")' = At("wait")
      BY <2>3 DEF KeepThreads, Awake, At
    <3> QED
      BY <1>6, <1>b, <3>1 DEF SetThreadCount
  <2> QED
    BY <1>6, <2>1, <2>2, <2>3 DEF SetThreadCount
<1>7. CASE FinishShutdown
  <2>1. At("wait")' = {}
    BY <1>0, <1>7 DEF FinishShutdown, Notified, At
  <2> QED
    BY <2>1
<1>8. CASE UNCHANGED vars
  <2>1. Awake' = Awake /\ At("wait")' = At("wait")
    BY <1>8 DEF vars, Awake, At
  <2> QED
    BY <1>8, <1>b, <2>1 DEF vars
<1> QED
  BY <1>1, <1>2, <1>3, <1>4, <1>5, <1>6, <1>7, <1>8, CountsAreNat
  DEF Next, Handler, ServiceAdds, MainAdds, Resize, BeginShutdown, Terminated

\* For every pool: add_task's single notify() never strands a task while a
\* thread sleeps.  It needs StopsAreSeen: a woken thread that stops instead of
\* taking the task could otherwise leave a sleeping one behind.
THEOREM NoWakeupIsLost == Spec => []NoLostWakeup
<1>1. Init => TypeOK /\ Accounting /\ NoLostWakeup
  BY TypeInit, AccountingInit, WakeupInit
<1>2. TypeOK /\ Accounting /\ NoLostWakeup /\ [Next]_vars
      => TypeOK' /\ Accounting' /\ NoLostWakeup'
  BY TypeStep, AccountingStep, WakeupStep
<1> QED
  BY <1>1, <1>2, PTL DEF Spec

----------------------------------------------------------------------------
(* Shutdown *)

\* ShutdownDrains in the form in which it is inductive: after an unhurried
\* shutdown the pool has no thread, so nothing can be taken or added.
Drained ==
    /\ phase = "down" /\ ~expired => queue = <<>> /\ threads = {}
    /\ threads = ThreadNos \ At("off")

LEMMA DrainedStep ==
    TypeOK /\ CountHonoured /\ CountHonoured' /\ Drained /\ [Next]_vars => Drained'
<1> SUFFICES ASSUME TypeOK, CountHonoured', Drained, [Next]_vars,
                    phase' = "down", ~expired'
             PROVE  queue' = <<>> /\ threads' = {}
  BY DEF Drained, CountHonoured
<1>1. CASE FinishShutdown
  BY <1>1 DEF FinishShutdown, pool
<1>2. ASSUME phase = "down", ~expired
      PROVE  UNCHANGED <<queue, threads>>
  <2>1. \A t \in ThreadNos : pc[t] = "off"
    BY <1>2 DEF Drained, At
  <2>2. ~(\E t \in ThreadNos : Handler(t))
    BY <2>1 DEF Handler, Wait, Stop, Take, ServiceEnds, AtLoopHead
  <2>3. ~(\E t \in ThreadNos, k \in Tasks : ServiceAdds(t, k))
    BY <2>1 DEF ServiceAdds
  <2> QED
    BY <1>2, <2>2, <2>3
    DEF Next, MainAdds, Resize, BeginShutdown, FinishShutdown, Terminated, vars
<1>3. ASSUME ~FinishShutdown
      PROVE  phase = "down" /\ ~expired
  BY <1>3
  DEF Next, Handler, Wait, Stop, Take, ServiceEnds, ServiceAdds, MainAdds,
      AddTask, Resize, SetThreadCount, BeginShutdown, Terminated, vars
<1> QED
  BY <1>1, <1>2, <1>3 DEF Drained

\* For every pool: after a shutdown() whose wait did not expire no task is
\* queued or in service and no thread is left that could add one.
THEOREM ShutdownLeavesNothing == Spec => []ShutdownDrains
<1>1. Init => TypeOK /\ Accounting /\ Drained
  BY TypeInit, AccountingInit DEF Init, Drained, Accounting, CountHonoured
<1>2. TypeOK /\ Accounting /\ Drained /\ [Next]_vars
      => TypeOK' /\ Accounting' /\ Drained'
  BY TypeStep, AccountingStep, DrainedStep DEF Accounting
<1>3. Drained => ShutdownDrains
  BY DEF Drained, ShutdownDrains, Serving, At
<1> QED
  BY <1>1, <1>2, <1>3, PTL DEF Spec

----------------------------------------------------------------------------
(* Refinement of the work queue *)

\* No task is in two places: two threads, two places of the queue, or both.
OnePlace ==
    /\ \A t, u \in At("serve") : task[t] = task[u] => t = u
    /\ \A i, j \in DOMAIN queue : queue[i] = queue[j] => i = j
    /\ Queued \cap Serving = {}

LEMMA OnePlaceInit == Init => OnePlace
BY DEF Init, OnePlace, Queued, At

LEMMA OnePlaceStep == TypeOK /\ OnePlace /\ [Next]_vars => OnePlace'
<1> SUFFICES ASSUME TypeOK, OnePlace, [Next]_vars PROVE OnePlace'
  OBVIOUS
<1>0. /\ pc \in [ThreadNos -> {"off", "ready", "wait", "woken", "serve"}]
      /\ task \in [ThreadNos -> Tasks \union {"none"}]
      /\ queue \in Seq(Tasks)
  BY DEF TypeOK
\* A step that neither takes nor adds a task.
<1>a. ASSUME queue' = queue \/ queue' = <<>>, task' = task,
             At("serve")' \subseteq At("serve")
      PROVE  OnePlace'
  BY <1>a DEF OnePlace, Queued, Serving
<1>1. ASSUME NEW t \in ThreadNos, Wait(t) \/ Stop(t) \/ ServiceEnds(t)
      PROVE  OnePlace'
  <2>1. queue' = queue /\ task' = task
    BY <1>1 DEF Wait, Stop, ServiceEnds
  <2>2. At("serve")' \subseteq At("serve")
    BY <1>0, <1>1 DEF Wait, Stop, ServiceEnds, At
  <2> QED
    BY <1>a, <2>1, <2>2
<1>2. ASSUME NEW t \in ThreadNos, Take(t) PROVE OnePlace'
  <2>1. /\ Len(queue) \in Nat /\ Len(queue) > 0
        /\ DOMAIN queue = 1..Len(queue)
        /\ DOMAIN queue' = 1..(Len(queue) - 1)
        /\ \A i \in DOMAIN queue' : i + 1 \in DOMAIN queue /\ queue'[i] = queue[i + 1]
    BY <1>0, <1>2 DEF Take
  <2>2. /\ task'[t] = queue[1] /\ 1 \in DOMAIN queue
        /\ \A u \in ThreadNos : u # t => task'[u] = task[u]
    BY <1>0, <1>2, <2>1 DEF Take
  <2>3. At("serve")' = At("serve") \union {t} /\ t \notin At("serve")
    BY <1>0, <1>2 DEF Take, AtLoopHead, At
  <2>4. \A i \in DOMAIN queue' : queue'[i] # queue[1]
    BY <2>1, <2>2 DEF OnePlace
  <2>5. \A u \in At("serve") : task[u] # queue[1]
    BY <2>2 DEF OnePlace, Queued, Serving
  <2>6. \A u, v \in At("serve")' : task'[u] = task'[v] => u = v
    BY <2>2, <2>3, <2>5 DEF OnePlace, At
  <2>7. \A i, j \in DOMAIN queue' : queue'[i] = queue'[j] => i = j
    BY <2>1 DEF OnePlace
  <2>8. \A i \in DOMAIN queue', u \in At("serve") : queue'[i] # task[u]
    <3>1. \A i \in DOMAIN queue, u \in At("serve") : queue[i] # task[u]
      BY DEF OnePlace, Queued, Serving
    <3> QED
      BY <2>1, <3>1
  <2>9. Queued' \cap Serving' = {}
    BY <2>2, <2>3, <2>4, <2>8 DEF Queued, Serving, At
  <2> QED
    BY <2>6, <2>7, <2>9 DEF OnePlace
<1>3. ASSUME NEW k \in Tasks, AddTask(k) PROVE OnePlace'
  <2>1. task' = task /\ At("serve")' = At("serve")
    BY <1>0, <1>3 DEF AddTask, NotifyOne, At
  <2>2. /\ Len(queue) \in Nat
        /\ DOMAIN queue = 1..Len(queue)
        /\ DOMAIN queue' = 1..(Len(queue) + 1)
        /\ \A i \in DOMAIN queue : queue'[i] = queue[i]
        /\ queue'[Len(queue) + 1] = k
    BY <1>0, <1>3 DEF AddTask
  <2>3. k \notin Queued /\ k \notin Serving
    BY <1>3 DEF AddTask, Used
  <2>4. \A i \in DOMAIN queue : queue[i] # k
    BY <2>3 DEF Queued
  <2>5. \A i, j \in DOMAIN queue' : queue'[i] = queue'[j] => i = j
    BY <2>2, <2>4 DEF OnePlace
  <2>6. Queued' \subseteq Queued \union {k} /\ Serving' = Serving
    BY <2>1, <2>2 DEF Queued, Serving
  <2> QED
    BY <2>1, <2>3, <2>5, <2>6 DEF OnePlace
<1>4. ASSUME NEW count \in Nat, SetThreadCount(count) PROVE OnePlace'
  <2>1. queue' = queue /\ task' = task
    BY <1>4 DEF SetThreadCount
  <2>2. At("serve")' \subseteq At("serve")
    BY <1>0, <1>4
    DEF SetThreadCount, StartThreads, StopThreads, KeepThreads, Notified, At
  <2> QED
    BY <1>a, <2>1, <2>2
<1>5. CASE FinishShutdown
  <2>1. At("serve")' \subseteq At("serve")
    BY <1>0, <1>5 DEF FinishShutdown, Notified, At
  <2> QED
    BY <1>a, <1>5, <2>1 DEF FinishShutdown
<1>6. CASE UNCHANGED vars
  BY <1>6, <1>a DEF vars, At
<1> QED
  BY <1>1, <1>2, <1>3, <1>4, <1>5, <1>6, CountsAreNat
  DEF Next, Handler, ServiceAdds, MainAdds, Resize, BeginShutdown, Terminated

LEMMA WorkQueueStep ==
    TypeOK /\ CountHonoured /\ OnePlace /\ [Next]_vars
        => [WQ!WQNext]_(WQ!wqVars)
<1> SUFFICES ASSUME TypeOK, CountHonoured, OnePlace, [Next]_vars
             PROVE  WQ!WQNext \/ UNCHANGED <<queue, Serving, done, cancelled>>
  BY DEF WQ!wqVars
<1>0. /\ pc \in [ThreadNos -> {"off", "ready", "wait", "woken", "serve"}]
      /\ task \in [ThreadNos -> Tasks \union {"none"}]
      /\ queue \in Seq(Tasks)
  BY DEF TypeOK
<1>1. ASSUME NEW t \in ThreadNos, Wait(t) \/ Stop(t)
      PROVE  UNCHANGED <<queue, Serving, done, cancelled>>
  <2>1. At("serve")' = At("serve") /\ task' = task
    BY <1>0, <1>1 DEF Wait, Stop, AtLoopHead, At
  <2> QED
    BY <1>1, <2>1 DEF Wait, Stop, Serving
<1>2. ASSUME NEW t \in ThreadNos, Take(t) PROVE WQ!Start
  <2>1. At("serve")' = At("serve") \union {t} /\ t \notin At("serve")
    BY <1>0, <1>2 DEF Take, AtLoopHead, At
  <2>2. task'[t] = Head(queue) /\ \A u \in At("serve") : task'[u] = task[u]
    BY <1>0, <1>2, <2>1 DEF Take, At
  <2>3. Serving' = Serving \union {Head(queue)}
    BY <2>1, <2>2 DEF Serving
  <2> QED
    BY <1>2, <2>3 DEF Take, WQ!Start
<1>3. ASSUME NEW t \in ThreadNos, ServiceEnds(t) PROVE WQ!Finish
  <2>1. At("serve")' = At("serve") \ {t} /\ t \in At("serve") /\ task' = task
    BY <1>0, <1>3 DEF ServiceEnds, At
  <2>2. task[t] \in Serving /\ Serving' = Serving \ {task[t]}
    BY <2>1 DEF OnePlace, Serving
  <2> QED
    BY <1>3, <2>2 DEF ServiceEnds, WQ!Finish
<1>4. ASSUME NEW k \in Tasks, AddTask(k) PROVE WQ!Add
  <2>1. At("serve")' = At("serve") /\ task' = task
    BY <1>0, <1>4 DEF AddTask, NotifyOne, At
  <2>2. k \in WQ!New
    BY <1>4 DEF AddTask, Used, Queued, WQ!New, WQ!Queued
  <2> QED
    BY <1>4, <2>1, <2>2 DEF AddTask, Serving, WQ!Add
<1>5. ASSUME NEW count \in Nat, SetThreadCount(count)
      PROVE  UNCHANGED <<queue, Serving, done, cancelled>>
  <2>1. CASE StartThreads(count)
    <3>1. PICK new \in SUBSET (ThreadNos \ threads) :
             pc' = [t \in ThreadNos |-> IF t \in new THEN "ready" ELSE pc[t]]
      BY <2>1 DEF StartThreads
    <3>2. \A t \in new : pc[t] = "off"
      BY <3>1 DEF CountHonoured, At
    <3>3. At("serve")' = At("serve")
      BY <3>1, <3>2 DEF At
    <3> QED
      BY <1>5, <3>3 DEF SetThreadCount, Serving
  <2>2. CASE StopThreads(count) \/ KeepThreads(count)
    <3>1. At("serve")' = At("serve")
      BY <1>0, <2>2 DEF StopThreads, KeepThreads, Notified, At
    <3> QED
      BY <1>5, <3>1 DEF SetThreadCount, Serving
  <2> QED
    BY <1>5, <2>1, <2>2 DEF SetThreadCount
<1>6. CASE FinishShutdown
  <2>1. At("serve")' = At("serve") /\ task' = task
    BY <1>0, <1>6 DEF FinishShutdown, Notified, At
  <2>2. Serving' = Serving
    BY <2>1 DEF Serving
  <2>3. WQ!Queued = Queued
    BY DEF Queued, WQ!Queued
  <2>4. queue' = <<>> /\ done' = done /\ cancelled' = cancelled \union Queued
    BY <1>6 DEF FinishShutdown
  <2>5. WQ!CancelQueued
    BY <2>2, <2>3, <2>4 DEF WQ!CancelQueued
  <2> QED
    BY <2>5 DEF WQ!WQNext
<1>7. CASE UNCHANGED vars
  BY <1>7 DEF vars, Serving, At
<1> QED
  BY <1>1, <1>2, <1>3, <1>4, <1>5, <1>6, <1>7, CountsAreNat
  DEF Next, Handler, ServiceAdds, MainAdds, Resize, BeginShutdown, Terminated,
      WQ!WQNext

\* For every pool: the dispatcher implements WorkQueue.  A task starts at most
\* once, in the order of the add_task calls, and is never both serviced and
\* cancelled; OnePlace is what makes the end of one service() the end of one
\* task.
THEOREM DispatcherImplementsWorkQueue == Spec => ImplementsWorkQueue
<1>1. Init => WQ!WQInit
  BY DEF Init, WQ!WQInit, Serving, At
<1>2. Init => TypeOK /\ Accounting /\ OnePlace
  BY TypeInit, AccountingInit, OnePlaceInit
<1>3. TypeOK /\ Accounting /\ OnePlace /\ [Next]_vars
      => TypeOK' /\ Accounting' /\ OnePlace' /\ [WQ!WQNext]_(WQ!wqVars)
  BY TypeStep, AccountingStep, OnePlaceStep, WorkQueueStep DEF Accounting
<1> QED
  BY <1>1, <1>2, <1>3, PTL DEF Spec, ImplementsWorkQueue, WQ!WQSpec

=============================================================================
