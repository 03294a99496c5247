------------------------------ MODULE WorkQueue ------------------------------
(****************************************************************************)
(* What the dispatcher promises about the tasks handed to it, whatever its  *)
(* threads do: a task is started at most once, tasks are started in the     *)
(* order in which they were added, a started task runs to its end, and a    *)
(* task that is still queued at shutdown is cancelled instead of started.   *)
(****************************************************************************)
EXTENDS Sequences

CONSTANT Tasks            \* one element per call of add_task

VARIABLES
    order,                \* the tasks that are queued, oldest first
    running,              \* the tasks some thread has started
    done,                 \* the tasks whose service() has ended
    cancelled             \* the tasks cancelled at shutdown

wqVars == <<order, running, done, cancelled>>

Queued == {order[i] : i \in DOMAIN order}

New == Tasks \ (Queued \union running \union done \union cancelled)

WQInit ==
    /\ order = <<>>
    /\ running = {}
    /\ done = {}
    /\ cancelled = {}

Add ==
    /\ \E k \in New : order' = Append(order, k)
    /\ UNCHANGED <<running, done, cancelled>>

Start ==
    /\ order # <<>>
    /\ running' = running \union {Head(order)}
    /\ order' = Tail(order)
    /\ UNCHANGED <<done, cancelled>>

Finish ==
    /\ \E k \in running :
          /\ running' = running \ {k}
          /\ done' = done \union {k}
    /\ UNCHANGED <<order, cancelled>>

CancelQueued ==
    /\ cancelled' = cancelled \union Queued
    /\ order' = <<>>
    /\ UNCHANGED <<running, done>>

WQNext == Add \/ Start \/ Finish \/ CancelQueued

WQSpec == WQInit /\ [][WQNext]_wqVars

=============================================================================
