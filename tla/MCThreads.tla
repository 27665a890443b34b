----------------------------- MODULE MCThreads -----------------------------
(***************************************************************************)
(* The two pieces of thread coordination, CheckQueue and Scheduler, on     *)
(* small instances.  They have no state in common, so that a behaviour     *)
(* exercises one of them, named by focus, while the other rests.           *)
(***************************************************************************)
EXTENDS CheckQueue, SchedulerState

CONSTANTS w1, w2, c1, c2, s1, s2, f1, f2

VARIABLE focus

Sched == INSTANCE Scheduler

schedVars == <<now, taskQueue, nThreadsServicingQueue, stopRequested,
               stopWhenEmpty, at, until, task, asked, finished, threads>>

InQueue == focus = "queue"
InSched == focus = "scheduler"

MCInit ==
    /\ focus \in {"queue", "scheduler"}
    /\ Init
    /\ Sched!Init /\ (InQueue => threads = {s1})

MCNext ==
    /\ UNCHANGED focus
    /\ \/ InQueue /\ Next /\ UNCHANGED schedVars
       \/ InSched /\ Sched!Next /\ UNCHANGED vars

\* With the fairness of the two specifications.
MCSpec ==
    /\ MCInit /\ [][MCNext]_<<focus, vars, schedVars>>
    /\ \A t \in Thread :
          WF_vars(InQueue /\ (Start(t) \/ FinishBatch(t) \/ Wake(t)))
    /\ WF_schedVars(InSched /\ Sched!Tick)
    /\ \A s \in Server : WF_schedVars(InSched /\ Sched!Service(s))

\* Scheduler: a due function is run, stop() ends every thread, and stop(drain) does
\* so once the queue is empty.
SchedulerServes == Sched!DueTasksRun /\ Sched!StopStops /\ Sched!DrainStops
=============================================================================
