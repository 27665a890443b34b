--------------------------- MODULE SchedulerState ---------------------------
(***************************************************************************)
(* The state of the task scheduler (CScheduler, src/src/scheduler.h) and   *)
(* what is to hold of it.  Scheduler has the steps.                        *)
(***************************************************************************)
EXTENDS Integers, Sequences, FiniteSets

CONSTANTS
    Server,      \* threads that may run serviceQueue
    Task,        \* functions, each scheduled once by a client
    Every,       \* those scheduled with scheduleEvery
    Delta,       \* deltaSeconds of scheduleEvery
    Delay,       \* delays clients ask for
    MaxTime      \* bound on the clock

VARIABLES
    now,
    taskQueue,   \* sequence of [f, time] in the order of the multimap
    nThreadsServicingQueue, stopRequested, stopWhenEmpty,
    at,          \* "start", "wait", "timed", "woken", "run", "ran", "out"
    until,       \* until[s]: the time s passed to wait_until
    task,        \* task[s]: the entry s runs or ran last
    asked,       \* functions that clients have scheduled
    finished,    \* functions that have run (history)
    threads      \* the threads that were started

-----------------------------------------------------------------------------
\* Every variable has its type and the queue is ordered by time.
SchedulerTyped ==
    /\ now \in 0..MaxTime
    /\ \A i \in DOMAIN taskQueue : taskQueue[i].f \in Task
    /\ \A i \in 2..Len(taskQueue) : taskQueue[i - 1].time <= taskQueue[i].time
    /\ nThreadsServicingQueue \in 0..Cardinality(Server)
    /\ at \in [Server -> {"start", "wait", "timed", "woken", "run", "ran", "out"}]
    /\ asked \subseteq Task /\ finished \subseteq asked
    /\ threads \subseteq Server

\* "Call func at/after time t": with one service thread, as the program starts,
\* no function runs earlier than it was scheduled for.  (Two threads may time out
\* on the same entry, and the second one then takes the next.)
AtOrAfter ==
    \A s \in Server : at[s] = "run" /\ threads = {s} => task[s].time <= now

\* The count that ~CScheduler asserts to be zero is the number of threads
\* inside serviceQueue, also when functions throw.
ServiceCount ==
    nThreadsServicingQueue =
        Cardinality({s \in Server : at[s] \notin {"start", "out"}})

\* A function is never in two hands: the queue and the running threads hold
\* every function at most once, and hold all that have not run.
TasksConserved ==
    /\ \A i, j \in DOMAIN taskQueue :
          taskQueue[i].f = taskQueue[j].f => i = j
    /\ \A s \in Server : at[s] = "run" =>
          /\ \A i \in DOMAIN taskQueue : taskQueue[i].f # task[s].f
          /\ \A u \in Server : at[u] = "run" /\ task[u].f = task[s].f => u = s
    /\ asked \ finished \subseteq
          {taskQueue[i].f : i \in DOMAIN taskQueue} \cup
          {task[s].f : s \in {u \in Server : at[u] = "run"}}

\* The queue is ordered by time, the count is exact, no function is lost, duplicated
\* or run by two threads, and with one service thread none runs before its time.
SchedulerSound == SchedulerTyped /\ ServiceCount /\ TasksConserved /\ AtOrAfter
=============================================================================
