------------------------------ MODULE Scheduler ------------------------------
(***************************************************************************)
(* The task scheduler (CScheduler, src/src/scheduler.cpp): threads in      *)
(* serviceQueue take tasks from a queue ordered by time, under one mutex   *)
(* and one condition variable.  Each action is one critical section; a     *)
(* task runs between two of them.                                          *)
(***************************************************************************)
EXTENDS SchedulerState

vars == <<now, taskQueue, nThreadsServicingQueue, stopRequested, stopWhenEmpty,
          at, until, task, asked, finished, threads>>

NoTask == [f |-> "none", time |-> 0]

\* Faulty: the queue is not ordered.
Insert_Append(q, e) == {Append(q, e)}

\* multimap::insert: e follows the i entries with the same or an earlier time.
\* (An ordered queue has one such i, and the set one element.)
Insert(q, e) ==
    {[j \in 1..(Len(q) + 1) |->
        IF j <= i THEN q[j] ELSE IF j = i + 1 THEN e ELSE q[j - 1]] :
     i \in {k \in 0..Len(q) : /\ \A j \in 1..k : q[j].time <= e.time
                              /\ \A j \in (k + 1)..Len(q) : q[j].time > e.time}}

ShouldStop == stopRequested \/ (stopWhenEmpty /\ taskQueue = <<>>)

Waiting(p) == {s \in Server : p[s] \in {"wait", "timed"}}

NotifyOne(p) ==
    IF Waiting(p) = {} THEN {p}
    ELSE {[p EXCEPT ![s] = "woken"] : s \in Waiting(p)}

NotifyAll(p) == [s \in Server |-> IF s \in Waiting(p) THEN "woken" ELSE p[s]]

\* Faulty: the count is not reduced.
Leave_NoDecrement(s, n) ==
    /\ at' \in NotifyOne([at EXCEPT ![s] = "out"])
    /\ nThreadsServicingQueue' = n

\* The end of serviceQueue; n is the present count of threads.
Leave(s, n) ==
    /\ at' \in NotifyOne([at EXCEPT ![s] = "out"])
    /\ nThreadsServicingQueue' = n - 1

\* From the head of the loop to the next wait, or out of it.
LoopHead(s, n) ==
    \/ /\ ShouldStop
       /\ Leave(s, n)
       /\ UNCHANGED until
    \/ /\ ~ ShouldStop /\ taskQueue = <<>>
       /\ at' = [at EXCEPT ![s] = "wait"]
       /\ nThreadsServicingQueue' = n
       /\ UNCHANGED until
    \/ /\ ~ ShouldStop /\ taskQueue # <<>>
       /\ at' = [at EXCEPT ![s] = "timed"]
       /\ until' = [until EXCEPT ![s] = taskQueue[1].time]
       /\ nThreadsServicingQueue' = n

\* serviceQueue is called.
Enter(s) ==
    /\ at[s] = "start"
    /\ LoopHead(s, nThreadsServicingQueue + 1)
    /\ UNCHANGED <<now, taskQueue, stopRequested, stopWhenEmpty, task, asked,
                   finished, threads>>

\* A notified thread, or one whose task is over, has the mutex again.
Resume(s) ==
    /\ at[s] \in {"woken", "ran"}
    /\ LoopHead(s, nThreadsServicingQueue)
    /\ UNCHANGED <<now, taskQueue, stopRequested, stopWhenEmpty, task, asked,
                   finished, threads>>

\* Faulty: the entry stays in the queue while its function runs.
TimeOut_NoErase(s) ==
    /\ at[s] = "timed" /\ now >= until[s]
    /\ \/ /\ ShouldStop \/ taskQueue = <<>>
          /\ LoopHead(s, nThreadsServicingQueue)
          /\ UNCHANGED <<taskQueue, task>>
       \/ /\ ~ ShouldStop /\ taskQueue # <<>>
          /\ task' = [task EXCEPT ![s] = taskQueue[1]]
          /\ at' = [at EXCEPT ![s] = "run"]
          /\ UNCHANGED <<taskQueue, until, nThreadsServicingQueue>>
    /\ UNCHANGED <<now, stopRequested, stopWhenEmpty, asked, finished,
                   threads>>

\* Faulty: a thread that was waiting takes the first entry without a look at
\* the clock.
TimeOut_NoClock(s) ==
    /\ at[s] = "timed"
    /\ \/ /\ ShouldStop \/ taskQueue = <<>>
          /\ LoopHead(s, nThreadsServicingQueue)
          /\ UNCHANGED <<taskQueue, task>>
       \/ /\ ~ ShouldStop /\ taskQueue # <<>>
          /\ task' = [task EXCEPT ![s] = taskQueue[1]]
          /\ taskQueue' = Tail(taskQueue)
          /\ at' = [at EXCEPT ![s] = "run"]
          /\ UNCHANGED <<until, nThreadsServicingQueue>>
    /\ UNCHANGED <<now, stopRequested, stopWhenEmpty, asked, finished,
                   threads>>

\* wait_until reports a time-out: the first entry, whichever it is now, is
\* taken off the queue and run.
TimeOut(s) ==
    /\ at[s] = "timed" /\ now >= until[s]
    /\ \/ /\ ShouldStop \/ taskQueue = <<>>
          /\ LoopHead(s, nThreadsServicingQueue)
          /\ UNCHANGED <<taskQueue, task>>
       \/ /\ ~ ShouldStop /\ taskQueue # <<>>
          /\ task' = [task EXCEPT ![s] = taskQueue[1]]
          /\ taskQueue' = Tail(taskQueue)
          /\ at' = [at EXCEPT ![s] = "run"]
          /\ UNCHANGED <<until, nThreadsServicingQueue>>
    /\ UNCHANGED <<now, stopRequested, stopWhenEmpty, asked, finished,
                   threads>>

\* The function returns; Repeat schedules it again Delta later.
Finish(s) ==
    /\ at[s] = "run"
    /\ finished' = finished \cup {task[s].f}
    /\ \/ /\ task[s].f \in Every
          /\ taskQueue' \in Insert(taskQueue, [f |-> task[s].f, time |-> now + Delta])
          /\ at' \in NotifyOne([at EXCEPT ![s] = "ran"])
       \/ /\ task[s].f \notin Every
          /\ at' = [at EXCEPT ![s] = "ran"]
          /\ UNCHANGED taskQueue
    /\ UNCHANGED <<now, nThreadsServicingQueue, stopRequested, stopWhenEmpty,
                   until, task, asked, threads>>

\* The function throws, or boost interrupts the thread while it waits: the
\* exception leaves serviceQueue through its catch clause.
Throw(s) ==
    /\ at[s] \in {"run", "wait", "timed", "woken"}
    /\ at' = [at EXCEPT ![s] = "out"]
    /\ nThreadsServicingQueue' = nThreadsServicingQueue - 1
    /\ finished' = IF at[s] = "run" THEN finished \cup {task[s].f} ELSE finished
    /\ UNCHANGED <<now, taskQueue, stopRequested, stopWhenEmpty, until, task,
                   asked, threads>>

\* Faulty: nobody is told of the new task.
Schedule_Silent(f, d) ==
    /\ f \notin asked /\ now + d <= MaxTime
    /\ asked' = asked \cup {f}
    /\ taskQueue' \in Insert(taskQueue, [f |-> f, time |-> now + d])
    /\ UNCHANGED <<now, nThreadsServicingQueue, stopRequested, stopWhenEmpty,
                   at, until, task, finished, threads>>

\* scheduleFromNow and scheduleEvery.
Schedule(f, d) ==
    /\ f \notin asked /\ now + d <= MaxTime
    /\ asked' = asked \cup {f}
    /\ taskQueue' \in Insert(taskQueue, [f |-> f, time |-> now + d])
    /\ at' \in NotifyOne(at)
    /\ UNCHANGED <<now, nThreadsServicingQueue, stopRequested, stopWhenEmpty,
                   until, task, finished, threads>>

\* Faulty: no thread is told to stop.
Stop_Silent(drain) ==
    /\ IF drain THEN ~ stopWhenEmpty ELSE ~ stopRequested
    /\ stopWhenEmpty' = (drain \/ stopWhenEmpty)
    /\ stopRequested' = (~ drain \/ stopRequested)
    /\ UNCHANGED <<now, taskQueue, nThreadsServicingQueue, at, until, task,
                   asked, finished, threads>>

\* stop, called at most once of each kind.
Stop(drain) ==
    /\ IF drain THEN ~ stopWhenEmpty ELSE ~ stopRequested
    /\ stopWhenEmpty' = (drain \/ stopWhenEmpty)
    /\ stopRequested' = (~ drain \/ stopRequested)
    /\ at' = NotifyAll(at)
    /\ UNCHANGED <<now, taskQueue, nThreadsServicingQueue, until, task, asked,
                   finished, threads>>

Tick ==
    /\ now < MaxTime
    /\ now' = now + 1
    /\ UNCHANGED <<taskQueue, nThreadsServicingQueue, stopRequested,
                   stopWhenEmpty, at, until, task, asked, finished,
                   threads>>

Init ==
    /\ now = 0
    /\ taskQueue = <<>>
    /\ nThreadsServicingQueue = 0
    /\ stopRequested = FALSE /\ stopWhenEmpty = FALSE
    /\ threads \in SUBSET Server \ {{}}
    /\ at = [s \in Server |-> IF s \in threads THEN "start" ELSE "out"]
    /\ until = [s \in Server |-> 0]
    /\ task = [s \in Server |-> NoTask]
    /\ asked = {} /\ finished = {}

\* Every thread has left serviceQueue.
AllOut == (\A s \in Server : at[s] = "out") /\ UNCHANGED vars

Service(s) == Enter(s) \/ Resume(s) \/ TimeOut(s) \/ Finish(s)

Next ==
    \/ \E s \in Server : Service(s) \/ Throw(s)
    \/ \E f \in Task, d \in Delay : Schedule(f, d)
    \/ \E drain \in BOOLEAN : Stop(drain)
    \/ Tick
    \/ AllOut

Spec == Init /\ [][Next]_vars

\* A thread that can run does, time passes, and functions return.
Fairness == WF_vars(Tick) /\ \A s \in Server : WF_vars(Service(s))
FairSpec == Spec /\ Fairness

-----------------------------------------------------------------------------
\* Properties.

\* A due function is run, unless the threads are stopped or thrown out: no
\* notification is lost between schedule and the two kinds of waiting.
DueTasksRun ==
    \A f \in Task :
        (\E i \in DOMAIN taskQueue : taskQueue[i].f = f /\ taskQueue[i].time <= now)
            ~> (f \in finished \/ \E s \in Server : at[s] = "out")

\* "Tell any threads running serviceQueue to stop as soon as they're done
\* servicing whatever task they're currently servicing".
StopStops == stopRequested ~> \A s \in Server : at[s] = "out"

\* "or when there is no work left to be done (drain=true)": the threads run what
\* is left and stop, unless a task repeats.
DrainStops ==
    stopWhenEmpty ~> \/ \A s \in Server : at[s] = "out"
                     \/ asked \cap Every # {}
=============================================================================
