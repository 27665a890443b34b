----------------------------- MODULE CheckQueue -----------------------------
(***************************************************************************)
(* The script-check queue (CCheckQueue, src/src/checkqueue.h): worker      *)
(* threads and one master share a queue under one mutex and sleep on two   *)
(* condition variables.  Each action is one critical section of the mutex; *)
(* the work between two of them touches no shared state.                   *)
(***************************************************************************)
EXTENDS Integers, FiniteSets

CONSTANTS
    Worker,      \* threads that run Thread()
    Master,      \* the thread that holds the controller (ConnectBlock)
    Check,       \* checks, each used at most once per round
    Good,        \* the checks whose operator() returns true
    nBatchSize   \* the constructor's argument (128 in validation.cpp)

Thread == Worker \cup {Master}

ASSUME ThreadAssumption ==
    /\ Master \notin Worker
    /\ IsFiniteSet(Worker)
ASSUME CheckAssumption ==
    /\ IsFiniteSet(Check)
    /\ Good \subseteq Check
    /\ nBatchSize \in Nat \ {0}

VARIABLES
    queue,       \* elements to be processed
    nIdle, nTotal, nTodo, fAllOk,
    pc,          \* "out", "adding" (master only), "start", "wait", "woken",
                 \* "work", "gone" (interrupted worker)
    batch,       \* batch[t]: vChecks of t
    fOk,         \* fOk[t]: the local result of t
    interrupted, \* threads that boost has interrupted
    unwinding,   \* the master is in ~CCheckQueueControl: result is dropped
    round,       \* checks added by the present controller (history)
    answer       \* what the last Wait returned (history)

vars == <<queue, nIdle, nTotal, nTodo, fAllOk, pc, batch, fOk, interrupted,
          unwinding, round, answer>>

Larger(a, b) == IF a > b THEN a ELSE b
Smaller(a, b) == IF a < b THEN a ELSE b

\* How many elements a thread takes.
BatchSize(total, idle) ==
    Larger(1, Smaller(nBatchSize, Cardinality(queue) \div (total + idle + 1)))

\* notify_one: some thread that waits on the variable wakes up, if any does.
NotifyOne(waiters, p) ==
    IF \E t \in waiters : p[t] = "wait"
    THEN {[p EXCEPT ![t] = "woken"] : t \in {u \in waiters : p[u] = "wait"}}
    ELSE {p}

NotifyAll(p) ==
    [t \in Thread |-> IF t \in Worker /\ p[t] = "wait" THEN "woken" ELSE p[t]]

\* Faulty: the master does not wait for the batches of the workers.
LeaveLoop_NoTodo(t, todo) == queue = {} /\ t = Master

\* The condition under which Loop returns (fQuit is never set).
LeaveLoop(t, todo) == queue = {} /\ t = Master /\ todo = 0

\* The rest of the critical section, from "logically, the do loop starts here":
\* leave, sleep, or take a batch.  p, total, idle, todo and ok are the values
\* after the beginning of the section.
Continue(t, p, total, idle, todo, ok) ==
    \/ /\ LeaveLoop(t, todo)
       /\ pc' = [p EXCEPT ![t] = "out"]
       /\ nTotal' = total - 1
       /\ fAllOk' = TRUE
       /\ answer' = IF unwinding THEN "none"
                    ELSE IF ok THEN "valid" ELSE "invalid"
       /\ round' = {}
       /\ unwinding' = FALSE
       /\ nIdle' = idle
       /\ UNCHANGED <<queue, fOk>>
       /\ batch' = [batch EXCEPT ![t] = {}]
    \/ /\ queue = {} /\ ~ LeaveLoop(t, todo)
       /\ pc' = [p EXCEPT ![t] = "wait"]
       /\ nIdle' = idle + 1
       /\ nTotal' = total
       /\ fAllOk' = ok
       /\ batch' = [batch EXCEPT ![t] = {}]
       /\ UNCHANGED <<queue, fOk, answer, round, unwinding>>
    \/ /\ queue # {}
       /\ \E B \in SUBSET queue :
             /\ Cardinality(B) = BatchSize(total, idle)
             /\ batch' = [batch EXCEPT ![t] = B]
             /\ queue' = queue \ B
       /\ fOk' = [fOk EXCEPT ![t] = ok]
       /\ pc' = [p EXCEPT ![t] = "work"]
       /\ nIdle' = idle
       /\ nTotal' = total
       /\ fAllOk' = ok
       /\ UNCHANGED <<answer, round, unwinding>>

\* A thread enters Loop.
Start(t) ==
    /\ pc[t] = "start"
    /\ Continue(t, pc, nTotal + 1, nIdle, nTodo, fAllOk)
    /\ UNCHANGED <<nTodo, interrupted>>

\* Faulty: the last worker does not tell the master.
FinishBatch_Silent(t) ==
    LET ok == fAllOk /\ fOk[t] /\ batch[t] \subseteq Good
        todo == nTodo - Cardinality(batch[t])
    IN  /\ pc[t] = "work"
        /\ nTodo' = todo
        /\ Continue(t, pc, nTotal, nIdle, todo, ok)
        /\ UNCHANGED interrupted

\* Faulty: a full batch is taken off nTodo.
FinishBatch_FullBatch(t) ==
    LET ok == fAllOk /\ fOk[t] /\ batch[t] \subseteq Good
        todo == nTodo - nBatchSize
    IN  /\ pc[t] = "work"
        /\ nTodo' = todo
        /\ \E p \in IF todo = 0 /\ t # Master THEN NotifyOne({Master}, pc)
                                              ELSE {pc} :
               Continue(t, p, nTotal, nIdle, todo, ok)
        /\ UNCHANGED interrupted

\* A thread has run its batch (stopping at the first failure, or at once when
\* another thread had failed before) and comes back.
FinishBatch(t) ==
    LET ok == fAllOk /\ fOk[t] /\ batch[t] \subseteq Good
        todo == nTodo - Cardinality(batch[t])
    IN  /\ pc[t] = "work"
        /\ nTodo' = todo
        /\ \E p \in IF todo = 0 /\ t # Master THEN NotifyOne({Master}, pc)
                                              ELSE {pc} :
               Continue(t, p, nTotal, nIdle, todo, ok)
        /\ UNCHANGED interrupted

\* Faulty: nIdle is not restored.
Wake_KeepsIdle(t) ==
    /\ pc[t] = "woken"
    /\ Continue(t, pc, nTotal, nIdle, nTodo, fAllOk)
    /\ UNCHANGED <<nTodo, interrupted>>

\* cond.wait has the mutex again.
Wake(t) ==
    /\ pc[t] = "woken"
    /\ Continue(t, pc, nTotal, nIdle - 1, nTodo, fAllOk)
    /\ UNCHANGED <<nTodo, interrupted>>

SpuriousWakeup(t) ==
    /\ pc[t] = "wait"
    /\ pc' = [pc EXCEPT ![t] = "woken"]
    /\ UNCHANGED <<queue, nIdle, nTotal, nTodo, fAllOk, batch, fOk,
                   interrupted, unwinding, round, answer>>

\* threadGroup.interrupt_all(): cond.wait throws and nothing after it runs.  A
\* worker is gone.  The master's controller is destroyed on the way out, and
\* its destructor calls Wait again; if the destructor is already running, the
\* exception leaves a noexcept function and the process is terminated.
Interrupt(t) ==
    /\ pc[t] \in {"wait", "woken"}
    /\ t \notin interrupted
    /\ interrupted' = interrupted \cup {t}
    /\ pc' = CASE t # Master -> [pc EXCEPT ![t] = "gone"]
               [] t = Master /\ unwinding -> [u \in Thread |-> "gone"]
               [] OTHER -> [pc EXCEPT ![t] = "start"]
    /\ unwinding' = (t = Master \/ unwinding)
    /\ UNCHANGED <<queue, nIdle, nTotal, nTodo, fAllOk, batch, fOk, round,
                   answer>>

\* A controller is made.
Begin ==
    /\ pc[Master] = "out"
    /\ pc' = [pc EXCEPT ![Master] = "adding"]
    /\ answer' = "none"
    /\ UNCHANGED <<queue, nIdle, nTotal, nTodo, fAllOk, batch, fOk,
                   interrupted, unwinding, round>>

\* The checks of one transaction (possibly none) are added.
Add(C) ==
    /\ pc[Master] = "adding"
    /\ C \subseteq Check \ round
    /\ queue' = queue \cup C
    /\ nTodo' = nTodo + Cardinality(C)
    /\ round' = round \cup C
    /\ pc' \in CASE Cardinality(C) = 0 -> {pc}
                 [] Cardinality(C) = 1 -> NotifyOne(Worker, pc)
                 [] OTHER -> {NotifyAll(pc)}
    /\ UNCHANGED <<nIdle, nTotal, fAllOk, batch, fOk, interrupted, unwinding,
                   answer>>

\* ConnectBlock calls Wait, or returns early and the destructor does.
Wait(early) ==
    /\ pc[Master] = "adding"
    /\ pc' = [pc EXCEPT ![Master] = "start"]
    /\ unwinding' = early
    /\ UNCHANGED <<queue, nIdle, nTotal, nTodo, fAllOk, batch, fOk,
                   interrupted, round, answer>>

Init ==
    /\ queue = {}
    /\ nIdle = 0 /\ nTotal = 0 /\ nTodo = 0
    /\ fAllOk = TRUE
    /\ pc = [t \in Thread |-> IF t = Master THEN "out" ELSE "start"]
    /\ batch = [t \in Thread |-> {}]
    /\ fOk = [t \in Thread |-> TRUE]
    /\ interrupted = {}
    /\ unwinding = FALSE
    /\ round = {}
    /\ answer = "none"

Terminated == pc[Master] = "gone" /\ UNCHANGED vars

Next ==
    \/ Begin
    \/ \E C \in SUBSET Check : Add(C)
    \/ \E early \in BOOLEAN : Wait(early)
    \/ \E t \in Thread :
          \/ Start(t)
          \/ FinishBatch(t)
          \/ Wake(t)
          \/ SpuriousWakeup(t)
          \/ Interrupt(t)
    \/ Terminated

Spec == Init /\ [][Next]_vars

\* A thread that can run does: no wake-up, batch or lock takes forever.
Fairness == \A t \in Thread : WF_vars(Start(t) \/ FinishBatch(t) \/ Wake(t))
FairSpec == Spec /\ Fairness

-----------------------------------------------------------------------------
\* Properties.

\* Every variable has its type.
TypeOK ==
    /\ queue \in SUBSET Check
    /\ nIdle \in Int /\ nTotal \in Int /\ nTodo \in Nat
    /\ fAllOk \in BOOLEAN
    /\ pc \in [Thread -> {"out", "adding", "start", "wait", "woken", "work",
                          "gone"}]
    /\ batch \in [Thread -> SUBSET Check]
    /\ fOk \in [Thread -> BOOLEAN]
    /\ interrupted \in SUBSET Thread
    /\ unwinding \in BOOLEAN
    /\ round \in SUBSET Check
    /\ answer \in {"none", "valid", "invalid"}

\* "passed queue is supposed to be unused": IsIdle() holds whenever ConnectBlock
\* may make a controller, so that the assertion in the constructor never fails,
\* also after interruptions left their traces in nIdle and nTotal.
ControllerFindsIdle ==
    pc[Master] = "out" => nTotal = nIdle /\ nTodo = 0 /\ fAllOk

\* "Number of verifications that haven't completed yet": nTodo counts the
\* queue and every thread's batch.
TodoCounts ==
    nTodo = Cardinality(queue \cup UNION {batch[t] : t \in Thread})

Abstract == INSTANCE CheckQueueSpec WITH
    phase <- CASE pc[Master] = "out" -> "idle"
               [] pc[Master] = "adding" -> "adding"
               [] OTHER -> "waiting"

\* The queue does what ConnectBlock relies on: Wait returns true exactly when
\* every check added since the controller was made is good.
ImplementsSpec == Abstract!Spec

\* Wait returns (or the process is terminated), whoever sleeps, is woken for
\* nothing or is interrupted: no wake-up is lost between workers and master.
WaitReturns == pc[Master] = "start" ~> pc[Master] \in {"out", "gone"}
=============================================================================
