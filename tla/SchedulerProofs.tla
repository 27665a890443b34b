--------------------------- MODULE SchedulerProofs ---------------------------
(***************************************************************************)
(* For any number of threads and functions, however functions throw and    *)
(* threads are interrupted: the count of service threads is exact, the     *)
(* queue stays ordered, no function is lost, duplicated or run by two      *)
(* threads, and one service thread runs none before its time.              *)
(***************************************************************************)
EXTENDS Scheduler, FiniteSetTheorems, TLAPS

PC == {"start", "wait", "timed", "woken", "run", "ran", "out"}

\* The threads inside serviceQueue when the program counters are p.
Inside(p) == {s \in Server : p[s] \notin {"start", "out"}}

\* Every step needs that the counters are defined on all threads.
CountInv == at \in [Server -> PC] /\ nThreadsServicingQueue = Cardinality(Inside(at))

-----------------------------------------------------------------------------
\* notify_one and notify_all wake a waiting thread, which is inside before and
\* after.
LEMMA NotifyOneKeeps ==
    ASSUME NEW p \in [Server -> PC], NEW q \in NotifyOne(p)
    PROVE  q \in [Server -> PC] /\ Inside(q) = Inside(p)
  BY DEF NotifyOne, Waiting, Inside, PC

LEMMA NotifyAllKeeps ==
    ASSUME NEW p \in [Server -> PC]
    PROVE  NotifyAll(p) \in [Server -> PC] /\ Inside(NotifyAll(p)) = Inside(p)
  BY DEF NotifyAll, Waiting, Inside, PC

\* The loop of serviceQueue, entered with the count n of the threads that are
\* inside together with s, leaves the right count.
LEMMA LoopHeadCounts ==
    ASSUME IsFiniteSet(Server), at \in [Server -> PC], NEW s \in Server, NEW n,
           n = Cardinality(Inside(at) \cup {s}), LoopHead(s, n)
    PROVE  CountInv'
<1>1. IsFiniteSet(Inside(at) \cup {s})
    BY FS_Subset DEF Inside
<1>2. CASE Leave(s, n)
  <2> DEFINE p == [at EXCEPT ![s] = "out"]
  <2>1. p \in [Server -> PC] /\ Inside(p) = (Inside(at) \cup {s}) \ {s}
      BY DEF Inside, PC
  <2>2. Cardinality(Inside(p)) = n - 1
      BY <1>1, <2>1, FS_RemoveElement, ZenonT(60)
  <2>3. at' \in NotifyOne(p) /\ nThreadsServicingQueue' = n - 1
      BY <1>2 DEF Leave
  <2>4. at' \in [Server -> PC] /\ Inside(at') = Inside(p)
      BY <2>1, <2>3, NotifyOneKeeps, Zenon
  <2> QED BY <2>2, <2>3, <2>4 DEF CountInv, Inside
<1>3. ASSUME NEW l \in {"wait", "timed"}, at' = [at EXCEPT ![s] = l],
             nThreadsServicingQueue' = n
      PROVE  CountInv'
  <2>1. at' \in [Server -> PC] /\ Inside(at') = Inside(at) \cup {s}
      BY <1>3 DEF Inside, PC
  <2> QED BY <2>1, <1>3 DEF CountInv, Inside
<1> QED BY <1>2, <1>3 DEF LoopHead

LEMMA CountInvInit == Init => CountInv
<1> SUFFICES ASSUME Init PROVE CountInv
    OBVIOUS
<1>1. at \in [Server -> PC] /\ Inside(at) = {}
    BY DEF Init, PC, Inside
<1> QED BY <1>1, FS_EmptySet DEF Init, CountInv

LEMMA CountInvNext ==
    ASSUME IsFiniteSet(Server)
    PROVE  CountInv /\ [Next]_vars => CountInv'
<1> SUFFICES ASSUME CountInv, [Next]_vars PROVE CountInv'
    OBVIOUS
<1>0. IsFiniteSet(Inside(at)) /\ at \in [Server -> PC]
    BY FS_Subset DEF Inside, CountInv
<1>1. ASSUME NEW s \in Server, Enter(s) PROVE CountInv'
  <2>1. s \notin Inside(at)
      BY <1>1 DEF Enter, Inside
  <2>2. nThreadsServicingQueue + 1 = Cardinality(Inside(at) \cup {s})
      BY <1>0, <2>1, FS_AddElement DEF CountInv
  <2> QED BY <1>0, <1>1, <2>2, LoopHeadCounts DEF Enter
<1>2. ASSUME NEW s \in Server, s \in Inside(at) PROVE Inside(at) \cup {s} = Inside(at)
    BY <1>2
<1>3. ASSUME NEW s \in Server, Resume(s) PROVE CountInv'
  <2>1. s \in Inside(at)
      BY <1>3 DEF Resume, Inside
  <2> QED BY <1>0, <1>2, <1>3, <2>1, LoopHeadCounts DEF Resume, CountInv
<1>4. ASSUME NEW s \in Server, TimeOut(s) PROVE CountInv'
  <2>1. s \in Inside(at)
      BY <1>4 DEF TimeOut, Inside
  <2>2. CASE LoopHead(s, nThreadsServicingQueue)
      BY <1>0, <1>2, <2>1, <2>2, LoopHeadCounts DEF CountInv
  <2>3. CASE at' = [at EXCEPT ![s] = "run"] /\ UNCHANGED nThreadsServicingQueue
    <3>1. at' \in [Server -> PC] /\ Inside(at') = Inside(at)
        BY <1>0, <2>1, <2>3 DEF Inside, PC
    <3> QED BY <3>1, <2>3 DEF CountInv, Inside
  <2> QED BY <1>4, <2>2, <2>3 DEF TimeOut
<1>5. ASSUME NEW s \in Server, Finish(s) PROVE CountInv'
  <2> DEFINE p == [at EXCEPT ![s] = "ran"]
  <2>1. p \in [Server -> PC] /\ Inside(p) = Inside(at)
      BY <1>0, <1>5 DEF Finish, Inside, PC
  <2>2. at' \in NotifyOne(p) \/ at' = p
      BY <1>5 DEF Finish
  <2>3. at' \in [Server -> PC] /\ Inside(at') = Inside(at)
      BY <2>1, <2>2, NotifyOneKeeps, Zenon
  <2> QED BY <1>5, <2>3, Zenon DEF Finish, CountInv, Inside
<1>6. ASSUME NEW s \in Server, Throw(s) PROVE CountInv'
  <2>1. s \in Inside(at)
      BY <1>6 DEF Throw, Inside
  <2>2. at' \in [Server -> PC] /\ Inside(at') = Inside(at) \ {s}
      BY <1>0, <1>6 DEF Throw, Inside, PC
  <2>3. Cardinality(Inside(at) \ {s}) = Cardinality(Inside(at)) - 1
      BY <1>0, <2>1, FS_RemoveElement, Zenon
  <2> QED BY <1>6, <2>2, <2>3, Zenon DEF Throw, CountInv, Inside
<1>7. ASSUME NEW f \in Task, NEW d \in Delay, Schedule(f, d) PROVE CountInv'
  <2>1. at' \in [Server -> PC] /\ Inside(at') = Inside(at)
      BY <1>0, <1>7, NotifyOneKeeps DEF Schedule
  <2> QED BY <1>7, <2>1 DEF Schedule, CountInv, Inside
<1>8. ASSUME NEW drain \in BOOLEAN, Stop(drain) PROVE CountInv'
  <2>1. at' \in [Server -> PC] /\ Inside(at') = Inside(at)
      BY <1>0, <1>8, NotifyAllKeeps DEF Stop
  <2> QED BY <1>8, <2>1 DEF Stop, CountInv, Inside
<1>9. CASE Tick \/ AllOut \/ UNCHANGED vars
    BY <1>9 DEF Tick, AllOut, vars, CountInv, Inside
<1> QED
    BY <1>1, <1>3, <1>4, <1>5, <1>6, <1>7, <1>8, <1>9 DEF Next, Service

\* nThreadsServicingQueue is the number of threads inside serviceQueue in every
\* reachable state, whatever functions throw and whichever threads are
\* interrupted: ~CScheduler may assert that it is zero once the threads have
\* left (scheduler.cpp).
THEOREM ServiceAlwaysCounted ==
    ASSUME IsFiniteSet(Server)
    PROVE  Spec => []ServiceCount
<1>1. Init => CountInv
    BY CountInvInit
<1>2. CountInv /\ [Next]_vars => CountInv'
    BY CountInvNext
<1>3. CountInv => ServiceCount
    BY DEF CountInv, ServiceCount, Inside
<1> QED BY <1>1, <1>2, <1>3, PTL DEF Spec

-----------------------------------------------------------------------------
Entry == [f : Task, time : Nat]

\* The functions in queue q, and when q is ordered and holds none of them twice.
Funs(q) == {q[i].f : i \in DOMAIN q}
Ordered(q) == \A i \in 2..Len(q) : q[i - 1].time <= q[i].time
Single(q) == \A i, j \in DOMAIN q : q[i].f = q[j].f => i = j

\* The threads that run a function.
Busy(p) == {s \in Server : p[s] = "run"}

Typed ==
    /\ now \in 0..MaxTime
    /\ taskQueue \in Seq(Entry) /\ Ordered(taskQueue)
    /\ at \in [Server -> PC]
    /\ until \in [Server -> Nat]
    /\ task \in [Server -> [f : Task \cup {"none"}, time : Nat]]
    /\ asked \subseteq Task /\ finished \subseteq asked
    /\ threads \subseteq Server

\* Where the functions are: those of the queue q and of the busy threads B, which
\* run the entries t, are asked for and all different, and none is missing.
Conserved(q, B, t, A, F) ==
    /\ Single(q)
    /\ Funs(q) \subseteq A
    /\ \A s \in B : t[s].f \in A /\ t[s].f \notin Funs(q)
    /\ \A s, u \in B : t[s].f = t[u].f => s = u
    /\ A \ F \subseteq Funs(q) \cup {t[s].f : s \in B}

\* With one service thread, the entry it waits for is the first of the queue, as
\* nobody else takes it and every insertion wakes the thread.
Alone ==
    \A s \in Server : threads = {s} =>
        /\ \A u \in Server \ {s} : at[u] = "out"
        /\ at[s] = "timed" => taskQueue # <<>> /\ until[s] = taskQueue[1].time
        /\ at[s] = "run" => task[s].time <= now

\* What the code may be given: delays that are not negative.
Delays == Delay \subseteq Nat /\ Delta \in Nat /\ MaxTime \in Nat

\* An insertion keeps the order and adds one function.
LEMMA InsertAdds ==
    ASSUME NEW q \in Seq(Entry), Ordered(q), NEW e \in Entry, NEW r \in Insert(q, e)
    PROVE  /\ r \in Seq(Entry) /\ Ordered(r)
           /\ Funs(r) = Funs(q) \cup {e.f}
           /\ Single(q) /\ e.f \notin Funs(q) => Single(r)
<1>1. PICK i \in 0..Len(q) :
        /\ \A j \in 1..i : q[j].time <= e.time
        /\ \A j \in (i + 1)..Len(q) : q[j].time > e.time
        /\ r = [j \in 1..(Len(q) + 1) |->
                  IF j <= i THEN q[j] ELSE IF j = i + 1 THEN e ELSE q[j - 1]]
    BY ZenonT(60) DEF Insert
<1>2. Len(q) \in Nat /\ DOMAIN q = 1..Len(q) /\ \A j \in 1..Len(q) : q[j] \in Entry
    OBVIOUS
<1>3. /\ r \in Seq(Entry) /\ Len(r) = Len(q) + 1 /\ DOMAIN r = 1..(Len(q) + 1)
      /\ \A j \in 1..(Len(q) + 1) :
            r[j] = IF j <= i THEN q[j] ELSE IF j = i + 1 THEN e ELSE q[j - 1]
    BY <1>1, <1>2
<1>4. Ordered(r)
  <2>1. e.time \in Nat /\ \A j \in 1..Len(q) : q[j].time \in Nat
      BY <1>2 DEF Entry
  <2> SUFFICES ASSUME NEW j \in 2..(Len(q) + 1) PROVE r[j - 1].time <= r[j].time
      BY <1>3 DEF Ordered
  <2>2. CASE j <= i
    <3>1. r[j - 1] = q[j - 1] /\ r[j] = q[j] /\ j \in 2..Len(q)
        BY <1>2, <1>3, <2>2
    <3> QED BY <3>1 DEF Ordered
  <2>3. CASE j = i + 1
    <3>1. r[j - 1] = q[i] /\ r[j] = e /\ i \in 1..i
        BY <1>2, <1>3, <2>3
    <3> QED BY <1>1, <3>1
  <2>4. CASE j = i + 2
    <3>1. r[j - 1] = e /\ r[j] = q[i + 1] /\ i + 1 \in (i + 1)..Len(q) /\ i + 1 \in 1..Len(q)
        BY <1>2, <1>3, <2>4
    <3> QED BY <1>1, <2>1, <3>1, SMTT(60)
  <2>5. CASE j > i + 2
    <3>1. r[j - 1] = q[j - 2] /\ r[j] = q[j - 1] /\ j - 1 \in 2..Len(q) /\ (j - 1) - 1 = j - 2
        BY <1>2, <1>3, <2>5
    <3> QED BY <3>1 DEF Ordered
  <2> QED BY <2>2, <2>3, <2>4, <2>5
<1>5. \A j \in DOMAIN r : (r[j] = e /\ j = i + 1) \/ \E k \in DOMAIN q :
            r[j] = q[k] /\ k = IF j <= i THEN j ELSE j - 1
    BY <1>2, <1>3
<1>6. /\ r[i + 1] = e /\ i + 1 \in DOMAIN r
      /\ \A k \in DOMAIN q : \E j \in DOMAIN r : r[j] = q[k]
  <2>1. \A k \in DOMAIN q : IF k <= i THEN k \in DOMAIN r /\ r[k] = q[k]
                                      ELSE k + 1 \in DOMAIN r /\ r[k + 1] = q[k]
      BY <1>2, <1>3
  <2> QED BY <2>1, <1>2, <1>3
<1>7. Funs(r) = Funs(q) \cup {e.f}
    BY <1>5, <1>6 DEF Funs
<1>8. ASSUME Single(q), e.f \notin Funs(q) PROVE Single(r)
  <2> SUFFICES ASSUME NEW a \in DOMAIN r, NEW b \in DOMAIN r, r[a].f = r[b].f
               PROVE  a = b
      BY DEF Single
  <2>1. \A k \in DOMAIN q : q[k].f # e.f
      BY <1>8 DEF Funs
  <2> QED BY <1>2, <1>3, <1>5, <1>8, <2>1, SMTT(60) DEF Single
<1> QED BY <1>3, <1>4, <1>7, <1>8

\* Taking the first entry removes its function.
LEMMA TailRemoves ==
    ASSUME NEW q \in Seq(Entry), Ordered(q), q # <<>>
    PROVE  /\ q[1] \in Entry /\ Tail(q) \in Seq(Entry) /\ Ordered(Tail(q))
           /\ Funs(q) = Funs(Tail(q)) \cup {q[1].f}
           /\ Single(q) => Single(Tail(q)) /\ q[1].f \notin Funs(Tail(q))
<1>1. /\ Len(q) \in Nat \ {0} /\ DOMAIN q = 1..Len(q)
      /\ q[1] \in Entry /\ Tail(q) \in Seq(Entry)
      /\ Len(Tail(q)) = Len(q) - 1 /\ DOMAIN Tail(q) = 1..(Len(q) - 1)
      /\ \A j \in 1..(Len(q) - 1) : Tail(q)[j] = q[j + 1]
    OBVIOUS
<1>2. Ordered(Tail(q))
    BY <1>1 DEF Ordered
<1>3. \A k \in DOMAIN q : k = 1 \/ (k - 1 \in DOMAIN Tail(q) /\ Tail(q)[k - 1] = q[k])
    BY <1>1
<1>4. \A j \in DOMAIN Tail(q) : j + 1 \in DOMAIN q /\ j + 1 # 1 /\ Tail(q)[j] = q[j + 1]
    BY <1>1
<1>5. Funs(q) = Funs(Tail(q)) \cup {q[1].f}
  <2>1. 1 \in DOMAIN q
      BY <1>1
  <2>2. \A k \in DOMAIN q : q[k].f \in Funs(Tail(q)) \cup {q[1].f}
      BY <1>3, Zenon DEF Funs
  <2>3. \A j \in DOMAIN Tail(q) : Tail(q)[j].f \in Funs(q)
      BY <1>4, Zenon DEF Funs
  <2> QED BY <2>1, <2>2, <2>3, Zenon DEF Funs
<1>6. Single(q) => Single(Tail(q)) /\ q[1].f \notin Funs(Tail(q))
    BY <1>1, <1>4 DEF Single, Funs
<1> QED BY <1>1, <1>2, <1>5, <1>6

\* A notification changes neither who runs a function nor who is outside, and one
\* thread that is alone does not wait after it.
LEMMA NotifyOneWakes ==
    ASSUME NEW p \in [Server -> PC], NEW q \in NotifyOne(p)
    PROVE  /\ q \in [Server -> PC] /\ Busy(q) = Busy(p)
           /\ \A s \in Server : p[s] = "out" => q[s] = "out"
           /\ \A s \in Server : (\A u \in Server \ {s} : p[u] = "out") => q[s] # "timed"
  BY DEF NotifyOne, Waiting, Busy, PC

LEMMA NotifyAllWakes ==
    ASSUME NEW p \in [Server -> PC]
    PROVE  /\ NotifyAll(p) \in [Server -> PC] /\ Busy(NotifyAll(p)) = Busy(p)
           /\ \A s \in Server : p[s] = "out" => NotifyAll(p)[s] = "out"
           /\ \A s \in Server : NotifyAll(p)[s] # "timed"
  BY DEF NotifyAll, Waiting, Busy, PC

\* The loop of serviceQueue ends outside or in a wait, for the first entry when
\* there is one.
LEMMA LoopHeadWaits ==
    ASSUME Typed, NEW s \in Server, NEW n, LoopHead(s, n)
    PROVE  /\ at' \in [Server -> PC] /\ until' \in [Server -> Nat]
           /\ Busy(at') = Busy(at) \ {s}
           /\ \A u \in Server \ {s} : at[u] = "out" => at'[u] = "out"
           /\ (\A u \in Server \ {s} : at[u] = "out") /\ at'[s] = "timed" =>
                 taskQueue # <<>> /\ until'[s] = taskQueue[1].time
<1>1. CASE Leave(s, n) /\ UNCHANGED until
  <2> DEFINE p == [at EXCEPT ![s] = "out"]
  <2>1. /\ p \in [Server -> PC] /\ Busy(p) = Busy(at) \ {s}
        /\ p[s] = "out" /\ \A u \in Server \ {s} : p[u] = at[u]
      BY DEF Typed, PC, Busy
  <2>2. at' \in NotifyOne(p)
      BY <1>1 DEF Leave
  <2> HIDE DEF p
  <2>3. at' \in [Server -> PC] /\ Busy(at') = Busy(p) /\ at'[s] = "out"
        /\ \A u \in Server : p[u] = "out" => at'[u] = "out"
      BY <2>1, <2>2, NotifyOneWakes
  <2> QED BY <1>1, <2>1, <2>3 DEF Typed
<1>2. CASE /\ at' = [at EXCEPT ![s] = "wait"] /\ UNCHANGED until
    BY <1>2 DEF Typed, PC, Busy
<1>3. CASE /\ taskQueue # <<>> /\ at' = [at EXCEPT ![s] = "timed"]
           /\ until' = [until EXCEPT ![s] = taskQueue[1].time]
  <2>1. taskQueue[1] \in Entry
      BY <1>3, TailRemoves DEF Typed
  <2>2. until' \in [Server -> Nat] /\ until'[s] = taskQueue[1].time
      BY <1>3, <2>1 DEF Typed, Entry
  <2> QED BY <1>3, <2>2 DEF Typed, PC, Busy
<1> QED BY <1>1, <1>2, <1>3 DEF LoopHead

-----------------------------------------------------------------------------
\* The inductive invariant behind SchedulerSound.
SInv ==
    /\ Typed
    /\ Conserved(taskQueue, Busy(at), task, asked, finished)
    /\ Alone

LEMMA SInvInit ==
    ASSUME Delays PROVE Init => SInv
<1> SUFFICES ASSUME Init PROVE SInv
    OBVIOUS
<1>1. taskQueue \in Seq(Entry) /\ Ordered(taskQueue) /\ Funs(taskQueue) = {}
      /\ Single(taskQueue)
    BY DEF Init, Ordered, Funs, Single
<1>2. task \in [Server -> [f : Task \cup {"none"}, time : Nat]]
    BY DEF Init, NoTask
<1>3. Typed
    BY <1>1, <1>2 DEF Init, Typed, Delays, PC
<1>4. Busy(at) = {} /\ asked = {}
    BY DEF Init, Busy
<1>5. Conserved(taskQueue, Busy(at), task, asked, finished)
    BY <1>1, <1>4 DEF Conserved
<1>6. Alone
    BY DEF Alone, Init
<1> QED BY <1>3, <1>5, <1>6 DEF SInv

\* A step that only moves a thread s out of the way, to the head of the loop.
LEMMA LoopStep ==
    ASSUME SInv, NEW s \in Server, NEW n, at[s] # "run", at[s] # "out", LoopHead(s, n),
           UNCHANGED <<now, taskQueue, task, asked, finished, threads>>
    PROVE  SInv'
<1>1. Busy(at') = Busy(at)
    BY LoopHeadWaits DEF SInv, Busy
<1>2. Typed'
    BY LoopHeadWaits DEF SInv, Typed, Ordered
<1>3. Alone'
  <2> SUFFICES ASSUME NEW u \in Server, threads = {u}
               PROVE  /\ \A v \in Server \ {u} : at'[v] = "out"
                      /\ at'[u] = "timed" => taskQueue # <<>> /\ until'[u] = taskQueue[1].time
                      /\ at'[u] = "run" => task[u].time <= now
      BY DEF Alone
  <2>1. u = s
      BY DEF SInv, Alone
  <2> QED BY <1>1, <2>1, LoopHeadWaits DEF SInv, Alone, Busy
<1> QED BY <1>1, <1>2, <1>3 DEF SInv, Conserved, Single, Funs, Busy

\* The function of an entry goes from the queue q to a thread s.
LEMMA ConservedTake ==
    ASSUME NEW q, NEW r, NEW B, NEW t, NEW w, NEW A, NEW F, NEW s,
           Conserved(q, B, t, A, F), Single(r), s \notin B,
           Funs(q) = Funs(r) \cup {w[s].f}, w[s].f \notin Funs(r),
           \A u \in B : w[u] = t[u]
    PROVE  Conserved(r, B \cup {s}, w, A, F)
<1>1. /\ w[s].f \in A /\ Funs(r) \subseteq A
      /\ \A u \in B : w[u].f \in A /\ w[u].f # w[s].f /\ w[u].f \notin Funs(r)
      /\ \A u, v \in B : w[u].f = w[v].f => u = v
    BY DEF Conserved
<1>2. A \ F \subseteq Funs(r) \cup {w[u].f : u \in B \cup {s}}
    BY DEF Conserved
<1> QED BY <1>1, <1>2 DEF Conserved

\* A timed-out thread takes the first entry.
Take(s) ==
    /\ at[s] = "timed" /\ now >= until[s] /\ taskQueue # <<>>
    /\ task' = [task EXCEPT ![s] = taskQueue[1]]
    /\ taskQueue' = Tail(taskQueue)
    /\ at' = [at EXCEPT ![s] = "run"]
    /\ UNCHANGED <<now, until, asked, finished, threads>>

LEMMA TakeStep ==
    ASSUME SInv, NEW s \in Server, Take(s)
    PROVE  SInv'
<1>0. taskQueue \in Seq(Entry) /\ Ordered(taskQueue) /\ Single(taskQueue)
    BY DEF SInv, Typed, Conserved
<1>1. /\ taskQueue[1] \in Entry /\ taskQueue' \in Seq(Entry) /\ Ordered(taskQueue')
      /\ Funs(taskQueue) = Funs(taskQueue') \cup {taskQueue[1].f}
      /\ Single(taskQueue') /\ taskQueue[1].f \notin Funs(taskQueue')
    BY <1>0, TailRemoves DEF Take
<1>2. /\ task'[s] = taskQueue[1] /\ \A u \in Server \ {s} : task'[u] = task[u]
      /\ task' \in [Server -> [f : Task \cup {"none"}, time : Nat]]
    BY <1>1 DEF SInv, Typed, Entry, Take
<1>3. Typed'
  <2>1. at' \in [Server -> PC] /\ UNCHANGED <<now, until, asked, finished, threads>>
      BY DEF SInv, Typed, PC, Take
  <2> QED BY <1>1, <1>2, <2>1 DEF SInv, Typed, Ordered
<1>4. Busy(at') = Busy(at) \cup {s} /\ s \notin Busy(at) /\ Busy(at) \subseteq Server
    BY DEF Busy, SInv, Typed, Take
<1>5. Conserved(taskQueue, Busy(at), task, asked, finished)
    BY DEF SInv
<1>6. Conserved(taskQueue', Busy(at'), task', asked', finished')
  <2>1. /\ Funs(taskQueue) = Funs(taskQueue') \cup {task'[s].f}
        /\ task'[s].f \notin Funs(taskQueue') /\ \A u \in Busy(at) : task'[u] = task[u]
      BY <1>1, <1>2, <1>4
  <2>2. Conserved(taskQueue', Busy(at) \cup {s}, task', asked, finished)
      BY <1>1, <1>4, <1>5, <2>1, ConservedTake, Zenon
  <2>3. asked' = asked /\ finished' = finished
      BY DEF Take
  <2> QED BY <1>4, <2>2, <2>3
<1>7. Alone'
  <2>1. \A u \in Server : threads = {u} => u = s
      BY DEF SInv, Alone, Take
  <2>2. threads = {s} => taskQueue[1].time <= now
      BY <1>1 DEF SInv, Alone, Typed, Entry, Take
  <2> QED BY <1>2, <2>1, <2>2 DEF SInv, Alone, Typed, Take
<1> QED BY <1>3, <1>6, <1>7 DEF SInv, Conserved, Single, Funs, Busy

\* A function ends: it is finished, and in the queue again if it repeats.
LEMMA FinishStep ==
    ASSUME Delays, SInv, NEW s \in Server, Finish(s)
    PROVE  SInv'
<1> DEFINE p == [at EXCEPT ![s] = "ran"]
           g == task[s].f
           B == Busy(at) \ {s}
<1>1. /\ s \in Busy(at) /\ finished' = finished \cup {g}
      /\ UNCHANGED <<now, until, task, asked, threads>>
    BY DEF Finish, Busy
<1>2. Conserved(taskQueue, Busy(at), task, asked, finished)
    BY DEF SInv
<1>3. g \in asked /\ g \in Task /\ g \notin Funs(taskQueue)
    BY <1>1, <1>2 DEF Conserved, SInv, Typed
<1>4. /\ p \in [Server -> PC] /\ Busy(p) = B /\ p[s] = "ran"
      /\ \A u \in Server \ {s} : p[u] = at[u]
    BY DEF SInv, Typed, PC, Busy
<1>5. \A u \in B : task[u].f # g
    BY <1>1, <1>2 DEF Conserved
<1>6. /\ taskQueue \in Seq(Entry) /\ Ordered(taskQueue) /\ Single(taskQueue)
      /\ now \in Nat /\ now + Delta \in Nat
    BY <1>2 DEF SInv, Typed, Conserved, Delays
<1>7. \A u \in Server : threads = {u} => u = s
    BY DEF Finish, SInv, Alone
<1>8. CASE g \in Every
  <2> DEFINE e == [f |-> g, time |-> now + Delta]
  <2>1. taskQueue' \in Insert(taskQueue, e) /\ at' \in NotifyOne(p)
      BY <1>8 DEF Finish
  <2>2. e \in Entry /\ e.f = g
      BY <1>3, <1>6, SMTT(60) DEF Entry
  <2> HIDE DEF e, p
  <2>3. /\ taskQueue' \in Seq(Entry) /\ Ordered(taskQueue') /\ Single(taskQueue')
        /\ Funs(taskQueue') = Funs(taskQueue) \cup {g}
      BY <1>3, <1>6, <2>1, <2>2, InsertAdds
  <2>4. /\ at' \in [Server -> PC] /\ Busy(at') = B
        /\ \A u \in Server : p[u] = "out" => at'[u] = "out"
        /\ \A v \in Server : (\A u \in Server \ {v} : p[u] = "out") => at'[v] # "timed"
      BY <1>4, <2>1, NotifyOneWakes, SMTT(60)
  <2>5. Typed'
      BY <1>1, <1>3, <2>3, <2>4, SMTT(60) DEF SInv, Typed, Ordered
  <2>6. Conserved(taskQueue', B, task, asked, finished')
      BY <1>1, <1>2, <1>3, <1>5, <2>3, SMTT(60) DEF Conserved
  <2>7. Alone'
    <3>1. s \notin Busy(at')
        BY <2>4, SMTT(60)
    <3> QED BY <1>1, <1>4, <1>7, <2>4, <3>1 DEF SInv, Alone, Busy
  <2> QED BY <1>1, <2>4, <2>5, <2>6, <2>7 DEF SInv, Conserved, Single, Funs, Busy
<1>9. CASE g \notin Every
  <2>1. at' = p /\ taskQueue' = taskQueue
      BY <1>9 DEF Finish
  <2> HIDE DEF p
  <2>2. Typed'
      BY <1>1, <1>3, <1>4, <2>1 DEF SInv, Typed, Ordered
  <2>3. Conserved(taskQueue, B, task, asked, finished')
      BY <1>1, <1>2, <1>3 DEF Conserved
  <2>4. Alone'
      BY <1>1, <1>4, <1>7, <2>1, SMTT(60) DEF SInv, Alone
  <2> QED BY <1>1, <1>4, <2>1, <2>2, <2>3, <2>4 DEF SInv, Conserved, Single, Funs, Busy
<1> QED BY <1>8, <1>9

\* A thread leaves by an exception; a function that throws counts as run.
LEMMA ThrowStep ==
    ASSUME SInv, NEW s \in Server, Throw(s)
    PROVE  SInv'
<1>1. /\ at' \in [Server -> PC] /\ Busy(at') = Busy(at) \ {s} /\ at'[s] = "out"
      /\ \A u \in Server \ {s} : at'[u] = at[u]
      /\ UNCHANGED <<now, taskQueue, until, task, asked, threads>>
    BY SMTT(60) DEF SInv, Typed, PC, Busy, Throw
<1>2. finished' = finished \cup {task[u].f : u \in Busy(at) \cap {s}}
    BY DEF Throw, Busy
<1>3. Conserved(taskQueue, Busy(at), task, asked, finished)
    BY DEF SInv
<1>4. Conserved(taskQueue, Busy(at) \ {s}, task, asked, finished')
    BY <1>2, <1>3 DEF Conserved
<1>5. finished' \subseteq asked
    BY <1>2, <1>3 DEF SInv, Typed, Conserved
<1>6. Typed'
    BY <1>1, <1>5 DEF SInv, Typed, Ordered
<1>7. Alone'
    BY <1>1, SMTT(60) DEF SInv, Alone
<1> QED BY <1>1, <1>4, <1>6, <1>7 DEF SInv, Conserved, Single, Funs, Busy

\* A client schedules a function for the first time.
LEMMA ScheduleStep ==
    ASSUME Delays, SInv, NEW f \in Task, NEW d \in Delay, Schedule(f, d)
    PROVE  SInv'
<1> DEFINE e == [f |-> f, time |-> now + d]
<1>1. /\ f \notin asked /\ asked' = asked \cup {f}
      /\ taskQueue' \in Insert(taskQueue, e) /\ at' \in NotifyOne(at)
      /\ UNCHANGED <<now, until, task, finished, threads>>
    BY DEF Schedule
<1>2. e \in Entry /\ e.f = f
    BY DEF Entry, SInv, Typed, Delays
<1> HIDE DEF e
<1>3. Conserved(taskQueue, Busy(at), task, asked, finished)
    BY SMTT(60) DEF SInv
<1>4. f \notin Funs(taskQueue) /\ \A s \in Busy(at) : task[s].f # f
    BY <1>1, <1>3 DEF Conserved
<1>5. /\ taskQueue' \in Seq(Entry) /\ Ordered(taskQueue') /\ Single(taskQueue')
      /\ Funs(taskQueue') = Funs(taskQueue) \cup {f}
    BY <1>1, <1>2, <1>3, <1>4, InsertAdds DEF SInv, Typed, Conserved
<1>6. /\ at' \in [Server -> PC] /\ Busy(at') = Busy(at)
      /\ \A u \in Server : at[u] = "out" => at'[u] = "out"
      /\ \A v \in Server : (\A u \in Server \ {v} : at[u] = "out") => at'[v] # "timed"
  <2>1. at \in [Server -> PC]
      BY DEF SInv, Typed
  <2> QED BY <1>1, <2>1, NotifyOneWakes
<1>7. Typed'
    BY <1>1, <1>5, <1>6, SMTT(60) DEF SInv, Typed, Ordered
<1>8. Conserved(taskQueue', Busy(at), task, asked', finished)
  <2>1. asked' \ finished \subseteq Funs(taskQueue') \cup {task[s].f : s \in Busy(at)}
      BY <1>1, <1>3, <1>5, SMTT(60) DEF Conserved
  <2> QED BY <1>1, <1>3, <1>4, <1>5, <2>1, SMTT(60) DEF Conserved
<1>9. Alone'
  <2>1. \A v \in Server : at'[v] = "run" => at[v] = "run"
      BY <1>6 DEF Busy
  <2> QED BY <1>1, <1>6, <2>1 DEF SInv, Alone
<1> QED BY <1>1, <1>6, <1>7, <1>8, <1>9 DEF SInv, Conserved, Single, Funs, Busy

LEMMA StopStep ==
    ASSUME SInv, NEW drain \in BOOLEAN, Stop(drain)
    PROVE  SInv'
<1>1. /\ at' = NotifyAll(at)
      /\ UNCHANGED <<now, taskQueue, until, task, asked, finished, threads>>
    BY DEF Stop
<1>2. /\ at' \in [Server -> PC] /\ Busy(at') = Busy(at)
      /\ \A u \in Server : at[u] = "out" => at'[u] = "out"
      /\ \A v \in Server : at'[v] # "timed"
    BY <1>1, NotifyAllWakes DEF SInv, Typed
<1>3. Typed'
    BY <1>1, <1>2 DEF SInv, Typed, Ordered
<1>4. Alone'
  <2>1. \A v \in Server : at'[v] = "run" => at[v] = "run"
      BY <1>2 DEF Busy
  <2> QED BY <1>1, <1>2, <2>1 DEF SInv, Alone
<1> QED BY <1>1, <1>2, <1>3, <1>4 DEF SInv, Conserved, Single, Funs, Busy

LEMMA SInvNext ==
    ASSUME Delays PROVE SInv /\ [Next]_vars => SInv'
<1> SUFFICES ASSUME SInv, [Next]_vars PROVE SInv'
    OBVIOUS
<1>1. ASSUME NEW s \in Server, Enter(s) \/ Resume(s) PROVE SInv'
    BY <1>1, LoopStep DEF Enter, Resume
<1>2. ASSUME NEW s \in Server, TimeOut(s) PROVE SInv'
  <2>1. CASE LoopHead(s, nThreadsServicingQueue) /\ UNCHANGED <<taskQueue, task>>
      BY <1>2, <2>1, LoopStep DEF TimeOut
  <2>2. CASE Take(s)
      BY <2>2, TakeStep
  <2> QED BY <1>2, <2>1, <2>2 DEF TimeOut, Take
<1>3. ASSUME NEW s \in Server, Finish(s) \/ Throw(s) PROVE SInv'
    BY <1>3, FinishStep, ThrowStep
<1>4. CASE Tick
  <2>1. now' \in 0..MaxTime /\ now' >= now
      BY <1>4 DEF Tick, SInv, Typed, Delays
  <2>2. UNCHANGED <<taskQueue, at, until, task, asked, finished, threads>>
      BY <1>4 DEF Tick
  <2>3. Typed'
      BY <2>1, <2>2 DEF SInv, Typed, Ordered
  <2>4. Alone'
      BY <2>1, <2>2 DEF SInv, Alone, Typed, Delays
  <2> QED BY <2>2, <2>3, <2>4 DEF SInv, Conserved, Single, Funs, Busy
<1>5. CASE AllOut \/ UNCHANGED vars
  <2>1. UNCHANGED <<now, taskQueue, at, until, task, asked, finished, threads>>
      BY <1>5 DEF AllOut, vars
  <2>2. Typed' /\ Alone'
      BY <2>1 DEF SInv, Typed, Ordered, Alone
  <2> QED BY <2>1, <2>2 DEF SInv, Conserved, Single, Funs, Busy
<1> QED
    BY <1>1, <1>2, <1>3, <1>4, <1>5, ScheduleStep, StopStep DEF Next, Service

\* The scheduler is sound for every number of service threads and functions and all
\* delays: its queue stays in the order of the times, the thread count is exact,
\* scheduleFromNow, scheduleEvery and serviceQueue neither lose a function nor put it
\* in two hands, and with one service thread none runs before its time.
THEOREM SchedulerAlwaysSound ==
    ASSUME IsFiniteSet(Server), Delays
    PROVE  Spec => []SchedulerSound
<1>1. Init => SInv /\ CountInv
    BY SInvInit, CountInvInit
<1>2. SInv /\ CountInv /\ [Next]_vars => SInv' /\ CountInv'
    BY SInvNext, CountInvNext
<1>3. SInv /\ CountInv => SchedulerSound
  <2> SUFFICES ASSUME SInv, CountInv PROVE SchedulerSound
      OBVIOUS
  <2>1. ServiceCount
      BY DEF CountInv, ServiceCount, Inside
  <2>2. nThreadsServicingQueue \in 0..Cardinality(Server)
    <3>1. Inside(at) \subseteq Server
        BY DEF Inside
    <3>2. IsFiniteSet(Inside(at)) /\ Cardinality(Inside(at)) <= Cardinality(Server)
        BY <3>1, FS_Subset
    <3>3. Cardinality(Inside(at)) \in Nat /\ Cardinality(Server) \in Nat
        BY <3>2, FS_CardinalityType
    <3> QED BY <3>2, <3>3 DEF CountInv
  <2>3. \A i \in DOMAIN taskQueue : taskQueue[i].f \in Task
    <3>1. taskQueue \in Seq(Entry)
        BY DEF SInv, Typed
    <3>2. \A i \in DOMAIN taskQueue : taskQueue[i] \in Entry
        BY <3>1
    <3> QED BY <3>2 DEF Entry
  <2>4. SchedulerTyped
      BY <2>2, <2>3 DEF SInv, Typed, SchedulerTyped, Ordered, PC
  <2>5. TasksConserved
    <3>1. Conserved(taskQueue, Busy(at), task, asked, finished)
        BY DEF SInv
    <3>2. asked \ finished \subseteq Funs(taskQueue) \cup {task[s].f : s \in Busy(at)}
        BY <3>1 DEF Conserved
    <3>3. \A s \in Server : at[s] = "run" =>
            /\ \A i \in DOMAIN taskQueue : taskQueue[i].f # task[s].f
            /\ \A u \in Server : at[u] = "run" /\ task[u].f = task[s].f => u = s
        BY <3>1 DEF Conserved, Funs, Busy
    <3>4. Single(taskQueue)
        BY <3>1 DEF Conserved
    <3> QED BY <3>2, <3>3, <3>4, Zenon DEF TasksConserved, Single, Funs, Busy
  <2>6. AtOrAfter
      BY DEF SInv, Alone, AtOrAfter
  <2> QED BY <2>1, <2>4, <2>5, <2>6 DEF SchedulerSound
<1> QED BY <1>1, <1>2, <1>3, PTL DEF Spec
=============================================================================
