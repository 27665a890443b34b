-------------------------- MODULE CheckQueueProofs --------------------------
(***************************************************************************)
(* The check queue is correct for any number of workers and checks: the    *)
(* counters count, the constructor finds an idle queue, and the queue      *)
(* implements CheckQueueSpec.                                              *)
(***************************************************************************)
EXTENDS CheckQueue, FiniteSetTheorems, TLAPS

PC == {"out", "adding", "start", "wait", "woken", "work", "gone"}

\* Checks that no thread has finished, the batch of the threads in T apart.
PendingBut(T) ==
    {c \in Check : c \in queue \/ \E u \in Thread \ T : c \in batch[u]}
Pending == PendingBut({})

Sleeping(p) == {u \in Thread : p[u] \in {"wait", "woken"}}
Working(p) == {u \in Thread : p[u] = "work"}

\* The batches are disjoint and nTodo counts what is pending.
Accounting ==
    /\ nTodo = Cardinality(Pending)
    /\ Pending \subseteq round
    /\ \A t \in Thread : queue \cap batch[t] = {}
    /\ \A t, u \in Thread : t # u => batch[t] \cap batch[u] = {}

\* fAllOk is right about what is no longer pending.
Verdict ==
    /\ fAllOk => round \ Pending \subseteq Good
    /\ ~ fAllOk => ~ (round \subseteq Good)
    /\ \A t \in Thread : pc[t] = "work" /\ ~ fOk[t] => ~ (round \subseteq Good)

\* Where threads are.
Places ==
    /\ \A t \in Thread : pc[t] # "gone" => (batch[t] # {} <=> pc[t] = "work")
    /\ \A w \in Worker : pc[w] \notin {"out", "adding"}
    /\ pc[Master] = "out" => round = {} /\ fAllOk
    /\ pc[Master] = "gone" => \A t \in Thread : pc[t] = "gone"

\* nIdle and nTotal, up to what interrupted threads left behind.
Counters ==
    pc[Master] # "gone" =>
        /\ nIdle = Cardinality(Sleeping(pc)) + Cardinality(interrupted)
        /\ nTotal = nIdle + Cardinality(Working(pc))

IInv == TypeOK /\ Accounting /\ Verdict /\ Places /\ Counters

-----------------------------------------------------------------------------
\* Finite sets of threads and checks have natural cardinalities.
LEMMA FiniteSets ==
    /\ IsFiniteSet(Thread)
    /\ \A S \in SUBSET Thread : IsFiniteSet(S) /\ Cardinality(S) \in Nat
    /\ \A S \in SUBSET Check : IsFiniteSet(S) /\ Cardinality(S) \in Nat
<1>1. IsFiniteSet(Thread)
    BY ThreadAssumption, FS_AddElement DEF Thread
<1> QED
    BY <1>1, CheckAssumption, FS_Subset, FS_CardinalityType

\* IInv holds of the constructed queue with all threads outside.
LEMMA InitIInv == Init => IInv
<1> SUFFICES ASSUME Init PROVE IInv
    OBVIOUS
<1>1. TypeOK
    <2>1. fOk \in [Thread -> BOOLEAN]
        BY Zenon DEF Init
    <2>2. pc \in [Thread -> PC]
        BY DEF Init, PC
    <2>3. fAllOk \in BOOLEAN /\ unwinding \in BOOLEAN
        BY Zenon DEF Init
    <2>4. /\ batch \in [Thread -> SUBSET Check] /\ queue = {} /\ round = {}
          /\ nIdle = 0 /\ nTotal = 0 /\ nTodo = 0 /\ interrupted = {}
          /\ answer = "none"
        BY DEF Init
    <2> QED
        BY <2>1, <2>2, <2>3, <2>4 DEF TypeOK, PC
<1>2. Pending = {} /\ round = {} /\ queue = {}
    BY DEF Init, Pending, PendingBut
<1>3. Accounting
    BY <1>2, FS_EmptySet DEF Init, Accounting
<1>4. Verdict
    BY <1>2 DEF Init, Verdict
<1>5. Places
    BY ThreadAssumption DEF Init, Places, Thread
<1>6. Sleeping(pc) = {} /\ Working(pc) = {}
    BY DEF Init, Sleeping, Working
<1>7. Counters
    BY <1>6, FS_EmptySet DEF Init, Counters
<1> QED
    BY <1>1, <1>3, <1>4, <1>5, <1>7 DEF IInv

-----------------------------------------------------------------------------
\* What holds inside the critical section of t, before "logically, the do loop
\* starts here".
Middle(t, p, total, idle, todo, ok) ==
    /\ p \in [Thread -> PC]
    /\ total \in Int /\ idle \in Int /\ todo \in Nat /\ ok \in BOOLEAN
    /\ pc[Master] # "gone"
    /\ p[t] = pc[t] /\ pc[t] \in {"start", "woken", "work"}
    /\ \A u \in Thread : p[u] = pc[u] \/ (pc[u] = "wait" /\ p[u] = "woken")
    /\ todo = Cardinality(PendingBut({t}))
    /\ ok => round \ PendingBut({t}) \subseteq Good
    /\ ~ ok => ~ (round \subseteq Good)
    /\ idle = Cardinality(Sleeping(pc) \ {t}) + Cardinality(interrupted)
    /\ total = idle + Cardinality(Working(pc) \ {t}) + 1

\* The rest of the critical section re-establishes the invariant, and is a
\* return or a stuttering step of the abstract queue.
LEMMA ContinueCorrect ==
    ASSUME IInv, NEW t \in Thread, NEW p, NEW total, NEW idle, NEW todo, NEW ok,
           Middle(t, p, total, idle, todo, ok),
           Continue(t, p, total, idle, todo, ok),
           nTodo' = todo, interrupted' = interrupted
    PROVE  IInv' /\ (Abstract!Return \/ UNCHANGED Abstract!absVars)
<1> DEFINE Pd == PendingBut({t})
           Sl == Sleeping(pc) \ {t}
           Wk == Working(pc) \ {t}
<1>a. /\ Pd \in SUBSET Check /\ IsFiniteSet(Pd)
      /\ Sl \in SUBSET Thread /\ IsFiniteSet(Sl)
      /\ Wk \in SUBSET Thread /\ IsFiniteSet(Wk)
      /\ t \notin Sl /\ t \notin Wk
      /\ Cardinality(Sl) \in Nat /\ Cardinality(Wk) \in Nat
      /\ Cardinality(interrupted) \in Nat
    BY FiniteSets DEF PendingBut, Sleeping, Working, IInv, TypeOK
<1>b. /\ pc \in [Thread -> PC]
      /\ \A u \in Thread \ {t} : p[u] = "work" <=> pc[u] = "work"
      /\ \A u \in Thread \ {t} :
            p[u] \in {"wait", "woken"} <=> pc[u] \in {"wait", "woken"}
      /\ \A u \in Thread \ {t} : p[u] = "gone" <=> pc[u] = "gone"
      /\ \A u \in Thread \ {t} : p[u] = "out" <=> pc[u] = "out"
      /\ \A u \in Thread \ {t} : p[u] = "adding" <=> pc[u] = "adding"
      /\ p[t] = pc[t] /\ pc[t] \in {"start", "woken", "work"}
      /\ p \in [Thread -> PC]
    BY DEF Middle, IInv, TypeOK, PC
<1>c. /\ queue \cap batch[t] = {}
      /\ Pd \subseteq round
      /\ \A u \in Thread \ {t} : queue \cap batch[u] = {}
      /\ queue \subseteq Pd
    BY DEF IInv, Accounting, Pending, PendingBut, TypeOK
<1>d. Master \in Thread /\ Worker \subseteq Thread /\ Master \notin Worker
    BY ThreadAssumption DEF Thread
<1>1. CASE /\ LeaveLoop(t, todo)
           /\ pc' = [p EXCEPT ![t] = "out"]
           /\ nTotal' = total - 1
           /\ fAllOk' = TRUE
           /\ answer' = IF unwinding THEN "none"
                        ELSE IF ok THEN "valid" ELSE "invalid"
           /\ round' = {}
           /\ unwinding' = FALSE
           /\ nIdle' = idle
           /\ UNCHANGED <<queue, fOk>>
           /\ batch' = [batch EXCEPT ![t] = {}]
    <2>1. t = Master /\ Pd = {} /\ queue = {} /\ todo = 0
        BY <1>1, <1>a, FS_EmptySet, Zenon DEF LeaveLoop, Middle
    <2>2. TypeOK'
        <3>1. pc' \in [Thread -> PC] /\ batch' \in [Thread -> SUBSET Check]
            BY <1>1, <1>b DEF IInv, TypeOK, PC
        <3>2. answer' \in {"none", "valid", "invalid"}
            BY <1>1
        <3>3. total \in Int /\ idle \in Int /\ todo \in Nat
            BY DEF Middle
        <3>4. fAllOk' \in BOOLEAN /\ unwinding' \in BOOLEAN
            BY <1>1, Zenon
        <3>5. /\ UNCHANGED <<queue, fOk>> /\ round' = {}
              /\ nIdle' = idle /\ nTotal' = total - 1
            BY <1>1
        <3> QED
            BY <3>1, <3>2, <3>3, <3>4, <3>5 DEF IInv, TypeOK, PC
    <2>3. Pending' = Pd /\ batch' \in [Thread -> SUBSET Check]
          /\ batch'[t] = {} /\ (\A u \in Thread \ {t} : batch'[u] = batch[u])
        BY <1>1 DEF Pending, PendingBut, IInv, TypeOK
    <2>4. Accounting'
        <3>1. \A u \in Thread : batch'[u] = {}
            BY <2>1, <2>3 DEF PendingBut, IInv, TypeOK
        <3> QED
            BY <1>1, <2>1, <2>3, <3>1, FS_EmptySet, Zenon DEF Accounting
    <2>5. Verdict'
        <3>1. \A u \in Thread : pc'[u] # "work"
            <4> SUFFICES ASSUME NEW u \in Thread, pc'[u] = "work" PROVE FALSE
                OBVIOUS
            <4>1. u # t /\ pc[u] = "work"
                BY <1>1, <1>b
            <4>2. batch[u] # {} /\ batch[u] \subseteq Check
                BY <4>1 DEF IInv, Places, TypeOK
            <4> QED
                BY <4>1, <4>2, <2>1 DEF PendingBut
        <3> QED
            BY <1>1, <3>1, <2>3, <2>1 DEF Verdict
    <2>6. Places'
        <3>1. \A u \in Thread \ {t} : pc'[u] = p[u]
            BY <1>1, <1>b
        <3>2. pc'[t] = "out"
            BY <1>1, <1>b
        <3> QED
            BY <1>1, <1>b, <1>d, <2>1, <2>3, <3>1, <3>2 DEF Places, IInv
    <2>7. Counters'
        <3>1. Sleeping(pc)' = Sl /\ Working(pc)' = Wk
            BY <1>1, <1>b DEF Sleeping, Working
        <3>3. /\ nIdle' = Cardinality(Sl) + Cardinality(interrupted')
              /\ nTotal' = nIdle' + Cardinality(Wk)
            BY <1>1, <1>a DEF Middle
        <3> QED
            BY <3>1, <3>3 DEF Counters
    <2>8. Abstract!Return
        <3>1. (ok => round \subseteq Good) /\ (~ ok => ~ (round \subseteq Good))
            BY <2>1, Zenon DEF Middle
        <3>2. pc[Master] # "out" /\ pc[Master] # "adding" /\ pc'[Master] = "out"
            BY <1>1, <1>b, <2>1
        <3>3. ok \in BOOLEAN /\ unwinding \in BOOLEAN
            BY DEF Middle, IInv, TypeOK
        <3> QED
            BY <1>1, <3>1, <3>2, <3>3 DEF Abstract!Return
    <2> QED
        BY <2>2, <2>4, <2>5, <2>6, <2>7, <2>8 DEF IInv
<1>2. CASE /\ queue = {} /\ ~ LeaveLoop(t, todo)
           /\ pc' = [p EXCEPT ![t] = "wait"]
           /\ nIdle' = idle + 1
           /\ nTotal' = total
           /\ fAllOk' = ok
           /\ batch' = [batch EXCEPT ![t] = {}]
           /\ UNCHANGED <<queue, fOk, answer, round, unwinding>>
    <2>2. TypeOK'
        BY <1>2, <1>b DEF IInv, TypeOK, Middle, PC
    <2>3. Pending' = Pd /\ batch' \in [Thread -> SUBSET Check]
          /\ batch'[t] = {} /\ (\A u \in Thread \ {t} : batch'[u] = batch[u])
        BY <1>2 DEF Pending, PendingBut, IInv, TypeOK
    <2>a. pc'[t] = "wait" /\ \A u \in Thread \ {t} : pc'[u] = p[u]
        BY <1>2, <1>b
    <2>4. Accounting'
        BY <1>2, <1>c, <2>3, Zenon DEF Accounting, Middle, IInv
    <2>5. Verdict'
        BY <1>2, <1>b, <2>3, <2>a, ZenonT(60) DEF Verdict, Middle, IInv
    <2>6. Places'
        BY <1>2, <1>b, <1>d, <2>3, <2>a DEF Places, IInv, Middle
    <2>7. Counters'
        <3>1. Sleeping(pc)' = Sl \cup {t} /\ Working(pc)' = Wk
            BY <2>a, <1>b DEF Sleeping, Working
        <3>2. Cardinality(Sl \cup {t}) = Cardinality(Sl) + 1
            BY <1>a, FS_AddElement, Zenon
        <3>3. /\ nIdle' = Cardinality(Sl) + 1 + Cardinality(interrupted')
              /\ nTotal' = nIdle' + Cardinality(Wk)
            BY <1>2, <1>a DEF Middle
        <3> QED
            BY <3>1, <3>2, <3>3 DEF Counters
    <2>8. UNCHANGED Abstract!absVars
        <3>1. /\ pc[Master] = "out" <=> pc'[Master] = "out"
              /\ pc[Master] = "adding" <=> pc'[Master] = "adding"
            BY <1>b, <1>d, <2>a
        <3> QED
            BY <1>2, <3>1 DEF Abstract!absVars
    <2> QED
        BY <2>2, <2>4, <2>5, <2>6, <2>7, <2>8 DEF IInv
<1>3. CASE /\ queue # {}
           /\ \E B \in SUBSET queue :
                 /\ Cardinality(B) = BatchSize(total, idle)
                 /\ batch' = [batch EXCEPT ![t] = B]
                 /\ queue' = queue \ B
           /\ fOk' = [fOk EXCEPT ![t] = ok]
           /\ pc' = [p EXCEPT ![t] = "work"]
           /\ nIdle' = idle
           /\ nTotal' = total
           /\ fAllOk' = ok
           /\ UNCHANGED <<answer, round, unwinding>>
    <2> PICK B \in SUBSET queue :
            /\ Cardinality(B) = BatchSize(total, idle)
            /\ batch' = [batch EXCEPT ![t] = B]
            /\ queue' = queue \ B
        BY <1>3, Zenon
    <2>1. B # {} /\ B \subseteq Check
        <3>1. BatchSize(total, idle) # 0
            BY DEF BatchSize, Larger
        <3> QED
            BY <3>1, FS_EmptySet, Zenon DEF IInv, TypeOK
    <2>2. TypeOK'
        BY <1>3, <1>b, <2>1 DEF IInv, TypeOK, Middle, PC
    <2>3. /\ batch' \in [Thread -> SUBSET Check]
          /\ batch'[t] = B /\ (\A u \in Thread \ {t} : batch'[u] = batch[u])
        BY <2>1 DEF IInv, TypeOK
    <2>a. pc'[t] = "work" /\ \A u \in Thread \ {t} : pc'[u] = p[u]
        BY <1>3, <1>b
    <2>b. Pending' = Pd
        BY <2>3 DEF Pending, PendingBut
    <2>4. Accounting'
        BY <1>3, <1>c, <2>3, <2>b, ZenonT(60) DEF Accounting, Middle, IInv
    <2>5. Verdict'
        <3>1. fOk'[t] = ok /\ \A u \in Thread \ {t} : fOk'[u] = fOk[u]
            BY <1>3 DEF IInv, TypeOK
        <3>2. /\ ok => round \ Pd \subseteq Good
              /\ ~ ok => ~ (round \subseteq Good)
            BY Zenon DEF Middle
        <3>3. ASSUME NEW u \in Thread, pc'[u] = "work", ~ fOk'[u]
              PROVE  ~ (round \subseteq Good)
            <4>1. CASE u = t
                BY <4>1, <3>1, <3>2, <3>3
            <4>2. CASE u # t
                <5>1. pc[u] = "work" /\ ~ fOk[u]
                    BY <4>2, <3>1, <3>3, <2>a, <1>b, SMTT(60)
                <5> QED
                    BY <5>1 DEF IInv, Verdict
            <4> QED
                BY <4>1, <4>2
        <3> QED
            BY <1>3, <2>b, <3>2, <3>3 DEF Verdict
    <2>6. Places'
        BY <1>3, <1>b, <1>d, <2>1, <2>3, <2>a DEF Places, IInv, Middle
    <2>7. Counters'
        <3>1. Sleeping(pc)' = Sl /\ Working(pc)' = Wk \cup {t}
            BY <2>a, <1>b DEF Sleeping, Working
        <3>2. Cardinality(Wk \cup {t}) = Cardinality(Wk) + 1
            BY <1>a, FS_AddElement, SMTT(60)
        <3>3. /\ nIdle' = Cardinality(Sl) + Cardinality(interrupted')
              /\ nTotal' = nIdle' + (Cardinality(Wk) + 1)
            BY <1>3, <1>a DEF Middle
        <3>4. Cardinality(Sleeping(pc)') = Cardinality(Sl)
            BY <3>1
        <3>5. Cardinality(Working(pc)') = Cardinality(Wk) + 1
            BY <3>1, <3>2
        <3> HIDE DEF Sl, Wk
        <3> QED
            BY <3>3, <3>4, <3>5 DEF Counters
    <2>8. UNCHANGED Abstract!absVars
        <3>1. /\ pc[Master] = "out" <=> pc'[Master] = "out"
              /\ pc[Master] = "adding" <=> pc'[Master] = "adding"
            BY <1>b, <1>d, <2>a
        <3> QED
            BY <1>3, <3>1 DEF Abstract!absVars
    <2> QED
        BY <2>2, <2>4, <2>5, <2>6, <2>7, <2>8 DEF IInv
<1> QED
    BY <1>1, <1>2, <1>3, Zenon DEF Continue

-----------------------------------------------------------------------------
\* The critical sections of Loop, entered from outside, from a batch and from
\* a sleep, bring Continue to a state that satisfies Middle.
LEMMA LoopCorrect ==
    ASSUME IInv, NEW t \in Thread, Start(t) \/ FinishBatch(t) \/ Wake(t)
    PROVE  IInv' /\ (Abstract!Return \/ UNCHANGED Abstract!absVars)
<1>a. /\ pc \in [Thread -> PC] /\ nTotal \in Int /\ nIdle \in Int
      /\ nTodo \in Nat /\ fAllOk \in BOOLEAN
      /\ fOk[t] \in BOOLEAN /\ batch[t] \in SUBSET Check
    BY DEF IInv, TypeOK, PC
<1>b. /\ Sleeping(pc) \in SUBSET Thread /\ IsFiniteSet(Sleeping(pc))
      /\ Working(pc) \in SUBSET Thread /\ IsFiniteSet(Working(pc))
      /\ Pending \in SUBSET Check /\ IsFiniteSet(Pending)
      /\ Cardinality(Sleeping(pc)) \in Nat /\ Cardinality(Working(pc)) \in Nat
      /\ Cardinality(interrupted) \in Nat /\ Cardinality(Pending) \in Nat
    BY FiniteSets DEF Sleeping, Working, Pending, PendingBut, IInv, TypeOK
<1>c. pc[t] \in {"start", "work", "woken"}
    BY DEF Start, FinishBatch, Wake
<1>d. pc[Master] # "gone" /\ Master \in Thread
    BY <1>c DEF IInv, Places, Thread
<1>e. /\ nIdle = Cardinality(Sleeping(pc)) + Cardinality(interrupted)
      /\ nTotal = nIdle + Cardinality(Working(pc))
    BY <1>d DEF IInv, Counters
<1>f. /\ nTodo = Cardinality(Pending)
      /\ fAllOk => round \ Pending \subseteq Good
      /\ ~ fAllOk => ~ (round \subseteq Good)
    BY DEF IInv, Accounting, Verdict
<1>1. CASE Start(t)
    <2>1. pc[t] = "start" /\ batch[t] = {}
        BY <1>1 DEF Start, IInv, Places
    <2>2. /\ PendingBut({t}) = Pending
          /\ Sleeping(pc) \ {t} = Sleeping(pc)
          /\ Working(pc) \ {t} = Working(pc)
        BY <2>1 DEF PendingBut, Pending, Sleeping, Working
    <2>3. Middle(t, pc, nTotal + 1, nIdle, nTodo, fAllOk)
        <3>1. nTotal + 1 = nIdle + Cardinality(Working(pc) \ {t}) + 1
            BY <1>a, <1>b, <1>e, <2>2, Zenon
        <3>2. nIdle = Cardinality(Sleeping(pc) \ {t}) + Cardinality(interrupted)
            BY <1>e, <2>2
        <3>3. nTotal + 1 \in Int
            BY <1>a
        <3> QED
            BY <1>a, <1>d, <1>f, <2>1, <2>2, <3>1, <3>2, <3>3, Zenon DEF Middle
    <2> QED
        BY <1>1, <2>3, ContinueCorrect, SMTT(60) DEF Start
<1>2. CASE Wake(t)
    <2>1. pc[t] = "woken" /\ batch[t] = {}
        BY <1>2 DEF Wake, IInv, Places
    <2>2. PendingBut({t}) = Pending /\ Working(pc) \ {t} = Working(pc)
        BY <2>1 DEF PendingBut, Pending, Working
    <2>3. Cardinality(Sleeping(pc) \ {t}) = Cardinality(Sleeping(pc)) - 1
        <3>1. t \in Sleeping(pc)
            BY <2>1 DEF Sleeping
        <3> QED
            BY <3>1, <1>b, FS_RemoveElement, Zenon
    <2>4. Middle(t, pc, nTotal, nIdle - 1, nTodo, fAllOk)
        <3>a. Cardinality(Working(pc) \ {t}) = Cardinality(Working(pc))
            BY <2>2
        <3>1. nTotal = nIdle - 1 + Cardinality(Working(pc) \ {t}) + 1
            BY <1>a, <1>b, <1>e, <3>a
        <3>2. nIdle - 1 = Cardinality(Sleeping(pc) \ {t}) + Cardinality(interrupted)
            BY <1>a, <1>b, <1>e, <2>3
        <3>3. nIdle - 1 \in Int
            BY <1>a
        <3> QED
            BY <1>a, <1>d, <1>f, <2>1, <2>2, <3>1, <3>2, <3>3, Zenon DEF Middle
    <2> QED
        BY <1>2, <2>4, ContinueCorrect DEF Wake
<1>3. CASE FinishBatch(t)
    <2> DEFINE ok == fAllOk /\ fOk[t] /\ batch[t] \subseteq Good
               todo == nTodo - Cardinality(batch[t])
               Pd == PendingBut({t})
    <2>1. pc[t] = "work" /\ nTodo' = todo /\ interrupted' = interrupted
        BY <1>3 DEF FinishBatch
    <2>2. PICK p \in IF todo = 0 /\ t # Master THEN NotifyOne({Master}, pc)
                                              ELSE {pc} :
               Continue(t, p, nTotal, nIdle, todo, ok)
        BY <1>3 DEF FinishBatch
    <2>3. /\ p \in [Thread -> PC] /\ p[t] = pc[t]
          /\ \A u \in Thread : p[u] = pc[u] \/ (pc[u] = "wait" /\ p[u] = "woken")
        BY <2>1, <2>2, <1>a, <1>d, SMTT(60) DEF NotifyOne, PC
    <2>4. /\ Pd \in SUBSET Check
          /\ Pending = Pd \cup batch[t] /\ Pd \cap batch[t] = {}
          /\ batch[t] \subseteq round
        BY <1>a DEF Pending, PendingBut, IInv, Accounting
    <2>5. todo = Cardinality(Pd) /\ todo \in Nat
        <3>1. /\ IsFiniteSet(Pd) /\ IsFiniteSet(batch[t])
              /\ Cardinality(Pd) \in Nat /\ Cardinality(batch[t]) \in Nat
            BY <2>4, <1>a, FiniteSets, Zenon
        <3>2. Cardinality(Pd \cup batch[t]) =
                Cardinality(Pd) + Cardinality(batch[t]) - Cardinality({})
            BY <3>1, <2>4, FS_Union, ZenonT(60)
        <3> QED
            BY <3>1, <3>2, <2>4, <1>f, FS_EmptySet
    <2>6. ok \in BOOLEAN
        BY Zenon
    <2>7. ok => round \ Pd \subseteq Good
        BY <2>4, <1>f
    <2>8. ~ ok => ~ (round \subseteq Good)
        BY <2>1, <2>4, <1>f DEF IInv, Verdict
    <2>9. /\ Cardinality(Working(pc) \ {t}) = Cardinality(Working(pc)) - 1
          /\ Sleeping(pc) \ {t} = Sleeping(pc)
        <3>1. t \in Working(pc) /\ t \notin Sleeping(pc)
            BY <2>1 DEF Working, Sleeping
        <3>2. Cardinality(Working(pc) \ {t}) = Cardinality(Working(pc)) - 1
            BY <3>1, <1>b, FS_RemoveElement, Zenon
        <3> QED
            BY <3>1, <3>2
    <2> HIDE DEF ok, todo, Pd
    <2>10. Middle(t, p, nTotal, nIdle, todo, ok)
        <3>1. todo = Cardinality(PendingBut({t})) /\ (ok => round \ PendingBut({t}) \subseteq Good)
            BY <2>5, <2>7 DEF Pd
        <3>2. nTotal = nIdle + Cardinality(Working(pc) \ {t}) + 1
            BY <1>a, <1>b, <1>e, <2>9
        <3>3. nIdle = Cardinality(Sleeping(pc) \ {t}) + Cardinality(interrupted)
            BY <1>e, <2>9, Zenon
        <3> QED
            BY <1>a, <1>d, <2>1, <2>3, <2>5, <2>6, <2>8, <3>1, <3>2, <3>3, Zenon
               DEF Middle
    <2> QED
        BY <2>1, <2>2, <2>10, ContinueCorrect, SMTT(60)
<1> QED
    BY <1>1, <1>2, <1>3

-----------------------------------------------------------------------------
\* The steps of the master outside Loop.
LEMMA MasterCorrect ==
    ASSUME IInv, Begin \/ (\E C \in SUBSET Check : Add(C))
                       \/ (\E early \in BOOLEAN : Wait(early))
    PROVE  IInv' /\ (\/ Abstract!Begin \/ Abstract!Wait
                     \/ \E C \in SUBSET Check : Abstract!Add(C))
<1>a. /\ Master \in Thread /\ Worker \subseteq Thread /\ Master \notin Worker
      /\ pc \in [Thread -> PC]
    BY ThreadAssumption DEF Thread, IInv, TypeOK, PC
<1>1. ASSUME Begin \/ \E early \in BOOLEAN : Wait(early)
      PROVE  IInv' /\ (Abstract!Begin \/ Abstract!Wait)
    <2>1. PICK q \in {"adding", "start"} : pc' = [pc EXCEPT ![Master] = q]
        BY <1>1 DEF Begin, Wait
    <2>2. /\ pc' \in [Thread -> PC]
          /\ pc'[Master] = q /\ \A t \in Thread \ {Master} : pc'[t] = pc[t]
          /\ pc[Master] \in {"out", "adding"}
        BY <1>1, <1>a, <2>1 DEF Begin, Wait, PC
    <2>3. UNCHANGED <<queue, nIdle, nTotal, nTodo, fAllOk, batch, fOk,
                      interrupted, round>>
        BY <1>1 DEF Begin, Wait
    <2>4. answer' \in {"none", answer} /\ unwinding' \in BOOLEAN
        <3>1. CASE Begin
            BY <3>1 DEF Begin, IInv, TypeOK
        <3>2. ASSUME NEW early \in BOOLEAN, Wait(early)
              PROVE  answer' \in {"none", answer} /\ unwinding' \in BOOLEAN
            BY <3>2, Zenon DEF Wait
        <3> QED
            BY <1>1, <3>1, <3>2
    <2>5. TypeOK'
        BY <2>2, <2>3, <2>4, SMTT(60) DEF IInv, TypeOK, PC
    <2>6. Accounting' /\ Pending' = Pending
        BY <2>3 DEF IInv, Accounting, Pending, PendingBut
    <2>7. Verdict'
        BY <2>2, <2>3, <2>6 DEF IInv, Verdict
    <2>8. Places'
        BY <2>2, <2>3, <1>a, SMTT(60) DEF IInv, Places
    <2>9. Counters'
        <3>1. Sleeping(pc)' = Sleeping(pc) /\ Working(pc)' = Working(pc)
            BY <2>2 DEF Sleeping, Working
        <3> QED
            BY <3>1, <2>2, <2>3 DEF IInv, Counters
    <2>10. Abstract!Begin \/ Abstract!Wait
        BY <1>1, <2>1, <2>2 DEF Begin, Wait, Abstract!Begin, Abstract!Wait
    <2> QED
        BY <2>5, <2>6, <2>7, <2>8, <2>9, <2>10 DEF IInv
<1>2. ASSUME NEW C \in SUBSET Check, Add(C)
      PROVE  IInv' /\ Abstract!Add(C)
    <2>1. /\ C \in SUBSET (Check \ round)
          /\ queue' = queue \cup C /\ round' = round \cup C
          /\ nTodo' = nTodo + Cardinality(C) /\ pc[Master] = "adding"
          /\ UNCHANGED <<nIdle, nTotal, fAllOk, batch, fOk, interrupted,
                         unwinding, answer>>
        BY <1>2 DEF Add
    <2>2. /\ pc' \in [Thread -> PC]
          /\ \A u \in Thread : pc'[u] = pc[u] \/ (pc[u] = "wait" /\ pc'[u] = "woken")
        <3>1. /\ NotifyAll(pc) \in [Thread -> PC]
              /\ \A u \in Thread : \/ NotifyAll(pc)[u] = pc[u]
                                   \/ pc[u] = "wait" /\ NotifyAll(pc)[u] = "woken"
            BY <1>a DEF NotifyAll, PC
        <3>2. ASSUME NEW p \in NotifyOne(Worker, pc)
              PROVE  /\ p \in [Thread -> PC]
                     /\ \A u \in Thread : p[u] = pc[u]
                                       \/ (pc[u] = "wait" /\ p[u] = "woken")
            BY <1>a DEF NotifyOne, PC
        <3>3. pc' = pc \/ pc' \in NotifyOne(Worker, pc) \/ pc' = NotifyAll(pc)
            BY <1>2 DEF Add
        <3> QED
            BY <3>1, <3>2, <3>3, <1>a
    <2>3. TypeOK'
        BY <2>1, <2>2, FiniteSets DEF IInv, TypeOK, PC
    <2>4. Pending' = Pending \cup C /\ Pending \cap C = {}
        BY <2>1, SMTT(60) DEF Pending, PendingBut, IInv, TypeOK, Accounting
    <2>5. Accounting'
        <3>1. IsFiniteSet(Pending) /\ IsFiniteSet(C)
              /\ Cardinality(Pending) \in Nat /\ Cardinality(C) \in Nat
            BY FiniteSets DEF Pending, PendingBut
        <3>2. Cardinality(Pending \cup C) =
                Cardinality(Pending) + Cardinality(C) - Cardinality({})
            BY <3>1, <2>4, FS_Union
        <3>3. nTodo' = Cardinality(Pending')
            BY <2>1, <2>4, <3>1, <3>2, FS_EmptySet DEF IInv, Accounting
        <3>4. \A t \in Thread : C \cap batch[t] = {}
            BY <2>4 DEF Pending, PendingBut, IInv, TypeOK
        <3> QED
            BY <2>1, <2>4, <3>3, <3>4 DEF IInv, Accounting
    <2>6. Verdict'
        BY <2>1, <2>2, <2>4 DEF IInv, Verdict
    <2>7. Places'
        BY <2>1, <2>2, <1>a DEF IInv, Places
    <2>8. Counters'
        <3>1. Sleeping(pc)' = Sleeping(pc) /\ Working(pc)' = Working(pc)
            BY <2>2 DEF Sleeping, Working
        <3> QED
            BY <3>1, <2>1, <2>2, <1>a DEF IInv, Counters
    <2>9. Abstract!Add(C)
        BY <2>1, <2>2, <1>a DEF Abstract!Add
    <2> QED
        BY <2>3, <2>5, <2>6, <2>7, <2>8, <2>9 DEF IInv
<1> QED
    BY <1>1, <1>2

\* Wake-ups for nothing, interruptions and termination.
LEMMA DisturbanceCorrect ==
    ASSUME IInv, NEW t \in Thread, SpuriousWakeup(t) \/ Interrupt(t)
    PROVE  IInv' /\ UNCHANGED Abstract!absVars
<1>a. /\ Master \in Thread /\ Worker \subseteq Thread /\ Master \notin Worker
      /\ pc \in [Thread -> PC] /\ pc[t] \in {"wait", "woken"}
      /\ unwinding \in BOOLEAN
    BY ThreadAssumption DEF Thread, IInv, TypeOK, PC, SpuriousWakeup, Interrupt
<1>b. UNCHANGED <<queue, nIdle, nTotal, nTodo, fAllOk, batch, fOk, round, answer>>
    BY DEF SpuriousWakeup, Interrupt
<1>1. /\ pc' \in [Thread -> PC]
      /\ \/ /\ interrupted' = interrupted /\ pc'[t] = "woken"
            /\ \A u \in Thread \ {t} : pc'[u] = pc[u]
         \/ /\ interrupted' = interrupted \cup {t} /\ t \notin interrupted
            /\ \/ t = Master /\ \A u \in Thread : pc'[u] = "gone"
               \/ /\ pc'[t] = IF t = Master THEN "start" ELSE "gone"
                  /\ \A u \in Thread \ {t} : pc'[u] = pc[u]
    <2>1. CASE SpuriousWakeup(t)
        BY <2>1, <1>a DEF SpuriousWakeup, PC
    <2>2. CASE Interrupt(t) /\ t # Master
        BY <2>2, <1>a DEF Interrupt, PC
    <2>3. CASE Interrupt(t) /\ t = Master /\ unwinding
        BY <2>3, <1>a DEF Interrupt, PC
    <2>4. CASE Interrupt(t) /\ t = Master /\ ~ unwinding
        BY <2>4, <1>a DEF Interrupt, PC
    <2> QED
        BY <1>a, <2>1, <2>2, <2>3, <2>4
<1>2. unwinding' \in BOOLEAN
    <2>1. CASE SpuriousWakeup(t)
        BY <2>1, <1>a DEF SpuriousWakeup
    <2>2. CASE Interrupt(t)
        BY <2>2, Zenon DEF Interrupt
    <2> QED
        BY <2>1, <2>2
<1>3. TypeOK'
    <2>1. interrupted' \in SUBSET Thread
        BY <1>1, SMTT(60) DEF IInv, TypeOK
    <2> QED
        BY <1>1, <1>2, <1>b, <2>1 DEF IInv, TypeOK, PC
<1>4. Accounting' /\ Pending' = Pending
    BY <1>b DEF IInv, Accounting, Pending, PendingBut
<1>5. Verdict'
    BY <1>1, <1>b, <1>4, SMTT(60) DEF IInv, Verdict
<1>6. Places'
    BY <1>1, <1>a, <1>b DEF IInv, Places
<1>7. Counters'
    <2> SUFFICES ASSUME pc'[Master] # "gone" PROVE Counters'
        BY DEF Counters
    <2>a. IsFiniteSet(Sleeping(pc)) /\ IsFiniteSet(interrupted)
          /\ Cardinality(Sleeping(pc)) \in Nat /\ Cardinality(interrupted) \in Nat
        BY FiniteSets DEF Sleeping, IInv, TypeOK
    <2>b. /\ nIdle = Cardinality(Sleeping(pc)) + Cardinality(interrupted)
          /\ nTotal = nIdle + Cardinality(Working(pc))
        BY <1>a DEF IInv, Counters, Places
    <2>c. Working(pc)' = Working(pc)
        BY <1>1, <1>a DEF Working
    <2>d. nTotal' = nIdle' + Cardinality(Working(pc)')
        BY <2>b, <2>c, <1>b
    <2>1. CASE interrupted' = interrupted /\ pc'[t] = "woken"
               /\ \A u \in Thread \ {t} : pc'[u] = pc[u]
        <3>1. Sleeping(pc)' = Sleeping(pc)
            BY <2>1, <1>a DEF Sleeping
        <3> QED
            BY <3>1, <2>1, <2>b, <2>d, <1>b DEF Counters
    <2>2. CASE /\ interrupted' = interrupted \cup {t} /\ t \notin interrupted
               /\ pc'[t] = IF t = Master THEN "start" ELSE "gone"
               /\ \A u \in Thread \ {t} : pc'[u] = pc[u]
        <3>1. Sleeping(pc)' = Sleeping(pc) \ {t} /\ t \in Sleeping(pc)
            BY <2>2, <1>a DEF Sleeping
        <3>2. Cardinality(Sleeping(pc)') = Cardinality(Sleeping(pc)) - 1
            BY <3>1, <2>a, FS_RemoveElement, Zenon
        <3>3. Cardinality(interrupted') = Cardinality(interrupted) + 1
            BY <2>2, <2>a, FS_AddElement, Zenon
        <3>4. nIdle' = Cardinality(Sleeping(pc)') + Cardinality(interrupted')
            BY <3>2, <3>3, <2>a, <2>b, <1>b
        <3> QED
            BY <3>4, <2>d DEF Counters
    <2> QED
        BY <1>1, <1>a, <2>1, <2>2
<1>8. UNCHANGED Abstract!absVars
    <2>1. /\ pc[Master] = "out" <=> pc'[Master] = "out"
          /\ pc[Master] = "adding" <=> pc'[Master] = "adding"
        BY <1>1, <1>a
    <2> QED
        BY <1>b, <2>1 DEF Abstract!absVars
<1> QED
    BY <1>3, <1>4, <1>5, <1>6, <1>7, <1>8 DEF IInv

-----------------------------------------------------------------------------
\* Every step preserves IInv and is a step of the abstract queue or none.
LEMMA StepCorrect ==
    IInv /\ [Next]_vars => IInv' /\ [Abstract!Next]_(Abstract!absVars)
<1> SUFFICES ASSUME IInv, [Next]_vars
             PROVE  IInv' /\ [Abstract!Next]_(Abstract!absVars)
    OBVIOUS
<1>1. CASE UNCHANGED vars
    <2>1. IInv'
        BY <1>1 DEF vars, IInv, TypeOK, Accounting, Verdict, Places, Counters,
                    Pending, PendingBut, Sleeping, Working
    <2>2. UNCHANGED Abstract!absVars
        BY <1>1 DEF vars, Abstract!absVars
    <2> QED
        BY <2>1, <2>2, SMTT(60)
<1>2. CASE Begin \/ (\E C \in SUBSET Check : Add(C))
                 \/ (\E early \in BOOLEAN : Wait(early))
    BY <1>2, MasterCorrect DEF Abstract!Next
<1>3. ASSUME NEW t \in Thread, Start(t) \/ FinishBatch(t) \/ Wake(t)
      PROVE  IInv' /\ [Abstract!Next]_(Abstract!absVars)
    BY <1>3, LoopCorrect DEF Abstract!Next
<1>4. ASSUME NEW t \in Thread, SpuriousWakeup(t) \/ Interrupt(t)
      PROVE  IInv' /\ [Abstract!Next]_(Abstract!absVars)
    BY <1>4, DisturbanceCorrect
<1> QED
    BY <1>1, <1>2, <1>3, <1>4 DEF Next, Terminated

\* IInv is an invariant.
LEMMA AlwaysIInv == Spec => []IInv
<1>1. IInv /\ [Next]_vars => IInv'
    BY StepCorrect
<1> QED
    BY InitIInv, <1>1, PTL DEF Spec

\* For any number of workers and checks nTodo counts the queue and all batches.
THEOREM TodoAlwaysCounts == Spec => []TodoCounts
<1>1. IInv => TodoCounts
    <2> SUFFICES ASSUME IInv PROVE TodoCounts
        OBVIOUS
    <2>1. queue \cup UNION {batch[t] : t \in Thread} = Pending
        BY DEF Pending, PendingBut, IInv, TypeOK
    <2> QED
        BY <2>1, Zenon DEF TodoCounts, IInv, Accounting
<1> QED
    BY <1>1, AlwaysIInv, PTL

\* The assertion of CCheckQueueControl's constructor never fails: IsIdle() holds
\* whenever the master is outside.
THEOREM ControllerAlwaysFindsIdle == Spec => []ControllerFindsIdle
<1>1. IInv => ControllerFindsIdle
    <2> SUFFICES ASSUME IInv, pc[Master] = "out"
                 PROVE  nTotal = nIdle /\ nTodo = 0 /\ fAllOk
        BY DEF ControllerFindsIdle
    <2>1. Pending = {} /\ fAllOk
        BY DEF IInv, Places, Accounting
    <2>2. nTodo = 0
        BY <2>1, FS_EmptySet DEF IInv, Accounting
    <2>3. Working(pc) = {}
        <3> SUFFICES ASSUME NEW t \in Thread, pc[t] = "work" PROVE FALSE
            BY DEF Working
        <3>1. batch[t] # {} /\ batch[t] \subseteq Check
            BY DEF IInv, Places, TypeOK
        <3> QED
            BY <3>1, <2>1 DEF Pending, PendingBut
    <2>4. nTotal = nIdle + 0
        BY <2>3, FS_EmptySet DEF IInv, Counters
    <2> QED
        BY <2>1, <2>2, <2>4 DEF IInv, TypeOK
<1> QED
    BY <1>1, AlwaysIInv, PTL

\* CCheckQueue implements its abstract specification: what Wait returns is
\* whether every check added since the controller was made is good.
THEOREM QueueImplementsSpec == Spec => ImplementsSpec
<1>1. Init => Abstract!Init
    BY ThreadAssumption DEF Init, Abstract!Init, Thread
<1>2. IInv /\ [Next]_vars => [Abstract!Next]_(Abstract!absVars)
    BY StepCorrect
<1> QED
    BY <1>1, <1>2, AlwaysIInv, PTL DEF Spec, ImplementsSpec, Abstract!Spec
=============================================================================
