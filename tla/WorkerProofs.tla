---------------------------- MODULE WorkerProofs ----------------------------
(***************************************************************************)
(* Proofs about Worker, for every set of workers and threads.              *)
(***************************************************************************)
EXTENDS Worker, TLAPS

USE NoneAssumption

\* ~Worker, whoever runs it, keeps the types of what it assigns.
LEMMA DestroyTypes ==
    ASSUME TypeOK, NEW w \in Workers, Destroy(w)
    PROVE  /\ cancelled' \in [Workers -> BOOLEAN]
           /\ intr' \in [Threads -> BOOLEAN]
           /\ fault' \in Faults
<1>1. cancelled' \in [Workers -> BOOLEAN]
  BY DEF TypeOK, Destroy
<1>2. intr' \in [Threads -> BOOLEAN]
  BY DEF TypeOK, Destroy, InterruptHandle
<1>3. fault' \in Faults
  BY DEF TypeOK, Destroy, Faults
<1> QED
  BY <1>1, <1>2, <1>3

\* A dropped reference either destroys the worker or assigns nothing.
LEMMA DropTypes ==
    ASSUME TypeOK, NEW t \in Threads, pc[t] # "idle", DropReference(t)
    PROVE  /\ cancelled' \in [Workers -> BOOLEAN]
           /\ intr' \in [Threads -> BOOLEAN]
           /\ fault' \in Faults
<1>1. CASE Destroy(target[t])
  <2>1. target[t] \in Workers
    BY DEF TypeOK
  <2> QED
    BY <1>1, <2>1, DestroyTypes
<1>2. CASE UNCHANGED <<cancelled, intr, fault>>
  BY <1>2 DEF TypeOK
<1> QED
  BY <1>1, <1>2 DEF DropReference

\* Every step keeps the types; the other lemmas rest on it.
LEMMA TypeStep == TypeOK /\ [Next]_vars => TypeOK'
<1> SUFFICES ASSUME TypeOK, [Next]_vars PROVE TypeOK'
  OBVIOUS
<1> USE DEF workerVars, threadVars, flagVars
<1>1. ASSUME NEW w \in Workers, NEW old \in Workers \cup {None}, Assign(old, w) PROVE TypeOK'
  <2>1. /\ cancelled' \in [Workers -> BOOLEAN]
        /\ intr' \in [Threads -> BOOLEAN]
        /\ fault' \in Faults
    <3>1. CASE old \in Workers /\ Destroy(old)
      BY <3>1, DestroyTypes
    <3>2. CASE UNCHANGED <<cancelled, intr, fault>>
      BY <3>2 DEF TypeOK
    <3> QED
      BY <1>1, <3>1, <3>2 DEF Assign
  <2> QED
    BY <1>1, <2>1 DEF Assign, TypeOK
<1>2. ASSUME NEW w \in Workers, NEW t \in Threads, Start(w, t) PROVE TypeOK'
  BY <1>2 DEF Start, TypeOK, Pcs
<1>3. ASSUME NEW w \in Workers, BeginCancel(w) PROVE TypeOK'
  BY <1>3 DEF BeginCancel, TypeOK, MainOps
<1>4. ASSUME NEW w \in Workers, EndCancel(w) PROVE TypeOK'
  BY <1>4 DEF EndCancel, TypeOK, InterruptHandle, Idle, MainOps
<1>5. ASSUME NEW w \in Workers, BeginRun(w) PROVE TypeOK'
  BY <1>5 DEF BeginRun, TypeOK, MainOps
<1>6. ASSUME NEW w \in Workers, EndRun(w) PROVE TypeOK'
  BY <1>6 DEF EndRun, TypeOK, MainOps, Idle
<1>7. ASSUME NEW w \in Workers, Release(w) PROVE TypeOK'
  <2>1. /\ cancelled' \in [Workers -> BOOLEAN]
        /\ intr' \in [Threads -> BOOLEAN]
        /\ fault' \in Faults
    <3>1. CASE Destroy(w)
      BY <3>1, DestroyTypes
    <3>2. CASE UNCHANGED <<cancelled, intr, fault>>
      BY <3>2 DEF TypeOK
    <3> QED
      BY <1>7, <3>1, <3>2 DEF Release
  <2> QED
    BY <1>7, <2>1 DEF Release, TypeOK
<1>8. ASSUME NEW t \in Threads, LockWorker(t) PROVE TypeOK'
  BY <1>8 DEF LockWorker, TypeOK, Goto, Pcs, Critical, Runner, Delegated, Finishing, Faults
<1>9. ASSUME NEW t \in Threads, AcquireWork(t) PROVE TypeOK'
  BY <1>9 DEF AcquireWork, TypeOK, Goto, Pcs, Critical, Runner, Delegated, Finishing
<1>10. ASSUME NEW t \in Threads, CheckRunning(t) PROVE TypeOK'
  BY <1>10 DEF CheckRunning, TypeOK, Goto, Pcs, Critical, Runner, Delegated, Finishing
<1>11. ASSUME NEW t \in Threads, MarkRunning(t) PROVE TypeOK'
  BY <1>11 DEF MarkRunning, TypeOK, Goto, Pcs, Critical, Runner, Delegated, Finishing
<1>12. ASSUME NEW t \in Threads, ReleaseWorker(t) PROVE TypeOK'
  <2>1. pc[t] # "idle" /\ DropReference(t)
    BY <1>12 DEF ReleaseWorker, Goto
  <2>2. /\ cancelled' \in [Workers -> BOOLEAN]
        /\ intr' \in [Threads -> BOOLEAN]
        /\ fault' \in Faults
    BY <2>1, DropTypes
  <2> QED
    BY <1>12, <2>2 DEF ReleaseWorker, Goto, TypeOK, Pcs, Critical, Runner, Delegated, Finishing
<1>13. ASSUME NEW t \in Threads, UnlockWork(t) PROVE TypeOK'
  BY <1>13 DEF UnlockWork, TypeOK, Goto, Pcs, Critical, Runner, Delegated, Finishing
<1>14. ASSUME NEW t \in Threads, DelegateReturns(t) PROVE TypeOK'
  BY <1>14 DEF DelegateReturns, TypeOK, Goto, Pcs, Critical, Runner, Delegated, Finishing
<1>15. ASSUME NEW t \in Threads, DelegateInterrupted(t) PROVE TypeOK'
  BY <1>15 DEF DelegateInterrupted, TypeOK, Goto, Pcs, Critical, Runner, Delegated, Finishing
<1>16. ASSUME NEW t \in Threads, DelegateUnwinds(t) PROVE TypeOK'
  BY <1>16 DEF DelegateUnwinds, TypeOK, Goto, Pcs, Critical, Runner, Delegated, Finishing
<1>17. ASSUME NEW w \in Workers, RunTerminates(w) PROVE TypeOK'
  BY <1>17 DEF RunTerminates, TypeOK, Faults
<1>18. ASSUME NEW t \in Threads, DelegateTerminates(t) PROVE TypeOK'
  BY <1>18 DEF DelegateTerminates, TypeOK, Goto, Pcs, Critical, Runner, Delegated, Finishing, Faults
<1>19. ASSUME NEW t \in Threads, RelockWorker(t) PROVE TypeOK'
  BY <1>19 DEF RelockWorker, TypeOK, Goto, Pcs, Critical, Runner, Delegated, Finishing
<1>20. ASSUME NEW t \in Threads, PublishResult(t) PROVE TypeOK'
  BY <1>20 DEF PublishResult, TypeOK, Goto, Pcs, Critical, Runner, Delegated, Finishing
<1>21. ASSUME NEW t \in Threads, ReadCancelled(t) PROVE TypeOK'
  BY <1>21 DEF ReadCancelled, TypeOK, Goto, Pcs, Critical, Runner, Delegated, Finishing
<1>22. ASSUME NEW t \in Threads, SetComplete(t) PROVE TypeOK'
  BY <1>22 DEF SetComplete, TypeOK, Goto, Pcs, Critical, Runner, Delegated, Finishing
<1>23. ASSUME NEW t \in Threads, ClearRunning(t) PROVE TypeOK'
  BY <1>23 DEF ClearRunning, TypeOK, Goto, Pcs, Critical, Runner, Delegated, Finishing
<1>24. ASSUME NEW t \in Threads, Leave(t) PROVE TypeOK'
  <2>1. pc[t] # "idle" /\ DropReference(t)
    BY <1>24 DEF Leave, Goto
  <2>2. /\ cancelled' \in [Workers -> BOOLEAN]
        /\ intr' \in [Threads -> BOOLEAN]
        /\ fault' \in Faults
    BY <2>1, DropTypes
  <2> QED
    BY <1>24, <2>2 DEF Leave, Goto, TypeOK, Pcs, Critical, Runner, Delegated, Finishing
<1>25. CASE UNCHANGED vars
  BY <1>25 DEF vars, TypeOK
<1> QED
  BY <1>1, <1>2, <1>3, <1>4, <1>5, <1>6, <1>7, <1>8, <1>9, <1>10, <1>11, <1>12,
     <1>13, <1>14, <1>15, <1>16, <1>17, <1>18, <1>19, <1>20, <1>21, <1>22, <1>23,
     <1>24, <1>25
     DEF Next, OwnerStep, ThreadStep, ThreadProceeds

\* Threads stay with the worker they were spawned for.
LEMMA BelongStep ==
    ASSUME TypeOK, BelongInv, [Next]_vars
    PROVE  BelongInv'
<1> USE DEF workerVars, threadVars, flagVars
<1>0. TypeOK'
  BY TypeStep
<1> USE DEF BelongInv, TypeOK
<1>1. ASSUME NEW w \in Workers, NEW old \in Workers \cup {None}, Assign(old, w) PROVE BelongInv'
  BY <1>1, <1>0 DEF Assign, Destroy, InterruptHandle
<1>2. ASSUME NEW w \in Workers, NEW t \in Threads, Start(w, t) PROVE BelongInv'
  BY <1>2, <1>0 DEF Start
<1>3. ASSUME NEW w \in Workers, BeginCancel(w) PROVE BelongInv'
  BY <1>3, <1>0 DEF BeginCancel
<1>4. ASSUME NEW w \in Workers, EndCancel(w) PROVE BelongInv'
  BY <1>4, <1>0 DEF EndCancel, InterruptHandle
<1>5. ASSUME NEW w \in Workers, BeginRun(w) PROVE BelongInv'
  BY <1>5, <1>0 DEF BeginRun
<1>6. ASSUME NEW w \in Workers, EndRun(w) PROVE BelongInv'
  BY <1>6, <1>0 DEF EndRun
<1>7. ASSUME NEW w \in Workers, Release(w) PROVE BelongInv'
  BY <1>7, <1>0 DEF Release, Destroy, InterruptHandle
<1>8. ASSUME NEW t \in Threads, LockWorker(t) PROVE BelongInv'
  BY <1>8, <1>0 DEF LockWorker, Goto
<1>9. ASSUME NEW t \in Threads, AcquireWork(t) PROVE BelongInv'
  BY <1>9, <1>0 DEF AcquireWork, Goto
<1>10. ASSUME NEW t \in Threads, CheckRunning(t) PROVE BelongInv'
  BY <1>10, <1>0 DEF CheckRunning, Goto
<1>11. ASSUME NEW t \in Threads, MarkRunning(t) PROVE BelongInv'
  BY <1>11, <1>0 DEF MarkRunning, Goto
<1>12. ASSUME NEW t \in Threads, ReleaseWorker(t) PROVE BelongInv'
  BY <1>12, <1>0 DEF ReleaseWorker, Goto, DropReference, Destroy, InterruptHandle
<1>13. ASSUME NEW t \in Threads, UnlockWork(t) PROVE BelongInv'
  BY <1>13, <1>0 DEF UnlockWork, Goto
<1>14. ASSUME NEW t \in Threads, DelegateReturns(t) PROVE BelongInv'
  BY <1>14, <1>0 DEF DelegateReturns, Goto
<1>15. ASSUME NEW t \in Threads, DelegateInterrupted(t) PROVE BelongInv'
  BY <1>15, <1>0 DEF DelegateInterrupted, Goto
<1>16. ASSUME NEW t \in Threads, DelegateUnwinds(t) PROVE BelongInv'
  BY <1>16, <1>0 DEF DelegateUnwinds, Goto
<1>17. ASSUME NEW w \in Workers, RunTerminates(w) PROVE BelongInv'
  BY <1>17, <1>0 DEF RunTerminates
<1>18. ASSUME NEW t \in Threads, DelegateTerminates(t) PROVE BelongInv'
  BY <1>18, <1>0 DEF DelegateTerminates, Goto
<1>19. ASSUME NEW t \in Threads, RelockWorker(t) PROVE BelongInv'
  BY <1>19, <1>0 DEF RelockWorker, Goto
<1>20. ASSUME NEW t \in Threads, PublishResult(t) PROVE BelongInv'
  BY <1>20, <1>0 DEF PublishResult, Goto
<1>21. ASSUME NEW t \in Threads, ReadCancelled(t) PROVE BelongInv'
  BY <1>21, <1>0 DEF ReadCancelled, Goto
<1>22. ASSUME NEW t \in Threads, SetComplete(t) PROVE BelongInv'
  BY <1>22, <1>0 DEF SetComplete, Goto
<1>23. ASSUME NEW t \in Threads, ClearRunning(t) PROVE BelongInv'
  BY <1>23, <1>0 DEF ClearRunning, Goto
<1>24. ASSUME NEW t \in Threads, Leave(t) PROVE BelongInv'
  BY <1>24, <1>0 DEF Leave, Goto, DropReference, Destroy, InterruptHandle
<1>25. CASE UNCHANGED vars
  BY <1>25 DEF vars
<1> QED
  BY <1>1, <1>2, <1>3, <1>4, <1>5, <1>6, <1>7, <1>8, <1>9, <1>10, <1>11, <1>12,
     <1>13, <1>14, <1>15, <1>16, <1>17, <1>18, <1>19, <1>20, <1>21, <1>22, <1>23,
     <1>24, <1>25
     DEF Next, OwnerStep, ThreadStep, ThreadProceeds

\* Only its holder gives the work mutex up.
LEMMA WorkStep ==
    ASSUME TypeOK, WorkInv, [Next]_vars
    PROVE  WorkInv'
<1> USE DEF workerVars, threadVars, flagVars
<1>0. TypeOK'
  BY TypeStep
<1> USE DEF WorkInv, TypeOK, Critical
<1>1. ASSUME NEW w \in Workers, NEW old \in Workers \cup {None}, Assign(old, w) PROVE WorkInv'
  BY <1>1, <1>0 DEF Assign, Destroy, InterruptHandle
<1>2. ASSUME NEW w \in Workers, NEW t \in Threads, Start(w, t) PROVE WorkInv'
  BY <1>2, <1>0 DEF Start
<1>3. ASSUME NEW w \in Workers, BeginCancel(w) PROVE WorkInv'
  BY <1>3, <1>0 DEF BeginCancel
<1>4. ASSUME NEW w \in Workers, EndCancel(w) PROVE WorkInv'
  BY <1>4, <1>0 DEF EndCancel, InterruptHandle
<1>5. ASSUME NEW w \in Workers, BeginRun(w) PROVE WorkInv'
  BY <1>5, <1>0 DEF BeginRun
<1>6. ASSUME NEW w \in Workers, EndRun(w) PROVE WorkInv'
  BY <1>6, <1>0 DEF EndRun
<1>7. ASSUME NEW w \in Workers, Release(w) PROVE WorkInv'
  BY <1>7, <1>0 DEF Release, Destroy, InterruptHandle
<1>8. ASSUME NEW t \in Threads, LockWorker(t) PROVE WorkInv'
  BY <1>8, <1>0 DEF LockWorker, Goto
<1>9. ASSUME NEW t \in Threads, AcquireWork(t) PROVE WorkInv'
  BY <1>9, <1>0 DEF AcquireWork, Goto
<1>10. ASSUME NEW t \in Threads, CheckRunning(t) PROVE WorkInv'
  BY <1>10, <1>0 DEF CheckRunning, Goto
<1>11. ASSUME NEW t \in Threads, MarkRunning(t) PROVE WorkInv'
  BY <1>11, <1>0 DEF MarkRunning, Goto
<1>12. ASSUME NEW t \in Threads, ReleaseWorker(t) PROVE WorkInv'
  BY <1>12, <1>0 DEF ReleaseWorker, Goto, DropReference, Destroy, InterruptHandle
<1>13. ASSUME NEW t \in Threads, UnlockWork(t) PROVE WorkInv'
  BY <1>13, <1>0 DEF UnlockWork, Goto
<1>14. ASSUME NEW t \in Threads, DelegateReturns(t) PROVE WorkInv'
  BY <1>14, <1>0 DEF DelegateReturns, Goto
<1>15. ASSUME NEW t \in Threads, DelegateInterrupted(t) PROVE WorkInv'
  BY <1>15, <1>0 DEF DelegateInterrupted, Goto
<1>16. ASSUME NEW t \in Threads, DelegateUnwinds(t) PROVE WorkInv'
  BY <1>16, <1>0 DEF DelegateUnwinds, Goto
<1>17. ASSUME NEW w \in Workers, RunTerminates(w) PROVE WorkInv'
  BY <1>17, <1>0 DEF RunTerminates
<1>18. ASSUME NEW t \in Threads, DelegateTerminates(t) PROVE WorkInv'
  BY <1>18, <1>0 DEF DelegateTerminates, Goto
<1>19. ASSUME NEW t \in Threads, RelockWorker(t) PROVE WorkInv'
  BY <1>19, <1>0 DEF RelockWorker, Goto
<1>20. ASSUME NEW t \in Threads, PublishResult(t) PROVE WorkInv'
  BY <1>20, <1>0 DEF PublishResult, Goto
<1>21. ASSUME NEW t \in Threads, ReadCancelled(t) PROVE WorkInv'
  BY <1>21, <1>0 DEF ReadCancelled, Goto
<1>22. ASSUME NEW t \in Threads, SetComplete(t) PROVE WorkInv'
  BY <1>22, <1>0 DEF SetComplete, Goto
<1>23. ASSUME NEW t \in Threads, ClearRunning(t) PROVE WorkInv'
  BY <1>23, <1>0 DEF ClearRunning, Goto
<1>24. ASSUME NEW t \in Threads, Leave(t) PROVE WorkInv'
  BY <1>24, <1>0 DEF Leave, Goto, DropReference, Destroy, InterruptHandle
<1>25. CASE UNCHANGED vars
  BY <1>25 DEF vars
<1> QED
  BY <1>1, <1>2, <1>3, <1>4, <1>5, <1>6, <1>7, <1>8, <1>9, <1>10, <1>11, <1>12,
     <1>13, <1>14, <1>15, <1>16, <1>17, <1>18, <1>19, <1>20, <1>21, <1>22, <1>23,
     <1>24, <1>25
     DEF Next, OwnerStep, ThreadStep, ThreadProceeds

\* Whoever takes the work mutex of a worker gives it up before it leaves the section.
LEMMA HolderStep ==
    ASSUME TypeOK, WorkInv, MutexHasHolder, [Next]_vars
    PROVE  MutexHasHolder'
<1> USE DEF workerVars, threadVars, flagVars
<1>0. TypeOK'
  BY TypeStep
<1> USE DEF MutexHasHolder, WorkInv, TypeOK, Critical
<1>1. ASSUME NEW w \in Workers, NEW old \in Workers \cup {None}, Assign(old, w)
      PROVE MutexHasHolder'
  BY <1>1, <1>0 DEF Assign, Destroy, InterruptHandle
<1>2. ASSUME NEW w \in Workers, NEW t \in Threads, Start(w, t) PROVE MutexHasHolder'
  BY <1>2, <1>0 DEF Start
<1>3. ASSUME NEW w \in Workers, BeginCancel(w) PROVE MutexHasHolder'
  BY <1>3, <1>0 DEF BeginCancel
<1>4. ASSUME NEW w \in Workers, EndCancel(w) PROVE MutexHasHolder'
  BY <1>4, <1>0 DEF EndCancel, InterruptHandle
<1>5. ASSUME NEW w \in Workers, BeginRun(w) PROVE MutexHasHolder'
  BY <1>5, <1>0 DEF BeginRun
<1>6. ASSUME NEW w \in Workers, EndRun(w) PROVE MutexHasHolder'
  BY <1>6, <1>0 DEF EndRun
<1>7. ASSUME NEW w \in Workers, Release(w) PROVE MutexHasHolder'
  BY <1>7, <1>0 DEF Release, Destroy, InterruptHandle
<1>8. ASSUME NEW t \in Threads, LockWorker(t) PROVE MutexHasHolder'
  BY <1>8, <1>0 DEF LockWorker, Goto
<1>9. ASSUME NEW t \in Threads, AcquireWork(t) PROVE MutexHasHolder'
  BY <1>9, <1>0 DEF AcquireWork, Goto
<1>10. ASSUME NEW t \in Threads, CheckRunning(t) PROVE MutexHasHolder'
  BY <1>10, <1>0 DEF CheckRunning, Goto
<1>11. ASSUME NEW t \in Threads, MarkRunning(t) PROVE MutexHasHolder'
  BY <1>11, <1>0 DEF MarkRunning, Goto
<1>12. ASSUME NEW t \in Threads, ReleaseWorker(t) PROVE MutexHasHolder'
  BY <1>12, <1>0 DEF ReleaseWorker, Goto, DropReference, Destroy, InterruptHandle
<1>13. ASSUME NEW t \in Threads, UnlockWork(t) PROVE MutexHasHolder'
  BY <1>13, <1>0 DEF UnlockWork, Goto
<1>14. ASSUME NEW t \in Threads, DelegateReturns(t) PROVE MutexHasHolder'
  BY <1>14, <1>0 DEF DelegateReturns, Goto
<1>15. ASSUME NEW t \in Threads, DelegateInterrupted(t) PROVE MutexHasHolder'
  BY <1>15, <1>0 DEF DelegateInterrupted, Goto
<1>16. ASSUME NEW t \in Threads, DelegateUnwinds(t) PROVE MutexHasHolder'
  BY <1>16, <1>0 DEF DelegateUnwinds, Goto
<1>17. ASSUME NEW w \in Workers, RunTerminates(w) PROVE MutexHasHolder'
  BY <1>17, <1>0 DEF RunTerminates
<1>18. ASSUME NEW t \in Threads, DelegateTerminates(t) PROVE MutexHasHolder'
  BY <1>18, <1>0 DEF DelegateTerminates, Goto
<1>19. ASSUME NEW t \in Threads, RelockWorker(t) PROVE MutexHasHolder'
  BY <1>19, <1>0 DEF RelockWorker, Goto
<1>20. ASSUME NEW t \in Threads, PublishResult(t) PROVE MutexHasHolder'
  BY <1>20, <1>0 DEF PublishResult, Goto
<1>21. ASSUME NEW t \in Threads, ReadCancelled(t) PROVE MutexHasHolder'
  BY <1>21, <1>0 DEF ReadCancelled, Goto
<1>22. ASSUME NEW t \in Threads, SetComplete(t) PROVE MutexHasHolder'
  BY <1>22, <1>0 DEF SetComplete, Goto
<1>23. ASSUME NEW t \in Threads, ClearRunning(t) PROVE MutexHasHolder'
  BY <1>23, <1>0 DEF ClearRunning, Goto
<1>24. ASSUME NEW t \in Threads, Leave(t) PROVE MutexHasHolder'
  BY <1>24, <1>0 DEF Leave, Goto, DropReference, Destroy, InterruptHandle
<1>25. CASE UNCHANGED vars
  BY <1>25 DEF vars
<1> QED
  BY <1>1, <1>2, <1>3, <1>4, <1>5, <1>6, <1>7, <1>8, <1>9, <1>10, <1>11, <1>12,
     <1>13, <1>14, <1>15, <1>16, <1>17, <1>18, <1>19, <1>20, <1>21, <1>22, <1>23,
     <1>24, <1>25
     DEF Next, OwnerStep, ThreadStep, ThreadProceeds

\* The check and the mark under one mutex let in one runner at a time.
LEMMA RunnerStep ==
    ASSUME TypeOK, BelongInv, WorkInv, RunnerInv, [Next]_vars
    PROVE  RunnerInv'
<1> USE DEF workerVars, threadVars, flagVars
<1>0. TypeOK'
  BY TypeStep
<1> USE DEF RunnerInv, BelongInv, WorkInv, TypeOK, Critical, Runner, Delegated, Finishing
<1>1. ASSUME NEW w \in Workers, NEW old \in Workers \cup {None}, Assign(old, w) PROVE RunnerInv'
  BY <1>1, <1>0 DEF Assign, Destroy, InterruptHandle
<1>2. ASSUME NEW w \in Workers, NEW t \in Threads, Start(w, t) PROVE RunnerInv'
  BY <1>2, <1>0 DEF Start
<1>3. ASSUME NEW w \in Workers, BeginCancel(w) PROVE RunnerInv'
  BY <1>3, <1>0 DEF BeginCancel
<1>4. ASSUME NEW w \in Workers, EndCancel(w) PROVE RunnerInv'
  BY <1>4, <1>0 DEF EndCancel, InterruptHandle
<1>5. ASSUME NEW w \in Workers, BeginRun(w) PROVE RunnerInv'
  BY <1>5, <1>0 DEF BeginRun
<1>6. ASSUME NEW w \in Workers, EndRun(w) PROVE RunnerInv'
  BY <1>6, <1>0 DEF EndRun
<1>7. ASSUME NEW w \in Workers, Release(w) PROVE RunnerInv'
  BY <1>7, <1>0 DEF Release, Destroy, InterruptHandle
<1>8. ASSUME NEW t \in Threads, LockWorker(t) PROVE RunnerInv'
  BY <1>8, <1>0 DEF LockWorker, Goto
<1>9. ASSUME NEW t \in Threads, AcquireWork(t) PROVE RunnerInv'
  BY <1>9, <1>0 DEF AcquireWork, Goto
<1>10. ASSUME NEW t \in Threads, CheckRunning(t) PROVE RunnerInv'
  BY <1>10, <1>0 DEF CheckRunning, Goto
<1>11. ASSUME NEW t \in Threads, MarkRunning(t) PROVE RunnerInv'
  BY <1>11, <1>0 DEF MarkRunning, Goto
<1>12. ASSUME NEW t \in Threads, ReleaseWorker(t) PROVE RunnerInv'
  BY <1>12, <1>0 DEF ReleaseWorker, Goto, DropReference, Destroy, InterruptHandle
<1>13. ASSUME NEW t \in Threads, UnlockWork(t) PROVE RunnerInv'
  BY <1>13, <1>0 DEF UnlockWork, Goto
<1>14. ASSUME NEW t \in Threads, DelegateReturns(t) PROVE RunnerInv'
  BY <1>14, <1>0 DEF DelegateReturns, Goto
<1>15. ASSUME NEW t \in Threads, DelegateInterrupted(t) PROVE RunnerInv'
  BY <1>15, <1>0 DEF DelegateInterrupted, Goto
<1>16. ASSUME NEW t \in Threads, DelegateUnwinds(t) PROVE RunnerInv'
  BY <1>16, <1>0 DEF DelegateUnwinds, Goto
<1>17. ASSUME NEW w \in Workers, RunTerminates(w) PROVE RunnerInv'
  BY <1>17, <1>0 DEF RunTerminates
<1>18. ASSUME NEW t \in Threads, DelegateTerminates(t) PROVE RunnerInv'
  BY <1>18, <1>0 DEF DelegateTerminates, Goto
<1>19. ASSUME NEW t \in Threads, RelockWorker(t) PROVE RunnerInv'
  BY <1>19, <1>0 DEF RelockWorker, Goto
<1>20. ASSUME NEW t \in Threads, PublishResult(t) PROVE RunnerInv'
  BY <1>20, <1>0 DEF PublishResult, Goto
<1>21. ASSUME NEW t \in Threads, ReadCancelled(t) PROVE RunnerInv'
  BY <1>21, <1>0 DEF ReadCancelled, Goto
<1>22. ASSUME NEW t \in Threads, SetComplete(t) PROVE RunnerInv'
  BY <1>22, <1>0 DEF SetComplete, Goto
<1>23. ASSUME NEW t \in Threads, ClearRunning(t) PROVE RunnerInv'
  BY <1>23, <1>0 DEF ClearRunning, Goto
<1>24. ASSUME NEW t \in Threads, Leave(t) PROVE RunnerInv'
  BY <1>24, <1>0 DEF Leave, Goto, DropReference, Destroy, InterruptHandle
<1>25. CASE UNCHANGED vars
  BY <1>25 DEF vars
<1> QED
  BY <1>1, <1>2, <1>3, <1>4, <1>5, <1>6, <1>7, <1>8, <1>9, <1>10, <1>11, <1>12,
     <1>13, <1>14, <1>15, <1>16, <1>17, <1>18, <1>19, <1>20, <1>21, <1>22, <1>23,
     <1>24, <1>25
     DEF Next, OwnerStep, ThreadStep, ThreadProceeds

\* Every mark has its runner until the runner clears it or the worker is gone.
LEMMA RunningStep ==
    ASSUME TypeOK, BelongInv, WorkInv, RunnerInv, RunningHasRunner, [Next]_vars
    PROVE  RunningHasRunner'
<1> USE DEF workerVars, threadVars, flagVars
<1>0. TypeOK'
  BY TypeStep
<1> USE DEF RunningHasRunner, RunnerInv, BelongInv, WorkInv, TypeOK,
            Critical, Runner, Delegated, Finishing, Alive, Holders, Holding
<1>1. ASSUME NEW w \in Workers, NEW old \in Workers \cup {None}, Assign(old, w)
      PROVE RunningHasRunner'
  <2>1. \A t \in Threads : pc[t] # "idle" => target[t] # w
    BY <1>1 DEF Assign, BelongInv, TypeOK
  <2>2. ASSUME NEW x \in Workers, x # w, Alive(x)' PROVE Alive(x)
    BY <1>1, <2>2 DEF Assign, Alive, Holders, TypeOK
  <2>3. ~running[w] /\ UNCHANGED <<running, pc, target>>
    BY <1>1 DEF Assign, BelongInv
  <2>4. \A t \in Threads : target[t] = w => pc[t] \notin Runner
    BY <2>1 DEF Runner, Delegated, Finishing
  <2> QED
    BY <2>2, <2>3, <2>4 DEF RunningHasRunner
<1>2. ASSUME NEW w \in Workers, NEW t \in Threads, Start(w, t) PROVE RunningHasRunner'
  <2>1. \A s \in Threads : \/ target'[s] = target[s] /\ pc'[s] = pc[s]
                           \/ pc[s] = "idle" /\ pc'[s] = "entry"
    BY <1>2 DEF Start
  <2>2. UNCHANGED <<running, owner>>
    BY <1>2 DEF Start
  <2>3. ASSUME NEW x \in Workers, Alive(x)' PROVE Alive(x)
    BY <2>1, <2>2, <2>3
  <2>4. ASSUME NEW x \in Workers
        PROVE  (\E s \in Threads : target[s] = x /\ pc[s] \in Runner)
               <=> (\E s \in Threads : target'[s] = x /\ pc'[s] \in Runner)
    BY <2>1
  <2> QED
    BY <2>2, <2>3, <2>4 DEF RunningHasRunner
<1>3. ASSUME NEW w \in Workers, BeginCancel(w) PROVE RunningHasRunner'
  BY <1>3, <1>0 DEF BeginCancel
<1>4. ASSUME NEW w \in Workers, EndCancel(w) PROVE RunningHasRunner'
  BY <1>4, <1>0 DEF EndCancel, InterruptHandle
<1>5. ASSUME NEW w \in Workers, BeginRun(w) PROVE RunningHasRunner'
  BY <1>5, <1>0 DEF BeginRun
<1>6. ASSUME NEW w \in Workers, EndRun(w) PROVE RunningHasRunner'
  BY <1>6, <1>0 DEF EndRun
<1>7. ASSUME NEW w \in Workers, Release(w) PROVE RunningHasRunner'
  BY <1>7, <1>0 DEF Release, Destroy, InterruptHandle
<1>8. ASSUME NEW t \in Threads, LockWorker(t) PROVE RunningHasRunner'
  BY <1>8, <1>0 DEF LockWorker, Goto
<1>9. ASSUME NEW t \in Threads, AcquireWork(t) PROVE RunningHasRunner'
  BY <1>9, <1>0 DEF AcquireWork, Goto
<1>10. ASSUME NEW t \in Threads, CheckRunning(t) PROVE RunningHasRunner'
  BY <1>10, <1>0 DEF CheckRunning, Goto
<1>11. ASSUME NEW t \in Threads, MarkRunning(t) PROVE RunningHasRunner'
  BY <1>11, <1>0 DEF MarkRunning, Goto
<1>12. ASSUME NEW t \in Threads, ReleaseWorker(t) PROVE RunningHasRunner'
  BY <1>12, <1>0 DEF ReleaseWorker, Goto, DropReference, Destroy, InterruptHandle
<1>13. ASSUME NEW t \in Threads, UnlockWork(t) PROVE RunningHasRunner'
  BY <1>13, <1>0 DEF UnlockWork, Goto
<1>14. ASSUME NEW t \in Threads, DelegateReturns(t) PROVE RunningHasRunner'
  BY <1>14, <1>0 DEF DelegateReturns, Goto
<1>15. ASSUME NEW t \in Threads, DelegateInterrupted(t) PROVE RunningHasRunner'
  BY <1>15, <1>0 DEF DelegateInterrupted, Goto
<1>16. ASSUME NEW t \in Threads, DelegateUnwinds(t) PROVE RunningHasRunner'
  BY <1>16, <1>0 DEF DelegateUnwinds, Goto
<1>17. ASSUME NEW w \in Workers, RunTerminates(w) PROVE RunningHasRunner'
  BY <1>17, <1>0 DEF RunTerminates
<1>18. ASSUME NEW t \in Threads, DelegateTerminates(t) PROVE RunningHasRunner'
  BY <1>18, <1>0 DEF DelegateTerminates, Goto
<1>19. ASSUME NEW t \in Threads, RelockWorker(t) PROVE RunningHasRunner'
  BY <1>19, <1>0 DEF RelockWorker, Goto
<1>20. ASSUME NEW t \in Threads, PublishResult(t) PROVE RunningHasRunner'
  BY <1>20, <1>0 DEF PublishResult, Goto
<1>21. ASSUME NEW t \in Threads, ReadCancelled(t) PROVE RunningHasRunner'
  BY <1>21, <1>0 DEF ReadCancelled, Goto
<1>22. ASSUME NEW t \in Threads, SetComplete(t) PROVE RunningHasRunner'
  BY <1>22, <1>0 DEF SetComplete, Goto
<1>23. ASSUME NEW t \in Threads, ClearRunning(t) PROVE RunningHasRunner'
  BY <1>23, <1>0 DEF ClearRunning, Goto
<1>24. ASSUME NEW t \in Threads, Leave(t) PROVE RunningHasRunner'
  BY <1>24, <1>0 DEF Leave, Goto, DropReference, Destroy, InterruptHandle
<1>25. CASE UNCHANGED vars
  BY <1>25 DEF vars
<1> QED
  BY <1>1, <1>2, <1>3, <1>4, <1>5, <1>6, <1>7, <1>8, <1>9, <1>10, <1>11, <1>12,
     <1>13, <1>14, <1>15, <1>16, <1>17, <1>18, <1>19, <1>20, <1>21, <1>22, <1>23,
     <1>24, <1>25
     DEF Next, OwnerStep, ThreadStep, ThreadProceeds

\* Nothing interrupts a thread before its worker says it is cancelled.
LEMMA CancelStep ==
    ASSUME TypeOK, BelongInv, CancelInv, [Next]_vars
    PROVE  CancelInv'
<1> USE DEF workerVars, threadVars, flagVars
<1>0. TypeOK'
  BY TypeStep
<1> USE DEF CancelInv, BelongInv, TypeOK, Idle
<1>1. ASSUME NEW w \in Workers, NEW old \in Workers \cup {None}, Assign(old, w) PROVE CancelInv'
  BY <1>1, <1>0 DEF Assign, Destroy, InterruptHandle
<1>2. ASSUME NEW w \in Workers, NEW t \in Threads, Start(w, t) PROVE CancelInv'
  BY <1>2, <1>0 DEF Start
<1>3. ASSUME NEW w \in Workers, BeginCancel(w) PROVE CancelInv'
  BY <1>3, <1>0 DEF BeginCancel
<1>4. ASSUME NEW w \in Workers, EndCancel(w) PROVE CancelInv'
  BY <1>4, <1>0 DEF EndCancel, InterruptHandle
<1>5. ASSUME NEW w \in Workers, BeginRun(w) PROVE CancelInv'
  BY <1>5, <1>0 DEF BeginRun
<1>6. ASSUME NEW w \in Workers, EndRun(w) PROVE CancelInv'
  BY <1>6, <1>0 DEF EndRun
<1>7. ASSUME NEW w \in Workers, Release(w) PROVE CancelInv'
  BY <1>7, <1>0 DEF Release, Destroy, InterruptHandle
<1>8. ASSUME NEW t \in Threads, LockWorker(t) PROVE CancelInv'
  BY <1>8, <1>0 DEF LockWorker, Goto
<1>9. ASSUME NEW t \in Threads, AcquireWork(t) PROVE CancelInv'
  BY <1>9, <1>0 DEF AcquireWork, Goto
<1>10. ASSUME NEW t \in Threads, CheckRunning(t) PROVE CancelInv'
  BY <1>10, <1>0 DEF CheckRunning, Goto
<1>11. ASSUME NEW t \in Threads, MarkRunning(t) PROVE CancelInv'
  BY <1>11, <1>0 DEF MarkRunning, Goto
<1>12. ASSUME NEW t \in Threads, ReleaseWorker(t) PROVE CancelInv'
  BY <1>12, <1>0 DEF ReleaseWorker, Goto, DropReference, Destroy, InterruptHandle
<1>13. ASSUME NEW t \in Threads, UnlockWork(t) PROVE CancelInv'
  BY <1>13, <1>0 DEF UnlockWork, Goto
<1>14. ASSUME NEW t \in Threads, DelegateReturns(t) PROVE CancelInv'
  BY <1>14, <1>0 DEF DelegateReturns, Goto
<1>15. ASSUME NEW t \in Threads, DelegateInterrupted(t) PROVE CancelInv'
  BY <1>15, <1>0 DEF DelegateInterrupted, Goto
<1>16. ASSUME NEW t \in Threads, DelegateUnwinds(t) PROVE CancelInv'
  BY <1>16, <1>0 DEF DelegateUnwinds, Goto
<1>17. ASSUME NEW w \in Workers, RunTerminates(w) PROVE CancelInv'
  BY <1>17, <1>0 DEF RunTerminates
<1>18. ASSUME NEW t \in Threads, DelegateTerminates(t) PROVE CancelInv'
  BY <1>18, <1>0 DEF DelegateTerminates, Goto
<1>19. ASSUME NEW t \in Threads, RelockWorker(t) PROVE CancelInv'
  BY <1>19, <1>0 DEF RelockWorker, Goto
<1>20. ASSUME NEW t \in Threads, PublishResult(t) PROVE CancelInv'
  BY <1>20, <1>0 DEF PublishResult, Goto
<1>21. ASSUME NEW t \in Threads, ReadCancelled(t) PROVE CancelInv'
  BY <1>21, <1>0 DEF ReadCancelled, Goto
<1>22. ASSUME NEW t \in Threads, SetComplete(t) PROVE CancelInv'
  BY <1>22, <1>0 DEF SetComplete, Goto
<1>23. ASSUME NEW t \in Threads, ClearRunning(t) PROVE CancelInv'
  BY <1>23, <1>0 DEF ClearRunning, Goto
<1>24. ASSUME NEW t \in Threads, Leave(t) PROVE CancelInv'
  BY <1>24, <1>0 DEF Leave, Goto, DropReference, Destroy, InterruptHandle
<1>25. CASE UNCHANGED vars
  BY <1>25 DEF vars
<1> QED
  BY <1>1, <1>2, <1>3, <1>4, <1>5, <1>6, <1>7, <1>8, <1>9, <1>10, <1>11, <1>12,
     <1>13, <1>14, <1>15, <1>16, <1>17, <1>18, <1>19, <1>20, <1>21, <1>22, <1>23,
     <1>24, <1>25
     DEF Next, OwnerStep, ThreadStep, ThreadProceeds

\* The inductive invariant of the component.
\* A worker that a thread has left goes on running or is complete.
LEMMA SilenceStep ==
    ASSUME TypeOK, BelongInv, RunnerInv, SilenceInv, [Next]_vars
    PROVE  SilenceInv'
<1> USE DEF workerVars, threadVars, flagVars
<1>0. TypeOK'
  BY TypeStep
<1> USE DEF SilenceInv, BelongInv, RunnerInv, TypeOK, Runner, Delegated, Finishing, Alive, Holders, Holding
<1>1. ASSUME NEW w \in Workers, NEW old \in Workers \cup {None}, Assign(old, w) PROVE SilenceInv'
  BY <1>1, <1>0 DEF Assign, Destroy, InterruptHandle
<1>2. ASSUME NEW w \in Workers, NEW t \in Threads, Start(w, t) PROVE SilenceInv'
  BY <1>2, <1>0 DEF Start
<1>3. ASSUME NEW w \in Workers, BeginCancel(w) PROVE SilenceInv'
  BY <1>3, <1>0 DEF BeginCancel
<1>4. ASSUME NEW w \in Workers, EndCancel(w) PROVE SilenceInv'
  BY <1>4, <1>0 DEF EndCancel, InterruptHandle
<1>5. ASSUME NEW w \in Workers, BeginRun(w) PROVE SilenceInv'
  BY <1>5, <1>0 DEF BeginRun
<1>6. ASSUME NEW w \in Workers, EndRun(w) PROVE SilenceInv'
  BY <1>6, <1>0 DEF EndRun
<1>7. ASSUME NEW w \in Workers, Release(w) PROVE SilenceInv'
  BY <1>7, <1>0 DEF Release, Destroy, InterruptHandle
<1>8. ASSUME NEW t \in Threads, LockWorker(t) PROVE SilenceInv'
  BY <1>8, <1>0 DEF LockWorker, Goto
<1>9. ASSUME NEW t \in Threads, AcquireWork(t) PROVE SilenceInv'
  BY <1>9, <1>0 DEF AcquireWork, Goto
<1>10. ASSUME NEW t \in Threads, CheckRunning(t) PROVE SilenceInv'
  BY <1>10, <1>0 DEF CheckRunning, Goto
<1>11. ASSUME NEW t \in Threads, MarkRunning(t) PROVE SilenceInv'
  BY <1>11, <1>0 DEF MarkRunning, Goto
<1>12. ASSUME NEW t \in Threads, ReleaseWorker(t) PROVE SilenceInv'
  BY <1>12, <1>0 DEF ReleaseWorker, Goto, DropReference, Destroy, InterruptHandle
<1>13. ASSUME NEW t \in Threads, UnlockWork(t) PROVE SilenceInv'
  BY <1>13, <1>0 DEF UnlockWork, Goto
<1>14. ASSUME NEW t \in Threads, DelegateReturns(t) PROVE SilenceInv'
  BY <1>14, <1>0 DEF DelegateReturns, Goto
<1>15. ASSUME NEW t \in Threads, DelegateInterrupted(t) PROVE SilenceInv'
  BY <1>15, <1>0 DEF DelegateInterrupted, Goto
<1>16. ASSUME NEW t \in Threads, DelegateUnwinds(t) PROVE SilenceInv'
  BY <1>16, <1>0 DEF DelegateUnwinds, Goto
<1>17. ASSUME NEW w \in Workers, RunTerminates(w) PROVE SilenceInv'
  BY <1>17, <1>0 DEF RunTerminates
<1>18. ASSUME NEW t \in Threads, DelegateTerminates(t) PROVE SilenceInv'
  BY <1>18, <1>0 DEF DelegateTerminates, Goto
<1>19. ASSUME NEW t \in Threads, RelockWorker(t) PROVE SilenceInv'
  BY <1>19, <1>0 DEF RelockWorker, Goto
<1>20. ASSUME NEW t \in Threads, PublishResult(t) PROVE SilenceInv'
  BY <1>20, <1>0 DEF PublishResult, Goto
<1>21. ASSUME NEW t \in Threads, ReadCancelled(t) PROVE SilenceInv'
  BY <1>21, <1>0 DEF ReadCancelled, Goto
<1>22. ASSUME NEW t \in Threads, SetComplete(t) PROVE SilenceInv'
  BY <1>22, <1>0 DEF SetComplete, Goto
<1>23. ASSUME NEW t \in Threads, ClearRunning(t) PROVE SilenceInv'
  BY <1>23, <1>0 DEF ClearRunning, Goto
<1>24. ASSUME NEW t \in Threads, Leave(t) PROVE SilenceInv'
  BY <1>24, <1>0 DEF Leave, Goto, DropReference, Destroy, InterruptHandle
<1>25. CASE UNCHANGED vars
  BY <1>25 DEF vars
<1> QED
  BY <1>1, <1>2, <1>3, <1>4, <1>5, <1>6, <1>7, <1>8, <1>9, <1>10, <1>11, <1>12,
     <1>13, <1>14, <1>15, <1>16, <1>17, <1>18, <1>19, <1>20, <1>21, <1>22, <1>23,
     <1>24, <1>25
     DEF Next, OwnerStep, ThreadStep, ThreadProceeds

\* Only the delegate's return gives a thread its outcome.
LEMMA CallStep ==
    ASSUME TypeOK, CallInv, [Next]_vars
    PROVE  CallInv'
<1> USE DEF workerVars, threadVars, flagVars
<1>0. TypeOK'
  BY TypeStep
<1> USE DEF CallInv, TypeOK, Critical, Delegated, Finishing
<1>1. ASSUME NEW w \in Workers, NEW old \in Workers \cup {None}, Assign(old, w) PROVE CallInv'
  BY <1>1, <1>0 DEF Assign, Destroy, InterruptHandle
<1>2. ASSUME NEW w \in Workers, NEW t \in Threads, Start(w, t) PROVE CallInv'
  BY <1>2, <1>0 DEF Start
<1>3. ASSUME NEW w \in Workers, BeginCancel(w) PROVE CallInv'
  BY <1>3, <1>0 DEF BeginCancel
<1>4. ASSUME NEW w \in Workers, EndCancel(w) PROVE CallInv'
  BY <1>4, <1>0 DEF EndCancel, InterruptHandle
<1>5. ASSUME NEW w \in Workers, BeginRun(w) PROVE CallInv'
  BY <1>5, <1>0 DEF BeginRun
<1>6. ASSUME NEW w \in Workers, EndRun(w) PROVE CallInv'
  BY <1>6, <1>0 DEF EndRun
<1>7. ASSUME NEW w \in Workers, Release(w) PROVE CallInv'
  BY <1>7, <1>0 DEF Release, Destroy, InterruptHandle
<1>8. ASSUME NEW t \in Threads, LockWorker(t) PROVE CallInv'
  BY <1>8, <1>0 DEF LockWorker, Goto
<1>9. ASSUME NEW t \in Threads, AcquireWork(t) PROVE CallInv'
  BY <1>9, <1>0 DEF AcquireWork, Goto
<1>10. ASSUME NEW t \in Threads, CheckRunning(t) PROVE CallInv'
  BY <1>10, <1>0 DEF CheckRunning, Goto
<1>11. ASSUME NEW t \in Threads, MarkRunning(t) PROVE CallInv'
  BY <1>11, <1>0 DEF MarkRunning, Goto
<1>12. ASSUME NEW t \in Threads, ReleaseWorker(t) PROVE CallInv'
  BY <1>12, <1>0 DEF ReleaseWorker, Goto, DropReference, Destroy, InterruptHandle
<1>13. ASSUME NEW t \in Threads, UnlockWork(t) PROVE CallInv'
  BY <1>13, <1>0 DEF UnlockWork, Goto
<1>14. ASSUME NEW t \in Threads, DelegateReturns(t) PROVE CallInv'
  BY <1>14, <1>0 DEF DelegateReturns, Goto
<1>15. ASSUME NEW t \in Threads, DelegateInterrupted(t) PROVE CallInv'
  BY <1>15, <1>0 DEF DelegateInterrupted, Goto
<1>16. ASSUME NEW t \in Threads, DelegateUnwinds(t) PROVE CallInv'
  BY <1>16, <1>0 DEF DelegateUnwinds, Goto
<1>17. ASSUME NEW w \in Workers, RunTerminates(w) PROVE CallInv'
  BY <1>17, <1>0 DEF RunTerminates
<1>18. ASSUME NEW t \in Threads, DelegateTerminates(t) PROVE CallInv'
  BY <1>18, <1>0 DEF DelegateTerminates, Goto
<1>19. ASSUME NEW t \in Threads, RelockWorker(t) PROVE CallInv'
  BY <1>19, <1>0 DEF RelockWorker, Goto
<1>20. ASSUME NEW t \in Threads, PublishResult(t) PROVE CallInv'
  BY <1>20, <1>0 DEF PublishResult, Goto
<1>21. ASSUME NEW t \in Threads, ReadCancelled(t) PROVE CallInv'
  BY <1>21, <1>0 DEF ReadCancelled, Goto
<1>22. ASSUME NEW t \in Threads, SetComplete(t) PROVE CallInv'
  BY <1>22, <1>0 DEF SetComplete, Goto
<1>23. ASSUME NEW t \in Threads, ClearRunning(t) PROVE CallInv'
  BY <1>23, <1>0 DEF ClearRunning, Goto
<1>24. ASSUME NEW t \in Threads, Leave(t) PROVE CallInv'
  BY <1>24, <1>0 DEF Leave, Goto, DropReference, Destroy, InterruptHandle
<1>25. CASE UNCHANGED vars
  BY <1>25 DEF vars
<1> QED
  BY <1>1, <1>2, <1>3, <1>4, <1>5, <1>6, <1>7, <1>8, <1>9, <1>10, <1>11, <1>12,
     <1>13, <1>14, <1>15, <1>16, <1>17, <1>18, <1>19, <1>20, <1>21, <1>22, <1>23,
     <1>24, <1>25
     DEF Next, OwnerStep, ThreadStep, ThreadProceeds

\* A program in which nothing has been created yet satisfies the invariant.
LEMMA InitIsSafe == Init => IInv
<1> SUFFICES ASSUME Init PROVE IInv
  OBVIOUS
<1>1. TypeOK
  BY DEF Init, TypeOK, MainOps, Idle, Pcs, Faults
<1>2. BelongInv /\ WorkInv /\ CancelInv
  BY DEF Init, BelongInv, WorkInv, CancelInv, Critical, Idle
<1>3. RunnerInv /\ RunningHasRunner
  BY DEF Init, RunnerInv, RunningHasRunner, Runner, Delegated, Finishing
<1>4. MutexHasHolder /\ SilenceInv /\ CallInv
  BY DEF Init, MutexHasHolder, SilenceInv, CallInv, Critical, Delegated, Finishing
<1> QED
  BY <1>1, <1>2, <1>3, <1>4 DEF IInv

\* Every step keeps the invariant.
LEMMA Transition == IInv /\ [Next]_vars => IInv'
BY TypeStep, BelongStep, WorkStep, HolderStep, RunnerStep, RunningStep, CancelStep,
   SilenceStep, CallStep DEF IInv

\* The invariant holds however the owner uses its workers.
THEOREM Invariance == Spec => []IInv
BY InitIsSafe, Transition, PTL DEF Spec

\* Worker.cpp keeps the types of its state.
THEOREM TypeCorrect == Spec => []TypeOK
<1>1. IInv => TypeOK
  BY DEF IInv
<1> QED
  BY <1>1, Invariance, PTL

\* However many times a worker is started, one thread at a time executes its
\* delegate (operator(), Worker.cpp:173-206).
THEOREM OneThreadPerDelegate == Spec => []DelegateExclusive
<1>1. IInv => DelegateExclusive
  BY DEF IInv, RunnerInv, DelegateExclusive, Runner, Delegated
<1> QED
  BY <1>1, Invariance, PTL

\* _running is true of an existing worker exactly while a thread that set it has
\* not cleared it, the threads ended by an interruption included.
THEOREM RunningIsAccurate == Spec => []RunningHasRunner
<1>1. IInv => RunningHasRunner
  BY DEF IInv
<1> QED
  BY <1>1, Invariance, PTL

\* Whoever interrupts a thread has set the cancelled flag of its worker first.
THEOREM NoUnannouncedInterruption == Spec => []InterruptedIsCancelled
<1>1. IInv => InterruptedIsCancelled
  BY DEF IInv, CancelInv, InterruptedIsCancelled
<1> QED
  BY <1>1, Invariance, PTL

\* No thread waits for a work mutex that nobody is left to unlock (Worker.cpp:186).
THEOREM MutexIsNeverAbandoned == Spec => []MutexHasHolder
<1>1. IInv => MutexHasHolder
  BY DEF IInv
<1> QED
  BY <1>1, Invariance, PTL

\* A worker whose threads are all over has the word that notify() looks for: the last
\* one set complete, or was interrupted after cancelled was set, whatever the others
\* found (Worker.cpp:188, 206, 226).
THEOREM SomebodyHasTheWord == Spec => []NobodyEndsSilently
<1>1. ASSUME IInv PROVE NobodyEndsSilently
  <2> SUFFICES ASSUME NEW w \in Workers, Alive(w), NEW t \in Threads, target[t] = w,
                      \A s \in Threads : target[s] = w => pc[s] \in Ended
               PROVE  complete[w] \/ cancelled[w]
    BY DEF NobodyEndsSilently
  <2>1. CASE pc[t] = "interrupted"
    BY <1>1, <2>1 DEF IInv, CancelInv
  <2>2. CASE pc[t] = "ended" /\ ~complete[w]
    <3>1. running[w]
      BY <1>1, <2>2 DEF IInv, SilenceInv
    <3>2. PICK s \in Threads : target[s] = w /\ pc[s] \in Runner
      BY <1>1, <3>1 DEF IInv, RunningHasRunner
    <3>3. pc[s] = "interrupted"
      BY <3>2 DEF Ended, Runner, Delegated, Finishing
    <3> QED
      BY <1>1, <3>2, <3>3 DEF IInv, CancelInv
  <2> QED
    BY <2>1, <2>2 DEF Ended
<1> QED
  BY <1>1, Invariance, PTL

\* A step of the program is one of the delegate's that a thread calls, or leaves it alone.
LEMMA CallMoves ==
    ASSUME TypeOK, CallInv, Next, NEW s \in Threads
    PROVE  [Call(s)!Next]_(Call(s)!vars)
<1> USE DEF workerVars, threadVars, flagVars, TypeOK, CallInv, Called, Call!vars, Call!Next, Call!Interrupt
<1> USE DEF Critical, Delegated, Finishing
<1>0. fault = "none"
  BY DEF Next
\* What may happen to the thread while it is not at it: its worker goes, and interrupts it.
<1>a. ASSUME NEW w \in Workers, Destroy(w) \/ UNCHANGED <<cancelled, intr, fault>>
      PROVE  fault' # "terminate" /\ intr'[s] \in {intr[s], TRUE}
  <2>1. CASE Destroy(w)
    <3>1. fault' # "terminate"
      BY <1>0, <2>1 DEF Destroy
    <3>2. intr'[s] = (intr[s] \/ s = handle[w])
      BY <2>1 DEF Destroy, InterruptHandle
    <3>3. intr[s] \in BOOLEAN
      OBVIOUS
    <3>4. CASE intr[s] \/ s = handle[w]
      BY <3>1, <3>2, <3>3, <3>4
    <3>5. CASE ~(intr[s] \/ s = handle[w])
      BY <3>1, <3>2, <3>3, <3>5
    <3> QED
      BY <3>4, <3>5
  <2> QED
    BY <1>0, <1>a, <2>1
<1>b. ASSUME fault' # "terminate", intr'[s] \in {intr[s], TRUE}, outcome' = outcome, Called(s)' = Called(s)
      PROVE  [Call(s)!Next]_(Call(s)!vars)
  BY <1>0, <1>b
<1>1. ASSUME NEW w \in Workers, NEW old \in Workers \cup {None}, Assign(old, w)
      PROVE [Call(s)!Next]_(Call(s)!vars)
  <2>1. fault' # "terminate" /\ intr'[s] \in {intr[s], TRUE}
    BY <1>0, <1>1, <1>a DEF Assign
  <2>2. outcome' = outcome /\ Called(s)' = Called(s)
    BY <1>1 DEF Assign
  <2> QED
    BY <2>1, <2>2, <1>b
<1>2. ASSUME NEW w \in Workers, NEW t \in Threads, Start(w, t) PROVE [Call(s)!Next]_(Call(s)!vars)
  BY <1>0, <1>2 DEF Start
<1>3. ASSUME NEW w \in Workers, BeginCancel(w) PROVE [Call(s)!Next]_(Call(s)!vars)
  BY <1>0, <1>3 DEF BeginCancel
<1>4. ASSUME NEW w \in Workers, EndCancel(w) PROVE [Call(s)!Next]_(Call(s)!vars)
  BY <1>0, <1>4 DEF EndCancel, InterruptHandle
<1>5. ASSUME NEW w \in Workers, BeginRun(w) PROVE [Call(s)!Next]_(Call(s)!vars)
  BY <1>0, <1>5 DEF BeginRun
<1>6. ASSUME NEW w \in Workers, EndRun(w) PROVE [Call(s)!Next]_(Call(s)!vars)
  BY <1>0, <1>6 DEF EndRun
<1>7. ASSUME NEW w \in Workers, Release(w) PROVE [Call(s)!Next]_(Call(s)!vars)
  <2>1. fault' # "terminate" /\ intr'[s] \in {intr[s], TRUE}
    BY <1>0, <1>7, <1>a DEF Release
  <2>2. outcome' = outcome /\ Called(s)' = Called(s)
    BY <1>7 DEF Release
  <2> QED
    BY <2>1, <2>2, <1>b
<1>8. ASSUME NEW t \in Threads, LockWorker(t) PROVE [Call(s)!Next]_(Call(s)!vars)
  BY <1>0, <1>8 DEF LockWorker, Goto
<1>9. ASSUME NEW t \in Threads, AcquireWork(t) PROVE [Call(s)!Next]_(Call(s)!vars)
  BY <1>0, <1>9 DEF AcquireWork, Goto
<1>10. ASSUME NEW t \in Threads, CheckRunning(t) PROVE [Call(s)!Next]_(Call(s)!vars)
  BY <1>0, <1>10 DEF CheckRunning, Goto
<1>11. ASSUME NEW t \in Threads, MarkRunning(t) PROVE [Call(s)!Next]_(Call(s)!vars)
  BY <1>0, <1>11 DEF MarkRunning, Goto
<1>12. ASSUME NEW t \in Threads, ReleaseWorker(t) PROVE [Call(s)!Next]_(Call(s)!vars)
  <2>1. fault' # "terminate" /\ intr'[s] \in {intr[s], TRUE}
    BY <1>0, <1>12, <1>a DEF ReleaseWorker, Goto, DropReference
  <2>2. outcome' = outcome /\ Called(s)' = Called(s)
    BY <1>12 DEF ReleaseWorker, Goto
  <2> QED
    BY <2>1, <2>2, <1>b
<1>13. ASSUME NEW t \in Threads, UnlockWork(t) PROVE [Call(s)!Next]_(Call(s)!vars)
  BY <1>0, <1>13 DEF UnlockWork, Goto, Call!Call
<1>14. ASSUME NEW t \in Threads, DelegateReturns(t) PROVE [Call(s)!Next]_(Call(s)!vars)
  BY <1>0, <1>14 DEF DelegateReturns, Goto, Call!Return
<1>15. ASSUME NEW t \in Threads, DelegateInterrupted(t) PROVE [Call(s)!Next]_(Call(s)!vars)
  BY <1>0, <1>15 DEF DelegateInterrupted, Goto, Call!Leave
<1>16. ASSUME NEW t \in Threads, DelegateUnwinds(t) PROVE [Call(s)!Next]_(Call(s)!vars)
  BY <1>0, <1>16 DEF DelegateUnwinds, Goto, Call!Unwind
<1>17. ASSUME NEW w \in Workers, RunTerminates(w) PROVE [Call(s)!Next]_(Call(s)!vars)
  BY <1>0, <1>17 DEF RunTerminates, Call!Terminate
<1>18. ASSUME NEW t \in Threads, DelegateTerminates(t) PROVE [Call(s)!Next]_(Call(s)!vars)
  BY <1>0, <1>18 DEF DelegateTerminates, Goto, Call!Terminate
<1>19. ASSUME NEW t \in Threads, RelockWorker(t) PROVE [Call(s)!Next]_(Call(s)!vars)
  BY <1>0, <1>19 DEF RelockWorker, Goto
<1>20. ASSUME NEW t \in Threads, PublishResult(t) PROVE [Call(s)!Next]_(Call(s)!vars)
  BY <1>0, <1>20 DEF PublishResult, Goto
<1>21. ASSUME NEW t \in Threads, ReadCancelled(t) PROVE [Call(s)!Next]_(Call(s)!vars)
  BY <1>0, <1>21 DEF ReadCancelled, Goto
<1>22. ASSUME NEW t \in Threads, SetComplete(t) PROVE [Call(s)!Next]_(Call(s)!vars)
  BY <1>0, <1>22 DEF SetComplete, Goto
<1>23. ASSUME NEW t \in Threads, ClearRunning(t) PROVE [Call(s)!Next]_(Call(s)!vars)
  BY <1>0, <1>23 DEF ClearRunning, Goto
<1>24. ASSUME NEW t \in Threads, Leave(t) PROVE [Call(s)!Next]_(Call(s)!vars)
  <2>1. fault' # "terminate" /\ intr'[s] \in {intr[s], TRUE}
    BY <1>0, <1>24, <1>a DEF Leave, Goto, DropReference
  <2>2. outcome' = outcome /\ Called(s)' = Called(s)
    BY <1>24 DEF Leave, Goto
  <2> QED
    BY <2>1, <2>2, <1>b
<1> QED
  BY <1>1, <1>2, <1>3, <1>4, <1>5, <1>6, <1>7, <1>8, <1>9, <1>10, <1>11, <1>12,
     <1>13, <1>14, <1>15, <1>16, <1>17, <1>18, <1>19, <1>20, <1>21, <1>22, <1>23,
     <1>24
     DEF Next, OwnerStep, ThreadStep, ThreadProceeds

\* Whatever calls a delegate here does so as Delegate says, for as many threads as there
\* are (Worker.cpp:205-206): CppNetlibDelegate, which keeps to Delegate, may take its place.
THEOREM DelegatesAreCalledAsSpecified == Spec => CallsAreDelegates
<1>1. Init => \A t \in Threads : Call(t)!Init
  BY DEF Init, Called, Call!Init, Delegated
<1>2. IInv /\ [Next]_vars => [\A t \in Threads : [Call(t)!Next]_(Call(t)!vars)]_vars
  BY CallMoves DEF IInv, vars, workerVars, threadVars, flagVars
<1> QED
  BY <1>1, <1>2, Invariance, PTL DEF Spec, CallsAreDelegates

\* The same as a refinement: a program with workers implements Delegate for each thread.
THEOREM EveryThreadImplementsDelegate ==
    ASSUME NEW t \in Threads
    PROVE  Spec => Call(t)!Spec
<1>1. Init => Call(t)!Init
  BY DEF Init, Called, Call!Init, Delegated
<1>2. IInv /\ [Next]_vars => [Call(t)!Next]_(Call(t)!vars)
  BY CallMoves DEF IInv, vars, workerVars, threadVars, flagVars, Called, Call!vars
<1> QED
  BY <1>1, <1>2, Invariance, PTL DEF Spec, Call!Spec

\* Nothing runs in the background that was not started, and what was started is not
\* run on the main thread.
LEMMA StartedStep ==
    ASSUME TypeOK, BelongInv, StartedInv, [Next /\ BackgroundOnly]_vars
    PROVE  StartedInv'
<1> USE DEF workerVars, threadVars, flagVars
<1>0. TypeOK'
  BY TypeStep
<1> USE DEF StartedInv, BelongInv, TypeOK, Idle
<1>1. ASSUME NEW w \in Workers, NEW old \in Workers \cup {None}, Assign(old, w) PROVE StartedInv'
  BY <1>1, <1>0 DEF Assign, Destroy, InterruptHandle
<1>2. ASSUME NEW w \in Workers, NEW t \in Threads, Start(w, t) PROVE StartedInv'
  BY <1>2, <1>0 DEF Start
<1>3. ASSUME NEW w \in Workers, BeginCancel(w) PROVE StartedInv'
  BY <1>3, <1>0 DEF BeginCancel
<1>4. ASSUME NEW w \in Workers, EndCancel(w) PROVE StartedInv'
  BY <1>4, <1>0 DEF EndCancel, InterruptHandle
<1>5. ASSUME NEW w \in Workers, BeginRun(w), BackgroundOnly PROVE StartedInv'
  BY <1>5, <1>0 DEF BeginRun, BackgroundOnly
<1>6. ASSUME NEW w \in Workers, EndRun(w) PROVE StartedInv'
  BY <1>6, <1>0 DEF EndRun
<1>7. ASSUME NEW w \in Workers, Release(w) PROVE StartedInv'
  BY <1>7, <1>0 DEF Release, Destroy, InterruptHandle
<1>8. ASSUME NEW t \in Threads, LockWorker(t) PROVE StartedInv'
  BY <1>8, <1>0 DEF LockWorker, Goto
<1>9. ASSUME NEW t \in Threads, AcquireWork(t) PROVE StartedInv'
  BY <1>9, <1>0 DEF AcquireWork, Goto
<1>10. ASSUME NEW t \in Threads, CheckRunning(t) PROVE StartedInv'
  BY <1>10, <1>0 DEF CheckRunning, Goto
<1>11. ASSUME NEW t \in Threads, MarkRunning(t) PROVE StartedInv'
  BY <1>11, <1>0 DEF MarkRunning, Goto
<1>12. ASSUME NEW t \in Threads, ReleaseWorker(t) PROVE StartedInv'
  BY <1>12, <1>0 DEF ReleaseWorker, Goto, DropReference, Destroy, InterruptHandle
<1>13. ASSUME NEW t \in Threads, UnlockWork(t) PROVE StartedInv'
  BY <1>13, <1>0 DEF UnlockWork, Goto
<1>14. ASSUME NEW t \in Threads, DelegateReturns(t) PROVE StartedInv'
  BY <1>14, <1>0 DEF DelegateReturns, Goto
<1>15. ASSUME NEW t \in Threads, DelegateInterrupted(t) PROVE StartedInv'
  BY <1>15, <1>0 DEF DelegateInterrupted, Goto
<1>16. ASSUME NEW t \in Threads, DelegateUnwinds(t) PROVE StartedInv'
  BY <1>16, <1>0 DEF DelegateUnwinds, Goto
<1>17. ASSUME NEW w \in Workers, RunTerminates(w) PROVE StartedInv'
  BY <1>17, <1>0 DEF RunTerminates
<1>18. ASSUME NEW t \in Threads, DelegateTerminates(t) PROVE StartedInv'
  BY <1>18, <1>0 DEF DelegateTerminates, Goto
<1>19. ASSUME NEW t \in Threads, RelockWorker(t) PROVE StartedInv'
  BY <1>19, <1>0 DEF RelockWorker, Goto
<1>20. ASSUME NEW t \in Threads, PublishResult(t) PROVE StartedInv'
  BY <1>20, <1>0 DEF PublishResult, Goto
<1>21. ASSUME NEW t \in Threads, ReadCancelled(t) PROVE StartedInv'
  BY <1>21, <1>0 DEF ReadCancelled, Goto
<1>22. ASSUME NEW t \in Threads, SetComplete(t) PROVE StartedInv'
  BY <1>22, <1>0 DEF SetComplete, Goto
<1>23. ASSUME NEW t \in Threads, ClearRunning(t) PROVE StartedInv'
  BY <1>23, <1>0 DEF ClearRunning, Goto
<1>24. ASSUME NEW t \in Threads, Leave(t) PROVE StartedInv'
  BY <1>24, <1>0 DEF Leave, Goto, DropReference, Destroy, InterruptHandle
<1>25. CASE UNCHANGED vars
  BY <1>25 DEF vars
<1> QED
  BY <1>1, <1>2, <1>3, <1>4, <1>5, <1>6, <1>7, <1>8, <1>9, <1>10, <1>11, <1>12,
     <1>13, <1>14, <1>15, <1>16, <1>17, <1>18, <1>19, <1>20, <1>21, <1>22, <1>23,
     <1>24, <1>25
     DEF Next, OwnerStep, ThreadStep, ThreadProceeds

\* Whoever publishes a result is its worker's only runner, and nobody overwrites it
\* from the main thread.
LEMMA ResultStep ==
    ASSUME TypeOK, BelongInv, RunnerInv, StartedInv, ResultBelongsToFinisher, [Next]_vars
    PROVE  ResultBelongsToFinisher'
<1> USE DEF workerVars, threadVars, flagVars
<1>0. TypeOK'
  BY TypeStep
<1> USE DEF ResultBelongsToFinisher, RunnerInv, StartedInv, TypeOK, Runner, Delegated, Finishing
<1>1. ASSUME NEW w \in Workers, NEW old \in Workers \cup {None}, Assign(old, w) PROVE ResultBelongsToFinisher'
  BY <1>1, <1>0 DEF Assign, Destroy, InterruptHandle
<1>2. ASSUME NEW w \in Workers, NEW t \in Threads, Start(w, t) PROVE ResultBelongsToFinisher'
  BY <1>2, <1>0 DEF Start
<1>3. ASSUME NEW w \in Workers, BeginCancel(w) PROVE ResultBelongsToFinisher'
  BY <1>3, <1>0 DEF BeginCancel
<1>4. ASSUME NEW w \in Workers, EndCancel(w) PROVE ResultBelongsToFinisher'
  BY <1>4, <1>0 DEF EndCancel, InterruptHandle
<1>5. ASSUME NEW w \in Workers, BeginRun(w) PROVE ResultBelongsToFinisher'
  BY <1>5, <1>0 DEF BeginRun
<1>6. ASSUME NEW w \in Workers, EndRun(w) PROVE ResultBelongsToFinisher'
  BY <1>6, <1>0 DEF EndRun
<1>7. ASSUME NEW w \in Workers, Release(w) PROVE ResultBelongsToFinisher'
  BY <1>7, <1>0 DEF Release, Destroy, InterruptHandle
<1>8. ASSUME NEW t \in Threads, LockWorker(t) PROVE ResultBelongsToFinisher'
  BY <1>8, <1>0 DEF LockWorker, Goto
<1>9. ASSUME NEW t \in Threads, AcquireWork(t) PROVE ResultBelongsToFinisher'
  BY <1>9, <1>0 DEF AcquireWork, Goto
<1>10. ASSUME NEW t \in Threads, CheckRunning(t) PROVE ResultBelongsToFinisher'
  BY <1>10, <1>0 DEF CheckRunning, Goto
<1>11. ASSUME NEW t \in Threads, MarkRunning(t) PROVE ResultBelongsToFinisher'
  BY <1>11, <1>0 DEF MarkRunning, Goto
<1>12. ASSUME NEW t \in Threads, ReleaseWorker(t) PROVE ResultBelongsToFinisher'
  BY <1>12, <1>0 DEF ReleaseWorker, Goto, DropReference, Destroy, InterruptHandle
<1>13. ASSUME NEW t \in Threads, UnlockWork(t) PROVE ResultBelongsToFinisher'
  BY <1>13, <1>0 DEF UnlockWork, Goto
<1>14. ASSUME NEW t \in Threads, DelegateReturns(t) PROVE ResultBelongsToFinisher'
  BY <1>14, <1>0 DEF DelegateReturns, Goto
<1>15. ASSUME NEW t \in Threads, DelegateInterrupted(t) PROVE ResultBelongsToFinisher'
  BY <1>15, <1>0 DEF DelegateInterrupted, Goto
<1>16. ASSUME NEW t \in Threads, DelegateUnwinds(t) PROVE ResultBelongsToFinisher'
  BY <1>16, <1>0 DEF DelegateUnwinds, Goto
<1>17. ASSUME NEW w \in Workers, RunTerminates(w) PROVE ResultBelongsToFinisher'
  BY <1>17, <1>0 DEF RunTerminates
<1>18. ASSUME NEW t \in Threads, DelegateTerminates(t) PROVE ResultBelongsToFinisher'
  BY <1>18, <1>0 DEF DelegateTerminates, Goto
<1>19. ASSUME NEW t \in Threads, RelockWorker(t) PROVE ResultBelongsToFinisher'
  BY <1>19, <1>0 DEF RelockWorker, Goto
<1>20. ASSUME NEW t \in Threads, PublishResult(t) PROVE ResultBelongsToFinisher'
  BY <1>20, <1>0 DEF PublishResult, Goto
<1>21. ASSUME NEW t \in Threads, ReadCancelled(t) PROVE ResultBelongsToFinisher'
  BY <1>21, <1>0 DEF ReadCancelled, Goto
<1>22. ASSUME NEW t \in Threads, SetComplete(t) PROVE ResultBelongsToFinisher'
  BY <1>22, <1>0 DEF SetComplete, Goto
<1>23. ASSUME NEW t \in Threads, ClearRunning(t) PROVE ResultBelongsToFinisher'
  BY <1>23, <1>0 DEF ClearRunning, Goto
<1>24. ASSUME NEW t \in Threads, Leave(t) PROVE ResultBelongsToFinisher'
  BY <1>24, <1>0 DEF Leave, Goto, DropReference, Destroy, InterruptHandle
<1>25. CASE UNCHANGED vars
  BY <1>25 DEF vars
<1> QED
  BY <1>1, <1>2, <1>3, <1>4, <1>5, <1>6, <1>7, <1>8, <1>9, <1>10, <1>11, <1>12,
     <1>13, <1>14, <1>15, <1>16, <1>17, <1>18, <1>19, <1>20, <1>21, <1>22, <1>23,
     <1>24, <1>25
     DEF Next, OwnerStep, ThreadStep, ThreadProceeds

\* A worker started once has one thread, and keeps the result it completed with.
LEMMA OnceTransition ==
    ASSUME TypeOK, BelongInv, StartedInv, ResultBelongsToFinisher, OnceInv, [Next /\ OnceStep]_vars
    PROVE  OnceInv'
<1> USE DEF workerVars, threadVars, flagVars
<1>0. TypeOK'
  BY TypeStep
<1> USE DEF OnceInv, StartedInv, ResultBelongsToFinisher, BelongInv, TypeOK
<1>1. ASSUME NEW w \in Workers, NEW old \in Workers \cup {None}, Assign(old, w) PROVE OnceInv'
  BY <1>1, <1>0 DEF Assign, Destroy, InterruptHandle
<1>2. ASSUME NEW w \in Workers, NEW t \in Threads, Start(w, t), OnceStep PROVE OnceInv'
  BY <1>2, <1>0 DEF Start, OnceStep
<1>3. ASSUME NEW w \in Workers, BeginCancel(w) PROVE OnceInv'
  BY <1>3, <1>0 DEF BeginCancel
<1>4. ASSUME NEW w \in Workers, EndCancel(w) PROVE OnceInv'
  BY <1>4, <1>0 DEF EndCancel, InterruptHandle
<1>5. ASSUME NEW w \in Workers, BeginRun(w) PROVE OnceInv'
  BY <1>5, <1>0 DEF BeginRun
<1>6. ASSUME NEW w \in Workers, EndRun(w) PROVE OnceInv'
  BY <1>6, <1>0 DEF EndRun
<1>7. ASSUME NEW w \in Workers, Release(w) PROVE OnceInv'
  BY <1>7, <1>0 DEF Release, Destroy, InterruptHandle
<1>8. ASSUME NEW t \in Threads, LockWorker(t) PROVE OnceInv'
  BY <1>8, <1>0 DEF LockWorker, Goto
<1>9. ASSUME NEW t \in Threads, AcquireWork(t) PROVE OnceInv'
  BY <1>9, <1>0 DEF AcquireWork, Goto
<1>10. ASSUME NEW t \in Threads, CheckRunning(t) PROVE OnceInv'
  BY <1>10, <1>0 DEF CheckRunning, Goto
<1>11. ASSUME NEW t \in Threads, MarkRunning(t) PROVE OnceInv'
  BY <1>11, <1>0 DEF MarkRunning, Goto
<1>12. ASSUME NEW t \in Threads, ReleaseWorker(t) PROVE OnceInv'
  BY <1>12, <1>0 DEF ReleaseWorker, Goto, DropReference, Destroy, InterruptHandle
<1>13. ASSUME NEW t \in Threads, UnlockWork(t) PROVE OnceInv'
  BY <1>13, <1>0 DEF UnlockWork, Goto
<1>14. ASSUME NEW t \in Threads, DelegateReturns(t) PROVE OnceInv'
  BY <1>14, <1>0 DEF DelegateReturns, Goto
<1>15. ASSUME NEW t \in Threads, DelegateInterrupted(t) PROVE OnceInv'
  BY <1>15, <1>0 DEF DelegateInterrupted, Goto
<1>16. ASSUME NEW t \in Threads, DelegateUnwinds(t) PROVE OnceInv'
  BY <1>16, <1>0 DEF DelegateUnwinds, Goto
<1>17. ASSUME NEW w \in Workers, RunTerminates(w) PROVE OnceInv'
  BY <1>17, <1>0 DEF RunTerminates
<1>18. ASSUME NEW t \in Threads, DelegateTerminates(t) PROVE OnceInv'
  BY <1>18, <1>0 DEF DelegateTerminates, Goto
<1>19. ASSUME NEW t \in Threads, RelockWorker(t) PROVE OnceInv'
  BY <1>19, <1>0 DEF RelockWorker, Goto
<1>20. ASSUME NEW t \in Threads, PublishResult(t) PROVE OnceInv'
  BY <1>20, <1>0 DEF PublishResult, Goto
<1>21. ASSUME NEW t \in Threads, ReadCancelled(t) PROVE OnceInv'
  BY <1>21, <1>0 DEF ReadCancelled, Goto
<1>22. ASSUME NEW t \in Threads, SetComplete(t) PROVE OnceInv'
  BY <1>22, <1>0 DEF SetComplete, Goto
<1>23. ASSUME NEW t \in Threads, ClearRunning(t) PROVE OnceInv'
  BY <1>23, <1>0 DEF ClearRunning, Goto
<1>24. ASSUME NEW t \in Threads, Leave(t) PROVE OnceInv'
  BY <1>24, <1>0 DEF Leave, Goto, DropReference, Destroy, InterruptHandle
<1>25. CASE UNCHANGED vars
  BY <1>25 DEF vars
<1> QED
  BY <1>1, <1>2, <1>3, <1>4, <1>5, <1>6, <1>7, <1>8, <1>9, <1>10, <1>11, <1>12,
     <1>13, <1>14, <1>15, <1>16, <1>17, <1>18, <1>19, <1>20, <1>21, <1>22, <1>23,
     <1>24, <1>25
     DEF Next, OwnerStep, ThreadStep, ThreadProceeds

\* What holds of every owner that runs a worker in the background only ...
THEOREM BackgroundInvariance == BackgroundSpec => []BackgroundInv
<1>1. Init => BackgroundInv
  BY InitIsSafe DEF Init, BackgroundInv, StartedInv, ResultBelongsToFinisher, Idle
<1>2. BackgroundInv /\ [Next /\ BackgroundOnly]_vars => BackgroundInv'
  BY Transition, StartedStep, ResultStep DEF BackgroundInv, IInv
<1> QED
  BY <1>1, <1>2, PTL DEF BackgroundSpec

\* What CompleteMeansPublished depends on: results, completions, and the threads that have
\* published.
PublishedKept ==
    /\ UNCHANGED <<result, complete>>
    /\ \A t \in Threads : pc[t] \in Published =>
          pc'[t] \in Published /\ target'[t] = target[t] /\ outcome'[t] = outcome[t]

\* A thread that publishes has an outcome, one that completes has published, and no $run
\* overwrites what they leave: the worker has been started.
LEMMA PublishedStep ==
    ASSUME BackgroundInv, CompleteMeansPublished, [Next /\ BackgroundOnly]_vars
    PROVE  CompleteMeansPublished'
<1>. USE DEF workerVars, threadVars, flagVars, Published
<1>0. TypeOK /\ CallInv /\ StartedInv /\ ResultBelongsToFinisher
  BY DEF BackgroundInv, IInv
<1>1. ASSUME NEW w \in Workers, OwnerStep(w), ~ EndRun(w) PROVE PublishedKept
  <2>1. ASSUME NEW t \in Threads, Start(w, t) PROVE PublishedKept
    BY <1>0, <2>1 DEF Start, PublishedKept, TypeOK
  <2>2. ASSUME NEW old \in Workers \cup {None}, Assign(old, w) PROVE PublishedKept
    BY <2>2 DEF Assign, PublishedKept
  <2>3. BeginCancel(w) \/ EndCancel(w) \/ BeginRun(w) \/ RunTerminates(w) \/ Release(w) => PublishedKept
    BY DEF BeginCancel, EndCancel, BeginRun, RunTerminates, Release, PublishedKept
  <2>. QED
    BY <1>1, <2>1, <2>2, <2>3 DEF OwnerStep
<1>2. ASSUME NEW t \in Threads, ThreadStep(t), ~ PublishResult(t), ~ SetComplete(t) PROVE PublishedKept
  <2>1. LockWorker(t) \/ AcquireWork(t) \/ CheckRunning(t) \/ MarkRunning(t) => PublishedKept
    BY <1>0 DEF LockWorker, AcquireWork, CheckRunning, MarkRunning, Goto, PublishedKept, TypeOK
  <2>2. ReleaseWorker(t) \/ UnlockWork(t) \/ DelegateReturns(t) \/ DelegateUnwinds(t) => PublishedKept
    BY <1>0 DEF ReleaseWorker, UnlockWork, DelegateReturns, DelegateUnwinds, Goto, PublishedKept, TypeOK
  <2>3. DelegateInterrupted(t) \/ DelegateTerminates(t) \/ RelockWorker(t) => PublishedKept
    BY <1>0 DEF DelegateInterrupted, DelegateTerminates, RelockWorker, Goto, PublishedKept, TypeOK
  <2>4. ReadCancelled(t) \/ ClearRunning(t) \/ Leave(t) => PublishedKept
    BY <1>0 DEF ReadCancelled, ClearRunning, Leave, Goto, PublishedKept, TypeOK
  <2>. QED
    BY <1>2, <2>1, <2>2, <2>3, <2>4 DEF ThreadStep, ThreadProceeds
<1>3. ASSUME PublishedKept PROVE CompleteMeansPublished'
  BY <1>3 DEF PublishedKept, CompleteMeansPublished
<1>4. ASSUME NEW w \in Workers, EndRun(w) PROVE CompleteMeansPublished'
  <2>1. \A x \in Workers : complete[x] => x # w
    BY <1>0, <1>4 DEF EndRun, CompleteMeansPublished, StartedInv
  <2>. QED
    BY <1>0, <1>4, <2>1 DEF EndRun, CompleteMeansPublished, TypeOK
<1>5. ASSUME NEW t \in Threads, PublishResult(t) PROVE CompleteMeansPublished'
  <2>1. /\ pc[t] = "publish" /\ pc' = [pc EXCEPT ![t] = "readCancelled"] /\ target[t] \in Workers
        /\ result' = [result EXCEPT ![target[t]] = outcome[t]] /\ outcome[t] # None
        /\ UNCHANGED <<complete, target, outcome>>
    BY <1>0, <1>5 DEF PublishResult, Goto, TypeOK, CallInv, Finishing
  <2>2. ASSUME NEW w \in Workers, complete[w]
        PROVE  \E s \in Threads : /\ target[s] = w /\ pc'[s] \in Published
                                  /\ outcome[s] # None /\ result'[w] = outcome[s]
    <3>1. CASE w = target[t]
      BY <1>0, <2>1, <3>1 DEF TypeOK
    <3>2. CASE w # target[t]
      BY <1>0, <2>1, <2>2, <3>2 DEF TypeOK, CompleteMeansPublished
    <3>. QED
      BY <3>1, <3>2
  <2>. QED
    BY <2>1, <2>2 DEF CompleteMeansPublished
<1>6. ASSUME NEW t \in Threads, SetComplete(t) PROVE CompleteMeansPublished'
  <2>1. /\ pc[t] = "complete" /\ pc' = [pc EXCEPT ![t] = "clear"] /\ target[t] \in Workers
        /\ complete' = [complete EXCEPT ![target[t]] = TRUE]
        /\ outcome[t] # None /\ result[target[t]] = outcome[t]
        /\ UNCHANGED <<result, target, outcome>>
    BY <1>0, <1>6 DEF SetComplete, Goto, TypeOK, CallInv, Finishing, ResultBelongsToFinisher
  <2>2. ASSUME NEW w \in Workers, complete'[w]
        PROVE  \E s \in Threads : /\ target[s] = w /\ pc'[s] \in Published
                                  /\ outcome[s] # None /\ result[w] = outcome[s]
    <3>1. CASE w = target[t]
      BY <1>0, <2>1, <3>1 DEF TypeOK
    <3>2. CASE w # target[t]
      BY <1>0, <2>1, <2>2, <3>2 DEF TypeOK, CompleteMeansPublished
    <3>. QED
      BY <3>1, <3>2
  <2>. QED
    BY <2>1, <2>2 DEF CompleteMeansPublished
<1>7. UNCHANGED vars => CompleteMeansPublished'
  BY DEF vars, CompleteMeansPublished
<1>. QED
  BY <1>1, <1>2, <1>3, <1>4, <1>5, <1>6, <1>7 DEF Next

\* Once a worker says that it is complete, whoever asks it for its result, however late and
\* with other threads of it at work, gets what one of its threads has published
\* (Worker.cpp:218-227, NVObjHTTPWorker.cpp:287-290).
THEOREM CompletionHasResult == BackgroundSpec => []CompleteMeansPublished
<1>1. Init => CompleteMeansPublished
  BY DEF Init, CompleteMeansPublished
<1>2. BackgroundInv /\ CompleteMeansPublished /\ [Next /\ BackgroundOnly]_vars => CompleteMeansPublished'
  BY PublishedStep
<1>. QED
  BY <1>1, <1>2, BackgroundInvariance, PTL DEF BackgroundSpec

\* ... and of one that starts it once: a component with such an owner cites these.
LEMMA OnceInit == Init => BackgroundInv /\ OnceInv
BY InitIsSafe DEF Init, BackgroundInv, StartedInv, ResultBelongsToFinisher, OnceInv, Idle

LEMMA OnceStepKeeps ==
    ASSUME BackgroundInv, OnceInv, [Next /\ OnceStep]_vars
    PROVE  BackgroundInv' /\ OnceInv'
<1>1. [Next]_vars /\ [Next /\ BackgroundOnly]_vars
  BY DEF OnceStep
<1>2. BackgroundInv'
  BY <1>1, Transition, StartedStep, ResultStep DEF BackgroundInv, IInv
<1>3. OnceInv'
  BY OnceTransition DEF BackgroundInv, IInv
<1> QED
  BY <1>2, <1>3

\* With a patient owner a started worker is owned until it is complete, so its
\* only thread finds it alive and no mutex of it is held when it goes.
LEMMA PatientTransition ==
    ASSUME TypeOK, BelongInv, MutexHasHolder, OnceInv, PatientInv, NoLifetimeFault,
           [Next /\ PatientStep]_vars
    PROVE  (PatientInv /\ NoLifetimeFault)'
<1> USE DEF workerVars, threadVars, flagVars
<1>0. TypeOK'
  BY TypeStep
<1> USE DEF OnceInv, PatientInv, MutexHasHolder, NoLifetimeFault, BelongInv, TypeOK, Critical
<1>1. ASSUME NEW w \in Workers, NEW old \in Workers \cup {None}, Assign(old, w), PatientStep
      PROVE (PatientInv /\ NoLifetimeFault)'
  <2>1. \A t \in Threads : pc[t] # "idle" => target[t] # w
    BY <1>1 DEF Assign, BelongInv, TypeOK
  <2>2. \A x \in Workers : owner'[x] = "released" => owner[x] = "released" \/ x = old
    BY <1>1 DEF Assign, TypeOK
  <2>3. old # None => handle[old] = None \/ complete[old]
    BY <1>1 DEF Assign, PatientStep, TypeOK
  <2>4. PatientInv'
    BY <1>1, <2>2, <2>3 DEF Assign, PatientInv, OnceInv, TypeOK
  <2>5. old # None => workMutex[old] = None
    BY <1>1, <2>3 DEF PatientInv, MutexHasHolder, OnceInv, TypeOK, Critical
  <2>6. NoLifetimeFault'
    BY <1>1, <2>5 DEF Assign, Destroy, NoLifetimeFault
  <2> QED
    BY <2>4, <2>6
<1>2. ASSUME NEW w \in Workers, NEW t \in Threads, Start(w, t), PatientStep
      PROVE (PatientInv /\ NoLifetimeFault)'
  BY <1>2, <1>0 DEF Start, PatientStep, OnceStep
<1>3. ASSUME NEW w \in Workers, BeginCancel(w) PROVE (PatientInv /\ NoLifetimeFault)'
  BY <1>3, <1>0 DEF BeginCancel
<1>4. ASSUME NEW w \in Workers, EndCancel(w) PROVE (PatientInv /\ NoLifetimeFault)'
  BY <1>4, <1>0 DEF EndCancel
<1>5. ASSUME NEW w \in Workers, BeginRun(w) PROVE (PatientInv /\ NoLifetimeFault)'
  BY <1>5, <1>0 DEF BeginRun
<1>6. ASSUME NEW w \in Workers, EndRun(w) PROVE (PatientInv /\ NoLifetimeFault)'
  BY <1>6, <1>0 DEF EndRun
<1>7. ASSUME NEW w \in Workers, Release(w), PatientStep
      PROVE (PatientInv /\ NoLifetimeFault)'
  BY <1>7, <1>0 DEF Release, PatientStep, Destroy, Holders, Holding
<1>8. ASSUME NEW t \in Threads, LockWorker(t) PROVE (PatientInv /\ NoLifetimeFault)'
  BY <1>8, <1>0 DEF LockWorker, Goto, Alive
<1>9. ASSUME NEW t \in Threads, AcquireWork(t) PROVE (PatientInv /\ NoLifetimeFault)'
  BY <1>9, <1>0 DEF AcquireWork, Goto
<1>10. ASSUME NEW t \in Threads, CheckRunning(t) PROVE (PatientInv /\ NoLifetimeFault)'
  BY <1>10, <1>0 DEF CheckRunning, Goto
<1>11. ASSUME NEW t \in Threads, MarkRunning(t) PROVE (PatientInv /\ NoLifetimeFault)'
  BY <1>11, <1>0 DEF MarkRunning, Goto
<1>12. ASSUME NEW t \in Threads, ReleaseWorker(t) PROVE (PatientInv /\ NoLifetimeFault)'
  BY <1>12, <1>0 DEF ReleaseWorker, Goto, DropReference, Destroy
<1>13. ASSUME NEW t \in Threads, UnlockWork(t) PROVE (PatientInv /\ NoLifetimeFault)'
  BY <1>13, <1>0 DEF UnlockWork, Goto
<1>14. ASSUME NEW t \in Threads, DelegateReturns(t) PROVE (PatientInv /\ NoLifetimeFault)'
  BY <1>14, <1>0 DEF DelegateReturns, Goto
<1>15. ASSUME NEW t \in Threads, DelegateInterrupted(t) PROVE (PatientInv /\ NoLifetimeFault)'
  BY <1>15, <1>0 DEF DelegateInterrupted, Goto
<1>16. ASSUME NEW t \in Threads, DelegateUnwinds(t) PROVE (PatientInv /\ NoLifetimeFault)'
  BY <1>16, <1>0 DEF DelegateUnwinds, Goto
<1>17. ASSUME NEW w \in Workers, RunTerminates(w) PROVE (PatientInv /\ NoLifetimeFault)'
  BY <1>17, <1>0 DEF RunTerminates
<1>18. ASSUME NEW t \in Threads, DelegateTerminates(t) PROVE (PatientInv /\ NoLifetimeFault)'
  BY <1>18, <1>0 DEF DelegateTerminates, Goto
<1>19. ASSUME NEW t \in Threads, RelockWorker(t) PROVE (PatientInv /\ NoLifetimeFault)'
  BY <1>19, <1>0 DEF RelockWorker, Goto
<1>20. ASSUME NEW t \in Threads, PublishResult(t) PROVE (PatientInv /\ NoLifetimeFault)'
  BY <1>20, <1>0 DEF PublishResult, Goto
<1>21. ASSUME NEW t \in Threads, ReadCancelled(t) PROVE (PatientInv /\ NoLifetimeFault)'
  BY <1>21, <1>0 DEF ReadCancelled, Goto
<1>22. ASSUME NEW t \in Threads, SetComplete(t) PROVE (PatientInv /\ NoLifetimeFault)'
  BY <1>22, <1>0 DEF SetComplete, Goto
<1>23. ASSUME NEW t \in Threads, ClearRunning(t) PROVE (PatientInv /\ NoLifetimeFault)'
  BY <1>23, <1>0 DEF ClearRunning, Goto
<1>24. ASSUME NEW t \in Threads, Leave(t) PROVE (PatientInv /\ NoLifetimeFault)'
  BY <1>24, <1>0 DEF Leave, Goto, DropReference, Destroy
<1>25. CASE UNCHANGED vars
  BY <1>25 DEF vars
<1> QED
  BY <1>1, <1>2, <1>3, <1>4, <1>5, <1>6, <1>7, <1>8, <1>9, <1>10, <1>11, <1>12,
     <1>13, <1>14, <1>15, <1>16, <1>17, <1>18, <1>19, <1>20, <1>21, <1>22, <1>23,
     <1>24, <1>25
     DEF Next, OwnerStep, ThreadStep, ThreadProceeds

\* An owner that starts a worker once and keeps it until it is complete never
\* has a thread use a worker, or unlock a mutex, that is no longer there.
THEOREM PatienceIsSafe == PatientSpec => []NoLifetimeFault
<1> DEFINE Inv == BackgroundInv /\ OnceInv /\ PatientInv /\ NoLifetimeFault
<1>1. Init => Inv
  BY OnceInit DEF Init, PatientInv, NoLifetimeFault
<1>2. Inv /\ [Next /\ PatientStep]_vars => Inv'
  <2> SUFFICES ASSUME Inv, [Next /\ PatientStep]_vars PROVE Inv'
    OBVIOUS
  <2>1. [Next /\ OnceStep]_vars
    BY DEF PatientStep
  <2>2. BackgroundInv' /\ OnceInv'
    BY <2>1, OnceStepKeeps
  <2>3. (PatientInv /\ NoLifetimeFault)'
    BY PatientTransition DEF BackgroundInv, IInv
  <2> QED
    BY <2>2, <2>3
<1>3. Inv => NoLifetimeFault
  OBVIOUS
<1> HIDE DEF Inv
<1> QED
  BY <1>1, <1>2, <1>3, PTL DEF PatientSpec
=============================================================================
