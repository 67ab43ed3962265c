------------------------------- MODULE Worker -------------------------------
(***************************************************************************)
(* The background worker of src/src/Worker.cpp: a Worker object, owned by  *)
(* an Omnis object through a shared pointer, and the threads that start()  *)
(* spawns to run the worker's delegate.  The owner acts on the Omnis main  *)
(* thread only; every spawned thread executes WorkerThread::operator().    *)
(*                                                                         *)
(* A thread keeps only a weak pointer to its worker.  It takes a shared    *)
(* pointer at its start and again when the delegate has returned, so the   *)
(* worker can be destroyed by whoever drops the last reference, the main   *)
(* thread or a worker thread.                                              *)
(*                                                                         *)
(* The delegate is abstract here, as module Delegate states it: run()      *)
(* returns an outcome, is unwound by thread_interrupted and ends the       *)
(* thread, or takes the process down.  CppNetlibDelegate implements that.  *)
(***************************************************************************)
EXTENDS Integers, FiniteSets

CONSTANTS Workers,   \* Worker objects that may be created
          Threads,   \* threads that start() may spawn
          Outcomes,  \* parameter maps a delegate may return
          None       \* no worker, no thread, an empty parameter map

ASSUME NoneAssumption == None \notin Workers \cup Threads \cup Outcomes

VARIABLES
    owner,      \* the owning shared pointer: "unborn", "owned" or "released"
    running,    \* Worker::_running
    complete,   \* Worker::_complete
    cancelled,  \* Worker::_cancelled
    result,     \* Worker::_result
    handle,     \* Worker::_thread: the last thread start() spawned
    workMutex,  \* Worker::_workMutex: the thread that holds it
    pc,         \* what each thread does next
    target,     \* the worker a thread was spawned for
    intr,       \* the thread's interruption request (boost::thread::interrupt)
    outcome,    \* the delegate's return value, local to operator()
    main,       \* what the main thread is in the middle of
    fault       \* undefined behaviour the program has run into

flagVars == <<running, complete, cancelled>>
workerVars == <<owner, flagVars, result, handle, workMutex>>
threadVars == <<pc, target, intr, outcome>>
vars == <<workerVars, threadVars, main, fault>>

\* The program points of a thread.
Critical  == {"check", "mark", "release", "unlock"}
Finishing == {"publish", "readCancelled", "complete", "clear"}
Delegated == {"run", "unwind"}
Runner    == {"release", "unlock", "relock", "interrupted"} \cup Delegated \cup Finishing
Ended     == {"ended", "interrupted"}
Pcs       == {"idle", "entry", "acquire", "leave", "ended"} \cup Critical \cup Runner

\* The points at which operator()'s ptr is not empty.
Holding == {"acquire", "check", "mark", "release", "leave"} \cup Finishing

Idle == <<"idle", None>>
MainOps == {Idle} \cup ({"cancel", "run"} \X Workers)

Faults == {"none", "nullDeref", "mutexDestroyed", "terminate"}

TypeOK ==
    /\ owner \in [Workers -> {"unborn", "owned", "released"}]
    /\ running \in [Workers -> BOOLEAN]
    /\ complete \in [Workers -> BOOLEAN]
    /\ cancelled \in [Workers -> BOOLEAN]
    /\ result \in [Workers -> Outcomes \cup {None}]
    /\ handle \in [Workers -> Threads \cup {None}]
    /\ workMutex \in [Workers -> Threads \cup {None}]
    /\ pc \in [Threads -> Pcs]
    /\ target \in [Threads -> Workers \cup {None}]
    /\ \A t \in Threads : pc[t] # "idle" => target[t] \in Workers
    /\ intr \in [Threads -> BOOLEAN]
    /\ outcome \in [Threads -> Outcomes \cup {None}]
    /\ main \in MainOps
    /\ fault \in Faults

Init ==
    /\ owner = [w \in Workers |-> "unborn"]
    /\ running = [w \in Workers |-> FALSE]
    /\ complete = [w \in Workers |-> FALSE]
    /\ cancelled = [w \in Workers |-> FALSE]
    /\ result = [w \in Workers |-> None]
    /\ handle = [w \in Workers |-> None]
    /\ workMutex = [w \in Workers |-> None]
    /\ pc = [t \in Threads |-> "idle"]
    /\ target = [t \in Threads |-> None]
    /\ intr = [t \in Threads |-> FALSE]
    /\ outcome = [t \in Threads |-> None]
    /\ main = Idle
    /\ fault = "none"

-----------------------------------------------------------------------------
(* References and destruction *)

Holders(w) == {t \in Threads : target[t] = w /\ pc[t] \in Holding}

\* weak_ptr::lock() yields a shared pointer.
Alive(w) == owner[w] = "owned" \/ Holders(w) # {}

\* boost::thread::interrupt on w's _thread, a no-op when it is not a thread.
InterruptHandle(w) ==
    intr' = [t \in Threads |-> intr[t] \/ t = handle[w]]

\* ~Worker: cancel(), then the members go, the work mutex among them.
Destroy(w) ==
    /\ cancelled' = [cancelled EXCEPT ![w] = TRUE]
    /\ InterruptHandle(w)
    /\ fault' = IF workMutex[w] # None THEN "mutexDestroyed" ELSE fault

\* The thread's ptr goes; ~Worker runs on the thread when it was the last one.
DropReference(t) ==
    IF owner[target[t]] # "owned" /\ Holders(target[t]) = {t}
    THEN Destroy(target[t])
    ELSE UNCHANGED <<cancelled, intr, fault>>

-----------------------------------------------------------------------------
(* The owner, on the main thread *)

\* _worker = make_shared<Worker>(params, delegate), then init(): the owner drops
\* the worker it had before, if any.  An unborn worker already has the values
\* that the constructor and init() give.
Assign(old, w) ==
    /\ main = Idle
    /\ owner[w] = "unborn"
    /\ old # None => owner[old] = "owned"
    /\ owner' = [x \in Workers |-> IF x = w THEN "owned"
                                  ELSE IF x = old THEN "released" ELSE owner[x]]
    /\ IF old # None /\ Holders(old) = {}
       THEN Destroy(old)
       ELSE UNCHANGED <<cancelled, intr, fault>>
    /\ UNCHANGED <<running, complete, result, handle, workMutex, pc, target, outcome, main>>

\* Mutant of Start: the functor is built without its worker (Worker.h:73).
StartWithoutWorker(w, t) ==
    /\ main = Idle /\ owner[w] = "owned" /\ pc[t] = "idle" /\ ~running[w]
    /\ handle' = [handle EXCEPT ![w] = t]
    /\ pc' = [pc EXCEPT ![t] = "entry"]
    /\ UNCHANGED <<owner, flagVars, result, workMutex, target, intr, outcome, main, fault>>

\* start(): nothing when running() already; otherwise a new thread t, whose
\* handle replaces (and so detaches) the previous one.
Start(w, t) ==
    /\ main = Idle
    /\ owner[w] = "owned"
    /\ pc[t] = "idle"
    /\ IF running[w]
       THEN UNCHANGED <<handle, pc, target>>
       ELSE /\ handle' = [handle EXCEPT ![w] = t]
            /\ pc' = [pc EXCEPT ![t] = "entry"]
            /\ target' = [target EXCEPT ![t] = w]
    /\ UNCHANGED <<owner, flagVars, result, workMutex, intr, outcome, main, fault>>

\* Mutant of BeginCancel: the thread is interrupted before _cancelled is set.
CancelInterruptsFirst(w) ==
    /\ main = Idle /\ owner[w] = "owned"
    /\ main' = <<"cancel", w>>
    /\ InterruptHandle(w)
    /\ UNCHANGED <<workerVars, pc, target, outcome, fault>>

\* cancel() declares a temporary lock, so nothing makes it wait for readers of
\* _cancelled; the delegate's own cancel() does nothing.
BeginCancel(w) ==
    /\ main = Idle
    /\ owner[w] = "owned"
    /\ main' = <<"cancel", w>>
    /\ cancelled' = [cancelled EXCEPT ![w] = TRUE]
    /\ UNCHANGED <<owner, running, complete, result, handle, workMutex, threadVars, fault>>

EndCancel(w) ==
    /\ main = <<"cancel", w>>
    /\ main' = Idle
    /\ InterruptHandle(w)
    /\ UNCHANGED <<workerVars, pc, target, outcome, fault>>

\* run(): the delegate executes on the main thread, which nobody interrupts.
BeginRun(w) ==
    /\ main = Idle
    /\ owner[w] = "owned"
    /\ main' = <<"run", w>>
    /\ UNCHANGED <<workerVars, threadVars, fault>>

EndRun(w) ==
    /\ main = <<"run", w>>
    /\ main' = Idle
    /\ \E o \in Outcomes : result' = [result EXCEPT ![w] = o]
    /\ UNCHANGED <<owner, flagVars, handle, workMutex, threadVars, fault>>

\* What may take the process down on a worker's thread may do so here.
RunTerminates(w) ==
    /\ main = <<"run", w>>
    /\ fault' = "terminate"
    /\ UNCHANGED <<workerVars, threadVars, main>>

\* The owner is destroyed and its shared pointer with it.
Release(w) ==
    /\ main = Idle
    /\ owner[w] = "owned"
    /\ owner' = [owner EXCEPT ![w] = "released"]
    /\ IF Holders(w) = {} THEN Destroy(w) ELSE UNCHANGED <<cancelled, intr, fault>>
    /\ UNCHANGED <<running, complete, result, handle, workMutex, pc, target, outcome, main>>

-----------------------------------------------------------------------------
(* WorkerThread::operator(), one action per access to shared state *)

Goto(t, from, to) ==
    /\ pc[t] = from
    /\ pc' = [pc EXCEPT ![t] = to]

\* ptr = _worker.lock() throws nothing: ptr of a destroyed worker is empty and
\* ptr->_workMutex dereferences it.
LockWorker(t) ==
    /\ pc[t] = "entry"
    /\ IF Alive(target[t])
       THEN Goto(t, "entry", "acquire") /\ UNCHANGED fault
       ELSE fault' = "nullDeref" /\ UNCHANGED pc
    /\ UNCHANGED <<workerVars, target, intr, outcome, main>>

\* Mutant of AcquireWork: the mutex is no longer waited for.
AcquireWorkUnguarded(t) ==
    /\ Goto(t, "acquire", "check")
    /\ workMutex' = [workMutex EXCEPT ![target[t]] = t]
    /\ UNCHANGED <<owner, flagVars, result, handle, target, intr, outcome, main, fault>>

\* Mutant of AcquireWork: setRunning(true) is moved ahead of the check.
AcquireWorkMarksFirst(t) ==
    /\ Goto(t, "acquire", "check")
    /\ workMutex[target[t]] = None
    /\ workMutex' = [workMutex EXCEPT ![target[t]] = t]
    /\ running' = [running EXCEPT ![target[t]] = TRUE]
    /\ UNCHANGED <<owner, complete, cancelled, result, handle, target, intr, outcome, main, fault>>

AcquireWork(t) ==
    /\ Goto(t, "acquire", "check")
    /\ workMutex[target[t]] = None
    /\ workMutex' = [workMutex EXCEPT ![target[t]] = t]
    /\ UNCHANGED <<owner, flagVars, result, handle, target, intr, outcome, main, fault>>

\* Mutant of CheckRunning: the early return is lost.
CheckRunningNeverReturns(t) ==
    /\ Goto(t, "check", "mark")
    /\ UNCHANGED <<workerVars, target, intr, outcome, main, fault>>

\* The early return unlocks the mutex; ptr, declared before it, goes after.
CheckRunning(t) ==
    /\ pc[t] = "check"
    /\ IF running[target[t]]
       THEN /\ Goto(t, "check", "leave")
            /\ workMutex' = [workMutex EXCEPT ![target[t]] = None]
       ELSE /\ Goto(t, "check", "mark")
            /\ UNCHANGED workMutex
    /\ UNCHANGED <<owner, flagVars, result, handle, target, intr, outcome, main, fault>>

\* Mutant of MarkRunning: setComplete(true) where setRunning(true) should be.
MarkRunningAsComplete(t) ==
    /\ Goto(t, "mark", "release")
    /\ complete' = [complete EXCEPT ![target[t]] = TRUE]
    /\ UNCHANGED <<owner, running, cancelled, result, handle, workMutex,
                   target, intr, outcome, main, fault>>

\* Mutant of MarkRunning: a cancellation of an earlier run is forgotten.
MarkRunningUncancels(t) ==
    /\ Goto(t, "mark", "release")
    /\ running' = [running EXCEPT ![target[t]] = TRUE]
    /\ cancelled' = [cancelled EXCEPT ![target[t]] = FALSE]
    /\ UNCHANGED <<owner, complete, result, handle, workMutex, target, intr, outcome, main, fault>>

MarkRunning(t) ==
    /\ Goto(t, "mark", "release")
    /\ running' = [running EXCEPT ![target[t]] = TRUE]
    /\ UNCHANGED <<owner, complete, cancelled, result, handle, workMutex,
                   target, intr, outcome, main, fault>>

\* ptr.reset(), while the work mutex is still held.
ReleaseWorker(t) ==
    /\ Goto(t, "release", "unlock")
    /\ DropReference(t)
    /\ UNCHANGED <<owner, running, complete, result, handle, workMutex, target, outcome, main>>

\* Mutant of UnlockWork: the inner scope is gone, the lock lasts as long as the work.
UnlockWorkForgotten(t) ==
    /\ Goto(t, "unlock", "run")
    /\ UNCHANGED <<workerVars, target, intr, outcome, main, fault>>

UnlockWork(t) ==
    /\ Goto(t, "unlock", "run")
    /\ workMutex' = [workMutex EXCEPT ![target[t]] = None]
    /\ UNCHANGED <<owner, flagVars, result, handle, target, intr, outcome, main, fault>>

DelegateReturns(t) ==
    /\ Goto(t, "run", "relock")
    /\ \E o \in Outcomes : outcome' = [outcome EXCEPT ![t] = o]
    /\ UNCHANGED <<workerVars, target, intr, main, fault>>

\* The request is consumed where thread_interrupted is thrown.
DelegateUnwinds(t) ==
    /\ intr[t]
    /\ Goto(t, "run", "unwind")
    /\ intr' = [intr EXCEPT ![t] = FALSE]
    /\ UNCHANGED <<workerVars, target, outcome, main, fault>>

\* Mutant of DelegateInterrupted: operator() catches the exception and publishes.
DelegateInterruptedCaught(t) ==
    /\ Goto(t, "unwind", "relock")
    /\ UNCHANGED <<workerVars, target, intr, outcome, main, fault>>

\* thread_interrupted is no std::exception: it leaves the delegate and
\* operator(), and the thread ends without touching the worker again.
DelegateInterrupted(t) ==
    /\ Goto(t, "unwind", "interrupted")
    /\ UNCHANGED <<workerVars, target, intr, outcome, main, fault>>

\* A delegate may take the process down, from a thread of its own even after its
\* run is over; later deaths than these cut no more than the rest of a behaviour.
DelegateTerminates(t) ==
    /\ pc[t] \in Delegated \cup {"relock", "interrupted"}
    /\ fault' = "terminate"
    /\ UNCHANGED <<workerVars, threadVars, main>>

RelockWorker(t) ==
    /\ Goto(t, "relock", IF Alive(target[t]) THEN "publish" ELSE "ended")
    /\ UNCHANGED <<workerVars, target, intr, outcome, main, fault>>

PublishResult(t) ==
    /\ Goto(t, "publish", "readCancelled")
    /\ result' = [result EXCEPT ![target[t]] = outcome[t]]
    /\ UNCHANGED <<owner, flagVars, handle, workMutex, target, intr, outcome, main, fault>>

\* cancelled() under the shared lock; its value only chooses a log line.
ReadCancelled(t) ==
    /\ Goto(t, "readCancelled", "complete")
    /\ UNCHANGED <<workerVars, target, intr, outcome, main, fault>>

SetComplete(t) ==
    /\ Goto(t, "complete", "clear")
    /\ complete' = [complete EXCEPT ![target[t]] = TRUE]
    /\ UNCHANGED <<owner, running, cancelled, result, handle, workMutex,
                   target, intr, outcome, main, fault>>

ClearRunning(t) ==
    /\ Goto(t, "clear", "leave")
    /\ running' = [running EXCEPT ![target[t]] = FALSE]
    /\ UNCHANGED <<owner, complete, cancelled, result, handle, workMutex,
                   target, intr, outcome, main, fault>>

\* operator() returns and ptr goes.
Leave(t) ==
    /\ Goto(t, "leave", "ended")
    /\ DropReference(t)
    /\ UNCHANGED <<owner, running, complete, result, handle, workMutex, target, outcome, main>>

-----------------------------------------------------------------------------
OwnerStep(w) ==
    \/ \E old \in Workers \cup {None} : Assign(old, w)
    \/ \E t \in Threads : Start(w, t)
    \/ BeginCancel(w) \/ EndCancel(w)
    \/ BeginRun(w) \/ EndRun(w) \/ RunTerminates(w)
    \/ Release(w)

\* What a thread that is scheduled goes on with; nothing makes it die.
ThreadProceeds(t) ==
    \/ LockWorker(t) \/ AcquireWork(t) \/ CheckRunning(t) \/ MarkRunning(t)
    \/ ReleaseWorker(t) \/ UnlockWork(t)
    \/ DelegateReturns(t) \/ DelegateUnwinds(t) \/ DelegateInterrupted(t)
    \/ RelockWorker(t) \/ PublishResult(t) \/ ReadCancelled(t)
    \/ SetComplete(t) \/ ClearRunning(t) \/ Leave(t)

ThreadStep(t) == ThreadProceeds(t) \/ DelegateTerminates(t)

\* A program with undefined behaviour behind it promises nothing more.
Next ==
    /\ fault = "none"
    /\ \/ \E w \in Workers : OwnerStep(w)
       \/ \E t \in Threads : ThreadStep(t)

Spec == Init /\ [][Next]_vars

\* Threads are scheduled, and a delegate's request is eventually answered,
\* refused or interrupted.  Nothing obliges the owner to do anything.
Fairness == \A t \in Threads : WF_vars(fault = "none" /\ ThreadProceeds(t))

\* An owner that never uses $run of a worker after its $start.
BackgroundOnly ==
    \A w \in Workers : main' = <<"run", w>> => handle[w] = None

BackgroundSpec == Init /\ [][Next /\ BackgroundOnly]_vars

BackgroundFairSpec == BackgroundSpec /\ Fairness

\* An owner that moreover starts a worker once ...
OnceStep ==
    /\ BackgroundOnly
    /\ \A w \in Workers : handle'[w] # handle[w] => handle[w] = None

\* ... and keeps it until it is complete if it was started.
PatientStep ==
    /\ OnceStep
    /\ \A w \in Workers :
        owner'[w] = "released" /\ owner[w] = "owned" => handle[w] = None \/ complete[w]

PatientSpec == Init /\ [][Next /\ PatientStep]_vars

-----------------------------------------------------------------------------
(* Properties *)

\* At most one thread executes a worker's delegate, however often start() is
\* called: the check of running() and setRunning(true) are separate critical
\* sections of _runMutex, and only _workMutex around both makes them one.
DelegateExclusive ==
    \A s, t \in Threads :
        pc[s] \in Delegated /\ pc[t] \in Delegated /\ target[s] = target[t] => s = t

\* _running is true exactly while a thread has marked it and has not cleared
\* it again, as long as the worker exists.  The thread an interruption has ended
\* counts: it leaves _running true for good, and every later start() is a no-op.
RunningHasRunner ==
    \A w \in Workers :
        Alive(w) => (running[w] <=> \E t \in Threads : target[t] = w /\ pc[t] \in Runner)

\* Whenever notify() comes to read result() after complete(), under another lock and with
\* threads publishing in between, it reads an outcome that a thread of this worker has
\* published: never the empty map of the constructor, and never that of a $run.  Which
\* thread's, is another matter: when a worker is started again, _complete is the first
\* thread's and the result may be the second's.
Published == {"readCancelled", "complete", "clear", "leave", "ended"}

CompleteMeansPublished ==
    \A w \in Workers : complete[w] =>
        \E t \in Threads :
            /\ target[t] = w /\ pc[t] \in Published
            /\ outcome[t] # None /\ result[w] = outcome[t]

\* An owner who waits for completion never meets a destroyed worker: no thread
\* dereferences an empty pointer at its start and no work mutex dies locked.
NoLifetimeFault == fault \notin {"nullDeref", "mutexDestroyed"}

\* A thread that an interruption unwinds leaves a worker that says it was
\* cancelled: such a worker never becomes complete through that thread, so the
\* cancelled flag, set before the interruption, is all its owner will ever see.
InterruptedIsCancelled ==
    \A t \in Threads : pc[t] \in {"unwind", "interrupted"} => cancelled[target[t]]

\* Once every thread of a worker is over, the worker says that it is complete or that
\* it was cancelled: the threads that found it running and left count on one that
\* has the word.  notify() asks for nothing else.
NobodyEndsSilently ==
    \A w \in Workers :
        LET spawned == {t \in Threads : target[t] = w}
        IN  Alive(w) /\ spawned # {} /\ (\A t \in spawned : pc[t] \in Ended) =>
                complete[w] \/ cancelled[w]

\* Each thread uses its delegate through the steps of Delegate and no others.  The
\* process is up for a call that has not begun: what ends it then is not the call.
Called(t) ==
    IF outcome[t] # None THEN "returned"
    ELSE IF pc[t] \in Delegated \cup {"interrupted"} THEN pc[t] ELSE "out"

Call(t) == INSTANCE Delegate WITH
    Outcomes <- Outcomes \cup {None},
    at <- Called(t),
    intr <- intr[t],
    outcome <- outcome[t],
    alive <- fault # "terminate" \/ Called(t) = "out"

CallsAreDelegates ==
    /\ \A t \in Threads : Call(t)!Init
    /\ [][\A t \in Threads : [Call(t)!Next]_(Call(t)!vars)]_vars

\* A worker nobody cancels completes once it is started; destroying it counts
\* as cancelling it.
CompletesUnlessCancelled ==
    \A w \in Workers :
        (handle[w] # None) ~> (complete[w] \/ cancelled[w] \/ fault # "none")

\* Every thread leaves the worker in the end, the ones that found it running,
\* the ones that waited for the work mutex and the ones whose worker died.
ThreadsEnd ==
    \A t \in Threads : (pc[t] = "entry") ~> (pc[t] \in Ended \/ fault # "none")

-----------------------------------------------------------------------------
(* What the comments of Worker.cpp say of it *)

\* Worker.cpp:201: the shared pointer is given up before the work so that the
\* worker can be destructed meanwhile; destructing it must not pull the work
\* mutex from under the thread that holds it.
WorkMutexOutlivesItsHolder == fault # "mutexDestroyed"
-----------------------------------------------------------------------------
(* The strengthening that makes the properties inductive *)

\* A thread belongs to a worker that was created, nobody has marked one that was
\* not, and _thread is a thread of its own worker.
BelongInv ==
    /\ \A t \in Threads : pc[t] # "idle" => owner[target[t]] # "unborn"
    /\ \A w \in Workers : owner[w] = "unborn" => ~running[w]
    /\ \A w \in Workers : handle[w] # None =>
          pc[handle[w]] # "idle" /\ target[handle[w]] = w

\* Between AcquireWork and UnlockWork a thread holds its worker's mutex.
WorkInv == \A t \in Threads : pc[t] \in Critical => workMutex[target[t]] = t

\* A runner has marked its worker, and no second thread gets to mark it.
RunnerInv ==
    /\ \A t \in Threads : pc[t] \in Runner => running[target[t]]
    /\ \A s, t \in Threads :
          pc[s] \in Runner \cup {"mark"} /\ pc[t] \in Runner \cup {"mark"}
             /\ target[s] = target[t] => s = t

\* A request to interrupt is never ahead of the flag it goes with.
CancelInv ==
    /\ \A w \in Workers : main = <<"cancel", w>> => cancelled[w] /\ owner[w] # "unborn"
    /\ \A t \in Threads :
          /\ intr[t] => pc[t] # "idle" /\ cancelled[target[t]]
          /\ pc[t] \in {"unwind", "interrupted"} => cancelled[target[t]]

\* Who holds the work mutex of a worker is one of its threads, and inside the section
\* that gives it up again: no thread waits for a mutex that nobody is left to unlock,
\* whichever way the one before it went.
MutexHasHolder ==
    \A w \in Workers : workMutex[w] # None =>
        pc[workMutex[w]] \in Critical /\ target[workMutex[w]] = w

\* A thread that leaves a worker has found a runner there, or has been the last one
\* and has set complete before; neither goes but for the other.
SilenceInv ==
    \A t \in Threads :
        /\ pc[t] \in {"leave", "ended"} /\ Alive(target[t]) => running[target[t]] \/ complete[target[t]]
        /\ pc[t] = "clear" => complete[target[t]]

\* A thread has an outcome when the delegate has returned one to it.
CallInv ==
    \A t \in Threads :
        /\ pc[t] \in {"idle", "entry", "acquire", "interrupted"} \cup Critical \cup Delegated => outcome[t] = None
        /\ pc[t] \in {"relock"} \cup Finishing => outcome[t] # None

IInv ==
    /\ TypeOK /\ BelongInv /\ WorkInv /\ MutexHasHolder
    /\ RunnerInv /\ RunningHasRunner /\ CancelInv
    /\ SilenceInv /\ CallInv

\* What BackgroundOnly adds: only a worker that was started has threads or runs,
\* and no such worker is run on the main thread.
StartedInv ==
    /\ \A t \in Threads : pc[t] # "idle" => handle[target[t]] # None
    /\ \A w \in Workers :
          /\ running[w] => handle[w] # None
          /\ main = <<"run", w>> => handle[w] = None

\* A thread that has published and is not through finds its own result where it put it.
ResultBelongsToFinisher ==
    \A t \in Threads :
        pc[t] \in {"readCancelled", "complete", "clear"} => result[target[t]] = outcome[t]

BackgroundInv == IInv /\ StartedInv /\ ResultBelongsToFinisher

\* What starting once adds: one thread per worker, and a complete worker has the
\* result of that thread, which is past setComplete.
OnceInv ==
    /\ \A t \in Threads : pc[t] # "idle" => handle[target[t]] = t
    /\ \A w \in Workers : complete[w] =>
          /\ handle[w] # None
          /\ pc[handle[w]] \in {"clear", "leave", "ended"}
          /\ result[w] = outcome[handle[w]]

\* What patience adds: an owner that holds on until then.
PatientInv ==
    \A w \in Workers : owner[w] = "released" => handle[w] = None \/ complete[w]

=============================================================================
