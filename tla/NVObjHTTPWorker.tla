--------------------------- MODULE NVObjHTTPWorker ---------------------------
(***************************************************************************)
(* The Omnis objects of src/src/NVObjHTTPWorker.cpp, put together with the *)
(* worker each of them owns (Worker), the timer that polls them            *)
(* (ThreadTimer), and the messages of Omnis that construct, copy, call and *)
(* destroy them (NVObjWndProc of HTTPlib.cpp).                             *)
(*                                                                         *)
(* Everything but the worker threads is one Omnis main thread.  While an   *)
(* object is told $completed, $canceled or $error, that thread executes    *)
(* the application's method, which may call the methods of any object,     *)
(* destroy and construct objects, and let timer messages in.  stack holds  *)
(* those nested callbacks, the innermost last.                             *)
(*                                                                         *)
(* The chain in which Omnis keeps one C++ object per instance is not shown *)
(* apart: an instance is known by the address of its object.               *)
(***************************************************************************)
EXTENDS Integers, Sequences, FiniteSets

CONSTANTS Objects,    \* addresses at which Omnis objects may be constructed
          Workers, Threads, Outcomes, None, End, Dangling,
          MaxDepth    \* bound on the nesting of callbacks

ASSUME DepthAssumption == MaxDepth \in Nat \ {0}
ASSUME ValuesAssumption ==
    /\ Objects \subseteq Nat
    /\ None \notin Objects /\ End \notin Objects /\ Dangling \notin Objects
    /\ End # Dangling
    /\ None \notin Workers \cup Threads \cup Outcomes

VARIABLES
    alive,      \* the objects that exist
    worker,     \* NVObjHTTPWorker::_worker of each object
    awaiting,   \* history: objects whose last $start has not been answered
    stack,      \* callbacks the main thread is in: [obj, via, event]
    calling,    \* the notify() the main thread is in, before its callback
    \* of ThreadTimer
    subscribers, armed, processing, cursor, notifying, corrupt,
    \* of Worker
    owner, running, complete, cancelled, result, handle, workMutex,
    pc, target, intr, outcome, main, fault

timerVars  == <<subscribers, armed, processing, cursor, notifying, corrupt>>
workerVars == <<owner, running, complete, cancelled, result, handle, workMutex,
                pc, target, intr, outcome, main, fault>>
objectVars == <<alive, worker, awaiting, stack, calling>>
vars == <<objectVars, timerVars, workerVars>>

W == INSTANCE Worker
T == INSTANCE ThreadTimer

Events == {"completed", "canceled"}
Frames == [obj : Objects, via : {"timer", "run", "call"}, event : Events \cup {"error"}]

\* Who is inside notify(), who has called it, and whether complete() was found true.
Calls == [obj : Objects \cup {None}, via : {"timer", "run"}, found : BOOLEAN]
Nobody == [obj |-> None, via |-> "timer", found |-> FALSE]

MethodNames == {"$error", "$initialize", "$run", "$start", "$cancel"}

TypeOK ==
    /\ alive \subseteq Objects
    /\ worker \in [Objects -> Workers \cup {None}]
    /\ awaiting \subseteq Objects
    /\ stack \in UNION {[1..n -> Frames] : n \in 0..MaxDepth}
    /\ calling \in Calls
    /\ T!TypeOK
    /\ W!TypeOK

Init ==
    /\ alive = {}
    /\ worker = [o \in Objects |-> None]
    /\ awaiting = {}
    /\ stack = <<>>
    /\ calling = Nobody
    /\ T!Init
    /\ W!Init

-----------------------------------------------------------------------------
(* Whose turn it is on the main thread *)

\* Objects inside a callback of the timer, or of anything.
InTimerCallback == {stack[i].obj : i \in {j \in DOMAIN stack : stack[j].via = "timer"}}
InCallback == {stack[i].obj : i \in DOMAIN stack}

\* The application executes: at top level or inside the innermost callback, and
\* not inside a method of an object.
ApplicationTurn ==
    /\ main = W!Idle
    /\ calling.obj = None
    /\ processing => InTimerCallback # {}

\* A worker may be touched through an object once $initialize has made one.
HasWorker(o) == o \in alive /\ worker[o] # None

\* Mutant of Finding: a worker that is not running is taken for complete.
FindingNotRunning(w) ==
    IF ~running[w] THEN "completed" ELSE IF cancelled[w] THEN "canceled" ELSE "nothing"

\* Mutant of Finding: cancelled() is not asked.
FindingNoCancel(w) == IF complete[w] THEN "completed" ELSE "nothing"

\* What notify() finds to tell: complete() is asked before cancelled().
Finding(w) == IF complete[w] THEN "completed" ELSE IF cancelled[w] THEN "canceled" ELSE "nothing"

Push(o, via, event) == stack' = Append(stack, [obj |-> o, via |-> via, event |-> event])

-----------------------------------------------------------------------------
(* Construction, copies and destruction *)

\* createObject: a new object has no worker.
Create(o) ==
    /\ alive' = alive \cup {o}
    /\ worker' = [worker EXCEPT ![o] = None]

\* An instance that has its object already is constructed once only.
Construct(o) ==
    /\ ApplicationTurn
    /\ o \notin alive
    /\ Create(o)
    /\ UNCHANGED <<awaiting, stack, calling, timerVars, workerVars>>

\* Mutant of Copy: the whole object is assigned, its _worker included.
CopyWhole(s, d) ==
    /\ ApplicationTurn
    /\ s \in alive /\ s # d /\ worker[d] = None
    /\ alive' = alive \cup {d}
    /\ worker' = [worker EXCEPT ![d] = worker[s]]
    /\ UNCHANGED <<awaiting, stack, calling, timerVars, workerVars>>

\* copyNVObj: a destination that does not exist is made by dup().  copy() assigns
\* the part that NVObjBase declares and puts mObjInst back, so neither way does a
\* worker go from one object to the other.
Copy(s, d) ==
    /\ ApplicationTurn
    /\ s \in alive /\ s # d
    /\ IF d \in alive THEN UNCHANGED <<alive, worker>> ELSE Create(d)
    /\ UNCHANGED <<awaiting, stack, calling, timerVars, workerVars>>

\* Mutant of Destructor: it leaves the subscription behind.
DestructorStaysSubscribed(o) ==
    /\ IF HasWorker(o) THEN W!Release(worker[o]) ELSE UNCHANGED workerVars
    /\ UNCHANGED timerVars

\* The destructor unsubscribes; then the member _worker goes.
Destructor(o) ==
    /\ T!Unsubscribe(o)
    /\ IF HasWorker(o) THEN W!Release(worker[o]) ELSE UNCHANGED workerVars

Destroy(o) ==
    /\ ApplicationTurn
    /\ o \in alive
    /\ Destructor(o)
    /\ alive' = alive \ {o}
    /\ awaiting' = awaiting \ {o}
    /\ UNCHANGED <<worker, stack, calling>>

\* Omnis asks for the names of methods and properties: an object is made for the
\* answer, anywhere in the free memory, and destroyed.
GetNames(o) ==
    /\ ApplicationTurn
    /\ o \notin alive
    /\ Destructor(o)
    /\ UNCHANGED objectVars

-----------------------------------------------------------------------------
(* The methods of an object *)

\* What a method returns ERR_METHOD_FAILED for: $initialize for a parameter that is
\* no row, the others for an object without a worker; $error never fails.
Fails(o, m, isRow) ==
    \/ m = "$initialize" /\ ~isRow
    \/ m \in {"$run", "$start", "$cancel"} /\ worker[o] = None

\* A call that fails does nothing but tell the object's own $error.
CallFails(o) ==
    /\ ApplicationTurn
    /\ o \in alive
    /\ Len(stack) < MaxDepth
    /\ \E m \in MethodNames, isRow \in BOOLEAN : Fails(o, m, isRow)
    /\ Push(o, "call", "error")
    /\ UNCHANGED <<alive, worker, awaiting, calling, timerVars, workerVars>>

\* $initialize: the request in hand, if any, is given up with its worker.
Initialize(o, w) ==
    /\ ApplicationTurn
    /\ o \in alive
    /\ W!Assign(worker[o], w)
    /\ worker' = [worker EXCEPT ![o] = w]
    /\ awaiting' = awaiting \ {o}
    /\ UNCHANGED <<alive, stack, calling, timerVars>>

\* Mutant of Start: the object subscribes before it looks for its worker.
StartSubscribesFirst(o, t) ==
    /\ ApplicationTurn
    /\ o \in alive
    /\ T!Subscribe(o)
    /\ IF worker[o] = None
       THEN UNCHANGED <<workerVars, awaiting>>
       ELSE W!Start(worker[o], t) /\ awaiting' = awaiting \cup {o}
    /\ UNCHANGED <<alive, worker, stack, calling>>

\* $start: subscribe, then start.
Start(o, t) ==
    /\ ApplicationTurn
    /\ HasWorker(o)
    /\ T!Subscribe(o)
    /\ W!Start(worker[o], t)
    /\ awaiting' = awaiting \cup {o}
    /\ UNCHANGED <<alive, worker, stack, calling>>

\* $cancel.
Cancel(o) ==
    /\ ApplicationTurn
    /\ HasWorker(o)
    /\ W!BeginCancel(worker[o])
    /\ UNCHANGED <<objectVars, timerVars>>

CancelReturns(o) ==
    /\ HasWorker(o)
    /\ W!EndCancel(worker[o])
    /\ UNCHANGED <<objectVars, timerVars>>

\* $run: the request on the main thread, then notify() called by hand.
Run(o) ==
    /\ ApplicationTurn
    /\ HasWorker(o)
    /\ Len(stack) < MaxDepth
    /\ W!BeginRun(worker[o])
    /\ UNCHANGED <<objectVars, timerVars>>

RunReturns(o) ==
    /\ HasWorker(o)
    /\ W!EndRun(worker[o])
    /\ calling' = [obj |-> o, via |-> "run", found |-> FALSE]
    /\ UNCHANGED <<alive, worker, awaiting, stack, timerVars>>

RunDies(o) ==
    /\ HasWorker(o)
    /\ W!RunTerminates(worker[o])
    /\ UNCHANGED <<objectVars, timerVars>>

-----------------------------------------------------------------------------
(* The timer's walk and the callbacks *)

TimerFires ==
    /\ ApplicationTurn
    /\ Len(stack) < MaxDepth
    /\ T!TimerFire
    /\ UNCHANGED <<objectVars, workerVars>>

\* The walk calls notify() of an object.
NotifyCalled(o) ==
    /\ T!CallNotify
    /\ cursor = o
    /\ calling' = [obj |-> o, via |-> "timer", found |-> FALSE]
    /\ UNCHANGED <<alive, worker, awaiting, stack, workerVars>>

-----------------------------------------------------------------------------
(* notify(), called by the walk or by $run: what it asks, it asks under one *)
(* lock after the other, and the worker's threads move in between.         *)

Asks == calling.obj # None /\ ~calling.found

\* complete() is true.
NotifyFindsComplete ==
    /\ Asks
    /\ Finding(worker[calling.obj]) = "completed"
    /\ calling' = [calling EXCEPT !.found = TRUE]
    /\ UNCHANGED <<alive, worker, awaiting, stack, timerVars, workerVars>>

\* It reads result() and calls $completed, or has found cancelled() and calls
\* $canceled.  The timer's call answers the object's $start.
NotifyTells ==
    /\ calling.obj # None
    /\ \/ calling.found /\ Push(calling.obj, calling.via, "completed")
       \/ /\ Asks
          /\ Finding(worker[calling.obj]) = "canceled"
          /\ Push(calling.obj, calling.via, "canceled")
    /\ awaiting' = IF calling.via = "timer" THEN awaiting \ {calling.obj} ELSE awaiting
    /\ calling' = Nobody
    /\ UNCHANGED <<alive, worker, timerVars, workerVars>>

\* Mutant of NotifyFindsNothing: a callback is made all the same.
NotifyFindsNothingTells ==
    /\ Asks
    /\ Finding(worker[calling.obj]) = "nothing"
    /\ Push(calling.obj, calling.via, "nothing")
    /\ calling' = Nobody
    /\ UNCHANGED <<alive, worker, awaiting, timerVars, workerVars>>

\* Neither: kTimerContinue for the walk, nothing for $run.
NotifyFindsNothing ==
    /\ Asks
    /\ Finding(worker[calling.obj]) = "nothing"
    /\ IF calling.via = "timer" THEN T!NotifyReturns("continue") ELSE UNCHANGED timerVars
    /\ calling' = Nobody
    /\ UNCHANGED <<alive, worker, awaiting, stack, workerVars>>

-----------------------------------------------------------------------------
(* Callbacks return, walks end, threads move *)

\* Mutant of CallbackReturns: notify() returns kTimerContinue after a callback.
CallbackReturnsContinue ==
    /\ ApplicationTurn
    /\ stack # <<>>
    /\ stack' = SubSeq(stack, 1, Len(stack) - 1)
    /\ IF stack[Len(stack)].via = "timer"
       THEN T!NotifyReturns("continue")
       ELSE UNCHANGED timerVars
    /\ UNCHANGED <<alive, worker, awaiting, calling, workerVars>>

\* The application's method returns.  notify() then returns kTimerStop to the
\* walk, or the method that called it by hand returns.
CallbackReturns ==
    /\ ApplicationTurn
    /\ stack # <<>>
    /\ stack' = SubSeq(stack, 1, Len(stack) - 1)
    /\ IF stack[Len(stack)].via = "timer"
       THEN T!NotifyReturns("stop")
       ELSE UNCHANGED timerVars
    /\ UNCHANGED <<alive, worker, awaiting, calling, workerVars>>

WalkEnds ==
    /\ T!EndWalk
    /\ UNCHANGED <<objectVars, workerVars>>

ThreadMoves(t) ==
    /\ W!ThreadStep(t)
    /\ UNCHANGED <<objectVars, timerVars>>

-----------------------------------------------------------------------------
Application ==
    \E o \in Objects :
        \/ Construct(o) \/ Destroy(o) \/ GetNames(o)
        \/ \E d \in Objects : Copy(o, d)
        \/ CallFails(o)
        \/ \E w \in Workers : Initialize(o, w)
        \/ \E t \in Threads : Start(o, t)
        \/ Cancel(o) \/ Run(o)

Methods == \E o \in Objects : CancelReturns(o) \/ RunReturns(o) \/ RunDies(o)

Timer == TimerFires \/ (\E o \in Objects : NotifyCalled(o)) \/ WalkEnds

Notify == NotifyFindsComplete \/ NotifyTells \/ NotifyFindsNothing

Sound == fault = "none" /\ ~corrupt

Next ==
    /\ Sound
    /\ \/ Application
       \/ Methods
       \/ Timer
       \/ Notify
       \/ CallbackReturns
       \/ \E t \in Threads : ThreadMoves(t)

Spec == Init /\ [][Next]_vars

\* An application that gives every $initialize a row and every request a worker of
\* its own, does not give an object another one before the first is answered, and
\* neither starts nor destroys an object inside that object's own callback.
Courteous ==
    \A o \in Objects :
        /\ stack' = Append(stack, [obj |-> o, via |-> "call", event |-> "error"]) => worker[o] = None
        /\ o \in alive \ alive' => o \notin InCallback
        /\ worker'[o] # worker[o] => o \notin awaiting
        /\ o \in awaiting' \ awaiting => handle[worker[o]] = None /\ o \notin InCallback
        /\ o \in alive /\ worker[o] # None =>
              /\ handle'[worker[o]] # handle[worker[o]] => handle[worker[o]] = None
              /\ main' = <<"run", worker[o]>> => handle[worker[o]] = None

CourteousSpec == Init /\ [][Next /\ Courteous]_vars

\* One that moreover gives up an object's worker only before it has started it or when
\* it is complete; having been told $canceled is not enough.
Patient ==
    \A o \in alive :
        worker[o] # None /\ (o \notin alive' \/ worker'[o] # worker[o]) =>
            handle[worker[o]] = None \/ complete[worker[o]]

PatientSpec == Init /\ [][Next /\ Courteous /\ Patient]_vars

\* An application that starts a worker again, but only one that has been answered and
\* is complete, and that never runs it in the foreground once it has been started.
Sequential ==
    \A o \in Objects : o \in alive /\ worker[o] # None =>
        /\ handle'[worker[o]] # handle[worker[o]] =>
              handle[worker[o]] = None \/ (o \notin awaiting /\ complete[worker[o]])
        /\ main' = <<"run", worker[o]>> => handle[worker[o]] = None

SequentialSpec == Init /\ [][Next /\ Sequential]_vars

\* The main thread goes on: Omnis delivers timer messages, methods of objects and
\* of the application return.  The threads go on, their requests end.
Fairness ==
    /\ SF_vars(Sound /\ TimerFires)
    /\ WF_vars(Sound /\ (Timer \/ Notify \/ Methods))
    /\ SF_vars(Sound /\ CallbackReturns)
    /\ \A t \in Threads : WF_vars(Sound /\ W!ThreadProceeds(t) /\ UNCHANGED <<objectVars, timerVars>>)

-----------------------------------------------------------------------------
(* Properties *)

\* Between its $start and its callback an object is in the timer's map, and no
\* object is in the map that is not waiting or being answered: nothing else
\* would ever tell the application that the thread has ended.
AwaitingIsWatched == awaiting = subscribers \ InTimerCallback

\* Whoever is called back is alive, and so is whoever the timer will call.
WatchedIsAlive == subscribers \cup InCallback \subseteq alive

\* notify() uses _worker without a look at it: whoever is in the map has one,
\* through failing calls, copies onto it and objects at the address of another.
WatchedHasWorker == \A o \in subscribers : worker[o] # None

\* No two objects have one worker, whichever is copied onto which: otherwise one
\* would cancel the other's request, or be told of it.
WorkersAreNotShared ==
    \A o, p \in alive : worker[o] # None /\ worker[o] = worker[p] => o = p

\* $completed is called, by the timer or at the end of $run, when the thread of the
\* object's last $start has published its result, and result() is that thread's.
CompletedMeansDone ==
    [][Len(stack') > Len(stack) /\ stack'[Len(stack')].event = "completed" =>
         LET w == worker[stack'[Len(stack')].obj]
         IN  /\ handle[w] # None
             /\ pc[handle[w]] \in {"clear", "leave", "ended"}
             /\ result[w] = outcome[handle[w]]]_vars

\* No answer is lost between a thread and the timer: who waits has a thread on its way,
\* or the next walk finds in its worker what to tell.
AwaitingIsAnswerable ==
    \A o \in awaiting :
        \/ handle[worker[o]] # None /\ pc[handle[worker[o]]] \notin W!Ended
        \/ Finding(worker[o]) \in Events

\* The promise of Notification: the objects in the map that are not inside their
\* callback are those that wait for an answer, and each is answered once, one
\* after the other.
Promise == INSTANCE Notification
             WITH asked <- subscribers \ InTimerCallback, answering <- InTimerCallback

AnswersOnce == Promise!Spec

\* Every $start is answered, whatever the threads, the other objects and their
\* callbacks do, unless the program has died of undefined behaviour or of an
\* interruption at the wrong moment.
EveryStartIsAnswered ==
    \A o \in Objects : (o \in awaiting) ~> (o \notin awaiting \/ ~Sound)

-----------------------------------------------------------------------------
(* What the comments of the sources say of it *)

\* NVObjHTTPWorker.cpp:360 "Initiate timer to watch for finished events": an
\* object that has been started is watched until it has been told.
StartedIsWatched == \A o \in awaiting : o \in subscribers
-----------------------------------------------------------------------------
(* The strengthening that makes the properties inductive *)

\* One callback of the timer at a time, of the object inside its notify().
FrameInv ==
    /\ stack \in Seq(Frames)
    /\ \A i, j \in 1 .. Len(stack) :
          stack[i].via = "timer" /\ stack[j].via = "timer" => i = j
    /\ \A i \in 1 .. Len(stack) : stack[i].via = "timer" => stack[i].obj = notifying

\* Whoever is about to call back has room for it.
DepthInv ==
    /\ Len(stack) <= MaxDepth
    /\ processing /\ InTimerCallback = {} => Len(stack) < MaxDepth /\ main = W!Idle
    /\ main[1] = "run" => Len(stack) < MaxDepth

\* Whoever is inside notify() has the main thread to itself: of the walk, it is the
\* object the walk is at; of $run, the walk is not on or waits for a callback.
CallingInv ==
    calling.obj # None =>
        /\ main = W!Idle
        /\ Len(stack) < MaxDepth
        /\ IF calling.via = "timer"
           THEN notifying = calling.obj /\ InTimerCallback = {}
           ELSE processing => InTimerCallback # {}

\* The worker of an object that exists is its alone, and who is in the map exists.
OwnInv ==
    /\ \A o \in alive : worker[o] # None => owner[worker[o]] = "owned"
    /\ WorkersAreNotShared
    /\ subscribers \subseteq alive
    /\ WatchedHasWorker

ObjectInv == TypeOK /\ FrameInv /\ DepthInv /\ CallingInv /\ T!LooseInv /\ OwnInv

\* What notify() asks is there, and what it has found stays true: _complete is never
\* reset.
FoundInv ==
    calling.obj # None =>
        HasWorker(calling.obj) /\ (calling.found => complete[worker[calling.obj]])

\* What courtesy adds.
CourteousInv ==
    /\ ObjectInv
    /\ FoundInv
    /\ T!IInv
    /\ WatchedIsAlive
    /\ AwaitingIsWatched
    /\ \A o \in awaiting : handle[worker[o]] # None
    /\ W!BackgroundInv
    /\ W!OnceInv
=============================================================================
