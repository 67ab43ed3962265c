----------------------- MODULE NVObjHTTPWorkerProofs -----------------------
(***************************************************************************)
(* Proofs about NVObjHTTPWorker, for every set of objects, workers and     *)
(* threads and every depth of nested callbacks.  What its steps do to the  *)
(* worker and to the timer is proved in WorkerProofs and ThreadTimerProofs *)
(* and cited from there.                                                   *)
(***************************************************************************)
EXTENDS NVObjHTTPWorker, SequenceTheorems, TLAPS

WP == INSTANCE WorkerProofs
TP == INSTANCE ThreadTimerProofs

USE DepthAssumption, ValuesAssumption

-----------------------------------------------------------------------------
(* The components' lemmas, about the instances of this module *)

LEMMA WorkerNext == [W!Next]_(W!vars) <=> [WP!Next]_(WP!vars)
BY DEF
       W!flagVars, WP!flagVars, W!workerVars, WP!workerVars, W!threadVars, WP!threadVars,
       W!vars, WP!vars, W!Critical, WP!Critical, W!Finishing, WP!Finishing, W!Delegated,
       WP!Delegated, W!Runner, WP!Runner, W!Ended, WP!Ended, W!Pcs, WP!Pcs, W!Holding,
       WP!Holding, W!Idle, WP!Idle, W!MainOps, WP!MainOps, W!Faults, WP!Faults, W!TypeOK,
       WP!TypeOK, W!Init, WP!Init, W!Holders, WP!Holders, W!Alive, WP!Alive,
       W!InterruptHandle, WP!InterruptHandle, W!Destroy, WP!Destroy, W!DropReference,
       WP!DropReference, W!Assign, WP!Assign, W!Start, WP!Start, W!BeginCancel,
       WP!BeginCancel, W!EndCancel, WP!EndCancel, W!BeginRun, WP!BeginRun, W!EndRun,
       WP!EndRun, W!RunTerminates, WP!RunTerminates, W!Release, WP!Release, W!Goto, WP!Goto,
       W!LockWorker, WP!LockWorker, W!AcquireWork, WP!AcquireWork, W!CheckRunning,
       WP!CheckRunning, W!MarkRunning, WP!MarkRunning, W!ReleaseWorker, WP!ReleaseWorker,
       W!UnlockWork, WP!UnlockWork, W!DelegateReturns, WP!DelegateReturns,
       W!DelegateUnwinds, WP!DelegateUnwinds, W!DelegateInterrupted, WP!DelegateInterrupted,
       W!DelegateTerminates, WP!DelegateTerminates, W!RelockWorker, WP!RelockWorker,
       W!PublishResult, WP!PublishResult, W!ReadCancelled, WP!ReadCancelled, W!SetComplete,
       WP!SetComplete, W!ClearRunning, WP!ClearRunning, W!Leave, WP!Leave, W!OwnerStep,
       WP!OwnerStep, W!ThreadProceeds, WP!ThreadProceeds, W!ThreadStep, WP!ThreadStep,
       W!Next, WP!Next

LEMMA WorkerTypes == W!TypeOK /\ [W!Next]_(W!vars) => W!TypeOK'
<1>1. W!TypeOK <=> WP!TypeOK
  BY DEF
       W!TypeOK, WP!TypeOK, W!Critical, WP!Critical, W!Finishing, WP!Finishing, W!Delegated,
       WP!Delegated, W!Runner, WP!Runner, W!Pcs, WP!Pcs, W!Idle, WP!Idle, W!MainOps,
       WP!MainOps, W!Faults, WP!Faults
<1>2. W!TypeOK' <=> WP!TypeOK'
  BY DEF
       W!TypeOK, WP!TypeOK, W!Critical, WP!Critical, W!Finishing, WP!Finishing, W!Delegated,
       WP!Delegated, W!Runner, WP!Runner, W!Pcs, WP!Pcs, W!Idle, WP!Idle, W!MainOps,
       WP!MainOps, W!Faults, WP!Faults
<1> QED
  BY <1>1, <1>2, WorkerNext, WP!TypeStep

LEMMA WorkerOnce ==
    ASSUME W!BackgroundInv, W!OnceInv, [W!Next /\ W!OnceStep]_(W!vars)
    PROVE  W!BackgroundInv' /\ W!OnceInv'
<1>1. WP!BackgroundInv /\ WP!OnceInv
  BY DEF
       W!TypeOK, WP!TypeOK, W!Critical, WP!Critical, W!Finishing, WP!Finishing, W!Delegated,
       WP!Delegated, W!Runner, WP!Runner, W!Pcs, WP!Pcs, W!Idle, WP!Idle, W!MainOps,
       WP!MainOps, W!Faults, WP!Faults, W!Holding, WP!Holding, W!Holders, WP!Holders,
       W!Alive, WP!Alive, W!RunningHasRunner, WP!RunningHasRunner,
       W!ResultBelongsToFinisher, WP!ResultBelongsToFinisher, W!BelongInv, WP!BelongInv,
       W!WorkInv, WP!WorkInv, W!RunnerInv, WP!RunnerInv, W!CancelInv, WP!CancelInv, W!Ended,
       WP!Ended, W!MutexHasHolder, WP!MutexHasHolder, W!SilenceInv, WP!SilenceInv,
       W!CallInv, WP!CallInv, W!IInv,
       WP!IInv, W!StartedInv, WP!StartedInv, W!BackgroundInv, WP!BackgroundInv, W!OnceInv,
       WP!OnceInv
<1>2. [WP!Next /\ WP!OnceStep]_(WP!vars)
  BY WorkerNext DEF W!OnceStep, WP!OnceStep, W!BackgroundOnly, WP!BackgroundOnly,
     W!vars, WP!vars, W!workerVars, WP!workerVars, W!threadVars, WP!threadVars, W!flagVars, WP!flagVars
<1>3. WP!BackgroundInv' /\ WP!OnceInv'
  BY <1>1, <1>2, WP!OnceStepKeeps
<1> QED
  BY <1>3 DEF
       W!TypeOK, WP!TypeOK, W!Critical, WP!Critical, W!Finishing, WP!Finishing, W!Delegated,
       WP!Delegated, W!Runner, WP!Runner, W!Pcs, WP!Pcs, W!Idle, WP!Idle, W!MainOps,
       WP!MainOps, W!Faults, WP!Faults, W!Holding, WP!Holding, W!Holders, WP!Holders,
       W!Alive, WP!Alive, W!RunningHasRunner, WP!RunningHasRunner,
       W!ResultBelongsToFinisher, WP!ResultBelongsToFinisher, W!BelongInv, WP!BelongInv,
       W!WorkInv, WP!WorkInv, W!RunnerInv, WP!RunnerInv, W!CancelInv, WP!CancelInv, W!Ended,
       WP!Ended, W!MutexHasHolder, WP!MutexHasHolder, W!SilenceInv, WP!SilenceInv,
       W!CallInv, WP!CallInv, W!IInv,
       WP!IInv, W!StartedInv, WP!StartedInv, W!BackgroundInv, WP!BackgroundInv, W!OnceInv,
       WP!OnceInv

LEMMA TimerNext == [T!Next]_(T!vars) <=> [TP!Next]_(TP!vars)
BY DEF
       T!Min, TP!Min, T!vars, TP!vars, T!Verdicts, TP!Verdicts, T!Above, TP!Above, T!First,
       TP!First, T!After, TP!After, T!Subscribe, TP!Subscribe, T!Unsubscribe,
       TP!Unsubscribe, T!TimerFire, TP!TimerFire, T!CallNotify, TP!CallNotify,
       T!NotifyReturns, TP!NotifyReturns, T!EndWalk, TP!EndWalk, T!MainThreadIsTheirs,
       TP!MainThreadIsTheirs, T!Next, TP!Next

LEMMA TimerLoose == T!LooseInv /\ [T!Next]_(T!vars) => T!LooseInv'
<1>1. T!LooseInv => TP!LooseInv
  BY DEF T!TypeOK, TP!TypeOK, T!ArmedWhileSubscribed, TP!ArmedWhileSubscribed, T!LooseInv, TP!LooseInv
<1>2. TP!LooseInv' => T!LooseInv'
  BY DEF T!TypeOK, TP!TypeOK, T!ArmedWhileSubscribed, TP!ArmedWhileSubscribed, T!LooseInv, TP!LooseInv
<1> QED
  BY <1>1, <1>2, TimerNext, TP!LooseStep

LEMMA TimerTame ==
    ASSUME T!IInv, [T!Next /\ T!NotifiedStays]_(T!vars)
    PROVE  T!IInv'
<1>1. TP!IInv
  BY DEF
       T!TypeOK, TP!TypeOK, T!ArmedWhileSubscribed, TP!ArmedWhileSubscribed,
       T!CursorIsEntry, TP!CursorIsEntry, T!IInv, TP!IInv
<1>2. [TP!Next /\ TP!NotifiedStays]_(TP!vars)
  BY TimerNext DEF T!NotifiedStays, TP!NotifiedStays, T!vars, TP!vars
<1>3. TP!IInv'
  BY <1>1, <1>2, TP!Transition
<1> QED
  BY <1>3 DEF
       T!TypeOK, TP!TypeOK, T!ArmedWhileSubscribed, TP!ArmedWhileSubscribed,
       T!CursorIsEntry, TP!CursorIsEntry, T!IInv, TP!IInv

-----------------------------------------------------------------------------
(* The stack of callbacks *)

LEMMA Framed ==
    ASSUME FrameInv
    PROVE  /\ InTimerCallback \subseteq InCallback
           /\ InTimerCallback \subseteq {notifying}
           /\ InCallback \subseteq Objects
           /\ stack # <<>> => Len(stack) \in 1 .. Len(stack) /\ stack[Len(stack)] \in Frames
           /\ stack # <<>> /\ stack[Len(stack)].via = "timer" => InTimerCallback = {notifying}
<1>1. DOMAIN stack = 1 .. Len(stack) /\ Len(stack) \in Nat
  BY DEF FrameInv
<1>2. \A i \in DOMAIN stack : stack[i] \in Frames /\ stack[i].obj \in Objects
  <2>1. \A i \in DOMAIN stack : stack[i] \in Frames
    BY <1>1 DEF FrameInv
  <2>2. \A f \in Frames : f.obj \in Objects
    BY DEF Frames
  <2> QED
    BY <2>1, <2>2
<1>3. InTimerCallback \subseteq {notifying}
  BY <1>1 DEF FrameInv, InTimerCallback
<1>4. stack # <<>> => Len(stack) \in DOMAIN stack
  BY <1>1 DEF FrameInv
<1>5. ASSUME stack # <<>>, stack[Len(stack)].via = "timer" PROVE notifying \in InTimerCallback
  BY <1>1, <1>4, <1>5 DEF FrameInv, InTimerCallback
<1> QED
  BY <1>1, <1>2, <1>3, <1>4, <1>5 DEF InTimerCallback, InCallback

\* A callback begins.
LEMMA Pushed ==
    ASSUME FrameInv, NEW o \in Objects, NEW via \in {"timer", "run", "call"},
           NEW event \in Events \cup {"error"}, Push(o, via, event)
    PROVE  /\ stack' \in Seq(Frames)
           /\ Len(stack') = Len(stack) + 1
           /\ \A i \in 1 .. Len(stack) : stack'[i] = stack[i]
           /\ stack'[Len(stack')].obj = o
           /\ stack'[Len(stack')].via = via
           /\ stack'[Len(stack')].event = event
           /\ InCallback' = InCallback \cup {o}
           /\ InTimerCallback' = IF via = "timer" THEN InTimerCallback \cup {o} ELSE InTimerCallback
<1> DEFINE f == [obj |-> o, via |-> via, event |-> event]
<1>1. f \in Frames /\ f.obj = o /\ f.via = via /\ f.event = event
  BY DEF Frames
<1>2. stack' = Append(stack, f) /\ stack \in Seq(Frames)
  BY DEF Push, FrameInv
<1> HIDE DEF f
<1>3. /\ stack' \in Seq(Frames)
      /\ Len(stack') = Len(stack) + 1
      /\ \A i \in 1 .. Len(stack) : stack'[i] = stack[i]
      /\ stack'[Len(stack) + 1] = f
      /\ DOMAIN stack' = DOMAIN stack \cup {Len(stack) + 1}
      /\ DOMAIN stack = 1 .. Len(stack)
  BY <1>1, <1>2
<1>4. InCallback' = InCallback \cup {o}
  BY <1>1, <1>3 DEF InCallback
<1>5. InTimerCallback' = IF via = "timer" THEN InTimerCallback \cup {o} ELSE InTimerCallback
  BY <1>1, <1>3 DEF InTimerCallback
<1> QED
  BY <1>1, <1>3, <1>4, <1>5

\* The innermost callback returns.
LEMMA Popped ==
    ASSUME FrameInv, stack # <<>>, stack' = SubSeq(stack, 1, Len(stack) - 1)
    PROVE  /\ stack' \in Seq(Frames)
           /\ Len(stack') = Len(stack) - 1
           /\ \A i \in 1 .. Len(stack') : i \in 1 .. Len(stack) /\ stack'[i] = stack[i]
           /\ InCallback' \subseteq InCallback
           /\ InTimerCallback' = IF stack[Len(stack)].via = "timer" THEN {} ELSE InTimerCallback
<1>1. stack \in Seq(Frames) /\ DOMAIN stack = 1 .. Len(stack) /\ Len(stack) \in Nat \ {0}
  BY DEF FrameInv
<1>2. /\ stack' \in Seq(Frames)
      /\ Len(stack') = Len(stack) - 1
      /\ \A i \in 1 .. Len(stack') : i \in 1 .. Len(stack) /\ stack'[i] = stack[i]
      /\ DOMAIN stack' = DOMAIN stack \ {Len(stack)}
  BY <1>1
<1>3. InCallback' \subseteq InCallback
  BY <1>2 DEF InCallback
<1>4. CASE stack[Len(stack)].via = "timer"
  <2>1. \A i \in DOMAIN stack' : stack'[i].via # "timer"
    BY <1>1, <1>2, <1>4 DEF FrameInv
  <2>2. InTimerCallback' = {}
    BY <2>1 DEF InTimerCallback
  <2> QED
    BY <1>2, <1>3, <1>4, <2>2
<1>5. CASE stack[Len(stack)].via # "timer"
  <2>1. {j \in DOMAIN stack' : stack'[j].via = "timer"} = {j \in DOMAIN stack : stack[j].via = "timer"}
    BY <1>1, <1>2, <1>5
  <2>2. InTimerCallback' = InTimerCallback
    BY <1>2, <2>1 DEF InTimerCallback
  <2> QED
    BY <1>2, <1>3, <1>5, <2>2
<1> QED
  BY <1>4, <1>5

-----------------------------------------------------------------------------
(* Every step is one of the worker's and one of the timer's *)

LEMMA ActionIsWorkers ==
    ASSUME TypeOK, [Next]_vars
    PROVE  [W!Next]_(W!vars)
<1> USE DEF TypeOK, Sound, workerVars, W!vars, W!workerVars, W!threadVars, W!flagVars
<1> DEFINE Stays == UNCHANGED workerVars
           Owns == fault = "none" /\ \E w \in Workers : W!OwnerStep(w)
           Moves == fault = "none" /\ \E t \in Threads : W!ThreadStep(t)
<1>1. Stays \/ Owns \/ Moves => [W!Next]_(W!vars)
  BY DEF W!Next
<1>2. ASSUME NEW o \in Objects,
             Construct(o) \/ CallFails(o) \/ NotifyCalled(o)
      PROVE  Stays
  BY <1>2 DEF Construct, CallFails, NotifyCalled
<1>3. ASSUME NEW s \in Objects, NEW d \in Objects, Copy(s, d) PROVE Stays
  BY <1>3 DEF Copy
<1>4. ASSUME NEW o \in Objects, Destroy(o) \/ GetNames(o), fault = "none" PROVE Stays \/ Owns
  <2>1. Destructor(o)
    BY <1>4 DEF Destroy, GetNames
  <2>2. HasWorker(o) => worker[o] \in Workers
    BY DEF HasWorker
  <2> QED
    BY <1>4, <2>1, <2>2 DEF Destructor, W!OwnerStep
<1>5. ASSUME NEW o \in Objects, NEW w \in Workers, Initialize(o, w), fault = "none" PROVE Owns
  BY <1>5 DEF Initialize, W!OwnerStep
<1>6. ASSUME NEW o \in Objects, NEW t \in Threads, Start(o, t), fault = "none" PROVE Owns
  BY <1>6 DEF Start, HasWorker, W!OwnerStep
<1>7. ASSUME NEW o \in Objects, fault = "none",
             Cancel(o) \/ CancelReturns(o) \/ Run(o) \/ RunReturns(o) \/ RunDies(o)
      PROVE  Owns
  BY <1>7 DEF Cancel, CancelReturns, Run, RunReturns, RunDies, HasWorker, W!OwnerStep
<1>8. ASSUME NEW t \in Threads, ThreadMoves(t), fault = "none" PROVE Moves
  BY <1>8 DEF ThreadMoves
<1>9. UNCHANGED vars => Stays
  BY DEF vars
<1>10. TimerFires \/ Notify \/ CallbackReturns \/ WalkEnds => Stays
  BY DEF TimerFires, Notify, NotifyFindsComplete, NotifyTells, NotifyFindsNothing, CallbackReturns, WalkEnds
<1> HIDE DEF Stays, Owns, Moves
<1> QED
  BY <1>1, <1>2, <1>3, <1>4, <1>5, <1>6, <1>7, <1>8, <1>9, <1>10 DEF Next, Application, Methods, Timer

\* The application acts when no walk is on, or inside a callback of the walk.
LEMMA TurnIsTheirs ==
    ASSUME FrameInv, T!LooseInv, ApplicationTurn
    PROVE  /\ T!MainThreadIsTheirs
           /\ main = W!Idle
           /\ notifying # None => notifying \in InTimerCallback
<1>1. InTimerCallback \subseteq {notifying} /\ InTimerCallback \subseteq Objects
  BY Framed
<1>2. notifying # None => processing
  BY DEF T!LooseInv
<1> QED
  BY <1>1, <1>2 DEF ApplicationTurn, T!MainThreadIsTheirs

LEMMA ActionIsTimers ==
    ASSUME FrameInv, T!LooseInv, [Next]_vars
    PROVE  [T!Next]_(T!vars)
<1> USE DEF Sound, timerVars, T!vars
<1> DEFINE Stays == UNCHANGED timerVars
           Acts == ~corrupt /\ \E o \in Objects :
                       T!MainThreadIsTheirs /\ (T!Subscribe(o) \/ T!Unsubscribe(o))
           Walks == ~corrupt /\ \/ T!MainThreadIsTheirs /\ T!TimerFire
                                \/ T!CallNotify
                                \/ \E v \in T!Verdicts : T!NotifyReturns(v)
                                \/ T!EndWalk
<1>1. Stays \/ Acts \/ Walks => [T!Next]_(T!vars)
  BY DEF T!Next
<1>2. ASSUME NEW o \in Objects, Construct(o) \/ CallFails(o) \/ Cancel(o) \/ CancelReturns(o)
             \/ Run(o) \/ RunReturns(o) \/ RunDies(o)
      PROVE  Stays
  BY <1>2 DEF Construct, CallFails, Cancel, CancelReturns, Run, RunReturns, RunDies
<1>3. ASSUME NEW s \in Objects, NEW d \in Objects, Copy(s, d) PROVE Stays
  BY <1>3 DEF Copy
<1>4. ASSUME NEW o \in Objects, Destroy(o) \/ GetNames(o), ~corrupt PROVE Acts
  BY <1>4, TurnIsTheirs DEF Destroy, GetNames, Destructor
<1>5. ASSUME NEW o \in Objects, NEW w \in Workers, Initialize(o, w) PROVE Stays
  BY <1>5 DEF Initialize
<1>6. ASSUME NEW o \in Objects, NEW t \in Threads, Start(o, t), ~corrupt PROVE Acts
  BY <1>6, TurnIsTheirs DEF Start
<1>7. ASSUME TimerFires \/ WalkEnds, ~corrupt PROVE Walks
  BY <1>7, TurnIsTheirs DEF TimerFires, WalkEnds
<1>8. ASSUME NEW o \in Objects, NotifyCalled(o), ~corrupt PROVE Walks
  BY <1>8 DEF NotifyCalled
<1>9. ASSUME CallbackReturns, ~corrupt PROVE Stays \/ Walks
  BY <1>9 DEF CallbackReturns, T!Verdicts
<1>10. ASSUME NEW t \in Threads, ThreadMoves(t) PROVE Stays
  BY <1>10 DEF ThreadMoves
<1>11. UNCHANGED vars => Stays
  BY DEF vars
<1>12. ASSUME NotifyFindsComplete \/ NotifyTells \/ NotifyFindsNothing, ~corrupt PROVE Stays \/ Walks
  BY <1>12 DEF NotifyFindsComplete, NotifyTells, NotifyFindsNothing, T!Verdicts
<1> HIDE DEF Stays, Acts, Walks
<1> QED
  BY <1>1, <1>2, <1>3, <1>4, <1>5, <1>6, <1>7, <1>8, <1>9, <1>10, <1>11, <1>12
     DEF Next, Application, Methods, Timer, Notify

-----------------------------------------------------------------------------
(* What holds whatever the application does *)

LEMMA FrameStep ==
    ASSUME TypeOK, FrameInv, CallingInv, T!LooseInv, [Next]_vars
    PROVE  FrameInv'
<1> USE DEF timerVars
<1>1. ASSUME UNCHANGED <<stack, notifying>> PROVE FrameInv'
  BY <1>1 DEF FrameInv
<1>2. ASSUME NEW o \in Objects, NEW via \in {"run", "call"}, NEW event \in Events \cup {"error"},
             Push(o, via, event), UNCHANGED notifying
      PROVE  FrameInv'
  <2>1. via \in {"timer", "run", "call"} /\ via # "timer"
    BY <1>2
  <2>2. /\ stack' \in Seq(Frames)
        /\ Len(stack') = Len(stack) + 1
        /\ \A i \in 1 .. Len(stack) : stack'[i] = stack[i]
        /\ stack'[Len(stack')].via = via
    BY <1>2, <2>1, Pushed
  <2>3. Len(stack) \in Nat
    BY DEF FrameInv
  <2>4. \A i \in 1 .. Len(stack') :
           stack'[i].via = "timer" => i \in 1 .. Len(stack) /\ stack'[i] = stack[i]
    BY <2>1, <2>2, <2>3
  <2> QED
    BY <1>2, <2>2, <2>4 DEF FrameInv
<1>3. ASSUME NotifyTells PROVE FrameInv'
  <2>1. PICK event \in Events : Push(calling.obj, calling.via, event)
    BY <1>3 DEF NotifyTells, Events
  <2>2. calling.obj \in Objects /\ calling.via \in {"timer", "run"}
    BY <1>3 DEF NotifyTells, TypeOK, Calls
  <2>3. CASE calling.via = "run"
    BY <1>2, <1>3, <2>1, <2>2, <2>3 DEF NotifyTells
  <2>4. CASE calling.via = "timer"
    <3>1. notifying = calling.obj /\ UNCHANGED notifying /\ InTimerCallback = {}
      BY <1>3, <2>2, <2>4 DEF NotifyTells, CallingInv
    <3>2. \A i \in 1 .. Len(stack) : stack[i].via # "timer"
      <4>1. DOMAIN stack = 1 .. Len(stack)
        BY DEF FrameInv
      <4> QED
        BY <3>1, <4>1 DEF InTimerCallback
    <3>3. /\ stack' \in Seq(Frames)
          /\ Len(stack') = Len(stack) + 1
          /\ \A i \in 1 .. Len(stack) : stack'[i] = stack[i]
          /\ stack'[Len(stack')].obj = calling.obj
      BY <2>1, <2>2, Pushed
    <3>4. Len(stack) \in Nat
      BY DEF FrameInv
    <3>5. \A i \in 1 .. Len(stack') : stack'[i].via = "timer" => i = Len(stack')
      BY <3>2, <3>3, <3>4
    <3> QED
      BY <3>1, <3>3, <3>5 DEF FrameInv
  <2> QED
    BY <2>2, <2>3, <2>4
<1>4. ASSUME NotifyFindsNothing PROVE FrameInv'
  <2>1. CASE calling.via = "timer"
    <3>1. notifying' = None /\ UNCHANGED stack /\ InTimerCallback = {}
      BY <1>4, <2>1 DEF NotifyFindsNothing, Asks, CallingInv, T!NotifyReturns
    <3>2. DOMAIN stack = 1 .. Len(stack)
      BY DEF FrameInv
    <3>3. \A i \in 1 .. Len(stack) : stack[i].via # "timer"
      BY <3>1, <3>2 DEF InTimerCallback
    <3> QED
      BY <3>1, <3>3 DEF FrameInv
  <2>2. CASE calling.via # "timer"
    BY <1>1, <1>4, <2>2 DEF NotifyFindsNothing
  <2> QED
    BY <2>1, <2>2
<1>5. ASSUME CallbackReturns PROVE FrameInv'
  <2>1. stack # <<>> /\ stack' = SubSeq(stack, 1, Len(stack) - 1)
    BY <1>5 DEF CallbackReturns
  <2>2. CASE stack[Len(stack)].via = "timer"
    <3>1. stack' \in Seq(Frames) /\ InTimerCallback' = {}
      BY <2>1, <2>2, Popped
    <3>2. \A i \in 1 .. Len(stack') : stack'[i].via # "timer"
      BY <2>1, <2>2, Popped, Framed DEF FrameInv
    <3> QED
      BY <3>1, <3>2 DEF FrameInv
  <2>3. CASE stack[Len(stack)].via # "timer"
    <3>1. UNCHANGED notifying
      BY <1>5, <2>3 DEF CallbackReturns
    <3> QED
      BY <2>1, <3>1, Popped DEF FrameInv
  <2> QED
    BY <2>2, <2>3
<1>6. ASSUME NEW o \in Objects, CallFails(o) PROVE FrameInv'
  BY <1>2, <1>6 DEF CallFails
<1>7. ASSUME NEW o \in Objects, RunReturns(o) PROVE UNCHANGED <<stack, notifying>>
  BY <1>7 DEF RunReturns
<1>8. ASSUME NEW o \in Objects,
             Construct(o) \/ Destroy(o) \/ GetNames(o) \/ Cancel(o) \/ CancelReturns(o)
             \/ Run(o) \/ RunDies(o)
      PROVE  UNCHANGED <<stack, notifying>>
  BY <1>8 DEF Construct, Destroy, GetNames, Destructor, T!Unsubscribe, Cancel, CancelReturns,
     Run, RunDies, objectVars
<1>9. ASSUME NEW o \in Objects, NotifyCalled(o) PROVE FrameInv'
  <2>1. notifying = None /\ UNCHANGED stack
    BY <1>9 DEF NotifyCalled, T!CallNotify
  <2>2. stack \in Seq(Frames) /\ \A f \in Frames : f.obj \in Objects
    BY DEF FrameInv, Frames
  <2>3. \A i \in 1 .. Len(stack) : stack[i].via # "timer"
    BY <2>1, <2>2 DEF FrameInv
  <2> QED
    BY <2>1, <2>3 DEF FrameInv
<1>10. ASSUME NEW s \in Objects, NEW d \in Objects, Copy(s, d) PROVE UNCHANGED <<stack, notifying>>
  BY <1>10 DEF Copy
<1>11. ASSUME NEW o \in Objects, NEW w \in Workers, Initialize(o, w) PROVE UNCHANGED <<stack, notifying>>
  BY <1>11 DEF Initialize
<1>12. ASSUME NEW o \in Objects, NEW t \in Threads, Start(o, t) PROVE UNCHANGED <<stack, notifying>>
  BY <1>12 DEF Start, T!Subscribe
<1>13. ASSUME TimerFires \/ WalkEnds PROVE UNCHANGED <<stack, notifying>>
  BY <1>13 DEF TimerFires, WalkEnds, T!TimerFire, T!EndWalk, objectVars
<1>14. ASSUME NEW t \in Threads, ThreadMoves(t) PROVE UNCHANGED <<stack, notifying>>
  BY <1>14 DEF ThreadMoves, objectVars
<1>15. UNCHANGED vars \/ NotifyFindsComplete => UNCHANGED <<stack, notifying>>
  BY DEF vars, objectVars, NotifyFindsComplete
<1> QED
  BY <1>1, <1>3, <1>4, <1>5, <1>6, <1>7, <1>8, <1>9, <1>10, <1>11, <1>12, <1>13, <1>14, <1>15
     DEF Next, Application, Methods, Timer, Notify

\* The worker threads leave alone what the main thread assigns.
LEMMA ThreadsLeave ==
    ASSUME NEW t \in Threads, W!ThreadStep(t)
    PROVE  UNCHANGED <<main, owner, handle, target>>
BY DEF W!ThreadStep, W!ThreadProceeds, W!LockWorker, W!AcquireWork, W!CheckRunning,
   W!MarkRunning, W!ReleaseWorker, W!UnlockWork, W!DelegateReturns, W!DelegateUnwinds,
   W!DelegateInterrupted, W!DelegateTerminates, W!RelockWorker, W!PublishResult,
   W!ReadCancelled, W!SetComplete, W!ClearRunning, W!Leave, W!workerVars, W!threadVars, W!flagVars

LEMMA DepthStep ==
    ASSUME TypeOK, FrameInv, DepthInv, CallingInv, T!LooseInv, [Next]_vars
    PROVE  DepthInv'
<1> USE DEF timerVars, objectVars, W!workerVars, W!threadVars, W!flagVars
<1>0. Len(stack) \in Nat /\ MaxDepth \in Nat /\ W!Idle[1] # "run" /\ W!Idle # <<>>
  BY DEF FrameInv, W!Idle
<1>1. ASSUME UNCHANGED <<stack, processing, main>> PROVE DepthInv'
  BY <1>1 DEF DepthInv, InTimerCallback
<1>2. ASSUME NEW o \in Objects,
             Construct(o) \/ Destroy(o) \/ GetNames(o) \/ RunDies(o) \/ NotifyCalled(o)
      PROVE  UNCHANGED <<stack, processing, main>>
  BY <1>2 DEF Construct, Destroy, GetNames, Destructor, T!Unsubscribe, W!Release, RunDies,
     W!RunTerminates, NotifyCalled, T!CallNotify, workerVars
<1>3. ASSUME NEW s \in Objects, NEW d \in Objects, Copy(s, d)
      PROVE  UNCHANGED <<stack, processing, main>>
  BY <1>3 DEF Copy, workerVars
<1>4. ASSUME NEW o \in Objects, NEW w \in Workers, Initialize(o, w)
      PROVE  UNCHANGED <<stack, processing, main>>
  BY <1>4 DEF Initialize, W!Assign
<1>5. ASSUME NEW o \in Objects, NEW t \in Threads, Start(o, t)
      PROVE  UNCHANGED <<stack, processing, main>>
  BY <1>5 DEF Start, T!Subscribe, W!Start
<1>6. ASSUME NEW t \in Threads, ThreadMoves(t) PROVE UNCHANGED <<stack, processing, main>>
  BY <1>6, ThreadsLeave DEF ThreadMoves
<1>7. ASSUME NEW o \in Objects, Cancel(o) \/ Run(o) PROVE DepthInv'
  <2>1. main = W!Idle /\ (processing => InTimerCallback # {}) /\ UNCHANGED <<stack, processing>>
    BY <1>7 DEF Cancel, Run, ApplicationTurn
  <2>2. InTimerCallback' = InTimerCallback
    BY <2>1 DEF InTimerCallback
  <2>3. CASE Cancel(o)
    <3>1. main' = <<"cancel", worker[o]>>
      BY <2>3 DEF Cancel, W!BeginCancel
    <3> QED
      BY <1>0, <2>1, <2>2, <3>1 DEF DepthInv
  <2>4. CASE Run(o)
    <3>1. Len(stack) < MaxDepth
      BY <2>4 DEF Run
    <3> QED
      BY <1>0, <2>1, <2>2, <3>1 DEF DepthInv
  <2> QED
    BY <1>7, <2>3, <2>4
<1>8. ASSUME NEW o \in Objects, CancelReturns(o) PROVE DepthInv'
  BY <1>8, <1>0 DEF CancelReturns, W!EndCancel, DepthInv, InTimerCallback
<1>9. ASSUME NEW o \in Objects, RunReturns(o) PROVE DepthInv'
  <2>1. main # W!Idle /\ main' = W!Idle /\ UNCHANGED <<processing, stack>>
    BY <1>9 DEF RunReturns, W!EndRun, W!Idle
  <2> QED
    BY <1>0, <2>1 DEF DepthInv, InTimerCallback
<1>10. ASSUME NEW o \in Objects, CallFails(o) PROVE DepthInv'
  <2>1. Len(stack') = Len(stack) + 1 /\ InTimerCallback' = InTimerCallback
    BY <1>10, Pushed DEF CallFails
  <2> QED
    BY <1>0, <1>10, <2>1 DEF CallFails, workerVars, ApplicationTurn, DepthInv
<1>11. ASSUME TimerFires PROVE DepthInv'
  BY <1>0, <1>11 DEF TimerFires, ApplicationTurn, workerVars, DepthInv, InTimerCallback
<1>12. ASSUME NotifyTells PROVE DepthInv'
  <2>1. PICK event \in Events : Push(calling.obj, calling.via, event)
    BY <1>12 DEF NotifyTells, Events
  <2>2. calling.obj \in Objects /\ calling.via \in {"timer", "run"} /\ UNCHANGED <<processing, main>>
    BY <1>12 DEF NotifyTells, TypeOK, Calls, workerVars
  <2>3. main = W!Idle /\ Len(stack) < MaxDepth
    BY <2>2 DEF CallingInv
  <2>4. /\ Len(stack') = Len(stack) + 1
        /\ calling.via = "timer" => calling.obj \in InTimerCallback'
        /\ calling.via = "run" => InTimerCallback' = InTimerCallback
    BY <2>1, <2>2, Pushed
  <2>5. processing' => InTimerCallback' # {}
    BY <2>2, <2>4 DEF CallingInv
  <2> QED
    BY <1>0, <2>2, <2>3, <2>4, <2>5 DEF DepthInv
<1>13. ASSUME CallbackReturns PROVE DepthInv'
  <2>1. Len(stack') = Len(stack) - 1
    BY <1>13, Popped DEF CallbackReturns
  <2>2. main = W!Idle /\ UNCHANGED main
    BY <1>13 DEF CallbackReturns, ApplicationTurn, workerVars
  <2> QED
    BY <1>0, <2>1, <2>2 DEF DepthInv
<1>14. ASSUME WalkEnds PROVE DepthInv'
  BY <1>14 DEF WalkEnds, T!EndWalk, workerVars, DepthInv
<1>15. UNCHANGED vars => UNCHANGED <<stack, processing, main>>
  BY DEF vars, workerVars
<1>16. NotifyFindsNothing \/ NotifyFindsComplete => UNCHANGED <<stack, processing, main>>
  BY DEF NotifyFindsNothing, NotifyFindsComplete, T!NotifyReturns, workerVars
<1> QED
  BY <1>1, <1>2, <1>3, <1>4, <1>5, <1>6, <1>7, <1>8, <1>9, <1>10, <1>11, <1>12, <1>13, <1>14,
     <1>15, <1>16 DEF Next, Application, Methods, Timer, Notify

\* Inside notify() the main thread does nothing else: only the threads move.
LEMMA CallingStep ==
    ASSUME TypeOK, FrameInv, DepthInv, CallingInv, T!LooseInv, [Next]_vars
    PROVE  CallingInv' /\ (calling.obj # None /\ UNCHANGED calling =>
                               UNCHANGED vars \/ \E t \in Threads : ThreadMoves(t))
<1> DEFINE Idles == UNCHANGED vars \/ \E t \in Threads : ThreadMoves(t)
           Kept == CallingInv' /\ (calling.obj # None /\ UNCHANGED calling => Idles)
<1>1. /\ calling \in Calls
      /\ InTimerCallback \subseteq {notifying} /\ InTimerCallback \subseteq Objects
      /\ W!Idle # <<>> /\ W!Idle[1] = "idle"
  BY Framed DEF TypeOK, W!Idle
<1>2. ASSUME UNCHANGED calling, calling.obj = None PROVE Kept
  BY <1>2 DEF CallingInv
<1>3. ASSUME ApplicationTurn, UNCHANGED calling PROVE Kept
  BY <1>2, <1>3 DEF ApplicationTurn
<1> USE DEF objectVars, timerVars
<1>4. ASSUME NEW o \in Objects,
             Construct(o) \/ Destroy(o) \/ GetNames(o) \/ CallFails(o) \/ Cancel(o) \/ Run(o)
      PROVE  ApplicationTurn /\ UNCHANGED calling
  BY <1>4 DEF Construct, Destroy, GetNames, CallFails, Cancel, Run
<1>5. ASSUME NEW s \in Objects, NEW d \in Objects, Copy(s, d)
      PROVE  ApplicationTurn /\ UNCHANGED calling
  BY <1>5 DEF Copy
<1>6. ASSUME NEW o \in Objects, NEW w \in Workers, Initialize(o, w)
      PROVE  ApplicationTurn /\ UNCHANGED calling
  BY <1>6 DEF Initialize
<1>7. ASSUME NEW o \in Objects, NEW t \in Threads, Start(o, t)
      PROVE  ApplicationTurn /\ UNCHANGED calling
  BY <1>7 DEF Start
<1>8. ASSUME TimerFires \/ CallbackReturns PROVE ApplicationTurn /\ UNCHANGED calling
  BY <1>8 DEF TimerFires, CallbackReturns
<1>9. ASSUME NEW o \in Objects, CancelReturns(o) \/ RunDies(o) PROVE Kept
  <2>1. main # W!Idle /\ UNCHANGED calling
    BY <1>9 DEF CancelReturns, RunDies, W!EndCancel, W!RunTerminates, W!Idle
  <2> QED
    BY <1>2, <2>1 DEF CallingInv
<1>10. ASSUME NEW o \in Objects, RunReturns(o) PROVE Kept
  <2>1. /\ main[1] = "run" /\ main # W!Idle /\ main' = W!Idle
        /\ calling' = [obj |-> o, via |-> "run", found |-> FALSE]
        /\ UNCHANGED <<stack, processing>>
    BY <1>10 DEF RunReturns, W!EndRun, W!Idle
  <2>2. Len(stack) < MaxDepth /\ (processing => InTimerCallback # {})
    BY <2>1 DEF DepthInv
  <2>3. calling.obj = None
    BY <2>1 DEF CallingInv
  <2> QED
    BY <2>1, <2>2, <2>3 DEF CallingInv, InTimerCallback
<1>11. ASSUME NEW o \in Objects, NotifyCalled(o) PROVE Kept
  <2>1. /\ processing /\ notifying = None /\ notifying' = o
        /\ calling' = [obj |-> o, via |-> "timer", found |-> FALSE]
        /\ UNCHANGED <<stack, main>>
    BY <1>11 DEF NotifyCalled, T!CallNotify, workerVars
  <2>2. InTimerCallback = {}
    BY <1>1, <2>1
  <2>3. main = W!Idle /\ Len(stack) < MaxDepth
    BY <2>1, <2>2 DEF DepthInv
  <2>4. calling.obj = None
    BY <1>1, <2>1, <2>2 DEF CallingInv, Calls
  <2> QED
    BY <2>1, <2>2, <2>3, <2>4 DEF CallingInv, InTimerCallback
<1>12. ASSUME NotifyFindsComplete PROVE Kept
  <2>1. /\ calling.obj # None /\ ~calling.found /\ calling' = [calling EXCEPT !.found = TRUE]
        /\ UNCHANGED <<stack, main, processing, notifying>>
    BY <1>12 DEF NotifyFindsComplete, Asks, workerVars
  <2>2. calling'.obj = calling.obj /\ calling'.via = calling.via /\ calling' # calling
    BY <1>1, <2>1 DEF Calls
  <2> QED
    BY <2>1, <2>2 DEF CallingInv, InTimerCallback
<1>13. ASSUME NotifyTells \/ NotifyFindsNothing PROVE Kept
  <2>1. calling.obj # None /\ calling' = Nobody
    BY <1>13 DEF NotifyTells, NotifyFindsNothing, Asks
  <2> QED
    BY <2>1 DEF CallingInv, Nobody
<1>14. ASSUME WalkEnds PROVE Kept
  <2>1. processing /\ cursor = End /\ UNCHANGED calling
    BY <1>14 DEF WalkEnds, T!EndWalk
  <2>2. calling.obj # None => notifying \in Objects
    BY <1>1, <2>1 DEF CallingInv, Calls
  <2>3. notifying \notin Objects
    BY <2>1 DEF T!LooseInv
  <2> QED
    BY <1>2, <2>1, <2>2, <2>3
<1>15. ASSUME Idles PROVE Kept
  <2>1. UNCHANGED <<calling, main, stack, processing, notifying>>
    BY <1>15, ThreadsLeave DEF ThreadMoves, vars, workerVars
  <2> QED
    BY <1>15, <2>1 DEF CallingInv, InTimerCallback
<1> HIDE DEF Kept
<1>16. Kept
  BY <1>3, <1>4, <1>5, <1>6, <1>7, <1>8, <1>9, <1>10, <1>11, <1>12, <1>13, <1>14, <1>15
     DEF Next, Application, Methods, Timer, Notify
<1> QED
  BY <1>16 DEF Kept

LEMMA OwnStep ==
    ASSUME TypeOK, T!LooseInv, OwnInv, [Next]_vars
    PROVE  OwnInv'
<1> USE DEF OwnInv, WorkersAreNotShared, WatchedHasWorker, timerVars, objectVars, workerVars
<1>1. ASSUME UNCHANGED <<alive, worker, owner>>, subscribers' \subseteq subscribers PROVE OwnInv'
  BY <1>1
<1>2. ASSUME NEW o \in Objects, o \notin alive, Create(o), UNCHANGED <<owner, subscribers>>
      PROVE  OwnInv'
  <2>1. alive' = alive \cup {o} /\ o \notin subscribers
    BY <1>2 DEF Create
  <2>2. worker'[o] = None /\ \A p \in alive : worker'[p] = worker[p]
    BY <1>2 DEF Create, TypeOK
  <2>3. \A p \in alive' : worker'[p] # None => p \in alive /\ worker'[p] = worker[p]
    BY <2>1, <2>2
  <2> QED
    BY <1>2, <2>1, <2>2, <2>3
<1>3. ASSUME NEW o \in Objects, Construct(o) PROVE OwnInv'
  BY <1>2, <1>3 DEF Construct
<1>4. ASSUME NEW s \in Objects, NEW d \in Objects, Copy(s, d) PROVE OwnInv'
  BY <1>1, <1>2, <1>4 DEF Copy
<1>5. ASSUME NEW o \in Objects, Destroy(o) PROVE OwnInv'
  <2>1. /\ alive' = alive \ {o} /\ UNCHANGED worker
        /\ subscribers' = subscribers \ {o}
    BY <1>5 DEF Destroy, Destructor, T!Unsubscribe
  <2>2. \A p \in alive' : worker[p] # None => owner'[worker[p]] = owner[worker[p]]
    BY <1>5, <2>1 DEF Destroy, Destructor, HasWorker, W!Release, TypeOK, W!TypeOK
  <2> QED
    BY <2>1, <2>2
<1>6. ASSUME NEW o \in Objects, GetNames(o) PROVE OwnInv'
  BY <1>1, <1>6 DEF GetNames, Destructor, HasWorker, T!Unsubscribe
<1>7. ASSUME NEW o \in Objects, NEW w \in Workers, Initialize(o, w) PROVE OwnInv'
  <2>1. /\ worker' = [worker EXCEPT ![o] = w]
        /\ owner[w] = "unborn" /\ owner'[w] = "owned"
        /\ \A x \in Workers : x # w /\ x # worker[o] => owner'[x] = owner[x]
        /\ UNCHANGED <<alive, subscribers>>
    BY <1>7 DEF Initialize, W!Assign, TypeOK, W!TypeOK
  <2>2. \A p \in alive : worker[p] # w
    BY <2>1 DEF TypeOK
  <2>3. o \in alive
    BY <1>7 DEF Initialize
  <2>4. \A p \in alive : worker'[p] = IF p = o THEN w ELSE worker[p]
    BY <2>1 DEF TypeOK
  <2>5. \A p \in alive : worker'[p] # None => owner'[worker'[p]] = "owned"
    <3> SUFFICES ASSUME NEW p \in alive, p # o, worker[p] # None
                 PROVE  owner'[worker[p]] = owner[worker[p]]
      BY <2>1, <2>3, <2>4
    <3>1. worker[p] \in Workers
      BY DEF TypeOK
    <3> QED
      BY <2>1, <2>2, <2>3, <3>1
  <2> QED
    BY <2>1, <2>2, <2>4, <2>5 DEF TypeOK
<1>8. ASSUME NEW o \in Objects, NEW t \in Threads, Start(o, t) PROVE OwnInv'
  BY <1>8 DEF Start, HasWorker, T!Subscribe, W!Start
<1>9. ASSUME NEW o \in Objects,
             CallFails(o) \/ Cancel(o) \/ CancelReturns(o) \/ Run(o) \/ RunReturns(o) \/ RunDies(o)
             \/ NotifyCalled(o)
      PROVE  UNCHANGED <<alive, worker, owner, subscribers>>
  BY <1>9 DEF CallFails, Cancel, CancelReturns, Run, RunReturns, RunDies, NotifyCalled,
     T!CallNotify, W!BeginCancel, W!EndCancel, W!BeginRun, W!EndRun,
     W!RunTerminates, W!workerVars
<1>10. ASSUME TimerFires \/ NotifyFindsComplete \/ NotifyTells \/ NotifyFindsNothing
              \/ CallbackReturns \/ WalkEnds
       PROVE  UNCHANGED <<alive, worker, owner>> /\ subscribers' \subseteq subscribers
  BY <1>10 DEF TimerFires, NotifyFindsComplete, NotifyTells, NotifyFindsNothing, CallbackReturns, WalkEnds, T!TimerFire,
     T!NotifyReturns, T!EndWalk
<1>11. ASSUME NEW t \in Threads, ThreadMoves(t) PROVE UNCHANGED <<alive, worker, owner, subscribers>>
  BY <1>11, ThreadsLeave DEF ThreadMoves
<1>12. UNCHANGED vars => UNCHANGED <<alive, worker, owner, subscribers>>
  BY DEF vars
<1> QED
  BY <1>1, <1>3, <1>4, <1>5, <1>6, <1>7, <1>8, <1>9, <1>10, <1>11, <1>12
     DEF Next, Application, Methods, Timer, Notify

LEMMA TypesOfObjects ==
    ASSUME TypeOK, T!LooseInv, [Next]_vars
    PROVE  /\ alive' \subseteq Objects
           /\ worker' \in [Objects -> Workers \cup {None}]
           /\ awaiting' \subseteq Objects
           /\ calling' \in Calls
<1> DEFINE Typed == /\ alive' \subseteq Objects
                    /\ worker' \in [Objects -> Workers \cup {None}]
                    /\ awaiting' \subseteq Objects
                    /\ calling' \in Calls
<1>1. /\ alive \subseteq Objects /\ worker \in [Objects -> Workers \cup {None}]
      /\ awaiting \subseteq Objects /\ calling \in Calls
      /\ Nobody \in Calls /\ [calling EXCEPT !.found = TRUE] \in Calls
      /\ \A o \in Objects, via \in {"timer", "run"} : [obj |-> o, via |-> via, found |-> FALSE] \in Calls
  BY DEF TypeOK, Nobody, Calls
<1>2. ASSUME alive' \subseteq Objects, awaiting' \subseteq Objects, UNCHANGED <<worker, calling>>
      PROVE  Typed
  BY <1>1, <1>2
<1> USE DEF objectVars
<1>3. ASSUME NEW o \in Objects,
             Construct(o) \/ Destroy(o) \/ GetNames(o) \/ CallFails(o) \/ Cancel(o) \/ CancelReturns(o)
             \/ Run(o) \/ RunReturns(o) \/ RunDies(o) \/ NotifyCalled(o)
      PROVE  Typed
  <2>1. /\ alive' \in {alive, alive \cup {o}, alive \ {o}}
        /\ worker' \in {worker, [worker EXCEPT ![o] = None]}
        /\ awaiting' \in {awaiting, awaiting \ {o}}
        /\ calling' \in Calls
    BY <1>1, <1>3 DEF Construct, Create, Destroy, GetNames, CallFails, Cancel, CancelReturns, Run,
       RunReturns, RunDies, NotifyCalled
  <2> QED
    BY <1>1, <2>1
<1>4. ASSUME NEW s \in Objects, NEW d \in Objects, Copy(s, d) PROVE Typed
  BY <1>1, <1>4 DEF Copy, Create
<1>5. ASSUME NEW o \in Objects, NEW w \in Workers, Initialize(o, w) PROVE Typed
  BY <1>1, <1>5 DEF Initialize
<1>6. ASSUME NEW o \in Objects, NEW t \in Threads, Start(o, t) PROVE Typed
  BY <1>1, <1>2, <1>6 DEF Start
<1>7. ASSUME TimerFires \/ CallbackReturns \/ WalkEnds PROVE Typed
  BY <1>1, <1>2, <1>7 DEF TimerFires, CallbackReturns, WalkEnds
<1>8. ASSUME NotifyFindsComplete \/ NotifyTells \/ NotifyFindsNothing PROVE Typed
  <2>1. UNCHANGED <<alive, worker>> /\ awaiting' \subseteq awaiting /\ calling' \in Calls
    BY <1>1, <1>8 DEF NotifyFindsComplete, NotifyTells, NotifyFindsNothing
  <2> QED
    BY <1>1, <2>1
<1>9. ASSUME NEW t \in Threads, ThreadMoves(t) PROVE Typed
  BY <1>1, <1>2, <1>9 DEF ThreadMoves
<1>10. ASSUME UNCHANGED vars PROVE Typed
  BY <1>1, <1>2, <1>10 DEF vars
<1> HIDE DEF Typed
<1>11. Typed
  BY <1>3, <1>4, <1>5, <1>6, <1>7, <1>8, <1>9, <1>10 DEF Next, Application, Methods, Timer, Notify
<1> QED
  BY <1>11 DEF Typed

\* A stack that is not too deep is one of those the type invariant allows.
LEMMA StackType ==
    ASSUME NEW s \in Seq(Frames), Len(s) <= MaxDepth
    PROVE  s \in UNION {[1 .. n -> Frames] : n \in 0 .. MaxDepth}
<1>1. s \in [1 .. Len(s) -> Frames] /\ Len(s) \in 0 .. MaxDepth
  OBVIOUS
<1>2. \E n \in 0 .. MaxDepth : s \in [1 .. n -> Frames]
  BY <1>1, Zenon
<1> QED
  BY <1>2, Zenon

LEMMA ObjectStep == ObjectInv /\ [Next]_vars => ObjectInv'
<1> SUFFICES ASSUME ObjectInv, [Next]_vars PROVE ObjectInv'
  OBVIOUS
<1>1. TypeOK /\ FrameInv /\ DepthInv /\ CallingInv /\ T!LooseInv /\ OwnInv
  BY DEF ObjectInv
<1>2. FrameInv' /\ DepthInv' /\ CallingInv' /\ OwnInv'
  BY <1>1, FrameStep, DepthStep, CallingStep, OwnStep
<1>3. T!LooseInv'
  BY <1>1, ActionIsTimers, TimerLoose
<1>4. W!TypeOK'
  BY <1>1, ActionIsWorkers, WorkerTypes DEF TypeOK
<1>5. stack' \in UNION {[1 .. n -> Frames] : n \in 0 .. MaxDepth}
  BY <1>2, StackType DEF FrameInv, DepthInv
<1>6. TypeOK'
  BY <1>1, <1>3, <1>4, <1>5, TypesOfObjects DEF TypeOK, T!LooseInv
<1> QED
  BY <1>2, <1>3, <1>6 DEF ObjectInv

LEMMA ObjectInit == Init => ObjectInv
<1> SUFFICES ASSUME Init PROVE ObjectInv
  OBVIOUS
<1> USE DEF Init
<1>1. Len(stack) = 0 /\ stack \in Seq(Frames)
  OBVIOUS
<1>2. T!LooseInv
  BY DEF T!Init, T!LooseInv, T!TypeOK, T!ArmedWhileSubscribed
<1>3. W!TypeOK
  BY DEF W!Init, W!TypeOK, W!Idle, W!MainOps, W!Faults, W!Pcs
<1>4. TypeOK
  BY <1>1, <1>2, <1>3, StackType DEF TypeOK, T!LooseInv, Calls, Nobody
<1>5. FrameInv
  BY <1>1 DEF FrameInv
<1>6. DepthInv
  BY <1>1, <1>2 DEF DepthInv, T!Init, W!Init, W!Idle
<1>7. OwnInv
  BY DEF OwnInv, WorkersAreNotShared, WatchedHasWorker, T!Init
<1>8. CallingInv
  BY DEF CallingInv, Nobody
<1> QED
  BY <1>2, <1>4, <1>5, <1>6, <1>7, <1>8 DEF ObjectInv

\* What ObjectInv says holds of any application: ill-mannered ones that destroy an
\* object inside its own callback included.
THEOREM ObjectInvariance == Spec => []ObjectInv
BY ObjectInit, ObjectStep, PTL DEF Spec

\* Every variable keeps to its type: the stack never outgrows its bound, the walk's
\* position and the threads' stay among those there are.
THEOREM TypeCorrect == Spec => []TypeOK
<1>1. ObjectInv => TypeOK
  BY DEF ObjectInv
<1> QED
  BY <1>1, ObjectInvariance, PTL

\* notify() never meets an object without a worker (NVObjHTTPWorker.cpp:287), for
\* whatever the application constructs, copies, destroys and calls in its callbacks.
THEOREM NotifyFindsAWorker == Spec => []WatchedHasWorker
<1>1. ObjectInv => WatchedHasWorker
  BY DEF ObjectInv, OwnInv
<1> QED
  BY <1>1, ObjectInvariance, PTL

\* No copy of an object shares its worker.
THEOREM NoWorkerIsShared == Spec => []WorkersAreNotShared
<1>1. ObjectInv => WorkersAreNotShared
  BY DEF ObjectInv, OwnInv
<1> QED
  BY <1>1, ObjectInvariance, PTL

-----------------------------------------------------------------------------
(* What a courteous application adds *)

LEMMA CourteousInit == Init => CourteousInv
<1> SUFFICES ASSUME Init PROVE CourteousInv
  OBVIOUS
<1> USE DEF Init
<1>1. stack = <<>> /\ DOMAIN stack = {}
  OBVIOUS
<1>2. InCallback = {} /\ InTimerCallback = {}
  BY <1>1 DEF InCallback, InTimerCallback
<1>3. WatchedIsAlive /\ AwaitingIsWatched
  BY <1>2 DEF WatchedIsAlive, AwaitingIsWatched, T!Init
<1>4. T!IInv
  BY DEF T!Init, T!IInv, T!TypeOK, T!ArmedWhileSubscribed, T!CursorIsEntry
<1>5. WP!Init
  BY DEF W!Init, WP!Init, W!Idle, WP!Idle
<1>6. WP!BackgroundInv /\ WP!OnceInv
  BY <1>5, WP!OnceInit
<1>7. W!BackgroundInv /\ W!OnceInv
  BY <1>6 DEF
       W!TypeOK, WP!TypeOK, W!Critical, WP!Critical, W!Finishing, WP!Finishing, W!Delegated,
       WP!Delegated, W!Runner, WP!Runner, W!Pcs, WP!Pcs, W!Idle, WP!Idle, W!MainOps,
       WP!MainOps, W!Faults, WP!Faults, W!Holding, WP!Holding, W!Holders, WP!Holders,
       W!Alive, WP!Alive, W!RunningHasRunner, WP!RunningHasRunner,
       W!ResultBelongsToFinisher, WP!ResultBelongsToFinisher, W!BelongInv, WP!BelongInv,
       W!WorkInv, WP!WorkInv, W!RunnerInv, WP!RunnerInv, W!CancelInv, WP!CancelInv, W!Ended,
       WP!Ended, W!MutexHasHolder, WP!MutexHasHolder, W!SilenceInv, WP!SilenceInv,
       W!CallInv, WP!CallInv, W!IInv,
       WP!IInv, W!StartedInv, WP!StartedInv, W!BackgroundInv, WP!BackgroundInv, W!OnceInv,
       WP!OnceInv
<1> QED
  BY <1>3, <1>4, <1>7, ObjectInit DEF CourteousInv, FoundInv, Nobody

\* No object leaves the map inside its own notify().
LEMMA CourteousStays ==
    ASSUME ObjectInv, [Next /\ Courteous]_vars
    PROVE  [T!Next /\ T!NotifiedStays]_(T!vars)
<1>1. FrameInv /\ T!LooseInv /\ OwnInv /\ TypeOK
  BY DEF ObjectInv
<1>2. [T!Next]_(T!vars)
  BY <1>1, ActionIsTimers
<1> DEFINE Keeps == subscribers \subseteq subscribers'
<1>3. Keeps \/ notifying' = None => T!NotifiedStays
  BY DEF T!NotifiedStays
<1> USE DEF timerVars
<1>4. ASSUME NEW o \in Objects, Destroy(o), Courteous PROVE T!NotifiedStays
  <2>1. subscribers' = subscribers \ {o} /\ notifying' = notifying
    BY <1>4 DEF Destroy, Destructor, T!Unsubscribe
  <2>2. notifying # None => notifying \in InCallback
    BY <1>1, <1>4, TurnIsTheirs, Framed DEF Destroy
  <2>3. o \notin InCallback
    BY <1>4 DEF Destroy, Courteous
  <2> QED
    BY <2>1, <2>2, <2>3 DEF T!NotifiedStays
<1>5. ASSUME NEW o \in Objects, GetNames(o) PROVE Keeps
  BY <1>1, <1>5 DEF GetNames, Destructor, T!Unsubscribe, OwnInv
<1>6. ASSUME NEW o \in Objects,
             Construct(o) \/ CallFails(o) \/ Cancel(o) \/ CancelReturns(o) \/ Run(o)
             \/ RunReturns(o) \/ RunDies(o) \/ NotifyCalled(o)
      PROVE  Keeps
  BY <1>6 DEF Construct, CallFails, Cancel, CancelReturns, Run, RunReturns, RunDies,
     NotifyCalled, T!CallNotify
<1>7. ASSUME NEW s \in Objects, NEW d \in Objects, Copy(s, d) PROVE Keeps
  BY <1>7 DEF Copy
<1>8. ASSUME NEW o \in Objects, NEW w \in Workers, Initialize(o, w) PROVE Keeps
  BY <1>8 DEF Initialize
<1>9. ASSUME NEW o \in Objects, NEW t \in Threads, Start(o, t) PROVE Keeps
  BY <1>9 DEF Start, T!Subscribe
<1>10. TimerFires \/ WalkEnds => Keeps
  BY DEF TimerFires, WalkEnds, T!TimerFire, T!EndWalk
<1>11. NotifyFindsComplete \/ NotifyTells \/ NotifyFindsNothing \/ CallbackReturns
         => Keeps \/ notifying' = None
  BY DEF NotifyFindsComplete, NotifyTells, NotifyFindsNothing, CallbackReturns, T!NotifyReturns
<1>12. ASSUME NEW t \in Threads, ThreadMoves(t) PROVE Keeps
  BY <1>12 DEF ThreadMoves
<1>13. UNCHANGED vars => Keeps
  BY DEF vars
<1> HIDE DEF Keeps
<1> QED
  BY <1>2, <1>3, <1>4, <1>5, <1>6, <1>7, <1>8, <1>9, <1>10, <1>11, <1>12, <1>13
     DEF Next, Application, Methods, Timer, Notify

\* No worker is started twice, or run in the foreground after its start.
LEMMA CourteousOnce ==
    ASSUME TypeOK, W!BackgroundInv, [Next /\ Courteous]_vars
    PROVE  [W!Next /\ W!OnceStep]_(W!vars)
<1> USE DEF workerVars
<1>1. [W!Next]_(W!vars)
  BY ActionIsWorkers
<1>2. /\ W!TypeOK
      /\ \A w \in Workers : main = <<"run", w>> => handle[w] = None
      /\ \A w \in Workers : W!Idle # <<"run", w>> /\ handle \in [Workers -> Threads \cup {None}]
  BY DEF TypeOK, W!BackgroundInv, W!StartedInv, W!Idle, W!TypeOK
<1>3. UNCHANGED <<main, handle>> => W!OnceStep
  BY <1>2 DEF W!OnceStep, W!BackgroundOnly
<1>4. main' = W!Idle /\ UNCHANGED handle => W!OnceStep
  BY <1>2 DEF W!OnceStep, W!BackgroundOnly
<1>5. ASSUME NEW o \in Objects,
             Construct(o) \/ CallFails(o) \/ RunDies(o) \/ Destroy(o) \/ GetNames(o)
             \/ NotifyCalled(o)
      PROVE  UNCHANGED <<main, handle>>
  BY <1>5 DEF Construct, CallFails, RunDies, Destroy, GetNames, Destructor, NotifyCalled,
     W!Release, W!RunTerminates, W!workerVars
<1>6. ASSUME NEW s \in Objects, NEW d \in Objects, Copy(s, d) PROVE UNCHANGED <<main, handle>>
  BY <1>6 DEF Copy
<1>7. ASSUME NEW o \in Objects, NEW w \in Workers, Initialize(o, w) PROVE UNCHANGED <<main, handle>>
  BY <1>7 DEF Initialize, W!Assign
<1>8. ASSUME NEW o \in Objects, CancelReturns(o) \/ RunReturns(o)
      PROVE  main' = W!Idle /\ UNCHANGED handle
  BY <1>8 DEF CancelReturns, RunReturns, W!EndCancel, W!EndRun, W!workerVars
<1>9. ASSUME NEW o \in Objects, Cancel(o) PROVE W!OnceStep
  BY <1>9 DEF Cancel, W!BeginCancel, W!OnceStep, W!BackgroundOnly
<1>10. ASSUME NEW o \in Objects, Run(o), Courteous PROVE W!OnceStep
  <2>1. o \in alive /\ worker[o] # None /\ main' = <<"run", worker[o]>> /\ UNCHANGED handle
    BY <1>10 DEF Run, HasWorker, W!BeginRun, W!workerVars
  <2>2. handle[worker[o]] = None
    BY <1>10, <2>1 DEF Courteous
  <2> QED
    BY <2>1, <2>2 DEF W!OnceStep, W!BackgroundOnly
<1>11. ASSUME NEW o \in Objects, NEW t \in Threads, Start(o, t), Courteous PROVE W!OnceStep
  <2>1. o \in alive /\ worker[o] # None /\ W!Start(worker[o], t)
    BY <1>11 DEF Start, HasWorker
  <2>2. handle'[worker[o]] # handle[worker[o]] => handle[worker[o]] = None
    BY <1>11, <2>1 DEF Courteous
  <2>3. UNCHANGED main /\ \A w \in Workers : w # worker[o] => handle'[w] = handle[w]
    BY <1>2, <2>1 DEF W!Start
  <2> QED
    BY <1>2, <2>2, <2>3 DEF W!OnceStep, W!BackgroundOnly
<1>12. ASSUME NEW t \in Threads, ThreadMoves(t) PROVE UNCHANGED <<main, handle>>
  BY <1>12, ThreadsLeave DEF ThreadMoves
<1>13. TimerFires \/ NotifyFindsComplete \/ NotifyTells \/ NotifyFindsNothing \/ CallbackReturns
       \/ WalkEnds \/ UNCHANGED vars
         => UNCHANGED <<main, handle>>
  BY DEF TimerFires, NotifyFindsComplete, NotifyTells, NotifyFindsNothing, CallbackReturns, WalkEnds, vars
<1> QED
  BY <1>1, <1>3, <1>4, <1>5, <1>6, <1>7, <1>8, <1>9, <1>10, <1>11, <1>12, <1>13
     DEF Next, Application, Methods, Timer, Notify

\* What a step does to those who wait: it leaves them alone, or is one of the four
\* of the promise.
LEMMA Effect ==
    ASSUME ObjectInv, FoundInv, T!IInv, WatchedIsAlive, AwaitingIsWatched, [Next /\ Courteous]_vars
    PROVE  [Promise!Next]_(Promise!vars) /\ WatchedIsAlive' /\ AwaitingIsWatched'
<1> DEFINE Effected == [Promise!Next]_(Promise!vars) /\ WatchedIsAlive' /\ AwaitingIsWatched'
           Waiting == subscribers \ InTimerCallback
<1> USE DEF WatchedIsAlive, AwaitingIsWatched
<1>1. /\ TypeOK /\ FrameInv /\ T!LooseInv /\ OwnInv
      /\ InTimerCallback \subseteq InCallback
      /\ InTimerCallback \subseteq {notifying}
      /\ InCallback \subseteq Objects
      /\ subscribers \subseteq Objects
  BY Framed DEF ObjectInv, T!LooseInv, T!TypeOK
<1>2. ASSUME UNCHANGED <<subscribers, awaiting, InTimerCallback>>,
             subscribers \cup InCallback' \subseteq alive'
      PROVE  Effected
  BY <1>2 DEF Promise!vars
<1>3. ASSUME UNCHANGED <<stack, subscribers, awaiting>>, alive \subseteq alive' PROVE Effected
  <2>1. UNCHANGED <<InCallback, InTimerCallback>>
    BY <1>3 DEF InCallback, InTimerCallback
  <2> QED
    BY <1>2, <1>3, <2>1
<1> USE DEF timerVars, objectVars
<1>4. ASSUME NEW o \in Objects,
             Construct(o) \/ Cancel(o) \/ CancelReturns(o) \/ Run(o) \/ RunReturns(o) \/ RunDies(o)
             \/ NotifyCalled(o)
      PROVE  Effected
  <2>1. UNCHANGED <<stack, subscribers, awaiting>> /\ alive \subseteq alive'
    BY <1>4 DEF Construct, Create, Cancel, CancelReturns, Run, RunReturns, RunDies, NotifyCalled, T!CallNotify
  <2> QED
    BY <1>3, <2>1
<1>5. ASSUME NEW s \in Objects, NEW d \in Objects, Copy(s, d) PROVE Effected
  BY <1>3, <1>5 DEF Copy, Create
<1>6. ASSUME NEW o \in Objects, Destroy(o), Courteous PROVE Effected
  <2>1. /\ UNCHANGED <<InCallback, InTimerCallback>>
        /\ subscribers' = subscribers \ {o} /\ awaiting' = awaiting \ {o} /\ alive' = alive \ {o}
        /\ o \in alive
    BY <1>6 DEF Destroy, Destructor, T!Unsubscribe, InCallback, InTimerCallback
  <2>2. o \notin InCallback
    BY <1>6, <2>1 DEF Courteous
  <2>3. WatchedIsAlive' /\ AwaitingIsWatched' /\ Waiting' = Waiting \ {o}
    BY <2>1, <2>2, <1>1
  <2>4. [Promise!Next]_(Promise!vars)
    <3>1. CASE o \in Waiting
      <4>1. Promise!Withdraw(o)
        BY <2>1, <2>3, <3>1 DEF Promise!Withdraw
      <4> QED
        BY <4>1 DEF Promise!Next
    <3>2. CASE o \notin Waiting
      <4>1. Waiting' = Waiting
        BY <2>3, <3>2
      <4> QED
        BY <2>1, <4>1 DEF Promise!vars
    <3> QED
      BY <3>1, <3>2
  <2> QED
    BY <2>3, <2>4
<1>7. ASSUME NEW o \in Objects, GetNames(o) PROVE Effected
  <2>1. subscribers' = subscribers \ {o} /\ o \notin alive /\ UNCHANGED <<stack, awaiting, alive>>
    BY <1>7 DEF GetNames, Destructor, T!Unsubscribe
  <2>2. UNCHANGED subscribers
    BY <2>1, <1>1
  <2> QED
    BY <1>3, <2>1, <2>2
<1>8. ASSUME NEW o \in Objects, CallFails(o) PROVE Effected
  <2>1. InCallback' = InCallback \cup {o} /\ UNCHANGED InTimerCallback
    BY <1>1, <1>8, Pushed DEF CallFails
  <2> QED
    BY <1>2, <1>8, <2>1 DEF CallFails
<1>9. ASSUME NEW o \in Objects, NEW w \in Workers, Initialize(o, w), Courteous PROVE Effected
  <2>1. worker'[o] = w /\ owner[w] = "unborn" /\ o \in alive /\ awaiting' = awaiting \ {o}
    BY <1>1, <1>9 DEF Initialize, W!Assign, TypeOK
  <2>2. worker[o] # w
    BY <1>1, <2>1 DEF OwnInv
  <2>3. o \notin awaiting
    BY <1>9, <2>1, <2>2 DEF Courteous
  <2> QED
    BY <1>3, <1>9, <2>1, <2>3 DEF Initialize
<1>10. ASSUME NEW o \in Objects, NEW t \in Threads, Start(o, t), Courteous PROVE Effected
  <2>1. /\ UNCHANGED <<InCallback, InTimerCallback, alive>>
        /\ subscribers' = subscribers \cup {o} /\ awaiting' = awaiting \cup {o}
        /\ o \in alive
    BY <1>10 DEF Start, HasWorker, T!Subscribe, InCallback, InTimerCallback
  <2>2. o \notin InTimerCallback
    <3>1. CASE o \in awaiting
      BY <3>1
    <3>2. CASE o \notin awaiting
      BY <1>1, <1>10, <2>1, <3>2 DEF Courteous
    <3> QED
      BY <3>1, <3>2
  <2>3. WatchedIsAlive' /\ AwaitingIsWatched' /\ Waiting' = Waiting \cup {o}
    BY <2>1, <2>2
  <2>4. [Promise!Next]_(Promise!vars)
    <3>1. CASE o \in Waiting
      BY <2>1, <2>3, <3>1 DEF Promise!vars
    <3>2. CASE o \notin Waiting
      <4>1. Promise!Ask(o)
        BY <2>1, <2>2, <2>3, <3>2 DEF Promise!Ask
      <4> QED
        BY <4>1 DEF Promise!Next
    <3> QED
      BY <3>1, <3>2
  <2> QED
    BY <2>3, <2>4
<1>11. ASSUME NotifyTells, calling.via = "run" PROVE Effected
  <2>1. UNCHANGED <<alive, subscribers, awaiting>>
    BY <1>11 DEF NotifyTells
  <2>2. calling.obj \in alive
    BY <1>1, <1>11 DEF NotifyTells, FoundInv, HasWorker
  <2>3. PICK event \in Events : Push(calling.obj, "run", event)
    BY <1>11 DEF NotifyTells, Events
  <2>4. InCallback' = InCallback \cup {calling.obj} /\ UNCHANGED InTimerCallback
    BY <1>1, <2>2, <2>3, Pushed DEF TypeOK
  <2> QED
    BY <1>2, <2>1, <2>2, <2>4
<1>12. ASSUME NotifyTells, calling.via = "timer" PROVE Effected
  <2> DEFINE o == calling.obj
  <2>1. /\ notifying = o /\ o \in Objects /\ InTimerCallback = {}
        /\ awaiting' = awaiting \ {o} /\ UNCHANGED <<subscribers, alive>>
    BY <1>1, <1>12 DEF NotifyTells, TypeOK, Calls, CallingInv, ObjectInv
  <2>2. o \in subscribers
    BY <1>1, <2>1 DEF T!IInv, T!CursorIsEntry
  <2>3. PICK event \in Events : Push(o, "timer", event)
    BY <1>12 DEF NotifyTells, Events
  <2>4. InCallback' = InCallback \cup {o} /\ InTimerCallback' = {o}
    BY <1>1, <2>1, <2>3, Pushed
  <2> HIDE DEF o
  <2>5. WatchedIsAlive' /\ AwaitingIsWatched'
    BY <2>1, <2>2, <2>4
  <2>6. Promise!Answer(o)
    BY <2>1, <2>2, <2>4 DEF Promise!Answer
  <2> QED
    BY <2>1, <2>5, <2>6 DEF Promise!Next
<1>13. ASSUME NotifyFindsNothing \/ NotifyFindsComplete PROVE Effected
  <2>1. UNCHANGED <<stack, awaiting, alive, subscribers>>
    BY <1>13 DEF NotifyFindsNothing, NotifyFindsComplete, T!NotifyReturns
  <2> QED
    BY <1>3, <2>1
<1>14. ASSUME CallbackReturns PROVE Effected
  <2>1. /\ stack # <<>> /\ stack' = SubSeq(stack, 1, Len(stack) - 1)
        /\ UNCHANGED <<alive, awaiting>>
    BY <1>14 DEF CallbackReturns
  <2>2. InCallback' \subseteq InCallback
    BY <1>1, <2>1, Popped
  <2>3. CASE stack[Len(stack)].via = "timer"
    <3>1. InTimerCallback = {notifying} /\ InTimerCallback' = {}
      BY <1>1, <2>1, <2>3, Popped, Framed
    <3>2. cursor = notifying /\ notifying \in subscribers \cup {End} /\ notifying \in Objects
      BY <1>1, <3>1 DEF T!IInv, T!CursorIsEntry
    <3>3. subscribers' = subscribers \ {notifying} /\ notifying \in subscribers
      BY <1>14, <2>3, <3>2 DEF CallbackReturns, T!NotifyReturns
    <3>4. WatchedIsAlive' /\ AwaitingIsWatched'
      BY <2>1, <2>2, <3>1, <3>3
    <3>5. Promise!Finish(notifying)
      BY <3>1, <3>3 DEF Promise!Finish
    <3> QED
      BY <3>2, <3>4, <3>5 DEF Promise!Next
  <2>4. CASE stack[Len(stack)].via # "timer"
    <3>1. UNCHANGED <<InTimerCallback, subscribers>>
      BY <1>1, <1>14, <2>1, <2>4, Popped DEF CallbackReturns
    <3> QED
      BY <1>2, <2>1, <2>2, <3>1
  <2> QED
    BY <2>3, <2>4
<1>15. ASSUME TimerFires \/ WalkEnds PROVE Effected
  BY <1>3, <1>15 DEF TimerFires, WalkEnds, T!TimerFire, T!EndWalk
<1>16. ASSUME NEW t \in Threads, ThreadMoves(t) PROVE Effected
  BY <1>3, <1>16 DEF ThreadMoves
<1>17. ASSUME UNCHANGED vars PROVE Effected
  BY <1>3, <1>17 DEF vars
<1> HIDE DEF Effected
<1>18. NotifyTells => calling.via \in {"timer", "run"}
  BY <1>1 DEF TypeOK, Calls
<1>19. Effected
  BY <1>18, <1>4, <1>5, <1>6, <1>7, <1>8, <1>9, <1>10, <1>11, <1>12, <1>13, <1>14, <1>15, <1>16, <1>17
     DEF Next, Application, Methods, Timer, Notify
<1> QED
  BY <1>19 DEF Effected

\* Only Start adds to those who wait, and the worker it finds was never started.
LEMMA StartTakes ==
    ASSUME CourteousInv, [Next /\ Courteous]_vars, NEW o \in Objects, o \in awaiting' \ awaiting
    PROVE  handle'[worker[o]] # handle[worker[o]] /\ handle'[worker[o]] # None /\ UNCHANGED worker
<1>1. TypeOK /\ W!StartedInv
  BY DEF CourteousInv, ObjectInv, W!BackgroundInv
<1>2. ASSUME NEW p \in Objects, NEW t \in Threads, Start(p, t), Courteous
      PROVE  handle'[worker[o]] # handle[worker[o]] /\ handle'[worker[o]] # None /\ UNCHANGED worker
  <2>1. p = o /\ HasWorker(o) /\ W!Start(worker[o], t) /\ UNCHANGED worker
    BY <1>2 DEF Start
  <2>2. worker[o] \in Workers /\ handle[worker[o]] = None
    BY <1>1, <1>2, <2>1 DEF HasWorker, TypeOK, Courteous
  <2>3. ~running[worker[o]]
    BY <1>1, <2>2 DEF W!StartedInv
  <2>4. handle'[worker[o]] = t
    BY <1>1, <2>1, <2>2, <2>3 DEF W!Start, TypeOK, W!TypeOK
  <2> QED
    BY <2>1, <2>2, <2>4
<1> USE DEF objectVars
<1>3. ASSUME NEW p \in Objects,
             Construct(p) \/ Destroy(p) \/ GetNames(p) \/ CallFails(p) \/ Cancel(p) \/ CancelReturns(p)
             \/ Run(p) \/ RunReturns(p) \/ RunDies(p) \/ NotifyCalled(p)
      PROVE  awaiting' \subseteq awaiting
  BY <1>3 DEF Construct, Destroy, GetNames, CallFails, Cancel, CancelReturns, Run, RunReturns,
     RunDies, NotifyCalled
<1>4. ASSUME NEW s \in Objects, NEW d \in Objects, Copy(s, d) PROVE UNCHANGED awaiting
  BY <1>4 DEF Copy
<1>5. ASSUME NEW p \in Objects, NEW x \in Workers, Initialize(p, x) PROVE awaiting' \subseteq awaiting
  BY <1>5 DEF Initialize
<1>6. TimerFires \/ Notify \/ CallbackReturns \/ WalkEnds => awaiting' \subseteq awaiting
  BY DEF TimerFires, Notify, NotifyFindsComplete, NotifyTells, NotifyFindsNothing, CallbackReturns, WalkEnds
<1>7. ASSUME NEW t \in Threads, ThreadMoves(t) PROVE UNCHANGED awaiting
  BY <1>7 DEF ThreadMoves
<1>8. UNCHANGED vars => UNCHANGED awaiting
  BY DEF vars
<1> QED
  BY <1>2, <1>3, <1>4, <1>5, <1>6, <1>7, <1>8 DEF Next, Application, Methods, Timer

\* Who waits has a thread: start() gives it one, and nothing takes a thread off its worker.
LEMMA ThreadStays ==
    ASSUME CourteousInv, [Next /\ Courteous]_vars, NEW o \in awaiting'
    PROVE  handle'[worker'[o]] # None
<1>1. TypeOK /\ W!BackgroundInv /\ awaiting' \subseteq Objects
  BY TypesOfObjects DEF CourteousInv, ObjectInv
<1>2. CASE o \notin awaiting
  BY <1>1, <1>2, StartTakes
<1>3. CASE o \in awaiting
  <2>1. worker'[o] = worker[o] /\ o \in Objects
    BY <1>1, <1>3 DEF Courteous, vars, objectVars
  <2>2. worker[o] \in Workers /\ handle[worker[o]] # None
    BY <1>1, <1>3, <2>1 DEF CourteousInv, AwaitingIsWatched, ObjectInv, OwnInv, WatchedHasWorker, TypeOK
  <2>3. handle'[worker[o]] # handle[worker[o]] => handle[worker[o]] = None
    BY <1>1, <2>2, CourteousOnce DEF W!OnceStep, W!vars, W!workerVars
  <2> QED
    BY <2>1, <2>2, <2>3
<1> QED
  BY <1>2, <1>3

\* A complete worker stays complete.
LEMMA CompleteStays ==
    ASSUME W!TypeOK, NEW t \in Threads, W!ThreadStep(t), NEW w \in Workers, complete[w]
    PROVE  complete'[w]
BY DEF W!TypeOK, W!ThreadStep, W!ThreadProceeds, W!LockWorker, W!AcquireWork, W!CheckRunning,
   W!MarkRunning, W!ReleaseWorker, W!UnlockWork, W!DelegateReturns, W!DelegateUnwinds,
   W!DelegateInterrupted, W!DelegateTerminates, W!RelockWorker, W!PublishResult,
   W!ReadCancelled, W!SetComplete, W!ClearRunning, W!Leave, W!workerVars, W!threadVars, W!flagVars

LEMMA FoundStep ==
    ASSUME CourteousInv, [Next /\ Courteous]_vars
    PROVE  FoundInv'
<1>1. /\ ObjectInv /\ TypeOK /\ FrameInv /\ DepthInv /\ CallingInv /\ OwnInv /\ T!LooseInv
      /\ FoundInv /\ T!IInv /\ W!TypeOK
  BY DEF CourteousInv, ObjectInv, TypeOK
<1>2. CASE calling'.obj = None
  BY <1>2 DEF FoundInv
<1> USE DEF objectVars
<1>3. CASE UNCHANGED calling /\ calling.obj # None
  <2>1. CASE UNCHANGED vars
    BY <1>1, <2>1 DEF FoundInv, HasWorker, vars, workerVars
  <2>2. CASE \E t \in Threads : ThreadMoves(t)
    <3>1. PICK t \in Threads : ThreadMoves(t)
      BY <2>2
    <3>2. UNCHANGED <<alive, worker, calling>> /\ W!ThreadStep(t)
      BY <3>1 DEF ThreadMoves
    <3>3. HasWorker(calling.obj) /\ worker[calling.obj] \in Workers
      BY <1>1, <1>3 DEF FoundInv, HasWorker, TypeOK
    <3> QED
      BY <1>1, <3>2, <3>3, CompleteStays DEF FoundInv, HasWorker
  <2> QED
    BY <1>1, <1>3, <2>1, <2>2, CallingStep
<1>4. ASSUME NEW o \in Objects, RunReturns(o) PROVE FoundInv'
  BY <1>4 DEF RunReturns, HasWorker, FoundInv
<1>5. ASSUME NEW o \in Objects, NotifyCalled(o) PROVE FoundInv'
  <2>1. /\ cursor = o /\ calling' = [obj |-> o, via |-> "timer", found |-> FALSE]
        /\ UNCHANGED <<alive, worker>>
    BY <1>5 DEF NotifyCalled
  <2>2. o \in subscribers
    BY <1>1, <2>1 DEF T!IInv, T!CursorIsEntry
  <2> QED
    BY <1>1, <2>1, <2>2 DEF FoundInv, HasWorker, OwnInv, WatchedHasWorker
<1>6. ASSUME NotifyFindsComplete PROVE FoundInv'
  <2>1. /\ calling.obj # None /\ Finding(worker[calling.obj]) = "completed"
        /\ calling' = [calling EXCEPT !.found = TRUE]
        /\ UNCHANGED <<alive, worker, complete>>
    BY <1>6 DEF NotifyFindsComplete, Asks, workerVars
  <2>2. complete[worker[calling.obj]]
    BY <2>1 DEF Finding
  <2>3. calling'.obj = calling.obj
    BY <1>1, <2>1 DEF TypeOK, Calls
  <2> QED
    BY <1>1, <2>1, <2>2, <2>3 DEF FoundInv, HasWorker
<1>7. ASSUME NotifyTells \/ NotifyFindsNothing PROVE calling'.obj = None
  BY <1>7 DEF NotifyTells, NotifyFindsNothing, Nobody
<1>8. ASSUME NEW o \in Objects,
             Construct(o) \/ Destroy(o) \/ GetNames(o) \/ CallFails(o) \/ Cancel(o)
             \/ CancelReturns(o) \/ Run(o) \/ RunDies(o)
      PROVE  UNCHANGED calling
  BY <1>8 DEF Construct, Destroy, GetNames, CallFails, Cancel, CancelReturns, Run, RunDies
<1>9. ASSUME NEW s \in Objects, NEW d \in Objects, Copy(s, d) PROVE UNCHANGED calling
  BY <1>9 DEF Copy
<1>10. ASSUME NEW o \in Objects, NEW w \in Workers, Initialize(o, w) PROVE UNCHANGED calling
  BY <1>10 DEF Initialize
<1>11. ASSUME NEW o \in Objects, NEW t \in Threads, Start(o, t) PROVE UNCHANGED calling
  BY <1>11 DEF Start
<1>12. TimerFires \/ CallbackReturns \/ WalkEnds \/ UNCHANGED vars => UNCHANGED calling
  BY DEF TimerFires, CallbackReturns, WalkEnds, vars
<1>13. ASSUME NEW t \in Threads, ThreadMoves(t) PROVE UNCHANGED calling
  BY <1>13 DEF ThreadMoves
<1> QED
  BY <1>2, <1>3, <1>4, <1>5, <1>6, <1>7, <1>8, <1>9, <1>10, <1>11, <1>12, <1>13
     DEF Next, Application, Methods, Timer, Notify

LEMMA CourteousStep == CourteousInv /\ [Next /\ Courteous]_vars => CourteousInv'
<1> SUFFICES ASSUME CourteousInv, [Next /\ Courteous]_vars PROVE CourteousInv'
  OBVIOUS
<1>1. /\ ObjectInv /\ FoundInv /\ TypeOK /\ T!IInv /\ WatchedIsAlive /\ AwaitingIsWatched
      /\ W!BackgroundInv /\ W!OnceInv
  BY DEF CourteousInv, ObjectInv
<1>2. ObjectInv'
  BY <1>1, ObjectStep
<1>3. T!IInv'
  BY <1>1, CourteousStays, TimerTame
<1>4. W!BackgroundInv' /\ W!OnceInv'
  BY <1>1, CourteousOnce, WorkerOnce
<1>5. WatchedIsAlive' /\ AwaitingIsWatched'
  BY <1>1, Effect
<1>6. \A o \in awaiting' : handle'[worker'[o]] # None
  BY ThreadStays
<1>7. FoundInv'
  BY FoundStep
<1> QED
  BY <1>2, <1>3, <1>4, <1>5, <1>6, <1>7 DEF CourteousInv

\* The strengthening holds of every courteous application.
THEOREM CourteousInvariance == CourteousSpec => []CourteousInv
BY CourteousInit, CourteousStep, PTL DEF CourteousSpec

\* Whoever has been started and not yet been answered is in the timer's map, and
\* nobody else but the object being answered is.
THEOREM TheStartedAreWatched == CourteousSpec => []AwaitingIsWatched
<1>1. CourteousInv => AwaitingIsWatched
  BY DEF CourteousInv
<1> QED
  BY <1>1, CourteousInvariance, PTL

\* No callback is made to an object that has been destroyed.
THEOREM TheWatchedAreAlive == CourteousSpec => []WatchedIsAlive
<1>1. CourteousInv => WatchedIsAlive
  BY DEF CourteousInv
<1> QED
  BY <1>1, CourteousInvariance, PTL

\* A thread that is over has published a result, was interrupted after its worker had
\* been cancelled, or found another thread running; courtesy leaves a worker no other.
LEMMA Answerable == CourteousInv => AwaitingIsAnswerable
<1> SUFFICES ASSUME CourteousInv, NEW o \in awaiting, handle[worker[o]] # None => pc[handle[worker[o]]] \in W!Ended
             PROVE  Finding(worker[o]) \in Events
  BY DEF AwaitingIsAnswerable
<1> DEFINE w == worker[o]
           h == handle[w]
<1>1. /\ TypeOK /\ OwnInv /\ AwaitingIsWatched
      /\ W!RunningHasRunner /\ W!BelongInv /\ W!CancelInv /\ W!SilenceInv /\ W!OnceInv
  BY DEF CourteousInv, ObjectInv, W!BackgroundInv, W!IInv
<1>2. w \in Workers /\ owner[w] = "owned"
  BY <1>1 DEF AwaitingIsWatched, OwnInv, WatchedHasWorker, TypeOK
<1>3. h \in Threads /\ pc[h] \in W!Ended /\ target[h] = w
  BY <1>1, <1>2 DEF CourteousInv, TypeOK, W!TypeOK, W!BelongInv
<1> HIDE DEF w, h
<1>4. CASE pc[h] = "interrupted"
  <2>1. cancelled[w]
    BY <1>1, <1>3, <1>4 DEF W!CancelInv
  <2> QED
    BY <2>1 DEF Finding, Events, w
<1>5. CASE pc[h] = "ended"
  <2>1. W!Alive(w)
    BY <1>2 DEF W!Alive
  <2>2. running[w] \/ complete[w]
    BY <1>1, <1>3, <1>5, <2>1 DEF W!SilenceInv
  <2>3. ~running[w]
    <3>1. SUFFICES ASSUME running[w] PROVE FALSE
      OBVIOUS
    <3>2. PICK t \in Threads : target[t] = w /\ pc[t] \in W!Runner
      BY <1>1, <1>2, <2>1, <3>1 DEF W!RunningHasRunner
    <3>3. t = h
      BY <1>1, <3>2 DEF W!OnceInv, W!Runner, W!Delegated, W!Finishing, h
    <3> QED
      BY <1>5, <3>2, <3>3 DEF W!Runner, W!Delegated, W!Finishing
  <2> QED
    BY <2>2, <2>3 DEF Finding, Events, w
<1> QED
  BY <1>3, <1>4, <1>5 DEF W!Ended

\* An object that waits for its answer gets it from a thread that is on its way or finds
\* it in its worker: no end of a thread, by result, cancellation or interruption, slips
\* past notify() (NVObjHTTPWorker.cpp:287).
THEOREM NoAnswerIsLost == CourteousSpec => []AwaitingIsAnswerable
BY Answerable, CourteousInvariance, PTL

-----------------------------------------------------------------------------
(* The objects use their components as the modules of these say *)

\* Whatever the application does, its workers behave as module Worker specifies, and all
\* that is proved there of any owner is true of the objects.
THEOREM ObjectsUseWorkers == Spec => W!Spec
<1>1. Init => W!Init
  BY DEF Init
<1>2. ObjectInv /\ [Next]_vars => [W!Next]_(W!vars)
  BY ActionIsWorkers DEF ObjectInv
<1> QED
  BY <1>1, <1>2, ObjectInvariance, PTL DEF Spec, W!Spec

\* So does the timer: the objects subscribe and unsubscribe, and return from their
\* notify(), only when module ThreadTimer lets them.
THEOREM ObjectsUseTheTimer == Spec => T!Spec
<1>1. Init => T!Init
  BY DEF Init
<1>2. ObjectInv /\ [Next]_vars => [T!Next]_(T!vars)
  BY ActionIsTimers DEF ObjectInv
<1> QED
  BY <1>1, <1>2, ObjectInvariance, PTL DEF Spec, T!Spec

\* A courteous application is the tame user whose walks ThreadTimer proves sound: no
\* object leaves the map while the timer is inside its notify().
THEOREM CourtesyTamesTheTimer == CourteousSpec => T!TameSpec
<1>1. Init => T!Init
  BY DEF Init
<1>2. CourteousInv /\ [Next /\ Courteous]_vars => [T!Next /\ T!NotifiedStays]_(T!vars)
  BY CourteousStays DEF CourteousInv
<1> QED
  BY <1>1, <1>2, CourteousInvariance, PTL DEF CourteousSpec, T!TameSpec

\* Only Destroy and Initialize give a worker up.
LEMMA PatientOwner ==
    ASSUME CourteousInv, [Next /\ Courteous /\ Patient]_vars
    PROVE  [W!Next /\ W!PatientStep]_(W!vars)
<1> DEFINE Kept == \A w \in Workers :
                       owner'[w] = "released" /\ owner[w] = "owned" => handle[w] = None \/ complete[w]
<1> USE DEF workerVars
<1>1. TypeOK /\ OwnInv /\ W!BackgroundInv
  BY DEF CourteousInv, ObjectInv
<1>2. [W!Next /\ W!OnceStep]_(W!vars)
  BY <1>1, CourteousOnce
<1>3. UNCHANGED owner => Kept
  OBVIOUS
<1>4. ASSUME NEW o \in Objects, Destroy(o), Patient PROVE Kept
  <2>1. o \in alive /\ o \notin alive' /\ Destructor(o)
    BY <1>4 DEF Destroy
  <2>2. CASE worker[o] = None
    BY <1>3, <2>1, <2>2 DEF Destructor, HasWorker
  <2>3. CASE worker[o] # None
    <3>1. handle[worker[o]] = None \/ complete[worker[o]]
      BY <1>4, <2>1, <2>3 DEF Patient
    <3>2. owner' = [owner EXCEPT ![worker[o]] = "released"]
      BY <2>1, <2>3 DEF Destructor, HasWorker, W!Release
    <3> QED
      BY <1>1, <3>1, <3>2 DEF TypeOK, W!TypeOK
  <2> QED
    BY <2>2, <2>3
<1>5. ASSUME NEW o \in Objects, GetNames(o) PROVE UNCHANGED owner
  BY <1>5 DEF GetNames, Destructor, HasWorker
<1>6. ASSUME NEW o \in Objects, NEW w \in Workers, Initialize(o, w), Patient PROVE Kept
  <2>1. /\ o \in alive /\ worker'[o] = w /\ owner[w] = "unborn"
        /\ \A x \in Workers : owner'[x] = IF x = w THEN "owned"
                                          ELSE IF x = worker[o] THEN "released" ELSE owner[x]
    BY <1>1, <1>6 DEF Initialize, W!Assign, TypeOK
  <2>2. worker[o] # w
    BY <1>1, <2>1 DEF OwnInv
  <2>3. worker[o] # None => handle[worker[o]] = None \/ complete[worker[o]]
    BY <1>6, <2>1, <2>2 DEF Patient
  <2>4. None \notin Workers
    BY ValuesAssumption
  <2> QED
    BY <2>1, <2>3, <2>4
<1>7. ASSUME NEW o \in Objects,
             Construct(o) \/ CallFails(o) \/ Cancel(o) \/ CancelReturns(o) \/ Run(o) \/ RunReturns(o)
             \/ RunDies(o) \/ NotifyCalled(o)
      PROVE  UNCHANGED owner
  BY <1>7 DEF Construct, CallFails, Cancel, CancelReturns, Run, RunReturns, RunDies, NotifyCalled,
     W!BeginCancel, W!EndCancel, W!BeginRun, W!EndRun, W!RunTerminates, W!workerVars
<1>8. ASSUME NEW s \in Objects, NEW d \in Objects, Copy(s, d) PROVE UNCHANGED owner
  BY <1>8 DEF Copy
<1>9. ASSUME NEW o \in Objects, NEW t \in Threads, Start(o, t) PROVE UNCHANGED owner
  BY <1>9 DEF Start, W!Start
<1>10. TimerFires \/ NotifyFindsComplete \/ NotifyTells \/ NotifyFindsNothing \/ CallbackReturns
       \/ WalkEnds \/ UNCHANGED vars => UNCHANGED owner
  BY DEF TimerFires, NotifyFindsComplete, NotifyTells, NotifyFindsNothing, CallbackReturns, WalkEnds, vars
<1>11. ASSUME NEW t \in Threads, ThreadMoves(t) PROVE UNCHANGED owner
  BY <1>11, ThreadsLeave DEF ThreadMoves
<1> HIDE DEF Kept
<1>12. Kept
  BY <1>3, <1>4, <1>5, <1>6, <1>7, <1>8, <1>9, <1>10, <1>11 DEF Next, Application, Methods, Timer, Notify
<1> QED
  BY <1>2, <1>12 DEF Kept, W!PatientStep

\* A patient application is an owner as WorkerProofs requires it ...
THEOREM PatienceIsTheOwners == PatientSpec => W!PatientSpec
<1>1. Init => W!Init
  BY DEF Init
<1>2. CourteousInv /\ [Next /\ Courteous /\ Patient]_vars => [W!Next /\ W!PatientStep]_(W!vars)
  BY PatientOwner
<1>3. PatientSpec => CourteousSpec
  BY PTL DEF PatientSpec, CourteousSpec
<1> QED
  BY <1>1, <1>2, <1>3, CourteousInvariance, PTL DEF PatientSpec, W!PatientSpec

\* ... so none of its threads comes too late for its worker, and no worker is destroyed
\* whose mutex a thread holds (Worker.cpp:180, 202).
THEOREM PatientApplicationsAreSafe == PatientSpec => []W!NoLifetimeFault
<1>1. W!Init => WP!Init
  BY DEF W!Init, WP!Init, W!Idle, WP!Idle
<1>2. [W!Next /\ W!PatientStep]_(W!vars) => [WP!Next /\ WP!PatientStep]_(WP!vars)
  BY WorkerNext DEF W!PatientStep, WP!PatientStep, W!OnceStep, WP!OnceStep, W!BackgroundOnly,
     WP!BackgroundOnly, W!vars, WP!vars, W!workerVars, WP!workerVars, W!threadVars, WP!threadVars,
     W!flagVars, WP!flagVars
<1>3. W!PatientSpec => WP!PatientSpec
  BY <1>1, <1>2, PTL DEF W!PatientSpec, WP!PatientSpec
<1>4. WP!NoLifetimeFault => W!NoLifetimeFault
  BY DEF WP!NoLifetimeFault, W!NoLifetimeFault
<1> QED
  BY <1>3, <1>4, PatienceIsTheOwners, WP!PatienceIsSafe, PTL

-----------------------------------------------------------------------------
(* The steps of a courteous application *)

\* Only CallFails and NotifyTells begin a callback, the first with $error; the other has
\* found a complete worker (FoundInv), of which OnceInv tells the rest.
LEMMA DoneStep ==
    ASSUME CourteousInv, [Next /\ Courteous]_vars,
           Len(stack') > Len(stack), stack'[Len(stack')].event = "completed"
    PROVE  LET w == worker[stack'[Len(stack')].obj]
           IN  /\ handle[w] # None
               /\ pc[handle[w]] \in {"clear", "leave", "ended"}
               /\ result[w] = outcome[handle[w]]
<1> DEFINE o == stack'[Len(stack')].obj
           w == worker[o]
<1>1. FrameInv /\ FoundInv /\ TypeOK /\ W!OnceInv /\ Len(stack) \in Nat
  BY DEF CourteousInv, ObjectInv, FrameInv
<1>2. ASSUME w \in Workers, complete[w]
      PROVE  /\ handle[w] # None
             /\ pc[handle[w]] \in {"clear", "leave", "ended"}
             /\ result[w] = outcome[handle[w]]
  BY <1>1, <1>2 DEF W!OnceInv
<1>3. stack' # stack
  BY <1>1
<1> USE DEF objectVars
<1>4. ASSUME NEW p \in Objects, CallFails(p) PROVE FALSE
  BY <1>1, <1>4, Pushed DEF CallFails
<1>5. ASSUME NotifyTells PROVE w \in Workers /\ complete[w]
  <2>1. PICK event \in Events :
           /\ Push(calling.obj, calling.via, event)
           /\ calling.found \/ event = "canceled"
    BY <1>5 DEF NotifyTells, Events
  <2>2. calling.obj \in Objects /\ calling.via \in {"timer", "run"}
    BY <1>1, <1>5 DEF NotifyTells, TypeOK, Calls
  <2>3. o = calling.obj /\ calling.found
    BY <1>1, <2>1, <2>2, Pushed
  <2> QED
    BY <1>1, <2>2, <2>3 DEF FoundInv, HasWorker, TypeOK
<1>7. ASSUME CallbackReturns PROVE FALSE
  BY <1>1, <1>7, Popped DEF CallbackReturns
<1>8. ASSUME NEW p \in Objects,
             Construct(p) \/ Destroy(p) \/ GetNames(p) \/ Cancel(p) \/ CancelReturns(p) \/ Run(p)
             \/ RunReturns(p) \/ RunDies(p) \/ NotifyCalled(p)
      PROVE  FALSE
  BY <1>3, <1>8 DEF Construct, Destroy, GetNames, Cancel, CancelReturns, Run, RunReturns, RunDies, NotifyCalled
<1>9. ASSUME NEW s \in Objects, NEW d \in Objects, Copy(s, d) PROVE FALSE
  BY <1>3, <1>9 DEF Copy
<1>10. ASSUME NEW p \in Objects, NEW x \in Workers, Initialize(p, x) PROVE FALSE
  BY <1>3, <1>10 DEF Initialize
<1>11. ASSUME NEW p \in Objects, NEW t \in Threads, Start(p, t) PROVE FALSE
  BY <1>3, <1>11 DEF Start
<1>12. ASSUME TimerFires \/ NotifyFindsComplete \/ NotifyFindsNothing \/ WalkEnds PROVE FALSE
  BY <1>3, <1>12 DEF TimerFires, NotifyFindsComplete, NotifyFindsNothing, WalkEnds
<1>13. ASSUME NEW t \in Threads, ThreadMoves(t) PROVE FALSE
  BY <1>3, <1>13 DEF ThreadMoves
<1>14. ASSUME UNCHANGED vars PROVE FALSE
  BY <1>3, <1>14 DEF vars
<1>15. w \in Workers /\ complete[w]
  <2> HIDE DEF w
  <2> QED
    BY <1>4, <1>5, <1>7, <1>8, <1>9, <1>10, <1>11, <1>12, <1>13, <1>14
       DEF Next, Application, Methods, Timer, Notify
<1> QED
  BY <1>2, <1>15

\* $completed comes when the thread of the last $start has published, and result() is
\* what that thread's delegate returned.
THEOREM CompletionIsTheThreads == CourteousSpec => CompletedMeansDone
<1>1. CourteousInv /\ [Next /\ Courteous]_vars =>
        [Len(stack') > Len(stack) /\ stack'[Len(stack')].event = "completed" =>
            LET w == worker[stack'[Len(stack')].obj]
            IN  /\ handle[w] # None
                /\ pc[handle[w]] \in {"clear", "leave", "ended"}
                /\ result[w] = outcome[handle[w]]]_vars
  BY DoneStep
<1> QED
  BY <1>1, CourteousInvariance, PTL DEF CourteousSpec, CompletedMeansDone

\* The objects, the timer and the workers together keep the promise of Notification:
\* each $start is answered at most once, one callback after the other, and it is
\* withdrawn only when its object is destroyed.
THEOREM ThePromiseIsKept == CourteousSpec => AnswersOnce
<1>1. Init => Promise!Init
  <2> SUFFICES ASSUME Init PROVE Promise!Init
    OBVIOUS
  <2>1. DOMAIN stack = {} /\ subscribers = {}
    BY DEF Init, T!Init
  <2> QED
    BY <2>1 DEF Promise!Init, InTimerCallback
<1>2. CourteousInv /\ [Next /\ Courteous]_vars => [Promise!Next]_(Promise!vars)
  BY Effect DEF CourteousInv
<1> QED
  BY <1>1, <1>2, CourteousInvariance, PTL DEF CourteousSpec, AnswersOnce, Promise!Spec
=============================================================================
