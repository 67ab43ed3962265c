# HTTP-Background in TLA+

HTTP-Background is an Omnis Studio external component: an Omnis object that
performs one HTTP request, either at once (`$run`) or on a thread of its own
(`$start`), and calls the object's `$completed` or `$canceled` method when the
request is over. These modules specify it from the messages of Omnis down to the
client library's connection, check it with TLC and prove its safety with TLAPS.

## 1. The system

| Part | Source | State | Operations |
|---|---|---|---|
| `Worker` | `src/src/Worker.cpp`, `src/include/Worker.h` | `_running`, `_complete`, `_cancelled`, `_result`, each under a shared mutex of its own; `_workMutex`; `_thread`; the reference count | constructor and `init`, `start`, `cancel`, `run`, destructor, and the thread function `WorkerThread::operator()` |
| `ThreadTimer` | `src/src/ThreadTimer.cpp` | the map `subscribers`, `timerProcessing`, `_timerID` | `subscribe`, `unsubscribe`, `timerMsgProc` |
| `NVObjHTTPWorker` | `src/src/NVObjHTTPWorker.cpp`, `NVObjBase.cpp` | `_worker` | `$initialize`, `$run`, `$start`, `$cancel`, `notify`, construction, copies, destruction; `$error` of the application for a call that fails |
| `CppNetlibDelegate` | `src/src/CppNetlibDelegate.cpp` | two Omnis lists | `init`, `run`, `cancel` |
| cpp-netlib client | `src/deps/cpp-netlib` (vendored) | an io service and its thread, seven promises per response | one asynchronous request |
| `OmnisTools` | `src/src/OmnisTools.cpp` | a cache of constants | conversions of Omnis values |
| Entry point | `src/src/HTTPlib.cpp`, templates in `src/include/OmnisTools.he` | none of its own; Omnis keeps the chain of instances | a switch over the messages of Omnis: construct, copy, destroy, call, ask for names and properties |
| Static methods, constants, resources, logging, build | `Static.cpp`, `Constants.cpp`, ... | none | tables |

How they interact. Omnis calls everything but the threads on one main thread.
`$start` subscribes the object to the timer and lets the worker spawn a thread.
The thread marks the worker running, gives up its reference to it, executes the
delegate, takes a reference again if the worker still exists, and publishes the
result and `_complete`. A timer message of Omnis walks the subscribers and calls
`notify()` on each; `notify()` looks at `complete()`, `result()` and `cancelled()`, each under its own
lock, and calls the application's method, *under the walk*. That method may use every object,
construct, copy and destroy some, and let the next timer message in. A call that
fails executes the application's `$error` before it returns, so such callbacks
nest without a walk, too.

What makes each part correct:

* `Worker`: one thread at a time in the delegate; `_running` tells the truth; whoever
  is told of a completion reads a result that one of the worker's threads has published; a started worker completes or says it was cancelled; nobody uses a
  worker that is gone;
* `ThreadTimer`: every subscriber is notified again and again, each once per walk, while the timer runs,
  and the iterator survives what the callbacks do to the map;
* `NVObjHTTPWorker`: an object is watched exactly while it waits, is called only while it exists, and every
  `$start` is answered once;
* `CppNetlibDelegate` and its client: all of a response or nothing, every future settled once, the
  values in an order in which nobody sees half a response, and no thread left behind;
* the conversions: what goes out is what the row says, and a bad cell spoils no more than itself;
* the entry point: no copy of an object shares its worker, and the objects made only to answer a
  question leave no trace.

What is hard here:

* check and mark of `_running` are two critical sections of one mutex, joined
  only by a second mutex that every thread queues for;
* the worker is referenced weakly by its threads, so any of three parties may
  destroy it, one of them while it holds the worker's mutex;
* flags are read one by one, each under its own lock (and `cancel()` under none),
  while a restarted worker writes them again;
* an interruption leaves the thread function from its middle;
* a client library with a thread of its own settles seven promises per response, on eight error
  paths; the request's thread waits for them, may be interrupted at each wait, and joins the other
  thread in a destructor that may not throw;
* the client is owned by the request and, until its name is resolved, by the resolver's handler;
* rows and lists of Omnis become maps of `boost::any`, and a wrong type throws where it is read;
* the timer's iterator is used after a callback that can change the map;
* the callbacks nest, on the one main thread;
* an address is the identity of an object: in the timer's map, in Omnis's chain, and for the next object
  constructed there;
* the delegate's list of headers outlives the run that filled it.

`PROJECT.json` lists these at their lines, under `hazards`.

## 2. The modules

| Module | Contents |
|---|---|
| `Worker` | the worker and its threads, the owner's operations, properties, the inductive strengthening |
| `MCWorker` | its instance for TLC |
| `WorkerProofs` | theorems about `Worker` |
| `ThreadTimer`, `MCThreadTimer`, `ThreadTimerProofs` | the same for the timer |
| `NVObjHTTPWorker`, `MCNVObjHTTPWorker`, `NVObjHTTPWorkerProofs` | the objects and the entry point, composed of one `ThreadTimer` and the `Worker`s |
| `Notification` | what an application may rely on; `NVObjHTTPWorker` implements it |
| `Delegate` | what `Worker` relies on in a delegate's `run()`; `CppNetlibDelegate` implements it |
| `AsyncConnection` | the client's connection: its handlers, the server, the promises |
| `CppNetlibDelegate`, `MCCppNetlibDelegate`, `CppNetlibDelegateProofs` | `run()` with the client, its io thread and that connection |
| `RequestParams`, `MCRequestParams`, `RequestParamsProofs` | the data: row, parameters, headers, the lists of the response, answer |

Two modules are abstract and join the levels: `Worker`'s delegate actions are `Delegate`'s, so that what
is shown of workers and objects with any delegate holds with the real one.

### Worker

One action per access to shared state. `pc[t]` is the program point of a thread:

| Actions | `Worker.cpp` |
|---|---|
| `LockWorker`, `AcquireWork`, `CheckRunning`, `MarkRunning` | 180, 186, 188, 194 |
| `ReleaseWorker`, `UnlockWork` | 202 and the end of that scope |
| `DelegateReturns`, `DelegateUnwinds` and `DelegateInterrupted`, `DelegateTerminates` | the three ways 206 can end |
| `RelockWorker`, `PublishResult`, `ReadCancelled`, `SetComplete`, `ClearRunning`, `Leave` | 210, 218, 220, 226, 227, 229 |
| `Assign`, `Start`, `BeginCancel`/`EndCancel`, `BeginRun`/`EndRun`, `Release` | the owner, on the main thread |

`Holders(w)` are the threads whose `ptr` is not empty; with `owner[w]` it makes the
reference count. `Destroy` is `~Worker`, which cancels; it happens inside the action that
drops the last reference. `start(Queue)` is `start()` with an assignment nobody reads, and
`reset`, `desc` and `setWorkerName` touch nothing modelled. `Call(t)` is `Delegate` as thread `t` sees it:
`CallsAreDelegates` says that each thread's part in `Worker` consists of its steps. `fault` records that the
program has run into undefined behaviour or `std::terminate`; no action follows.

A lock is modelled by the step it makes atomic, except `_workMutex`, which spans several
steps, and the lock of `cancel()`, which is a temporary and protects nothing.

### ThreadTimer

`subscribers` is the key set of the map, `cursor` the iterator. The walk is one action up
to each call of `notify()` and one after it, because everything may happen in between.
Erasing the entry the iterator is at makes it `Dangling`; using it then sets `corrupt`.

### NVObjHTTPWorker

The main thread's turn is explicit: `ApplicationTurn` holds at top level and inside the
innermost callback. `stack` is the nesting of callbacks. Each action is an action of the
object joined with the actions of `Worker` and `ThreadTimer` that its code calls, as in
`$start`: `T!Subscribe(o) /\ W!Start(worker[o], t)`. `awaiting` is a history variable: the
objects whose last `$start` has not been answered.

The messages of Omnis are the application's actions. An instance is known by the address of its object:

| Actions | Source |
|---|---|
| `Construct`, with `Create` | `ECM_OBJCONSTRUCT` and `createObject`, `HTTPlib.cpp` 132, 82: a new object has no worker |
| `Copy` | `ECM_OBJECT_COPY`, `copyNVObj` of `OmnisTools.he` 276, `dup` and `copy` of `NVObjBase.cpp` 51-65 |
| `Destroy`, with `Destructor` | `ECM_OBJDESTRUCT`, 153, and `~NVObjHTTPWorker` |
| `GetNames` | `ECM_GETMETHODNAME` and `ECM_GETPROPNAME`, 211 and 245: an object is made for the answer and destroyed |
| `CallFails` | a method that returns `ERR_METHOD_FAILED`, and `callErrorMethod`, `NVObjBase.cpp` 83 |
| `Initialize`, `Run`, `RunReturns`, `RunDies`, `Start`, `Cancel`, `CancelReturns` | the methods |
| `TimerFires`, `NotifyCalled`, `CallbackReturns`, `WalkEnds` | the walk, `ThreadTimer.cpp` 36-61 |
| `NotifyFindsComplete`, `NotifyTells`, `NotifyFindsNothing` | `notify()`, for the walk and at the end of `$run`, `NVObjHTTPWorker.cpp` 285-305 |

`copy()` is a member of `NVObjBase`, so its `*this = *pObj` assigns the base part only, and `dup()` makes
its object through `createObject`: neither hands a worker on, and a copy made for the first time has none.
`Copy` has both cases. `GetNames` says the destructor is run for an address that no object has; it touches
the map only through `unsubscribe`, which is why it is an action at all. The other messages return tables
or read an object without changing it.

`calling` is the `notify()` the main thread is in: of which object, called by the walk or by `$run`, and
whether `complete()` was found true. Asking `complete()` (`NotifyFindsComplete`) and reading `result()` with
the callback (`NotifyTells`) are two steps, as they are two locks in the code: a thread of a worker that was
started again may publish between them. `NotifyTells` leaves out the row it makes of the result; which
result that is, is what `CompletedMeansDone` says.

`complete()` false and then `cancelled()` are one step nevertheless: `_cancelled` of a worker that an object
still owns is written by the main thread only, which is inside `notify()`, so the second read gives what it
would have given together with the first.

### AsyncConnection and CppNetlibDelegate

One request. `pending` is the one asynchronous operation under way and `state` the `state_t` bound into
the handler of a read; each handler of `async_normal.hpp` is an action, its error paths disjuncts.

A handler settles up to seven promises, and `run()` on its own thread sees each as soon as it is settled. So
the handler that ends an exchange leaves in `settling` the promises it has still to settle, in the order of
its own code (`SetErrors`, `MalformedErrors`, `ReadErrors`, `EndValues`: the four differ), and `verdict`
says with what; `SettleNext` settles one. `handle_received_data` is split in the same way: while
`parsing`, each `ParsePart` is one case of its switch, which settles that part and falls through. The bytes
are abstracted to what they come to at a part: they complete it, run out (`ParseWantsMore`), do not belong
there (`ParseRejects`) or are a number too large (`ParseBadStatus`). `SetPromise` is `set_value` and
`set_exception`; a second one for the same promise is the fault `settledTwice`.

The end of the file is a good end of a body, in the code and so in the model: nothing compares what came
with `Content-Length`. A response that was broken off, which `run()` never returns, is one whose connection
was reset, or whose file ended before the headers were complete.

| Actions | Source |
|---|---|
| `Call`, `ReadParameters`, `Dispatch` | `CppNetlibDelegate.cpp` 59-149, with `StartRequest` of the connection |
| `AwaitValue`, `FillLists`, `AwaitError`, `AwaitInterrupted` | the waits at 151-154 and 185-187, the handler at 214 |
| `DropClient`, `JoinReturns`, `JoinInterrupted` | the end of `client_`'s scope, `~async_client` |
| `ResolverReturns`, `IoThreadEnds` | the resolver's handler gives up its reference; `io_service::run` returns |
| `HandleResolved`, `HandleConnected`, `HandleSentRequest` | the handlers of the connection, `async_normal.hpp` 115-201 |
| `Receive`, `ParsePart`, `ParseWantsMore`, `ParseRejects`, `ParseBadStatus`, `ReceiveEof`, `ReceiveError` | `handle_received_data`, 203-431, with `async_protocol_handler.hpp` 89-352 |
| `SettleNext` | the rest of a handler that ends the exchange |
| `PeerCloses`, `Interrupt` | the server; `Worker::cancel` |

`client` tells who owns the client. When `run()` leaves while the resolver's handler still holds its
reference, the client is an `orphan`: `run()` ends at once, and `~async_client` later runs on the thread
it joins (`selfJoin`). Waiting for an unsettled future and joining are the only interruption points. Each
instance makes one call; what a second call finds of the first is data, and in `RequestParams`.

### RequestParams

The call again, seen as data, and called again. A cell is a text, a list or anything else; a name stands for its
spellings, since the maps compare names without case. `ListRow` and `ToAny` keep the two loops of
`getAnyFromEXTFldVal` with their bounds; `ReadParameter` is one round of the loop at 79, in the order of
the map; `AddHeader` is one round of the loop at 115, with the two locals that outlive the rounds.

`Exchange` fills the response's list as `buildHeaderList` does: a column for each header, after those the
list already has; an empty row, after those it already has; and the values into row 1, from column 1 on.
`headerList` is that row of `_headerResult`, which `RunAgain` leaves as it is. A name too long for a
`str255` gives an empty column name. Whether `setList` takes the list away when it is put into the result
is Omnis's, so `moves` is either, for good. `response` is a history variable: what the server has sent.

### Disciplines

The component leaves much to its user. Properties that need a careful user are checked
under a specification that says how careful:

* `BackgroundSpec`: `$run` of a worker only before its first `$start`;
* `PatientSpec` of `Worker`: moreover one `$start` per worker, and the owner keeps a started
  worker until it is complete;
* `TameSpec`: no object leaves the timer inside its own `notify()`;
* `SequentialSpec`: a worker is started again only when its object has been answered and it is complete, and
  is not run in the foreground after a start;
* `CourteousSpec`: one `$start` per worker, no other worker before it is answered, nothing
  started or destroyed inside its own callback;
* `PatientSpec` of the objects: a courteous application that moreover gives up a worker it has
  started only when that worker is complete. Having been told `$canceled` is not enough: the thread may
  still be on its way.

## 3. What is checked

| Run | Bounds | Shows |
|---|---|---|
| `worker_safety` | 1 worker, 3 threads, 2 outcomes, any use | one runner per delegate, called as `Delegate` says, `_running` is accurate, no unannounced interruption or end |
| `worker_background` | 1 worker, 2 threads, 2 outcomes | after a completion there is a published result, through any number of restarts; completion or cancellation; every thread leaves |
| `worker_patient` | 2 workers, 2 threads | no lifetime fault for a patient owner |
| `timer` | 5 addresses | valid iterator, monotone walk, armed timer, nobody starved |
| `courteous` | 2 objects, 2 workers, 2 threads, 1 outcome, callbacks nested 2 deep | the objects are watched exactly while they wait, with a worker each, no answer is lost, completions are true, and the whole implements `Notification` |
| `live` | 2 objects, 2 workers, 2 threads, no nesting | every `$start` is answered |
| `delegate` | 1 request, up to 3 endpoints, any server, any interruption | promises settled one by one: each once, all in the end, and the values in order whoever looks in between; no half response; the io thread ends with `run()`; nobody waits for a promise that nothing is left to settle; the exchange never goes back; `run()` ends; it implements `Delegate` |
| `params` | every row over five parameters, header lists of up to 3 rows in three layouts, 3 responses, 2 runs | a bad parameter is isolated, headers are not mixed, the answer is whole and of its own run or empty, the response's headers keep their names |
| `work_mutex`, `stale_completion`, `lost_restart`, `headers_lost` | 1 object, worker or request | a comment of the sources that the code does not honour; see `findings` |

The findings, in a sentence each. `ptr.reset()` at `Worker.cpp:202` can destroy the mutex its own thread
holds. `_complete` is never reset, so a worker started again is reported at once with its old result. A
`$start` inside the object's own callback is unsubscribed by the walk when the callback returns. A list
loses its last row and its last column on the way to C++, and with them every header's value.

Met while modelling, visible in the actions, and not runs of their own: `cancel()` takes a temporary for a
lock, which is gone before it writes (`Worker.cpp:121`); `weak_ptr::lock` does not throw `bad_weak_ptr`,
so a thread whose worker is gone dereferences nothing (`Worker.cpp:180`, the fault `nullDeref`); `$run` stores a result but never sets
`_complete`, so its hand-made `notify()` reports nothing, or, after an earlier `$start`, `$completed` for
that thread with the result of the `$run` or of the thread, whichever stored last; when a worker is started
again, a completion of the first thread may be read together with the result of the second
(`CompleteMeansPublished` says no more than that it is a published one); a worker that an interruption has ended stays
`_running`, and a completed one is for a moment more, so a later `$start` may do nothing, which is why
`Courteous` asks for a worker of its own per request; the case `ECM_OBJECT_COPY` has no `return` and goes on into `ECM_GETSTATICOBJECT`
(`HTTPlib.cpp:195`), which only returns a table; a second run of a delegate whose list was not taken away
puts its values under the names of the first run's headers (`CppNetlibDelegate.cpp:49`); an interruption that arrives in the join of
`~async_client() throw()` ends the process (`destructorThrows`), and so does a status that is no 16-bit
number (`badStatus`).

Why the bounds suffice. Three threads of one worker give a runner, one that waits for the
mutex and one that is late, in every order; a fourth repeats one of these roles. Workers
share nothing but threads' identities, so a second one is there only where an owner
changes from one to another. Five addresses put two entries on either side of the one the
walk is at. Nesting two deep lets a callback run inside another object's callback.
Three endpoints give a first, a middle and a last address to fail; the seven parts of a response are the
code's own. Three rows of headers leave two to be mixed up after the last is dropped; their cells all
differ, so a text says where it comes from. Two runs are enough for a list left over from one to meet the
next. One outcome is enough in `courteous`, where each worker is started once: `worker_background` has two.
What `CourteousInv` says of the composition was checked on the instance of `courteous` before it was proved,
and so was `NoLifetimeFault` under the objects' `PatientSpec`, with callbacks one deep.
Deadlock is not checked where threads and workers run out and where a fault stops the
model; in `timer` it is. 
Fairness. In `CppNetlibDelegate` both threads are scheduled, lookup, connecting and writing end one way or
another, which the operating system's timeouts give, and the server closes the connection in the end;
nothing makes it answer, and nobody has to interrupt. `RunEnds` leaves out the one case in which the code
itself does not end: the server closes before the headers are complete (`Spinning`). `Worker!Fairness` schedules each thread weakly and so assumes that a request ends:
answered, refused or interrupted. It is on `ThreadProceeds`: a delegate may take the process down, but
nothing obliges it to. Nothing is asked of the owner. For the timer, Omnis
delivers its messages and the application's methods return. In the composition a timer
message can only come in when the main thread is idle or inside a callback, and a callback
can only return when the methods it called have returned, so these two are strong.

## 4. What is proved

`WorkerProofs`, for every number of workers, threads and outcomes. `IInv` is inductive:
types; who belongs to whom (`BelongInv`); a thread in the critical section holds the
mutex (`WorkInv`); a runner has marked its worker and is the only one to have passed
the check (`RunnerInv`); `_running` means there is a runner; the flag is never behind
the interruption (`CancelInv`); a thread that leaves has found the worker running or has completed it
(`SilenceInv`); a thread has an outcome exactly when the delegate has returned it one (`CallInv`). `DelegateExclusive` alone is not inductive: two threads between
check and mark would break it, and only the mutex excludes them. Each discipline adds a layer.
`BackgroundInv` adds that only a started worker has threads and that no such worker is run on the main
thread (`StartedInv`). On it rests `ResultBelongsToFinisher`: from its publication until it has cleared
`_running`, a thread finds its own result in `_result`. With that, `CompleteMeansPublished` is inductive: the
thread that sets `_complete` has its result there, and whoever replaces the result afterwards has an outcome,
too; an interrupted thread never gets that far. `OnceInv` adds that a worker has one
thread and that a complete one has that thread's result. `PatienceIsSafe` adds `PatientInv`, an owner that
holds on until then.

Three more results of `IInv`. `MutexIsNeverAbandoned`, which is its `MutexHasHolder`: who holds the work mutex is inside the section that
unlocks it, so those who queue at `Worker.cpp:186` wait for a thread that is on its way. `SomebodyHasTheWord`:
when the last thread of a worker is over, the worker is complete or cancelled. It is not inductive: a
thread that leaves because it found `_running` relies on the runner, and the runner on having set
`_complete` before it clears the flag, or on `_cancelled` if it was interrupted. `DelegatesAreCalledAsSpecified`
and `EveryThreadImplementsDelegate`: each thread's steps are those of `Delegate`, which the real delegate
implements (`RunIsADelegate`), so the two halves of the project meet in one specification.

`ThreadTimerProofs`, for every set of addresses that are naturals: the iterator is valid and the
walk monotone under `TameSpec` (`IInv`), the types kept and the timer armed under `Spec` (`LooseInv`). The
least element of a set of naturals comes from `WellFoundedInduction`.

`NVObjHTTPWorkerProofs`, for every set of objects, workers and threads and every depth of nesting. It
does not repeat the components' proofs. `ActionIsWorkers` and `ActionIsTimers` show that every step of the
composition is a step of `Worker` or leaves it alone, and the same of `ThreadTimer`; then the lemmas of
`WorkerProofs` and `ThreadTimerProofs`, taken with `INSTANCE`, say what becomes of their invariants. What
is left is proved here in two layers:

* `ObjectInv`, of any application: there is one callback of the timer at most and it is of the object
  inside its `notify()` (`FrameInv`); whoever is about to call back has room on the stack (`DepthInv`);
  who is inside `notify()` has the main thread to itself (`CallingInv`); the workers of objects that exist are owned and not shared, and whoever is in the map exists (`OwnInv`).
  It gives `TypeOK`, `WatchedHasWorker` and `WorkersAreNotShared`.
* `CourteousInv`, of a courteous one. `CourteousStays` shows that its steps are those of `TameSpec` and
  `CourteousOnce` that its workers are started once, so the stronger invariants of the components hold;
  `Effect` then shows for each action at once that it keeps `AwaitingIsWatched` and `WatchedIsAlive` and is
  a step of `Notification` or none. `FoundInv` adds that what `notify()` has asked is still true when it
  reads the result: `_complete` is never reset. From these follow the action property `CompletedMeansDone`
  and the refinement `AnswersOnce`. Together with `SilenceInv` of `Worker` it gives
  `AwaitingIsAnswerable`: whoever waits has a thread on its way, or `notify()` finds what to tell.

Five theorems put the levels together: the objects implement the specification of `Worker`
(`ObjectsUseWorkers`) and that of `ThreadTimer` (`ObjectsUseTheTimer`), a courteous application is a tame
user of the timer (`CourtesyTamesTheTimer`), and a patient one is a patient owner
(`PatienceIsTheOwners`), so that `PatienceIsSafe` of `Worker` holds of it (`PatientApplicationsAreSafe`).

Neither `AwaitingIsWatched` nor `WatchedIsAlive` is inductive alone: that a callback which returns removes
the right entry needs the timer's iterator to stand at the object inside its `notify()`, and that a
completion is true needs to know that `_complete` was set by the only thread the worker ever had.

`CppNetlibDelegateProofs`, for every number of endpoints. `IInv` joins what is pending with what is settled
and what the running handler has still to settle (`SettledSoFar`), how it settles it (`SettlingInv`: nothing
twice, values from the first that is left to the last, errors only where the last awaited part has no value),
what the last awaited part stands for (`EndsTogether`), who owns the client with where `run()` is and whether
the io thread runs (`OwnerInv`), and what `run()` has seen with what is settled (`SeenInv`). `ResponseIsWhole`
alone is not inductive: that the headers are there says nothing of the body, nor, while the handler is still
at work, the body of what comes after it; and the errors of a handler come in four orders, so only of the
values can an order be said. That is `ValuesInOrder` (`ValuesComeInOrder`): between any two settlements, who
has a value can have those of all parts before it, and who has the last awaited part has a response no part
of which fails. `WaitsForSomebody` follows from how `EndsTogether` and
`OwnerInv` tie the promises to what is pending. `ExchangesGoOn` takes a measure, `Ahead`, of what is left of the
exchange: a failed connection uses up an address, and the write and every part of the response come after
the addresses, so that each move lowers it. It is the safety half of `RunEnds`: only the waiting is left to fairness. `ConnStep` shows once that every step of the connection
keeps its invariant and every settled promise; the steps of `run()` need no more of it. `RunIsADelegate`
then maps each step to one of `Delegate` or to none.

`RequestParamsProofs`, for every set of rows and responses and every number of runs. A local has its default
until its name has been read, and the row's text from then on (`ParamInv`). `TypeOK` is inductive only together with these invariants: that a
local is of its type rests on the cast, which throws for any other cell before the local is assigned. `HeadersAreNotMixed` alone is not
inductive, since a row without a key would keep that of the row before; `HeaderInv` adds that all the maps of
one list have the same names, so that a local which one of them fills is filled by each. `AnswerInv` says that a
result belongs to its run, and `ListInv` that the delegate's list is empty whenever a run fills it, before the
first run or when `setList` takes it away. TLC checked these on the instance of `params`.

The assumptions are those of the modules: a list has as many rows and columns as it says (`RowsAssumption`),
a response's headers are a sequence (`ResponsesAssumption`), no method is the empty text
(`TextsAssumption`), the constants that stand for nobody are none of the others (`NoneAssumption`,
`ValuesAssumption`, `ObjectsAssumption`), addresses are naturals, and there is room for one callback
(`DepthAssumption`).

Model-checked only: the liveness properties (`CompletesUnlessCancelled`, `ThreadsEnd`,
`EverySubscriberIsNotified`, `EveryStartIsAnswered`, `RunEnds`), which the prover does not reach, and the four
runs that refute a comment.

## 5. Not modelled, and the plan

* `$run` of a worker beside a thread of the same worker: both are in one delegate then, whose list of
  headers they fill at once without a lock. `Worker` has the two beside each other; `RequestParams` has one
  run after the other, since nothing can be said of two threads in one Omnis list.
* The decoding of chunked bodies, the streaming callback and the resolver's cache of cpp-netlib: the
  component never streams and makes a client per request. The server half of cpp-netlib: nothing uses it.
* The static methods of `Static.cpp`: they log a text and return whether there was one.
* The rest of `OmnisTools.cpp`: the cache of constants, dates, formats, bounds and qualifiers of parameters.
  Nothing in this component calls them.
* Properties: the one there is, a leftover (`cPropertyMyProperty`), is read as nothing and assigned to nothing.
* Tables, resources, logging and the build.
