------------------------- MODULE CppNetlibDelegate -------------------------
(***************************************************************************)
(* CppNetlibDelegate::run() on the thread of a worker, the client it       *)
(* creates, the client's io thread and the connection of AsyncConnection.  *)
(*                                                                         *)
(* The caller waits for the futures of the response in a fixed order and   *)
(* touches the worker's lists only when it has them all.  Waiting for a    *)
(* future that is not settled, and joining the io thread, are interruption *)
(* points of boost::thread; nothing else here is.  The client is owned by  *)
(* run()'s local variable and, until the name is resolved, by the handler  *)
(* of the resolver.                                                        *)
(***************************************************************************)
EXTENDS AsyncConnection

\* What the parameters make of the request: no url, a header cell that is not a
\* string, a method that is none of the five, HEAD, or one that has a body.
Kinds == {"noUrl", "badHeader", "unsupported", "head", "body"}

VARIABLES
    at,        \* where run() is
    kind,      \* the request
    leaving,   \* how the scope of the client is left
    result,    \* run()'s map: "empty", or with the "response"
    intr,      \* the thread's interruption request
    client,    \* the async_client: "none", "held" by run(), "orphan" when the resolver's
               \* handler alone holds it, "destroying" without its sentinel, "destroyed"
    ioThread   \* lifetime_thread_: "none", "running" or "ended"

callVars == <<at, kind, leaving, result, intr, client, ioThread>>
vars == <<connVars, fault, callVars>>

Awaiting == {"status", "body", "headers"}
Finished == {"returned", "interrupted"}

TypeOK ==
    /\ ConnTypeOK
    /\ at \in {"out", "parameters", "dispatch", "leave", "join"} \cup Awaiting \cup Finished
    /\ kind \in Kinds
    /\ leaving \in {"empty", "response", "interrupted"}
    /\ result \in {"empty", "response"}
    /\ intr \in BOOLEAN
    /\ client \in {"none", "held", "orphan", "destroying", "destroyed"}
    /\ ioThread \in {"none", "running", "ended"}

Init ==
    /\ ConnInit
    /\ at = "out"
    /\ kind \in Kinds
    /\ leaving = "empty"
    /\ result = "empty"
    /\ intr = FALSE
    /\ client = "none"
    /\ ioThread = "none"

-----------------------------------------------------------------------------
(* The caller *)

Call ==
    /\ at = "out"
    /\ at' = "parameters"
    /\ UNCHANGED <<connVars, fault, kind, leaving, result, intr, client, ioThread>>

\* The parameters, the validation of the url, and the request with its headers: a
\* bad header is caught outside the try block's client, like every exception.
ReadParameters ==
    /\ at = "parameters"
    /\ at' = IF kind \in {"noUrl", "badHeader"} THEN "returned" ELSE "dispatch"
    /\ UNCHANGED <<connVars, fault, kind, leaving, result, intr, client, ioThread>>

\* The client and its io thread come first; a method run() does not know leaves
\* with an empty result.
Dispatch ==
    /\ at = "dispatch"
    /\ client' = "held"
    /\ ioThread' = "running"
    /\ IF kind = "unsupported"
       THEN /\ at' = "leave" /\ leaving' = "empty"
            /\ UNCHANGED <<connVars, fault>>
       ELSE /\ at' = "status" /\ UNCHANGED leaving
            /\ StartRequest(kind = "body")
    /\ UNCHANGED <<kind, result, intr>>

\* The promise run() waits for, and where it goes from there.
Awaited == CASE at = "status" -> Status [] at = "body" -> Body [] at = "headers" -> Headers
AfterAwait == IF at = "status" /\ kind = "body" THEN "body" ELSE "headers"

\* Mutant of AwaitValue: the body is taken without waiting for it.
AwaitValueNotBody ==
    /\ at \in {"status", "body"}
    /\ promise[Awaited] = "value" \/ at = "body"
    /\ at' = AfterAwait
    /\ UNCHANGED <<connVars, fault, kind, leaving, result, intr, client, ioThread>>

AwaitValue ==
    /\ at \in {"status", "body"}
    /\ promise[Awaited] = "value"
    /\ at' = AfterAwait
    /\ UNCHANGED <<connVars, fault, kind, leaving, result, intr, client, ioThread>>

\* With the headers run() has everything: it fills the header list, then the result
\* list, and puts it into the map.
FillLists ==
    /\ at = "headers"
    /\ promise[Headers] = "value"
    /\ at' = "leave"
    /\ leaving' = "response"
    /\ UNCHANGED <<connVars, fault, kind, result, intr, client, ioThread>>

\* A future that holds an exception rethrows it; run() catches it and returns what
\* it has, an empty map.
AwaitError ==
    /\ at \in Awaiting
    /\ promise[Awaited] = "error"
    /\ at' = "leave"
    /\ leaving' = "empty"
    /\ UNCHANGED <<connVars, fault, kind, result, intr, client, ioThread>>

\* Mutant of AwaitInterrupted: the request outlives the exception.
AwaitInterruptedAgain ==
    /\ at \in Awaiting
    /\ promise[Awaited] = "unset"
    /\ intr
    /\ at' = "leave"
    /\ leaving' = "interrupted"
    /\ UNCHANGED <<connVars, fault, kind, result, intr, client, ioThread>>

\* thread_interrupted is no std::exception: run() does not catch it.
AwaitInterrupted ==
    /\ at \in Awaiting
    /\ promise[Awaited] = "unset"
    /\ intr
    /\ at' = "leave"
    /\ leaving' = "interrupted"
    /\ intr' = FALSE
    /\ UNCHANGED <<connVars, fault, kind, result, client, ioThread>>

\* Where run() goes when the client is gone.
Finish ==
    /\ at' = IF leaving = "interrupted" THEN "interrupted" ELSE "returned"
    /\ result' = IF leaving = "response" THEN "response" ELSE "empty"

\* Mutant of DropClient: ~async_client does not wait for its io thread.
DropClientDetached ==
    /\ at = "leave"
    /\ client' = IF resolver \in {"busy", "returning"} THEN "orphan" ELSE "destroying"
    /\ Finish
    /\ UNCHANGED <<connVars, fault, kind, leaving, intr, ioThread>>

\* client_ goes out of scope.  Its reference is the last one, and ~async_client runs,
\* unless the resolver's handler still has one.
DropClient ==
    /\ at = "leave"
    /\ IF resolver \in {"busy", "returning"}
       THEN client' = "orphan" /\ Finish
       ELSE client' = "destroying" /\ at' = "join" /\ UNCHANGED result
    /\ UNCHANGED <<connVars, fault, kind, leaving, intr, ioThread>>

JoinReturns ==
    /\ at = "join" /\ ioThread = "ended"
    /\ client' = "destroyed"
    /\ Finish
    /\ UNCHANGED <<connVars, fault, kind, leaving, intr, ioThread>>

\* join() throws thread_interrupted out of a destructor declared throw().
JoinInterrupted ==
    /\ at = "join" /\ ioThread = "running" /\ intr
    /\ fault' = "destructorThrows"
    /\ UNCHANGED <<connVars, callVars>>

-----------------------------------------------------------------------------
(* The io thread and the rest *)

\* The resolver's handler returns and its reference goes; if it was the last one,
\* ~async_client runs on the io thread, which joins itself.
ResolverReturns ==
    /\ resolver = "returning" /\ settling = <<>>
    /\ resolver' = "gone"
    /\ fault' = IF client = "orphan" THEN "selfJoin" ELSE fault
    /\ UNCHANGED <<pending, handlerVars, endpoints, state, promise, getBody, peer, callVars>>

\* Mutant of IoThreadEnds: the sentinel is never released.
IoThreadEndsWithHandler ==
    /\ ioThread = "running" /\ client = "destroyed"
    /\ ioThread' = "ended"
    /\ UNCHANGED <<connVars, fault, at, kind, leaving, result, intr, client>>

\* io_service::run returns when the sentinel is released, nothing is pending and the last
\* handler has returned.
IoThreadEnds ==
    /\ ioThread = "running" /\ client = "destroying"
    /\ pending = "none" /\ settling = <<>> /\ resolver \in {"unused", "gone"}
    /\ ioThread' = "ended"
    /\ UNCHANGED <<connVars, fault, at, kind, leaving, result, intr, client>>

\* Worker::cancel interrupts the thread, at any time.
Interrupt ==
    /\ intr' = TRUE
    /\ UNCHANGED <<connVars, fault, at, kind, leaving, result, client, ioThread>>

CallerStep ==
    \/ Call \/ ReadParameters \/ Dispatch
    \/ AwaitValue \/ FillLists \/ AwaitError \/ AwaitInterrupted
    \/ DropClient \/ JoinReturns \/ JoinInterrupted

IoThreadStep ==
    \/ IoStep /\ UNCHANGED callVars
    \/ ResolverReturns
    \/ IoThreadEnds

Next ==
    /\ fault = "none"
    /\ \/ CallerStep
       \/ IoThreadStep
       \/ ServerStep /\ UNCHANGED callVars
       \/ Interrupt

Spec == Init /\ [][Next]_vars

\* Both threads are scheduled, name resolution, connecting and writing end one way or
\* another, and a server closes the connection in the end.  Nothing makes it answer.
Fairness ==
    /\ WF_vars(fault = "none" /\ CallerStep)
    /\ WF_vars(fault = "none" /\ IoThreadStep)
    /\ WF_vars(PeerCloses /\ UNCHANGED callVars)

FairSpec == Spec /\ Fairness

-----------------------------------------------------------------------------
(* Properties *)

\* A response is returned only with the status, the headers and, unless for HEAD, the
\* body of an exchange that went well to its end, and after its io thread has ended:
\* an interruption, an error or a connection cut before the headers are complete yields
\* no half-filled list.  To the code, which looks at no Content-Length, an end of file in
\* mid-body is the good end of the response, and so it is here.
ResponseIsWhole ==
    result = "response" =>
        /\ ioThread = "ended"
        /\ \A p \in Parts : promise[p] = "value"

\* When run() is over, so is its io thread, and no handler will touch what the caller
\* has given up.  The one way around it is the reference that the resolver's handler
\* holds, when run() fails or is interrupted before that handler has returned.
IoEndsWithRun ==
    at \in Finished =>
        \/ ioThread # "running" /\ pending = "none" /\ settling = <<>>
        \/ client = "orphan" /\ result = "empty"

\* run() never waits for a promise that nobody is left to settle: the io thread runs
\* and has something to do that settles it.
WaitsForSomebody ==
    at \in Awaiting /\ promise[Awaited] = "unset" /\ fault = "none" =>
        ioThread = "running" /\ (pending # "none" \/ settling # <<>>)

\* An exchange never goes back: every move of the connection, to the next address, to
\* the write, to a later part or to the end, whoever fails, leaves less ahead of it.
ExchangeGoesOn == [][Ahead' < Ahead \/ UNCHANGED <<pending, endpoints, state>>]_vars

\* A run ends once the server has closed the connection, whatever it sent and whoever
\* interrupts, unless it closed before the headers were complete.
RunEnds ==
    (at = "parameters") ~> (at \in Finished \/ fault # "none" \/ Spinning)

\* run() is a delegate as module Worker assumes it.
Abstract == INSTANCE Delegate WITH
    Outcomes <- {"empty", "response"},
    at <- CASE at \in {"out", "returned", "interrupted"} -> at
            [] at = "leave" /\ leaving = "interrupted" -> "unwind"
            [] at = "join" /\ leaving = "interrupted" -> "unwind"
            [] OTHER -> "run",
    intr <- intr,
    outcome <- result,
    alive <- fault = "none"

ImplementsDelegate == Abstract!Spec
-----------------------------------------------------------------------------
(* The strengthening that makes the properties inductive *)

\* Where run() is, who owns the client, and what its io thread does.
OwnerInv ==
    /\ client = "none" <=> ioThread = "none"
    /\ client = "none" =>
          resolver = "unused" /\ pending = "none" /\ settling = <<>> /\ leaving = "empty"
    /\ at \in {"out", "parameters", "dispatch"} => client = "none"
    /\ at \in Awaiting \cup {"leave"} => client = "held" /\ ioThread = "running"
    /\ at = "join" => client = "destroying"
    /\ at \in Finished => client \in {"none", "orphan", "destroyed"}
    /\ client = "destroying" => resolver \in {"unused", "gone"}
    /\ client = "destroyed" => ioThread = "ended"
    /\ client = "orphan" => leaving # "response"
    /\ ioThread = "ended" => pending = "none" /\ settling = <<>> /\ resolver \in {"unused", "gone"}

\* What run() has seen of the response so far.
SeenInv ==
    /\ at \in Awaiting => resolver # "unused" /\ leaving = "empty" /\ (getBody <=> kind = "body")
    /\ at = "body" => kind = "body"
    /\ at = "headers" /\ getBody => promise[Body] = "value"
    /\ leaving = "response" =>
          promise[Headers] = "value" /\ (getBody => promise[Body] = "value")
    /\ result = "response" => at = "returned" /\ leaving = "response"

IInv == TypeOK /\ ConnInv /\ OwnerInv /\ SeenInv /\ ResponseIsWhole
=============================================================================
