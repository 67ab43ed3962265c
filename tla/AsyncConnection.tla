-------------------------- MODULE AsyncConnection --------------------------
(***************************************************************************)
(* One request of the vendored cpp-netlib client: the connection object of *)
(* async_normal.hpp, whose handlers run one at a time on the client's io   *)
(* thread, and the seven promises through which the response reaches the   *)
(* caller.  Exactly one asynchronous operation is pending at a time.       *)
(*                                                                         *)
(* A handler settles the promises one after the other, and the caller's    *)
(* thread sees each as soon as it is settled: every set_value and          *)
(* set_exception is a step, in the order in which its handler makes them.  *)
(*                                                                         *)
(* The bytes are abstract: a read brings some, and at each part of the     *)
(* response they are enough, or run out, or do not belong there.  An ssl   *)
(* short read is an end of file, as in the code.                           *)
(***************************************************************************)
EXTENDS Integers, Sequences

CONSTANT MaxEndpoints   \* bound: addresses a name resolves to

ASSUME EndpointsAssumption == MaxEndpoints \in Nat \ {0}

\* The parts of a response in the order of state_t, then the two that carry no
\* value of their own, in the order in which the end of a response settles them.
Version == 0
Status == 1
StatusMessage == 2
Headers == 3
Body == 4
Destination == 5
Source == 6
Parts == Version .. Source
States == Version .. Body

VARIABLES
    pending,    \* the asynchronous operation under way
    parsing,    \* the io thread is inside handle_received_data, with bytes it has read
    settling,   \* the promises the handler that runs has still to settle, in its order,
    verdict,    \* and what it settles them with
    endpoints,  \* addresses left to try
    state,      \* the state_t bound into the read's handler, or that it has fallen through to
    promise,    \* the seven promises
    getBody,    \* get_body: not a HEAD request
    peer,       \* "closed" once the server has closed the connection
    resolver,   \* the resolve handler and the client reference bound into it:
                \* "unused", "busy", "returning" while it is on the io thread's stack, "gone"
    fault       \* what has brought the process down

handlerVars == <<parsing, settling, verdict>>
connVars == <<pending, handlerVars, endpoints, state, promise, getBody, peer, resolver>>

Pendings == {"none", "resolve", "connect", "write", "read"}
Settlements == {"value", "error"}
Resolvers == {"unused", "busy", "returning", "gone"}
Faults == {"none", "settledTwice", "badStatus", "destructorThrows", "selfJoin"}

ConnTypeOK ==
    /\ pending \in Pendings
    /\ parsing \in BOOLEAN
    /\ settling \in Seq(Parts)
    /\ verdict \in Settlements
    /\ endpoints \in 0 .. MaxEndpoints
    /\ state \in States
    /\ promise \in [Parts -> Settlements \cup {"unset"}]
    /\ getBody \in BOOLEAN
    /\ peer \in {"open", "closed"}
    /\ resolver \in Resolvers
    /\ fault \in Faults

ConnInit ==
    /\ pending = "none"
    /\ parsing = FALSE
    /\ settling = <<>>
    /\ verdict = "error"
    /\ endpoints = 0
    /\ state = Version
    /\ promise = [p \in Parts |-> "unset"]
    /\ getBody = TRUE
    /\ peer = "open"
    /\ resolver = "unused"
    /\ fault = "none"

-----------------------------------------------------------------------------
(* Settling promises *)

\* set_value or set_exception; the second time for one promise it throws, out of the
\* handler and of io_service::run.
SetPromise(p, v) ==
    IF promise[p] = "unset"
    THEN promise' = [promise EXCEPT ![p] = v] /\ UNCHANGED fault
    ELSE fault' = "settledTwice" /\ UNCHANGED promise

\* The orders in which the handlers that end an exchange settle what is left of it:
\* set_errors; a part that is malformed, and all after it; a read that fails; and the
\* end of a good response, at the end of the file or, without a body, of the headers.
SetErrors == <<Version, Status, StatusMessage, Headers, Source, Destination, Body>>

MalformedErrors(part) ==
    IF part = Headers THEN <<Headers, Body, Source, Destination>>
    ELSE SubSeq(SetErrors, part + 1, Len(SetErrors))

ReadErrors(part) ==
    <<Source, Destination>>
        \o SubSeq(<<Version, Status, StatusMessage, Headers, Body>>, part + 1, 5)

EndValues == <<Body, Destination, Source>>

\* What a handler comes to: the next operation, or the end of the exchange, whose
\* promises it still has to settle.
GoesOn(op) == pending' = op /\ UNCHANGED <<settling, verdict>>

Ends(order, v) ==
    /\ pending' = "none"
    /\ settling' = order
    /\ verdict' = v

\* The next promise of the handler that ends the exchange.
SettleNext ==
    /\ settling # <<>> /\ fault = "none"
    /\ SetPromise(Head(settling), verdict)
    /\ settling' = Tail(settling)
    /\ UNCHANGED <<pending, parsing, verdict, endpoints, state, getBody, peer, resolver>>

-----------------------------------------------------------------------------
(* The handlers *)

\* start(), called by the client's caller: the futures, then the resolution, whose
\* handler shares the ownership of the client.
StartRequest(withBody) ==
    /\ resolver = "unused"
    /\ pending' = "resolve"
    /\ resolver' = "busy"
    /\ getBody' = withBody
    /\ UNCHANGED <<handlerVars, endpoints, state, promise, peer, fault>>

\* The operation op is complete and the io thread is not inside a handler.
Handling(op) == pending = op /\ ~parsing /\ resolver # "returning" /\ fault = "none"

\* Mutant of HandleResolved: an empty range of endpoints is no error.
HandleResolvedEmptyIgnored ==
    /\ Handling("resolve")
    /\ resolver' = "returning"
    /\ \E n \in 0 .. MaxEndpoints :
        /\ endpoints' = IF n > 0 THEN n - 1 ELSE 0
        /\ GoesOn(IF n > 0 THEN "connect" ELSE "none")
    /\ UNCHANGED <<parsing, state, promise, getBody, peer, fault>>

\* handle_resolved, inside the resolver's own handler.
HandleResolved ==
    /\ Handling("resolve")
    /\ resolver' = "returning"
    /\ \/ GoesOn("connect") /\ \E n \in 1 .. MaxEndpoints : endpoints' = n - 1
       \/ Ends(SetErrors, "error") /\ UNCHANGED endpoints
    /\ UNCHANGED <<parsing, state, promise, getBody, peer, fault>>

\* Mutant of HandleConnected: the next address is tried without looking for one.
HandleConnectedUnchecked ==
    /\ Handling("connect")
    /\ \/ GoesOn("write") /\ UNCHANGED endpoints
       \/ GoesOn("connect") /\ endpoints' = endpoints - 1
    /\ UNCHANGED <<parsing, state, promise, getBody, peer, resolver, fault>>

\* handle_connected: the write, the next address, or the error of the last one.
HandleConnected ==
    /\ Handling("connect")
    /\ \/ GoesOn("write") /\ UNCHANGED endpoints
       \/ endpoints > 0 /\ GoesOn("connect") /\ endpoints' = endpoints - 1
       \/ endpoints = 0 /\ Ends(SetErrors, "error") /\ UNCHANGED endpoints
    /\ UNCHANGED <<parsing, state, promise, getBody, peer, resolver, fault>>

\* Mutant of HandleSentRequest: a write that fails is tried again on a new connection.
HandleSentRequestRetries ==
    /\ Handling("write")
    /\ \/ GoesOn("read") /\ state' = Version
       \/ GoesOn("connect") /\ UNCHANGED state
    /\ UNCHANGED <<parsing, endpoints, promise, getBody, peer, resolver, fault>>

\* handle_sent_request
HandleSentRequest ==
    /\ Handling("write")
    /\ \/ GoesOn("read") /\ state' = Version
       \/ Ends(SetErrors, "error") /\ UNCHANGED state
    /\ UNCHANGED <<parsing, endpoints, promise, getBody, peer, resolver, fault>>

-----------------------------------------------------------------------------
(* handle_received_data.  Its switch falls through: one call may settle      *)
(* every part from the state of the read to the headers, and then issues the *)
(* next read or ends the exchange.  Until then `pending` is the read it ends.*)

\* A read brings bytes.  Those of the body are appended and the next read is issued.
Receive ==
    /\ Handling("read") /\ peer = "open" /\ state # Body
    /\ parsing' = TRUE
    /\ UNCHANGED <<pending, settling, verdict, endpoints, state, promise, getBody, peer, resolver, fault>>

\* Mutant of ParsePart: the switch goes on with the part it has parsed.
ParsePartStays ==
    /\ parsing /\ fault = "none"
    /\ SetPromise(state, "value")
    /\ UNCHANGED <<pending, handlerVars, endpoints, state, getBody, peer, resolver>>

\* The bytes complete a part and its promise is settled.  After the headers comes a
\* read of the body, or, for a HEAD request, the end of the exchange.
ParsePart ==
    /\ parsing /\ fault = "none"
    /\ SetPromise(state, "value")
    /\ parsing' = (state # Headers)
    /\ IF state = Headers /\ ~getBody
       THEN Ends(EndValues, "value") /\ UNCHANGED state
       ELSE GoesOn("read") /\ state' = state + 1
    /\ UNCHANGED <<endpoints, getBody, peer, resolver>>

\* The bytes run out: another read, with the part they have got to.
ParseWantsMore ==
    /\ parsing /\ fault = "none"
    /\ parsing' = FALSE
    /\ UNCHANGED <<pending, settling, verdict, endpoints, state, promise, getBody, peer, resolver, fault>>

\* Mutant of ParseRejects: the switch falls through to the next part as after a good one.
ParseRejectsFallsThrough ==
    /\ parsing /\ fault = "none"
    /\ SetPromise(state, "error")
    /\ parsing' = (state # Headers)
    /\ state' = state + 1
    /\ UNCHANGED <<pending, settling, verdict, endpoints, getBody, peer, resolver>>

\* A byte that does not belong: this part and all after it fail.
ParseRejects ==
    /\ parsing /\ fault = "none"
    /\ parsing' = FALSE
    /\ Ends(MalformedErrors(state), "error")
    /\ UNCHANGED <<endpoints, state, promise, getBody, peer, resolver, fault>>

\* The digits of the status are no uint16_t: lexical_cast throws out of the handler.
ParseBadStatus ==
    /\ parsing /\ state = Status /\ fault = "none"
    /\ fault' = "badStatus"
    /\ UNCHANGED connVars

\* The end of the file ends a body.  Before that it is parsed as a read of no
\* bytes, which wants more: the same read is issued again, for ever.
ReceiveEof ==
    /\ Handling("read") /\ peer = "closed"
    /\ IF state = Body THEN Ends(EndValues, "value") ELSE GoesOn("read")
    /\ UNCHANGED <<parsing, endpoints, state, promise, getBody, peer, resolver, fault>>

\* Any other error.
ReceiveError ==
    /\ Handling("read")
    /\ Ends(ReadErrors(state), "error")
    /\ UNCHANGED <<parsing, endpoints, state, promise, getBody, peer, resolver, fault>>

\* The server closes the connection when it has sent what it wanted to send.
PeerCloses ==
    /\ pending = "read" /\ peer = "open" /\ fault = "none"
    /\ peer' = "closed"
    /\ UNCHANGED <<pending, handlerVars, endpoints, state, promise, getBody, resolver, fault>>

\* Steps that need the machine alone, and steps that need the server.
ParseStep == ParsePart \/ ParseWantsMore \/ ParseRejects \/ ParseBadStatus

IoStep ==
    \/ HandleResolved \/ HandleConnected \/ HandleSentRequest
    \/ ParseStep \/ ReceiveEof \/ SettleNext

ServerStep == Receive \/ ReceiveError \/ PeerCloses

-----------------------------------------------------------------------------
(* Properties *)

\* No promise is ever set twice: a handler that did would throw out of the io
\* thread's io_service::run and end the process.
SettledOnce == fault # "settledTwice"

\* When nothing is pending any more and the last handler has returned, every future of
\* a request is settled: no path of the handlers, the error paths included, leaves a
\* caller waiting for a promise nobody will set.
NothingForgotten ==
    resolver \in {"returning", "gone"} /\ pending = "none" /\ settling = <<>> /\ fault = "none"
        => \A p \in Parts : promise[p] # "unset"

\* The promise that settles last among those run() waits for.
Decisive == IF getBody THEN Body ELSE Headers

\* In whatever segments the response comes and wherever its handler stands, a caller
\* that has the value of a part can have those of all parts before it, and one that has
\* the last part it waits for has a response no part of which has failed or will fail.
ValuesInOrder ==
    /\ \A p, q \in Parts : p < q /\ promise[q] = "value" => promise[p] = "value"
    /\ promise[Decisive] = "value" => \A p \in Parts : promise[p] # "error"

\* How much of an exchange is ahead, at most: the request itself, the addresses to try,
\* the write, and the parts of the response.
Ahead ==
    IF resolver = "unused" THEN MaxEndpoints + 8
    ELSE CASE pending = "resolve" -> MaxEndpoints + 7
           [] pending = "connect" -> endpoints + 7
           [] pending = "write" -> 6
           [] pending = "read" -> 5 - state
           [] pending = "none" -> 0

\* A read before the body met the end of the file: the io thread is busy for ever.
Spinning == pending = "read" /\ ~parsing /\ state # Body /\ peer = "closed"
-----------------------------------------------------------------------------
(* The strengthening that makes the properties inductive *)

AllUnset == \A p \in Parts : promise[p] = "unset"

\* The handler that runs has yet to settle p.
ToSettle(p) == \E i \in 1 .. Len(settling) : settling[i] = p

\* As long as the process is up, what is settled follows from what is pending: a read
\* has settled the parts before its state, nothing is settled before the first one, and
\* at the end of an exchange what is not settled is left to the handler that runs.
SettledSoFar ==
    fault = "none" =>
        /\ pending # "none" => \A p \in Parts : promise[p] = IF p < state THEN "value" ELSE "unset"
        /\ pending \in {"resolve", "connect", "write"} \/ resolver = "unused" => state = Version
        /\ resolver = "unused" => pending = "none" /\ AllUnset
        /\ resolver = "busy" <=> pending = "resolve"
        /\ resolver \in {"busy", "returning"} => \A p \in Parts : promise[p] # "value"
        /\ parsing => pending = "read" /\ resolver = "gone" /\ state # Body
        /\ pending # "none" \/ resolver = "unused" => settling = <<>>
        /\ pending = "none" /\ resolver # "unused" =>
              \A p \in Parts : promise[p] = "unset" <=> ToSettle(p)

\* A handler settles no promise twice.  It settles values from the first that is left to
\* the last, and errors only where the decisive part has no value.
SettlingInv ==
    fault = "none" /\ settling # <<>> =>
        /\ \A i, j \in 1 .. Len(settling) : i < j => settling[i] # settling[j]
        /\ verdict = "value" =>
              /\ \A i, j \in 1 .. Len(settling) : i < j => settling[i] < settling[j]
              /\ \A p \in Parts : promise[p] # "error"
        /\ verdict = "error" => promise[Decisive] # "value"
        /\ resolver \in {"busy", "returning"} => verdict = "error"

\* With the decisive part every part has its value, or is about to get it.
EndsTogether ==
    /\ promise[Decisive] = "value" =>
          \A p \in Parts : promise[p] = "value" \/ (ToSettle(p) /\ verdict = "value")
    /\ ~getBody => state # Body

ConnInv ==
    /\ ConnTypeOK /\ SettledSoFar /\ SettlingInv /\ EndsTogether
    /\ ValuesInOrder /\ NothingForgotten /\ SettledOnce
=============================================================================
