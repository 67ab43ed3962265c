----------------------- MODULE CppNetlibDelegateProofs -----------------------
(***************************************************************************)
(* Theorems about CppNetlibDelegate, for any number of endpoints: what run() *)
(* returns is whole, its io thread ends with it, no promise is settled     *)
(* twice or forgotten, and it is a delegate as module Delegate states it.  *)
(***************************************************************************)
EXTENDS CppNetlibDelegate, SequenceTheorems, TLAPS

USE DEF Parts, States, Version, Status, StatusMessage, Headers, Body, Source, Destination

-----------------------------------------------------------------------------
(* The orders in which promises are settled *)

\* The order names the parts of S, each once.
Lists(order, S) ==
    /\ order \in Seq(Parts)
    /\ \A i, j \in 1 .. Len(order) : i < j => order[i] # order[j]
    /\ \A p \in Parts : p \in S <=> \E i \in 1 .. Len(order) : order[i] = p

\* What is left of a sequence without its head.
LEMMA TailFacts ==
    ASSUME NEW s \in Seq(Parts), s # <<>>
    PROVE  /\ Head(s) = s[1] /\ Head(s) \in Parts /\ Len(s) \in Nat \ {0}
           /\ Tail(s) \in Seq(Parts) /\ Len(Tail(s)) = Len(s) - 1
           /\ \A i \in 1 .. Len(Tail(s)) : Tail(s)[i] = s[i + 1]
OBVIOUS

LEMMA SetErrorsLists == Lists(SetErrors, Version .. Source)
BY DEF Lists, SetErrors

LEMMA EndValuesLists ==
    /\ Lists(EndValues, Body .. Source)
    /\ \A i, j \in 1 .. Len(EndValues) : i < j => EndValues[i] < EndValues[j]
BY DEF Lists, EndValues

LEMMA MalformedErrorsLists ==
    ASSUME NEW part \in Version .. Headers
    PROVE  Lists(MalformedErrors(part), part .. Source)
<1>1. CASE part = Headers
  BY <1>1 DEF MalformedErrors, Lists
<1>2. CASE part # Headers
  <2> DEFINE order == SubSeq(SetErrors, part + 1, 7)
  <2>1. /\ Len(SetErrors) = 7
        /\ \A i \in 1 .. 7 : SetErrors[i] \in Parts
        /\ \A i \in 1 .. 4 : SetErrors[i] = i - 1
        /\ SetErrors[5] = Source /\ SetErrors[6] = Destination /\ SetErrors[7] = Body
    BY DEF SetErrors
  <2>2. /\ order \in Seq(Parts) /\ Len(order) = 7 - part
        /\ \A i \in 1 .. 7 - part : order[i] = SetErrors[part + i]
    <3>1. part + 1 \in Int /\ 7 \in Int /\ \A i \in part + 1 .. 7 : SetErrors[i] \in Parts
      BY <2>1
    <3>2. /\ order \in Seq(Parts)
          /\ Len(order) = IF part + 1 <= 7 THEN 7 - (part + 1) + 1 ELSE 0
          /\ \A i \in 1 .. 7 - (part + 1) + 1 : order[i] = SetErrors[part + 1 + i - 1]
      BY <3>1, SubSeqProperties
    <3>. QED
      BY <3>2
  <2>3. MalformedErrors(part) = order
    BY <1>2, <2>1 DEF MalformedErrors
  <2>. HIDE DEF order
  <2>4. Lists(order, part .. Source)
    <3>1. CASE part = Version
      BY <2>1, <2>2, <3>1 DEF Lists
    <3>2. CASE part = Status
      BY <2>1, <2>2, <3>2 DEF Lists
    <3>3. CASE part = StatusMessage
      BY <2>1, <2>2, <3>3 DEF Lists
    <3>. QED
      BY <1>2, <3>1, <3>2, <3>3
  <2>. QED
    BY <2>3, <2>4
<1>. QED
  BY <1>1, <1>2

LEMMA ReadErrorsLists ==
    ASSUME NEW part \in States
    PROVE  Lists(ReadErrors(part), part .. Source)
<1> DEFINE first == <<Source, Destination>>
           inOrder == <<Version, Status, StatusMessage, Headers, Body>>
           rest == SubSeq(inOrder, part + 1, 5)
<1>1. \A i \in 1 .. 5 : inOrder[i] = i - 1 /\ inOrder[i] \in Parts
  OBVIOUS
<1>2. first \in Seq(Parts) /\ Len(first) = 2 /\ first[1] = Source /\ first[2] = Destination
  OBVIOUS
<1>. HIDE DEF first, inOrder
<1>3. /\ rest \in Seq(Parts) /\ Len(rest) = 5 - part
      /\ \A i \in 1 .. 5 - part : rest[i] = part + i - 1
  <2>1. part + 1 \in Int /\ 5 \in Int /\ \A i \in part + 1 .. 5 : inOrder[i] \in Parts
    BY <1>1
  <2>2. /\ rest \in Seq(Parts)
        /\ Len(rest) = IF part + 1 <= 5 THEN 5 - (part + 1) + 1 ELSE 0
        /\ \A i \in 1 .. 5 - (part + 1) + 1 : rest[i] = inOrder[part + 1 + i - 1]
    BY <2>1, SubSeqProperties
  <2>. QED
    BY <1>1, <2>2
<1>. HIDE DEF rest
<1>4. /\ first \o rest \in Seq(Parts)
      /\ Len(first \o rest) = 7 - part
      /\ \A i \in 1 .. 7 - part : (first \o rest)[i] = IF i <= 2 THEN first[i] ELSE rest[i - 2]
  <2>1. /\ first \o rest \in Seq(Parts)
        /\ Len(first \o rest) = Len(first) + Len(rest)
        /\ \A i \in 1 .. Len(first) + Len(rest) :
              (first \o rest)[i] = IF i <= Len(first) THEN first[i] ELSE rest[i - Len(first)]
    BY <1>2, <1>3, ConcatProperties
  <2>. QED
    BY <1>2, <1>3, <2>1
<1>5. ReadErrors(part) = first \o rest
  BY DEF ReadErrors, first, inOrder, rest
<1> DEFINE order == first \o rest
<1>6. /\ order \in Seq(Parts) /\ Len(order) = 7 - part /\ order[1] = Source /\ order[2] = Destination
      /\ \A i \in 3 .. 7 - part : order[i] = part + i - 3
  BY <1>2, <1>3, <1>4
<1>. HIDE DEF order
<1>7. Lists(order, part .. Source)
  <2>1. ASSUME NEW p \in part .. Body PROVE \E i \in 1 .. Len(order) : order[i] = p
    <3> DEFINE i == p - part + 3
    <3>1. i \in 3 .. 7 - part /\ part + i - 3 = p
      OBVIOUS
    <3>. HIDE DEF i
    <3>2. order[i] = p
      BY <1>6, <3>1
    <3>. QED
      BY <1>6, <3>1, <3>2
  <2>2. ASSUME NEW i \in 1 .. Len(order), NEW j \in 1 .. Len(order), i < j
        PROVE  order[i] # order[j]
    <3>1. CASE i \in 3 .. 7 - part
      BY <1>6, <2>2, <3>1
    <3>2. CASE i = 1 \/ i = 2
      BY <1>6, <2>2, <3>2
    <3>. QED
      BY <1>6, <3>1, <3>2
  <2>3. ASSUME NEW i \in 1 .. Len(order) PROVE order[i] \in part .. Source
    <3>1. CASE i \in 3 .. 7 - part
      BY <1>6, <3>1
    <3>2. CASE i = 1 \/ i = 2
      BY <1>6, <3>2
    <3>. QED
      BY <1>6, <3>1, <3>2
  <2>4. (\E i \in 1 .. Len(order) : order[i] = Source) /\ \E i \in 1 .. Len(order) : order[i] = Destination
    BY <1>6
  <2>5. ASSUME NEW p \in Parts PROVE p \in part .. Source <=> \E i \in 1 .. Len(order) : order[i] = p
    <3>1. p \in part .. Source => p \in part .. Body \/ p = Source \/ p = Destination
      OBVIOUS
    <3>. QED
      BY <2>1, <2>3, <2>4, <3>1
  <2>. QED
    BY <1>6, <2>2, <2>5 DEF Lists
<1>. QED
  BY <1>5, <1>7 DEF order

-----------------------------------------------------------------------------
(* The connection *)

\* What every step of the connection keeps: a settled promise stays as it is.
Kept ==
    /\ \A p \in Parts : promise[p] # "unset" => promise'[p] = promise[p]
    /\ pending # "none" \/ settling # <<>>
    /\ resolver # "unused" /\ resolver' # "unused"
    /\ resolver' \in {"unused", "gone"} <=> resolver \in {"unused", "gone"}
    /\ getBody' = getBody

\* A handler that ends the exchange with the parts from `from` on still to settle.
LEMMA EndKeeps ==
    ASSUME ConnInv, fault = "none", fault' = "none",
           NEW order, NEW v \in Settlements, NEW from \in Parts,
           Ends(order, v), Lists(order, from .. Source),
           promise' \in [Parts -> Settlements \cup {"unset"}],
           \A p \in Parts : promise'[p] = IF p < from THEN "value" ELSE "unset",
           ~parsing', UNCHANGED <<endpoints, state, getBody, peer>>,
           resolver' \in {"returning", "gone"},
           resolver' = "returning" => from = Version /\ v = "error",
           v = "error" => from <= Decisive,
           v = "value" => /\ from = Body
                          /\ \A i, j \in 1 .. Len(order) : i < j => order[i] < order[j],
           parsing' \in BOOLEAN
    PROVE  ConnInv'
<1>. USE EndpointsAssumption
<1>1. /\ settling' = order /\ verdict' = v /\ pending' = "none"
      /\ order \in Seq(Parts) /\ \A i, j \in 1 .. Len(order) : i < j => order[i] # order[j]
      /\ \A p \in Parts : p \in from .. Source <=> ToSettle(p)'
  BY DEF Ends, Lists, ToSettle
<1>2. Decisive' = Decisive /\ Decisive \in {Headers, Body}
  BY DEF Decisive
<1>3. ConnTypeOK'
  BY <1>1 DEF ConnInv, ConnTypeOK, Pendings, Resolvers, Faults
<1>4. \A p \in Parts : promise'[p] = "unset" <=> ToSettle(p)'
  BY <1>1
<1>5. SettledSoFar'
  BY <1>1, <1>4 DEF SettledSoFar
<1>6. SettlingInv'
  BY <1>1, <1>2 DEF SettlingInv
<1>7. EndsTogether'
  <2>1. ASSUME promise'[Decisive] = "value", NEW p \in Parts
        PROVE  promise'[p] = "value" \/ (ToSettle(p)' /\ verdict' = "value")
    BY <1>1, <1>2, <2>1 DEF Settlements
  <2>. QED
    BY <1>2, <2>1 DEF EndsTogether, ConnInv
<1>8. ValuesInOrder'
  BY <1>2 DEF ValuesInOrder
<1>9. settling' # <<>>
  <2>1. ToSettle(Source)'
    BY <1>1
  <2>. QED
    BY <2>1 DEF ToSettle
<1>10. NothingForgotten' /\ SettledOnce'
  BY <1>9 DEF NothingForgotten, SettledOnce
<1>. QED
  BY <1>3, <1>5, <1>6, <1>7, <1>8, <1>10 DEF ConnInv

\* The handler that ends the exchange settles one more promise.
LEMMA SettleKeeps ==
    ASSUME ConnInv, fault = "none", SettleNext
    PROVE  ConnInv' /\ Kept
<1>. USE EndpointsAssumption
<1> DEFINE h == Head(settling)
<1>1. /\ settling \in Seq(Parts) /\ settling # <<>> /\ promise \in [Parts -> Settlements \cup {"unset"}]
      /\ verdict \in Settlements /\ resolver # "unused" /\ pending = "none" /\ ~parsing
      /\ \A p \in Parts : promise[p] = "unset" <=> ToSettle(p)
  BY DEF SettleNext, ConnInv, ConnTypeOK, SettledSoFar
<1>2. /\ h = settling[1] /\ h \in Parts /\ Len(settling) \in Nat \ {0}
      /\ settling' \in Seq(Parts) /\ Len(settling') = Len(settling) - 1
      /\ \A i \in 1 .. Len(settling') : settling'[i] = settling[i + 1]
  BY <1>1, TailFacts DEF SettleNext
<1>3. promise[h] = "unset"
  BY <1>1, <1>2 DEF ToSettle
<1>4. /\ promise' = [promise EXCEPT ![h] = verdict] /\ fault' = "none"
      /\ UNCHANGED <<pending, parsing, verdict, endpoints, state, getBody, peer, resolver>>
  BY <1>3 DEF SettleNext, SetPromise
<1>. HIDE DEF h
<1>5. /\ promise' \in [Parts -> Settlements \cup {"unset"}] /\ promise'[h] = verdict
      /\ \A p \in Parts \ {h} : promise'[p] = promise[p]
  BY <1>1, <1>2, <1>4
<1>6. /\ \A i, j \in 1 .. Len(settling) : i < j => settling[i] # settling[j]
      /\ verdict = "value" =>
            /\ \A i, j \in 1 .. Len(settling) : i < j => settling[i] < settling[j]
            /\ \A p \in Parts : promise[p] # "error"
      /\ verdict = "error" => promise[Decisive] # "value"
      /\ resolver \in {"busy", "returning"} => verdict = "error"
  BY <1>1 DEF ConnInv, SettlingInv
<1>7. Decisive' = Decisive /\ Decisive \in {Headers, Body}
  BY <1>4 DEF Decisive
<1>8. \A p \in Parts : ToSettle(p)' <=> ToSettle(p) /\ p # h
  <2>1. ASSUME NEW p \in Parts, ToSettle(p)' PROVE ToSettle(p) /\ p # h
    <3>1. PICK i \in 1 .. Len(settling') : settling'[i] = p
      BY <2>1 DEF ToSettle
    <3>2. i + 1 \in 1 .. Len(settling) /\ 1 \in 1 .. Len(settling) /\ settling[i + 1] = p /\ 1 < i + 1
      BY <1>2, <3>1
    <3>. QED
      BY <1>2, <1>6, <3>2 DEF ToSettle
  <2>2. ASSUME NEW p \in Parts, ToSettle(p), p # h PROVE ToSettle(p)'
    <3>1. PICK i \in 1 .. Len(settling) : settling[i] = p
      BY <2>2 DEF ToSettle
    <3>2. i - 1 \in 1 .. Len(settling') /\ settling'[i - 1] = p
      BY <1>2, <2>2, <3>1
    <3>. QED
      BY <3>2 DEF ToSettle
  <2>. QED
    BY <2>1, <2>2
<1>9. \A p \in Parts : promise'[p] = "unset" <=> ToSettle(p)'
  BY <1>1, <1>2, <1>5, <1>8 DEF Settlements
<1>10. ConnTypeOK'
  BY <1>2, <1>4, <1>5 DEF ConnInv, ConnTypeOK
<1>11. SettledSoFar'
  <2>1. resolver \in {"busy", "returning"} => \A p \in Parts : promise'[p] # "value"
    BY <1>2, <1>5, <1>6 DEF ConnInv, SettledSoFar
  <2>. QED
    BY <1>1, <1>4, <1>9, <2>1 DEF ConnInv, SettledSoFar
<1>12. SettlingInv'
  <2>1. \A i, j \in 1 .. Len(settling') : i < j =>
            /\ settling'[i] # settling'[j]
            /\ verdict = "value" => settling'[i] < settling'[j]
    <3>1. ASSUME NEW i \in 1 .. Len(settling'), NEW j \in 1 .. Len(settling'), i < j
          PROVE  /\ i + 1 \in 1 .. Len(settling) /\ j + 1 \in 1 .. Len(settling) /\ i + 1 < j + 1
                 /\ settling'[i] = settling[i + 1] /\ settling'[j] = settling[j + 1]
      BY <1>2, <3>1
    <3>. QED
      BY <1>6, <3>1
  <2>2. verdict = "value" => \A p \in Parts : promise'[p] # "error"
    BY <1>2, <1>5, <1>6
  <2>3. verdict = "error" => promise'[Decisive] # "value"
    BY <1>2, <1>5, <1>6, <1>7
  <2>. QED
    BY <1>4, <1>6, <1>7, <2>1, <2>2, <2>3 DEF SettlingInv
<1>13. EndsTogether'
  <2>1. ASSUME promise'[Decisive] = "value", NEW p \in Parts
        PROVE  promise'[p] = "value" \/ (ToSettle(p)' /\ verdict = "value")
    <3>1. verdict = "value"
      BY <1>2, <1>5, <1>6, <1>7, <2>1 DEF Settlements, ConnTypeOK, ConnInv
    <3>2. promise[p] = "value" \/ ToSettle(p)
      BY <1>1, <1>6, <3>1 DEF Settlements
    <3>. QED
      BY <1>5, <1>8, <3>1, <3>2
  <2>. QED
    BY <1>4, <1>7, <2>1 DEF EndsTogether, ConnInv
<1>14. ValuesInOrder'
  <2>1. ASSUME NEW p \in Parts, NEW q \in Parts, p < q, promise'[q] = "value"
        PROVE  promise'[p] = "value"
    <3>1. CASE q # h
      <4>1. promise[q] = "value"
        BY <1>5, <2>1, <3>1
      <4>2. promise[p] = "value"
        BY <2>1, <4>1 DEF ConnInv, ValuesInOrder
      <4>. QED
        BY <1>3, <1>5, <4>2 DEF h
    <3>2. CASE q = h
      <4>1. verdict = "value" /\ p # h
        BY <1>5, <2>1, <3>2
      <4>2. ~ ToSettle(p)
        <5>1. SUFFICES ASSUME NEW i \in 1 .. Len(settling), settling[i] = p PROVE FALSE
          BY DEF ToSettle
        <5>2. 1 < i /\ 1 \in 1 .. Len(settling)
          BY <1>2, <4>1, <5>1
        <5>. QED
          BY <1>2, <1>6, <2>1, <3>2, <4>1, <5>1, <5>2
      <4>3. promise[p] = "value"
        BY <1>1, <1>6, <4>1, <4>2 DEF Settlements
      <4>. QED
        BY <1>5, <4>1, <4>3
    <3>. QED
      BY <3>1, <3>2
  <2>2. ASSUME promise'[Decisive] = "value", NEW p \in Parts PROVE promise'[p] # "error"
    <3>1. verdict = "value"
      BY <1>2, <1>5, <1>6, <1>7, <2>2 DEF Settlements, ConnTypeOK, ConnInv
    <3>. QED
      BY <1>2, <1>5, <1>6, <3>1
  <2>. QED
    BY <1>7, <2>1, <2>2 DEF ValuesInOrder
<1>15. NothingForgotten' /\ SettledOnce'
  <2>1. settling' = <<>> => \A p \in Parts : promise'[p] # "unset"
    BY <1>9 DEF ToSettle
  <2>. QED
    BY <1>4, <2>1 DEF NothingForgotten, SettledOnce
<1>16. Kept
  BY <1>1, <1>3, <1>4, <1>5 DEF Kept, h
<1>. QED
  BY <1>10, <1>11, <1>12, <1>13, <1>14, <1>15, <1>16 DEF ConnInv

\* A step from one operation of the connection to the next: nothing is left to settle,
\* and what is settled are the values of the parts before the state.
LEMMA OngoingKeeps ==
    ASSUME ConnInv, fault = "none", fault' = "none", pending # "none", pending' # "none",
           UNCHANGED <<settling, verdict, getBody>>,
           resolver' \in {"returning", "gone"}, pending' # "resolve",
           ConnTypeOK', \A p \in Parts : promise'[p] = IF p < state' THEN "value" ELSE "unset",
           pending' \in {"connect", "write"} => state' = Version,
           resolver' = "returning" => state' = Version,
           parsing' => pending' = "read" /\ resolver' = "gone" /\ state' # Body,
           ~getBody => state' # Body
    PROVE  ConnInv'
<1>1. settling = <<>> /\ Decisive' = Decisive /\ Decisive \in {Headers, Body} /\ resolver # "unused"
  BY DEF ConnInv, SettledSoFar, Decisive
<1>2. state' \in States /\ (state' = Body => getBody)
  BY DEF ConnTypeOK
<1>3. promise'[Decisive] # "value"
  BY <1>1, <1>2 DEF Decisive
<1>4. SettledSoFar'
  BY <1>1 DEF SettledSoFar
<1>5. SettlingInv' /\ EndsTogether' /\ NothingForgotten' /\ SettledOnce'
  BY <1>1, <1>3 DEF SettlingInv, EndsTogether, NothingForgotten, SettledOnce
<1>6. ValuesInOrder'
  BY <1>1, <1>2, <1>3 DEF ValuesInOrder
<1>. QED
  BY <1>4, <1>5, <1>6 DEF ConnInv

\* A handler of the io thread, or what the server does, keeps the invariant of the
\* connection.
LEMMA ConnStep ==
    ASSUME ConnInv, fault = "none", IoStep \/ ServerStep
    PROVE  ConnInv' /\ Kept
<1>. USE EndpointsAssumption
<1>0. ConnTypeOK /\ SettledSoFar /\ EndsTogether
  BY DEF ConnInv
<1>. USE <1>0
<1>typed. promise \in [Parts -> Settlements \cup {"unset"}] /\ Decisive \in {Headers, Body}
  BY DEF ConnTypeOK, Decisive
<1>1. CASE HandleResolved \/ HandleConnected \/ HandleSentRequest
  <2>1. AllUnset /\ state = Version /\ pending # "none" /\ resolver # "unused" /\ ~parsing
    BY <1>1 DEF HandleResolved, HandleConnected, HandleSentRequest, Handling, SettledSoFar, AllUnset,
       ConnTypeOK
  <2>2. /\ resolver \in {"busy", "gone"} /\ resolver' \in {"returning", "gone"}
        /\ resolver' = "gone" <=> resolver = "gone"
        /\ UNCHANGED <<parsing, promise, getBody, peer, fault>>
        /\ state' = state
    BY <1>1, <2>1 DEF HandleResolved, HandleConnected, HandleSentRequest, Handling, SettledSoFar,
       ConnTypeOK, Resolvers
  <2>3. Kept
    BY <2>1, <2>2 DEF Kept, AllUnset
  <2>4. CASE Ends(SetErrors, "error") /\ UNCHANGED endpoints
    BY <1>typed, <2>1, <2>2, <2>3, <2>4, SetErrorsLists, EndKeeps DEF AllUnset, Settlements, ConnTypeOK
  <2>5. CASE /\ GoesOn("connect") \/ GoesOn("write") \/ GoesOn("read")
             /\ endpoints' \in 0 .. MaxEndpoints
    <3>1. ConnTypeOK'
      BY <2>1, <2>2, <2>5 DEF GoesOn, ConnTypeOK, Pendings, Resolvers
    <3>2. pending' \in {"connect", "write", "read"} /\ UNCHANGED <<settling, verdict>>
      BY <2>5 DEF GoesOn
    <3>3. \A p \in Parts : promise'[p] = IF p < state' THEN "value" ELSE "unset"
      BY <2>1, <2>2 DEF AllUnset
    <3>. QED
      BY <2>1, <2>2, <2>3, <3>1, <3>2, <3>3, OngoingKeeps
  <2>6. endpoints \in 0 .. MaxEndpoints
    BY DEF ConnTypeOK
  <2>. QED
    BY <1>1, <2>4, <2>5, <2>6 DEF HandleResolved, HandleConnected, HandleSentRequest
<1>2. ASSUME pending = "read"
      PROVE  /\ \A p \in Parts : promise[p] = IF p < state THEN "value" ELSE "unset"
             /\ resolver \in {"returning", "gone"} /\ state \in States /\ settling = <<>>
             /\ resolver = "returning" => state = Version
             /\ state = Body => getBody
  BY <1>2 DEF SettledSoFar, ConnTypeOK, Resolvers, EndsTogether
<1>3. ASSUME pending = "read", UNCHANGED <<promise, getBody, resolver>>
      PROVE  Kept
  BY <1>2, <1>3 DEF Kept
<1>4. parsing => pending = "read" /\ resolver = "gone" /\ state \in Version .. Headers
  BY <1>2 DEF SettledSoFar
<1>5. CASE Receive \/ PeerCloses \/ (ParseWantsMore /\ parsing)
  <2>1. /\ pending = "read" /\ fault' = "none"
        /\ UNCHANGED <<pending, settling, verdict, endpoints, state, promise, getBody, resolver>>
        /\ parsing' \in BOOLEAN /\ peer' \in {"open", "closed"}
        /\ parsing' => state # Body /\ resolver = "gone"
    <3>1. CASE Receive
      BY <1>2, <3>1 DEF Receive, Handling, ConnTypeOK
    <3>2. CASE PeerCloses
      BY <1>2, <1>4, <3>2 DEF PeerCloses, handlerVars, ConnTypeOK
    <3>3. CASE ParseWantsMore /\ parsing
      BY <1>4, <3>3 DEF ParseWantsMore, ConnTypeOK
    <3>. QED
      BY <1>5, <3>1, <3>2, <3>3
  <2>2. ConnTypeOK'
    BY <2>1 DEF ConnTypeOK
  <2>. QED
    BY <1>2, <1>3, <2>1, <2>2, OngoingKeeps
<1>6. CASE ParsePart
  <2>1. pending = "read" /\ state \in Version .. Headers /\ promise[state] = "unset"
    BY <1>2, <1>4, <1>6 DEF ParsePart
  <2>2. promise' = [promise EXCEPT ![state] = "value"] /\ fault' = "none"
    BY <1>6, <2>1 DEF ParsePart, SetPromise
  <2>3. /\ promise' \in [Parts -> Settlements \cup {"unset"}]
        /\ \A p \in Parts : promise'[p] = IF p < state + 1 THEN "value" ELSE "unset"
    BY <1>2, <1>typed, <2>1, <2>2 DEF Settlements
  <2>4. Kept
    BY <1>2, <1>6, <2>1, <2>3 DEF ParsePart, Kept
  <2>5. CASE state = Headers /\ ~getBody
    <3>1. /\ Ends(EndValues, "value") /\ ~parsing' /\ parsing' \in BOOLEAN
          /\ UNCHANGED <<state, endpoints, getBody, peer, resolver>>
      BY <1>6, <2>5 DEF ParsePart
    <3>2. resolver' = "gone"
      BY <1>4, <1>6, <3>1 DEF ParsePart
    <3>3. \A p \in Parts : promise'[p] = IF p < Body THEN "value" ELSE "unset"
      BY <2>3, <2>5
    <3>. QED
      BY <2>2, <2>3, <2>4, <3>1, <3>2, <3>3, EndValuesLists, EndKeeps DEF Settlements
  <2>6. CASE ~ (state = Headers /\ ~getBody)
    <3>1. /\ pending' = "read" /\ state' = state + 1 /\ parsing' = (state # Headers)
          /\ UNCHANGED <<settling, verdict, endpoints, getBody, peer, resolver>>
      BY <1>6, <2>6 DEF ParsePart, GoesOn
    <3>2. ConnTypeOK'
      BY <2>1, <2>2, <2>3, <3>1 DEF ConnTypeOK, Pendings
    <3>3. resolver' = "gone"
      BY <1>4, <1>6, <3>1 DEF ParsePart
    <3>4. /\ parsing' => state' # Body
          /\ ~getBody => state' # Body
          /\ \A p \in Parts : promise'[p] = IF p < state' THEN "value" ELSE "unset"
      <4>1. state' = state + 1 /\ (parsing' => state # Headers)
        BY <3>1
      <4>. QED
        BY <2>1, <2>3, <2>6, <4>1
    <3>. QED
      BY <2>1, <2>2, <2>4, <3>1, <3>2, <3>3, <3>4, OngoingKeeps
  <2>. QED
    BY <2>5, <2>6
<1>7. CASE ParseRejects \/ ReceiveError
  <2>1. /\ pending = "read" /\ fault' = "none" /\ ~parsing' /\ parsing' \in BOOLEAN
        /\ UNCHANGED <<endpoints, state, promise, getBody, peer, resolver>>
    <3>1. CASE ParseRejects
      BY <1>4, <3>1 DEF ParseRejects
    <3>2. CASE ReceiveError
      BY <3>2 DEF ReceiveError, Handling, ConnTypeOK
    <3>. QED
      BY <1>7, <3>1, <3>2
  <2>2. state <= Decisive
    BY <1>2, <2>1 DEF Decisive
  <2>3. PICK order : Ends(order, "error") /\ Lists(order, state .. Source)
    BY <1>2, <1>4, <1>7, <2>1, MalformedErrorsLists, ReadErrorsLists DEF ParseRejects, ReceiveError
  <2>4. Kept
    BY <1>3, <2>1
  <2>5. /\ state \in Parts /\ resolver' \in {"returning", "gone"}
        /\ resolver' = "returning" => state = Version
        /\ \A p \in Parts : promise'[p] = IF p < state THEN "value" ELSE "unset"
        /\ promise' \in [Parts -> Settlements \cup {"unset"}]
    BY <1>2, <1>typed, <2>1
  <2>6. "error" \in Settlements
    BY DEF Settlements
  <2>. QED
    BY <2>1, <2>2, <2>3, <2>4, <2>5, <2>6, EndKeeps
<1>8. CASE ParseBadStatus
  <2>1. pending = "read"
    BY <1>4, <1>8 DEF ParseBadStatus
  <2>. QED
    BY <1>3, <1>8, <2>1 DEF ParseBadStatus, connVars, handlerVars, ConnInv, ConnTypeOK, SettledSoFar,
       SettlingInv, EndsTogether, ToSettle, ValuesInOrder, Decisive, NothingForgotten, SettledOnce, Faults
<1>9. CASE ReceiveEof
  <2>1. /\ pending = "read" /\ resolver = "gone" /\ ~parsing /\ fault' = "none"
        /\ UNCHANGED <<parsing, endpoints, state, promise, getBody, peer, resolver>>
    BY <1>2, <1>9 DEF ReceiveEof, Handling
  <2>2. CASE state = Body
    BY <1>2, <1>3, <1>9, <1>typed, <2>1, <2>2, EndValuesLists, EndKeeps
       DEF ReceiveEof, Settlements, ConnTypeOK
  <2>3. CASE state # Body
    <3>1. pending' = "read" /\ UNCHANGED <<settling, verdict>>
      BY <1>9, <2>3 DEF ReceiveEof, GoesOn
    <3>2. ConnTypeOK'
      BY <2>1, <3>1 DEF ConnTypeOK, Pendings
    <3>. QED
      BY <1>2, <1>3, <2>1, <2>3, <3>1, <3>2, OngoingKeeps
  <2>. QED
    BY <2>2, <2>3
<1>10. CASE SettleNext
  BY <1>10, SettleKeeps
<1>. QED
  BY <1>1, <1>5, <1>6, <1>7, <1>8, <1>9, <1>10 DEF IoStep, ServerStep, ParseStep, ParseWantsMore

-----------------------------------------------------------------------------
(* run() *)

\* What a step that leaves the connection alone keeps.
LEMMA ConnUnchanged ==
    ASSUME ConnInv, UNCHANGED <<connVars, fault>>
    PROVE  ConnInv'
BY DEF connVars, handlerVars, ConnInv, ConnTypeOK, SettledSoFar, SettlingInv, EndsTogether, ToSettle,
   ValuesInOrder, Decisive, NothingForgotten, SettledOnce, AllUnset

LEMMA InitInv == Init => IInv
<1>. SUFFICES ASSUME Init PROVE IInv
  OBVIOUS
<1>. USE EndpointsAssumption DEF Init, ConnInit
<1>1. TypeOK
  <2>1. /\ promise \in [Parts -> Settlements \cup {"unset"}] /\ settling \in Seq(Parts)
        /\ state \in States /\ endpoints \in 0 .. MaxEndpoints
    OBVIOUS
  <2>2. ConnTypeOK
    BY <2>1 DEF ConnTypeOK, Pendings, Settlements, Resolvers, Faults
  <2>. QED
    BY <2>2 DEF TypeOK
<1>2. ConnInv
  BY <1>1 DEF TypeOK, ConnInv, SettledSoFar, SettlingInv, EndsTogether, ValuesInOrder, Decisive,
     NothingForgotten, SettledOnce, AllUnset
<1>3. OwnerInv /\ SeenInv /\ ResponseIsWhole
  BY DEF OwnerInv, SeenInv, ResponseIsWhole, Awaiting, Finished
<1>. QED
  BY <1>1, <1>2, <1>3 DEF IInv

\* Steps of the connection leave run() where it is.
LEMMA ConnectionKeeps ==
    ASSUME IInv, fault = "none", IoStep \/ ServerStep, UNCHANGED callVars
    PROVE  IInv'
<1>1. ConnInv' /\ Kept
  BY ConnStep DEF IInv
<1>2. TypeOK'
  BY <1>1 DEF IInv, TypeOK, ConnInv, callVars
<1>3. ioThread # "ended" /\ client # "none" /\ result # "response"
  BY <1>1 DEF IInv, OwnerInv, ResponseIsWhole, Kept
<1>4. OwnerInv'
  BY <1>1, <1>3 DEF IInv, TypeOK, OwnerInv, Kept, callVars, Awaiting, Finished
<1>5. SeenInv'
  BY <1>1, <1>3 DEF IInv, SeenInv, Kept, callVars, Awaiting
<1>6. ResponseIsWhole'
  BY <1>3 DEF ResponseIsWhole, callVars
<1>. QED
  BY <1>1, <1>2, <1>4, <1>5, <1>6 DEF IInv

\* The reference that the resolver's handler holds goes.
LEMMA ResolverKeeps ==
    ASSUME IInv, fault = "none", ResolverReturns
    PROVE  IInv'
<1>. USE DEF ResolverReturns, callVars
<1>1. ConnInv'
  BY DEF IInv, ConnInv, ConnTypeOK, SettledSoFar, SettlingInv, EndsTogether, ToSettle, ValuesInOrder,
     Decisive, NothingForgotten, SettledOnce, AllUnset, handlerVars, Resolvers, Faults
<1>2. TypeOK'
  BY <1>1 DEF IInv, TypeOK, ConnInv
<1>3. OwnerInv' /\ SeenInv'
  BY DEF IInv, OwnerInv, SeenInv, Awaiting, Finished
<1>4. ResponseIsWhole'
  BY DEF IInv, ResponseIsWhole
<1>. QED
  BY <1>1, <1>2, <1>3, <1>4 DEF IInv

LEMMA IoThreadEndsKeeps ==
    ASSUME IInv, fault = "none", IoThreadEnds
    PROVE  IInv'
<1>. USE DEF IoThreadEnds
<1>1. ConnInv'
  BY ConnUnchanged DEF IInv
<1>2. TypeOK' /\ OwnerInv' /\ SeenInv' /\ ResponseIsWhole'
  BY DEF IInv, TypeOK, ConnTypeOK, connVars, handlerVars, OwnerInv, SeenInv, ResponseIsWhole, Awaiting, Finished
<1>. QED
  BY <1>1, <1>2 DEF IInv

\* The client is created together with its io thread, and the request is started.
LEMMA DispatchKeeps ==
    ASSUME IInv, fault = "none", Dispatch
    PROVE  IInv'
<1>. USE DEF Dispatch
<1>1. client = "none" /\ ioThread = "none" /\ resolver = "unused" /\ pending = "none"
      /\ AllUnset /\ state = Version /\ settling = <<>> /\ ~parsing /\ leaving = "empty" /\ result # "response"
  BY DEF IInv, OwnerInv, SeenInv, ConnInv, SettledSoFar
<1>2. CASE kind = "unsupported"
  <2>1. ConnInv'
    BY <1>2, ConnUnchanged DEF IInv
  <2>2. TypeOK' /\ OwnerInv' /\ SeenInv' /\ ResponseIsWhole'
    BY <1>1, <1>2 DEF IInv, TypeOK, ConnTypeOK, connVars, handlerVars, OwnerInv, SeenInv, ResponseIsWhole,
       Awaiting, Finished
  <2>. QED
    BY <2>1, <2>2 DEF IInv
<1>3. CASE kind # "unsupported"
  <2>0. at' = "status" /\ leaving' = leaving /\ StartRequest(kind = "body")
    BY <1>3
  <2>1. ConnInv'
    BY <1>1, <2>0 DEF StartRequest, handlerVars, IInv, ConnInv, ConnTypeOK, SettledSoFar, SettlingInv,
       EndsTogether, ValuesInOrder, Decisive, NothingForgotten, SettledOnce, AllUnset, Pendings, Resolvers
  <2>2. TypeOK'
    BY <2>0, <2>1 DEF IInv, TypeOK, ConnInv, Awaiting
  <2>3. OwnerInv'
    BY <1>1, <2>0 DEF StartRequest, handlerVars, OwnerInv, Awaiting, Finished
  <2>4. SeenInv' /\ ResponseIsWhole'
    BY <1>1, <2>0 DEF StartRequest, SeenInv, ResponseIsWhole, Awaiting
  <2>. QED
    BY <2>1, <2>2, <2>3, <2>4 DEF IInv
<1>. QED
  BY <1>2, <1>3

\* With a response in hand, every promise has its value once nothing is pending and no
\* handler runs.
LEMMA ResponseSettlesAll ==
    ASSUME IInv, fault = "none", leaving = "response", settling = <<>>
    PROVE  \A p \in Parts : promise[p] = "value"
<1>1. promise[Decisive] = "value"
  BY DEF IInv, SeenInv, Decisive
<1>2. \A p \in Parts : ~ ToSettle(p)
  BY DEF ToSettle
<1>. QED
  BY <1>1, <1>2 DEF IInv, ConnInv, EndsTogether

\* A caller that has a response does not share the client with the resolver any more.
LEMMA ResponseIsAlone ==
    ASSUME IInv, fault = "none", leaving = "response"
    PROVE  resolver \notin {"busy", "returning"}
BY DEF IInv, SeenInv, ConnInv, SettledSoFar

\* Every step of the calling thread.
LEMMA CallerKeeps ==
    ASSUME IInv, fault = "none", CallerStep
    PROVE  IInv'
<1>1. CASE Call \/ ReadParameters \/ AwaitValue \/ FillLists \/ AwaitError \/ AwaitInterrupted
  <2>1. ConnInv' /\ UNCHANGED <<connVars, fault, client, ioThread, kind, result>>
    BY <1>1, ConnUnchanged DEF Call, ReadParameters, AwaitValue, FillLists, AwaitError,
       AwaitInterrupted, IInv
  <2>2. TypeOK'
    BY <1>1, <2>1 DEF Call, ReadParameters, AwaitValue, FillLists, AwaitError, AwaitInterrupted,
       IInv, TypeOK, ConnInv, Awaiting, AfterAwait, Finished
  <2>3. OwnerInv'
    BY <1>1, <2>1 DEF Call, ReadParameters, AwaitValue, FillLists, AwaitError, AwaitInterrupted,
       IInv, OwnerInv, connVars, handlerVars, Awaiting, AfterAwait, Finished
  <2>4. SeenInv' /\ ResponseIsWhole'
    BY <1>1, <2>1 DEF Call, ReadParameters, AwaitValue, FillLists, AwaitError, AwaitInterrupted,
       IInv, SeenInv, ResponseIsWhole, OwnerInv, connVars, Awaiting, Awaited, AfterAwait
  <2>. QED
    BY <2>1, <2>2, <2>3, <2>4 DEF IInv
<1>2. CASE Dispatch
  BY <1>2, DispatchKeeps
<1>3. CASE DropClient
  <2>1. ConnInv' /\ UNCHANGED <<connVars, fault, kind, leaving, intr, ioThread>>
    BY <1>3, ConnUnchanged DEF DropClient, IInv
  <2>2. client = "held" /\ ioThread = "running" /\ result # "response"
    BY <1>3 DEF DropClient, IInv, OwnerInv, SeenInv
  <2>3. TypeOK'
    BY <1>3, <2>1 DEF DropClient, Finish, IInv, TypeOK, ConnInv, Finished
  <2>4. OwnerInv'
    BY <1>3, <2>1, <2>2, ResponseIsAlone DEF DropClient, Finish, IInv, TypeOK, ConnTypeOK, Resolvers,
       OwnerInv, connVars, handlerVars, Awaiting, Finished
  <2>5. SeenInv' /\ ResponseIsWhole'
    BY <1>3, <2>1, <2>2, ResponseIsAlone DEF DropClient, Finish, IInv, SeenInv, ResponseIsWhole,
       connVars, Awaiting
  <2>. QED
    BY <2>1, <2>3, <2>4, <2>5 DEF IInv
<1>4. CASE JoinReturns
  <2>1. ConnInv' /\ UNCHANGED <<connVars, fault, kind, leaving, intr, ioThread>>
    BY <1>4, ConnUnchanged DEF JoinReturns, IInv
  <2>2. client = "destroying" /\ ioThread = "ended" /\ settling = <<>>
    BY <1>4 DEF JoinReturns, IInv, OwnerInv
  <2>3. TypeOK'
    BY <1>4, <2>1 DEF JoinReturns, Finish, IInv, TypeOK, ConnInv, Finished
  <2>4. OwnerInv'
    BY <1>4, <2>1, <2>2 DEF JoinReturns, Finish, IInv, OwnerInv, connVars, handlerVars, Awaiting, Finished
  <2>5. SeenInv' /\ ResponseIsWhole'
    BY <1>4, <2>1, <2>2, ResponseSettlesAll DEF JoinReturns, Finish, IInv, TypeOK, SeenInv,
       ResponseIsWhole, connVars, Awaiting
  <2>. QED
    BY <2>1, <2>3, <2>4, <2>5 DEF IInv
<1>5. CASE JoinInterrupted
  BY <1>5 DEF JoinInterrupted, connVars, handlerVars, callVars, IInv, TypeOK, ConnTypeOK, ConnInv,
     SettledSoFar, SettlingInv, EndsTogether, ToSettle, ValuesInOrder, Decisive, NothingForgotten,
     SettledOnce, Faults, OwnerInv, SeenInv, ResponseIsWhole
<1>. QED
  BY <1>1, <1>2, <1>3, <1>4, <1>5 DEF CallerStep

LEMMA InterruptKeeps ==
    ASSUME IInv, Interrupt
    PROVE  IInv'
<1>1. ConnInv'
  BY ConnUnchanged DEF Interrupt, IInv
<1>2. TypeOK' /\ OwnerInv' /\ SeenInv' /\ ResponseIsWhole'
  BY DEF Interrupt, IInv, TypeOK, ConnTypeOK, connVars, handlerVars, OwnerInv, SeenInv, ResponseIsWhole
<1>. QED
  BY <1>1, <1>2 DEF IInv

LEMMA StutterKeeps ==
    ASSUME IInv, UNCHANGED vars
    PROVE  IInv'
<1>1. ConnInv'
  BY ConnUnchanged DEF vars, IInv
<1>2. TypeOK' /\ OwnerInv' /\ SeenInv' /\ ResponseIsWhole'
  BY DEF vars, callVars, connVars, handlerVars, IInv, TypeOK, ConnTypeOK, OwnerInv, SeenInv, ResponseIsWhole
<1>. QED
  BY <1>1, <1>2 DEF IInv

LEMMA NextInv == IInv /\ [Next]_vars => IInv'
<1>. SUFFICES ASSUME IInv, [Next]_vars PROVE IInv'
  OBVIOUS
<1>1. CASE Next
  BY <1>1, ConnectionKeeps, ResolverKeeps, IoThreadEndsKeeps, CallerKeeps, InterruptKeeps
     DEF Next, IoThreadStep
<1>2. CASE UNCHANGED vars
  BY <1>2, StutterKeeps
<1>. QED
  BY <1>1, <1>2

LEMMA Inductive == Spec => []IInv
<1>. QED
  BY InitInv, NextInv, PTL DEF Spec

-----------------------------------------------------------------------------
(* The theorems *)

\* The types of the connection's and the caller's state.
THEOREM TypeCorrect == Spec => []TypeOK
<1>1. IInv => TypeOK
  BY DEF IInv
<1>. QED
  BY <1>1, Inductive, PTL

\* No promise of a response is settled twice: no second set_value or set_exception
\* ends the io thread, and with it the process.
THEOREM PromisesSettledOnce == Spec => []SettledOnce
<1>1. IInv => SettledOnce
  BY DEF IInv, ConnInv
<1>. QED
  BY <1>1, Inductive, PTL

\* When the connection has nothing to wait for, its caller has nothing to wait for.
THEOREM PromisesAllSettled == Spec => []NothingForgotten
<1>1. IInv => NothingForgotten
  BY DEF IInv, ConnInv
<1>. QED
  BY <1>1, Inductive, PTL

\* Whatever promise its handlers settle next, and whenever run() looks: the parts before
\* one that has its value have theirs, and with the last part that run() waits for no part
\* has failed or will (async_normal.hpp:203-431).
THEOREM ValuesComeInOrder == Spec => []ValuesInOrder
<1>1. IInv => ValuesInOrder
  BY DEF IInv, ConnInv
<1>. QED
  BY <1>1, Inductive, PTL

\* run() returns a response only when the whole exchange has gone well and its io thread
\* has ended, whenever it is interrupted.
THEOREM WholeOrNothing == Spec => []ResponseIsWhole
<1>1. IInv => ResponseIsWhole
  BY DEF IInv
<1>. QED
  BY <1>1, Inductive, PTL

\* When run() is over its io thread is, too, unless the resolver's handler was left with
\* the client, and then there is no response.
THEOREM NothingOutlivesRun == Spec => []IoEndsWithRun
<1>1. IInv => IoEndsWithRun
  BY DEF IInv, TypeOK, OwnerInv, SeenInv, IoEndsWithRun, Finished
<1>. QED
  BY <1>1, Inductive, PTL

\* Whoever waits for a future waits for an io thread that has something left to do
\* (client/async_impl.hpp:63): the error paths included, nobody waits for nobody.
THEOREM NobodyWaitsInVain == Spec => []WaitsForSomebody
<1>1. ASSUME IInv, at \in Awaiting, promise[Awaited] = "unset", fault = "none"
      PROVE  ioThread = "running" /\ (pending # "none" \/ settling # <<>>)
  <2>1. ioThread = "running" /\ resolver # "unused"
    BY <1>1 DEF IInv, OwnerInv, SeenInv
  <2>2. Awaited \in Parts
    BY <1>1 DEF Awaited, Awaiting
  <2>3. resolver \in Resolvers /\ (resolver = "busy" => pending = "resolve")
    BY <1>1 DEF IInv, ConnInv, ConnTypeOK, SettledSoFar
  <2>4. pending = "none" /\ settling = <<>> /\ resolver \in {"returning", "gone"} =>
            promise[Awaited] # "unset"
    BY <1>1, <2>2 DEF IInv, ConnInv, NothingForgotten
  <2>. QED
    BY <1>1, <2>1, <2>3, <2>4 DEF Resolvers
<1>2. IInv => WaitsForSomebody
  BY <1>1 DEF WaitsForSomebody
<1>. QED
  BY <1>2, Inductive, PTL

\* What is ahead of an exchange is a number, and no step of the connection that moves
\* it leaves as much ahead as before.
LEMMA LessAhead ==
    ASSUME IInv, [Next]_vars
    PROVE  Ahead' < Ahead \/ UNCHANGED <<pending, endpoints, state>>
<1> DEFINE Goes == Ahead' < Ahead \/ UNCHANGED <<pending, endpoints, state>>
<1>. USE EndpointsAssumption DEF Ahead
<1>1. pending \in Pendings /\ endpoints \in 0 .. MaxEndpoints /\ state \in States
  BY DEF IInv, ConnInv, ConnTypeOK
<1>2. ASSUME fault = "none", pending # "none" PROVE resolver # "unused"
  BY <1>2 DEF IInv, ConnInv, SettledSoFar
<1>3. ASSUME UNCHANGED connVars PROVE Goes
  BY <1>3 DEF connVars
<1>4. ASSUME pending # "none", fault = "none", pending' = "none", UNCHANGED endpoints, resolver' # "unused"
      PROVE  Goes
  <2>1. resolver # "unused" /\ resolver' # "unused"
    BY <1>2, <1>4
  <2>. QED
    BY <1>1, <1>4, <2>1 DEF Pendings
<1>5. ASSUME HandleResolved PROVE Goes
  <2>1. pending = "resolve" /\ resolver # "unused" /\ resolver' # "unused" /\ fault = "none"
    BY <1>2, <1>5 DEF HandleResolved, Handling
  <2>2. \/ pending' = "connect" /\ endpoints' \in 0 .. (MaxEndpoints - 1)
        \/ pending' = "none" /\ UNCHANGED endpoints
    BY <1>5 DEF HandleResolved, GoesOn, Ends
  <2>. QED
    BY <1>4, <2>1, <2>2
<1>6. ASSUME HandleConnected PROVE Goes
  <2>1. pending = "connect" /\ resolver # "unused" /\ UNCHANGED resolver /\ fault = "none"
    BY <1>2, <1>6 DEF HandleConnected, Handling
  <2>2. \/ pending' = "write" /\ UNCHANGED endpoints
        \/ pending' = pending /\ endpoints' = endpoints - 1
        \/ pending' = "none" /\ UNCHANGED endpoints
    BY <1>6, <2>1 DEF HandleConnected, GoesOn, Ends
  <2>. QED
    BY <1>1, <1>4, <2>1, <2>2
<1>7. ASSUME HandleSentRequest PROVE Goes
  <2>1. pending = "write" /\ resolver # "unused" /\ UNCHANGED <<resolver, endpoints>> /\ fault = "none"
    BY <1>2, <1>7 DEF HandleSentRequest, Handling
  <2>2. (pending' = "read" /\ state' = Version) \/ pending' = "none"
    BY <1>7 DEF HandleSentRequest, GoesOn, Ends
  <2>. QED
    BY <1>4, <2>1, <2>2
<1>8. parsing /\ fault = "none" => pending = "read"
  BY DEF IInv, ConnInv, SettledSoFar
<1>9. ASSUME ParsePart \/ ParseRejects \/ ReceiveEof \/ ReceiveError PROVE Goes
  <2>1. pending = "read" /\ resolver # "unused" /\ UNCHANGED <<resolver, endpoints>> /\ fault = "none"
    BY <1>2, <1>8, <1>9 DEF ParsePart, ParseRejects, ReceiveEof, ReceiveError, Handling
  <2>2. pending' = "none" \/ (pending' = "read" /\ state' \in {state, state + 1})
    BY <1>9 DEF ParsePart, ParseRejects, ReceiveEof, ReceiveError, GoesOn, Ends
  <2>. QED
    BY <1>1, <1>4, <2>1, <2>2
<1>10. ASSUME Receive \/ ParseWantsMore \/ ParseBadStatus \/ SettleNext \/ PeerCloses \/ ResolverReturns
       PROVE  Goes
  BY <1>10 DEF Receive, ParseWantsMore, ParseBadStatus, connVars, SettleNext, PeerCloses, ResolverReturns
<1>11. ASSUME Dispatch, fault = "none" PROVE Goes
  <2>1. CASE UNCHANGED connVars
    BY <1>3, <2>1
  <2>2. CASE StartRequest(kind = "body")
    BY <2>2 DEF StartRequest
  <2>. QED
    BY <1>11, <2>1, <2>2 DEF Dispatch
<1>12. ASSUME CallerStep, ~Dispatch PROVE UNCHANGED connVars
  BY <1>12 DEF CallerStep, Call, ReadParameters, AwaitValue, FillLists, AwaitError, AwaitInterrupted,
     DropClient, JoinReturns, JoinInterrupted
<1>13. IoThreadEnds \/ Interrupt \/ UNCHANGED vars => UNCHANGED connVars
  BY DEF IoThreadEnds, Interrupt, vars
<1>. HIDE DEF Goes, Ahead
<1>14. IoStep \/ ServerStep => Goes
  BY <1>5, <1>6, <1>7, <1>9, <1>10 DEF IoStep, ParseStep, ServerStep
<1>15. Goes
  BY <1>3, <1>10, <1>11, <1>12, <1>13, <1>14 DEF Next, IoThreadStep
<1>. QED
  BY <1>15 DEF Goes

\* An exchange never goes back, whatever fails and whoever is slow: what is ahead of it
\* is used up in at most MaxEndpoints + 8 moves (async_normal.hpp:138-200).
THEOREM ExchangesGoOn == Spec => ExchangeGoesOn
<1>1. IInv /\ [Next]_vars => [Ahead' < Ahead \/ UNCHANGED <<pending, endpoints, state>>]_vars
  BY LessAhead
<1>. QED
  BY <1>1, Inductive, PTL DEF Spec, ExchangeGoesOn

\* The initial states of run() are those of a delegate ...
LEMMA InitRefines == Init => Abstract!Init
BY DEF Init, ConnInit, Abstract!Init

\* ... and so is each of its steps.  The steps of the connection and of the resolver are
\* visible only when they take the process down, for which run() must have been called.
LEMMA StepRefines ==
    ASSUME IInv, [Next]_vars
    PROVE  [Abstract!Next]_(Abstract!vars)
<1> DEFINE Refines == [Abstract!Next]_(Abstract!vars)
<1>. USE DEF Abstract!Next, Abstract!vars, Abstract!Call, Abstract!Interrupt, Abstract!Return,
     Abstract!Unwind, Abstract!Leave, Abstract!Terminate
<1>1. ASSUME UNCHANGED vars PROVE Refines
  BY <1>1 DEF vars, callVars
<1>2. ASSUME fault = "none" /\ (IoStep \/ ServerStep) /\ UNCHANGED callVars PROVE Refines
  <2>1. at # "out"
    BY <1>2, ConnStep DEF IInv, OwnerInv, Kept
  <2>. QED
    BY <1>2, <2>1 DEF callVars
<1>3. ASSUME fault = "none" /\ ResolverReturns PROVE Refines
  <2>1. at # "out"
    BY <1>3 DEF ResolverReturns, IInv, OwnerInv
  <2>. QED
    BY <1>3, <2>1 DEF ResolverReturns, callVars
<1>4. ASSUME fault = "none" /\ IoThreadEnds PROVE Refines
  BY <1>4 DEF IoThreadEnds
<1>5. ASSUME fault = "none" /\ Interrupt PROVE Refines
  BY <1>5 DEF Interrupt
<1>6. ASSUME fault = "none" /\ (Call \/ ReadParameters \/ AwaitValue \/ FillLists \/ AwaitError)
      PROVE  Refines
  BY <1>6 DEF Call, ReadParameters, AwaitValue, FillLists, AwaitError, Awaiting, AfterAwait, IInv,
     OwnerInv, TypeOK
<1>7. ASSUME fault = "none" /\ AwaitInterrupted PROVE Refines
  BY <1>7 DEF AwaitInterrupted, Awaiting
<1>8. ASSUME fault = "none" /\ Dispatch PROVE Refines
  BY <1>8 DEF Dispatch, StartRequest
<1>9. ASSUME fault = "none" /\ DropClient PROVE Refines
  BY <1>9 DEF DropClient, Finish, IInv, SeenInv, TypeOK
<1>10. ASSUME fault = "none" /\ JoinReturns PROVE Refines
  BY <1>10 DEF JoinReturns, Finish, IInv, SeenInv, TypeOK
<1>11. ASSUME fault = "none" /\ JoinInterrupted PROVE Refines
  BY <1>11 DEF JoinInterrupted, callVars
<1>. HIDE DEF Refines
<1>12. fault = "none" /\ CallerStep => Refines
  BY <1>6, <1>7, <1>8, <1>9, <1>10, <1>11 DEF CallerStep
<1>13. Refines
  BY <1>1, <1>2, <1>3, <1>4, <1>5, <1>12 DEF Next, IoThreadStep
<1>. QED
  BY <1>13 DEF Refines

\* run() is a delegate as module Worker assumes it, whatever server, network and
\* interruptions do.
THEOREM RunIsADelegate == Spec => ImplementsDelegate
<1>. QED
  BY InitRefines, StepRefines, Inductive, PTL DEF Spec, ImplementsDelegate, Abstract!Spec
=============================================================================
