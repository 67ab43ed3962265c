-------------------------- MODULE ThreadTimerProofs --------------------------
(***************************************************************************)
(* Proofs about ThreadTimer, for every set of addresses.                   *)
(***************************************************************************)
EXTENDS ThreadTimer, WellFoundedInduction, TLAPS

USE ObjectsAssumption

\* begin() of a map that is not empty, and the entry after one that is not the
\* last, are entries below all others.
LEMMA MinIsLeast ==
    ASSUME NEW S \in SUBSET Objects, S # {}
    PROVE  Min(S) \in S /\ \A p \in S : Min(S) <= p
<1>1. \E x \in S : \A y \in S : ~ (<<y, x>> \in OpToRel(<, Nat))
  <2>1. S \subseteq Nat
    OBVIOUS
  <2> QED
    BY <2>1, NatLessThanWellFounded, WFMin, Zenon
<1>2. \A x, y \in Nat : y < x => <<y, x>> \in OpToRel(<, Nat)
  BY DEF OpToRel
<1>3. \E x \in S : \A y \in S : x <= y
  <2>1. PICK x \in S : \A y \in S : ~ (<<y, x>> \in OpToRel(<, Nat))
    BY <1>1
  <2>2. \A y \in S : ~ (y < x)
    BY <2>1, <1>2
  <2> QED
    BY <2>2
<1> QED
  BY <1>3 DEF Min

\* Where an iterator may go next: to the end or to an entry.
LEMMA FirstIsEntry ==
    ASSUME TypeOK
    PROVE  First \in subscribers \cup {End}
BY MinIsLeast DEF First, TypeOK

LEMMA AfterIsAbove ==
    ASSUME TypeOK, NEW o \in Objects
    PROVE  After(o) = End \/ (After(o) \in subscribers /\ After(o) > o)
<1>1. CASE Above(o) = {}
  BY <1>1 DEF After
<1>2. CASE Above(o) # {}
  <2>1. Above(o) \in SUBSET Objects
    BY DEF Above, TypeOK
  <2>2. Min(Above(o)) \in Above(o)
    BY <1>2, <2>1, MinIsLeast
  <2> QED
    BY <1>2, <2>2 DEF After, Above
<1> QED
  BY <1>1, <1>2

\* The invariant of one whose objects stay in the map inside their own notify().
LEMMA Transition ==
    ASSUME IInv, [Next /\ NotifiedStays]_vars
    PROVE  IInv'
<1> USE DEF IInv, TypeOK, ArmedWhileSubscribed, CursorIsEntry
<1>1. ASSUME NEW o \in Objects, MainThreadIsTheirs, Subscribe(o) PROVE IInv'
  BY <1>1 DEF Subscribe
<1>2. ASSUME NEW o \in Objects, MainThreadIsTheirs, Unsubscribe(o), NotifiedStays PROVE IInv'
  BY <1>2 DEF Unsubscribe, MainThreadIsTheirs, NotifiedStays
<1>3. ASSUME MainThreadIsTheirs, TimerFire PROVE IInv'
  BY <1>3, FirstIsEntry DEF TimerFire
<1>4. CASE CallNotify
  BY <1>4 DEF CallNotify
<1>5. ASSUME NEW v \in Verdicts, NotifyReturns(v) PROVE IInv'
  <2>1. cursor \in Objects /\ cursor = notifying /\ cursor # Dangling
    BY <1>5 DEF NotifyReturns
  <2>2. After(cursor) = End \/ (After(cursor) \in subscribers /\ After(cursor) > cursor)
    BY <2>1, AfterIsAbove
  <2>3. After(cursor) \in (subscribers \ {cursor}) \cup {End}
    BY <2>1, <2>2
  <2>4. /\ subscribers' \in {subscribers, subscribers \ {cursor}}
        /\ cursor' = After(cursor) /\ notifying' = None
        /\ UNCHANGED <<armed, processing, corrupt>>
    BY <1>5, <2>1 DEF NotifyReturns
  <2>5. cursor' \in subscribers' \cup {End} /\ subscribers' \subseteq subscribers
    BY <2>3, <2>4
  <2> QED
    BY <2>1, <2>4, <2>5, <1>5 DEF NotifyReturns
<1>6. CASE EndWalk
  BY <1>6 DEF EndWalk
<1>7. CASE UNCHANGED vars
  BY <1>7 DEF vars
<1> QED
  BY <1>1, <1>2, <1>3, <1>4, <1>5, <1>6, <1>7 DEF Next

\* Whoever keeps out of its own entry while it is being notified, and whatever
\* else the callbacks do, the walk stays in the map.
THEOREM Invariance == TameSpec => []IInv
<1>1. Init => IInv
  BY DEF Init, IInv, TypeOK, ArmedWhileSubscribed, CursorIsEntry
<1>2. IInv /\ [Next /\ NotifiedStays]_vars => IInv'
  BY Transition
<1> QED
  BY <1>1, <1>2, PTL DEF TameSpec

\* The iterator of timerMsgProc (ThreadTimer.cpp:46-58) is valid whenever it is used.
THEOREM IteratorIsValid == TameSpec => []CursorIsEntry
<1>1. IInv => CursorIsEntry
  BY DEF IInv
<1> QED
  BY <1>1, Invariance, PTL

\* The invariant of a timer whose objects do what they like.
LEMMA LooseStep == LooseInv /\ [Next]_vars => LooseInv'
<1> SUFFICES ASSUME LooseInv, [Next]_vars PROVE LooseInv'
  OBVIOUS
<1> USE DEF LooseInv, TypeOK, ArmedWhileSubscribed
<1>1. ASSUME NEW o \in Objects, Subscribe(o) PROVE LooseInv'
  BY <1>1 DEF Subscribe
<1>2. ASSUME NEW o \in Objects, Unsubscribe(o) PROVE LooseInv'
  BY <1>2 DEF Unsubscribe
<1>3. CASE TimerFire
  BY <1>3, FirstIsEntry DEF TimerFire
<1>4. CASE CallNotify
  BY <1>4 DEF CallNotify
<1>5. ASSUME NEW v \in Verdicts, NotifyReturns(v) PROVE LooseInv'
  <2>1. CASE cursor = Dangling
    BY <1>5, <2>1 DEF NotifyReturns
  <2>2. CASE cursor # Dangling
    <3>1. cursor \in Objects
      BY <1>5, <2>2 DEF NotifyReturns
    <3>2. After(cursor) \in subscribers \cup {End}
      BY <3>1, AfterIsAbove
    <3> QED
      BY <1>5, <2>2, <3>2 DEF NotifyReturns
  <2> QED
    BY <2>1, <2>2
<1>6. CASE EndWalk
  BY <1>6 DEF EndWalk
<1>7. CASE UNCHANGED vars
  BY <1>7 DEF vars
<1> QED
  BY <1>1, <1>2, <1>3, <1>4, <1>5, <1>6, <1>7 DEF Next

THEOREM LooseInvariance == Spec => []LooseInv
<1>1. Init => LooseInv
  BY DEF Init, LooseInv, TypeOK, ArmedWhileSubscribed
<1> QED
  BY <1>1, LooseStep, PTL DEF Spec

\* timerMsgProc leaves its iterator at an entry, at the end or dangling, and nowhere
\* else, whatever the callbacks do.
THEOREM TypeCorrect == Spec => []TypeOK
<1>1. LooseInv => TypeOK
  BY DEF LooseInv
<1> QED
  BY <1>1, LooseInvariance, PTL

\* subscribe() and unsubscribe() (ThreadTimer.cpp:64-87) leave no subscriber
\* behind a timer that is not running; this one needs no discipline of anybody.
THEOREM NobodyWaitsUnarmed == Spec => []ArmedWhileSubscribed
<1>1. LooseInv => ArmedWhileSubscribed
  BY DEF LooseInv
<1> QED
  BY <1>1, LooseInvariance, PTL

\* A walk visits the addresses in ascending order, so no object twice, and calls
\* no notify() inside another, although the callbacks let the timer fire.
THEOREM WalkIsMonotone == TameSpec => WalkGoesUp
<1> DEFINE Up == /\ processing /\ processing' /\ cursor' # cursor =>
                      \/ cursor' = End
                      \/ cursor \in Objects /\ cursor' \in Objects /\ cursor' > cursor
                 /\ notifying # None /\ notifying' # None => notifying' = notifying
<1>1. IInv /\ [Next /\ NotifiedStays]_vars => [Up]_vars
  <2> SUFFICES ASSUME IInv, Next, NotifiedStays PROVE Up
    OBVIOUS
  <2> USE DEF IInv, TypeOK, CursorIsEntry
  <2>1. ASSUME NEW o \in Objects, Subscribe(o) PROVE Up
    BY <2>1 DEF Subscribe
  <2>2. ASSUME NEW o \in Objects, MainThreadIsTheirs, Unsubscribe(o) PROVE Up
    BY <2>2 DEF Unsubscribe, MainThreadIsTheirs, NotifiedStays
  <2>3. CASE TimerFire
    BY <2>3 DEF TimerFire
  <2>4. CASE CallNotify
    BY <2>4 DEF CallNotify
  <2>5. ASSUME NEW v \in Verdicts, NotifyReturns(v) PROVE Up
    BY <2>5, AfterIsAbove DEF NotifyReturns
  <2>6. CASE EndWalk
    BY <2>6 DEF EndWalk
  <2> QED
    BY <2>1, <2>2, <2>3, <2>4, <2>5, <2>6 DEF Next
<1> QED
  BY <1>1, Invariance, PTL DEF TameSpec, WalkGoesUp
=============================================================================
