----------------------------- MODULE ThreadTimer -----------------------------
(***************************************************************************)
(* The polling timer of src/src/ThreadTimer.cpp.  Omnis objects subscribe  *)
(* themselves; a window timer of Omnis calls timerMsgProc on the main      *)
(* thread, which walks the subscribers and calls notify() on each.         *)
(*                                                                         *)
(* notify() may call back into Omnis, and the Omnis method that runs there *)
(* may subscribe, unsubscribe and let the timer fire again, all of it on   *)
(* the same thread, under the walk.  So the walk is one action per call of *)
(* notify() and one per return from it.                                    *)
(*                                                                         *)
(* subscribers is a std::map ordered by the address of the object.  The    *)
(* value kTimerStop never outlives the iteration that assigns it, so the   *)
(* map is the set of its keys.                                             *)
(***************************************************************************)
EXTENDS Integers, FiniteSets, FiniteSetsExt

CONSTANTS Objects,   \* addresses of the objects that may subscribe
          None,      \* no object
          End,       \* subscribers.end(), also where the iterator is between two walks
          Dangling   \* where it is when its entry was erased under it

\* Addresses are ordered; the other values are none of them.
ASSUME ObjectsAssumption ==
    /\ Objects \subseteq Nat
    /\ None \notin Objects /\ End \notin Objects /\ Dangling \notin Objects
    /\ End # Dangling

VARIABLES
    subscribers,   \* the keys of subscribers
    armed,         \* _timerID is not 0
    processing,    \* timerProcessing
    cursor,        \* the entry the iterator it is at: an object, End or Dangling
    notifying,     \* the object inside its notify(), or None
    corrupt        \* an iterator to an erased entry has been used

vars == <<subscribers, armed, processing, cursor, notifying, corrupt>>

Verdicts == {"continue", "stop"}

TypeOK ==
    /\ subscribers \subseteq Objects
    /\ armed \in BOOLEAN
    /\ processing \in BOOLEAN
    /\ cursor \in Objects \cup {End, Dangling}
    /\ notifying \in Objects \cup {None}
    /\ corrupt \in BOOLEAN

Init ==
    /\ subscribers = {}
    /\ armed = FALSE
    /\ processing = FALSE
    /\ cursor = End
    /\ notifying = None
    /\ corrupt = FALSE

-----------------------------------------------------------------------------
(* The map *)

Above(o) == {p \in subscribers : p > o}

First == IF subscribers = {} THEN End ELSE Min(subscribers)

\* ++it from the entry of o.
After(o) == IF Above(o) = {} THEN End ELSE Min(Above(o))

-----------------------------------------------------------------------------
(* Called by the objects, between walks or inside notify() *)

Subscribe(o) ==
    /\ subscribers' = subscribers \cup {o}
    /\ armed' = TRUE
    /\ UNCHANGED <<processing, cursor, notifying, corrupt>>

\* Mutant of Unsubscribe: the timer is killed with every subscriber that goes.
UnsubscribeKillsTimer(o) ==
    /\ subscribers' = subscribers \ {o}
    /\ armed' = FALSE
    /\ cursor' = IF cursor = o THEN Dangling ELSE cursor
    /\ UNCHANGED <<processing, notifying, corrupt>>

\* The last one to go kills the timer.  Erasing the entry the walk is at leaves
\* its iterator dangling.
Unsubscribe(o) ==
    /\ subscribers' = subscribers \ {o}
    /\ armed' = (armed /\ subscribers' # {})
    /\ cursor' = IF cursor = o THEN Dangling ELSE cursor
    /\ UNCHANGED <<processing, notifying, corrupt>>

-----------------------------------------------------------------------------
(* timerMsgProc *)

\* Mutant of TimerFire: the guard on timerProcessing is gone.
TimerFireReentered ==
    /\ armed
    /\ processing' = TRUE
    /\ cursor' = First
    /\ UNCHANGED <<subscribers, armed, notifying, corrupt>>

\* A timer message that arrives under a walk returns at once.
TimerFire ==
    /\ armed
    /\ IF processing
       THEN UNCHANGED <<processing, cursor>>
       ELSE processing' = TRUE /\ cursor' = First
    /\ UNCHANGED <<subscribers, armed, notifying, corrupt>>

CallNotify ==
    /\ processing
    /\ notifying = None
    /\ cursor \in Objects
    /\ notifying' = cursor
    /\ UNCHANGED <<subscribers, armed, processing, cursor, corrupt>>

\* Mutant of NotifyReturns: erase(it) without the increment, then begin() again.
NotifyReturnsToFirst(verdict) ==
    /\ notifying # None
    /\ notifying' = None
    /\ IF cursor = Dangling
       THEN corrupt' = TRUE /\ UNCHANGED <<subscribers, cursor>>
       ELSE /\ subscribers' = IF verdict = "stop" THEN subscribers \ {cursor} ELSE subscribers
            /\ cursor' = IF subscribers' = {} THEN End ELSE Min(subscribers')
            /\ UNCHANGED corrupt
    /\ UNCHANGED <<armed, processing>>

\* Mutant of NotifyReturns: the key is stepped, not the iterator.
NotifyReturnsNextAddress(verdict) ==
    /\ notifying # None
    /\ notifying' = None
    /\ cursor' = IF cursor = Dangling THEN cursor ELSE cursor + 1
    /\ UNCHANGED <<subscribers, armed, processing, corrupt>>

\* it->second = notify(), then erase(it++) or ++it.  erase leaves _timerID.
NotifyReturns(verdict) ==
    /\ notifying # None
    /\ notifying' = None
    /\ IF cursor = Dangling
       THEN corrupt' = TRUE /\ UNCHANGED <<subscribers, cursor>>
       ELSE /\ subscribers' = IF verdict = "stop" THEN subscribers \ {cursor} ELSE subscribers
            /\ cursor' = After(cursor)
            /\ UNCHANGED corrupt
    /\ UNCHANGED <<armed, processing>>

\* Mutant of EndWalk: timerProcessing stays set.
EndWalkStillProcessing ==
    /\ processing
    /\ cursor = End
    /\ UNCHANGED vars

EndWalk ==
    /\ processing
    /\ cursor = End
    /\ processing' = FALSE
    /\ UNCHANGED <<subscribers, armed, cursor, notifying, corrupt>>

-----------------------------------------------------------------------------
(* The objects do anything the main thread lets them: they act when no walk *)
(* is on, or inside the callback of one.                                    *)

MainThreadIsTheirs == processing => notifying # None

Next ==
    /\ ~corrupt
    /\ \/ \E o \in Objects : MainThreadIsTheirs /\ (Subscribe(o) \/ Unsubscribe(o))
       \/ MainThreadIsTheirs /\ TimerFire
       \/ CallNotify
       \/ \E v \in Verdicts : NotifyReturns(v)
       \/ EndWalk

Spec == Init /\ [][Next]_vars

\* Omnis delivers the timer's messages, and its methods return.
Fairness ==
    /\ WF_vars(MainThreadIsTheirs /\ TimerFire)
    /\ WF_vars(CallNotify \/ EndWalk)
    /\ WF_vars(\E v \in Verdicts : NotifyReturns(v))

\* No object unsubscribes while the walk is inside its own notify().
NotifiedStays == notifying' # None => subscribers \ subscribers' \subseteq Objects \ {notifying}

TameSpec == Init /\ [][Next /\ NotifiedStays]_vars

FairSpec == TameSpec /\ Fairness

-----------------------------------------------------------------------------
(* Properties *)

\* Nobody waits for a timer that is not running: subscribe() arms it, and
\* neither the walk's own erase nor the last unsubscribe() leaves a subscriber
\* behind a killed one.
ArmedWhileSubscribed == subscribers # {} => armed

\* The iterator of a walk stands at an entry of the map or at its end, whatever
\* the callbacks subscribe and unsubscribe, as long as no object takes itself out
\* inside its own notify().
CursorIsEntry ==
    /\ cursor \in subscribers \cup {End}
    /\ notifying # None => cursor = notifying

\* A walk moves up the map: no object is notified twice in it and the callback
\* of one object never starts the callback of another.
WalkGoesUp ==
    [][/\ processing /\ processing' /\ cursor' # cursor =>
             \/ cursor' = End
             \/ cursor \in Objects /\ cursor' \in Objects /\ cursor' > cursor
       /\ notifying # None /\ notifying' # None => notifying' = notifying]_vars

\* Every subscriber is notified again and again until it is no longer one,
\* whoever else joins and leaves.
EverySubscriberIsNotified ==
    \A o \in Objects : (o \in subscribers) ~> (notifying = o \/ o \notin subscribers)
-----------------------------------------------------------------------------
(* The strengthening that makes the properties inductive *)

\* No walk, no position; and the conjuncts of the properties.
IInv ==
    /\ TypeOK
    /\ ~processing => cursor = End /\ notifying = None
    /\ ArmedWhileSubscribed
    /\ CursorIsEntry

\* What is left of the invariant when an object may take itself out inside its own
\* notify().
LooseInv ==
    /\ TypeOK
    /\ ArmedWhileSubscribed
    /\ ~processing => cursor = End /\ notifying = None
    /\ notifying # None => cursor \in {notifying, Dangling}
=============================================================================
