-------------------------- MODULE MCNVObjHTTPWorker --------------------------
(***************************************************************************)
(* Model-checking instance of NVObjHTTPWorker.  Workers and threads may be *)
(* permuted; the objects are ordered addresses and may not.  Where liveness *)
(* rules symmetry out, workers and threads are numbers and taken in their  *)
(* order, which leaves every behaviour up to the names.                    *)
(***************************************************************************)
EXTENDS NVObjHTTPWorker, TLC

Symmetry == Permutations(Workers) \cup Permutations(Threads)

TakenInOrder ==
    /\ \A t \in Threads : pc[t] = "idle" /\ pc'[t] # "idle" =>
          \A s \in Threads : s < t => pc[s] # "idle"
    /\ \A w \in Workers : owner[w] = "unborn" /\ owner'[w] # "unborn" =>
          \A x \in Workers : x < w => owner[x] # "unborn"

\* Objects of the same class and age: constructed in their order, not destroyed;
\* every worker is given its request to run in the background, and no call fails.
BackgroundObjects ==
    /\ \A i \in DOMAIN stack' : stack'[i].via # "call"
    /\ \A w \in Workers : main' # <<"run", w>>
    /\ alive \subseteq alive'
    /\ \A o \in alive' : \A p \in Objects : p < o => p \in alive'

OrderedFairSpec ==
    Init /\ [][Next /\ Courteous /\ TakenInOrder /\ BackgroundObjects]_vars /\ Fairness
=============================================================================
