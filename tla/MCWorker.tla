------------------------------ MODULE MCWorker ------------------------------
(***************************************************************************)
(* Model-checking instance of Worker.  Workers and threads are created     *)
(* alike and never compared with an order, so permuting either set maps    *)
(* behaviours to behaviours; liveness runs do not use the symmetry.        *)
(***************************************************************************)
EXTENDS Worker, TLC

Symmetry == Permutations(Workers) \cup Permutations(Threads)
=============================================================================
