----------------------------- MODULE MCCThread -----------------------------
(***************************************************************************)
(* Instances of CThread for TLC.                                           *)
(***************************************************************************)
EXTENDS CThread, TLC

CONSTANTS t1, t2, t3

MCThreads3  == {t1, t2, t3}
MCAllModes  == {"PREALLOC", "LIMITED", "UNLIMITED"}
MCPrealloc  == {"PREALLOC"}

\* The threads start alike, and no liveness is checked.
Symmetry == Permutations(Threads)
=============================================================================
