----------------------------- MODULE MCEvThread -----------------------------
(***************************************************************************)
(* Instances of EvThread for TLC.                                          *)
(***************************************************************************)
EXTENDS EvThread

CONSTANTS a, b, s1, s2, f1, f2

MCThreads == {a, b}
MCSockets == {s1, s2}
MCOneFd   == {f1}
MCTwoFds  == {f1, f2}
=============================================================================
