---------------------------- MODULE MCTestThread -----------------------------
(***************************************************************************)
(* Instances of TestThread for TLC: three runners.                         *)
(***************************************************************************)
EXTENDS TestThread

CONSTANTS r1, r2, r3

MCRunners == {r1, r2, r3}
MCBoth    == BOOLEAN
=============================================================================
