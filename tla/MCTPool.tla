------------------------------ MODULE MCTPool -------------------------------
(***************************************************************************)
(* An instance of TPool for TLC: workers w.., sender s1, requests m..      *)
(***************************************************************************)
EXTENDS TPool

CONSTANTS w1, w2, s1, m1, m2, m3

MCWorkers == {w1, w2}
MCSenders == {s1}
MCItems == {m1, m2, m3}
=============================================================================
