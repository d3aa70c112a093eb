---------------------------- MODULE MCCBarrier ------------------------------
(***************************************************************************)
(* Instances of CBarrier for TLC.                                          *)
(***************************************************************************)
EXTENDS CBarrier

CONSTANTS t1, t2, t3

MCThreads == {t1, t2, t3}
MCOne  == {t1}
MCTwo  == {t2}
MCThree == {t3}
MCNone == {}
=============================================================================
