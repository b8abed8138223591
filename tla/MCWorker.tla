------------------------------ MODULE MCWorker ------------------------------
(* Small instances of Worker for TLC.                                        *)
EXTENDS Worker

CONSTANTS w1, w2
TwoWaiters == {w1, w2}
=============================================================================
