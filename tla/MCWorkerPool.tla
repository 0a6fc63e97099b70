---------------------------- MODULE MCWorkerPool ----------------------------
(* Instances of WorkerPool for TLC.                                        *)
EXTENDS WorkerPool

CONSTANTS p1, p2, p3, w1, w2, w3

ThreePorts == {p1, p2, p3}
ThreeWorkers == {w1, w2, w3}
=============================================================================
