------------------------------ MODULE MCWorker ------------------------------
(* Instances of Worker for TLC.                                             *)
EXTENDS Worker
CONSTANTS t1, t2, t3, t4
NoPreset == <<>>
\* Worker(std::queue) given two tasks.
TwoPreset == <<t1, t2>>
=============================================================================
