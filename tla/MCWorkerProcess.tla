-------------------------- MODULE MCWorkerProcess --------------------------
(* Small instances of WorkerProcess.                                        *)
EXTENDS WorkerProcess

CONSTANTS j1, j2
=============================================================================
