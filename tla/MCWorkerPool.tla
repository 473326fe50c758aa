---------------------------- MODULE MCWorkerPool ----------------------------
(* Small instances of WorkerPool.                                           *)
EXTENDS WorkerPool, TLC

CONSTANTS p, q, j1, j2, j3, w1, w2, w3

CommandOf == (j1 :> p) @@ (j2 :> Core) @@ (j3 :> Core)
OnePlugin == {<< >>, <<p>>}
ManyPlugins == {<< >>, <<p>>, <<p, q>>}

(* Connections are interchangeable until they register: it is enough to     *)
(* look at the behaviours in which they do so in this order.                *)
InOrder ==
    /\ status[w2] # "new" => status[w1] # "new"
    /\ status[w3] # "new" => status[w2] # "new"
=============================================================================
