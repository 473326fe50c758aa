---------------------------- MODULE MCHostChecks ----------------------------
(* Small instances of HostChecks: a router that is checked at intervals and *)
(* a host behind it, which depends on it too and is checked on demand only. *)
EXTENDS HostChecks

CONSTANTS router, leaf

MCParents == [h \in Hosts |-> IF h = leaf THEN {router} ELSE {}]
MCMasters == MCParents
MCMaxAttempts == [h \in Hosts |-> IF h = leaf THEN 2 ELSE 1]
MCCheckInterval == [h \in Hosts |-> IF h = leaf THEN 0 ELSE 2]
MCRetryInterval == [h \in Hosts |-> 1]
MCNoSkipStatus == -1
MCRouterFreshness == [h \in Hosts |-> IF h = leaf THEN 0 ELSE 1]
MCLeafFreshness == [h \in Hosts |-> IF h = leaf THEN 1 ELSE 0]
=============================================================================
