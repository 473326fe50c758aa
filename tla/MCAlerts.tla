------------------------------ MODULE MCAlerts ------------------------------
(* A host and a service with a contact that hears of everything and one     *)
(* that is escalated to and hears of critical problems only.                *)
EXTENDS Alerts, TLC

CONSTANTS alice, bob

MCContactOptions ==
    (alice :> [states |-> 0..3, flapping |-> TRUE, downtime |-> TRUE]) @@
    (bob :> [states |-> {0, 2}, flapping |-> FALSE, downtime |-> FALSE])
MCContactsOf == {alice}
MCOptions == [states |-> 0..3, flapping |-> TRUE, downtime |-> TRUE]
MCEscalations ==
    {[first |-> 2, last |-> 0, interval |-> 1, states |-> 0..3, contacts |-> {bob},
      timed |-> TRUE]}
MCFlapStates == 0..3
MCIsVolatile == [x \in {"service"} |-> FALSE]
MCHostResults ==
    {[active |-> TRUE, early_timeout |-> FALSE, exited_ok |-> TRUE, return_code |-> 0],
     [active |-> TRUE, early_timeout |-> FALSE, exited_ok |-> TRUE, return_code |-> 2],
     [active |-> FALSE, early_timeout |-> FALSE, exited_ok |-> TRUE, return_code |-> 1]}

(* Commands that belong together, tried on a service; those that hosts have *)
(* code of their own for on a host as well.                                 *)
OfServices ==
    {[given |-> {"ack", "comment", "restart"}, varies |-> {}],
     [given |-> {"flap", "restart"}, varies |-> {"contacts_on"}],
     [given |-> {"allflap", "downtime"}, varies |-> {"host_downtime"}],
     [given |-> {"custom", "modules"}, varies |-> {}],
     [given |-> {"delay", "number", "notifications", "restart"}, varies |-> {}],
     [given |-> {"restart"}, varies |-> {"escalations_on"}],
     [given |-> {}, varies |-> {"in_period", "deps_fail", "parents_bad", "host_up"}]}
OfHosts ==
    {[given |-> {"ack", "restart"}, varies |-> {}],
     [given |-> {"allflap", "downtime"}, varies |-> {}],
     [given |-> {"flap"}, varies |-> {}],
     [given |-> {}, varies |-> {"escalations_on"}],
     [given |-> {}, varies |-> {"in_period"}]}
Scene(kind, t) == [kind |-> kind, given |-> t.given, varies |-> t.varies]
MCScenarios ==
    {Scene("service", t) : t \in OfServices} \cup {Scene("host", t) : t \in OfHosts}
=============================================================================
