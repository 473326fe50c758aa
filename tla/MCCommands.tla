----------------------------- MODULE MCCommands -----------------------------
(* Two hosts, the second below the first, a service on each, one contact,   *)
(* groups of them.                                                          *)
EXTENDS Commands

h1 == <<"h1">>
h2 == <<"h2">>
s1 == <<"h1", "s1">>
s2 == <<"h2", "s2">>
c1 == <<"c1">>
prog == <<"program">>

MCObjects == {h1, h2, s1, s2, c1, prog}
MCKindOf ==
    [o \in MCObjects |-> CASE o \in {h1, h2} -> "host" [] o \in {s1, s2} -> "service"
                           [] o = c1 -> "contact" [] o = prog -> "program"]
MCServicesOf == [h \in {h1, h2} |-> IF h = h1 THEN {s1} ELSE {s2}]
MCChildren == [h \in {h1, h2} |-> IF h = h1 THEN {h2} ELSE {}]
MCHostgroups == [g \in {<<"hg">>} |-> {h1, h2}]
MCServicegroups == [g \in {<<"sg">>} |-> {s1, s2}]
MCContactgroups == [g \in {<<"cg">>} |-> {c1}]

MCScenes ==
    {{},
     {<<h1, "notifications">>, <<h2, "notifications">>},
     {<<s1, "checks">>, <<s1, "event_handler">>},
     {<<s2, "passive">>},
     {<<c1, "host_notifications">>},
     {<<prog, "enable_notifications">>},
     {<<s1, "check_interval">>, <<s1, "retry_interval">>},
     {<<h1, "check_period">>}}

MCFaultyScenes ==
    {{<<h1, "obsess">>, <<h1, "notifications">>},
     {<<h1, "check_interval">>, <<h1, "retry_interval">>},
     {<<s2, "passive">>},
     {<<prog, "execute_service_checks">>}}

MCUnretained == {h2}
MCStatusless == {s2}

(* Event handlers are masked.                                               *)
MCMask ==
    [m \in {"program", "object", "contact"} \X {"host", "service"} |->
        IF m[1] = "object" THEN {"event_handler"} ELSE {}]

(* So are the active checks of hosts, whose bit is that of services.        *)
MCFaultyMask ==
    [MCMask EXCEPT !["program", "host"] = {"execute_host_checks", "execute_service_checks"}]

L(c, f) == [kv |-> FALSE, timed |-> TRUE, cmd |-> {c}, fields |-> f]

TargetTexts(c) ==
    CASE c.scope = "global" -> {<<"">>}
      [] c.scope \in {"host", "service", "contact"} -> {o \in MCObjects : MCKindOf[o] = c.scope}
      [] c.scope = "hostgroup" -> {<<"hg">>}
      [] c.scope = "servicegroup" -> {<<"sg">>}
      [] c.scope = "contactgroup" -> {<<"cg">>}

WatchedAttrs == {x[2] : x \in UNION (MCScenes \cup MCFaultyScenes)}

(* Well-formed lines, for all commands on attributes that are looked at.    *)
WellFormed ==
    UNION {{L(c, t \o IF c.op \in {"setting", "modattr"} THEN <<n>> ELSE <<>>) :
                t \in TargetTexts(c), n \in {"1", "2"}} :
           c \in {d \in Registered : d.attr \in WatchedAttrs \cup {"all", "save", "read", "restart"}}}

Concerns(c, w) ==
    \/ c.attr \in {x[2] : x \in w}
    \/ c.attr \in {"save", "read", "restart"}
    \/ c.op = "modattr" /\ \E x \in w : MCKindOf[x[1]] = c.scope

AddComment == CHOOSE c \in HostCommands : c.op = "comment"
DelDowntime == CHOOSE c \in GlobalCommands : c.op = "downtime"
SvcCheckInterval == CHOOSE c \in ServiceCommands : c.attr = "check_interval"
HostModattr == CHOOSE c \in HostCommands : c.op = "modattr"

(* Texts of up to n fields.                                                 *)
Texts(n) == UNION {[1..k -> {"", "h1", "s1", "1", "2"}] : k \in 1..n}

Odd ==
    {L(SvcCheckInterval, f) : f \in Texts(4)} \cup {L(HostModattr, f) : f \in Texts(3)}
    \cup {L(AddComment, <<"h1", "1">> \o f) : f \in Texts(3)}
    \cup {L(AddComment, f) : f \in Texts(4)}
    \cup {L(DelDowntime, f) : f \in Texts(4)}
    \cup {[L(SvcCheckInterval, f) EXCEPT !.kv = TRUE] :
            f \in [1..2 -> {<<>>, <<"h1">>, <<"h1", "s1">>, <<"1">>, <<"">>}]}
    \cup {[L(AddComment, <<"h1">>) EXCEPT !.timed = FALSE],
          [L(AddComment, <<"h1">>) EXCEPT !.cmd = {}]}

MCLines ==
    [w \in MCScenes \cup MCFaultyScenes |->
        IF w = {} THEN Odd
        ELSE {l \in WellFormed : \A c \in l.cmd : Concerns(c, w)}]
=============================================================================
