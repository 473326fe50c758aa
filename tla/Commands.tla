------------------------------ MODULE Commands ------------------------------
(* External commands: a line is parsed against the registered command it    *)
(* names, shown to the broker modules and handed to its handler, which      *)
(* changes attributes of one object, of the members of a group or of a tree *)
(* of hosts, or saves or reads the retention file.                          *)
EXTENDS Retention, SequencesExt

CONSTANTS ServicesOf,     \* host -> its services
          Children,       \* host -> its child hosts
          Hostgroups,     \* hostgroup -> its hosts
          Servicegroups,  \* servicegroup -> its services
          Contactgroups,  \* contactgroup -> its contacts
          Lines,          \* scene -> the lines that are tried
          AllowCircular   \* allow_circular_dependencies

VARIABLES line,     \* history: the line that was read last, kept in the scene without
                    \* attributes, which is about parsing
          outcome   \* history: what became of it

cvars == <<vars, line, outcome>>

Program == CHOOSE o \in Objects : KindOf[o] = "program"
OfKind(k) == {o \in Objects : KindOf[o] = k}

-----------------------------------------------------------------------------
(* The registered commands.                                                 *)

Commands(scope, over, op, attrs, tos) ==
    [scope : {scope}, over : {over}, op : {op}, attr : attrs, to : tos]

GlobalFlags ==
    {"enable_notifications", "execute_service_checks", "accept_passive_service_checks",
     "execute_host_checks", "accept_passive_host_checks", "obsess_over_services",
     "obsess_over_hosts", "enable_event_handlers", "enable_flap_detection",
     "check_service_freshness", "check_host_freshness", "process_performance_data"}

GlobalCommands ==
    Commands("global", "it", "flag", GlobalFlags, 0..1)
    \cup Commands("global", "it", "state", {"save", "read"}, {0})
    \cup Commands("global", "it", "stop", {"restart", "shutdown"}, {0})
    \cup Commands("global", "it", "downtime", {"delete"}, {0})

ObjectFlags == {"notifications", "checks", "passive", "event_handler", "flap_detection", "obsess"}

ObjectSettings ==
    {"check_interval", "retry_interval", "max_attempts", "check_period", "notification_period"}

HostCommands ==
    Commands("host", "it", "flag", ObjectFlags, 0..1)
    \cup Commands("host", "services", "flag", {"notifications", "checks"}, 0..1)
    \cup Commands("host", "beyond", "flag", {"notifications"}, 0..1)
    \cup Commands("host", "tree", "flag", {"notifications"}, 0..1)
    \cup Commands("host", "it", "setting", ObjectSettings, {0})
    \cup Commands("host", "it", "modattr", {"all"}, {0})
    \cup Commands("host", "it", "comment", {"add"}, {0})

ServiceCommands ==
    Commands("service", "it", "flag", ObjectFlags, 0..1)
    \cup Commands("service", "it", "setting", ObjectSettings, {0})
    \cup Commands("service", "it", "modattr", {"all"}, {0})

GroupFlags == {"notifications", "checks", "passive"}

HostgroupCommands ==
    Commands("hostgroup", "hosts", "flag", GroupFlags, 0..1)
    \cup Commands("hostgroup", "services", "flag", GroupFlags, 0..1)

ServicegroupCommands ==
    Commands("servicegroup", "hosts", "flag", GroupFlags, 0..1)
    \cup Commands("servicegroup", "services", "flag", GroupFlags, 0..1)

ContactFlags == {"host_notifications", "service_notifications"}

ContactCommands ==
    Commands("contact", "it", "flag", ContactFlags, 0..1)
    \cup Commands("contact", "it", "setting", {"host_period", "service_period"}, {0})
    \cup Commands("contactgroup", "contacts", "flag", ContactFlags, 0..1)

Registered ==
    GlobalCommands \cup HostCommands \cup ServiceCommands \cup HostgroupCommands
    \cup ServicegroupCommands \cup ContactCommands

(* An argument has a type and perhaps a default.                            *)
Arg(t) == [type |-> t, default |-> NONE]
Optional(t, d) == [type |-> t, default |-> d]

(* command_create, with the argument list the registration gives            *)
ArgumentsOf(c) ==
    LET target == IF c.scope = "global" THEN <<>> ELSE <<Arg(c.scope)>>
    IN  CASE c.op = "setting" ->
               Append(target, Arg(IF c.attr \in Periods THEN "timeperiod" ELSE "number"))
          [] c.op = "modattr" -> Append(target, Arg("number"))
          [] c.op = "comment" -> target \o <<Arg("bool"), Arg("str"), Arg("str")>>
          [] c.op = "downtime" -> <<Optional("str", <<"">>), Optional("str", <<"">>),
                                    Optional("number", 0), Optional("str", <<"">>)>>
          [] OTHER -> target

-----------------------------------------------------------------------------
(* Parsing.  The text after the command is a sequence of fields, the parts  *)
(* between semicolons.                                                      *)

Numeral(f) == CASE f = "0" -> 0 [] f = "1" -> 1 [] f = "2" -> 2 [] OTHER -> NONE

(* parse_integer, parse_ulong, and resolve_object: what the text of an      *)
(* argument stands for, NONE if it stands for nothing of the type.          *)
Meaning(t, text) ==
    CASE t \in {"host", "service", "contact"} -> IF text \in OfKind(t) THEN text ELSE NONE
      [] t = "hostgroup" -> IF text \in DOMAIN Hostgroups THEN text ELSE NONE
      [] t = "servicegroup" -> IF text \in DOMAIN Servicegroups THEN text ELSE NONE
      [] t = "contactgroup" -> IF text \in DOMAIN Contactgroups THEN text ELSE NONE
      [] t = "timeperiod" -> IF Numeral(text[1]) \in periods THEN Numeral(text[1]) ELSE NONE
      [] t = "number" -> Numeral(text[1])
      [] t = "bool" -> IF Numeral(text[1]) \in 0..1 THEN Numeral(text[1]) ELSE NONE
      [] OTHER -> text

Failed(why) == [ok |-> FALSE, why |-> why, values |-> <<>>]
Parsed(values) == [ok |-> TRUE, why |-> "none", values |-> values]

(* The text of argument i, of which the fields f are left.                  *)
TextOf(args, i, f) ==
    IF i = Len(args) /\ args[i].type = "str" THEN f
    ELSE SubSeq(f, 1, IF args[i].type = "service" /\ Len(f) > 1 THEN 2 ELSE 1)

(* Mutant: a string at the end stops at the next semicolon, and the rest is *)
(* dropped.                                                                 *)
RestAfterDrops(args, i, f) ==
    IF i = Len(args) THEN <<>>
    ELSE SubSeq(f, IF args[i].type = "service" THEN 3 ELSE 2, Len(f))

(* The fields that are left after argument i.                               *)
RestAfter(args, i, f) ==
    IF i = Len(args) /\ args[i].type = "str" THEN <<>>
    ELSE SubSeq(f, IF args[i].type = "service" THEN 3 ELSE 2, Len(f))

RECURSIVE ParseFrom(_, _, _, _)

(* parse_arguments: arguments i and later against the fields f.             *)
ParseFrom(args, i, f, values) ==
    IF f = <<>>
    THEN IF \E k \in i..Len(args) : args[k].default = NONE THEN Failed("missing")
         ELSE Parsed(values \o [k \in 1..(Len(args) - i + 1) |-> args[k + i - 1].default])
    ELSE IF i > Len(args)
    THEN IF args = <<>> THEN Parsed(values) ELSE Failed("excess")
    ELSE LET text == TextOf(args, i, f)
             m == Meaning(args[i].type, text)
             rest == RestAfter(args, i, f)
         IN  IF text[1] = "" /\ (args[i].type # "str" \/ Len(text) = 1)
             THEN IF args[i].default = NONE THEN Failed("missing")
                  ELSE ParseFrom(args, i + 1, Tail(f), Append(values, args[i].default))
             ELSE IF args[i].type = "service" /\ Len(f) < 2 THEN Failed("type")
             ELSE IF m = NONE THEN Failed("invalid")
             ELSE ParseFrom(args, i + 1, rest, Append(values, m))

parse_arguments(args, f) == ParseFrom(args, 1, f, <<>>)

(* parse_kv_command: here f holds the text of every argument, <<>> if the   *)
(* key is not there; defaults do not count.                                 *)
parse_kv(args, f) ==
    LET bad == {i \in DOMAIN args : f[i] = <<>> \/ Meaning(args[i].type, f[i]) = NONE}
    IN  IF bad # {} THEN Failed("invalid")
        ELSE Parsed([i \in DOMAIN args |-> Meaning(args[i].type, f[i])])

(* command_parse.  A line says its syntax, whether its time can be read,    *)
(* the command it names ("unknown" and "custom" are no registered ones) and *)
(* the fields.                                                              *)
command_parse(l) ==
    IF ~l.timed THEN Failed("malformed")
    ELSE IF l.cmd = {} THEN Failed("unknown")
    ELSE LET args == ArgumentsOf(CHOOSE c \in l.cmd : TRUE)
         IN  IF l.kv THEN parse_kv(args, l.fields) ELSE parse_arguments(args, l.fields)

-----------------------------------------------------------------------------
(* Handlers.                                                                *)

(* All hosts below h.                                                       *)
RECURSIVE Below(_)
Below(h) == Children[h] \cup UNION {Below(k) : k \in Children[h]}

(* enable_and_propagate_notifications: the hosts it goes to and, below the  *)
(* first, their services; with circular paths allowed it does nothing.      *)
Beyond(h) == IF AllowCircular THEN {} ELSE Below(h) \cup UNION {ServicesOf[k] : k \in Below(h)}
Tree(h) == IF AllowCircular THEN {} ELSE {h} \cup Below(h)

(* foreach_service_in_hostgroup, foreach_host_in_servicegroup               *)
ServicesIn(g) == UNION {ServicesOf[h] : h \in Hostgroups[g]}
HostsIn(g) == {h \in OfKind("host") : ServicesOf[h] \cap Servicegroups[g] # {}}

(* The bits of an object that a number stands for.                          *)
BitsOf(o, n) ==
    CASE n = 0 -> {} [] n = 1 -> {x \in watched : Obj(x) = o}
      [] OTHER -> {x \in watched : Obj(x) = o /\ IsFlag(x)}

(* A restart or shutdown is only scheduled, and downtime is not of these    *)
(* attributes.                                                              *)
global_command_handler(c) ==
    CASE c.op = "flag" -> SetFlag({Program}, c.attr, c.to)
      [] c.op = "state" /\ c.attr = "save" -> \E ok \in BOOLEAN : Save(ok)
      [] c.op = "state" /\ c.attr = "read" -> ReadAgain
      [] OTHER -> UNCHANGED vars

(* The commands that change a setting or the bits of one object.            *)
Changed(c, o, value) ==
    CASE c.op = "setting" /\ <<o, c.attr>> \in watched /\ value \in 1..2 ->
            SetSetting(<<o, c.attr>>, value)
      [] c.op = "modattr" -> SetModifiedAttributes(o, BitsOf(o, value))
      [] OTHER -> UNCHANGED vars

host_command_handler(c, values) ==
    LET h == values[1]
        targets == CASE c.over = "it" -> {h} [] c.over = "services" -> ServicesOf[h]
                     [] c.over = "beyond" -> Beyond(h) [] c.over = "tree" -> Tree(h)
    IN  IF c.op = "flag" THEN SetFlag(targets, c.attr, c.to) ELSE Changed(c, h, values[2])

service_command_handler(c, values) ==
    IF c.op = "flag" THEN SetFlag({values[1]}, c.attr, c.to) ELSE Changed(c, values[1], values[2])

contact_command_handler(c, values) ==
    IF c.op = "flag" THEN SetFlag({values[1]}, c.attr, c.to) ELSE Changed(c, values[1], values[2])

hostgroup_command_handler(c, g) ==
    SetFlag(IF c.over = "hosts" THEN Hostgroups[g] ELSE ServicesIn(g), c.attr, c.to)

servicegroup_command_handler(c, g) ==
    SetFlag(IF c.over = "hosts" THEN HostsIn(g) ELSE Servicegroups[g], c.attr, c.to)

contactgroup_command_handler(c, g) == SetFlag(Contactgroups[g], c.attr, c.to)

(* command_execute_handler                                                  *)
Handle(c, values) ==
    CASE c.scope = "global" -> global_command_handler(c)
      [] c.scope = "host" -> host_command_handler(c, values)
      [] c.scope = "service" -> service_command_handler(c, values)
      [] c.scope = "contact" -> contact_command_handler(c, values)
      [] c.scope = "hostgroup" -> hostgroup_command_handler(c, values[1])
      [] c.scope = "servicegroup" -> servicegroup_command_handler(c, values[1])
      [] c.scope = "contactgroup" -> contactgroup_command_handler(c, values[1])

(* process_external_command, from the command file, from another file of    *)
(* commands or from the query handler; a module may block the command.      *)
process_external_command(l, blocked) ==
    LET r == command_parse(l)
    IN  /\ running
        /\ IF r.ok /\ ~blocked THEN Handle(CHOOSE c \in l.cmd : TRUE, r.values) ELSE UNCHANGED vars
        /\ line' = IF watched = {} THEN l ELSE NONE
        /\ outcome' = IF watched = {} THEN r ELSE NONE

CInit == Init /\ line = NONE /\ outcome = NONE

Forget == line' = NONE /\ outcome' = NONE

(* Bound: in the scene without attributes something else happens between    *)
(* two lines, since what was read before is of no effect there.             *)
Reading ==
    /\ line = NONE
    /\ \E l \in Lines[watched], blocked \in BOOLEAN : process_external_command(l, blocked)

CNext == Reading \/ (Upkeep /\ Forget)

CSpec == CInit /\ [][CNext]_cvars

-----------------------------------------------------------------------------
(* Properties.                                                              *)

(* How a value is written.                                                  *)
TextFor(t, v) == IF t \in {"number", "bool", "timeperiod"} THEN <<ToString(v)>> ELSE v

(* A command that is accepted means what its text says: the fields are the  *)
(* texts of its arguments in their order, none dropped, moved or shared,    *)
(* where an argument is empty or left out at the end it has a default, and  *)
(* every object named is there.                                             *)
ParsedAsWritten ==
    line # NONE /\ outcome.ok /\ ~line.kv =>
        LET args == ArgumentsOf(CHOOSE c \in line.cmd : TRUE)
            vs == outcome.values
        IN  /\ Len(vs) = Len(args)
            /\ \A i \in DOMAIN args : Meaning(args[i].type, TextFor(args[i].type, vs[i])) = vs[i]
            /\ args # <<>> =>
                 \E k \in 0..Len(args) : \E empty \in SUBSET (1..k) :
                    /\ line.fields = FlattenSeq([i \in 1..k |->
                          IF i \in empty THEN <<"">> ELSE TextFor(args[i].type, vs[i])])
                    /\ \A i \in empty \cup (k + 1)..Len(args) :
                          args[i].default # NONE /\ vs[i] = args[i].default
=============================================================================
