---------------------------- MODULE ObjectConfig ----------------------------
(* From definitions, whose templates have been applied, to registered       *)
(* objects: groups are completed, services are copied to every host they    *)
(* are assigned to, escalations to every host or service they name, missing *)
(* directives are taken from the host or the service, and the objects and   *)
(* their relations are registered.  An error ends the process: what was     *)
(* built is freed.                                                          *)
EXTENDS ObjectLists, Directives, FiniteSets

CONSTANT Families   \* a sequence: for each part of a configuration, the values it takes

VARIABLES conf, phase,
          contactgroups, hostgroups, servicegroups,   \* the groups in memory, by name
          entries,   \* the services in memory, list order: [def, host, hg]
          tree,      \* the services by <<host, description>>
          given,     \* the directives of each entry
          hostescalations, serviceescalations,        \* the copies: what each is for
          reg        \* the registered objects and relations

groupVars == <<contactgroups, hostgroups, servicegroups>>
serviceVars == <<entries, tree>>
escalationVars == <<hostescalations, serviceescalations>>
vars == <<conf, phase, groupVars, serviceVars, given, escalationVars, reg>>

None == [x \in {} |-> x]   \* no objects of a kind

Fail == phase' = "failed"

-----------------------------------------------------------------------------
(* Groups.                                                                  *)

recombobulate_contactgroups ==
    LET defs == conf.contactgroups
        Members(list) == expand_contacts(conf.contacts, list)
        Names(c) == process_contactgroup_names(defs, Def(conf.contacts, c).groups)
        members == SelectSeq(conf.contacts, LAMBDA c : c.groups # NONE)
        contacts == [i \in DOMAIN members |-> members[i].name]
        expanded == [n \in NamesOf(defs) |-> Members(Def(defs, n).members)]
        naming == [n \in NamesOf(defs) |-> SelectSeq(contacts, LAMBDA c : n \in Names(c))]
        joined == JoinedGroups(ListedGroups(defs, expanded), naming)
        all == AllSubgroups(joined, defs)
    IN  /\ phase = "contactgroups"
        /\ IF /\ \A i \in DOMAIN defs : IncludesKnown(defs, defs[i]) /\ Members(defs[i].members).ok
              /\ \A i \in DOMAIN contacts : Names(contacts[i]) # {}
              /\ NoLoop(all)
           THEN contactgroups' = all /\ phase' = "hostgroups"
           ELSE Fail /\ UNCHANGED contactgroups
        /\ UNCHANGED <<conf, hostgroups, servicegroups, serviceVars, given, escalationVars, reg>>

recombobulate_hostgroups ==
    LET defs == conf.hostgroups
        Members(list) == expand_hosts(conf.hosts, list)
        Names(h) == process_hostgroup_names(defs, Def(conf.hosts, h).groups)
        members == SelectSeq(conf.hosts, LAMBDA h : h.register /\ h.groups # NONE)
        hosts == [i \in DOMAIN members |-> members[i].name]
        expanded == [n \in NamesOf(defs) |-> Members(Def(defs, n).members)]
        naming == [n \in NamesOf(defs) |-> SelectSeq(hosts, LAMBDA h : n \in Names(h))]
        joined == JoinedGroups(ListedGroups(defs, expanded), naming)
        all == AllSubgroups(joined, defs)
    IN  /\ phase = "hostgroups"
        /\ IF /\ \A i \in DOMAIN defs : /\ IncludesKnown(defs, defs[i])
                                        /\ SomethingListed(defs[i], Members(defs[i].members))
              /\ \A i \in DOMAIN hosts : Names(hosts[i]) # {}
              /\ NoLoop(all)
           THEN hostgroups' = all /\ phase' = "services"
           ELSE Fail /\ UNCHANGED hostgroups
        /\ UNCHANGED <<conf, contactgroups, servicegroups, serviceVars, given, escalationVars, reg>>

-----------------------------------------------------------------------------
(* Services.                                                                *)

Description(e) == conf.services[e.def].description
Ident(e) == <<e.host, Description(e)>>

(* Where definition d is assigned: the hosts it lists first, then the       *)
(* members of the groups.                                                   *)
Assigned(d) ==
    LET h == expand_hosts(conf.hosts, d.hosts)
        g == expand_hostgroups(conf.hostgroups, hostgroups, d.hostgroups)
        Via(list, hg) == [i \in DOMAIN list |-> [host |-> list[i], hg |-> hg]]
        Grouped(s, n) == s \o Via(hostgroups[n].members, TRUE)
    IN  [ok |-> /\ h.ok /\ g.ok
                /\ \/ d.hostgroups = NONE \/ g.in # <<>> \/ g.out # {}
                   \/ conf.allow_empty_hostgroup_assignment,
         to |-> FoldLeft(Grouped, Via(h.in, FALSE), g.in),
         out |-> h.out \cup g.out,
         filled |-> IF g.in = <<>> THEN h.in # <<>> ELSE hostgroups[Last(g.in)].members # <<>>]

(* A copy for each host that is not rejected and not met before; for the    *)
(* last host, if it is in the last list, the definition itself becomes the  *)
(* entry: with an empty group at the end none does.                         *)
CopyPositions(a) ==
    {p \in DOMAIN a.to : /\ a.to[p].host \notin a.out
                         /\ \A q \in 1 .. p - 1 : a.to[q].host # a.to[p].host}

LastPosition(a) == {p \in CopyPositions(a) : p = Len(a.to) /\ a.filled}

Entry(i, a, p) == [def |-> i, host |-> a.to[p].host, hg |-> a.to[p].hg]

duplicate_service(i) ==
    LET a == Assigned(conf.services[i])
        ps == SetToSortSeq(CopyPositions(a) \ LastPosition(a), <)
    IN  [k \in DOMAIN ps |-> Entry(i, a, ps[k])]

TheEntryItself(i) ==
    LET a == Assigned(conf.services[i])
    IN  IF LastPosition(a) # {} THEN <<Entry(i, a, Len(a.to))>> ELSE <<>>

Incomplete(d) == (d.hosts = NONE /\ d.hostgroups = NONE) \/ d.description = NONE

(* Copies go to the head of the list.                                       *)
duplicate_services ==
    LET used == {i \in DOMAIN conf.services : /\ conf.services[i].register
                                              /\ ~Incomplete(conf.services[i])}
        order == SetToSortSeq(used, <)
        Parts(Part(_)) == FoldLeft(LAMBDA s, i : s \o Part(i), <<>>, order)
    IN  /\ phase = "services"
        /\ IF /\ \A i \in used : Assigned(conf.services[i]).ok
              /\ \A i \in DOMAIN conf.services :
                   LET d == conf.services[i]
                   IN  d.register /\ Incomplete(d) => d.template
           THEN /\ entries' = Reverse(Parts(duplicate_service)) \o Parts(TheEntryItself)
                /\ phase' = "index"
           ELSE Fail /\ UNCHANGED entries
        /\ UNCHANGED <<conf, groupVars, tree, given, escalationVars, reg>>

(* Mutant: the first stays.                                                 *)
ReplacesNever(prev, e) == FALSE

(* One assigned to the host itself replaces one from a group.               *)
Replaces(prev, e) == prev.hg /\ ~e.hg

IndexServices ==
    LET Insert(t, e) ==
          IF Ident(e) \in DOMAIN t /\ ~Replaces(t[Ident(e)], e) THEN t
          ELSE (Ident(e) :> e) @@ t
    IN  /\ phase = "index"
        /\ tree' = FoldLeft(Insert, None, entries)
        /\ phase' = "servicegroups"
        /\ UNCHANGED <<conf, groupVars, entries, given, escalationVars, reg>>

service_list(h) == Reverse(SelectSeq(entries, LAMBDA e : e.host = h))

(* The services on the hosts of hostitem that match item: with a regular    *)
(* expression for the host, the description is not looked at, unless it is  *)
(* the asterisk, which then matches nothing.                                *)
Services(hostitem, item) ==
    LET host == CHOOSE n \in hostitem.names : TRUE
        OnHost(e) == item.how = "all" \/ Description(e) \in item.names
        single == <<host, CHOOSE n \in item.names : TRUE>>
    IN  IF hostitem.how = "regexp"
        THEN SelectSeq(entries, LAMBDA e : e.host \in hostitem.names /\ item.how # "all")
        ELSE IF item.how # "name" THEN SelectSeq(service_list(host), OnHost)
        ELSE IF single \in DOMAIN tree THEN <<tree[single]>> ELSE <<>>

ServicesFound(hostitem, item) ==
    IF hostitem.how = "name" /\ item.how = "all"
    THEN hostitem.names \subseteq NamesOf(conf.hosts)
    ELSE Services(hostitem, item) # <<>>

(* r has what was accepted and rejected before.                             *)
expand_services(r, hostitem, items) ==
    LET Take(s, item) ==
          IF ~s.ok THEN s
          ELSE IF ~ServicesFound(hostitem, item)
               THEN [s EXCEPT !.ok = item.not /\ (item.how = "name" \/ hostitem.how = "regexp"
                                                  \/ hostitem.names \subseteq NamesOf(conf.hosts))]
          ELSE IF item.not THEN [s EXCEPT !.out = @ \cup ToSet(Services(hostitem, item))]
          ELSE [s EXCEPT !.in = Reverse(Services(hostitem, item)) \o @]
    IN  FoldLeft(Take, r, items)

Nothing == [ok |-> TRUE, in |-> <<>>, out |-> {}]
Host(n) == [not |-> FALSE, how |-> "name", names |-> {n}]

(* Members of service groups are pairs of a host and a service.             *)
expand_pairs(pairs) ==
    FoldLeft(LAMBDA r, p : IF r.ok THEN expand_services(r, p.host, <<p.item>>) ELSE r,
             Nothing, IF pairs = NONE THEN <<>> ELSE pairs)

recombobulate_servicegroups ==
    LET defs == conf.servicegroups
        Groups(e) == conf.services[e.def].groups
        Names(e) == process_servicegroup_names(defs, Groups(e))
        members == SelectSeq(entries, LAMBDA e : Groups(e) # NONE)
        expanded == [n \in NamesOf(defs) |-> expand_pairs(Def(defs, n).members)]
        naming == [n \in NamesOf(defs) |-> SelectSeq(members, LAMBDA e : n \in Names(e))]
        joined == JoinedGroups(ListedGroups(defs, expanded), naming)
        all == AllSubgroups(joined, defs)
    IN  /\ phase = "servicegroups"
        /\ IF /\ \A i \in DOMAIN defs : /\ IncludesKnown(defs, defs[i])
                                        /\ SomethingListed(defs[i], expand_pairs(defs[i].members))
              /\ \A i \in DOMAIN members : Names(members[i]) # {}
              /\ NoLoop(all)
           THEN servicegroups' = all /\ phase' = "objects"
           ELSE Fail /\ UNCHANGED servicegroups
        /\ UNCHANGED <<conf, contactgroups, hostgroups, serviceVars, given, escalationVars, reg>>

-----------------------------------------------------------------------------
(* Escalations.                                                             *)

(* The services of a definition: those of the groups it names, then those   *)
(* with a description it lists on the hosts it lists.  What is rejected     *)
(* later stays in the list.                                                 *)
create_service_list(hosts, groups, sgs, descriptions) ==
    LET Add(r, e) == IF e \in ToSet(r.in) \cup r.out THEN r ELSE [r EXCEPT !.in = <<e>> \o @]
        sg == expand_servicegroups(conf.servicegroups, servicegroups, sgs)
        first == FoldLeft(LAMBDA r, n : FoldLeft(Add, r, servicegroups[n].members),
                          [Nothing EXCEPT !.out = sg.out], sg.in)
        h == expand_hosts(conf.hosts, hosts)
        g == expand_hostgroups(conf.hostgroups, hostgroups, groups)
        to == FoldLeft(LAMBDA s, n : s \o hostgroups[n].members, h.in, g.in)
        OnHost(r, n) ==
          IF ~r.ok \/ n \in h.out \cup g.out THEN r
          ELSE LET x == expand_services([r EXCEPT !.in = <<>>], Host(n), descriptions)
               IN  FoldLeft(Add, [x EXCEPT !.in = r.in], x.in)
    IN  IF /\ (descriptions = NONE) = (hosts = NONE /\ groups = NONE)
           /\ sg.ok /\ h.ok /\ g.ok
        THEN FoldLeft(OnHost, first, to)
        ELSE [Nothing EXCEPT !.ok = FALSE]

HostsNamed(x) == x.hosts # NONE \/ x.hostgroups # NONE

ServicesNamed(x) ==
    /\ x.register
    /\ x.servicegroups # NONE \/ x.descriptions # NONE \/ (x.hosts # NONE /\ x.hostgroups # NONE)

EscalationHosts(x) ==
    expand_hostgroups_and_hosts(conf.hosts, conf.hostgroups, hostgroups, x.hosts, x.hostgroups)

EscalationServices(x) ==
    create_service_list(x.hosts, x.hostgroups, x.servicegroups, x.descriptions)

duplicate_hostescalation(i) ==
    LET x == conf.hostescalations[i]
        to == IF HostsNamed(x) THEN EscalationHosts(x) ELSE <<NONE>>
    IN  [k \in DOMAIN to |-> [def |-> i, host |-> to[k], given |-> x.given]]

(* Mutant: what was rejected after it was found gets a copy.                *)
duplicate_serviceescalationRejected(i) ==
    LET x == conf.serviceescalations[i]
        l == IF ServicesNamed(x) THEN EscalationServices(x) ELSE Nothing
    IN  [k \in DOMAIN l.in |-> [def |-> i, ident |-> Ident(l.in[k]), given |-> x.given]]

(* Without a service that is left last, the definition itself stays as an   *)
(* escalation for no service.                                               *)
duplicate_serviceescalation(i) ==
    LET x == conf.serviceescalations[i]
        l == IF ServicesNamed(x) THEN EscalationServices(x) ELSE Nothing
        Copy(id) == [def |-> i, ident |-> id, given |-> x.given]
        kept == SelectSeq(l.in, LAMBDA e : e \notin l.out)
        itself == IF l.in # <<>> /\ Last(l.in) \notin l.out THEN <<>> ELSE <<Copy(<<NONE, NONE>>)>>
    IN  [k \in DOMAIN kept |-> Copy(Ident(kept[k]))] \o itself

duplicate_objects ==
    LET hes == conf.hostescalations
        ses == conf.serviceescalations
        Parts(Part(_), defs) == FoldLeft(LAMBDA s, i : s \o Part(i), <<>>, [i \in DOMAIN defs |-> i])
    IN  /\ phase = "objects"
        /\ IF /\ \A i \in DOMAIN hes : HostsNamed(hes[i]) => EscalationHosts(hes[i]) # <<>>
              /\ \A i \in DOMAIN ses : ServicesNamed(ses[i]) => EscalationServices(ses[i]).ok
           THEN /\ hostescalations' = Parts(duplicate_hostescalation, hes)
                /\ serviceescalations' = Parts(duplicate_serviceescalation, ses)
                /\ phase' = "inherit"
           ELSE Fail /\ UNCHANGED escalationVars
        /\ UNCHANGED <<conf, groupVars, serviceVars, given, reg>>

-----------------------------------------------------------------------------
(* Missing directives.                                                      *)

(* Contacts and contact groups are inherited together.                      *)
WithContacts(this, from) ==
    IF this.contact_groups.have \/ this.contacts.have THEN this
    ELSE [this EXCEPT !.contact_groups = inherit_str(@, from.contact_groups),
                      !.contacts = inherit_str(@, from.contacts)]

ServiceInherits(this, host) ==
    [WithContacts(this, host) EXCEPT
       !.notification_interval = inherit(@, host.notification_interval),
       !.notification_period = inherit_str(@, host.notification_period),
       !.check_period = inherit_str(@, host.check_period)]

Added(this, from) == IF ~this.null /\ this.plus THEN get_inherited_string(this, from) ELSE this

Cleaned(this) == [this EXCEPT !.plus = FALSE]

EscalationInherits(this, from) ==
    LET more == [this EXCEPT !.contact_groups = Added(@, from.contact_groups),
                             !.contacts = Added(@, from.contacts)]
    IN  [WithContacts(more, from) EXCEPT
           !.notification_interval = inherit(@, from.notification_interval),
           !.escalation_period = IF ~@.have /\ from.notification_period.have
                                    /\ ~from.notification_period.null
                                 THEN from.notification_period ELSE @,
           !.contact_groups = Cleaned(@),
           !.contacts = Cleaned(@)]

(* Mutant: escalations take over before the services have done so.          *)
inherit_object_propertiesOutOfOrder ==
    LET HostGiven(n) == Def(conf.hosts, n).given
        served == [e \in ToSet(entries) |->
                     ServiceInherits(conf.services[e.def].given, HostGiven(e.host))]
    IN  /\ phase = "inherit"
        /\ given' = served
        /\ serviceescalations' =
             [k \in DOMAIN serviceescalations |->
                LET c == serviceescalations[k]
                IN  IF c.ident \notin DOMAIN tree THEN c
                    ELSE [c EXCEPT !.given =
                            EscalationInherits(@, conf.services[tree[c.ident].def].given)]]
        /\ phase' = "register"
        /\ UNCHANGED <<conf, groupVars, serviceVars, hostescalations, reg>>

(* Services first, then the escalations of services and of hosts.           *)
inherit_object_properties ==
    LET HostGiven(n) == Def(conf.hosts, n).given
        served == [e \in ToSet(entries) |->
                     ServiceInherits(conf.services[e.def].given, HostGiven(e.host))]
    IN  /\ phase = "inherit"
        /\ given' = served
        /\ serviceescalations' =
             [k \in DOMAIN serviceescalations |->
                LET c == serviceescalations[k]
                IN  IF c.ident \notin DOMAIN tree THEN c
                    ELSE [c EXCEPT !.given = EscalationInherits(@, served[tree[c.ident]])]]
        /\ hostescalations' =
             [k \in DOMAIN hostescalations |->
                LET c == hostescalations[k]
                IN  IF c.host = NONE THEN c
                    ELSE [c EXCEPT !.given = EscalationInherits(@, HostGiven(c.host))]]
        /\ phase' = "register"
        /\ UNCHANGED <<conf, groupVars, serviceVars, reg>>

-----------------------------------------------------------------------------
(* Registration.                                                            *)

Registered(defs) == {defs[i].name : i \in {j \in DOMAIN defs : defs[j].register}}

(* The contacts and contact groups that are named exist.                    *)
ContactsKnown(g) ==
    /\ ToSet(g.contacts.items) \subseteq Registered(conf.contacts)
    /\ ToSet(g.contact_groups.items) \subseteq Registered(conf.contactgroups)

register_host_relations(h) ==
    h.register => /\ h.parents # NONE =>
                       ToSet(h.parents) \subseteq Registered(conf.hosts) \ {h.name}
                  /\ ContactsKnown(h.given)

(* Members that are not registered are bad members.                         *)
register_contactgroup_relations ==
    [n \in Registered(conf.contactgroups) |-> ToSet(contactgroups[n].members)]

register_hostgroup_relations ==
    [n \in Registered(conf.hostgroups) |-> ToSet(hostgroups[n].members)]

register_objects ==
    /\ phase = "register"
    /\ IF /\ \A i \in DOMAIN conf.hosts : register_host_relations(conf.hosts[i])
          /\ \A n \in Registered(conf.contactgroups) :
               register_contactgroup_relations[n] \subseteq Registered(conf.contacts)
          /\ \A n \in Registered(conf.hostgroups) :
               register_hostgroup_relations[n] \subseteq Registered(conf.hosts)
       THEN /\ reg' = [reg EXCEPT !.contactgroups = register_contactgroup_relations,
                                  !.hostgroups = register_hostgroup_relations]
            /\ phase' = "register_services"
       ELSE Fail /\ UNCHANGED reg
    /\ UNCHANGED <<conf, groupVars, serviceVars, given, escalationVars>>

register_service(id) == id[1] \in Registered(conf.hosts)

(* One parent is a service of the same host; a list is of pairs.            *)
Parents(id) ==
    LET ps == conf.services[tree[id].def].parents
    IN  IF ps = NONE THEN Nothing
        ELSE IF "description" \in DOMAIN ps
             THEN [Nothing EXCEPT !.ok = <<id[1], ps.description>> \in DOMAIN tree]
             ELSE expand_pairs(ps.pairs)

register_service_relations(id) == Parents(id).ok /\ ContactsKnown(given[tree[id]])

register_servicegroup_relations(n) == {Ident(e) : e \in ToSet(servicegroups[n].members)}

register_services ==
    /\ phase = "register_services"
    /\ IF \A id \in DOMAIN tree : register_service(id) /\ register_service_relations(id)
       THEN /\ reg' = [reg EXCEPT !.services = [id \in DOMAIN tree |-> given[tree[id]]],
                                  !.servicegroups = [n \in Registered(conf.servicegroups) |->
                                                       register_servicegroup_relations(n)]]
            /\ phase' = "register_servicedependencies"
       ELSE Fail /\ UNCHANGED reg
    /\ UNCHANGED <<conf, groupVars, serviceVars, given, escalationVars>>

(* Mutant: the roles are not swapped back.                                  *)
SwappedPairsNot(p, children) == {<<Ident(p), Ident(c)>> : c \in ToSet(children)}

(* The pairs of a dependency.  Where only the dependent services are named  *)
(* by host, the roles are swapped in the inner loop, and stay swapped.      *)
SwappedPairs(p, children) ==
    FoldLeft(LAMBDA a, c : [p |-> c, out |-> a.out \cup {<<Ident(c), Ident(a.p)>>}],
             [p |-> p, out |-> {}], children).out

ServiceDependencyPairs(x) ==
    LET childrenFirst == x.hosts = NONE /\ x.hostgroups = NONE /\ x.servicegroups = NONE
        sameHost == \/ childrenFirst
                    \/ /\ x.dependent_hosts = NONE /\ x.dependent_hostgroups = NONE
                       /\ x.dependent_servicegroups = NONE
        masters == create_service_list(x.hosts, x.hostgroups, x.servicegroups, x.descriptions)
        dependents == create_service_list(x.dependent_hosts, x.dependent_hostgroups,
                                          x.dependent_servicegroups, x.dependent_descriptions)
        outer == IF childrenFirst THEN dependents ELSE masters
        other == IF childrenFirst THEN x.descriptions ELSE x.dependent_descriptions
        OnHost(p) == IF other = NONE THEN Nothing ELSE expand_services(Nothing, Host(p.host), other)
        Once(s) == FoldLeft(LAMBDA l, e : IF e \in ToSet(l) THEN l ELSE Append(l, e), <<>>, s)
        Inner(p) == IF sameHost
                    THEN Once(SelectSeq(OnHost(p).in, LAMBDA e : e \notin OnHost(p).out))
                    ELSE Once(dependents.in)
        ps == SelectSeq(outer.in, LAMBDA e : e \notin outer.out)
        impossible == /\ x.dependent_hosts = NONE /\ x.dependent_hostgroups = NONE
                      /\ x.dependent_servicegroups = NONE
                      /\ childrenFirst \/ x.dependent_descriptions = NONE
    IN  IF \/ impossible \/ ~outer.ok \/ (~sameHost /\ ~dependents.ok)
           \/ sameHost /\ \E k \in DOMAIN ps : ~OnHost(ps[k]).ok
        THEN [ok |-> FALSE, pairs |-> {}]
        ELSE [ok |-> TRUE,
              pairs |-> UNION {IF childrenFirst THEN SwappedPairs(ps[k], Inner(ps[k]))
                               ELSE {<<Ident(ps[k]), Ident(c)>> : c \in ToSet(Inner(ps[k]))} :
                               k \in DOMAIN ps}]

register_and_destroy_servicedependencies ==
    LET used == {i \in DOMAIN conf.servicedependencies : conf.servicedependencies[i].register}
        Pairs(i) == ServiceDependencyPairs(conf.servicedependencies[i])
    IN  /\ phase = "register_servicedependencies"
        /\ IF \A i \in used : Pairs(i).ok
           THEN /\ reg' = [reg EXCEPT !.servicedependencies = [i \in used |-> Pairs(i).pairs]]
                /\ phase' = "register_serviceescalations"
           ELSE Fail /\ UNCHANGED reg
        /\ UNCHANGED <<conf, groupVars, serviceVars, given, escalationVars>>

register_serviceescalation(c) == c.ident \in DOMAIN reg.services /\ ContactsKnown(c.given)

register_serviceescalations ==
    LET used == SelectSeq(serviceescalations, LAMBDA c : conf.serviceescalations[c.def].register)
    IN  /\ phase = "register_serviceescalations"
        /\ IF \A k \in DOMAIN used : register_serviceescalation(used[k])
           THEN reg' = [reg EXCEPT !.serviceescalations = used]
                /\ phase' = "register_hostdependencies"
           ELSE Fail /\ UNCHANGED reg
        /\ UNCHANGED <<conf, groupVars, serviceVars, given, escalationVars>>

(* An empty list of masters or dependents may be allowed.                   *)
register_and_destroy_hostdependencies ==
    LET Hosts(h, g) == expand_hostgroups_and_hosts(conf.hosts, conf.hostgroups, hostgroups, h, g)
        deps == conf.hostdependencies
        Masters(i) == Hosts(deps[i].hosts, deps[i].hostgroups)
        Dependents(i) == Hosts(deps[i].dependent_hosts, deps[i].dependent_hostgroups)
        Pairs(i) == ToSet(Masters(i)) \X ToSet(Dependents(i))
        named == {i \in DOMAIN deps : \/ deps[i].hosts # NONE \/ deps[i].hostgroups # NONE
                                      \/ deps[i].dependent_hosts # NONE
                                      \/ deps[i].dependent_hostgroups # NONE}
        used == {i \in named : deps[i].register}
    IN  /\ phase = "register_hostdependencies"
        /\ IF /\ \/ conf.allow_empty_hostgroup_assignment
                 \/ \A i \in named : Masters(i) # <<>> /\ Dependents(i) # <<>>
              /\ \A i \in used : Pairs(i) \subseteq Registered(conf.hosts) \X Registered(conf.hosts)
           THEN /\ reg' = [reg EXCEPT !.hostdependencies = [i \in used |-> Pairs(i)]]
                /\ phase' = "register_hostescalations"
           ELSE Fail /\ UNCHANGED reg
        /\ UNCHANGED <<conf, groupVars, serviceVars, given, escalationVars>>

register_hostescalation(c) == c.host \in Registered(conf.hosts) /\ ContactsKnown(c.given)

register_hostescalations ==
    LET used == SelectSeq(hostescalations, LAMBDA c : conf.hostescalations[c.def].register)
    IN  /\ phase = "register_hostescalations"
        /\ IF \A k \in DOMAIN used : register_hostescalation(used[k])
           THEN reg' = [reg EXCEPT !.hostescalations = used] /\ phase' = "done"
           ELSE Fail /\ UNCHANGED reg
        /\ UNCHANGED <<conf, groupVars, serviceVars, given, escalationVars>>

Stopped ==
    /\ phase \in {"done", "failed"}
    /\ UNCHANGED vars

Init ==
    /\ \E f \in DOMAIN Families :
         LET of == Families[f]
         IN  conf \in [allow_empty_hostgroup_assignment : of.allow_empty_hostgroup_assignment,
                       contacts : of.contacts, contactgroups : of.contactgroups,
                       hosts : of.hosts, hostgroups : of.hostgroups,
                       services : of.services, servicegroups : of.servicegroups,
                       hostescalations : of.hostescalations,
                       serviceescalations : of.serviceescalations,
                       hostdependencies : of.hostdependencies,
                       servicedependencies : of.servicedependencies]
    /\ phase = "contactgroups"
    /\ contactgroups = None /\ hostgroups = None /\ servicegroups = None
    /\ entries = <<>> /\ tree = None /\ given = None
    /\ hostescalations = <<>> /\ serviceescalations = <<>>
    /\ reg = [contactgroups |-> None, hostgroups |-> None, services |-> None,
              servicegroups |-> None, servicedependencies |-> None, hostdependencies |-> None,
              serviceescalations |-> <<>>, hostescalations |-> <<>>]

Next ==
    \/ recombobulate_contactgroups
    \/ recombobulate_hostgroups
    \/ duplicate_services
    \/ IndexServices
    \/ recombobulate_servicegroups
    \/ duplicate_objects
    \/ inherit_object_properties
    \/ register_objects
    \/ register_services
    \/ register_and_destroy_servicedependencies
    \/ register_serviceescalations
    \/ register_and_destroy_hostdependencies
    \/ register_hostescalations
    \/ Stopped

Spec == Init /\ [][Next]_vars

-----------------------------------------------------------------------------
(* What the lists mean, without an order in which they are worked off.      *)

Covers(defs, item, n) ==
    /\ n \in NamesOf(defs)
    /\ IF item.how = "name" THEN n \in item.names
       ELSE Def(defs, n).register /\ (item.how = "all" \/ n \in item.names)

Accepts(defs, list, n) == list # NONE /\ \E i \in DOMAIN list : ~list[i].not /\ Covers(defs, list[i], n)
Rejects(defs, list, n) == list # NONE /\ \E i \in DOMAIN list : list[i].not /\ Covers(defs, list[i], n)

(* The object n belongs to group g: the group or the object says so, or it  *)
(* belongs to an included group; and the group does not reject it.          *)
RECURSIVE Belongs(_, _, _, _, _)
Belongs(defs, objects, g, n, depth) ==
    LET d == Def(defs, g)
        o == Def(objects, n)
    IN  /\ ~Rejects(objects, d.members, n)
        /\ \/ Accepts(objects, d.members, n)
           \/ o.register /\ Accepts(defs, o.groups, g) /\ ~Rejects(defs, o.groups, g)
           \/ /\ depth > 0 /\ d.includes # NONE
              /\ \E i \in ToSet(d.includes) : Belongs(defs, objects, i, n, depth - 1)

RECURSIVE Below(_, _, _)
Below(defs, g, depth) ==
    LET i == IF Def(defs, g).includes = NONE THEN {} ELSE ToSet(Def(defs, g).includes)
    IN  IF depth = 0 THEN {} ELSE i \cup UNION {Below(defs, x, depth - 1) : x \in i}

(* The groups that the recombobulate functions build have exactly the       *)
(* members that the group, the member itself or an included group declares, *)
(* whatever the order of the definitions; what a group rejects does not     *)
(* come back through a group it includes.                                   *)
GroupsAsDeclared ==
    /\ contactgroups # None =>
         \A g \in DOMAIN contactgroups, c \in NamesOf(conf.contacts) :
           (c \in ToSet(contactgroups[g].members))
             = Belongs(conf.contactgroups, conf.contacts, g, c, Len(conf.contactgroups))
    /\ hostgroups # None =>
         \A g \in DOMAIN hostgroups, h \in NamesOf(conf.hosts) :
           (h \in ToSet(hostgroups[g].members))
             = Belongs(conf.hostgroups, conf.hosts, g, h, Len(conf.hostgroups))

(* A configuration in which groups include each other in a circle does not  *)
(* get past the recombobulate functions.                                    *)
LoopsRefused ==
    /\ \A g \in DOMAIN contactgroups :
         g \notin Below(conf.contactgroups, g, Len(conf.contactgroups))
    /\ \A g \in DOMAIN hostgroups : g \notin Below(conf.hostgroups, g, Len(conf.hostgroups))
    /\ \A g \in DOMAIN servicegroups :
         g \notin Below(conf.servicegroups, g, Len(conf.servicegroups))

InAccepted(defs, groups, list, m) == \E g \in DOMAIN groups : Accepts(defs, list, g) /\ m \in ToSet(groups[g].members)
InRejected(defs, groups, list, m) == \E g \in DOMAIN groups : Rejects(defs, list, g) /\ m \in ToSet(groups[g].members)

Direct(x, h) == Accepts(conf.hosts, x.hosts, h)
Grouped(x, h) == InAccepted(conf.hostgroups, hostgroups, x.hostgroups, h)
Kept(x, h) ==
    ~Rejects(conf.hosts, x.hosts, h) /\ ~InRejected(conf.hostgroups, hostgroups, x.hostgroups, h)

(* A service is on a host exactly if some definition of it lists the host,  *)
(* or a group the host is in, and does not reject it; a definition that     *)
(* lists the host itself has precedence; and no definition is copied twice  *)
(* to one host (duplicate_services and its index).                          *)
ServicesWhereAssigned ==
    phase \notin {"contactgroups", "hostgroups", "services", "index", "failed"} =>
      /\ \A h \in NamesOf(conf.hosts), s \in {conf.services[i].description : i \in DOMAIN conf.services} :
           LET defs == {i \in DOMAIN conf.services : /\ conf.services[i].register
                                                     /\ conf.services[i].description = s
                                                     /\ Kept(conf.services[i], h)}
               direct == {i \in defs : Direct(conf.services[i], h)}
               grouped == {i \in defs : Grouped(conf.services[i], h)}
           IN  /\ (<<h, s>> \in DOMAIN tree) = (direct \cup grouped # {})
               /\ direct # {} => tree[h, s].def \in direct
      /\ \A p, q \in DOMAIN entries :
           entries[p].def = entries[q].def /\ entries[p].host = entries[q].host => p = q

(* The services a definition is for: in an accepted group, or with an       *)
(* accepted description on an accepted host.                                *)
DescriptionIn(list, not, s) ==
    list # NONE /\ \E i \in DOMAIN list : list[i].not = not /\ (list[i].how = "all" \/ s \in list[i].names)

ServicesMeant(hosts, groups, sgs, descriptions) ==
    LET x == [hosts |-> hosts, hostgroups |-> groups]
        On(h) == (Direct(x, h) \/ Grouped(x, h)) /\ Kept(x, h)
    IN  {Ident(e) : e \in {e \in ToSet(entries) :
           /\ \/ InAccepted(conf.servicegroups, servicegroups, sgs, e)
              \/ On(e.host) /\ DescriptionIn(descriptions, FALSE, Description(e))
           /\ ~InRejected(conf.servicegroups, servicegroups, sgs, e)
           /\ ~(On(e.host) /\ DescriptionIn(descriptions, TRUE, Description(e)))}}

(* An escalation reaches exactly the services (or the hosts) it is defined  *)
(* for: create_service_list finds them in two passes, with what a later     *)
(* item rejects already in the list.                                        *)
EscalationsWhereMeant ==
    phase = "done" =>
      /\ \A i \in DOMAIN conf.serviceescalations :
           LET x == conf.serviceescalations[i]
           IN  x.register =>
                 {c.ident : c \in {c \in ToSet(reg.serviceescalations) : c.def = i}}
                   = ServicesMeant(x.hosts, x.hostgroups, x.servicegroups, x.descriptions)
      /\ \A i \in DOMAIN conf.hostescalations :
           LET x == conf.hostescalations[i]
           IN  x.register =>
                 {c.host : c \in {c \in ToSet(reg.hostescalations) : c.def = i}}
                   = {h \in NamesOf(conf.hosts) : Direct(x, h) \/ (Grouped(x, h) /\ Kept(x, h))}

(* A service dependency is between exactly the services it names, on the    *)
(* same host where one side names no host                                   *)
(* (register_and_destroy_servicedependency).                                *)
DependenciesAsMeant ==
    phase = "done" =>
      \A i \in DOMAIN reg.servicedependencies :
        LET x == conf.servicedependencies[i]
            childrenFirst == x.hosts = NONE /\ x.hostgroups = NONE /\ x.servicegroups = NONE
            parentsOnly == /\ x.dependent_hosts = NONE /\ x.dependent_hostgroups = NONE
                           /\ x.dependent_servicegroups = NONE
            SameHost(ids, list) ==
              {id \in DOMAIN tree : /\ \E o \in ids : o[1] = id[1]
                                    /\ DescriptionIn(list, FALSE, id[2])
                                    /\ ~DescriptionIn(list, TRUE, id[2])}
            dependents == ServicesMeant(x.dependent_hosts, x.dependent_hostgroups,
                                        x.dependent_servicegroups, x.dependent_descriptions)
            masters == ServicesMeant(x.hosts, x.hostgroups, x.servicegroups, x.descriptions)
            ps == IF childrenFirst THEN SameHost(dependents, x.descriptions) ELSE masters
            cs == IF parentsOnly THEN SameHost(masters, x.dependent_descriptions) ELSE dependents
        IN  reg.servicedependencies[i]
              = {pc \in ps \X cs : childrenFirst \/ parentsOnly => pc[1][1] = pc[2][1]}

(* The contacts of a service: its own directives, or else those of its host *)
ContactsOf(id) ==
    LET own == conf.services[tree[id].def].given
        host == Def(conf.hosts, id[1]).given
    IN  IF own.contacts.have \/ own.contact_groups.have THEN own.contacts ELSE host.contacts

(* An escalation with a leading + in its contacts, or without contacts,     *)
(* reaches the contacts of the service, those which the service has from    *)
(* its host included (inherit_object_properties goes over the services      *)
(* first).                                                                  *)
EscalationsKeepContacts ==
    phase = "done" =>
      \A c \in ToSet(reg.serviceescalations) :
        LET own == conf.serviceescalations[c.def].given
            all == ToSet(ContactsOf(c.ident).items)
        IN  /\ own.contacts.plus => ToSet(c.given.contacts.items) = ToSet(own.contacts.items) \cup all
            /\ ~own.contacts.have /\ ~own.contact_groups.have => ToSet(c.given.contacts.items) = all
=============================================================================
