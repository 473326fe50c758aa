--------------------------- MODULE MCObjectConfig ---------------------------
(* Configurations of two hosts, up to three groups of a kind and two        *)
(* services, each family varying what one phase reads.                      *)
EXTENDS ObjectConfig

I(n) == [not |-> FALSE, how |-> "name", names |-> {n}]
N(n) == [I(n) EXCEPT !.not = TRUE]
All == [not |-> FALSE, how |-> "all", names |-> {}]
Not(item) == [item EXCEPT !.not = TRUE]
Re(ns) == [not |-> FALSE, how |-> "regexp", names |-> ns]

Own(items) == [Unset EXCEPT !.have = TRUE, !.null = FALSE, !.items = items]
More(items) == [Own(items) EXCEPT !.plus = TRUE]

HostGiven == [contacts |-> Unset, contact_groups |-> Unset, notification_interval |-> Unset,
              notification_period |-> Unset, check_period |-> Unset]
EscalationGiven == [contacts |-> Unset, contact_groups |-> Unset, notification_interval |-> Unset,
                    escalation_period |-> Unset]

Contact(n, gs) == [name |-> n, register |-> TRUE, groups |-> gs]
H(n, gs) == [name |-> n, register |-> TRUE, groups |-> gs, parents |-> NONE, given |-> HostGiven]
G(n, ms, is) == [name |-> n, register |-> TRUE, members |-> ms, includes |-> is]
S(s, hs, gs) == [description |-> s, register |-> TRUE, template |-> FALSE, hosts |-> hs,
                 hostgroups |-> gs, groups |-> NONE, parents |-> NONE, given |-> HostGiven]

(* The sets of which a family of configurations is made                     *)
Base == [allow_empty_hostgroup_assignment |-> {FALSE},
         contacts |-> {<<Contact("amy", NONE), Contact("ben", NONE)>>}, contactgroups |-> {<<>>},
         hosts |-> {<<H("h1", NONE), H("h2", NONE)>>}, hostgroups |-> {<<>>},
         services |-> {<<>>}, servicegroups |-> {<<>>},
         hostescalations |-> {<<>>}, serviceescalations |-> {<<>>},
         hostdependencies |-> {<<>>}, servicedependencies |-> {<<>>}]

-----------------------------------------------------------------------------
(* Groups that include each other, with objects a and b.                    *)

GroupLists(a, b) ==
    {<<G("g1", m1, i1), G("g2", m2, i2), G("g3", m3, i3)>> :
       m1 \in {NONE, <<I(a)>>, <<All, N(a)>>, <<Re({a})>>}, i1 \in {NONE, <<"g3", "g2">>},
       m2 \in {NONE, <<I(b), N(a)>>, <<Not(Re({b})), All>>}, i2 \in {NONE, <<"g3">>, <<"g1">>},
       m3 \in {NONE, <<All>>, <<N(b)>>}, i3 \in {NONE, <<"g1">>, <<"gone">>}}

Joins == {<<NONE, NONE>>, <<<<I("g2")>>, NONE>>, <<<<All, N("g2")>>, <<I("g3")>>>>,
          <<<<I("g3"), N("g3")>>, NONE>>}

OfHostgroups(base) ==
    [base EXCEPT !.hostgroups = GroupLists("h1", "h2"),
                 !.hosts = {<<H("h1", j[1]), H("h2", j[2])>> : j \in Joins}]

OfContactgroups(base) ==
    [base EXCEPT !.contactgroups = GroupLists("amy", "ben"),
                 !.contacts = {<<Contact("amy", j[1]), Contact("ben", j[2])>> : j \in Joins}]

-----------------------------------------------------------------------------
(* Services, on groups g1 (both hosts), g2 (h1) and g3 (nobody, h1 is       *)
(* rejected); and service groups.                                           *)

Grouped3(base) == [base EXCEPT
    !.hostgroups = {<<G("g1", <<All>>, NONE), G("g2", <<I("h1")>>, NONE), G("g3", <<N("h1")>>, NONE)>>}]

OfServices(base) ==
    [base EXCEPT
       !.allow_empty_hostgroup_assignment = BOOLEAN,
       !.services =
          {<<S("web", h1, g1), S(s2, h2, g2)>> :
             h1 \in {NONE, <<I("h1")>>, <<I("h2"), I("h1")>>, <<All, N("h2")>>},
             g1 \in {NONE, <<I("g1")>>, <<I("g1"), I("g2")>>, <<I("g1"), N("g2")>>,
                     <<I("g2"), I("g3")>>, <<N("g3")>>},
             s2 \in {"web", "db"}, h2 \in {NONE, <<I("h1")>>, <<N("h1")>>},
             g2 \in {<<I("g2")>>, <<I("g1")>>}}]

OfServicegroups(base) ==
    [base EXCEPT
       !.services =
          {<<[S("web", h1, NONE) EXCEPT !.groups = sg], S(s2, NONE, <<I("g1")>>)>> :
             h1 \in {<<I("h1")>>, <<All>>}, s2 \in {"web", "db"},
             sg \in {NONE, <<I("sg2")>>, <<All, N("sg1")>>, <<N("sg1")>>}},
       !.servicegroups =
          {<<G("sg1", ms, i1), G("sg2", m2, i2)>> :
             ms \in {NONE, <<[host |-> I("h1"), item |-> I("web")]>>,
                     <<[host |-> I("h2"), item |-> Re({"web", "db"})]>>,
                     <<[host |-> I("h1"), item |-> All], [host |-> I("h1"), item |-> N("web")]>>},
             m2 \in {NONE, <<[host |-> I("gone"), item |-> N("web")]>>},
             i1 \in {NONE, <<"sg2">>}, i2 \in {NONE, <<"sg1">>}}]

-----------------------------------------------------------------------------
(* Escalations and dependencies, on web and db on both hosts; service       *)
(* group sgw is web on h1, sgd is db everywhere.                            *)

Served(base, webs, hosts) == [base EXCEPT
    !.hosts = {<<[H("h1", NONE) EXCEPT !.given.contacts = c], H("h2", NONE)>> : c \in hosts},
    !.services = {<<[S("web", <<I("h1"), I("h2")>>, NONE) EXCEPT !.given.contacts = c],
                    [S("db", NONE, <<I("g1")>>) EXCEPT !.groups = <<I("sgd")>>]>> : c \in webs},
    !.servicegroups = {<<G("sgw", <<[host |-> I("h1"), item |-> I("web")]>>, NONE), G("sgd", NONE, NONE)>>}]

Escalation(hs, gs, sgs, ds, contacts) ==
    [register |-> TRUE, hosts |-> hs, hostgroups |-> gs, servicegroups |-> sgs,
     descriptions |-> ds, given |-> [EscalationGiven EXCEPT !.contacts = contacts]]

OfServiceescalations(base) ==
    [Served(base, {Unset, Own(<<"ben">>)}, {Unset, Own(<<"amy">>)}) EXCEPT
       !.serviceescalations =
          {<<Escalation(hs, gs, sgs, ds, contacts)>> :
             hs \in {NONE, <<I("h1")>>, <<All, N("h2")>>},
             gs \in {NONE, <<I("g1")>>, <<I("g1"), N("g2")>>},
             sgs \in {NONE, <<I("sgw")>>, <<All, N("sgd")>>},
             ds \in {NONE, <<I("web")>>, <<All, N("db")>>, <<N("web")>>},
             contacts \in {Unset, Own(<<"amy">>), More(<<"ben">>)}}]

OfHostescalations(base) ==
    [Served(base, {Unset}, {Unset, Own(<<"amy">>)}) EXCEPT
       !.hostescalations =
          {<<Escalation(hs, gs, NONE, NONE, contacts)>> :
             hs \in {NONE, <<I("h1")>>, <<All, N("h2")>>, <<I("gone")>>},
             gs \in {NONE, <<I("g1")>>, <<I("g1"), N("g2")>>},
             contacts \in {Unset, Own(<<"amy">>), More(<<"ben">>), Own(<<"gone">>)}}]

Dependency(hs, gs, sgs, ds, dhs, dgs, dsgs, dds) ==
    [register |-> TRUE, hosts |-> hs, hostgroups |-> gs, servicegroups |-> sgs, descriptions |-> ds,
     dependent_hosts |-> dhs, dependent_hostgroups |-> dgs, dependent_servicegroups |-> dsgs,
     dependent_descriptions |-> dds]

(* The two cases in which the code registers other dependencies are left    *)
(* out: several masters on the dependent's own host, and a dependent        *)
(* service group with a description that rejects one of its members.        *)
OfServicedependencies(base) ==
    [Served(base, {Unset}, {Unset}) EXCEPT
       !.servicedependencies =
          {<<Dependency(hs, gs, sgs, ds, dhs, dgs, dsgs, dds)>> :
             hs \in {NONE, <<I("h1")>>}, gs \in {NONE, <<I("g1"), N("g2")>>},
             sgs \in {NONE, <<I("sgw")>>}, ds \in {NONE, <<I("web")>>},
             dhs \in {NONE, <<All>>}, dgs \in {NONE, <<I("g2")>>},
             dsgs \in {NONE, <<I("sgd")>>}, dds \in {NONE, <<I("db")>>, <<All>>}}]

OfHostdependencies(base) ==
    [Served(base, {Unset}, {Unset}) EXCEPT
       !.allow_empty_hostgroup_assignment = BOOLEAN,
       !.hostdependencies =
          {<<Dependency(hs, gs, NONE, NONE, dhs, dgs, NONE, NONE)>> :
             hs \in {NONE, <<I("h1")>>}, gs \in {NONE, <<I("g1"), N("g2")>>, <<I("g3")>>},
             dhs \in {NONE, <<All>>}, dgs \in {NONE, <<I("g2")>>}}]

MCFamilies ==
    <<OfHostgroups(Base), OfContactgroups(Base),
      OfServices(Grouped3(Base)), OfServicegroups(Grouped3(Base)),
      OfServiceescalations(Grouped3(Base)), OfHostescalations(Grouped3(Base)),
      OfServicedependencies(Grouped3(Base)), OfHostdependencies(Grouped3(Base))>>

(* Two masters that are named without a host                                *)
OfSwappedDependencies(base) ==
    [Served(base, {Unset}, {Unset}) EXCEPT
       !.services = {<<S("web", <<All>>, NONE), S("db", <<All>>, NONE), S("net", <<All>>, NONE)>>},
       !.servicegroups = {<<>>},
       !.servicedependencies =
          {<<Dependency(NONE, NONE, NONE, ds, <<I("h1")>>, NONE, NONE, <<I("web")>>)>> :
             ds \in {<<I("db")>>, <<I("db"), I("net")>>}}]

MCSwappedFamilies == <<OfSwappedDependencies(Grouped3(Base))>>
=============================================================================
