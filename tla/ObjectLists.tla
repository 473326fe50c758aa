----------------------------- MODULE ObjectLists -----------------------------
(* The lists of names in object definitions (hosts, groups, services), what *)
(* they expand to, and the groups that are built from them.                 *)
(*                                                                          *)
(* A definition has a name and is registered or not.  An item of a list is  *)
(* rejected (a leading !) or not, and is one name, the asterisk (all) or a  *)
(* regular expression, which stands here for the set of names it matches.   *)
(* A list is NONE where the directive is not given.  Definitions are in the *)
(* order of the list in memory.                                             *)
EXTENDS Naturals, SequencesExt

CONSTANT NONE

NamesOf(defs) == {defs[i].name : i \in DOMAIN defs}
Def(defs, n) == defs[CHOOSE i \in DOMAIN defs : defs[i].name = n]

(* Single names are looked up in the tree, which has what is not registered *)
(* too.                                                                     *)
Found(defs, item) == item.how = "all" \/ item.names \cap NamesOf(defs) # {}

Listed(defs, item) ==
    LET Chosen(d) == /\ item.how = "all" \/ d.name \in item.names
                     /\ item.how = "name" \/ d.register
        chosen == SelectSeq(defs, Chosen)
    IN  [i \in DOMAIN chosen |-> chosen[i].name]

(* What is accepted, the last first, and what is rejected, up to the first  *)
(* item that matches nothing.  A rejected name rejects out of it.           *)
Expand(defs, list, out) ==
    LET Take(r, item) ==
          IF ~r.ok THEN r
          ELSE IF ~Found(defs, item) THEN [r EXCEPT !.ok = FALSE]
          ELSE IF item.not
               THEN [r EXCEPT !.out = @ \cup UNION {out[n] : n \in ToSet(Listed(defs, item))}]
               ELSE [r EXCEPT !.in = Reverse(Listed(defs, item)) \o @]
    IN  FoldLeft(Take, [ok |-> TRUE, in |-> <<>>, out |-> {}], IF list = NONE THEN <<>> ELSE list)

Itself(defs) == [n \in NamesOf(defs) |-> {n}]

expand_contacts(contacts, list) == Expand(contacts, list, Itself(contacts))

expand_hosts(hosts, list) == Expand(hosts, list, Itself(hosts))

(* A rejected group rejects its members.                                    *)
expand_hostgroups(defs, groups, list) ==
    Expand(defs, list, [n \in NamesOf(defs) |-> ToSet(groups[n].members)])

expand_servicegroups(defs, groups, list) ==
    Expand(defs, list, [n \in NamesOf(defs) |-> ToSet(groups[n].members)])

(* Hosts that are listed themselves stay, rejected or not.                  *)
expand_hostgroups_and_hosts(hosts, defs, groups, hostlist, grouplist) ==
    LET h == expand_hosts(hosts, hostlist)
        g == expand_hostgroups(defs, groups, grouplist)
        Kept(n) == n \notin h.out \cup g.out
        Members(n) == SelectSeq(groups[n].members, Kept)
    IN  IF h.ok /\ g.ok
        THEN FoldLeft(LAMBDA l, n : Reverse(Members(n)) \o l, h.in, g.in)
        ELSE <<>>

-----------------------------------------------------------------------------
(* The groups an object names itself: grp1,grp2,!grp1 is grp2; the empty    *)
(* result is an error.                                                      *)

process_contactgroup_names(defs, list) ==
    LET r == Expand(defs, list, Itself(defs)) IN IF r.ok THEN ToSet(r.in) \ r.out ELSE {}

process_hostgroup_names(defs, list) ==
    LET r == Expand(defs, list, Itself(defs)) IN IF r.ok THEN ToSet(r.in) \ r.out ELSE {}

process_servicegroup_names(defs, list) ==
    LET r == Expand(defs, list, Itself(defs)) IN IF r.ok THEN ToSet(r.in) \ r.out ELSE {}

-----------------------------------------------------------------------------
(* A group in memory: its members, what it rejects, the groups it includes  *)
(* and the mark of the search for loops.                                    *)

EmptyGroup == [members |-> <<>>, reject |-> {}, includes |-> <<>>, loop |-> "new"]

add_group_member(g, m) ==
    IF m \in ToSet(g.members) \cup g.reject THEN g ELSE [g EXCEPT !.members = <<m>> \o @]

(* The first loop of the recombobulate functions for one group, whose list  *)
(* of members expands to e.                                                 *)
ListedGroup(d, e) ==
    FoldLeft(add_group_member,
             [EmptyGroup EXCEPT !.reject = e.out,
                                !.includes = IF d.includes = NONE THEN <<>>
                                             ELSE Reverse(d.includes)],
             e.in)

IncludesKnown(defs, d) == d.includes # NONE => ToSet(d.includes) \subseteq NamesOf(defs)

(* Members that expand to nothing, with nothing rejected, are an error.     *)
SomethingListed(d, e) == d.members = NONE \/ (e.ok /\ (e.in # <<>> \/ e.out # {}))

(* All groups, whose lists of members expand to members.                    *)
ListedGroups(defs, members) ==
    [n \in NamesOf(defs) |-> ListedGroup(Def(defs, n), members[n])]

(* The second loop: the objects that name a group, in the order of their    *)
(* list, join it.                                                           *)
JoinedGroups(groups, naming) ==
    [n \in DOMAIN groups |-> FoldLeft(add_group_member, groups[n], naming[n])]

(* Mutant: a group that is being worked on counts as done.                  *)
DoneWithSeen(mark) == mark \in {"ok", "seen"}

(* The mark of a group whose members can be taken over                      *)
Done(mark) == mark = "ok"

(* Mutant: included groups are not completed first.                         *)
recombobulate_subgroupsFlat(groups, n) ==
    LET Take(gs, i) == [gs EXCEPT ![n] = FoldLeft(add_group_member, @, gs[i].members)]
    IN  [FoldLeft(Take, groups, groups[n].includes) EXCEPT ![n].loop = "ok"]

(* The members of included groups, each completed first, are added.         *)
RECURSIVE recombobulate_subgroups(_, _)
recombobulate_subgroups(groups, n) ==
    LET Take(gs, i) ==
          IF gs[n].loop = "loopy" THEN gs
          ELSE LET r == recombobulate_subgroups(gs, i)
               IN  IF Done(r[i].loop)
                   THEN [r EXCEPT ![n] = FoldLeft(add_group_member, @, r[i].members)]
                   ELSE [r EXCEPT ![i].loop = "loopy", ![n].loop = "loopy"]
        all == FoldLeft(Take, [groups EXCEPT ![n].loop = "seen"], groups[n].includes)
    IN  IF groups[n].loop # "new" THEN groups
        ELSE [all EXCEPT ![n].loop = IF @ = "seen" THEN "ok" ELSE @]

AllSubgroups(groups, defs) ==
    FoldLeft(LAMBDA gs, d : recombobulate_subgroups(gs, d.name), groups, defs)

NoLoop(groups) == \A n \in DOMAIN groups : groups[n].loop = "ok"
=============================================================================
