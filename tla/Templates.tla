------------------------------ MODULE Templates ------------------------------
(* Object definitions and their templates: the definitions of one kind are  *)
(* read, the templates each names are applied to it, in place and in the    *)
(* order of the list in memory, and the additive marks are removed.  One    *)
(* directive is followed; the directives of a definition do not touch each  *)
(* other.                                                                   *)
EXTENDS Directives, Naturals, SequencesExt

CONSTANTS Samples,   \* the <<kind, directive>> pairs that are looked at
          Shapes,    \* sequences of [name, use, register]: the definitions in file order
          Lines,     \* for a way of taking in, the sequences of texts a definition may have
          NONE       \* no name

ASSUME SampleAssumption ==
    \A s \in Samples : s[1] \in Kinds /\ s[2] \in DOMAIN TakenIn[s[1]]

VARIABLES kind, attr,   \* what is looked at
          defs,         \* the definitions in the files
          lines,        \* the lines of the directive in each of them
          held,         \* the definitions in memory: the value of the directive
          resolved,     \* has_been_resolved
          todo,         \* the definitions the loop of this phase has still to visit
          phase

vars == <<kind, attr, defs, lines, held, resolved, todo, phase>>

Defs == DOMAIN defs
Way == TakenIn[kind][attr]
Rule == Inherited[kind][attr]

-----------------------------------------------------------------------------
(* Reading.  A text has a mark ("", "+", "!" or the word null) and items.   *)

Text(t) == [null |-> FALSE, plus |-> t.mark = "+", important |-> FALSE, items |-> t.items]

SetText(h, t) ==
    IF t.mark = "null" THEN [h EXCEPT !.have = TRUE]
    ELSE [Text(t) EXCEPT !.important = h.important] @@ [have |-> TRUE]

SetOptions(h, t, none) ==
    IF t.mark = "null" THEN [Unset EXCEPT !.have = none, !.null = ~none]
    ELSE [h EXCEPT !.have = TRUE, !.null = FALSE, !.items = @ \o t.items]

(* add_object_property for one line.  What the option directives read in    *)
(* place of null is n.                                                      *)
add_object_property(h, t) ==
    CASE Way \in {"key", "plain"} -> Text(t) @@ [have |-> FALSE]
      [] Way = "command" ->
           [SetText(h, t) EXCEPT !.important = @ \/ t.mark = "!"]
      [] Way = "text" -> SetText(h, t)
      [] Way = "appended" ->
           IF h.null \/ t.mark = "null" THEN SetText(h, t)
           ELSE [h EXCEPT !.items = @ \o t.items]
      [] Way = "number" -> [Text(t) EXCEPT !.plus = FALSE] @@ [have |-> TRUE]
      [] Way = "keyed" -> [h EXCEPT !.null = FALSE, !.items = t.items \o @]
      [] Way = "options" -> SetOptions(h, t, TRUE)
      [] Way = "fresh" -> SetOptions([h EXCEPT !.items = <<>>], t, TRUE)
      [] Way = "undone" -> SetOptions(h, t, FALSE)

(* The names of definitions read before are in the tree of templates.       *)
Duplicate(d) ==
    \/ defs[d].name # NONE /\ \E e \in Defs : e < d /\ defs[e].name = defs[d].name
    \/ Way = "key" /\ \E e \in Defs : e < d /\ lines[e] # <<>> /\ lines[e] = lines[d]

NamedKinds ==
    {"timeperiod", "command", "contact", "contactgroup", "host", "hostgroup", "servicegroup"}

(* end_object_definition: of the named kinds, an object that is registered  *)
(* has its own name or that of a template.                                  *)
Complete(d) ==
    \/ kind \notin NamedKinds \/ ~defs[d].register \/ defs[d].name # NONE
    \/ Way = "key" => lines[d] # <<>>

(* begin_object_definition, the lines, end_object_definition; the object is *)
(* put at the head of the list.                                             *)
ReadDefinition ==
    /\ phase = "read" /\ todo # <<>>
    /\ LET d == Head(todo)
       IN  IF Duplicate(d) \/ ~Complete(d)
           THEN phase' = "failed" /\ todo' = <<>> /\ UNCHANGED held
           ELSE /\ held' = [held EXCEPT ![d] = FoldLeft(add_object_property, Unset, lines[d])]
                /\ todo' = Tail(todo)
                /\ UNCHANGED phase
    /\ UNCHANGED <<kind, attr, defs, lines, resolved>>

EndOfFile ==
    /\ phase = "read" /\ todo = <<>>
    /\ phase' = "resolve"
    /\ todo' = Reverse([d \in Defs |-> d])
    /\ UNCHANGED <<kind, attr, defs, lines, held, resolved>>

-----------------------------------------------------------------------------
(* Applying templates.                                                      *)

inherit_keyed(this, template) ==
    IF this.items = <<>> /\ template.items # <<>>
    THEN [this EXCEPT !.null = FALSE, !.items = <<Head(template.items)>>] ELSE this

(* The check command of a service: an important one of a template replaces  *)
(* the service's own.                                                       *)
inherit_command(this, template) ==
    inherit_str(IF template.have /\ template.important
                THEN [this EXCEPT !.null = TRUE, !.have = FALSE, !.items = <<>>, !.plus = FALSE]
                ELSE this,
                template)

Inherit(this, template) ==
    CASE Rule = "nohave" -> inherit_str_nohave(this, template)
      [] Rule = "text" -> inherit_str(this, template)
      [] Rule = "value" -> inherit(this, template)
      [] Rule = "additive" -> get_inherited_string(this, template)
      [] Rule = "keyed" -> inherit_keyed(this, template)
      [] Rule = "command" -> inherit_command(this, template)

Known(n) == \E d \in Defs : defs[d].name = n
Named(n) == CHOOSE d \in Defs : defs[d].name = n

(* The resolve functions: st has the values, the resolved definitions and   *)
(* the return value.  What the call for a template returns is not looked    *)
(* at.                                                                      *)
RECURSIVE resolve(_, _)
resolve(st, d) ==
    LET Apply(s, n) ==
          IF ~s.ok THEN s
          ELSE IF ~Known(n) THEN [s EXCEPT !.ok = FALSE]
          ELSE LET r == resolve(s, Named(n))
               IN  [r EXCEPT !.ok = TRUE, !.held[d] = Inherit(@, r.held[Named(n)])]
    IN  IF d \in st.resolved THEN [st EXCEPT !.ok = TRUE]
        ELSE FoldLeft(Apply, [st EXCEPT !.ok = TRUE, !.resolved = @ \cup {d}], defs[d].use)

(* Mutant: an object that is done as a template is done again by the loop.  *)
resolve_nextAgain ==
    /\ phase = "resolve" /\ todo # <<>>
    /\ LET r == resolve([held |-> held, resolved |-> {}, ok |-> TRUE], Head(todo))
       IN  /\ held' = r.held /\ resolved' = r.resolved
           /\ todo' = IF r.ok THEN Tail(todo) ELSE <<>>
           /\ phase' = IF r.ok THEN phase ELSE "clean_failed"
    /\ UNCHANGED <<kind, attr, defs, lines>>

(* One round of the loop of resolve_objects                                 *)
resolve_next ==
    /\ phase = "resolve" /\ todo # <<>>
    /\ LET r == resolve([held |-> held, resolved |-> resolved, ok |-> TRUE], Head(todo))
       IN  /\ held' = r.held /\ resolved' = r.resolved
           /\ todo' = IF r.ok THEN Tail(todo) ELSE <<>>
           /\ phase' = IF r.ok THEN phase ELSE "clean_failed"
    /\ UNCHANGED <<kind, attr, defs, lines>>

(* clean_additive_string                                                    *)
Cleaned(h) == [h EXCEPT !.plus = FALSE]

Cleans == attr \in CleanedLists[kind]

(* clean_additive_strings, after errors too                                 *)
clean_additive_strings ==
    /\ phase \in {"resolve", "clean_failed"} /\ todo = <<>>
    /\ held' = IF Cleans THEN [d \in Defs |-> Cleaned(held[d])] ELSE held
    /\ phase' = IF phase = "resolve" THEN "done" ELSE "failed"
    /\ UNCHANGED <<kind, attr, defs, lines, resolved, todo>>

Stopped ==
    /\ phase \in {"done", "failed"}
    /\ UNCHANGED vars

Init ==
    /\ \E s \in Samples :
         /\ kind = s[1] /\ attr = s[2]
         /\ \E shape \in Shapes :
              /\ defs = shape
              /\ lines \in [DOMAIN shape -> Lines[TakenIn[s[1]][s[2]]]]
    /\ held = [d \in Defs |-> Unset]
    /\ resolved = {}
    /\ todo = [d \in Defs |-> d]
    /\ phase = "read"

Next ==
    \/ ReadDefinition
    \/ EndOfFile
    \/ resolve_next
    \/ clean_additive_strings
    \/ Stopped

Spec == Init /\ [][Next]_vars

-----------------------------------------------------------------------------
(* What templates mean, without an order in which objects are visited and   *)
(* without marks for what is done.                                          *)

Parsed(d) == FoldLeft(add_object_property, Unset, lines[d])

Uses ==
    {<<d, e>> \in Defs \X Defs : defs[e].name # NONE /\ defs[e].name \in ToSet(defs[d].use)}

RECURSIVE Above(_, _)
Above(d, n) ==
    IF n = 0 THEN {} ELSE LET up == {u[2] : u \in {v \in Uses : v[1] = d}}
                          IN  up \cup UNION {Above(e, n - 1) : e \in up}

(* No template is unknown and none is its own.                              *)
WellFounded ==
    \A d \in Defs : /\ d \notin Above(d, Len(defs))
                    /\ \A n \in ToSet(defs[d].use) : Known(n)

(* The option n of dependencies counts as not given, see the README.        *)
Given(h) == h.have \/ (~h.null /\ Way # "undone")

(* The value of a definition, from its own and those of its templates in    *)
(* the order named: the first that is given; of values that are added, all  *)
(* up to the first without a mark, the nearest last; of commands, the last  *)
(* important one.                                                           *)
RECURSIVE Effective(_)
Effective(d) ==
    LET vs == <<Parsed(d)>> \o [i \in DOMAIN defs[d].use |-> Effective(Named(defs[d].use[i]))]
        given == {i \in DOMAIN vs : Given(vs[i])}
        first == CHOOSE i \in given : \A j \in given : i <= j
        text == {i \in given : ~vs[i].null}
        ends == {i \in text : ~vs[i].plus}
        last == IF ends = {} THEN Len(vs) ELSE CHOOSE i \in ends : \A j \in ends : i <= j
        important == {i \in 2..Len(vs) : vs[i].have /\ vs[i].important}
        Added(i) == IF i \in text THEN vs[i].items ELSE <<>>
    IN  IF given = {} THEN Unset
        ELSE IF Rule = "command" /\ important # {}
        THEN [vs[CHOOSE i \in important : \A j \in important : i >= j]
                EXCEPT !.important = Parsed(d).important]
        ELSE IF Rule = "additive" /\ first \in text
        THEN [have |-> TRUE, null |-> FALSE, plus |-> ends = {}, important |-> FALSE,
              items |-> FoldLeft(LAMBDA acc, i : Added(i) \o acc, <<>>, [i \in 1..last |-> i])]
        ELSE IF Rule = "keyed" /\ first > 1
        THEN [vs[first] EXCEPT !.items = <<Head(@)>>]
        ELSE [vs[first] EXCEPT !.important = Parsed(d).important]

(* Type invariant, and every directive that can be given is inherited.      *)
TypeOK ==
    /\ kind \in Kinds /\ attr \in DOMAIN TakenIn[kind]
    /\ DOMAIN TakenIn[kind] = DOMAIN Inherited[kind]
    /\ CleanedLists[kind] \subseteq {a \in DOMAIN Inherited[kind] : Inherited[kind][a] = "additive"}
    /\ \A d \in Defs : held[d].null => held[d].items = <<>> /\ ~held[d].plus
    /\ resolved \subseteq Defs
    /\ phase \in {"read", "resolve", "clean_failed", "done", "failed"}

(* Every object ends with the value its definition and those of its         *)
(* templates say.                                                           *)
ValuesAsDeclared ==
    phase = "done" /\ WellFounded =>
        \A d \in Defs : held[d] = IF Cleans THEN Cleaned(Effective(d)) ELSE Effective(d)

(* A configuration in which an object that is nobody's template names an    *)
(* unknown one is not accepted.  (Of a template that does so it is not      *)
(* always noticed: when an object that uses it comes first, the result of   *)
(* the nested call is dropped.)                                             *)
UnknownTemplateRejected ==
    phase = "done" =>
        \A d \in Defs : \/ \E u \in Uses : u[2] = d
                        \/ \A n \in ToSet(defs[d].use) : Known(n)

(* No list is handed on with the + of additive inheritance in front, which  *)
(* would be part of the first name.  (The parents of services are, see the  *)
(* README, and the contacts of escalations are cleaned later.)              *)
NoMarkLeft ==
    phase = "done" /\ Rule = "additive" =>
        \/ kind = "service" /\ attr = "parents"
        \/ kind \in {"hostescalation", "serviceescalation"} /\ attr \in {"contacts", "contact_groups"}
        \/ \A d \in Defs : ~held[d].plus

(* Whatever the order of the definitions in the files, and however often a  *)
(* template is used, an accepted configuration gives every object what it   *)
(* declares and inherits, with no mark left, and names no unknown template  *)
(* (the resolve functions of xodtemplate.c).                                *)
InheritedAsDeclared == ValuesAsDeclared /\ UnknownTemplateRejected /\ NoMarkLeft
=============================================================================
