---------------------------- MODULE MCTemplates ----------------------------
(* Three definitions; one directive of each way of taking in and inheriting *)
(* per kind.                                                                *)
EXTENDS Templates, FiniteSets

Ways(k) == {<<TakenIn[k][a], Inherited[k][a]>> : a \in DOMAIN Inherited[k]}

MCSamples ==
    {<<k, CHOOSE a \in DOMAIN Inherited[k] : <<TakenIn[k][a], Inherited[k][a]>> = w>> :
        <<k, w>> \in UNION {{k} \X Ways(k) : k \in Kinds}}
    \cup {<<"host", "host_groups">>, <<"service", "parents">>}

D(n, u) == [name |-> n, use |-> u, register |-> TRUE]

(* A chain and a triangle in both orders, two templates, a template used    *)
(* twice, unknown templates, cycles, a duplicate and a definition without   *)
(* name.                                                                    *)
MCShapes ==
    {<<D("a", <<"b", "c">>), D("b", <<"c">>), D("c", <<>>)>>,
     <<D("a", <<>>), D("b", <<"a">>), D("c", <<"b", "a">>)>>,
     <<D("a", <<"c">>), D("b", <<>>), D("c", <<"b">>)>>,
     <<D("a", <<>>), D("b", <<"c", "a">>), D("c", <<>>)>>,
     <<D("a", <<"b">>), D("b", <<"x">>), D("c", <<"b">>)>>,
     <<D("a", <<"x">>), D("b", <<"a">>), D("c", <<"x", "a">>)>>,
     <<D("a", <<"b">>), D("b", <<"c">>), D("c", <<"a">>)>>,
     <<D("a", <<"a">>), [D(NONE, <<"a">>) EXCEPT !.register = FALSE], D("a", <<>>)>>,
     <<D("a", <<>>), D(NONE, <<"a">>), D("c", <<"c">>)>>}

T(mark, v) == [mark |-> mark, items |-> <<v>>]

TextLines == {<<>>, <<T("null", "")>>, <<T("", "v")>>, <<T("+", "w")>>}

MCLines ==
    [w \in {"key", "plain", "text", "command", "appended", "keyed", "number", "options", "fresh", "undone"} |->
        CASE w = "key" -> {<<>>, <<T("", "v")>>, <<T("", "w")>>}
          [] w = "plain" -> {<<>>, <<T("", "v")>>, <<T("", "w")>>}
          [] w = "text" -> TextLines
          [] w = "command" -> TextLines \cup {<<T("!", "u")>>}
          [] w = "appended" -> TextLines \cup {<<T("+", "v"), T("", "u")>>}
          [] w = "keyed" -> {<<>>, <<T("", "v"), T("", "w")>>, <<T("", "u")>>}
          [] w = "number" -> {<<>>, <<T("", "1"), T("", "2")>>, <<T("", "0")>>}
          [] OTHER -> {<<>>, <<T("", "v")>>, <<T("", "w"), T("null", "")>>, <<T("", "u"), T("", "w")>>}]
=============================================================================
