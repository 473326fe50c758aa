------------------------------ MODULE Comments ------------------------------
(* The comments of hosts and services (comments.c): a hash table from ids   *)
(* to comments, and the counter the ids come from.  A value cs stands for   *)
(* the table and the counter; each operator returns the ones it leaves.     *)
EXTENDS Integers, FiniteSets

EntryTypes == {"USER", "DOWNTIME", "FLAPPING", "ACKNOWLEDGEMENT"}

Comment == [id : Nat, obj : {"host", "service"}, entry_type : EntryTypes, persistent : BOOLEAN]

initialize_comment_data == [next |-> 1, table |-> {}]

find_comment(cs, id) == {c \in cs.table : c.id = id}

Ids(cs) == {c.id : c \in cs.table}

(* The first id from the counter on that no comment has.                    *)
get_next_comment_id(cs) ==
    CHOOSE n \in cs.next..(cs.next + Cardinality(cs.table)) :
        n \notin Ids(cs) /\ \A k \in cs.next..(n - 1) : k \in Ids(cs)

(* The id is given by the caller: a new one, or that of a retained comment. *)
add_comment(cs, id, obj, entry_type, persistent) ==
    [cs EXCEPT !.table =
        {c \in @ : c.id # id} \cup
        {[id |-> id, obj |-> obj, entry_type |-> entry_type, persistent |-> persistent]}]

(* add_new_host_comment and add_new_service_comment                         *)
add_new_host_comment(cs, obj, entry_type, persistent) ==
    LET id == get_next_comment_id(cs)
    IN  [add_comment(cs, id, obj, entry_type, persistent) EXCEPT !.next = id + 1]

add_new_service_comment(cs, obj, entry_type, persistent) ==
    LET id == get_next_comment_id(cs)
    IN  [add_comment(cs, id, obj, entry_type, persistent) EXCEPT !.next = id + 1]

(* obj is "host" or "service": the object the comment is about.             *)
add_new_comment(cs, obj, entry_type, persistent) ==
    IF obj = "host" THEN add_new_host_comment(cs, obj, entry_type, persistent)
    ELSE add_new_service_comment(cs, obj, entry_type, persistent)

delete_comment(cs, id) == [cs EXCEPT !.table = @ \ find_comment(cs, id)]

delete_all_comments(cs, obj) == [cs EXCEPT !.table = {c \in @ : c.obj # obj}]

AckComments(cs, obj) ==
    {c \in cs.table : c.obj = obj /\ c.entry_type = "ACKNOWLEDGEMENT" /\ ~c.persistent}

delete_acknowledgement_comments(cs, obj) == [cs EXCEPT !.table = @ \ AckComments(cs, obj)]

(* What is read back from the retention file: acknowledgement comments of   *)
(* problems that are still acknowledged, those of downtimes, and whatever   *)
(* is persistent.  The counter is read back too.                            *)
RetainedComments(cs, acknowledged) ==
    [cs EXCEPT !.table =
        {c \in @ : CASE c.entry_type = "ACKNOWLEDGEMENT" -> acknowledged \/ c.persistent
                     [] c.entry_type = "DOWNTIME" -> TRUE
                     [] OTHER -> c.persistent}]
=============================================================================
