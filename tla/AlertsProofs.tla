--------------------------- MODULE AlertsProofs ---------------------------
(* Proofs about Alerts: types, acknowledgements and their comments, the     *)
(* comments of flapping, recoveries, and whom those go to.                  *)
EXTENDS Alerts, FiniteSetTheorems, WellFoundedInduction, SequenceTheorems, TLAPS

CommentData == [next : Nat, table : SUBSET Comment]
Env == [enable_notifications : BOOLEAN, enable_flap_detection : BOOLEAN,
        in_period : BOOLEAN, deps_fail : BOOLEAN, parents_bad : BOOLEAN,
        host_up : BOOLEAN, host_downtime : BOOLEAN, contacts_on : SUBSET Contacts,
        escalations_on : SUBSET Escalations]
WorldType == [o : Object, cs : CommentData, sent : Seq(Notice)]

(* What no notification changes in an object.                               *)
Kept(o, p) ==
    /\ p.kind = o.kind /\ p.current_state = o.current_state
    /\ p.acknowledged = o.acknowledged /\ p.ack_type = o.ack_type
    /\ p.is_flapping = o.is_flapping /\ p.flapping_comment_id = o.flapping_comment_id

(* The smallest of the intervals that apply is one of them.                 *)
LEMMA LeastNatural ==
    ASSUME NEW T \in SUBSET Nat, T # {}
    PROVE  \E i \in T : \A j \in T : i <= j
<1>1. PICK i \in T : \A j \in T : ~(<<j, i>> \in OpToRel(<, Nat))
  BY WFMin, NatLessThanWellFounded
<1>2. \A j \in T : ~(j < i)
  BY <1>1 DEF OpToRel
<1>3. QED
  BY <1>2

LEMMA IntervalType ==
    ASSUME NEW o, NEW e
    PROVE  IntervalToUse(o, e) \in Nat
<1>1. Intervals(o, e) \in SUBSET Nat
  BY NotificationsAssumption DEF Intervals
<1>2. CASE Intervals(o, e) = {}
  BY <1>2, NotificationsAssumption DEF IntervalToUse
<1>3. CASE Intervals(o, e) # {}
  <2>1. \E i \in Intervals(o, e) : \A j \in Intervals(o, e) : i <= j
    BY <1>1, <1>3, LeastNatural
  <2>2. QED
    BY <1>1, <1>3, <2>1 DEF IntervalToUse
<1>4. QED
  BY <1>2, <1>3

LEMMA NextTimeType ==
    ASSUME NEW o \in Object, NEW e, NEW since \in Nat
    PROVE  /\ get_next_service_notification_time(o, e, since) \in Object
           /\ Kept(o, get_next_service_notification_time(o, e, since))
           /\ get_next_service_notification_time(o, e, since).notified_on = o.notified_on
           /\ get_next_host_notification_time(o, e, since) \in Object
           /\ Kept(o, get_next_host_notification_time(o, e, since))
           /\ get_next_host_notification_time(o, e, since).notified_on = o.notified_on
           /\ get_next_service_notification_time(o, e, since).number = o.number
           /\ get_next_host_notification_time(o, e, since).number = o.number
<1> DEFINE next == IF IntervalToUse(o, e) > since THEN IntervalToUse(o, e) - since ELSE 0
           none == IntervalToUse(o, e) = 0 /\ ~Volatile
           alone == IntervalToUse(o, e) = 0
<1>1. next \in Nat /\ none \in BOOLEAN /\ alone \in BOOLEAN
  BY IntervalType
<1>2. /\ get_next_service_notification_time(o, e, since)
           = [o EXCEPT !.no_more = none, !.next_notification = next]
      /\ get_next_host_notification_time(o, e, since)
           = [o EXCEPT !.no_more = alone, !.next_notification = next]
  BY DEF get_next_service_notification_time, get_next_host_notification_time
<1> HIDE DEF next, none, alone
<1>3. \A b \in BOOLEAN : [o EXCEPT !.no_more = b, !.next_notification = next] \in Object
  BY <1>1 DEF Object
<1>4. /\ get_next_service_notification_time(o, e, since) \in Object
      /\ get_next_host_notification_time(o, e, since) \in Object
  BY <1>1, <1>2, <1>3
<1>5. /\ Kept(o, get_next_service_notification_time(o, e, since))
      /\ get_next_service_notification_time(o, e, since).notified_on = o.notified_on
      /\ get_next_service_notification_time(o, e, since).number = o.number
  BY <1>1, <1>2 DEF Object, Kept
<1>6. /\ Kept(o, get_next_host_notification_time(o, e, since))
      /\ get_next_host_notification_time(o, e, since).notified_on = o.notified_on
      /\ get_next_host_notification_time(o, e, since).number = o.number
  BY <1>1, <1>2 DEF Object, Kept
<1>7. QED
  BY <1>3, <1>4, <1>5, <1>6

-----------------------------------------------------------------------------
(* What holds of the object, the comments and the notices while a step is   *)
(* under way.                                                               *)

(* Only an acknowledged problem has comments of acknowledgements, but for   *)
(* those that are persistent.                                               *)
AckOK(o, cs) ==
    /\ AckComments(cs, o.kind) # {} => o.acknowledged
    /\ o.acknowledged => o.current_state # 0 /\ o.ack_type \in {"normal", "sticky"}

(* All ids are below the counter, so that none is given twice.              *)
FlapOK(o, cs) ==
    /\ IsFiniteSet(cs.table)
    /\ \A c \in cs.table : 1 <= c.id /\ c.id < cs.next
    /\ o.flapping_comment_id < cs.next
    /\ \A c \in cs.table :
         c.entry_type = "FLAPPING" =>
             ~c.persistent /\ o.is_flapping /\ o.flapping_comment_id = c.id
    /\ \A c \in cs.table : c.id = o.flapping_comment_id => c.entry_type = "FLAPPING"

(* t is who was told of the problem before this step.                       *)
Telling(w, t) ==
    ~GlobalHandler =>
        /\ \A i \in 1..Len(w.sent) :
             /\ w.sent[i].state = w.o.current_state
             /\ w.sent[i].to # {}
             /\ w.sent[i].type = "NORMAL" /\ w.sent[i].state = 0 => t # {}
        /\ w.o.notified_on # {} => t # {} \/ Problems(w) # {}

Good(w, t) == AckOK(w.o, w.cs) /\ FlapOK(w.o, w.cs) /\ Telling(w, t)

(* An object without a problem has nothing it was notified on.              *)
Silent(o) == o.current_state = 0 => o.notified_on = {}

LEMMA CountedType ==
    ASSUME NEW o \in Object, NEW type, NEW options
    PROVE  /\ Counted(o, type, options) \in Object
           /\ Kept(o, Counted(o, type, options))
           /\ Counted(o, type, options).notified_on = o.notified_on
<1>1. [o EXCEPT !.number = @ + 1] \in Object
  <2> DEFINE n == o.number + 1
  <2>1. n \in Nat /\ [o EXCEPT !.number = @ + 1] = [o EXCEPT !.number = n]
    BY DEF Object
  <2> HIDE DEF n
  <2>2. [o EXCEPT !.number = n] \in Object
    BY <2>1 DEF Object
  <2>3. QED
    BY <2>1, <2>2
<1>2. Kept(o, [o EXCEPT !.number = @ + 1]) /\ [o EXCEPT !.number = @ + 1].notified_on = o.notified_on
  BY DEF Object, Kept
<1>3. QED
  BY <1>1, <1>2 DEF Counted, Kept

LEMMA SettledType ==
    ASSUME NEW o \in Object, NEW o1 \in Object, NEW next \in Object, NEW list, NEW reached, NEW type,
           Kept(o, o1), o1.notified_on = o.notified_on,
           Kept(o1, next), next.notified_on = o1.notified_on
    PROVE  LET p == Settled(o, o1, list, reached, type, next)
           IN  /\ p \in Object
               /\ Kept(o, p)
               /\ \/ p.notified_on = o.notified_on
                  \/ /\ type = "NORMAL" /\ Anyone(reached)
                     /\ p.notified_on = o.notified_on \cup {o.current_state}
<1> DEFINE S == next.notified_on \cup {o.current_state}
           q == [next EXCEPT !.last_notification = 0, !.notified_on = @ \cup {o.current_state}]
<1>0. S \in SUBSET (0..3) /\ q = [next EXCEPT !.last_notification = 0, !.notified_on = S]
  BY DEF Object
<1> HIDE DEF S
<1>1. q \in Object
  BY <1>0, ZenonT(30) DEF Object
<1>2. Kept(next, q) /\ q.notified_on = S
  BY <1>0 DEF Object, Kept
<1> HIDE DEF q
<1>3. Kept(o, q)
  BY <1>2 DEF Kept
<1>4. Settled(o, o1, list, reached, type, next) =
        IF list = {} /\ ~GlobalHandler THEN o
        ELSE IF type # "NORMAL" THEN o1
        ELSE IF ~Anyone(reached) THEN o ELSE q
  BY DEF Settled, q
<1>5. Kept(o, o)
  BY DEF Kept
<1>6. QED
  BY <1>1, <1>2, <1>3, <1>4, <1>5 DEF S

(* What a notification adds to what was sent.                               *)
Sends(w, v, type, options) ==
    \/ v.sent = w.sent /\ v.o.notified_on = w.o.notified_on
    \/ \E m \in Notice :
         /\ v.sent = Append(w.sent, m)
         /\ m.type = type /\ m.state = w.o.current_state
         /\ GlobalHandler \/ m.to # {}
         /\ \/ v.o.notified_on = w.o.notified_on
            \/ type = "NORMAL" /\ v.o.notified_on = w.o.notified_on \cup {w.o.current_state}
         /\ type = "NORMAL" /\ "FORCED" \notin options /\ w.o.current_state = 0
              => w.o.notified_on # {}

LEMMA PostponedType ==
    ASSUME NEW o \in Object
    PROVE  Postponed(o) \in Object /\ Kept(o, Postponed(o)) /\ Postponed(o).notified_on = o.notified_on
<1>1. PeriodGap \in Nat
  BY NotificationsAssumption
<1>2. Postponed(o) \in Object
  BY <1>1 DEF Postponed, Object
<1>3. QED
  BY <1>1, <1>2 DEF Postponed, Object, Kept

LEMMA CandidatesType ==
    ASSUME NEW o, NEW e, NEW options
    PROVE  Candidates(o, e, options) \subseteq Contacts
BY NotificationsAssumption DEF Candidates

LEMMA ServiceNotificationType ==
    ASSUME NEW w \in WorldType, NEW e, NEW type \in NotificationTypes, NEW options, NEW mod
    PROVE  LET v == service_notification(w, e, type, options, mod)
           IN  v \in WorldType /\ Kept(w.o, v.o) /\ v.cs = w.cs /\ Sends(w, v, type, options)
<1> DEFINE o == w.o
           o1 == Counted(o, type, options)
           next == get_next_service_notification_time(o1, e, 0)
           list == create_notification_list_from_service(o1, e, type, options)
           reached == {c \in list : notify_contact_of_service(c, mod)}
           p == Settled(o, o1, list, reached, type, next)
           m == Message(o1, type, reached)
           v == service_notification(w, e, type, options, mod)
<1>0. o \in Object /\ w.cs \in CommentData /\ w.sent \in Seq(Notice)
  BY DEF WorldType
<1>1. o1 \in Object /\ Kept(o, o1) /\ o1.notified_on = o.notified_on
  BY <1>0, CountedType
<1>2. next \in Object /\ Kept(o1, next) /\ next.notified_on = o1.notified_on
  BY <1>1, NextTimeType
<1>3. /\ p \in Object /\ Kept(o, p)
      /\ \/ p.notified_on = o.notified_on
         \/ type = "NORMAL" /\ Anyone(reached) /\ p.notified_on = o.notified_on \cup {o.current_state}
  <2> HIDE DEF o1, next, list, reached
  <2>1. QED
    BY <1>0, <1>1, <1>2, SettledType
<1>4. reached \in SUBSET Contacts
  BY CandidatesType DEF create_notification_list_from_service
<1>5. /\ v = IF ~check_service_notification_viability(o, e, type, options)
             THEN [w EXCEPT !.o = IF PeriodBlocked(o, e, type, options) THEN Postponed(o) ELSE o]
             ELSE IF mod = "cancel" THEN w
             ELSE [w EXCEPT !.o = p, !.sent = IF Anyone(reached) THEN Append(@, m) ELSE @]
  BY DEF service_notification
<1>6. type = "NORMAL" /\ "FORCED" \notin options /\ o.current_state = 0
        /\ check_service_notification_viability(o, e, type, options) => o.notified_on # {}
  BY DEF check_service_notification_viability, ServiceNormal, ViableAlert
<1>7. /\ m \in Notice /\ m.type = type /\ m.state = o.current_state /\ m.to = reached
  <2>1. o1.current_state \in 0..3 /\ o1.number \in Nat
    BY <1>1 DEF Object
  <2>2. QED
    BY <1>1, <1>4, <2>1 DEF Message, Notice, Kept
<1>8. o \in Object /\ Kept(o, o) /\ Postponed(o) \in Object /\ Kept(o, Postponed(o))
      /\ Postponed(o).notified_on = o.notified_on
  BY <1>0, PostponedType DEF Kept
<1> HIDE DEF p, m, v, reached, o1, list, next
<1>9. CASE ~check_service_notification_viability(o, e, type, options) \/ mod = "cancel"
  <2>1. PICK q \in Object : /\ Kept(o, q) /\ q.notified_on = o.notified_on
                            /\ v = [w EXCEPT !.o = q]
    <3>1. w = [w EXCEPT !.o = o]
      BY DEF WorldType
    <3>2. QED
      BY <1>5, <1>8, <1>9, <3>1
  <2>2. v \in WorldType /\ v.o = q /\ v.cs = w.cs /\ v.sent = w.sent
    BY <2>1 DEF WorldType
  <2>3. QED
    BY <2>1, <2>2 DEF Sends, v
<1>10. CASE /\ check_service_notification_viability(o, e, type, options) /\ mod # "cancel"
            /\ Anyone(reached)
  <2>1. Append(w.sent, m) \in Seq(Notice)
    BY <1>0, <1>7
  <2>2. v = [w EXCEPT !.o = p, !.sent = Append(w.sent, m)]
    BY <1>5, <1>10
  <2>3. v \in WorldType /\ v.o = p /\ v.cs = w.cs /\ v.sent = Append(w.sent, m)
    BY <1>3, <2>1, <2>2 DEF WorldType
  <2>4. GlobalHandler \/ m.to # {}
    BY <1>7, <1>10 DEF Anyone
  <2>5. Sends(w, v, type, options)
    BY <1>3, <1>6, <1>7, <1>10, <2>3, <2>4 DEF Sends
  <2>6. QED
    BY <1>3, <2>3, <2>5 DEF v
<1>11. CASE /\ check_service_notification_viability(o, e, type, options) /\ mod # "cancel"
            /\ ~Anyone(reached)
  <2>1. v = [w EXCEPT !.o = p, !.sent = w.sent]
    BY <1>5, <1>11
  <2>2. v \in WorldType /\ v.o = p /\ v.cs = w.cs /\ v.sent = w.sent
    BY <1>0, <1>3, <2>1 DEF WorldType
  <2>3. p.notified_on = o.notified_on
    BY <1>3, <1>11
  <2>4. QED
    BY <1>3, <2>2, <2>3 DEF Sends, v
<1>12. QED
  BY <1>9, <1>10, <1>11

LEMMA HostNotificationType ==
    ASSUME NEW w \in WorldType, NEW e, NEW type \in NotificationTypes, NEW options, NEW mod
    PROVE  LET v == host_notification(w, e, type, options, mod)
           IN  v \in WorldType /\ Kept(w.o, v.o) /\ v.cs = w.cs /\ Sends(w, v, type, options)
<1> DEFINE o == w.o
           o1 == Counted(o, type, options)
           next == get_next_host_notification_time(o1, e, 0)
           list == create_notification_list_from_host(o1, e, type, options)
           reached == {c \in list : notify_contact_of_host(c, mod)}
           p == Settled(o, o1, list, reached, type, next)
           m == Message(o1, type, reached)
           v == host_notification(w, e, type, options, mod)
<1>0. o \in Object /\ w.cs \in CommentData /\ w.sent \in Seq(Notice)
  BY DEF WorldType
<1>1. o1 \in Object /\ Kept(o, o1) /\ o1.notified_on = o.notified_on
  BY <1>0, CountedType
<1>2. next \in Object /\ Kept(o1, next) /\ next.notified_on = o1.notified_on
  BY <1>1, NextTimeType
<1>3. /\ p \in Object /\ Kept(o, p)
      /\ \/ p.notified_on = o.notified_on
         \/ type = "NORMAL" /\ Anyone(reached) /\ p.notified_on = o.notified_on \cup {o.current_state}
  <2> HIDE DEF o1, next, list, reached
  <2>1. QED
    BY <1>0, <1>1, <1>2, SettledType
<1>4. reached \in SUBSET Contacts
  BY CandidatesType DEF create_notification_list_from_host
<1>5. /\ v = IF ~check_host_notification_viability(o, e, type, options)
             THEN [w EXCEPT !.o = IF PeriodBlocked(o, e, type, options) THEN Postponed(o) ELSE o]
             ELSE IF mod = "cancel" THEN w
             ELSE [w EXCEPT !.o = p, !.sent = IF Anyone(reached) THEN Append(@, m) ELSE @]
  BY DEF host_notification
<1>6. type = "NORMAL" /\ "FORCED" \notin options /\ o.current_state = 0
        /\ check_host_notification_viability(o, e, type, options) => o.notified_on # {}
  BY DEF check_host_notification_viability, HostNormal, ViableAlert
<1>7. /\ m \in Notice /\ m.type = type /\ m.state = o.current_state /\ m.to = reached
  <2>1. o1.current_state \in 0..3 /\ o1.number \in Nat
    BY <1>1 DEF Object
  <2>2. QED
    BY <1>1, <1>4, <2>1 DEF Message, Notice, Kept
<1>8. o \in Object /\ Kept(o, o) /\ Postponed(o) \in Object /\ Kept(o, Postponed(o))
      /\ Postponed(o).notified_on = o.notified_on
  BY <1>0, PostponedType DEF Kept
<1> HIDE DEF p, m, v, reached, o1, list, next
<1>9. CASE ~check_host_notification_viability(o, e, type, options) \/ mod = "cancel"
  <2>1. PICK q \in Object : /\ Kept(o, q) /\ q.notified_on = o.notified_on
                            /\ v = [w EXCEPT !.o = q]
    <3>1. w = [w EXCEPT !.o = o]
      BY DEF WorldType
    <3>2. QED
      BY <1>5, <1>8, <1>9, <3>1
  <2>2. v \in WorldType /\ v.o = q /\ v.cs = w.cs /\ v.sent = w.sent
    BY <2>1 DEF WorldType
  <2>3. QED
    BY <2>1, <2>2 DEF Sends, v
<1>10. CASE /\ check_host_notification_viability(o, e, type, options) /\ mod # "cancel"
            /\ Anyone(reached)
  <2>1. Append(w.sent, m) \in Seq(Notice)
    BY <1>0, <1>7
  <2>2. v = [w EXCEPT !.o = p, !.sent = Append(w.sent, m)]
    BY <1>5, <1>10
  <2>3. v \in WorldType /\ v.o = p /\ v.cs = w.cs /\ v.sent = Append(w.sent, m)
    BY <1>3, <2>1, <2>2 DEF WorldType
  <2>4. GlobalHandler \/ m.to # {}
    BY <1>7, <1>10 DEF Anyone
  <2>5. Sends(w, v, type, options)
    BY <1>3, <1>6, <1>7, <1>10, <2>3, <2>4 DEF Sends
  <2>6. QED
    BY <1>3, <2>3, <2>5 DEF v
<1>11. CASE /\ check_host_notification_viability(o, e, type, options) /\ mod # "cancel"
            /\ ~Anyone(reached)
  <2>1. v = [w EXCEPT !.o = p, !.sent = w.sent]
    BY <1>5, <1>11
  <2>2. v \in WorldType /\ v.o = p /\ v.cs = w.cs /\ v.sent = w.sent
    BY <1>0, <1>3, <2>1 DEF WorldType
  <2>3. p.notified_on = o.notified_on
    BY <1>3, <1>11
  <2>4. QED
    BY <1>3, <2>2, <2>3 DEF Sends, v
<1>12. QED
  BY <1>9, <1>10, <1>11

(* A notice appended to what was sent keeps the account of who was told.    *)
LEMMA TellingKept ==
    ASSUME NEW w \in WorldType, NEW v \in WorldType, NEW type, NEW options, NEW t,
           Kept(w.o, v.o), Sends(w, v, type, options), type = "NORMAL" => "FORCED" \notin options,
           Telling(w, t)
    PROVE  Telling(v, t)
<1> SUFFICES ASSUME ~GlobalHandler
             PROVE  /\ \A i \in 1..Len(v.sent) :
                         /\ v.sent[i].state = v.o.current_state
                         /\ v.sent[i].to # {}
                         /\ v.sent[i].type = "NORMAL" /\ v.sent[i].state = 0 => t # {}
                    /\ v.o.notified_on # {} => t # {} \/ Problems(v) # {}
  BY DEF Telling
<1>0. /\ v.o.current_state = w.o.current_state
      /\ \A i \in 1..Len(w.sent) :
           /\ w.sent[i].state = w.o.current_state
           /\ w.sent[i].to # {}
           /\ w.sent[i].type = "NORMAL" /\ w.sent[i].state = 0 => t # {}
      /\ w.o.notified_on # {} => t # {} \/ Problems(w) # {}
  BY DEF Telling, Kept
<1>1. CASE v.sent = w.sent /\ v.o.notified_on = w.o.notified_on
  BY <1>0, <1>1 DEF Problems
<1>2. ASSUME NEW m \in Notice,
             /\ v.sent = Append(w.sent, m)
             /\ m.type = type /\ m.state = w.o.current_state
             /\ GlobalHandler \/ m.to # {}
             /\ \/ v.o.notified_on = w.o.notified_on
                \/ type = "NORMAL" /\ v.o.notified_on = w.o.notified_on \cup {w.o.current_state}
             /\ type = "NORMAL" /\ "FORCED" \notin options /\ w.o.current_state = 0
                  => w.o.notified_on # {}
      PROVE  /\ \A i \in 1..Len(v.sent) :
                  /\ v.sent[i].state = v.o.current_state
                  /\ v.sent[i].to # {}
                  /\ v.sent[i].type = "NORMAL" /\ v.sent[i].state = 0 => t # {}
             /\ v.o.notified_on # {} => t # {} \/ Problems(v) # {}
  <2>0. w.sent \in Seq(Notice) /\ Len(w.sent) \in Nat
    BY DEF WorldType
  <2>1. /\ Len(v.sent) = Len(w.sent) + 1
        /\ \A i \in 1..Len(w.sent) : v.sent[i] = w.sent[i]
        /\ v.sent[Len(w.sent) + 1] = m
    BY <1>2, <2>0
  <2>2. Problems(w) \subseteq Problems(v)
    BY <2>0, <2>1 DEF Problems
  <2>3. type = "NORMAL" /\ w.o.current_state # 0 => Len(w.sent) + 1 \in Problems(v)
    BY <1>2, <2>0, <2>1 DEF Problems
  <2>4. w.o.current_state = 0 => Problems(w) = {}
    BY <1>0 DEF Problems
  <2>5. type = "NORMAL" /\ w.o.current_state = 0 => t # {}
    BY <1>0, <1>2, <2>4
  <2>6. v.o.notified_on # {} => t # {} \/ Problems(v) # {}
    BY <1>0, <1>2, <2>2, <2>3, <2>5
  <2>7. \A i \in 1..Len(v.sent) : i \in 1..Len(w.sent) \/ i = Len(w.sent) + 1
    BY <2>0, <2>1
  <2>8. /\ m.state = v.o.current_state /\ m.to # {}
        /\ m.type = "NORMAL" /\ m.state = 0 => t # {}
    BY <1>0, <1>2, <2>5
  <2>9. QED
    BY <1>0, <2>1, <2>6, <2>7, <2>8
<1>3. QED
  BY <1>1, <1>2 DEF Sends

LEMMA NotificationKeeps ==
    ASSUME NEW w \in WorldType, NEW e, NEW type \in NotificationTypes, NEW options, NEW mod,
           NEW t, type = "NORMAL" => "FORCED" \notin options, Good(w, t),
           NEW v, v \in {service_notification(w, e, type, options, mod),
                         host_notification(w, e, type, options, mod)}
    PROVE  /\ v \in WorldType /\ Kept(w.o, v.o) /\ v.cs = w.cs
           /\ Good(v, t) /\ (Silent(w.o) => Silent(v.o))
<1>1. v \in WorldType /\ Kept(w.o, v.o) /\ v.cs = w.cs /\ Sends(w, v, type, options)
  BY ServiceNotificationType, HostNotificationType
<1>2. Telling(v, t)
  BY <1>1, TellingKept DEF Good
<1>3. AckOK(v.o, v.cs) /\ FlapOK(v.o, v.cs)
  BY <1>1 DEF Good, AckOK, FlapOK, Kept
<1>4. Silent(w.o) => Silent(v.o)
  BY <1>1 DEF Sends, Silent, Kept
<1>5. QED
  BY <1>1, <1>2, <1>3, <1>4 DEF Good

(* What notifications and flap detection leave alone in an object.          *)
Same(o, p) ==
    /\ p.kind = o.kind /\ p.current_state = o.current_state
    /\ p.acknowledged = o.acknowledged /\ p.ack_type = o.ack_type

(* What holds of w holds of v, of which w is an earlier stage.              *)
Keeps(w, v, t) ==
    /\ v \in WorldType /\ Good(v, t)
    /\ Same(w.o, v.o) /\ (Silent(w.o) => Silent(v.o))

LEMMA KeepsStill ==
    ASSUME NEW w \in WorldType, NEW t, Good(w, t)
    PROVE  Keeps(w, w, t)
BY DEF Keeps, Same

LEMMA KeepsThrough ==
    ASSUME NEW u, NEW v, NEW w, NEW t, Keeps(u, v, t), Keeps(v, w, t)
    PROVE  Keeps(u, w, t)
BY DEF Keeps, Same

LEMMA ServiceNoticeKeeps ==
    ASSUME NEW w \in WorldType, NEW t, Good(w, t), NEW e, NEW mod,
           NEW type \in NotificationTypes, NEW options, type = "NORMAL" => "FORCED" \notin options
    PROVE  Keeps(w, service_notification(w, e, type, options, mod), t)
<1>1. PICK v : v = service_notification(w, e, type, options, mod)
  OBVIOUS
<1>2. v \in WorldType /\ Kept(w.o, v.o) /\ Good(v, t) /\ (Silent(w.o) => Silent(v.o))
  BY <1>1, NotificationKeeps
<1>3. Keeps(w, v, t)
  BY <1>2 DEF Keeps, Kept, Same
<1>4. QED
  BY <1>1, <1>3

LEMMA HostNoticeKeeps ==
    ASSUME NEW w \in WorldType, NEW t, Good(w, t), NEW e, NEW mod,
           NEW type \in NotificationTypes, NEW options, type = "NORMAL" => "FORCED" \notin options
    PROVE  Keeps(w, host_notification(w, e, type, options, mod), t)
<1>1. PICK v : v = host_notification(w, e, type, options, mod)
  OBVIOUS
<1>2. v \in WorldType /\ Kept(w.o, v.o) /\ Good(v, t) /\ (Silent(w.o) => Silent(v.o))
  BY <1>1, NotificationKeeps
<1>3. Keeps(w, v, t)
  BY <1>2 DEF Keeps, Kept, Same
<1>4. QED
  BY <1>1, <1>3

(* The types and options that the callers of the notifications use.         *)
LEMMA PlainTypes ==
    /\ {"NORMAL", "ACKNOWLEDGEMENT", "CUSTOM", "FLAPPINGSTART", "FLAPPINGSTOP",
        "FLAPPINGDISABLED", "DOWNTIMESTART", "DOWNTIMEEND"} \subseteq NotificationTypes
    /\ \A type : type = "NORMAL" => "FORCED" \notin {}
BY DEF NotificationTypes, FlappingTypes, DowntimeTypes

-----------------------------------------------------------------------------
(* Comments and flapping.                                                   *)

(* A new comment takes an id that no comment has, at the counter or above.  *)
LEMMA NewId ==
    ASSUME NEW cs \in CommentData, IsFiniteSet(cs.table), \A c \in cs.table : c.id < cs.next
    PROVE  get_next_comment_id(cs) \in Nat /\ get_next_comment_id(cs) >= cs.next
<1> DEFINE P(n) == n \notin Ids(cs) /\ \A k \in cs.next..(n - 1) : k \in Ids(cs)
           N == cs.next..(cs.next + Cardinality(cs.table))
<1>1. cs.next \in Nat /\ cs.table \subseteq Comment
  BY DEF CommentData
<1>2. Cardinality(cs.table) \in Nat
  BY FS_CardinalityType
<1>3. cs.next \in N
  BY <1>1, <1>2
<1>4. P(cs.next)
  BY <1>1 DEF Ids, Comment
<1>5. \E n \in N : P(n)
  BY <1>3, <1>4
<1>6. get_next_comment_id(cs) = CHOOSE n \in N : P(n)
  BY DEF get_next_comment_id
<1> HIDE DEF P
<1>7. get_next_comment_id(cs) \in N
  BY <1>5, <1>6
<1>8. QED
  BY <1>1, <1>2, <1>7

LEMMA NewComment ==
    ASSUME NEW cs \in CommentData, IsFiniteSet(cs.table), \A c \in cs.table : c.id < cs.next,
           NEW obj_ \in {"host", "service"}, NEW entry_type \in EntryTypes, NEW persistent \in BOOLEAN,
           NEW ds, ds \in {add_new_host_comment(cs, obj_, entry_type, persistent),
                           add_new_service_comment(cs, obj_, entry_type, persistent)},
           NEW id, id = get_next_comment_id(cs),
           NEW c, c = [id |-> id, obj |-> obj_, entry_type |-> entry_type, persistent |-> persistent]
    PROVE  /\ ds \in CommentData /\ ds.next = id + 1 /\ ds.table = cs.table \cup {c}
           /\ IsFiniteSet(ds.table) /\ c \in Comment
<1>1. id \in Nat /\ id >= cs.next /\ cs.next \in Nat /\ cs.table \subseteq Comment
  BY NewId DEF CommentData
<1>2. c \in Comment
  BY <1>1 DEF Comment
<1>3. {x \in cs.table : x.id # id} = cs.table
  BY <1>1 DEF Comment
<1>4. add_comment(cs, id, obj_, entry_type, persistent) = [cs EXCEPT !.table = cs.table \cup {c}]
  BY <1>3 DEF add_comment
<1>5. ds = [[cs EXCEPT !.table = cs.table \cup {c}] EXCEPT !.next = id + 1]
  BY <1>4 DEF add_new_host_comment, add_new_service_comment
<1>6. ds \in CommentData /\ ds.next = id + 1 /\ ds.table = cs.table \cup {c}
  <2> DEFINE T == cs.table \cup {c}
             n == id + 1
             ts == [cs EXCEPT !.table = T]
  <2>1. T \in SUBSET Comment /\ n \in Nat
    BY <1>1, <1>2
  <2> HIDE DEF T, n
  <2>2. ts \in CommentData /\ ts.table = T
    BY <2>1 DEF CommentData
  <2> HIDE DEF ts
  <2>3. [ts EXCEPT !.next = n] \in CommentData
        /\ [ts EXCEPT !.next = n].next = n /\ [ts EXCEPT !.next = n].table = T
    BY <2>1, <2>2 DEF CommentData
  <2>4. QED
    BY <1>5, <2>3 DEF T, n, ts
<1>7. IsFiniteSet(ds.table)
  BY <1>6, FS_AddElement
<1>8. QED
  BY <1>2, <1>6, <1>7

LEMMA RecordedType ==
    ASSUME NEW o \in Object
    PROVE  Recorded(o) \in [1..HistorySize -> 0..3]
<1>1. HistorySize \in Nat /\ HistorySize > 2
  BY FlappingAssumption
<1>2. o.history \in [1..HistorySize -> 0..3] /\ o.current_state \in 0..3
  BY DEF Object
<1>3. o.history \in Seq(0..3) /\ Len(o.history) = HistorySize
  BY <1>1, <1>2
<1>4. Tail(o.history) \in Seq(0..3) /\ Len(Tail(o.history)) = HistorySize - 1
  BY <1>1, <1>3
<1>5. Recorded(o) \in Seq(0..3) /\ Len(Recorded(o)) = HistorySize
  BY <1>1, <1>2, <1>4 DEF Recorded
<1>6. QED
  BY <1>5

Flapped(o, p) == Same(o, p) /\ p.notified_on = o.notified_on

(* An object of which only other fields have been changed.                  *)
LEMMA OtherFields ==
    ASSUME NEW w \in WorldType, NEW t, Good(w, t), NEW p \in Object, Kept(w.o, p),
           p.notified_on \subseteq w.o.notified_on
    PROVE  LET v == [w EXCEPT !.o = p]
           IN  v \in WorldType /\ Good(v, t) /\ v.o = p /\ v.cs = w.cs /\ v.sent = w.sent
<1> DEFINE v == [w EXCEPT !.o = p]
<1>1. v \in WorldType /\ v.o = p /\ v.cs = w.cs /\ v.sent = w.sent
  BY DEF WorldType
<1> HIDE DEF v
<1>2. AckOK(v.o, v.cs) /\ FlapOK(v.o, v.cs)
  BY <1>1 DEF Good, AckOK, FlapOK, Kept
<1>3. Telling(v, t)
  BY <1>1 DEF Good, Telling, Kept, Problems
<1>4. QED
  BY <1>1, <1>2, <1>3 DEF Good, v

LEMMA FlapFields ==
    ASSUME NEW o \in Object, NEW id \in Nat
    PROVE  \A a, d \in BOOLEAN :
             [o EXCEPT !.is_flapping = a, !.flapping_comment_id = id, !.check_recovery = d] \in Object
BY DEF Object

(* cs is ds with a new comment on flapping, c.                              *)
FlapComment(ds, id, c, cs) ==
    /\ id \in Nat /\ id >= ds.next
    /\ c \in Comment /\ c.id = id /\ c.entry_type = "FLAPPING" /\ ~c.persistent
    /\ cs \in CommentData /\ cs.next = id + 1 /\ cs.table = ds.table \cup {c}
    /\ IsFiniteSet(cs.table)

LEMMA FlapBegins ==
    ASSUME NEW w \in WorldType, NEW t, Good(w, t), ~w.o.is_flapping,
           NEW id, NEW c, NEW cs, FlapComment(w.cs, id, c, cs)
    PROVE  LET v == [w EXCEPT !.o = FlapBegan(@, id), !.cs = cs]
           IN  v \in WorldType /\ Good(v, t) /\ Flapped(w.o, v.o)
<1> DEFINE p == FlapBegan(w.o, id)
           v == [w EXCEPT !.o = p, !.cs = cs]
<1>0. /\ w.o \in Object /\ w.cs \in CommentData /\ w.sent \in Seq(Notice)
      /\ AckOK(w.o, w.cs) /\ FlapOK(w.o, w.cs) /\ Telling(w, t)
  BY DEF WorldType, Good
<1> USE DEF FlapComment
<1>1. w.cs.next \in Nat /\ w.cs.table \subseteq Comment
  BY <1>0 DEF CommentData
<1>4. /\ p \in Object /\ Same(w.o, p) /\ p.notified_on = w.o.notified_on
      /\ p.is_flapping = TRUE /\ p.flapping_comment_id = id
  <2> DEFINE b == w.o.current_state # 0 /\ w.o.number > 0
  <2>0. b \in BOOLEAN /\ TRUE \in BOOLEAN
    OBVIOUS
  <2>1. p = [w.o EXCEPT !.is_flapping = TRUE, !.flapping_comment_id = id, !.check_recovery = b]
    BY DEF FlapBegan
  <2>2. \A a, d \in BOOLEAN :
          [w.o EXCEPT !.is_flapping = a, !.flapping_comment_id = id, !.check_recovery = d] \in Object
    BY <1>0, FlapFields
  <2> HIDE DEF b
  <2>3. Same(w.o, p) /\ p.notified_on = w.o.notified_on
    BY <1>0, <2>1 DEF Object, Same
  <2>4. p.is_flapping = TRUE /\ p.flapping_comment_id = id
    BY <1>0, <2>1 DEF Object
  <2>5. p \in Object
    <3> HIDE DEF p
    <3>1. QED
      BY <2>0, <2>1, <2>2
  <2>6. QED
    BY <2>3, <2>4, <2>5
<1> HIDE DEF p
<1>5. v \in WorldType /\ v.o = p /\ v.cs = cs /\ v.sent = w.sent
  BY <1>4 DEF WorldType
<1> HIDE DEF v
<1>6. AckOK(v.o, v.cs)
  <2>1. AckComments(cs, p.kind) \subseteq AckComments(w.cs, w.o.kind)
    BY <1>4 DEF AckComments, Same
  <2>2. QED
    BY <1>0, <1>4, <1>5, <2>1 DEF AckOK, Same
<1>7. FlapOK(v.o, v.cs)
  <2>1. \A x \in w.cs.table :
          x.id \in Nat /\ 1 <= x.id /\ x.id < w.cs.next /\ x.entry_type # "FLAPPING"
    BY <1>0, <1>1 DEF FlapOK, Comment
  <2>2. w.cs.next >= 1
    BY <1>0, <1>1 DEF FlapOK, Object
  <2>3. \A x \in cs.table : x \in w.cs.table \/ x = c
    OBVIOUS
  <2>4. \A x \in cs.table : 1 <= x.id /\ x.id < cs.next
    BY <1>1, <2>1, <2>2, <2>3
  <2>5. \A x \in cs.table : x.entry_type = "FLAPPING" \/ x.id = id => x = c
    BY <1>1, <2>1, <2>3
  <2>6. QED
    BY <1>1, <1>4, <1>5, <2>4, <2>5 DEF FlapOK
<1>8. Telling(v, t)
  BY <1>0, <1>4, <1>5 DEF Telling, Same, Problems
<1>9. [w EXCEPT !.o = FlapBegan(@, id), !.cs = cs] = v
  BY DEF WorldType, v, p
<1>10. QED
  BY <1>4, <1>5, <1>6, <1>7, <1>8, <1>9 DEF Good, Flapped

LEMMA FlapCommented ==
    ASSUME NEW ds \in CommentData, IsFiniteSet(ds.table), \A x \in ds.table : x.id < ds.next,
           NEW kind \in {"host", "service"}, NEW keep \in BOOLEAN, ~keep,
           NEW cs, cs \in {add_new_host_comment(ds, kind, "FLAPPING", keep),
                           add_new_service_comment(ds, kind, "FLAPPING", keep)}
    PROVE  \E c : FlapComment(ds, get_next_comment_id(ds), c, cs)
<1>1. PICK id : id = get_next_comment_id(ds)
  OBVIOUS
<1>2. PICK c : c = [id |-> id, obj |-> kind, entry_type |-> "FLAPPING", persistent |-> keep]
  OBVIOUS
<1>3. id \in Nat /\ id >= ds.next
  BY <1>1, NewId
<1>4. "FLAPPING" \in EntryTypes
  BY DEF EntryTypes
<1>5. c.id = id /\ c.entry_type = "FLAPPING" /\ ~c.persistent
  BY <1>2
<1>6. /\ cs \in CommentData /\ cs.next = id + 1 /\ cs.table = ds.table \cup {c}
      /\ IsFiniteSet(cs.table) /\ c \in Comment
  BY <1>1, <1>2, <1>4, NewComment
<1>7. FlapComment(ds, id, c, cs)
  BY <1>3, <1>5, <1>6 DEF FlapComment
<1>8. QED
  BY <1>1, <1>7

LEMMA FlapBegun ==
    ASSUME NEW w \in WorldType, NEW t, Good(w, t), ~w.o.is_flapping,
           NEW cs, \E c : FlapComment(w.cs, get_next_comment_id(w.cs), c, cs)
    PROVE  LET v == [w EXCEPT !.o = FlapBegan(@, get_next_comment_id(w.cs)), !.cs = cs]
           IN  v \in WorldType /\ Good(v, t) /\ Flapped(w.o, v.o)
<1>1. PICK id : id = get_next_comment_id(w.cs)
  OBVIOUS
<1>2. PICK c : FlapComment(w.cs, id, c, cs)
  BY <1>1
<1> DEFINE v == [w EXCEPT !.o = FlapBegan(@, id), !.cs = cs]
<1>3. v \in WorldType /\ Good(v, t) /\ Flapped(w.o, v.o)
  BY <1>2, FlapBegins, Zenon
<1>4. QED
  BY <1>1, <1>3, Zenon

(* Flapping begins, of an object that was not flapping.                     *)
LEMMA SetFlapKeeps ==
    ASSUME NEW w \in WorldType, NEW t, Good(w, t), ~w.o.is_flapping, NEW e, NEW mod
    PROVE  /\ Keeps(w, set_service_flap(w, e, mod), t)
           /\ Keeps(w, set_host_flap(w, e, mod), t)
<1> DEFINE begun(cs) == [w EXCEPT !.o = FlapBegan(@, get_next_comment_id(w.cs)), !.cs = cs]
           hs == add_new_host_comment(w.cs, "host", "FLAPPING", FALSE)
           ss == add_new_service_comment(w.cs, "service", "FLAPPING", FALSE)
           h == begun(hs)
           s == begun(ss)
<1>0. /\ w.cs \in CommentData /\ IsFiniteSet(w.cs.table) /\ \A x \in w.cs.table : x.id < w.cs.next
  BY DEF WorldType, Good, FlapOK
<1>1. /\ \E c : FlapComment(w.cs, get_next_comment_id(w.cs), c, hs)
      /\ \E c : FlapComment(w.cs, get_next_comment_id(w.cs), c, ss)
  <2>1. FALSE \in BOOLEAN /\ ~FALSE
    OBVIOUS
  <2>2. QED
    BY <1>0, <2>1, FlapCommented, Zenon
<1>2. h \in WorldType /\ Good(h, t) /\ Flapped(w.o, h.o)
  BY <1>1, FlapBegun, Zenon
<1>3. s \in WorldType /\ Good(s, t) /\ Flapped(w.o, s.o)
  BY <1>1, FlapBegun, Zenon
<1>4. /\ set_host_flap(w, e, mod) = host_notification(h, e, "FLAPPINGSTART", {}, mod)
      /\ set_service_flap(w, e, mod) = service_notification(s, e, "FLAPPINGSTART", {}, mod)
  BY DEF set_host_flap, set_service_flap
<1> HIDE DEF h, s
<1>5. Keeps(w, h, t) /\ Keeps(w, s, t)
  BY <1>2, <1>3 DEF Keeps, Flapped, Silent, Same
<1>6. "FLAPPINGSTART" \in NotificationTypes
  BY PlainTypes
<1>7. /\ Keeps(h, host_notification(h, e, "FLAPPINGSTART", {}, mod), t)
      /\ Keeps(s, service_notification(s, e, "FLAPPINGSTART", {}, mod), t)
  BY <1>2, <1>3, <1>6, PlainTypes, ServiceNoticeKeeps, HostNoticeKeeps, Zenon
<1>8. QED
  BY <1>4, <1>5, <1>7, KeepsThrough, Zenon

(* Its comment goes when flapping ends.                                     *)
LEMMA FlapEndedKeeps ==
    ASSUME NEW w \in WorldType, NEW t, Good(w, t)
    PROVE  LET v == FlapEnded(w)
           IN  v \in WorldType /\ Good(v, t) /\ Flapped(w.o, v.o)
<1> DEFINE T == IF w.o.flapping_comment_id # 0
                THEN w.cs.table \ find_comment(w.cs, w.o.flapping_comment_id) ELSE w.cs.table
           cs == [w.cs EXCEPT !.table = T]
           p == [w.o EXCEPT !.is_flapping = FALSE, !.flapping_comment_id = 0]
           v == [w EXCEPT !.o = p, !.cs = cs]
<1>0. /\ w.o \in Object /\ w.cs \in CommentData /\ w.sent \in Seq(Notice)
      /\ AckOK(w.o, w.cs) /\ FlapOK(w.o, w.cs) /\ Telling(w, t)
  BY DEF WorldType, Good
<1>1. w.cs.next \in Nat /\ w.cs.table \subseteq Comment /\ T \subseteq w.cs.table
  BY <1>0 DEF CommentData
<1>2. cs \in CommentData /\ cs.next = w.cs.next /\ cs.table = T
  <2> HIDE DEF T
  <2>1. QED
    BY <1>0, <1>1 DEF CommentData
<1>3. \A b \in BOOLEAN : [w.o EXCEPT !.is_flapping = b, !.flapping_comment_id = 0] \in Object
  BY <1>0 DEF Object
<1>4. /\ p \in Object
      /\ Same(w.o, p) /\ p.notified_on = w.o.notified_on /\ p.flapping_comment_id = 0
  <2>1. p \in Object
    BY <1>3
  <2>2. QED
    BY <1>0, <2>1 DEF Object, Same
<1>5. FlapEnded(w) = v
  <2>1. [w.cs EXCEPT !.table = w.cs.table] = w.cs
    BY <1>0 DEF CommentData
  <2>2. cs = IF w.o.flapping_comment_id # 0
             THEN delete_comment(w.cs, w.o.flapping_comment_id) ELSE w.cs
    BY <2>1 DEF delete_comment
  <2> HIDE DEF cs
  <2>3. QED
    BY <2>2 DEF FlapEnded, WorldType
<1> HIDE DEF p, cs
<1>6. v \in WorldType /\ v.o = p /\ v.cs = cs /\ v.sent = w.sent
  BY <1>2, <1>4 DEF WorldType
<1> HIDE DEF v
<1>7. AckOK(v.o, v.cs)
  <2>1. AckComments(cs, p.kind) \subseteq AckComments(w.cs, w.o.kind)
    BY <1>1, <1>2, <1>4 DEF AckComments, Same
  <2>2. QED
    BY <1>0, <1>4, <1>6, <2>1 DEF AckOK, Same
<1>8. FlapOK(v.o, v.cs)
  <2>1. \A x \in w.cs.table :
          /\ x.id \in Nat /\ 1 <= x.id /\ x.id < w.cs.next
          /\ x.entry_type = "FLAPPING" => w.o.flapping_comment_id = x.id
    BY <1>0, <1>1 DEF FlapOK, Comment
  <2>2. \A x \in T : x.entry_type # "FLAPPING"
    BY <2>1 DEF find_comment
  <2>3. w.cs.next > 0
    BY <1>0, <1>1 DEF FlapOK, Object
  <2>4. IsFiniteSet(T)
    BY <1>0, <1>1, FS_Subset DEF FlapOK
  <2>5. \A x \in T : x.id # 0 /\ 1 <= x.id /\ x.id < w.cs.next
    BY <1>1, <2>1
  <2> HIDE DEF T
  <2>6. QED
    BY <1>2, <1>4, <1>6, <2>2, <2>3, <2>4, <2>5 DEF FlapOK
<1>9. Telling(v, t)
  BY <1>0, <1>4, <1>6 DEF Telling, Same, Problems
<1>10. QED
  BY <1>4, <1>5, <1>6, <1>7, <1>8, <1>9 DEF Good, Flapped

LEMMA FieldsKeep ==
    ASSUME NEW w \in WorldType, NEW t, Good(w, t), NEW p \in Object, Kept(w.o, p),
           p.notified_on = w.o.notified_on
    PROVE  Keeps(w, [w EXCEPT !.o = p], t)
<1>1. PICK v : v = [w EXCEPT !.o = p]
  OBVIOUS
<1>2. v \in WorldType /\ Good(v, t) /\ v.o = p
  BY <1>1, OtherFields
<1>3. Keeps(w, v, t)
  BY <1>2 DEF Keeps, Kept, Same, Silent
<1>4. QED
  BY <1>1, <1>3

LEMMA BooleanFields ==
    ASSUME NEW o \in Object, NEW b \in BOOLEAN
    PROVE  /\ [o EXCEPT !.check_recovery = b] \in Object
           /\ [o EXCEPT !.flap_detection_enabled = b] \in Object
           /\ [o EXCEPT !.notifications_enabled = b] \in Object
           /\ Kept(o, [o EXCEPT !.check_recovery = b])
           /\ Kept(o, [o EXCEPT !.flap_detection_enabled = b])
           /\ Kept(o, [o EXCEPT !.notifications_enabled = b])
           /\ [o EXCEPT !.check_recovery = b].notified_on = o.notified_on
           /\ [o EXCEPT !.flap_detection_enabled = b].notified_on = o.notified_on
           /\ [o EXCEPT !.notifications_enabled = b].notified_on = o.notified_on
<1>1. [o EXCEPT !.check_recovery = b] \in Object
  BY DEF Object
<1>2. [o EXCEPT !.flap_detection_enabled = b] \in Object
  BY DEF Object
<1>3. [o EXCEPT !.notifications_enabled = b] \in Object
  BY DEF Object
<1>4. QED
  BY <1>1, <1>2, <1>3 DEF Object, Kept

(* Switches of the object.                                                  *)
LEMMA SwitchKeeps ==
    ASSUME NEW w \in WorldType, NEW t, Good(w, t), NEW b \in BOOLEAN
    PROVE  /\ Keeps(w, [w EXCEPT !.o.check_recovery = b], t)
           /\ Keeps(w, [w EXCEPT !.o.flap_detection_enabled = b], t)
           /\ Keeps(w, [w EXCEPT !.o.notifications_enabled = b], t)
<1>1. w.o \in Object
  BY DEF WorldType
<1>2. PICK p, q, r :
        /\ p = [w.o EXCEPT !.check_recovery = b]
        /\ q = [w.o EXCEPT !.flap_detection_enabled = b]
        /\ r = [w.o EXCEPT !.notifications_enabled = b]
  OBVIOUS
<1>3. /\ p \in Object /\ Kept(w.o, p) /\ p.notified_on = w.o.notified_on
      /\ q \in Object /\ Kept(w.o, q) /\ q.notified_on = w.o.notified_on
      /\ r \in Object /\ Kept(w.o, r) /\ r.notified_on = w.o.notified_on
  BY <1>1, <1>2, BooleanFields
<1>4. /\ Keeps(w, [w EXCEPT !.o = p], t)
      /\ Keeps(w, [w EXCEPT !.o = q], t)
      /\ Keeps(w, [w EXCEPT !.o = r], t)
  BY <1>3, FieldsKeep
<1>5. QED
  BY <1>2, <1>4

LEMMA ServiceFlapEndsKeeps ==
    ASSUME NEW w \in WorldType, NEW t, Good(w, t), NEW e, NEW mod,
           NEW type \in {"FLAPPINGSTOP", "FLAPPINGDISABLED"}
    PROVE  Keeps(w, ServiceFlapEnds(w, e, type, mod), t)
<1>1. PICK w0 : w0 = FlapEnded(w)
  OBVIOUS
<1>2. PICK w1 : w1 = service_notification(w0, e, type, {}, mod)
  OBVIOUS
<1>3. PICK w2 : w2 = IF RecoveryDue(w.o) THEN service_notification(w1, e, "NORMAL", {}, mod) ELSE w1
  OBVIOUS
<1>4. ServiceFlapEnds(w, e, type, mod) = [w2 EXCEPT !.o.check_recovery = FALSE]
  BY <1>1, <1>2, <1>3 DEF ServiceFlapEnds
<1>5. w0 \in WorldType /\ Good(w0, t) /\ Flapped(w.o, w0.o)
  BY <1>1, FlapEndedKeeps
<1>6. Keeps(w, w0, t)
  BY <1>5 DEF Keeps, Flapped, Same, Silent
<1>7. type \in NotificationTypes /\ "NORMAL" \in NotificationTypes
  BY PlainTypes
<1>8. Keeps(w0, w1, t)
  BY <1>2, <1>5, <1>7, ServiceNoticeKeeps
<1>9. w1 \in WorldType /\ Good(w1, t)
  BY <1>8 DEF Keeps
<1>10. Keeps(w1, w2, t)
  <2>1. Keeps(w1, service_notification(w1, e, "NORMAL", {}, mod), t)
    BY <1>7, <1>9, PlainTypes, ServiceNoticeKeeps, Zenon
  <2>2. QED
    BY <1>3, <1>9, <2>1, KeepsStill
<1>11. w2 \in WorldType /\ Good(w2, t) /\ FALSE \in BOOLEAN
  BY <1>10 DEF Keeps
<1>12. Keeps(w2, [w2 EXCEPT !.o.check_recovery = FALSE], t)
  BY <1>11, SwitchKeeps, Zenon
<1>13. Keeps(w, w1, t)
  BY <1>6, <1>8, KeepsThrough
<1>14. Keeps(w, w2, t)
  BY <1>10, <1>13, KeepsThrough
<1>15. QED
  BY <1>4, <1>12, <1>14, KeepsThrough, Zenon

LEMMA HostFlapEndsKeeps ==
    ASSUME NEW w \in WorldType, NEW t, Good(w, t), NEW e, NEW mod,
           NEW type \in {"FLAPPINGSTOP", "FLAPPINGDISABLED"}
    PROVE  Keeps(w, HostFlapEnds(w, e, type, mod), t)
<1>1. PICK w0 : w0 = FlapEnded(w)
  OBVIOUS
<1>2. PICK w1 : w1 = host_notification(w0, e, type, {}, mod)
  OBVIOUS
<1>3. PICK w2 : w2 = IF RecoveryDue(w.o) THEN host_notification(w1, e, "NORMAL", {}, mod) ELSE w1
  OBVIOUS
<1>4. HostFlapEnds(w, e, type, mod) = [w2 EXCEPT !.o.check_recovery = FALSE]
  BY <1>1, <1>2, <1>3 DEF HostFlapEnds
<1>5. w0 \in WorldType /\ Good(w0, t) /\ Flapped(w.o, w0.o)
  BY <1>1, FlapEndedKeeps
<1>6. Keeps(w, w0, t)
  BY <1>5 DEF Keeps, Flapped, Same, Silent
<1>7. type \in NotificationTypes /\ "NORMAL" \in NotificationTypes
  BY PlainTypes
<1>8. Keeps(w0, w1, t)
  BY <1>2, <1>5, <1>7, HostNoticeKeeps
<1>9. w1 \in WorldType /\ Good(w1, t)
  BY <1>8 DEF Keeps
<1>10. Keeps(w1, w2, t)
  <2>1. Keeps(w1, host_notification(w1, e, "NORMAL", {}, mod), t)
    BY <1>7, <1>9, PlainTypes, HostNoticeKeeps, Zenon
  <2>2. QED
    BY <1>3, <1>9, <2>1, KeepsStill
<1>11. w2 \in WorldType /\ Good(w2, t) /\ FALSE \in BOOLEAN
  BY <1>10 DEF Keeps
<1>12. Keeps(w2, [w2 EXCEPT !.o.check_recovery = FALSE], t)
  BY <1>11, SwitchKeeps, Zenon
<1>13. Keeps(w, w1, t)
  BY <1>6, <1>8, KeepsThrough
<1>14. Keeps(w, w2, t)
  BY <1>10, <1>13, KeepsThrough
<1>15. QED
  BY <1>4, <1>12, <1>14, KeepsThrough, Zenon

LEMMA RecordedKeeps ==
    ASSUME NEW w \in WorldType, NEW t, Good(w, t)
    PROVE  LET v == [w EXCEPT !.o.history = Recorded(w.o)]
           IN  Keeps(w, v, t) /\ v.o.is_flapping = w.o.is_flapping
<1>1. PICK h : h = Recorded(w.o)
  OBVIOUS
<1>2. PICK p : p = [w.o EXCEPT !.history = h]
  OBVIOUS
<1>3. w.o \in Object /\ h \in [1..HistorySize -> 0..3]
  BY <1>1, RecordedType DEF WorldType
<1>4. p \in Object
  BY <1>2, <1>3 DEF Object
<1>5. Kept(w.o, p) /\ p.notified_on = w.o.notified_on
  BY <1>2, <1>3 DEF Object, Kept
<1>6. PICK v : v = [w EXCEPT !.o = p]
  OBVIOUS
<1>7. Keeps(w, v, t)
  BY <1>4, <1>5, <1>6, FieldsKeep
<1>8. v.o.is_flapping = w.o.is_flapping
  BY <1>5, <1>6 DEF WorldType, Kept
<1>9. v = [w EXCEPT !.o.history = Recorded(w.o)]
  BY <1>1, <1>2, <1>6
<1>10. QED
  BY <1>7, <1>8, <1>9

(* Recording a state and what follows from it.                              *)
LEMMA FlappingKeeps ==
    ASSUME NEW w \in WorldType, NEW t, Good(w, t), NEW e, NEW mod
    PROVE  /\ Keeps(w, check_for_service_flapping(w, e, mod), t)
           /\ Keeps(w, check_for_host_flapping(w, e, mod), t)
<1>1. PICK w1 : w1 = [w EXCEPT !.o.history = Recorded(w.o)]
  OBVIOUS
<1>2. Keeps(w, w1, t)
  BY <1>1, RecordedKeeps
<1>3. w1 \in WorldType /\ Good(w1, t)
  BY <1>2 DEF Keeps
<1>4. FlapDecision(w1.o, e) = "start" => ~w1.o.is_flapping
  BY DEF FlapDecision
<1>5. FlapDecision(w1.o, e) = "start" =>
        /\ Keeps(w1, set_service_flap(w1, e, mod), t)
        /\ Keeps(w1, set_host_flap(w1, e, mod), t)
  BY <1>3, <1>4, SetFlapKeeps
<1>6. /\ Keeps(w1, clear_service_flap(w1, e, mod), t)
      /\ Keeps(w1, clear_host_flap(w1, e, mod), t)
  BY <1>3, ServiceFlapEndsKeeps, HostFlapEndsKeeps DEF clear_service_flap, clear_host_flap
<1>7. Keeps(w, w, t) /\ Keeps(w1, w1, t)
  BY <1>3, KeepsStill
<1>8. PICK d : d = FlapDecision(w1.o, e)
  OBVIOUS
<1>9. PICK v : v = IF d = "start" THEN set_service_flap(w1, e, mod)
                   ELSE IF d = "stop" THEN clear_service_flap(w1, e, mod) ELSE w1
  OBVIOUS
<1>10. PICK u : u = IF d = "start" THEN set_host_flap(w1, e, mod)
                    ELSE IF d = "stop" THEN clear_host_flap(w1, e, mod) ELSE w1
  OBVIOUS
<1>11. Keeps(w1, v, t) /\ Keeps(w1, u, t)
  BY <1>5, <1>6, <1>7, <1>8, <1>9, <1>10
<1>12. Keeps(w, v, t) /\ Keeps(w, u, t)
  BY <1>2, <1>11, KeepsThrough
<1>13. /\ check_for_service_flapping(w, e, mod) \in {w, v}
       /\ check_for_host_flapping(w, e, mod) \in {w, u}
  BY <1>1, <1>8, <1>9, <1>10 DEF check_for_service_flapping, check_for_host_flapping
<1>14. QED
  BY <1>7, <1>12, <1>13

LEMMA FlapDisabledKeeps ==
    ASSUME NEW w \in WorldType, NEW t, Good(w, t), NEW e, NEW mod
    PROVE  /\ Keeps(w, handle_service_flap_detection_disabled(w, e, mod), t)
           /\ Keeps(w, handle_host_flap_detection_disabled(w, e, mod), t)
<1>1. /\ Keeps(w, ServiceFlapEnds(w, e, "FLAPPINGDISABLED", mod), t)
      /\ Keeps(w, HostFlapEnds(w, e, "FLAPPINGDISABLED", mod), t)
  BY ServiceFlapEndsKeeps, HostFlapEndsKeeps
<1>2. Keeps(w, w, t)
  BY KeepsStill
<1>3. QED
  BY <1>1, <1>2 DEF handle_service_flap_detection_disabled, handle_host_flap_detection_disabled

(* The commands that switch flap detection.                                 *)
LEMMA FlapSwitchKeeps ==
    ASSUME NEW w \in WorldType, NEW t, Good(w, t), NEW e, NEW mod, NEW late
    PROVE  /\ Keeps(w, disable_service_flap_detection(w, e, mod), t)
           /\ Keeps(w, disable_host_flap_detection(w, e, mod), t)
           /\ Keeps(w, enable_service_flap_detection(w), t)
           /\ Keeps(w, enable_host_flap_detection(w, e, mod, late), t)
           /\ Keeps(w, enable_flap_detection_routines(w, e, mod, late), t)
           /\ Keeps(w, disable_flap_detection_routines(w, e, mod), t)
<1>0. TRUE \in BOOLEAN /\ FALSE \in BOOLEAN
  OBVIOUS
<1>1. PICK off, on : /\ off = [w EXCEPT !.o.flap_detection_enabled = FALSE]
                     /\ on = [w EXCEPT !.o.flap_detection_enabled = TRUE]
  OBVIOUS
<1>2. Keeps(w, off, t)
  BY <1>0, <1>1, SwitchKeeps, Zenon
<1>3. Keeps(w, on, t)
  BY <1>0, <1>1, SwitchKeeps, Zenon
<1>4. off \in WorldType /\ Good(off, t) /\ on \in WorldType /\ Good(on, t)
  BY <1>2, <1>3 DEF Keeps
<1>5. /\ Keeps(off, handle_service_flap_detection_disabled(off, e, mod), t)
      /\ Keeps(off, handle_host_flap_detection_disabled(off, e, mod), t)
      /\ Keeps(on, check_for_host_flapping(on, e, mod), t)
  BY <1>4, FlapDisabledKeeps, FlappingKeeps
<1>6. /\ Keeps(w, handle_service_flap_detection_disabled(off, e, mod), t)
      /\ Keeps(w, handle_host_flap_detection_disabled(off, e, mod), t)
      /\ Keeps(w, check_for_host_flapping(on, e, mod), t)
  BY <1>2, <1>3, <1>5, KeepsThrough
<1>7. Keeps(w, w, t)
  BY KeepsStill
<1>8. /\ Keeps(w, handle_service_flap_detection_disabled(w, e, mod), t)
      /\ Keeps(w, handle_host_flap_detection_disabled(w, e, mod), t)
      /\ Keeps(w, check_for_host_flapping(w, e, mod), t)
  BY FlapDisabledKeeps, FlappingKeeps
<1>9. /\ disable_service_flap_detection(w, e, mod)
           \in {w, handle_service_flap_detection_disabled(off, e, mod)}
      /\ disable_host_flap_detection(w, e, mod)
           \in {w, handle_host_flap_detection_disabled(off, e, mod)}
      /\ enable_service_flap_detection(w) = on
      /\ enable_host_flap_detection(w, e, mod, late) \in {on, check_for_host_flapping(on, e, mod)}
  BY <1>1 DEF disable_service_flap_detection, disable_host_flap_detection,
              enable_service_flap_detection, enable_host_flap_detection
<1>10. /\ enable_flap_detection_routines(w, e, mod, late) \in {w, check_for_host_flapping(w, e, mod)}
       /\ disable_flap_detection_routines(w, e, mod)
            \in {handle_service_flap_detection_disabled(w, e, mod),
                 handle_host_flap_detection_disabled(w, e, mod)}
  BY DEF enable_flap_detection_routines, disable_flap_detection_routines
<1>11. QED
  BY <1>3, <1>6, <1>7, <1>8, <1>9, <1>10

-----------------------------------------------------------------------------
(* The object and the comments changed by a result or a command.            *)

(* The object o changed into p and the comments cs into ds.                 *)
Altered(o, cs, p, ds) ==
    /\ p \in Object /\ p.kind = o.kind
    /\ p.is_flapping = o.is_flapping /\ p.flapping_comment_id = o.flapping_comment_id
    /\ p.notified_on \subseteq o.notified_on
    /\ \E T \in SUBSET cs.table : ds = [cs EXCEPT !.table = T]
    /\ AckOK(p, ds)

(* A stage in which nothing was sent yet.                                   *)
Ready(w, t) == w \in WorldType /\ Good(w, t) /\ w.sent = <<>>
With(w, p, cs) == [w EXCEPT !.o = p, !.cs = cs]

(* Comments are deleted and the object is changed before anything is sent.  *)
LEMMA ChangedWorld ==
    ASSUME NEW w, NEW t, Ready(w, t), NEW p, NEW cs, Altered(w.o, w.cs, p, cs)
    PROVE  Ready(With(w, p, cs), t) /\ With(w, p, cs).o = p
<1> USE DEF Altered, Ready
<1> DEFINE v == With(w, p, cs)
<1>a. PICK T \in SUBSET w.cs.table : cs = [w.cs EXCEPT !.table = T]
  OBVIOUS
<1>0. /\ w.cs \in CommentData /\ w.sent \in Seq(Notice) /\ FlapOK(w.o, w.cs) /\ Telling(w, t)
  BY DEF WorldType, Good
<1>1. w.cs.next \in Nat /\ w.cs.table \subseteq Comment
  BY <1>0 DEF CommentData
<1>2. cs \in CommentData /\ cs.table = T /\ cs.next = w.cs.next
  BY <1>0, <1>1, <1>a DEF CommentData
<1>3. v \in WorldType /\ v.o = p /\ v.cs = cs /\ v.sent = <<>>
  BY <1>2 DEF WorldType, With
<1> HIDE DEF v
<1>4. FlapOK(v.o, v.cs)
  <2>1. IsFiniteSet(T)
    BY <1>0, FS_Subset DEF FlapOK
  <2>2. QED
    BY <1>0, <1>2, <1>3, <2>1 DEF FlapOK
<1>5. Telling(v, t)
  <2>1. Len(v.sent) = 0 /\ Len(w.sent) = 0
    BY <1>3
  <2>2. Problems(w) = {}
    BY <2>1 DEF Problems
  <2>3. QED
    BY <1>0, <1>3, <2>1, <2>2 DEF Telling
<1>6. QED
  BY <1>3, <1>4, <1>5 DEF Good, v

(* An object without acknowledgement and comments of one is in order.       *)
LEMMA AckGone ==
    ASSUME NEW cs \in CommentData, NEW p, ~p.acknowledged,
           NEW ds, ds = delete_acknowledgement_comments(cs, p.kind)
    PROVE  AckOK(p, ds)
<1>1. ds.table = cs.table \ AckComments(cs, p.kind)
  BY DEF delete_acknowledgement_comments, CommentData
<1>2. AckComments(ds, p.kind) = {}
  BY <1>1 DEF AckComments
<1>3. QED
  BY <1>2 DEF AckOK

LEMMA AckRemovedKeeps ==
    ASSUME NEW w, NEW t, Ready(w, t)
    PROVE  LET v == AckRemoved(w)
           IN  v \in WorldType /\ Good(v, t) /\ v.o.kind = w.o.kind /\ (Silent(w.o) => Silent(v.o))
<1>0. w.o \in Object /\ w.cs \in CommentData
  BY DEF WorldType, Ready
<1>1. PICK p : p = [w.o EXCEPT !.acknowledged = FALSE, !.ack_end = -1]
  OBVIOUS
<1>2. \A b \in BOOLEAN : [w.o EXCEPT !.acknowledged = b, !.ack_end = -1] \in Object
  BY <1>0 DEF Object
<1>3. p \in Object
  BY <1>1, <1>2
<1>4. /\ p.kind = w.o.kind /\ p.current_state = w.o.current_state /\ p.notified_on = w.o.notified_on
      /\ p.is_flapping = w.o.is_flapping /\ p.flapping_comment_id = w.o.flapping_comment_id
      /\ ~p.acknowledged
  BY <1>0, <1>1 DEF Object
<1>5. PICK T : T = w.cs.table \ AckComments(w.cs, w.o.kind)
  OBVIOUS
<1>6. PICK cs : cs = [w.cs EXCEPT !.table = T]
  OBVIOUS
<1>7. cs = delete_acknowledgement_comments(w.cs, p.kind)
  BY <1>4, <1>5, <1>6 DEF delete_acknowledgement_comments
<1>8. AckOK(p, cs)
  BY <1>0, <1>4, <1>7, AckGone
<1>9. PICK v : v = With(w, p, cs)
  OBVIOUS
<1>10. Ready(v, t) /\ v.o = p
  <2>1. Altered(w.o, w.cs, p, cs)
    BY <1>3, <1>4, <1>5, <1>6, <1>8 DEF Altered
  <2>2. QED
    BY <1>9, <2>1, ChangedWorld
<1>11. AckRemoved(w) = v
  BY <1>1, <1>4, <1>7, <1>9 DEF AckRemoved, WorldType, Ready, With
<1>12. QED
  BY <1>4, <1>10, <1>11 DEF Silent, Ready

AckSet(w, type, end, yes) ==
    [w EXCEPT !.o.acknowledged = yes, !.o.ack_type = type, !.o.ack_end = end]

LEMMA AckSetKeeps ==
    ASSUME NEW w \in WorldType, NEW t, Good(w, t), w.o.current_state # 0,
           NEW type \in {"normal", "sticky"}, NEW end \in Nat \cup {-1}, NEW yes \in BOOLEAN, yes
    PROVE  LET v == AckSet(w, type, end, yes)
           IN  /\ v \in WorldType /\ Good(v, t) /\ v.o.acknowledged
               /\ v.o.kind = w.o.kind /\ v.o.current_state = w.o.current_state
<1>0. /\ w.o \in Object /\ w.cs \in CommentData /\ w.sent \in Seq(Notice)
      /\ AckOK(w.o, w.cs) /\ FlapOK(w.o, w.cs) /\ Telling(w, t)
  BY DEF WorldType, Good
<1>1. PICK p : p = [w.o EXCEPT !.acknowledged = yes, !.ack_type = type, !.ack_end = end]
  OBVIOUS
<1>2. p \in Object
  BY <1>0, <1>1, ZenonT(30) DEF Object
<1>3. /\ p.kind = w.o.kind /\ p.current_state = w.o.current_state /\ p.notified_on = w.o.notified_on
      /\ p.is_flapping = w.o.is_flapping /\ p.flapping_comment_id = w.o.flapping_comment_id
  BY <1>0, <1>1 DEF Object
<1>4. p.acknowledged /\ p.ack_type = type
  BY <1>0, <1>1 DEF Object
<1>5. PICK v : v = [w EXCEPT !.o = p]
  OBVIOUS
<1>6. v \in WorldType /\ v.o = p /\ v.cs = w.cs /\ v.sent = w.sent
  BY <1>2, <1>5 DEF WorldType
<1>7. AckOK(v.o, v.cs)
  BY <1>3, <1>4, <1>6 DEF AckOK
<1>8. FlapOK(v.o, v.cs)
  BY <1>0, <1>3, <1>6 DEF FlapOK
<1>9. Telling(v, t)
  BY <1>0, <1>3, <1>6 DEF Telling, Problems
<1>10. v = AckSet(w, type, end, yes)
  BY <1>1, <1>5 DEF WorldType, AckSet
<1>11. QED
  BY <1>3, <1>4, <1>6, <1>7, <1>8, <1>9, <1>10 DEF Good

(* cs is ds with a new comment of another kind, c.                          *)
OtherComment(ds, id, c, cs) ==
    /\ id \in Nat /\ id >= ds.next
    /\ c \in Comment /\ c.id = id /\ c.entry_type # "FLAPPING"
    /\ cs \in CommentData /\ cs.next = id + 1 /\ cs.table = ds.table \cup {c}
    /\ IsFiniteSet(cs.table)

LEMMA CommentGiven ==
    ASSUME NEW ds \in CommentData, IsFiniteSet(ds.table), \A x \in ds.table : x.id < ds.next,
           NEW kind \in {"host", "service"}, NEW keep \in BOOLEAN,
           NEW entry_type \in {"USER", "ACKNOWLEDGEMENT"},
           NEW cs, cs = add_new_comment(ds, kind, entry_type, keep)
    PROVE  \E id, c : OtherComment(ds, id, c, cs) /\ c.entry_type = entry_type
<1>1. PICK id : id = get_next_comment_id(ds)
  OBVIOUS
<1>2. PICK c : c = [id |-> id, obj |-> kind, entry_type |-> entry_type, persistent |-> keep]
  OBVIOUS
<1>3. id \in Nat /\ id >= ds.next
  BY <1>1, NewId
<1>4. entry_type \in EntryTypes
  BY DEF EntryTypes
<1>5. c.id = id /\ c.entry_type = entry_type
  BY <1>2
<1>6. cs \in {add_new_host_comment(ds, kind, entry_type, keep),
              add_new_service_comment(ds, kind, entry_type, keep)}
  BY DEF add_new_comment
<1>7. /\ cs \in CommentData /\ cs.next = id + 1 /\ cs.table = ds.table \cup {c}
      /\ IsFiniteSet(cs.table) /\ c \in Comment
  <2> HIDE DEF add_new_comment
  <2>1. QED
    BY <1>1, <1>2, <1>4, <1>6, NewComment
<1>8. OtherComment(ds, id, c, cs)
  BY <1>3, <1>5, <1>7 DEF OtherComment
<1>9. QED
  BY <1>5, <1>8

LEMMA CommentAdded ==
    ASSUME NEW w \in WorldType, NEW t, Good(w, t), NEW id, NEW c, NEW cs,
           OtherComment(w.cs, id, c, cs), c.entry_type = "ACKNOWLEDGEMENT" => w.o.acknowledged
    PROVE  Keeps(w, [w EXCEPT !.cs = cs], t)
<1> USE DEF OtherComment
<1>0. /\ w.o \in Object /\ w.cs \in CommentData /\ w.sent \in Seq(Notice)
      /\ AckOK(w.o, w.cs) /\ FlapOK(w.o, w.cs) /\ Telling(w, t)
  BY DEF WorldType, Good
<1>1. w.cs.next \in Nat /\ w.cs.table \subseteq Comment
  BY <1>0 DEF CommentData
<1>2. PICK v : v = [w EXCEPT !.cs = cs]
  OBVIOUS
<1>3. v \in WorldType /\ v.o = w.o /\ v.cs = cs /\ v.sent = w.sent
  BY <1>2 DEF WorldType
<1>4. AckOK(v.o, v.cs)
  BY <1>0, <1>3 DEF AckOK, AckComments
<1>5. FlapOK(v.o, v.cs)
  <2>1. \A x \in w.cs.table : x.id \in Nat /\ 1 <= x.id /\ x.id < w.cs.next
    BY <1>0, <1>1 DEF FlapOK, Comment
  <2>2. w.o.flapping_comment_id \in Nat /\ w.o.flapping_comment_id < w.cs.next
    BY <1>0 DEF FlapOK, Object
  <2>3. \A x \in cs.table : x \in w.cs.table \/ x = c
    OBVIOUS
  <2>4. \A x \in cs.table : 1 <= x.id /\ x.id < cs.next
    BY <1>1, <2>1, <2>2, <2>3
  <2>5. w.o.flapping_comment_id < cs.next /\ c.id # w.o.flapping_comment_id
    BY <1>1, <2>2
  <2>6. \A x \in w.cs.table : x.entry_type = "FLAPPING" =>
            ~x.persistent /\ w.o.is_flapping /\ w.o.flapping_comment_id = x.id
    BY <1>0 DEF FlapOK
  <2>7. \A x \in w.cs.table : x.id = w.o.flapping_comment_id => x.entry_type = "FLAPPING"
    BY <1>0 DEF FlapOK
  <2>8. QED
    BY <1>3, <2>3, <2>4, <2>5, <2>6, <2>7 DEF FlapOK
<1>6. Telling(v, t)
  BY <1>0, <1>3 DEF Telling, Problems
<1>7. Keeps(w, v, t)
  BY <1>3, <1>4, <1>5, <1>6 DEF Keeps, Good, Same
<1>8. QED
  BY <1>2, <1>7

LEMMA CommentKeeps ==
    ASSUME NEW w \in WorldType, NEW t, Good(w, t), NEW keep \in BOOLEAN,
           NEW entry_type \in {"USER", "ACKNOWLEDGEMENT"},
           entry_type = "ACKNOWLEDGEMENT" => w.o.acknowledged
    PROVE  Keeps(w, [w EXCEPT !.cs = add_new_comment(@, w.o.kind, entry_type, keep)], t)
<1>0. /\ w.cs \in CommentData /\ IsFiniteSet(w.cs.table) /\ \A x \in w.cs.table : x.id < w.cs.next
  BY DEF WorldType, Good, FlapOK
<1>1. w.o.kind \in {"host", "service"}
  BY DEF WorldType, Object
<1>2. PICK cs : cs = add_new_comment(w.cs, w.o.kind, entry_type, keep)
  OBVIOUS
<1>3. \E id, c : OtherComment(w.cs, id, c, cs) /\ c.entry_type = entry_type
  BY <1>0, <1>1, <1>2, CommentGiven
<1>4. PICK id, c : OtherComment(w.cs, id, c, cs) /\ c.entry_type = entry_type
  BY <1>3
<1>5. Keeps(w, [w EXCEPT !.cs = cs], t)
  BY <1>4, CommentAdded
<1>6. QED
  BY <1>2, <1>5

(* Comments are deleted, and nothing else changes.                          *)
LEMMA DeletionKeeps ==
    ASSUME NEW w \in WorldType, NEW t, Good(w, t), NEW T, T \subseteq w.cs.table
    PROVE  Keeps(w, [w EXCEPT !.cs = [w.cs EXCEPT !.table = T]], t)
<1>0. /\ w.o \in Object /\ w.cs \in CommentData /\ w.sent \in Seq(Notice)
      /\ AckOK(w.o, w.cs) /\ FlapOK(w.o, w.cs) /\ Telling(w, t)
  BY DEF WorldType, Good
<1>1. PICK cs : cs = [w.cs EXCEPT !.table = T]
  OBVIOUS
<1>2. cs \in CommentData /\ cs.table = T /\ cs.next = w.cs.next
  BY <1>0, <1>1 DEF CommentData
<1>3. PICK v : v = [w EXCEPT !.cs = cs]
  OBVIOUS
<1>4. v \in WorldType /\ v.o = w.o /\ v.cs = cs /\ v.sent = w.sent
  BY <1>2, <1>3 DEF WorldType
<1>5. AckOK(v.o, v.cs)
  BY <1>0, <1>2, <1>4 DEF AckOK, AckComments
<1>6. FlapOK(v.o, v.cs)
  <2>1. IsFiniteSet(T)
    BY <1>0, FS_Subset DEF FlapOK
  <2>2. QED
    BY <1>0, <1>2, <1>4, <2>1 DEF FlapOK
<1>7. Telling(v, t)
  BY <1>0, <1>4 DEF Telling, Problems
<1>8. Keeps(w, v, t)
  BY <1>4, <1>5, <1>6, <1>7 DEF Keeps, Good, Same
<1>9. QED
  BY <1>1, <1>3, <1>8

-----------------------------------------------------------------------------
(* Check results.                                                           *)

(* What a result leaves of an object.                                       *)
Carried(o, p) ==
    /\ p.kind = o.kind /\ p.notified_on = o.notified_on /\ p.number = o.number
    /\ p.is_flapping = o.is_flapping /\ p.flapping_comment_id = o.flapping_comment_id

(* p is what is left of o by a result with state st, of which c and k are   *)
(* whether it is acknowledged and how.                                      *)
Resulted(o, p, st, c, k) ==
    /\ p \in Object /\ Carried(o, p) /\ p.current_state = st
    /\ p.acknowledged = c /\ p.ack_type = k

Truth == BOOLEAN
SoftHard == {"SOFT", "HARD"}
AckKinds == {"none", "normal", "sticky"}

LEMMA ResultFields ==
    ASSUME NEW o \in Object, NEW st \in 0..3, NEW n \in 1..MaxAttempts, NEW s \in SoftHard,
           NEW l \in 0..3, NEW a \in Truth, NEW b \in Truth, NEW c \in Truth,
           NEW k \in AckKinds
    PROVE  /\ Resulted(o, [o EXCEPT !.current_state = st, !.current_attempt = n,
                                    !.host_problem_at_last_check = a, !.state_type = s,
                                    !.last_hard_state = l, !.problem_id = b, !.acknowledged = c,
                                    !.ack_type = k], st, c, k)
           /\ Resulted(o, [o EXCEPT !.current_state = st, !.last_hard_state = l, !.state_type = s,
                                    !.current_attempt = n, !.host_problem_at_last_check = a,
                                    !.problem_id = b, !.acknowledged = c, !.ack_type = k], st, c, k)
<1> USE DEF Truth, SoftHard, AckKinds
<1>1. Resulted(o, [o EXCEPT !.current_state = st, !.current_attempt = n,
                           !.host_problem_at_last_check = a, !.state_type = s,
                           !.last_hard_state = l, !.problem_id = b, !.acknowledged = c, !.ack_type = k], st, c, k)
  <2>1. PICK q : q = [o EXCEPT !.current_state = st, !.current_attempt = n, !.host_problem_at_last_check = a, !.state_type = s]
    OBVIOUS
  <2>2. q \in Object
    BY <2>1, ZenonT(30) DEF Object
  <2>a. [q EXCEPT !.last_hard_state = l, !.problem_id = b, !.acknowledged = c, !.ack_type = k] \in Object
    BY <2>2 DEF Object
  <2>3. PICK p : p = [q EXCEPT !.last_hard_state = l, !.problem_id = b, !.acknowledged = c, !.ack_type = k]
    OBVIOUS
  <2>4. p \in Object
    BY <2>3, <2>a
  <2>5. Carried(o, p) /\ p.current_state = st
    BY <2>1, <2>2, <2>3 DEF Object, Carried
  <2>6. p.acknowledged = c /\ p.ack_type = k
    BY <2>2, <2>3 DEF Object
  <2>7. QED
    BY <2>1, <2>3, <2>4, <2>5, <2>6 DEF Resulted
<1>2. Resulted(o, [o EXCEPT !.current_state = st, !.last_hard_state = l, !.state_type = s, !.current_attempt = n,
                           !.host_problem_at_last_check = a, !.problem_id = b, !.acknowledged = c, !.ack_type = k], st, c, k)
  <2>1. PICK q : q = [o EXCEPT !.current_state = st, !.last_hard_state = l, !.state_type = s, !.current_attempt = n]
    OBVIOUS
  <2>2. q \in Object
    BY <2>1 DEF Object
  <2>a. [q EXCEPT !.host_problem_at_last_check = a, !.problem_id = b, !.acknowledged = c, !.ack_type = k] \in Object
    BY <2>2, ZenonT(30) DEF Object
  <2>3. PICK p : p = [q EXCEPT !.host_problem_at_last_check = a, !.problem_id = b, !.acknowledged = c, !.ack_type = k]
    OBVIOUS
  <2>4. p \in Object
    BY <2>3, <2>a
  <2>5. Carried(o, p) /\ p.current_state = st
    BY <2>1, <2>2, <2>3 DEF Object, Carried
  <2>6. p.acknowledged = c /\ p.ack_type = k
    BY <2>2, <2>3 DEF Object
  <2>7. QED
    BY <2>1, <2>3, <2>4, <2>5, <2>6 DEF Resulted
<1>3. QED
  BY <1>1, <1>2

LEMMA OkResultType ==
    ASSUME NEW o \in Object
    PROVE  Resulted(o, OkResult(o), 0, FALSE, "none")
<1>1. PICK b : b = IF o.current_state # STATE_OK THEN FALSE ELSE o.problem_id
  OBVIOUS
<1>2. b \in Truth /\ FALSE \in Truth
  <2>1. o.problem_id \in BOOLEAN
    BY DEF Object
  <2>2. QED
    BY <1>1, <2>1 DEF Truth
<1>3. 1 \in 1..MaxAttempts /\ 0 \in 0..3 /\ "HARD" \in SoftHard /\ "none" \in AckKinds
  BY AlertsAssumption DEF SoftHard, AckKinds
<1>4. OkResult(o) =
        [o EXCEPT !.current_state = 0, !.last_hard_state = 0, !.state_type = "HARD",
                  !.current_attempt = 1, !.host_problem_at_last_check = FALSE,
                  !.problem_id = b, !.acknowledged = FALSE, !.ack_type = "none"]
  BY <1>1 DEF OkResult, STATE_OK
<1>5. Resulted(o, [o EXCEPT !.current_state = 0, !.last_hard_state = 0, !.state_type = "HARD",
                            !.current_attempt = 1, !.host_problem_at_last_check = FALSE,
                            !.problem_id = b, !.acknowledged = FALSE, !.ack_type = "none"],
               0, FALSE, "none")
  BY <1>2, <1>3, ResultFields, Zenon
<1>6. QED
  BY <1>4, <1>5, Zenon

LEMMA AttemptType ==
    ASSUME NEW o \in Object, NEW up
    PROVE  NextAttempt(o) \in 1..MaxAttempts /\ ProblemAttempt(o, up) \in 1..MaxAttempts
<1>1. /\ MaxAttempts \in Nat /\ MaxAttempts > 0
      /\ o.current_attempt \in 1..MaxAttempts /\ o.max_attempts = MaxAttempts
  BY AlertsAssumption DEF Object
<1>2. NextAttempt(o) \in 1..MaxAttempts
  BY <1>1 DEF NextAttempt
<1>3. QED
  BY <1>1, <1>2 DEF ProblemAttempt

LEMMA ProblemResultType ==
    ASSUME NEW o \in Object, NEW st \in 0..3, NEW up \in BOOLEAN
    PROVE  Resulted(o, ProblemResult(o, st, up), st,
                    IF AckEnds(o, st) THEN FALSE ELSE o.acknowledged,
                    IF AckEnds(o, st) THEN "none" ELSE o.ack_type)
<1>0. /\ o.state_type \in {"SOFT", "HARD"} /\ o.last_hard_state \in 0..3
      /\ o.problem_id \in BOOLEAN /\ o.acknowledged \in BOOLEAN
      /\ o.ack_type \in {"none", "normal", "sticky"}
  BY DEF Object
<1>1. PICK n : n = ProblemAttempt(o, up)
  OBVIOUS
<1>2. PICK s : s = IF ~Retrying(o, up) THEN "HARD"
                   ELSE IF up THEN "SOFT"
                   ELSE IF ProblemHardChange(o, st, up) THEN "HARD" ELSE o.state_type
  OBVIOUS
<1>3. PICK l : l = IF \/ ~Retrying(o, up)
                      \/ ~up /\ ProblemHardChange(o, st, up)
                   THEN st ELSE o.last_hard_state
  OBVIOUS
<1>4. PICK a : a = ~up
  OBVIOUS
<1>5. PICK b : b = IF st # o.current_state /\ o.current_state = STATE_OK THEN TRUE ELSE o.problem_id
  OBVIOUS
<1>6. PICK c : c = IF AckEnds(o, st) THEN FALSE ELSE o.acknowledged
  OBVIOUS
<1>7. PICK k : k = IF AckEnds(o, st) THEN "none" ELSE o.ack_type
  OBVIOUS
<1>8. n \in 1..MaxAttempts /\ s \in SoftHard /\ l \in 0..3 /\ k \in AckKinds
  BY <1>0, <1>1, <1>2, <1>3, <1>7, AttemptType DEF SoftHard, AckKinds
<1>9. a \in Truth /\ b \in Truth /\ c \in Truth
  BY <1>0, <1>4, <1>5, <1>6 DEF Truth
<1>10. ProblemResult(o, st, up) =
        [o EXCEPT !.current_state = st, !.current_attempt = n,
                  !.host_problem_at_last_check = a, !.state_type = s,
                  !.last_hard_state = l, !.problem_id = b, !.acknowledged = c,
                  !.ack_type = k]
  BY <1>1, <1>2, <1>3, <1>4, <1>5, <1>6, <1>7 DEF ProblemResult
<1>11. Resulted(o, [o EXCEPT !.current_state = st, !.current_attempt = n,
                             !.host_problem_at_last_check = a, !.state_type = s,
                             !.last_hard_state = l, !.problem_id = b, !.acknowledged = c,
                             !.ack_type = k], st, c, k)
  BY <1>8, <1>9, ResultFields, Zenon
<1>12. Resulted(o, ProblemResult(o, st, up), st, c, k)
  BY <1>10, <1>11, Zenon
<1>13. QED
  BY <1>6, <1>7, <1>12, Zenon

(* The times that a result and a recovery set.                              *)
LEMMA TimesResetType ==
    ASSUME NEW q \in Object
    PROVE  Resulted(q, TimesReset(q), q.current_state, q.acknowledged, q.ack_type)
<1>1. \A b \in BOOLEAN :
        [q EXCEPT !.next_notification = 0, !.last_notification = -1, !.no_more = b] \in Object
  BY DEF Object
<1>2. TimesReset(q) \in Object
  BY <1>1 DEF TimesReset
<1>3. QED
  BY <1>2 DEF TimesReset, Object, Resulted, Carried

LEMMA TimesType ==
    ASSUME NEW o \in Object, NEW n \in Nat, NEW m \in Nat \cup {-1}
    PROVE  LET q == [o EXCEPT !.hard_age = n, !.ack_end = m]
           IN  /\ Resulted(o, q, o.current_state, o.acknowledged, o.ack_type)
               /\ Resulted(o, TimesReset(q), o.current_state, o.acknowledged, o.ack_type)
<1> DEFINE q == [o EXCEPT !.hard_age = n, !.ack_end = m]
<1>1. q \in Object
  BY DEF Object
<1>2. Resulted(o, q, o.current_state, o.acknowledged, o.ack_type)
  BY <1>1 DEF Object, Resulted, Carried
<1> HIDE DEF q
<1>3. Resulted(q, TimesReset(q), q.current_state, q.acknowledged, q.ack_type)
  BY <1>1, TimesResetType
<1>4. Resulted(o, TimesReset(q), o.current_state, o.acknowledged, o.ack_type)
  BY <1>2, <1>3 DEF Resulted, Carried
<1>5. QED
  BY <1>2, <1>4 DEF q

LEMMA RecoveredType ==
    ASSUME NEW o \in Object, NEW p, p = ServiceRecovered(o)
    PROVE  p \in Object /\ Kept(o, p) /\ p.notified_on = {}
<1>1. p \in Object
  BY DEF ServiceRecovered, Object
<1>2. QED
  BY <1>1, SMTT(30) DEF ServiceRecovered, Object, Kept

(* A step may end with v.                                                   *)
Fit(v, kind, t) == v \in WorldType /\ Good(v, t) /\ v.o.kind = kind /\ Silent(v.o)

LEMMA ServiceOkFits ==
    ASSUME NEW w \in WorldType, NEW t, Good(w, t), NEW hard, NEW mod
    PROVE  Fit(ServiceOk(w, hard, mod), w.o.kind, t)
<1>1. PICK f : f = check_for_service_flapping(w, env, mod)
  OBVIOUS
<1>2. Keeps(w, f, t)
  BY <1>1, FlappingKeeps
<1>3. f \in WorldType /\ Good(f, t) /\ f.o.kind = w.o.kind
  BY <1>2 DEF Keeps, Same
<1>4. PICK n : n = service_notification(f, env, "NORMAL", {}, mod)
  OBVIOUS
<1>5. Keeps(f, n, t)
  BY <1>3, <1>4, PlainTypes, ServiceNoticeKeeps
<1>6. n \in WorldType /\ Good(n, t) /\ n.o.kind = w.o.kind
  BY <1>3, <1>5 DEF Keeps, Same
<1>7. PICK w1 : w1 = IF hard THEN n ELSE w
  OBVIOUS
<1>8. w1 \in WorldType /\ Good(w1, t) /\ w1.o \in Object /\ w1.o.kind = w.o.kind
  <2>1. w1 \in WorldType /\ Good(w1, t) /\ w1.o.kind = w.o.kind
    BY <1>6, <1>7
  <2>2. QED
    BY <2>1 DEF WorldType
<1>9. PICK p : p = ServiceRecovered(w1.o)
  OBVIOUS
<1>10. p \in Object /\ Kept(w1.o, p) /\ p.notified_on = {}
  BY <1>8, <1>9, RecoveredType
<1>11. PICK w2 : w2 = [w1 EXCEPT !.o = p]
  OBVIOUS
<1>12. w2 \in WorldType /\ Good(w2, t) /\ w2.o = p
  BY <1>8, <1>10, <1>11, OtherFields
<1>13. Fit(w2, w.o.kind, t)
  BY <1>8, <1>10, <1>12 DEF Fit, Silent, Kept
<1>14. Keeps(w2, check_for_service_flapping(w2, env, mod), t)
  BY <1>12, FlappingKeeps
<1>15. Fit(check_for_service_flapping(w2, env, mod), w.o.kind, t)
  BY <1>13, <1>14 DEF Fit, Keeps, Same
<1>16. ServiceOk(w, hard, mod) \in {w2, check_for_service_flapping(w2, env, mod)}
  BY <1>1, <1>4, <1>7, <1>9, <1>11 DEF ServiceOk
<1>17. QED
  BY <1>13, <1>15, <1>16

LEMMA ServiceProblemFits ==
    ASSUME NEW w \in WorldType, NEW t, Good(w, t), w.o.current_state # 0,
           NEW retry, NEW quiet, NEW mod
    PROVE  Fit(ServiceProblem(w, retry, quiet, mod), w.o.kind, t)
<1>1. PICK f : f = check_for_service_flapping(w, env, mod)
  OBVIOUS
<1>2. Keeps(w, f, t)
  BY <1>1, FlappingKeeps
<1>3. f \in WorldType /\ Good(f, t)
  BY <1>2 DEF Keeps
<1>4. PICK n : n = service_notification(f, env, "NORMAL", {}, mod)
  OBVIOUS
<1>5. Keeps(f, n, t)
  BY <1>3, <1>4, PlainTypes, ServiceNoticeKeeps
<1>6. Fit(f, w.o.kind, t) /\ Fit(n, w.o.kind, t)
  BY <1>2, <1>5 DEF Fit, Keeps, Same, Silent
<1>7. ServiceProblem(w, retry, quiet, mod) \in {f, n}
  BY <1>1, <1>4 DEF ServiceProblem
<1>8. QED
  BY <1>6, <1>7

(* The comments of an acknowledgement go when it ends.                      *)
LEMMA ServiceAckKept ==
    ASSUME NEW o \in Object, NEW cs \in CommentData, AckOK(o, cs), NEW st, NEW p, NEW ds,
           p.kind = o.kind, p.current_state = st,
           p.acknowledged = (IF st = 0 \/ AckEnds(o, st) THEN FALSE ELSE o.acknowledged),
           p.ack_type = (IF st = 0 \/ AckEnds(o, st) THEN "none" ELSE o.ack_type),
           ds = IF AckCommentsGo(o, st) THEN delete_acknowledgement_comments(cs, o.kind) ELSE cs
    PROVE  AckOK(p, ds)
<1>1. CASE AckCommentsGo(o, st)
  <2>1. st = 0 \/ AckEnds(o, st)
    BY <1>1 DEF AckCommentsGo, AckEnds, STATE_OK
  <2>2. ~p.acknowledged
    BY <2>1
  <2>3. ds = delete_acknowledgement_comments(cs, p.kind)
    BY <1>1
  <2>4. QED
    BY <2>2, <2>3, AckGone
<1>2. CASE ~AckCommentsGo(o, st) /\ ~o.acknowledged
  <2>1. ~p.acknowledged
    BY <1>2
  <2>2. QED
    BY <1>2, <2>1 DEF AckOK
<1>3. CASE ~AckCommentsGo(o, st) /\ o.acknowledged
  <2>1. o.current_state # 0 /\ o.ack_type \in {"normal", "sticky"}
    BY <1>3 DEF AckOK
  <2>2. st # 0
    BY <1>3, <2>1 DEF AckCommentsGo, STATE_OK
  <2>3. ~AckEnds(o, st)
    BY <1>3, <2>2 DEF AckCommentsGo, AckEnds, STATE_OK
  <2>4. p.acknowledged = o.acknowledged /\ p.ack_type = o.ack_type
    BY <2>2, <2>3
  <2>5. QED
    BY <1>3, <2>1, <2>2, <2>4 DEF AckOK
<1>4. QED
  BY <1>1, <1>2, <1>3

-----------------------------------------------------------------------------
(* The inductive invariant.  The last two parts are what decides recoveries:*)
(* an object without a problem has nothing that it was notified on, and of  *)
(* a problem it was notified on somebody has been told.                     *)
Inv ==
    /\ TypeOK
    /\ AckOK(obj, comments)
    /\ FlapOK(obj, comments)
    /\ Silent(obj)
    /\ ~GlobalHandler /\ obj.notified_on # {} => told # {}

(* A step that ends with some v that is in order.                           *)
Moves == \E v : Fit(v, obj.kind, told) /\ Commit(v)

RecoveriesTold ==
    \A i \in 1..Len(sent') : sent'[i].type = "NORMAL" /\ sent'[i].state = 0 => told # {}

LEMMA WorldReady ==
    ASSUME Inv
    PROVE  /\ Ready(World, told) /\ World.o = obj /\ World.cs = comments
           /\ World \in WorldType /\ Good(World, told) /\ obj \in Object
           /\ comments \in CommentData /\ env \in Env /\ expire \subseteq Nat /\ told \subseteq Contacts
<1>1. /\ obj \in Object /\ comments \in CommentData /\ env \in Env /\ told \subseteq Contacts
      /\ expire \subseteq Nat
  BY DEF Inv, TypeOK, CommentData, Env
<1>2. World.o = obj /\ World.cs = comments /\ World.sent = <<>>
  BY DEF World
<1>3. World \in WorldType
  <2>1. <<>> \in Seq(Notice)
    OBVIOUS
  <2>2. QED
    BY <1>1, <2>1 DEF World, WorldType
<1>4. Telling(World, told)
  <2>1. Len(World.sent) = 0
    BY <1>2
  <2>2. QED
    BY <1>2, <2>1 DEF Telling, Inv
<1>5. Good(World, told)
  BY <1>2, <1>4 DEF Inv, Good
<1>6. QED
  BY <1>1, <1>2, <1>3, <1>5 DEF Ready

LEMMA LastPlace ==
    ASSUME NEW n \in Nat, NEW P \in SUBSET (1..n), P # {}
    PROVE  Last(P) \in P
<1> DEFINE T == {n - i : i \in P}
<1>1. T \in SUBSET Nat /\ T # {}
  <2>1. \A i \in P : n - i \in Nat
    <3>1. \A i \in 1..n : n - i \in Nat
      OBVIOUS
    <3>2. QED
      BY <3>1
  <2>2. T \subseteq Nat
    BY <2>1
  <2>3. T # {}
    OBVIOUS
  <2>4. QED
    BY <2>2, <2>3
<1>2. PICK k \in T : \A j \in T : k <= j
  BY <1>1, LeastNatural
<1>3. PICK i \in P : k = n - i
  BY <1>2
<1>4. \A j \in P : n - j \in T
  OBVIOUS
<1>5. \A j \in P : j <= i
  BY <1>2, <1>3, <1>4
<1>6. \E x \in P : \A j \in P : j <= x
  BY <1>5
<1>7. QED
  BY <1>6 DEF Last

LEMMA CommitKeeps ==
    ASSUME Inv, Moves, env' \in Env, expire' \subseteq Nat
    PROVE  Inv' /\ (~GlobalHandler => RecoveriesTold)
<1>1. PICK v : Fit(v, obj.kind, told) /\ Commit(v)
  BY DEF Moves
<1>2. /\ v \in WorldType /\ AckOK(v.o, v.cs) /\ FlapOK(v.o, v.cs) /\ Telling(v, told)
      /\ v.o.kind = obj.kind /\ Silent(v.o)
  BY <1>1 DEF Fit, Good
<1>3. v.o \in Object /\ v.cs \in CommentData /\ v.sent \in Seq(Notice)
  BY <1>2 DEF WorldType
<1>4. obj' = v.o /\ comments' = v.cs /\ sent' = v.sent /\ scene' = scene
  BY <1>1 DEF Commit
<1>5. told' = IF v.o.current_state = 0 THEN {}
              ELSE IF Problems(v) # {} THEN v.sent[Last(Problems(v))].to ELSE told
  BY <1>1 DEF Commit
<1>6. /\ told \subseteq Contacts /\ scene \in Scenarios /\ obj.kind = scene.kind
      /\ told_under \subseteq Escalations /\ env.escalations_on \subseteq Escalations
  BY DEF Inv, TypeOK
<1>7. Len(v.sent) \in Nat
  BY <1>3
<1>8. Problems(v) \in SUBSET (1..Len(v.sent))
  BY DEF Problems
<1>9. Problems(v) # {} => Last(Problems(v)) \in 1..Len(v.sent)
  BY <1>7, <1>8, LastPlace
<1>10. \A i \in 1..Len(v.sent) : v.sent[i] \in Notice
  BY <1>3
<1>11. Problems(v) # {} => v.sent[Last(Problems(v))].to \subseteq Contacts
  BY <1>9, <1>10 DEF Notice
<1>12. told' \subseteq Contacts /\ told_under' \subseteq Escalations
  <2>1. told_under' \in {Escalations, env.escalations_on, told_under}
    BY <1>1 DEF Commit
  <2>2. QED
    BY <1>5, <1>6, <1>11, <2>1
<1>13. TypeOK'
  BY <1>2, <1>3, <1>4, <1>6, <1>12 DEF TypeOK, CommentData, Env
<1>14. AckOK(obj, comments)' /\ FlapOK(obj, comments)' /\ Silent(obj)'
  BY <1>2, <1>4 DEF AckOK, FlapOK, Silent, AckComments
<1>15. ASSUME ~GlobalHandler, v.o.notified_on # {}
       PROVE  told' # {}
  <2>1. v.o.current_state # 0
    BY <1>2, <1>15 DEF Silent
  <2>2. told # {} \/ Problems(v) # {}
    BY <1>2, <1>15 DEF Telling
  <2>3. Problems(v) # {} => v.sent[Last(Problems(v))].to # {}
    BY <1>2, <1>9, <1>15 DEF Telling
  <2>4. QED
    BY <1>5, <2>1, <2>2, <2>3
<1>16. Inv'
  BY <1>4, <1>13, <1>14, <1>15 DEF Inv
<1>17. ~GlobalHandler => RecoveriesTold
  BY <1>2, <1>4 DEF Telling, RecoveriesTold
<1>18. QED
  BY <1>16, <1>17

-----------------------------------------------------------------------------
(* The actions, one by one.                                                 *)

(* The object and its comments once a result with state st is recorded.     *)
ServiceWorld(st) ==
    LET changed == st # obj.current_state \/ HardChange(obj, st)
        hard == IF st = STATE_OK THEN HardChange(obj, st)
                ELSE ProblemHardChange(obj, st, env.host_up)
        after == StateAfter(obj, st, env.host_up)
        n == IF hard THEN 0 ELSE after.hard_age
        m == IF after.acknowledged THEN after.ack_end ELSE -1
        o1 == [after EXCEPT !.hard_age = n, !.ack_end = m]
        o2 == IF changed THEN TimesReset(o1) ELSE o1
        cs == IF AckCommentsGo(obj, st) THEN AckDropped(World).cs ELSE comments
    IN  [World EXCEPT !.o = o2, !.cs = cs]

LEMMA ServiceWorldReady ==
    ASSUME Inv, NEW st \in ServiceResults
    PROVE  /\ Ready(ServiceWorld(st), told)
           /\ Carried(obj, ServiceWorld(st).o) /\ ServiceWorld(st).o.current_state = st
<1> DEFINE changed == st # obj.current_state \/ HardChange(obj, st)
           hard == IF st = STATE_OK THEN HardChange(obj, st)
                   ELSE ProblemHardChange(obj, st, env.host_up)
           after == StateAfter(obj, st, env.host_up)
           n == IF hard THEN 0 ELSE after.hard_age
           m == IF after.acknowledged THEN after.ack_end ELSE -1
           o1 == [after EXCEPT !.hard_age = n, !.ack_end = m]
           o2 == IF changed THEN TimesReset(o1) ELSE o1
           cs == IF AckCommentsGo(obj, st) THEN AckDropped(World).cs ELSE comments
           w == [World EXCEPT !.o = o2, !.cs = cs]
           c == IF st = 0 \/ AckEnds(obj, st) THEN FALSE ELSE obj.acknowledged
           k == IF st = 0 \/ AckEnds(obj, st) THEN "none" ELSE obj.ack_type
<1>1. /\ Ready(World, told) /\ World.o = obj /\ World.cs = comments
      /\ obj \in Object /\ comments \in CommentData /\ env.host_up \in BOOLEAN
  BY WorldReady DEF Env
<1>2. st \in 0..3
  BY AlertsAssumption DEF States
<1>4. Resulted(obj, after, st, c, k)
  <2>1. CASE st = 0
    <3>1. Resulted(obj, OkResult(obj), 0, FALSE, "none")
      BY <1>1, OkResultType
    <3>2. QED
      BY <2>1, <3>1 DEF StateAfter, STATE_OK
  <2>2. CASE st # 0
    <3>1. Resulted(obj, ProblemResult(obj, st, env.host_up), st,
                   IF AckEnds(obj, st) THEN FALSE ELSE obj.acknowledged,
                   IF AckEnds(obj, st) THEN "none" ELSE obj.ack_type)
      BY <1>1, <1>2, ProblemResultType
    <3>2. QED
      BY <2>2, <3>1 DEF StateAfter, STATE_OK
  <2>3. QED
    BY <2>1, <2>2
<1> HIDE DEF after, c, k, hard, changed
<1>5. after \in Object
  BY <1>4 DEF Resulted
<1>6. n \in Nat /\ m \in Nat \cup {-1}
  BY <1>5 DEF Object
<1> HIDE DEF n, m
<1>7. /\ Resulted(after, o1, after.current_state, after.acknowledged, after.ack_type)
      /\ Resulted(after, TimesReset(o1), after.current_state, after.acknowledged, after.ack_type)
  BY <1>5, <1>6, TimesType
<1> HIDE DEF o1
<1>8. Resulted(after, o2, after.current_state, after.acknowledged, after.ack_type)
  BY <1>7
<1> HIDE DEF o2
<1>9. Resulted(obj, o2, st, c, k)
  BY <1>4, <1>8 DEF Resulted, Carried
<1>10. cs = IF AckCommentsGo(obj, st) THEN delete_acknowledgement_comments(comments, obj.kind)
            ELSE comments
  BY DEF AckDropped, World
<1> HIDE DEF cs
<1>11. AckOK(o2, cs)
  <2>1. AckOK(obj, comments)
    BY DEF Inv
  <2>2. /\ o2.kind = obj.kind /\ o2.current_state = st
        /\ o2.acknowledged = c /\ o2.ack_type = k
    BY <1>9 DEF Resulted, Carried
  <2>3. QED
    BY <1>1, <1>10, <2>1, <2>2, ServiceAckKept DEF c, k
<1>12. \E T \in SUBSET comments.table : cs = [comments EXCEPT !.table = T]
  <2>1. comments = [comments EXCEPT !.table = comments.table]
    BY <1>1 DEF CommentData
  <2>2. QED
    BY <1>10, <2>1 DEF delete_acknowledgement_comments
<1>13. Altered(obj, comments, o2, cs)
  BY <1>9, <1>11, <1>12 DEF Altered, Resulted, Carried
<1>14. w = With(World, o2, cs) /\ w = ServiceWorld(st)
  BY DEF With, ServiceWorld, n, m, o1, o2, cs, after, hard, changed
<1> HIDE DEF w
<1>15. Ready(w, told) /\ w.o = o2
  BY <1>1, <1>13, <1>14, ChangedWorld, ZenonT(30)
<1>16. QED
  BY <1>9, <1>14, <1>15 DEF Resulted

LEMMA ServiceResultMoves ==
    ASSUME Inv, NEW st \in ServiceResults, NEW flex \in BOOLEAN, NEW mod,
           ServiceResult(st, flex, mod)
    PROVE  Moves
<1>1. PICK w : w = ServiceWorld(st)
  OBVIOUS
<1>2. PICK hard : hard = IF st = STATE_OK THEN HardChange(obj, st)
                         ELSE ProblemHardChange(obj, st, env.host_up)
  OBVIOUS
<1>3. PICK quiet : quiet = (flex /\ (hard \/ st # obj.current_state))
  OBVIOUS
<1>4. PICK v : v = IF st = STATE_OK THEN ServiceOk(w, hard, mod)
                   ELSE ServiceProblem(w, Retrying(obj, env.host_up), quiet, mod)
  OBVIOUS
<1>5. Commit(v)
  BY <1>1, <1>2, <1>3, <1>4 DEF ServiceResult, ServiceWorld
<1>6. w \in WorldType /\ Good(w, told) /\ w.o.kind = obj.kind /\ w.o.current_state = st
  BY <1>1, ServiceWorldReady DEF Ready, Carried
<1>7. Fit(v, obj.kind, told)
  <2>1. CASE st = 0
    <3>1. Fit(ServiceOk(w, hard, mod), w.o.kind, told)
      BY <1>6, ServiceOkFits
    <3>2. QED
      BY <1>4, <1>6, <2>1, <3>1 DEF STATE_OK
  <2>2. CASE st # 0
    <3>1. Fit(ServiceProblem(w, Retrying(obj, env.host_up), quiet, mod), w.o.kind, told)
      BY <1>6, <2>2, ServiceProblemFits
    <3>2. QED
      BY <1>4, <1>6, <2>2, <3>1 DEF STATE_OK
  <2>3. QED
    BY <2>1, <2>2
<1>8. QED
  BY <1>5, <1>7 DEF Moves

(* What a result makes of a host: before its acknowledgement is looked at.  *)
HostCarried(o, p) ==
    /\ Carried(o, p) /\ p.acknowledged = o.acknowledged /\ p.ack_type = o.ack_type
HostGoes(o, p, st, l) ==
    p \in Object /\ HostCarried(o, p) /\ p.current_state = st /\ p.last_state = l

LEMMA HostFields ==
    ASSUME NEW o \in Object, NEW st \in 0..3, NEW l \in 0..3, NEW h \in 0..3, NEW a \in Truth,
           NEW n \in 1..MaxAttempts, NEW s \in SoftHard
    PROVE  /\ HostGoes(o, [o EXCEPT !.last_state = l, !.last_hard_state = h, !.check_active = a,
                                    !.current_attempt = n, !.state_type = s,
                                    !.current_state = st], st, l)
           /\ HostGoes(o, [o EXCEPT !.state_type = s, !.current_attempt = n, !.current_state = st],
                       st, o.last_state)
           /\ HostGoes(o, [o EXCEPT !.state_type = s], o.current_state, o.last_state)
<1> USE DEF Truth, SoftHard
<1>1. HostGoes(o, [o EXCEPT !.last_state = l, !.last_hard_state = h, !.check_active = a,
                            !.current_attempt = n, !.state_type = s, !.current_state = st], st, l)
  <2>1. PICK q : q = [o EXCEPT !.last_state = l, !.last_hard_state = h, !.check_active = a]
    OBVIOUS
  <2>2. q \in Object
    BY <2>1 DEF Object
  <2>3. HostCarried(o, q) /\ q.last_state = l
    BY <2>1 DEF Object, Carried, HostCarried
  <2>4. PICK p : p = [q EXCEPT !.current_attempt = n, !.state_type = s, !.current_state = st]
    OBVIOUS
  <2>5. [q EXCEPT !.current_attempt = n, !.state_type = s, !.current_state = st] \in Object
    BY <2>2 DEF Object
  <2>6. HostCarried(q, p) /\ p.last_state = q.last_state /\ p.current_state = st
    BY <2>2, <2>4 DEF Object, Carried, HostCarried
  <2>7. HostGoes(o, p, st, l)
    BY <2>3, <2>4, <2>5, <2>6 DEF Carried, HostCarried, HostGoes
  <2>8. QED
    BY <2>1, <2>4, <2>7
<1>2. HostGoes(o, [o EXCEPT !.state_type = s, !.current_attempt = n, !.current_state = st],
               st, o.last_state)
  <2>1. [o EXCEPT !.state_type = s, !.current_attempt = n, !.current_state = st] \in Object
    BY DEF Object
  <2>2. QED
    BY <2>1 DEF Object, Carried, HostCarried, HostGoes
<1>3. HostGoes(o, [o EXCEPT !.state_type = s], o.current_state, o.last_state)
  <2>1. [o EXCEPT !.state_type = s] \in Object
    BY DEF Object
  <2>2. HostCarried(o, [o EXCEPT !.state_type = s])
    BY DEF Object, Carried, HostCarried
  <2>3. /\ [o EXCEPT !.state_type = s].current_state = o.current_state
        /\ [o EXCEPT !.state_type = s].last_state = o.last_state
    BY DEF Object
  <2>4. QED
    BY <2>1, <2>2, <2>3 DEF HostGoes
<1>4. QED
  BY <1>1, <1>2, <1>3

LEMMA PostCheckType ==
    ASSUME NEW o \in Object, NEW r \in HostResults
    PROVE  LET p == update_host_state_post_check(o, r)
           IN  /\ p \in Object /\ HostCarried(o, p) /\ p.last_state = o.current_state
               /\ p.current_state \in 0..3
<1>0. /\ o.state_type \in SoftHard /\ o.last_hard_state \in 0..3 /\ o.current_state \in 0..3
      /\ o.current_attempt \in 1..MaxAttempts /\ o.max_attempts = MaxAttempts
      /\ MaxAttempts \in Nat \ {0}
  BY AlertsAssumption DEF Object, SoftHard
<1>1. r.active \in Truth /\ HostResultState(r) \in 0..3
  <2>1. r.active \in BOOLEAN /\ (~r.active => r.return_code \in 0..2)
    BY AlertsAssumption DEF HostStateValues
  <2>2. HostResultState(r) \in 0..3
    BY <2>1 DEF HostResultState, STATE_UP, STATE_DOWN
  <2>3. QED
    BY <2>1, <2>2 DEF Truth
<1>2. PICK st : st = HostResultState(r)
  OBVIOUS
<1>3. PICK n : n = IF r.active \/ PassiveSoft
                   THEN adjust_host_check_attempt(o, r.active) ELSE o.current_attempt
  OBVIOUS
<1>4. n \in 1..MaxAttempts
  BY <1>0, <1>3 DEF adjust_host_check_attempt
<1>5. PICK h : h = IF o.state_type = "HARD" THEN o.current_state ELSE o.last_hard_state
  OBVIOUS
<1>6. PICK s : s = IF \/ ~r.active /\ ~PassiveSoft
                      \/ n >= o.max_attempts
                   THEN "HARD" ELSE o.state_type
  OBVIOUS
<1>7. h \in 0..3 /\ s \in SoftHard
  BY <1>0, <1>5, <1>6 DEF SoftHard
<1>8. PICK a, l : a = r.active /\ l = o.current_state
  OBVIOUS
<1>9. update_host_state_post_check(o, r) =
        [o EXCEPT !.last_state = l, !.last_hard_state = h, !.check_active = a,
                  !.current_attempt = n, !.state_type = s, !.current_state = st]
  BY <1>2, <1>3, <1>5, <1>6, <1>8 DEF update_host_state_post_check
<1>10. st \in 0..3 /\ l \in 0..3 /\ a \in Truth
  BY <1>0, <1>1, <1>2, <1>8
<1>11. HostGoes(o, [o EXCEPT !.last_state = l, !.last_hard_state = h, !.check_active = a,
                             !.current_attempt = n, !.state_type = s, !.current_state = st], st, l)
  BY <1>4, <1>7, <1>10, HostFields, Zenon
<1>12. HostGoes(o, update_host_state_post_check(o, r), st, l)
  BY <1>9, <1>11, Zenon
<1>13. QED
  BY <1>8, <1>10, <1>12 DEF HostGoes

LEMMA ReachType ==
    ASSUME NEW noParents, NEW parentUp
    PROVE  determine_host_reachability(noParents, parentUp) \in 1..2
BY DEF determine_host_reachability, STATE_DOWN, STATE_UNREACHABLE

(* The state of the parents does not turn a problem into none.              *)
LEMMA DeterminedType ==
    ASSUME NEW o \in Object, NEW before, NEW reach \in 1..2
    PROVE  LET p == HostDetermined(o, before, reach)
           IN  /\ p \in Object /\ HostCarried(o, p) /\ p.last_state = o.last_state
               /\ p.current_state = 0 <=> o.current_state = 0
<1>0. /\ o.state_type \in SoftHard /\ o.current_state \in 0..3 /\ o.last_state \in 0..3
      /\ o.current_attempt \in 1..MaxAttempts /\ 1 \in 1..MaxAttempts
  BY AlertsAssumption DEF Object, SoftHard
<1>2. PICK p : p = HostDetermined(o, before, reach)
  OBVIOUS
<1>3. CASE o.current_state = 0
  <2>1. PICK s \in SoftHard : p = [o EXCEPT !.state_type = s]
    BY <1>2, <1>3 DEF HostDetermined, RecoveredHost, STATE_UP, SoftHard
  <2>2. HostGoes(o, [o EXCEPT !.state_type = s], o.current_state, o.last_state)
    <3>1. TRUE \in Truth
      BY DEF Truth
    <3>2. QED
      BY <1>0, <3>1, HostFields, Zenon
  <2>3. QED
    BY <1>2, <1>3, <2>1, <2>2 DEF HostGoes
<1>4. CASE o.current_state # 0
  <2>1. PICK n : n = IF MayBeSoft(o) THEN o.current_attempt ELSE 1
    OBVIOUS
  <2>2. PICK st : st = IF Translated(o) THEN reach ELSE o.current_state
    OBVIOUS
  <2>3. n \in 1..MaxAttempts /\ st \in 0..3 /\ st # 0
    BY <1>0, <1>4, <2>1, <2>2
  <2>4. PICK s \in SoftHard :
          p = [o EXCEPT !.state_type = s, !.current_attempt = n, !.current_state = st]
    <3>1. CASE before # STATE_UP
      BY <1>2, <1>4, <2>1, <2>2, <3>1 DEF HostDetermined, StillNotUp, STATE_UP, SoftHard
    <3>2. CASE before = STATE_UP
      BY <1>2, <1>4, <2>1, <2>2, <3>2 DEF HostDetermined, WentDown, STATE_UP, SoftHard
    <3>3. QED
      BY <3>1, <3>2
  <2>5. HostGoes(o, [o EXCEPT !.state_type = s, !.current_attempt = n, !.current_state = st],
                 st, o.last_state)
    <3>1. TRUE \in Truth
      BY DEF Truth
    <3>2. QED
      BY <1>0, <2>3, <3>1, HostFields, Zenon
  <2>6. HostGoes(o, p, st, o.last_state)
    BY <2>4, <2>5, Zenon
  <2>7. QED
    BY <1>2, <1>4, <2>3, <2>6 DEF HostGoes
<1>5. QED
  BY <1>3, <1>4

LEMMA AckDroppedType ==
    ASSUME NEW o \in Object, NEW no \in BOOLEAN, ~no, NEW p,
           p = [o EXCEPT !.acknowledged = no, !.ack_type = "none", !.ack_end = -1]
    PROVE  p \in Object /\ Carried(o, p) /\ p.current_state = o.current_state /\ ~p.acknowledged
<1>1. p \in Object
  BY DEF Object
<1>2. Carried(o, p) /\ p.current_state = o.current_state
  BY DEF Object, Carried
<1>3. ~p.acknowledged
  BY DEF Object
<1>4. QED
  BY <1>1, <1>2, <1>3

(* A host that recovers has changed, unless it was UP before.               *)
HostMayGo(o, h) ==
    /\ h \in Object /\ HostCarried(o, h)
    /\ h.current_state = 0 /\ h.acknowledged => h.last_state # 0
    /\ h.current_state = 0 /\ h.last_state = 0 => h.notified_on = {}

(* The acknowledgement of a host ends with the problem.                     *)
LEMMA HostAckKept ==
    ASSUME NEW o, NEW cs \in CommentData, AckOK(o, cs), NEW h, HostMayGo(o, h), NEW p, NEW ds,
           p.kind = h.kind, p.current_state = h.current_state,
           HostAckEnds(h) => ~p.acknowledged,
           ~HostAckEnds(h) => p.acknowledged = h.acknowledged /\ p.ack_type = h.ack_type,
           ds = IF HostAckEnds(h) THEN delete_acknowledgement_comments(cs, h.kind) ELSE cs
    PROVE  AckOK(p, ds)
<1>1. CASE HostAckEnds(h)
  <2>1. ds = delete_acknowledgement_comments(cs, p.kind) /\ ~p.acknowledged
    BY <1>1
  <2>2. QED
    BY <2>1, AckGone
<1>2. CASE ~HostAckEnds(h)
  <2>1. /\ p.kind = o.kind /\ p.acknowledged = o.acknowledged /\ p.ack_type = o.ack_type
        /\ h.ack_type = o.ack_type /\ h.acknowledged = o.acknowledged
    BY <1>2 DEF HostMayGo, HostCarried, Carried
  <2>2. ASSUME p.acknowledged, p.current_state = 0
        PROVE  FALSE
    <3>1. h.last_state # 0 /\ h.current_state = 0
      BY <2>1, <2>2 DEF HostMayGo
    <3>2. h.ack_type \in {"normal", "sticky"}
      BY <2>1, <2>2 DEF AckOK
    <3>3. HostStateChange(h)
      BY <3>1 DEF HostStateChange
    <3>4. HostAckEnds(h)
      BY <3>1, <3>2, <3>3 DEF HostAckEnds, HostChanged, STATE_UP
    <3>5. QED
      BY <1>2, <3>4
  <2>3. p.acknowledged => p.current_state # 0 /\ p.ack_type \in {"normal", "sticky"}
    BY <2>1, <2>2 DEF AckOK
  <2>4. QED
    BY <1>2, <2>1, <2>3 DEF AckOK
<1>3. QED
  BY <1>1, <1>2

LEMMA HostLater ==
    ASSUME NEW o \in Object, NEW p,
           \/ p = [o EXCEPT !.hard_age = 0]
           \/ p = HostHandled(o)
           \/ p = HostRecovered(o)
    PROVE  /\ p \in Object /\ Kept(o, p)
           /\ p.notified_on = {} \/ (p.notified_on = o.notified_on /\ p.number = o.number)
<1>1. CASE p = [o EXCEPT !.hard_age = 0]
  BY <1>1 DEF Object, Kept
<1>2. CASE p = HostHandled(o)
  <2>1. 1 \in 1..MaxAttempts
    BY AlertsAssumption
  <2>2. [o EXCEPT !.current_attempt = 1] \in Object
    BY <2>1 DEF Object
  <2>3. p \in Object
    BY <1>2, <2>2 DEF HostHandled
  <2>4. QED
    BY <1>2, <2>3 DEF HostHandled, Object, Kept
<1>3. CASE p = HostRecovered(o)
  <2>1. p \in Object
    BY <1>3 DEF Object, HostRecovered
  <2>2. p.notified_on = {}
    BY <1>3 DEF Object, HostRecovered
  <2>3. Kept(o, p)
    BY <1>3, <2>1 DEF Object, HostRecovered, Kept
  <2>4. QED
    BY <2>1, <2>2, <2>3
<1>4. QED
  BY <1>1, <1>2, <1>3

(* The first half of handle_host_state: the times and the acknowledgement.  *)
AckHandled(w, h) ==
    LET w1 == IF HostChanged(h) THEN [w EXCEPT !.o = TimesReset(@)] ELSE w
    IN  IF HostAckEnds(h) THEN AckDropped(w1) ELSE w1

LEMMA HostAckHandled ==
    ASSUME NEW W, NEW t, Ready(W, t), NEW h, HostMayGo(W.o, h)
    PROVE  LET v == AckHandled([W EXCEPT !.o = h], h)
           IN  /\ Ready(v, t) /\ v.o.kind = W.o.kind /\ v.o.current_state = h.current_state
               /\ v.o.notified_on = h.notified_on /\ v.o.number = h.number
<1>a. PICK w : w = [W EXCEPT !.o = h]
  OBVIOUS
<1>b. PICK w1 : w1 = IF HostChanged(h) THEN [w EXCEPT !.o = TimesReset(@)] ELSE w
  OBVIOUS
<1>c. PICK w2 : w2 = IF HostAckEnds(h) THEN AckDropped(w1) ELSE w1
  OBVIOUS
<1>d. AckHandled([W EXCEPT !.o = h], h) = w2
  BY <1>a, <1>b, <1>c DEF AckHandled
<1>0. W \in WorldType /\ W.cs \in CommentData /\ AckOK(W.o, W.cs) /\ h \in Object
  BY DEF Ready, WorldType, Good, HostMayGo
<1>1. PICK h1 : h1 = IF HostChanged(h) THEN TimesReset(h) ELSE h
  OBVIOUS
<1>2. Resulted(h, h1, h.current_state, h.acknowledged, h.ack_type)
  <2>1. Resulted(h, TimesReset(h), h.current_state, h.acknowledged, h.ack_type)
    BY <1>0, TimesResetType
  <2>2. Resulted(h, h, h.current_state, h.acknowledged, h.ack_type)
    BY <1>0 DEF Resulted, Carried
  <2>3. QED
    BY <1>1, <2>1, <2>2
<1>3. h1 \in Object /\ h1.kind = h.kind
  BY <1>2 DEF Resulted, Carried
<1>4. PICK d : d = [h1 EXCEPT !.acknowledged = FALSE, !.ack_type = "none", !.ack_end = -1]
  OBVIOUS
<1>5. d \in Object /\ Carried(h1, d) /\ d.current_state = h1.current_state /\ ~d.acknowledged
  <2>1. FALSE \in BOOLEAN /\ ~FALSE
    OBVIOUS
  <2>2. QED
    BY <1>3, <1>4, <2>1, AckDroppedType, Zenon
<1>6. PICK p : p = IF HostAckEnds(h) THEN d ELSE h1
  OBVIOUS
<1>7. PICK cs : cs = IF HostAckEnds(h) THEN delete_acknowledgement_comments(W.cs, h.kind) ELSE W.cs
  OBVIOUS
<1>8. w1 = [W EXCEPT !.o = h1]
  BY <1>0, <1>1, <1>a, <1>b DEF WorldType
<1>9. w1.o = h1 /\ w1.cs = W.cs /\ w1 \in WorldType
  BY <1>0, <1>3, <1>8 DEF WorldType
<1>10. w2 = With(W, p, cs)
  <2>1. CASE HostAckEnds(h)
    <3>1. w2 = AckDropped(w1) /\ p = d /\ cs = delete_acknowledgement_comments(W.cs, h.kind)
      BY <1>6, <1>7, <1>c, <2>1
    <3>2. AckDropped(w1) = [w1 EXCEPT !.o = d, !.cs = cs]
      BY <1>3, <1>4, <1>9, <3>1 DEF AckDropped, WorldType
    <3>3. QED
      BY <1>0, <1>8, <3>1, <3>2 DEF With, WorldType
  <2>2. CASE ~HostAckEnds(h)
    <3>1. w2 = w1 /\ p = h1 /\ cs = W.cs
      BY <1>6, <1>7, <1>c, <2>2
    <3>2. QED
      BY <1>0, <1>8, <3>1 DEF With, WorldType
  <2>3. QED
    BY <2>1, <2>2
<1>11. /\ p \in Object /\ Carried(h, p) /\ p.current_state = h.current_state
       /\ HostAckEnds(h) => ~p.acknowledged
       /\ ~HostAckEnds(h) => p.acknowledged = h.acknowledged /\ p.ack_type = h.ack_type
  BY <1>2, <1>5, <1>6 DEF Resulted, Carried
<1>12. AckOK(p, cs)
  BY <1>0, <1>7, <1>11, HostAckKept DEF Carried
<1>13. \E T \in SUBSET W.cs.table : cs = [W.cs EXCEPT !.table = T]
  <2>1. W.cs = [W.cs EXCEPT !.table = W.cs.table]
    BY <1>0 DEF CommentData
  <2>2. QED
    BY <1>7, <2>1 DEF delete_acknowledgement_comments
<1>14. Altered(W.o, W.cs, p, cs)
  BY <1>11, <1>12, <1>13 DEF Altered, Carried, HostMayGo, HostCarried
<1>15. Ready(With(W, p, cs), t) /\ With(W, p, cs).o = p
  BY <1>14, ChangedWorld
<1>16. QED
  BY <1>10, <1>11, <1>15, <1>d DEF HostMayGo, HostCarried, Carried

LEMMA HostStateFits ==
    ASSUME NEW W, NEW t, Ready(W, t), NEW h, HostMayGo(W.o, h), NEW flex, NEW mod
    PROVE  Fit(handle_host_state([W EXCEPT !.o = h], flex, mod), W.o.kind, t)
<1>1. PICK w : w = [W EXCEPT !.o = h]
  OBVIOUS
<1>2. PICK w1 : w1 = IF HostChanged(h) THEN [w EXCEPT !.o = TimesReset(@)] ELSE w
  OBVIOUS
<1>3. PICK w2 : w2 = IF HostAckEnds(h) THEN AckDropped(w1) ELSE w1
  OBVIOUS
<1>4. /\ Ready(w2, t) /\ w2.o.kind = W.o.kind /\ w2.o.current_state = h.current_state
      /\ w2.o.notified_on = h.notified_on
  <2>1. w2 = AckHandled([W EXCEPT !.o = h], h)
    BY <1>1, <1>2, <1>3 DEF AckHandled
  <2>2. QED
    BY <2>1, HostAckHandled
<1>5. w2 \in WorldType /\ Good(w2, t) /\ w2.o \in Object
  BY <1>4 DEF Ready, WorldType
<1>6. PICK w3 : w3 = IF HostTold(h) /\ h.state_type = "HARD" THEN [w2 EXCEPT !.o.hard_age = 0] ELSE w2
  OBVIOUS
<1>7. Keeps(w2, w3, t)
  <2>1. PICK p : p = [w2.o EXCEPT !.hard_age = 0]
    OBVIOUS
  <2>2. p \in Object /\ Kept(w2.o, p) /\ p.notified_on = w2.o.notified_on
    BY <1>5, <2>1 DEF Object, Kept
  <2>3. Keeps(w2, [w2 EXCEPT !.o = p], t)
    BY <1>5, <2>2, FieldsKeep
  <2>4. Keeps(w2, w2, t)
    BY <1>5, KeepsStill
  <2>5. QED
    BY <1>6, <2>1, <2>3, <2>4
<1>8. w3 \in WorldType /\ Good(w3, t)
  BY <1>7 DEF Keeps
<1>9. PICK w4 : w4 = IF /\ h.state_type = "HARD"
                        /\ IF HostTold(h) THEN ~flex ELSE h.current_state # STATE_UP
                     THEN host_notification(w3, env, "NORMAL", {}, mod) ELSE w3
  OBVIOUS
<1>10. Keeps(w3, w4, t)
  <2>1. Keeps(w3, host_notification(w3, env, "NORMAL", {}, mod), t)
    BY <1>8, PlainTypes, HostNoticeKeeps
  <2>2. Keeps(w3, w3, t)
    BY <1>8, KeepsStill
  <2>3. QED
    BY <1>9, <2>1, <2>2
<1>11. w4 \in WorldType /\ Good(w4, t) /\ w4.o \in Object
  BY <1>10 DEF Keeps, WorldType
<1>12. PICK q : q = HostHandled(w4.o)
  OBVIOUS
<1>13. q \in Object /\ Kept(w4.o, q) /\ q.notified_on \in {{}, w4.o.notified_on}
  BY <1>11, <1>12, HostLater
<1>14. PICK w5 : w5 = [w4 EXCEPT !.o = q]
  OBVIOUS
<1>15. w5 \in WorldType /\ Good(w5, t) /\ w5.o = q /\ w5.o \in Object
  BY <1>11, <1>13, <1>14, OtherFields
<1>16. PICK r : r = HostRecovered(w5.o)
  OBVIOUS
<1>17. r \in Object /\ Kept(w5.o, r) /\ r.notified_on = {}
  <2>1. r \in Object /\ Kept(w5.o, r) /\ r.notified_on \in {{}, w5.o.notified_on}
    BY <1>15, <1>16, HostLater
  <2>2. r.notified_on = {}
    BY <1>15, <1>16 DEF HostRecovered, Object
  <2>3. QED
    BY <2>1, <2>2
<1>18. PICK w6 : w6 = [w5 EXCEPT !.o = r]
  OBVIOUS
<1>19. w6 \in WorldType /\ Good(w6, t) /\ w6.o = r
  BY <1>15, <1>17, <1>18, OtherFields
<1>20. handle_host_state([W EXCEPT !.o = h], flex, mod) =
         IF HostTold(h) /\ h.current_state = STATE_UP THEN w6 ELSE w5
  <2>1. w.o = h
    BY <1>1 DEF Ready, WorldType
  <2>2. handle_host_state(w, flex, mod) =
          IF HostTold(h) /\ h.current_state = STATE_UP THEN w6 ELSE w5
    BY <1>2, <1>3, <1>6, <1>9, <1>12, <1>14, <1>16, <1>18, <2>1 DEF handle_host_state
  <2>3. QED
    BY <1>1, <2>2
<1>21. Same(w2.o, w4.o) /\ (Silent(w2.o) => Silent(w4.o))
  BY <1>7, <1>10 DEF Keeps, Same
<1>22. w5.o.kind = W.o.kind /\ w6.o.kind = W.o.kind /\ w5.o.current_state = h.current_state
  BY <1>4, <1>13, <1>15, <1>17, <1>19, <1>21 DEF Same, Kept
<1>23. Fit(w6, W.o.kind, t)
  BY <1>17, <1>19, <1>22 DEF Fit, Silent
<1>24. ~(HostTold(h) /\ h.current_state = STATE_UP) => Silent(w5.o)
  <2>1. h.current_state = 0 /\ ~HostTold(h) => h.notified_on = {}
    BY DEF HostMayGo, HostTold, HostStateChange
  <2>2. h.current_state = 0 /\ ~HostTold(h) => Silent(w2.o)
    BY <1>4, <2>1 DEF Silent
  <2>3. Silent(w4.o) => Silent(w5.o)
    BY <1>13, <1>15 DEF Silent, Kept
  <2>4. QED
    BY <1>21, <1>22, <2>2, <2>3 DEF Silent, STATE_UP
<1>25. QED
  BY <1>15, <1>20, <1>22, <1>23, <1>24 DEF Fit

LEMMA HostMayGoes ==
    ASSUME Inv, NEW r \in HostResults, NEW discarded \in BOOLEAN, NEW parentUp \in BOOLEAN,
           NEW posted, posted = (IF discarded THEN obj ELSE update_host_state_post_check(obj, r)),
           NEW h, h = HostDetermined(posted, obj.current_state,
                                     determine_host_reachability(FALSE, parentUp))
    PROVE  HostMayGo(obj, h)
<1>1. obj \in Object /\ Silent(obj) /\ AckOK(obj, comments)
  BY WorldReady DEF Inv
<1>2. PICK reach : reach = determine_host_reachability(FALSE, parentUp)
  OBVIOUS
<1>3. reach \in 1..2
  BY <1>2, ReachType
<1>4. /\ posted \in Object /\ HostCarried(obj, posted)
      /\ IF discarded THEN posted = obj ELSE posted.last_state = obj.current_state
  <2>1. HostCarried(obj, obj)
    BY DEF HostCarried, Carried
  <2>2. LET p == update_host_state_post_check(obj, r)
        IN  p \in Object /\ HostCarried(obj, p) /\ p.last_state = obj.current_state
    BY <1>1, PostCheckType
  <2>3. QED
    BY <1>1, <2>1, <2>2
<1>5. /\ h \in Object /\ HostCarried(posted, h) /\ h.last_state = posted.last_state
      /\ h.current_state = 0 <=> posted.current_state = 0
  BY <1>2, <1>3, <1>4, DeterminedType
<1>6. QED
  <2>1. HostCarried(obj, h)
    BY <1>4, <1>5 DEF HostCarried, Carried
  <2>2. h.acknowledged => obj.current_state # 0
    BY <1>1, <2>1 DEF AckOK, HostCarried
  <2>3. obj.current_state = 0 => h.notified_on = {}
    BY <1>1, <2>1 DEF Silent, HostCarried, Carried
  <2>4. h.current_state = 0 /\ h.acknowledged => h.last_state # 0
    BY <1>4, <1>5, <2>2
  <2>5. h.current_state = 0 /\ h.last_state = 0 => h.notified_on = {}
    BY <1>4, <1>5, <2>3
  <2>6. QED
    BY <1>5, <2>1, <2>4, <2>5 DEF HostMayGo

LEMMA HostResultMoves ==
    ASSUME Inv, NEW r \in HostResults, NEW discarded \in BOOLEAN, NEW parentUp \in BOOLEAN,
           NEW flex \in BOOLEAN, NEW mod, HostResult(r, discarded, parentUp, flex, mod)
    PROVE  Moves
<1>1. Ready(World, told) /\ World.o = obj
  BY WorldReady
<1>2. PICK posted : posted = IF discarded THEN obj ELSE update_host_state_post_check(obj, r)
  OBVIOUS
<1>3. PICK h : h = HostDetermined(posted, obj.current_state,
                                  determine_host_reachability(FALSE, parentUp))
  OBVIOUS
<1>4. HostMayGo(obj, h)
  BY <1>2, <1>3, HostMayGoes
<1>5. PICK w : w = handle_host_state([World EXCEPT !.o = h], flex, mod)
  OBVIOUS
<1>6. Fit(w, obj.kind, told)
  BY <1>1, <1>4, <1>5, HostStateFits
<1>7. PICK v : v = check_for_host_flapping(w, env, mod)
  OBVIOUS
<1>8. Keeps(w, v, told)
  BY <1>6, <1>7, FlappingKeeps DEF Fit
<1>9. Fit(v, obj.kind, told)
  BY <1>6, <1>8 DEF Fit, Keeps, Same
<1>10. Commit(v)
  BY <1>2, <1>3, <1>5, <1>7 DEF HostResult
<1>11. QED
  BY <1>9, <1>10 DEF Moves

LEMMA KeepsFit ==
    ASSUME Inv, NEW v, Keeps(World, v, told)
    PROVE  Fit(v, obj.kind, told)
<1>1. World.o = obj /\ Silent(obj)
  BY WorldReady DEF Inv
<1>2. QED
  BY <1>1 DEF Fit, Keeps, Same

LEMMA KeepsMoves ==
    ASSUME Inv, NEW v, Keeps(World, v, told), Commit(v)
    PROVE  Moves
BY KeepsFit DEF Moves

LEMMA NoticeKeeps ==
    ASSUME NEW w \in WorldType, NEW t, Good(w, t), NEW e, NEW mod,
           NEW type \in NotificationTypes, NEW options, type = "NORMAL" => "FORCED" \notin options
    PROVE  Keeps(w, notification(w, e, type, options, mod), t)
<1>1. /\ Keeps(w, service_notification(w, e, type, options, mod), t)
      /\ Keeps(w, host_notification(w, e, type, options, mod), t)
  BY ServiceNoticeKeeps, HostNoticeKeeps
<1>2. QED
  BY <1>1 DEF notification

LEMMA ServiceResultOfHostMoves ==
    ASSUME Inv, NEW renotifies \in BOOLEAN, NEW mod, ServiceResultOfHost(renotifies, mod)
    PROVE  Moves
<1>0. World \in WorldType /\ Good(World, told)
  BY WorldReady
<1>1. PICK w : w = IF renotifies THEN host_notification(World, env, "NORMAL", {}, mod) ELSE World
  OBVIOUS
<1>2. Keeps(World, w, told)
  <2>1. Keeps(World, host_notification(World, env, "NORMAL", {}, mod), told)
    BY <1>0, PlainTypes, HostNoticeKeeps
  <2>2. Keeps(World, World, told)
    BY <1>0, KeepsStill
  <2>3. QED
    BY <1>1, <2>1, <2>2
<1>3. PICK v : v = check_for_host_flapping(w, env, mod)
  OBVIOUS
<1>4. Keeps(w, v, told)
  BY <1>2, <1>3, FlappingKeeps DEF Keeps
<1>5. Keeps(World, v, told)
  BY <1>2, <1>4, KeepsThrough
<1>6. Commit(v)
  BY <1>1, <1>3 DEF ServiceResultOfHost
<1>7. QED
  BY <1>5, <1>6, KeepsMoves

LEMMA AcknowledgeMoves ==
    ASSUME Inv, NEW type \in {"normal", "sticky"}, NEW notify \in BOOLEAN, NEW persistent \in BOOLEAN,
           NEW end \in AckTimes \cup {-1}, NEW mod, acknowledge_problem(type, notify, persistent, end, mod)
    PROVE  Moves
<1>0. World \in WorldType /\ Good(World, told) /\ World.o = obj /\ obj.current_state # 0
  BY WorldReady DEF acknowledge_problem
<1>1. PICK w1 : w1 = IF notify THEN notification(World, env, "ACKNOWLEDGEMENT", {}, mod) ELSE World
  OBVIOUS
<1>2. Keeps(World, w1, told)
  <2>1. "ACKNOWLEDGEMENT" \in NotificationTypes /\ "FORCED" \notin {}
    BY PlainTypes
  <2>2. Keeps(World, notification(World, env, "ACKNOWLEDGEMENT", {}, mod), told)
    BY <1>0, <2>1, NoticeKeeps, Zenon
  <2>3. Keeps(World, World, told)
    BY <1>0, KeepsStill
  <2>4. QED
    BY <1>1, <2>2, <2>3
<1>3. /\ w1 \in WorldType /\ Good(w1, told) /\ w1.o.kind = obj.kind /\ w1.o.current_state # 0
  BY <1>0, <1>2 DEF Keeps, Same
<1>4. PICK w2 : w2 = [w1 EXCEPT !.o.acknowledged = TRUE, !.o.ack_type = type, !.o.ack_end = end]
  OBVIOUS
<1>5. /\ w2 \in WorldType /\ Good(w2, told) /\ w2.o.acknowledged
      /\ w2.o.kind = obj.kind /\ w2.o.current_state # 0
  <2>1. PICK yes : yes = TRUE
    OBVIOUS
  <2>2. yes \in BOOLEAN /\ yes
    BY <2>1
  <2>3. end \in Nat \cup {-1}
    BY AlertsAssumption
  <2>4. w2 = AckSet(w1, type, end, yes)
    BY <1>4, <2>1 DEF AckSet
  <2>5. QED
    BY <1>3, <2>2, <2>3, <2>4, AckSetKeeps, ZenonT(30)
<1>6. PICK v : v = [w2 EXCEPT !.cs = add_new_comment(@, w2.o.kind, "ACKNOWLEDGEMENT", persistent)]
  OBVIOUS
<1>7. Keeps(w2, v, told)
  BY <1>5, <1>6, CommentKeeps
<1>8. Fit(v, obj.kind, told)
  BY <1>5, <1>7 DEF Keeps, Same, Fit, Silent
<1>9. Commit(v)
  BY <1>1, <1>4, <1>5, <1>6 DEF acknowledge_problem
<1>10. QED
  BY <1>8, <1>9 DEF Moves

LEMMA RemoveAckMoves ==
    ASSUME Inv, remove_acknowledgement \/ handle_acknowledgement_expire_event
    PROVE  Moves
<1>0. Ready(World, told) /\ World.o = obj /\ Silent(obj)
  BY WorldReady DEF Inv
<1>1. PICK v : v = AckRemoved(World)
  OBVIOUS
<1>2. v \in WorldType /\ Good(v, told) /\ v.o.kind = World.o.kind /\ (Silent(World.o) => Silent(v.o))
  BY <1>0, <1>1, AckRemovedKeeps
<1>3. Fit(v, obj.kind, told)
  BY <1>0, <1>2 DEF Fit
<1>4. Fit(World, obj.kind, told)
  BY <1>0 DEF Fit, Ready
<1>5. Commit(v) \/ Commit(World)
  BY <1>1 DEF remove_acknowledgement, handle_acknowledgement_expire_event
<1>6. QED
  BY <1>3, <1>4, <1>5 DEF Moves

LEMMA NoticeMoves ==
    ASSUME Inv, NEW mod, NEW options,
           \/ SendCustomNotification(options, mod)
           \/ DowntimeStarts(mod)
           \/ DowntimeEnds(mod)
    PROVE  Moves
<1>0. World \in WorldType /\ Good(World, told) /\ World.o = obj /\ obj \in Object
  BY WorldReady
<1>1. ASSUME NEW w \in WorldType, Good(w, told), NEW n \in Nat
      PROVE  Keeps(w, [w EXCEPT !.o.depth = n], told)
  <2>1. w.o \in Object
    BY DEF WorldType
  <2>2. PICK p : p = [w.o EXCEPT !.depth = n]
    OBVIOUS
  <2>3. p \in Object /\ Kept(w.o, p) /\ p.notified_on = w.o.notified_on
    BY <2>1, <2>2 DEF Object, Kept
  <2>4. Keeps(w, [w EXCEPT !.o = p], told)
    BY <1>1, <2>3, FieldsKeep
  <2>5. QED
    BY <2>2, <2>4
<1>2. CASE SendCustomNotification(options, mod)
  <2>1. PICK v : v = notification(World, env, "CUSTOM", options, mod)
    OBVIOUS
  <2>2. "CUSTOM" \in NotificationTypes /\ "CUSTOM" # "NORMAL"
    BY PlainTypes
  <2>3. Keeps(World, v, told)
    BY <1>0, <2>1, <2>2, NoticeKeeps
  <2>4. Commit(v)
    BY <1>2, <2>1 DEF SendCustomNotification
  <2>5. QED
    BY <2>3, <2>4, KeepsMoves
<1>3. CASE DowntimeStarts(mod)
  <2>1. PICK w : w = notification(World, env, "DOWNTIMESTART", {}, mod)
    OBVIOUS
  <2>2. "DOWNTIMESTART" \in NotificationTypes /\ "DOWNTIMESTART" # "NORMAL"
    BY PlainTypes
  <2>3. Keeps(World, w, told)
    BY <1>0, <2>1, <2>2, NoticeKeeps
  <2>4. PICK v : v = [w EXCEPT !.o.depth = 1]
    OBVIOUS
  <2>5. Keeps(w, v, told)
    BY <1>1, <2>3, <2>4 DEF Keeps
  <2>6. Keeps(World, v, told)
    BY <2>3, <2>5, KeepsThrough
  <2>7. Commit(v)
    BY <1>3, <2>1, <2>4 DEF DowntimeStarts
  <2>8. QED
    BY <2>6, <2>7, KeepsMoves
<1>4. CASE DowntimeEnds(mod)
  <2>1. PICK w : w = [World EXCEPT !.o.depth = 0]
    OBVIOUS
  <2>2. Keeps(World, w, told)
    BY <1>0, <1>1, <2>1
  <2>3. PICK v : v = notification(w, env, "DOWNTIMEEND", {}, mod)
    OBVIOUS
  <2>4. "DOWNTIMEEND" \in NotificationTypes /\ "DOWNTIMEEND" # "NORMAL"
    BY PlainTypes
  <2>5. w \in WorldType /\ Good(w, told)
    BY <2>2 DEF Keeps
  <2>6. Keeps(w, v, told)
    BY <2>3, <2>4, <2>5, NoticeKeeps
  <2>7. Keeps(World, v, told)
    BY <2>2, <2>6, KeepsThrough
  <2>8. Commit(v)
    BY <1>4, <2>1, <2>3 DEF DowntimeEnds
  <2>9. QED
    BY <2>7, <2>8, KeepsMoves
<1>5. QED
  BY <1>2, <1>3, <1>4

LEMMA FieldMoves ==
    ASSUME Inv, NEW d \in 0..1,
           DelayNotification(d) \/ set_notification_number(d) \/ SwitchNotifications
    PROVE  Moves
<1>0. World \in WorldType /\ Good(World, told) /\ World.o = obj /\ obj \in Object
  BY WorldReady
<1>1. ASSUME NEW p \in Object, Kept(obj, p), p.notified_on = obj.notified_on,
             Commit([World EXCEPT !.o = p])
      PROVE  Moves
  <2>1. PICK v : v = [World EXCEPT !.o = p]
    OBVIOUS
  <2>2. Keeps(World, v, told)
    BY <1>0, <1>1, <2>1, FieldsKeep
  <2>3. QED
    BY <1>1, <2>1, <2>2, KeepsMoves
<1>2. CASE DelayNotification(d)
  <2>1. PICK p : p = [obj EXCEPT !.next_notification = d]
    OBVIOUS
  <2>2. p \in Object
    BY <1>0, <2>1, SMTT(30) DEF Object
  <2>3. Kept(obj, p) /\ p.notified_on = obj.notified_on
    BY <1>0, <2>1 DEF Object, Kept
  <2>4. QED
    BY <1>0, <1>1, <1>2, <2>1, <2>2, <2>3 DEF DelayNotification
<1>3. CASE set_notification_number(d)
  <2>1. PICK p : p = [obj EXCEPT !.number = d]
    OBVIOUS
  <2>2. p \in Object
    BY <1>0, <2>1, SMTT(30) DEF Object
  <2>3. Kept(obj, p) /\ p.notified_on = obj.notified_on
    BY <1>0, <2>1 DEF Object, Kept
  <2>4. QED
    BY <1>0, <1>1, <1>3, <2>1, <2>2, <2>3 DEF set_notification_number
<1>4. CASE SwitchNotifications
  <2>1. PICK b : b = ~obj.notifications_enabled
    OBVIOUS
  <2>2. b \in BOOLEAN
    BY <2>1
  <2>3. PICK v : v = [World EXCEPT !.o.notifications_enabled = b]
    OBVIOUS
  <2>4. Keeps(World, v, told)
    BY <1>0, <2>2, <2>3, SwitchKeeps, Zenon
  <2>5. Commit(v)
    BY <1>0, <1>4, <2>1, <2>3 DEF SwitchNotifications
  <2>6. QED
    BY <2>4, <2>5, KeepsMoves
<1>5. QED
  BY <1>2, <1>3, <1>4

LEMMA FlapMoves ==
    ASSUME Inv, NEW late, NEW mod,
           SwitchFlapDetection(late, mod) \/ SwitchAllFlapDetection(late, mod)
    PROVE  Moves
<1>0. World \in WorldType /\ Good(World, told) /\ World.o = obj /\ obj \in Object
  BY WorldReady
<1>1. CASE SwitchFlapDetection(late, mod)
  <2>1. obj.kind \in {"host", "service"}
    BY <1>0 DEF Object
  <2>2. PICK v : /\ Commit(v)
                 /\ v \in {disable_host_flap_detection(World, env, mod),
                           enable_host_flap_detection(World, env, mod, late),
                           disable_service_flap_detection(World, env, mod),
                           enable_service_flap_detection(World)}
    BY <1>1, <2>1 DEF SwitchFlapDetection
  <2>3. Keeps(World, v, told)
    BY <1>0, <2>2, FlapSwitchKeeps
  <2>4. QED
    BY <2>2, <2>3, KeepsMoves
<1>2. CASE SwitchAllFlapDetection(late, mod)
  <2>1. PICK e : e = [env EXCEPT !.enable_flap_detection = ~@]
    OBVIOUS
  <2>2. PICK v : /\ Commit(v)
                 /\ v \in {disable_flap_detection_routines(World, e, mod),
                           enable_flap_detection_routines(World, e, mod, late)}
    BY <1>2, <2>1 DEF SwitchAllFlapDetection
  <2>3. Keeps(World, v, told)
    BY <1>0, <2>2, FlapSwitchKeeps
  <2>4. QED
    BY <2>2, <2>3, KeepsMoves
<1>3. QED
  BY <1>1, <1>2

LEMMA CommentMoves ==
    ASSUME Inv, NEW persistent \in BOOLEAN, NEW id,
           AddComment(persistent) \/ DeleteComment(id) \/ DeleteAllComments
    PROVE  Moves
<1>0. /\ World \in WorldType /\ Good(World, told) /\ World.o = obj /\ World.cs = comments
      /\ comments \in CommentData
  BY WorldReady
<1>1. CASE AddComment(persistent)
  <2>1. PICK v : v = [World EXCEPT !.cs = add_new_comment(@, World.o.kind, "USER", persistent)]
    OBVIOUS
  <2>2. Keeps(World, v, told)
    BY <1>0, <2>1, CommentKeeps
  <2>3. Commit(v)
    BY <1>0, <1>1, <2>1 DEF AddComment
  <2>4. QED
    BY <2>2, <2>3, KeepsMoves
<1>2. CASE DeleteComment(id) \/ DeleteAllComments
  <2>1. PICK T : /\ T \subseteq comments.table
                 /\ Commit([World EXCEPT !.cs = [comments EXCEPT !.table = T]])
    BY <1>0, <1>2 DEF DeleteComment, DeleteAllComments, delete_comment, delete_all_comments
  <2>2. PICK v : v = [World EXCEPT !.cs = [comments EXCEPT !.table = T]]
    OBVIOUS
  <2>3. Keeps(World, v, told)
    BY <1>0, <2>1, <2>2, DeletionKeeps
  <2>4. QED
    BY <2>1, <2>2, <2>3, KeepsMoves
<1>3. QED
  BY <1>1, <1>2

(* What a restart makes of the object and its comments.                     *)
Retained(o, p) ==
    /\ p \in Object /\ p.kind = o.kind /\ p.current_state = o.current_state
    /\ p.is_flapping = o.is_flapping /\ p.flapping_comment_id = 0
    /\ p.notified_on \subseteq o.notified_on /\ p.number = o.number
    /\ p.acknowledged = (o.acknowledged /\ o.ack_end # 0)
    /\ p.acknowledged => p.ack_type = o.ack_type

RestoredAs(o, no, S, n, b, k, m) ==
    [o EXCEPT !.flapping_comment_id = 0, !.no_more = no, !.next_notification = 0,
              !.host_problem_at_last_check = no, !.notified_on = S, !.current_attempt = n, !.acknowledged = b,
              !.ack_type = k, !.ack_end = m]

LEMMA RestoredFields ==
    ASSUME NEW o \in Object, NEW no \in Truth, NEW S \in SUBSET o.notified_on,
           NEW n \in 1..MaxAttempts, NEW b \in Truth, NEW k \in AckKinds, NEW m \in Nat \cup {-1}
    PROVE  LET p == RestoredAs(o, no, S, n, b, k, m)
           IN  /\ p \in Object /\ p.kind = o.kind /\ p.current_state = o.current_state
               /\ p.is_flapping = o.is_flapping /\ p.flapping_comment_id = 0
               /\ p.notified_on = S /\ p.number = o.number
               /\ p.acknowledged = b /\ p.ack_type = k
<1>a. PICK p : p = RestoredAs(o, no, S, n, b, k, m)
  OBVIOUS
<1>0. S \in SUBSET (0..3)
  BY DEF Object
<1>1. PICK q : q = [o EXCEPT !.flapping_comment_id = 0, !.no_more = no, !.next_notification = 0,
                             !.host_problem_at_last_check = no, !.notified_on = S]
  OBVIOUS
<1>2. [o EXCEPT !.flapping_comment_id = 0, !.no_more = no, !.next_notification = 0,
                !.host_problem_at_last_check = no, !.notified_on = S] \in Object
  BY <1>0 DEF Object, Truth
<1>3. q \in Object
  BY <1>1, <1>2
<1>4. [q EXCEPT !.current_attempt = n, !.acknowledged = b, !.ack_type = k, !.ack_end = m] \in Object
  BY <1>3 DEF Object, Truth, AckKinds
<1>5. p = [q EXCEPT !.current_attempt = n, !.acknowledged = b, !.ack_type = k, !.ack_end = m]
  BY <1>1, <1>a DEF RestoredAs
<1>6. p \in Object
  BY <1>4, <1>5
<1>7. /\ q.kind = o.kind /\ q.current_state = o.current_state
      /\ q.is_flapping = o.is_flapping /\ q.flapping_comment_id = 0
      /\ q.notified_on = S /\ q.number = o.number
  BY <1>1 DEF Object
<1>8. /\ p.kind = q.kind /\ p.current_state = q.current_state
      /\ p.is_flapping = q.is_flapping /\ p.flapping_comment_id = q.flapping_comment_id
      /\ p.notified_on = q.notified_on /\ p.number = q.number
      /\ p.acknowledged = b /\ p.ack_type = k
  BY <1>3, <1>5 DEF Object
<1>9. QED
  BY <1>6, <1>7, <1>8, <1>a

LEMMA RestoredType ==
    ASSUME NEW o \in Object
    PROVE  Retained(o, Restored(o))
<1>0. /\ o.current_attempt \in 1..MaxAttempts /\ o.max_attempts = MaxAttempts /\ 1 \in 1..MaxAttempts
      /\ MaxAttempts \in 1..MaxAttempts /\ o.ack_type \in AckKinds /\ o.ack_end \in Nat \cup {-1}
      /\ o.last_notification \in Nat \cup {-1}
  BY AlertsAssumption DEF Object, AckKinds
<1>1. PICK S : S = o.notified_on \ {0}
  OBVIOUS
<1>2. PICK n : n = IF o.current_state # 0 /\ o.state_type = "HARD" THEN o.max_attempts
                   ELSE IF o.kind = "host" THEN 1 ELSE o.current_attempt
  OBVIOUS
<1>3. PICK b : b = (o.acknowledged /\ o.ack_end # 0)
  OBVIOUS
<1>4. PICK k : k = IF o.acknowledged /\ o.ack_end = 0 THEN "none" ELSE o.ack_type
  OBVIOUS
<1>5. PICK m : m = IF o.acknowledged /\ o.ack_end = 0 THEN -1 ELSE o.ack_end
  OBVIOUS
<1>6. PICK no : no = FALSE
  OBVIOUS
<1>7. S \in SUBSET o.notified_on /\ n \in 1..MaxAttempts /\ k \in AckKinds /\ m \in Nat \cup {-1}
  BY <1>0, <1>1, <1>2, <1>4, <1>5 DEF AckKinds
<1>8. b \in Truth /\ no \in Truth
  BY <1>3, <1>6 DEF Truth
<1>9. PICK p : p = RestoredAs(o, no, S, n, b, k, m)
  OBVIOUS
<1>10. /\ p \in Object /\ p.kind = o.kind /\ p.current_state = o.current_state
       /\ p.is_flapping = o.is_flapping /\ p.flapping_comment_id = 0
       /\ p.notified_on = S /\ p.number = o.number /\ p.acknowledged = b /\ p.ack_type = k
  BY <1>7, <1>8, <1>9, RestoredFields
<1>11. Retained(o, p)
  BY <1>3, <1>4, <1>7, <1>10 DEF Retained
<1>12. PICK since : since = o.last_notification
  OBVIOUS
<1>13. Restored(o) = IF o.current_state # 0 /\ since >= 0
                     THEN IF o.kind = "host" THEN get_next_host_notification_time(p, env, since)
                          ELSE get_next_service_notification_time(p, env, since)
                     ELSE p
  BY <1>1, <1>2, <1>3, <1>4, <1>5, <1>6, <1>9, <1>12 DEF Restored, RestoredAs
<1>14. ASSUME since >= 0
       PROVE  /\ Retained(o, get_next_host_notification_time(p, env, since))
              /\ Retained(o, get_next_service_notification_time(p, env, since))
  <2>1. since \in Nat
    BY <1>0, <1>12, <1>14
  <2>2. PICK x, y : x = get_next_host_notification_time(p, env, since)
                    /\ y = get_next_service_notification_time(p, env, since)
    OBVIOUS
  <2>3. /\ x \in Object /\ Kept(p, x) /\ x.notified_on = p.notified_on /\ x.number = p.number
        /\ y \in Object /\ Kept(p, y) /\ y.notified_on = p.notified_on /\ y.number = p.number
    BY <1>10, <2>1, <2>2, NextTimeType
  <2>4. Retained(o, x) /\ Retained(o, y)
    BY <1>11, <2>3 DEF Retained, Kept
  <2>5. QED
    BY <2>2, <2>4
<1>15. QED
  BY <1>11, <1>13, <1>14

LEMMA RetainedMoves ==
    ASSUME NEW w, NEW t, Ready(w, t), Silent(w.o), NEW p, Retained(w.o, p),
           NEW cs, cs = RetainedComments(w.cs, p.acknowledged)
    PROVE  Fit(With(w, p, cs), w.o.kind, t)
<1>0. /\ w.o \in Object /\ w.cs \in CommentData /\ w.sent = <<>> /\ w \in WorldType
      /\ AckOK(w.o, w.cs) /\ FlapOK(w.o, w.cs) /\ Telling(w, t)
  BY DEF Ready, WorldType, Good
<1>1. w.cs.next \in Nat /\ w.cs.table \subseteq Comment
  BY <1>0 DEF CommentData
<1>2. PICK T : T = {c \in w.cs.table : CASE c.entry_type = "ACKNOWLEDGEMENT" -> p.acknowledged \/ c.persistent
                                         [] c.entry_type = "DOWNTIME" -> TRUE
                                         [] OTHER -> c.persistent}
  OBVIOUS
<1>3. cs = [w.cs EXCEPT !.table = T]
  BY <1>2 DEF RetainedComments
<1>4. T \subseteq w.cs.table /\ cs \in CommentData /\ cs.table = T /\ cs.next = w.cs.next
  BY <1>0, <1>1, <1>2, <1>3 DEF CommentData
<1>5. \A c \in T : c.entry_type = "ACKNOWLEDGEMENT" => p.acknowledged \/ c.persistent
  BY <1>2
<1>6. \A c \in T : c.entry_type = "FLAPPING" => c.persistent
  BY <1>2
<1>7. PICK v : v = With(w, p, cs)
  OBVIOUS
<1>8. v \in WorldType /\ v.o = p /\ v.cs = cs /\ v.sent = <<>>
  BY <1>0, <1>4, <1>7 DEF WorldType, With, Retained
<1>9. AckOK(p, cs)
  <2>1. AckComments(cs, p.kind) # {} => p.acknowledged
    BY <1>4, <1>5 DEF AckComments
  <2>2. p.acknowledged => w.o.acknowledged /\ p.ack_type = w.o.ack_type
    BY DEF Retained
  <2>3. QED
    BY <1>0, <2>1, <2>2 DEF AckOK, Retained
<1>10. FlapOK(p, cs)
  <2>1. IsFiniteSet(T)
    BY <1>0, <1>4, FS_Subset DEF FlapOK
  <2>2. \A c \in T : c.id \in Nat /\ 1 <= c.id /\ c.id < cs.next
    BY <1>0, <1>1, <1>4 DEF FlapOK, Comment
  <2>3. \A c \in T : c.entry_type # "FLAPPING"
    BY <1>0, <1>4, <1>6 DEF FlapOK
  <2>4. 0 < cs.next
    BY <1>0, <1>1, <1>4 DEF FlapOK, Object
  <2>5. p.flapping_comment_id = 0
    BY DEF Retained
  <2>6. QED
    BY <1>4, <2>1, <2>2, <2>3, <2>4, <2>5 DEF FlapOK
<1>11. Telling(v, t)
  <2>1. Len(v.sent) = 0 /\ Len(w.sent) = 0
    BY <1>0, <1>8
  <2>2. Problems(w) = {}
    BY <2>1 DEF Problems
  <2>3. QED
    BY <1>0, <1>8, <2>1, <2>2 DEF Telling, Retained
<1>12. Silent(p) /\ p.kind = w.o.kind
  BY DEF Silent, Retained
<1>13. QED
  BY <1>7, <1>8, <1>9, <1>10, <1>11, <1>12 DEF Fit, Good

LEMMA RestartMoves ==
    ASSUME Inv, Restart
    PROVE  Moves /\ expire' \subseteq Nat
<1>0. Ready(World, told) /\ World.o = obj /\ World.cs = comments /\ obj \in Object /\ Silent(obj)
  BY WorldReady DEF Inv
<1>1. PICK p : p = Restored(obj)
  OBVIOUS
<1>2. Retained(obj, p)
  BY <1>0, <1>1, RestoredType
<1>3. PICK cs : cs = RetainedComments(comments, p.acknowledged)
  OBVIOUS
<1>4. PICK v : v = With(World, p, cs)
  OBVIOUS
<1>5. Fit(v, obj.kind, told)
  BY <1>0, <1>2, <1>3, <1>4, RetainedMoves
<1>6. Commit(v)
  BY <1>0, <1>1, <1>3, <1>4 DEF Restart, With
<1>7. expire' = RestoredExpiry(p)
  BY <1>1 DEF Restart
<1>8. p.ack_end \in Nat \cup {-1}
  BY <1>2 DEF Retained, Object
<1>9. expire' \subseteq Nat
  BY <1>7, <1>8 DEF RestoredExpiry
<1>10. QED
  BY <1>5, <1>6, <1>9 DEF Moves

(* Steps in which nothing is sent and only env changes, or the clock.       *)
LEMMA QuietKeeps ==
    ASSUME Inv, env' \in Env, expire' \subseteq Nat, sent' = <<>>, obj' \in Object,
           Kept(obj, obj'), obj'.notified_on = obj.notified_on, UNCHANGED <<scene, comments, told, told_under>>
    PROVE  Inv' /\ RecoveriesTold
<1>1. <<>> \in Seq(Notice) /\ Len(<<>>) = 0
  OBVIOUS
<1>2. TypeOK'
  BY <1>1 DEF Inv, TypeOK, Env, Kept
<1>3. AckOK(obj, comments)' /\ FlapOK(obj, comments)' /\ Silent(obj)'
  BY DEF Inv, AckOK, FlapOK, Silent, AckComments, Kept
<1>4. RecoveriesTold
  BY <1>1 DEF RecoveriesTold
<1>5. QED
  BY <1>2, <1>3, <1>4 DEF Inv

LEMMA SwitchType ==
    ASSUME NEW e \in Env, NEW f \in Switches
    PROVE  [e EXCEPT ![f] = ~@] \in Env
<1>1. PICK b : b = ~e[f]
  OBVIOUS
<1>2. b \in BOOLEAN
  BY <1>1
<1>3. [e EXCEPT ![f] = b] \in Env
  BY <1>2 DEF Switches, Env
<1>4. QED
  BY <1>1, <1>3

LEMMA EnvKeeps ==
    ASSUME Inv, EnvChanges \/ ContactSwitched \/ EscalationPeriodTurns
    PROVE  Inv' /\ RecoveriesTold
<1>0. env \in Env /\ obj \in Object /\ expire \subseteq Nat /\ Kept(obj, obj)
  BY WorldReady DEF Kept
<1>1. CASE EnvChanges
  <2>1. scene.varies \subseteq Switches \cup Choices
    BY AlertsAssumption DEF Inv, TypeOK
  <2>2. PICK f \in Switches : env' = [env EXCEPT ![f] = ~@]
    BY <1>1, <2>1 DEF EnvChanges
  <2>3. env' \in Env
    BY <1>0, <2>2, SwitchType
  <2>4. sent' = <<>> /\ UNCHANGED <<scene, obj, comments, expire, told, told_under>>
    BY <1>1 DEF EnvChanges
  <2>5. QED
    BY <1>0, <2>3, <2>4, QuietKeeps
<1>2. CASE ContactSwitched
  <2>1. PICK c \in Contacts :
          env' = [env EXCEPT !.contacts_on = IF c \in @ THEN @ \ {c} ELSE @ \cup {c}]
    BY <1>2 DEF ContactSwitched
  <2>2. PICK S : S = IF c \in env.contacts_on THEN env.contacts_on \ {c} ELSE env.contacts_on \cup {c}
    OBVIOUS
  <2>3. S \in SUBSET Contacts
    BY <1>0, <2>2 DEF Env
  <2>4. env' = [env EXCEPT !.contacts_on = S]
    BY <2>1, <2>2
  <2>5. [env EXCEPT !.contacts_on = S] \in Env
    BY <1>0, <2>3 DEF Env
  <2>6. env' \in Env
    BY <2>4, <2>5
  <2>7. sent' = <<>> /\ UNCHANGED <<scene, obj, comments, expire, told, told_under>>
    BY <1>2 DEF ContactSwitched
  <2>8. QED
    BY <1>0, <2>6, <2>7, QuietKeeps
<1>3. CASE EscalationPeriodTurns
  <2>1. PICK x \in Escalations :
          env' = [env EXCEPT !.escalations_on = IF x \in @ THEN @ \ {x} ELSE @ \cup {x}]
    BY <1>3 DEF EscalationPeriodTurns
  <2>2. PICK S : S = IF x \in env.escalations_on THEN env.escalations_on \ {x}
                     ELSE env.escalations_on \cup {x}
    OBVIOUS
  <2>3. S \in SUBSET Escalations
    BY <1>0, <2>2 DEF Env
  <2>4. env' = [env EXCEPT !.escalations_on = S]
    BY <2>1, <2>2
  <2>5. [env EXCEPT !.escalations_on = S] \in Env
    BY <1>0, <2>3 DEF Env
  <2>6. env' \in Env
    BY <2>4, <2>5
  <2>7. sent' = <<>> /\ UNCHANGED <<scene, obj, comments, expire, told, told_under>>
    BY <1>3 DEF EscalationPeriodTurns
  <2>8. QED
    BY <1>0, <2>6, <2>7, QuietKeeps
<1>4. QED
  BY <1>1, <1>2, <1>3

Ticked(o, n, m, h, l) ==
    [o EXCEPT !.next_notification = n, !.ack_end = m, !.hard_age = h, !.last_notification = l]

LEMMA TickFields ==
    ASSUME NEW o \in Object, NEW n \in Nat, NEW m \in Nat \cup {-1}, NEW h \in Nat,
           NEW l \in Nat \cup {-1}
    PROVE  LET p == Ticked(o, n, m, h, l)
           IN  p \in Object /\ Kept(o, p) /\ p.notified_on = o.notified_on
<1>1. [o EXCEPT !.next_notification = n, !.ack_end = m, !.hard_age = h, !.last_notification = l]
          \in Object
  BY DEF Object
<1>2. PICK p : p = [o EXCEPT !.next_notification = n, !.ack_end = m, !.hard_age = h,
                             !.last_notification = l]
  OBVIOUS
<1>3. /\ p.kind = o.kind /\ p.current_state = o.current_state /\ p.notified_on = o.notified_on
      /\ p.acknowledged = o.acknowledged /\ p.ack_type = o.ack_type
      /\ p.is_flapping = o.is_flapping /\ p.flapping_comment_id = o.flapping_comment_id
  BY <1>2 DEF Object
<1>4. p \in Object /\ Kept(o, p) /\ p = Ticked(o, n, m, h, l)
  BY <1>1, <1>2, <1>3 DEF Kept, Ticked
<1>5. QED
  BY <1>3, <1>4

LEMMA TickKeeps ==
    ASSUME Inv, Tick
    PROVE  Inv' /\ RecoveriesTold
<1> DEFINE older(x) == IF x > 0 THEN x - 1 ELSE x
<1>0. env \in Env /\ obj \in Object /\ expire \subseteq Nat
  BY WorldReady
<1>1. LongestInterval \in Nat
  BY NotificationsAssumption, FS_CardinalityType DEF LongestInterval
<1>2. PICK n : n = older(obj.next_notification)
  OBVIOUS
<1>3. PICK m : m = older(obj.ack_end)
  OBVIOUS
<1>4. PICK h : h = IF obj.hard_age < FirstDelay THEN obj.hard_age + 1 ELSE obj.hard_age
  OBVIOUS
<1>5. PICK l : l = IF obj.last_notification >= 0 /\ obj.last_notification < LongestInterval
                   THEN obj.last_notification + 1 ELSE obj.last_notification
  OBVIOUS
<1>6. /\ obj.next_notification \in Nat /\ obj.ack_end \in Nat \cup {-1} /\ obj.hard_age \in Nat
      /\ obj.last_notification \in Nat \cup {-1}
  BY <1>0 DEF Object
<1>7. n \in Nat /\ m \in Nat \cup {-1} /\ h \in Nat /\ l \in Nat \cup {-1}
  BY <1>1, <1>2, <1>3, <1>4, <1>5, <1>6
<1>8. PICK p : p = Ticked(obj, n, m, h, l)
  OBVIOUS
<1>9. p \in Object /\ Kept(obj, p) /\ p.notified_on = obj.notified_on
  BY <1>0, <1>7, <1>8, TickFields, ZenonT(30)
<1>10. obj' = p
  BY <1>2, <1>3, <1>4, <1>5, <1>8 DEF Tick, Ticked
<1>11. expire' \subseteq Nat
  <2>1. expire' = {x - 1 : x \in expire} /\ 0 \notin expire
    BY DEF Tick
  <2>2. \A x \in expire : x - 1 \in Nat
    BY <1>0, <2>1
  <2>3. QED
    BY <2>1, <2>2
<1>12. sent' = <<>> /\ UNCHANGED <<scene, comments, env, told, told_under>>
  BY DEF Tick
<1>13. QED
  BY <1>0, <1>9, <1>10, <1>11, <1>12, QuietKeeps

LEMMA InitInv == Init => Inv
<1> SUFFICES ASSUME Init PROVE Inv
  OBVIOUS
<1>1. scene \in Scenarios /\ scene.kind \in {"host", "service"}
  BY AlertsAssumption DEF Init
<1>2. PICK k : k = scene.kind
  OBVIOUS
<1>3. [x \in 1..HistorySize |-> 0] \in [1..HistorySize -> 0..3]
  OBVIOUS
<1>4. PICK g : g = [x \in 1..HistorySize |-> 0]
  OBVIOUS
<1>5. g \in [1..HistorySize -> 0..3] /\ k \in {"host", "service"} /\ 1 \in 1..MaxAttempts
  BY <1>1, <1>2, <1>3, <1>4, AlertsAssumption
<1>6. obj =
         [kind |-> k, current_state |-> 0, last_state |-> 0, last_hard_state |-> 0,
          state_type |-> "HARD", current_attempt |-> 1, max_attempts |-> MaxAttempts,
          check_active |-> TRUE, host_problem_at_last_check |-> FALSE, problem_id |-> FALSE,
          acknowledged |-> FALSE, ack_type |-> "none", ack_end |-> -1,
          number |-> 0, notified_on |-> {}, next_notification |-> 0, last_notification |-> -1,
          no_more |-> FALSE, notifications_enabled |-> TRUE, depth |-> 0, hard_age |-> 0,
          is_flapping |-> FALSE, check_recovery |-> FALSE, flapping_comment_id |-> 0,
          flap_detection_enabled |-> TRUE, history |-> g]
  BY <1>2, <1>4 DEF Init
<1>7. obj \in Object
  <2>1. /\ TRUE \in BOOLEAN /\ FALSE \in BOOLEAN
    OBVIOUS
  <2>2. [kind |-> k, current_state |-> 0, last_state |-> 0, last_hard_state |-> 0,
          state_type |-> "HARD", current_attempt |-> 1, max_attempts |-> MaxAttempts,
          check_active |-> TRUE, host_problem_at_last_check |-> FALSE, problem_id |-> FALSE,
          acknowledged |-> FALSE, ack_type |-> "none", ack_end |-> -1,
          number |-> 0, notified_on |-> {}, next_notification |-> 0, last_notification |-> -1,
          no_more |-> FALSE, notifications_enabled |-> TRUE, depth |-> 0, hard_age |-> 0,
          is_flapping |-> FALSE, check_recovery |-> FALSE, flapping_comment_id |-> 0,
          flap_detection_enabled |-> TRUE, history |-> g] \in Object
    BY <1>5 DEF Object
  <2>3. QED
    BY <1>6, <2>2
<1>8. /\ obj.kind = scene.kind /\ obj.acknowledged = FALSE /\ obj.notified_on = {}
      /\ obj.flapping_comment_id = 0
  BY <1>2, <1>6
<1>9. comments.next = 1 /\ comments.table = {} /\ comments \in CommentData
  BY DEF Init, initialize_comment_data, CommentData
<1>10. env \in Env
  BY DEF Init, Environment, Env
<1>11. sent \in Seq(Notice)
  BY DEF Init
<1>12. TypeOK
  BY <1>1, <1>7, <1>8, <1>9, <1>10, <1>11 DEF TypeOK, Init, CommentData, Env
<1>13. AckComments(comments, obj.kind) = {}
  BY <1>9 DEF AckComments
<1>14. AckOK(obj, comments)
  BY <1>8, <1>13 DEF AckOK
<1>15. FlapOK(obj, comments)
  BY <1>8, <1>9, FS_EmptySet DEF FlapOK
<1>16. QED
  BY <1>8, <1>12, <1>14, <1>15 DEF Inv, Silent

LEMMA NextKeeps ==
    ASSUME Inv, Next
    PROVE  Inv' /\ (~GlobalHandler => RecoveriesTold)
<1> DEFINE Quiet == env' = env /\ expire' = expire
<1>0. env \in Env /\ expire \subseteq Nat
  BY WorldReady
<1>1. ASSUME Moves, Quiet
      PROVE  Inv' /\ (~GlobalHandler => RecoveriesTold)
  BY <1>0, <1>1, CommitKeeps
<1>2. CASE \E st \in ServiceResults, flex \in BOOLEAN, mod \in Mods : ServiceResult(st, flex, mod)
  <2>1. PICK st \in ServiceResults, flex \in BOOLEAN, mod \in Mods : ServiceResult(st, flex, mod)
    BY <1>2
  <2>2. Quiet
    BY <2>1 DEF ServiceResult
  <2>3. QED
    BY <1>1, <2>1, <2>2, ServiceResultMoves
<1>3. CASE \E r \in HostResults, discarded, parentUp, flex \in BOOLEAN, mod \in Mods :
             HostResult(r, discarded, parentUp, flex, mod)
  <2>1. PICK r \in HostResults, discarded, parentUp, flex \in BOOLEAN, mod \in Mods :
             HostResult(r, discarded, parentUp, flex, mod)
    BY <1>3
  <2>2. Quiet
    BY <2>1 DEF HostResult
  <2>3. QED
    BY <1>1, <2>1, <2>2, HostResultMoves
<1>4. CASE \E renotifies \in BOOLEAN, mod \in Mods : ServiceResultOfHost(renotifies, mod)
  BY <1>1, <1>4, ServiceResultOfHostMoves DEF ServiceResultOfHost
<1>5. CASE \E type \in {"normal", "sticky"}, notify, persistent \in BOOLEAN,
              end \in AckTimes \cup {-1}, mod \in Mods :
             acknowledge_problem(type, notify, persistent, end, mod)
  <2>1. PICK type \in {"normal", "sticky"}, notify, persistent \in BOOLEAN,
              end \in AckTimes \cup {-1}, mod \in Mods :
             acknowledge_problem(type, notify, persistent, end, mod)
    BY <1>5
  <2>2. Moves
    BY <2>1, AcknowledgeMoves
  <2>3. env' = env /\ expire' = IF end > 0 THEN expire \cup {end} ELSE expire
    BY <2>1 DEF acknowledge_problem
  <2>4. expire' \subseteq Nat
    BY <1>0, <2>1, <2>3, AlertsAssumption
  <2>5. QED
    BY <1>0, <2>2, <2>3, <2>4, CommitKeeps
<1>6. CASE remove_acknowledgement
  BY <1>1, <1>6, RemoveAckMoves DEF remove_acknowledgement
<1>7. CASE handle_acknowledgement_expire_event
  <2>1. env' = env /\ expire' = expire \ {0}
    BY <1>7 DEF handle_acknowledgement_expire_event
  <2>2. env' \in Env /\ expire' \subseteq Nat
    BY <1>0, <2>1
  <2>3. QED
    BY <1>7, <2>2, RemoveAckMoves, CommitKeeps
<1>8. CASE \E options \in SUBSET NotificationOptions, mod \in Mods : SendCustomNotification(options, mod)
  BY <1>1, <1>8, NoticeMoves DEF SendCustomNotification
<1>9. CASE \E d \in 0..1 : DelayNotification(d)
  BY <1>1, <1>9, FieldMoves DEF DelayNotification
<1>10. CASE \E n \in 0..1 : set_notification_number(n)
  BY <1>1, <1>10, FieldMoves DEF set_notification_number
<1>11. CASE SwitchNotifications
  <2>1. 0 \in 0..1
    OBVIOUS
  <2>2. QED
    BY <1>1, <1>11, <2>1, FieldMoves DEF SwitchNotifications
<1>12. CASE \E late \in BOOLEAN, mod \in Mods : SwitchFlapDetection(late, mod)
  BY <1>1, <1>12, FlapMoves DEF SwitchFlapDetection
<1>13. CASE \E late \in BOOLEAN, mod \in Mods : SwitchAllFlapDetection(late, mod)
  <2>1. PICK late \in BOOLEAN, mod \in Mods : SwitchAllFlapDetection(late, mod)
    BY <1>13
  <2>2. env' = [env EXCEPT !["enable_flap_detection"] = ~@] /\ expire' = expire
    BY <2>1 DEF SwitchAllFlapDetection
  <2>3. "enable_flap_detection" \in Switches
    BY DEF Switches
  <2>4. env' \in Env
    BY <1>0, <2>2, <2>3, SwitchType
  <2>5. Moves
    BY <2>1, FlapMoves
  <2>6. QED
    BY <1>0, <2>2, <2>4, <2>5, CommitKeeps
<1>14. CASE \E persistent \in BOOLEAN : AddComment(persistent)
  BY <1>1, <1>14, CommentMoves DEF AddComment
<1>15. CASE \E id \in Ids(comments) : DeleteComment(id)
  <2>1. TRUE \in BOOLEAN
    OBVIOUS
  <2>2. QED
    BY <1>1, <1>15, <2>1, CommentMoves DEF DeleteComment
<1>16. CASE DeleteAllComments
  <2>1. TRUE \in BOOLEAN
    OBVIOUS
  <2>2. QED
    BY <1>1, <1>16, <2>1, CommentMoves DEF DeleteAllComments
<1>17. CASE \E mod \in Mods : DowntimeStarts(mod)
  BY <1>1, <1>17, NoticeMoves DEF DowntimeStarts
<1>18. CASE \E mod \in Mods : DowntimeEnds(mod)
  BY <1>1, <1>18, NoticeMoves DEF DowntimeEnds
<1>19. CASE EnvChanges \/ ContactSwitched \/ EscalationPeriodTurns
  BY <1>19, EnvKeeps
<1>20. CASE Restart
  <2>1. env' = env
    BY <1>20 DEF Restart
  <2>2. QED
    BY <1>0, <1>20, <2>1, RestartMoves, CommitKeeps
<1>21. CASE Tick
  BY <1>21, TickKeeps
<1>22. QED
  BY <1>2, <1>3, <1>4, <1>5, <1>6, <1>7, <1>8, <1>9, <1>10, <1>11, <1>12, <1>13, <1>14, <1>15,
     <1>16, <1>17, <1>18, <1>19, <1>20, <1>21 DEF Next

LEMMA StutterInv == Inv /\ UNCHANGED vars => Inv'
BY DEF Inv, TypeOK, AckOK, FlapOK, Silent, vars

LEMMA InvAlways == Spec => []Inv
<1>1. Inv /\ [Next]_vars => Inv'
  BY NextKeeps, StutterInv
<1>2. QED
  BY <1>1, InitInv, PTL DEF Spec

-----------------------------------------------------------------------------
(* In every state the object, the comments and the notices have the fields  *)
(* and values of their C structures: states of a host or service are 0 to 3,*)
(* attempts never pass max_attempts, and notices go to configured contacts. *)
THEOREM TypeCorrect == Spec => []TypeOK
<1>1. Inv => TypeOK
  BY DEF Inv
<1>2. QED
  BY <1>1, InvAlways, PTL

(* The comments of an acknowledgement that are not persistent are gone once *)
(* the acknowledgement is, and no object without a problem is acknowledged, *)
(* whatever results, commands, expiries and restarts come in which order    *)
(* (AckDropped, AckRemoved, RetainedComments).                              *)
THEOREM AcknowledgementsEnd == Spec => []AcksEndWithProblems
<1>1. Inv => AcksEndWithProblems
  BY DEF Inv, AckOK, AcksEndWithProblems
<1>2. QED
  BY <1>1, InvAlways, PTL

(* The comment that flapping left is that of flapping that goes on, and the *)
(* id the object remembers is never that of somebody else's comment, so     *)
(* that clear_host_flap and clear_service_flap delete nothing but their own.*)
THEOREM FlappingCommentsAreOwned == Spec => []FlapCommentsOwned
<1>1. Inv => FlapCommentsOwned
  BY DEF Inv, FlapOK, FlapCommentsOwned, find_comment
<1>2. QED
  BY <1>1, InvAlways, PTL

(* Without a global notification handler (which hears of problems nobody    *)
(* else was told of) a recovery is sent only when contacts were told of the *)
(* problem: notified_on outlives restarts and ends with the problem.        *)
THEOREM RecoveriesFollowProblems == ~GlobalHandler => (Spec => RecoveryFollowsProblem)
<1> SUFFICES ASSUME ~GlobalHandler PROVE Spec => RecoveryFollowsProblem
  OBVIOUS
<1>1. Inv /\ [Next]_vars =>
        [\A i \in 1..Len(sent') :
            sent'[i].type = "NORMAL" /\ sent'[i].state = 0 => told # {}]_vars
  BY NextKeeps DEF RecoveriesTold
<1>2. QED
  BY <1>1, InvAlways, PTL DEF Spec, RecoveryFollowsProblem
-----------------------------------------------------------------------------
(* Recoveries go to those who were told: who is asked, whatever the state.  *)

(* The contacts that the n-th notification of a problem is for, and its     *)
(* recovery, if escalations do not tell the states apart; on are those      *)
(* whose period it is.                                                      *)
CandidatesAt(n, on) ==
    LET now == {esc \in Escalations : /\ esc.first <= n
                                      /\ esc.last = 0 \/ esc.last >= n
                                      /\ 0 \in esc.states
                                      /\ esc.timed => esc \in on}
    IN  IF now = {} THEN ContactsOf ELSE UNION {esc.contacts : esc \in now}

(* Those of them that hear of recoveries.                                   *)
Wanting(n, on) == {c \in CandidatesAt(n, on) : 0 \in ContactOptions[c].states}

(* An escalation is for the recovery if it is for the problems that are     *)
(* notified of (escalation_options, all of them unless they are given).     *)
EscalationsAlike ==
    \A esc \in Escalations, s \in 0..3 :
        s \in Options.states /\ s # 0 => (s \in esc.states <=> 0 \in esc.states)

(* Of the contacts of one notification, those that hear of recoveries hear  *)
(* of the problems that any of them hears of.                               *)
ContactsAlike ==
    \A n \in Nat, on \in SUBSET Escalations, s \in 0..3 : s \in Options.states /\ s # 0 =>
        \A c, d \in CandidatesAt(n, on) :
            s \in ContactOptions[c].states /\ 0 \in ContactOptions[d].states
                => s \in ContactOptions[d].states

Alike == ~GlobalHandler /\ EscalationsAlike /\ ContactsAlike

(* Contacts do not change their minds, and escalation periods neither begin *)
(* nor end during a step.                                                   *)
Calm(e) ==
    /\ Alike /\ e.contacts_on = Contacts
    /\ e.escalations_on = env.escalations_on /\ env.escalations_on \subseteq Escalations

LEMMA CandidatesAre ==
    ASSUME NEW o \in Object, NEW e, EscalationsAlike
    PROVE  /\ o.current_state = 0 => Candidates(o, e, {}) = CandidatesAt(o.number - 1, e.escalations_on)
           /\ o.current_state # 0 /\ o.current_state \in Options.states
                => Candidates(o, e, {}) = CandidatesAt(o.number, e.escalations_on)
<1> DEFINE valid == {x \in Escalations : is_valid_escalation(o, e, x, {})}
           now(n) == {esc \in Escalations : /\ esc.first <= n
                                            /\ esc.last = 0 \/ esc.last >= n
                                            /\ 0 \in esc.states
                                            /\ esc.timed => esc \in e.escalations_on}
<1>1. Candidates(o, e, {}) = IF valid # {} THEN UNION {esc.contacts : esc \in valid} ELSE ContactsOf
  BY DEF Candidates, should_be_escalated
<1>2. \A n : CandidatesAt(n, e.escalations_on)
               = IF now(n) = {} THEN ContactsOf ELSE UNION {esc.contacts : esc \in now(n)}
  BY DEF CandidatesAt
<1>3. ASSUME o.current_state = 0
      PROVE  Candidates(o, e, {}) = CandidatesAt(o.number - 1, e.escalations_on)
  <2>1. valid = now(o.number - 1)
    BY <1>3 DEF is_valid_escalation, EscalatedNumber
  <2> HIDE DEF valid, now
  <2>2. QED
    BY <1>1, <1>2, <2>1
<1>4. ASSUME o.current_state # 0, o.current_state \in Options.states
      PROVE  Candidates(o, e, {}) = CandidatesAt(o.number, e.escalations_on)
  <2>1. o.current_state \in 0..3
    BY DEF Object
  <2>2. \A esc \in Escalations : o.current_state \in esc.states <=> 0 \in esc.states
    BY <1>4, <2>1 DEF EscalationsAlike
  <2>3. valid = now(o.number)
    BY <1>4, <2>2 DEF is_valid_escalation, EscalatedNumber
  <2> HIDE DEF valid, now
  <2>4. QED
    BY <1>1, <1>2, <2>3
<1>5. QED
  BY <1>3, <1>4

(* What a notification of the object's state says, if anybody is reached:   *)
(* n is the count of the problem's notifications so far.                    *)
Reaches(o, reached) ==
    IF o.current_state = 0
    THEN o.notified_on # {} /\ reached \subseteq Wanting(o.number, env.escalations_on)
    ELSE Wanting(o.number + 1, env.escalations_on) \subseteq reached

(* list is whom the state of o1 goes to: o with the count raised.           *)
LEMMA ListReaches ==
    ASSUME NEW o \in Object, NEW o1, o1 = [o EXCEPT !.number = o.number + 1], NEW e, Calm(e),
           o.current_state \in Options.states, o.current_state = 0 => o.notified_on # {},
           NEW list, NEW reached, reached \subseteq list, reached # {} => reached = list,
           reached # {},
           list \subseteq Candidates(o1, e, {}),
           \A c \in list : o.current_state \in ContactOptions[c].states,
           o.current_state # 0 =>
               \A c \in Candidates(o1, e, {}) :
                   c \in e.contacts_on /\ o.current_state \in ContactOptions[c].states => c \in list
    PROVE  Reaches(o, reached)
<1>0. /\ Alike /\ e.contacts_on = Contacts
      /\ e.escalations_on = env.escalations_on /\ env.escalations_on \in SUBSET Escalations
  BY DEF Calm
<1>1. /\ o1 \in Object /\ o1.current_state = o.current_state /\ o1.number = o.number + 1
      /\ o.number \in Nat /\ o.current_state \in 0..3
  <2>1. PICK n : n = o.number + 1
    OBVIOUS
  <2>2. o.number \in Nat /\ n \in Nat /\ o.current_state \in 0..3
    BY <2>1 DEF Object
  <2>3. o1 = [o EXCEPT !.number = n]
    BY <2>1
  <2>4. o1 \in Object
    BY <2>2, <2>3, SMTT(30) DEF Object
  <2>5. o1.current_state = o.current_state /\ o1.number = n
    BY <2>3 DEF Object
  <2>6. QED
    BY <2>1, <2>2, <2>4, <2>5
<1>2. ASSUME o.current_state = 0
      PROVE  Reaches(o, reached)
  <2>1. Candidates(o1, e, {}) = CandidatesAt(o1.number - 1, env.escalations_on)
    <3>1. Candidates(o1, e, {}) = CandidatesAt(o1.number - 1, e.escalations_on)
      BY <1>0, <1>1, <1>2, CandidatesAre DEF Alike
    <3>2. QED
      BY <1>0, <3>1
  <2>2. o1.number - 1 = o.number
    BY <1>1
  <2>3. list \subseteq Wanting(o.number, env.escalations_on)
    BY <1>2, <2>1, <2>2 DEF Wanting
  <2>4. QED
    BY <1>2, <2>3 DEF Reaches
<1>3. ASSUME o.current_state # 0
      PROVE  Reaches(o, reached)
  <2>1. Candidates(o1, e, {}) = CandidatesAt(o.number + 1, env.escalations_on)
    <3>1. Candidates(o1, e, {}) = CandidatesAt(o1.number, e.escalations_on)
      BY <1>0, <1>1, <1>3, CandidatesAre DEF Alike
    <3>2. QED
      BY <1>0, <1>1, <3>1
  <2>2. PICK c \in list : c \in reached
    OBVIOUS
  <2>3. o.number + 1 \in Nat
    BY <1>1
  <2>4. c \in CandidatesAt(o.number + 1, env.escalations_on) /\ o.current_state \in ContactOptions[c].states
    BY <2>1
  <2>5. ASSUME NEW d \in Wanting(o.number + 1, env.escalations_on)
        PROVE  d \in reached
    <3>1. d \in CandidatesAt(o.number + 1, env.escalations_on) /\ 0 \in ContactOptions[d].states
      BY DEF Wanting
    <3>2. o.current_state \in ContactOptions[d].states
      BY <1>0, <1>1, <1>3, <2>3, <2>4, <3>1 DEF Alike, ContactsAlike
    <3>3. d \in Contacts
      BY <2>1, <3>1, CandidatesType
    <3>4. QED
      BY <1>0, <1>3, <2>1, <3>1, <3>2, <3>3
  <2>6. QED
    BY <1>3, <2>5 DEF Reaches
<1>4. QED
  BY <1>2, <1>3

(* The recoveries in what was sent, and who knows of the problem by then.   *)
Recovs(w) == {i \in 1..Len(w.sent) : w.sent[i].type = "NORMAL" /\ w.sent[i].state = 0}
Knowing(w, t) == IF Problems(w) # {} THEN w.sent[Last(Problems(w))].to ELSE t

(* The escalations whose period it was when they were told.                 *)
Under(w) == IF Problems(w) # {} THEN env.escalations_on ELSE told_under

(* While a step is under way, those who would hear of the recovery, were the*)
(* periods as they were, know of the problem, and once it was sent, it was  *)
(* to nobody but those in t, if the periods are as they were.               *)
Informed(w, t) ==
    /\ \A i \in 1..Len(w.sent) : w.sent[i].state = w.o.current_state
    /\ Recovs(w) = {} /\ w.o.notified_on # {} => Wanting(w.o.number, Under(w)) \subseteq Knowing(w, t)
    /\ Recovs(w) # {} /\ told_under = env.escalations_on =>
           \E i \in Recovs(w) : (\A j \in Recovs(w) : i <= j) /\ w.sent[i].to \subseteq t

(* The problem that p is of was counted as that of o was, if it was at all. *)
Alone(o, p) ==
    /\ p.current_state = o.current_state
    /\ \/ p.notified_on = {}
       \/ p.notified_on \subseteq o.notified_on /\ p.number = o.number

(* What a notification makes of w.                                          *)
Noticed(w, v, type) ==
    \/ v.sent = w.sent /\ Alone(w.o, v.o)
    \/ \E m \in Notice :
         /\ v.sent = Append(w.sent, m) /\ m.type = type /\ m.state = w.o.current_state
         /\ v.o.current_state = w.o.current_state
         /\ IF type = "NORMAL"
            THEN v.o.number = w.o.number + 1 /\ Reaches(w.o, m.to)
            ELSE Alone(w.o, v.o)

LEMMA AloneInforms ==
    ASSUME NEW w, NEW v, NEW t, Informed(w, t), v.sent = w.sent, Alone(w.o, v.o)
    PROVE  Informed(v, t)
BY DEF Informed, Alone, Recovs, Knowing, Under, Problems

LEMMA NoticedInforms ==
    ASSUME NEW w \in WorldType, NEW v, NEW t, NEW type, Noticed(w, v, type), Informed(w, t)
    PROVE  Informed(v, t)
<1>1. CASE v.sent = w.sent /\ Alone(w.o, v.o)
  BY <1>1, AloneInforms
<1>2. ASSUME NEW m \in Notice,
             v.sent = Append(w.sent, m), m.type = type, m.state = w.o.current_state,
             v.o.current_state = w.o.current_state,
             IF type = "NORMAL"
             THEN v.o.number = w.o.number + 1 /\ Reaches(w.o, m.to)
             ELSE Alone(w.o, v.o)
      PROVE  Informed(v, t)
  <2> DEFINE n == Len(w.sent) + 1
  <2>0. w.sent \in Seq(Notice) /\ Len(w.sent) \in Nat
    BY DEF WorldType
  <2>1. /\ Len(v.sent) = n /\ v.sent[n] = m
        /\ \A i \in 1..Len(w.sent) : v.sent[i] = w.sent[i]
        /\ 1..n = (1..Len(w.sent)) \cup {n} /\ n \in 1..n
    BY <1>2, <2>0
  <2>2. \A i \in 1..Len(v.sent) : v.sent[i].state = v.o.current_state
    BY <1>2, <2>1 DEF Informed
  <2>3. Problems(w) \subseteq 1..Len(w.sent) /\ Recovs(w) \subseteq 1..Len(w.sent)
    BY DEF Problems, Recovs
  <2>4. Problems(w) # {} => v.sent[Last(Problems(w))] = w.sent[Last(Problems(w))]
    BY <2>0, <2>1, <2>3, LastPlace
  <2>5. \A i \in Recovs(w) : v.sent[i] = w.sent[i]
    BY <2>1, <2>3
  <2>6. CASE type # "NORMAL"
    <3>1. Problems(v) = Problems(w) /\ Recovs(v) = Recovs(w)
      BY <1>2, <2>1, <2>6 DEF Problems, Recovs
    <3>2. Knowing(v, t) = Knowing(w, t) /\ Under(v) = Under(w)
      BY <2>4, <3>1 DEF Knowing, Under
    <3>3. Recovs(v) = {} /\ v.o.notified_on # {} => Wanting(v.o.number, Under(v)) \subseteq Knowing(v, t)
      BY <1>2, <2>6, <3>1, <3>2 DEF Informed, Alone
    <3>4. QED
      BY <2>2, <2>5, <3>1, <3>3 DEF Informed
  <2>7. CASE type = "NORMAL" /\ w.o.current_state # 0
    <3>1. Recovs(v) = {}
      BY <1>2, <2>2, <2>7 DEF Recovs
    <3>2. n \in Problems(v) /\ \A i \in Problems(v) : i \in 1..n
      BY <1>2, <2>1, <2>7 DEF Problems
    <3>3. Last(Problems(v)) = n
      <4>1. Problems(v) \in SUBSET (1..n) /\ n \in Nat
        BY <2>0, <3>2
      <4>2. \A j \in Problems(v) : j <= n
        BY <2>0, <3>2
      <4>3. \A i \in Problems(v) : (\A j \in Problems(v) : j <= i) => i = n
        BY <2>0, <3>2
      <4>4. QED
        BY <3>2, <4>2, <4>3 DEF Last
    <3>4. Knowing(v, t) = m.to /\ Under(v) = env.escalations_on
      BY <2>1, <3>2, <3>3 DEF Knowing, Under
    <3>5. Wanting(v.o.number, env.escalations_on) \subseteq m.to
      BY <1>2, <2>7 DEF Reaches
    <3>6. QED
      BY <2>2, <3>1, <3>4, <3>5 DEF Informed
  <2>8. CASE type = "NORMAL" /\ w.o.current_state = 0
    <3>1. Problems(w) = {}
      BY <2>8 DEF Informed, Problems
    <3>2. Recovs(v) = Recovs(w) \cup {n}
      BY <1>2, <2>1, <2>8 DEF Recovs
    <3>3. CASE Recovs(w) = {}
      <4>1. /\ Wanting(w.o.number, told_under) \subseteq t
            /\ m.to \subseteq Wanting(w.o.number, env.escalations_on)
        BY <1>2, <2>8, <3>1, <3>3 DEF Informed, Knowing, Under, Reaches
      <4>2. /\ Recovs(v) = {n} /\ n <= n
            /\ told_under = env.escalations_on => v.sent[n].to \subseteq t
        BY <2>0, <2>1, <3>2, <3>3, <4>1
      <4>3. QED
        BY <2>2, <4>2 DEF Informed
    <3>4. CASE Recovs(w) # {} /\ told_under = env.escalations_on
      <4>1. PICK i \in Recovs(w) : (\A j \in Recovs(w) : i <= j) /\ w.sent[i].to \subseteq t
        BY <3>4 DEF Informed
      <4>2. i <= n
        BY <2>0, <2>3
      <4>3. i \in Recovs(v) /\ (\A j \in Recovs(v) : i <= j) /\ v.sent[i].to \subseteq t
        BY <2>5, <3>2, <4>1, <4>2
      <4>4. QED
        BY <2>2, <4>3 DEF Informed
    <3>5. CASE Recovs(w) # {} /\ told_under # env.escalations_on
      BY <2>2, <3>2, <3>5 DEF Informed
    <3>6. QED
      BY <3>3, <3>4, <3>5
  <2>9. QED
    BY <2>6, <2>7, <2>8
<1>3. QED
  BY <1>1, <1>2 DEF Noticed

(* The parts that the notifications of hosts and of services have in common:*)
(* o1 is the object counted, p what becomes of it when it is not viable.    *)
Parts(w, type, mod, viable, p, o1, next, list, reached, v) ==
    /\ p \in Object /\ Kept(w.o, p) /\ p.notified_on = w.o.notified_on /\ p.number = w.o.number
    /\ o1 = Counted(w.o, type, {})
    /\ next \in Object /\ Kept(o1, next) /\ next.number = o1.number
    /\ reached \subseteq list /\ reached \subseteq Contacts
    /\ viable /\ type = "NORMAL" /\ reached # {} => Reaches(w.o, reached)
    /\ v \in WorldType
    /\ v = IF ~viable THEN [w EXCEPT !.o = p]
           ELSE IF mod = "cancel" THEN w
           ELSE [w EXCEPT !.o = Settled(w.o, o1, list, reached, type, next),
                          !.sent = IF Anyone(reached) THEN Append(@, Message(o1, type, reached))
                                   ELSE @]

LEMMA SettledNotices ==
    ASSUME ~GlobalHandler, NEW w \in WorldType, NEW type \in NotificationTypes, NEW mod,
           NEW viable, NEW p, NEW o1, NEW next, NEW list, NEW reached, NEW v,
           Parts(w, type, mod, viable, p, o1, next, list, reached, v)
    PROVE  Noticed(w, v, type)
<1> USE DEF Parts
<1>0. w.o \in Object /\ w.sent \in Seq(Notice) /\ Alone(w.o, w.o) /\ Alone(w.o, p)
  BY DEF WorldType, Alone, Kept
<1>1. CASE ~viable \/ mod = "cancel"
  <2>1. v.sent = w.sent /\ v.o \in {p, w.o}
    BY <1>1 DEF WorldType
  <2>2. QED
    BY <1>0, <2>1 DEF Noticed
<1>2. PICK q : q = Settled(w.o, o1, list, reached, type, next)
  OBVIOUS
<1>3. /\ o1.current_state = w.o.current_state /\ o1 \in Object /\ o1.number \in Nat
      /\ type # "NORMAL" => o1 = w.o
      /\ type = "NORMAL" => o1.number = w.o.number + 1
  <2>1. o1 \in Object /\ Kept(w.o, o1)
    BY <1>0, CountedType
  <2>2. type # "NORMAL" => o1 = w.o
    BY DEF Counted
  <2>3. type = "NORMAL" => o1.number = w.o.number + 1
    BY <1>0 DEF Counted, Object
  <2>4. QED
    BY <2>1, <2>2, <2>3 DEF Kept, Object
<1>4. CASE viable /\ mod # "cancel" /\ reached = {}
  <2>1. v = [w EXCEPT !.o = q, !.sent = w.sent]
    BY <1>2, <1>4 DEF Anyone
  <2>2. v.sent = w.sent /\ v.o = q
    BY <2>1 DEF WorldType
  <2>3. q = w.o
    BY <1>2, <1>3, <1>4 DEF Settled, Anyone
  <2>4. QED
    BY <1>0, <2>2, <2>3 DEF Noticed
<1>5. CASE viable /\ mod # "cancel" /\ reached # {}
  <2>1. PICK m : m = Message(o1, type, reached)
    OBVIOUS
  <2>2. v = [w EXCEPT !.o = q, !.sent = Append(w.sent, m)]
    BY <1>2, <1>5, <2>1 DEF Anyone
  <2>3. v.sent = Append(w.sent, m) /\ v.o = q
    BY <2>2 DEF WorldType
  <2>4. m.type = type /\ m.state = w.o.current_state /\ m.to = reached
    BY <1>3, <2>1 DEF Message
  <2>5. m \in Notice
    BY <1>3, <2>1 DEF Message, Notice, Object
  <2>6. CASE type # "NORMAL"
    <3>1. q = w.o
      BY <1>2, <1>3, <1>5, <2>6 DEF Settled
    <3>2. QED
      BY <1>0, <2>3, <2>4, <2>5, <2>6, <3>1 DEF Noticed
  <2>7. CASE type = "NORMAL"
    <3>1. q = [next EXCEPT !.last_notification = 0,
                           !.notified_on = next.notified_on \cup {w.o.current_state}]
      BY <1>2, <1>5, <2>7 DEF Settled, Anyone
    <3>2. q.number = next.number /\ q.current_state = next.current_state
      BY <3>1 DEF Object
    <3>3. q.number = w.o.number + 1 /\ q.current_state = w.o.current_state
      BY <1>3, <2>7, <3>2 DEF Kept
    <3>4. QED
      BY <1>5, <2>3, <2>4, <2>5, <2>7, <3>3 DEF Noticed
  <2>8. QED
    BY <2>6, <2>7
<1>6. QED
  BY <1>1, <1>4, <1>5

(* All that holds of a stage of a step.                                     *)
Sound(w, t) == w \in WorldType /\ Good(w, t) /\ Informed(w, t)

LEMMA ServiceNoticeSound ==
    ASSUME NEW w, NEW t, Sound(w, t), NEW e, Calm(e), NEW type \in NotificationTypes, NEW mod
    PROVE  Sound(service_notification(w, e, type, {}, mod), t)
<1> DEFINE o1 == Counted(w.o, type, {})
           next == get_next_service_notification_time(o1, e, 0)
           list == create_notification_list_from_service(o1, e, type, {})
           reached == {c \in list : notify_contact_of_service(c, mod)}
           viable == check_service_notification_viability(w.o, e, type, {})
           p == IF PeriodBlocked(w.o, e, type, {}) THEN Postponed(w.o) ELSE w.o
           v == service_notification(w, e, type, {}, mod)
<1>0. /\ w \in WorldType /\ w.o \in Object /\ Good(w, t) /\ Informed(w, t)
      /\ ~GlobalHandler /\ "FORCED" \notin {}
  BY DEF Sound, WorldType, Calm, Alike
<1>1. v \in WorldType /\ Good(v, t)
  <2>1. Keeps(w, v, t)
    BY <1>0, ServiceNoticeKeeps
  <2>2. QED
    BY <2>1 DEF Keeps
<1>2. o1 \in Object /\ Kept(w.o, o1)
  BY <1>0, CountedType
<1>3. next \in Object /\ Kept(o1, next) /\ next.number = o1.number
  <2> HIDE DEF o1
  <2>1. QED
    BY <1>2, NextTimeType
<1>4. p \in Object /\ Kept(w.o, p) /\ p.notified_on = w.o.notified_on /\ p.number = w.o.number
  <2>1. Postponed(w.o).number = w.o.number
    BY <1>0 DEF Postponed, Object
  <2>2. QED
    BY <1>0, <2>1, PostponedType DEF Kept
<1>5. list \subseteq Candidates(o1, e, {}) /\ reached \subseteq list /\ reached \subseteq Contacts
      /\ (reached # {} => reached = list)
  <2>1. list \subseteq Candidates(o1, e, {}) /\ Candidates(o1, e, {}) \subseteq Contacts
    BY CandidatesType DEF create_notification_list_from_service
  <2>2. reached # {} => reached = list
    BY DEF notify_contact_of_service
  <2>3. QED
    BY <2>1, <2>2
<1>6. ASSUME viable, type = "NORMAL", reached # {}
      PROVE  Reaches(w.o, reached)
  <2>1. o1 = [w.o EXCEPT !.number = w.o.number + 1]
    BY <1>6 DEF Counted
  <2>2. w.o.current_state \in Options.states /\ (w.o.current_state = 0 => w.o.notified_on # {})
    BY <1>6 DEF check_service_notification_viability, ServiceNormal, ViableAlert
  <2>3. \A c \in Candidates(o1, e, {}) :
          /\ c \in list => w.o.current_state \in ContactOptions[c].states
          /\ w.o.current_state # 0 /\ c \in e.contacts_on
                /\ w.o.current_state \in ContactOptions[c].states => c \in list
    <3>1. o1.current_state = w.o.current_state
      BY <1>2 DEF Kept
    <3>2. \A c : check_contact_service_notification_viability(o1, e, c, type, {}) <=>
                 /\ c \in e.contacts_on
                 /\ w.o.current_state \in ContactOptions[c].states
                 /\ w.o.current_state = 0 => o1.notified_on \cap ContactOptions[c].states # {}
      BY <1>6, <3>1 DEF check_contact_service_notification_viability, FlappingTypes, DowntimeTypes
    <3> HIDE DEF o1
    <3>3. QED
      BY <3>2 DEF create_notification_list_from_service
  <2> HIDE DEF o1, list, reached
  <2>4. QED
    BY <1>0, <1>5, <1>6, <2>1, <2>2, <2>3, ListReaches
<1>7. v = IF ~viable THEN [w EXCEPT !.o = p]
          ELSE IF mod = "cancel" THEN w
          ELSE [w EXCEPT !.o = Settled(w.o, o1, list, reached, type, next),
                         !.sent = IF Anyone(reached) THEN Append(@, Message(o1, type, reached))
                                  ELSE @]
  BY DEF service_notification
<1>8. Parts(w, type, mod, viable, p, o1, next, list, reached, v)
  <2>1. PICK c : c = o1
    OBVIOUS
  <2>2. c = Counted(w.o, type, {})
    BY <2>1
  <2> HIDE DEF v, viable, p, o1, list, reached, next
  <2>3. QED
    BY <1>1, <1>3, <1>4, <1>5, <1>6, <1>7, <2>1, <2>2 DEF Parts
<1> HIDE DEF v, viable, p, o1, list, reached, next
<1>9. Noticed(w, v, type)
  BY <1>0, <1>8, SettledNotices
<1>10. Informed(v, t)
  BY <1>0, <1>9, NoticedInforms
<1>11. QED
  BY <1>1, <1>10 DEF Sound, v

LEMMA HostNoticeSound ==
    ASSUME NEW w, NEW t, Sound(w, t), NEW e, Calm(e), NEW type \in NotificationTypes, NEW mod
    PROVE  Sound(host_notification(w, e, type, {}, mod), t)
<1> DEFINE o1 == Counted(w.o, type, {})
           next == get_next_host_notification_time(o1, e, 0)
           list == create_notification_list_from_host(o1, e, type, {})
           reached == {c \in list : notify_contact_of_host(c, mod)}
           viable == check_host_notification_viability(w.o, e, type, {})
           p == IF PeriodBlocked(w.o, e, type, {}) THEN Postponed(w.o) ELSE w.o
           v == host_notification(w, e, type, {}, mod)
<1>0. /\ w \in WorldType /\ w.o \in Object /\ Good(w, t) /\ Informed(w, t)
      /\ ~GlobalHandler /\ "FORCED" \notin {}
  BY DEF Sound, WorldType, Calm, Alike
<1>1. v \in WorldType /\ Good(v, t)
  <2>1. Keeps(w, v, t)
    BY <1>0, HostNoticeKeeps
  <2>2. QED
    BY <2>1 DEF Keeps
<1>2. o1 \in Object /\ Kept(w.o, o1)
  BY <1>0, CountedType
<1>3. next \in Object /\ Kept(o1, next) /\ next.number = o1.number
  <2> HIDE DEF o1
  <2>1. QED
    BY <1>2, NextTimeType
<1>4. p \in Object /\ Kept(w.o, p) /\ p.notified_on = w.o.notified_on /\ p.number = w.o.number
  <2>1. Postponed(w.o).number = w.o.number
    BY <1>0 DEF Postponed, Object
  <2>2. QED
    BY <1>0, <2>1, PostponedType DEF Kept
<1>5. list \subseteq Candidates(o1, e, {}) /\ reached \subseteq list /\ reached \subseteq Contacts
      /\ (reached # {} => reached = list)
  <2>1. list \subseteq Candidates(o1, e, {}) /\ Candidates(o1, e, {}) \subseteq Contacts
    BY CandidatesType DEF create_notification_list_from_host
  <2>2. reached # {} => reached = list
    BY DEF notify_contact_of_host
  <2>3. QED
    BY <2>1, <2>2
<1>6. ASSUME viable, type = "NORMAL", reached # {}
      PROVE  Reaches(w.o, reached)
  <2>1. o1 = [w.o EXCEPT !.number = w.o.number + 1]
    BY <1>6 DEF Counted
  <2>2. w.o.current_state \in Options.states /\ (w.o.current_state = 0 => w.o.notified_on # {})
    BY <1>6 DEF check_host_notification_viability, HostNormal, ViableAlert
  <2>3. \A c \in Candidates(o1, e, {}) :
          /\ c \in list => w.o.current_state \in ContactOptions[c].states
          /\ w.o.current_state # 0 /\ c \in e.contacts_on
                /\ w.o.current_state \in ContactOptions[c].states => c \in list
    <3>1. o1.current_state = w.o.current_state
      BY <1>2 DEF Kept
    <3>2. \A c : check_contact_host_notification_viability(o1, e, c, type, {}) <=>
                 /\ c \in e.contacts_on
                 /\ w.o.current_state \in ContactOptions[c].states
                 /\ w.o.current_state = 0 => o1.notified_on # {}
      BY <1>6, <3>1 DEF check_contact_host_notification_viability, FlappingTypes, DowntimeTypes
    <3> HIDE DEF o1
    <3>3. QED
      BY <3>2 DEF create_notification_list_from_host
  <2> HIDE DEF o1, list, reached
  <2>4. QED
    BY <1>0, <1>5, <1>6, <2>1, <2>2, <2>3, ListReaches
<1>7. v = IF ~viable THEN [w EXCEPT !.o = p]
          ELSE IF mod = "cancel" THEN w
          ELSE [w EXCEPT !.o = Settled(w.o, o1, list, reached, type, next),
                         !.sent = IF Anyone(reached) THEN Append(@, Message(o1, type, reached))
                                  ELSE @]
  BY DEF host_notification
<1>8. Parts(w, type, mod, viable, p, o1, next, list, reached, v)
  <2>1. PICK c : c = o1
    OBVIOUS
  <2>2. c = Counted(w.o, type, {})
    BY <2>1
  <2> HIDE DEF v, viable, p, o1, list, reached, next
  <2>3. QED
    BY <1>1, <1>3, <1>4, <1>5, <1>6, <1>7, <2>1, <2>2 DEF Parts
<1> HIDE DEF v, viable, p, o1, list, reached, next
<1>9. Noticed(w, v, type)
  BY <1>0, <1>8, SettledNotices
<1>10. Informed(v, t)
  BY <1>0, <1>9, NoticedInforms
<1>11. QED
  BY <1>1, <1>10 DEF Sound, v

LEMMA AloneSound ==
    ASSUME NEW w, NEW t, Sound(w, t), NEW v \in WorldType, Good(v, t), v.sent = w.sent, Alone(w.o, v.o)
    PROVE  Sound(v, t)
BY AloneInforms DEF Sound

(* Other fields of the object do not matter.                                *)
LEMMA FieldsSound ==
    ASSUME NEW w, NEW t, Sound(w, t), NEW p \in Object, Kept(w.o, p),
           p.notified_on \subseteq w.o.notified_on, Alone(w.o, p)
    PROVE  Sound([w EXCEPT !.o = p], t)
<1>1. PICK v : v = [w EXCEPT !.o = p]
  OBVIOUS
<1>2. v \in WorldType /\ Good(v, t) /\ v.o = p /\ v.sent = w.sent
  BY <1>1, OtherFields DEF Sound
<1>3. Sound(v, t)
  BY <1>2, AloneSound
<1>4. QED
  BY <1>1, <1>3

LEMMA SwitchSound ==
    ASSUME NEW w, NEW t, Sound(w, t), NEW b \in BOOLEAN
    PROVE  /\ Sound([w EXCEPT !.o.check_recovery = b], t)
           /\ Sound([w EXCEPT !.o.flap_detection_enabled = b], t)
<1>1. w.o \in Object
  BY DEF Sound, WorldType
<1>2. PICK p, q : /\ p = [w.o EXCEPT !.check_recovery = b]
                  /\ q = [w.o EXCEPT !.flap_detection_enabled = b]
  OBVIOUS
<1>3. /\ p \in Object /\ Kept(w.o, p) /\ p.notified_on = w.o.notified_on
      /\ q \in Object /\ Kept(w.o, q) /\ q.notified_on = w.o.notified_on
  BY <1>1, <1>2, BooleanFields
<1>4. p.number = w.o.number /\ q.number = w.o.number
  BY <1>1, <1>2 DEF Object
<1>5. Sound([w EXCEPT !.o = p], t) /\ Sound([w EXCEPT !.o = q], t)
  BY <1>3, <1>4, FieldsSound DEF Alone, Kept
<1>6. QED
  BY <1>2, <1>5

LEMMA SetFlapSound ==
    ASSUME NEW w, NEW t, Sound(w, t), ~w.o.is_flapping, NEW e, Calm(e), NEW mod
    PROVE  /\ Sound(set_service_flap(w, e, mod), t)
           /\ Sound(set_host_flap(w, e, mod), t)
<1>0. /\ w \in WorldType /\ Good(w, t) /\ w.o \in Object
      /\ w.cs \in CommentData /\ IsFiniteSet(w.cs.table) /\ \A x \in w.cs.table : x.id < w.cs.next
  BY DEF Sound, WorldType, Good, FlapOK
<1>1. ASSUME NEW cs, \E c : FlapComment(w.cs, get_next_comment_id(w.cs), c, cs)
      PROVE  Sound([w EXCEPT !.o = FlapBegan(@, get_next_comment_id(w.cs)), !.cs = cs], t)
  <2>1. PICK v : v = [w EXCEPT !.o = FlapBegan(@, get_next_comment_id(w.cs)), !.cs = cs]
    OBVIOUS
  <2>2. v \in WorldType /\ Good(v, t) /\ Flapped(w.o, v.o)
    BY <1>0, <1>1, <2>1, FlapBegun, Zenon
  <2>3. v.o = FlapBegan(w.o, get_next_comment_id(w.cs)) /\ v.sent = w.sent
    BY <1>0, <2>1 DEF WorldType
  <2>4. v.o.number = w.o.number
    BY <1>0, <2>3 DEF FlapBegan, Object
  <2>5. Sound(v, t)
    BY <2>2, <2>3, <2>4, AloneSound DEF Alone, Flapped, Same
  <2>6. QED
    BY <2>1, <2>5
<1>2. PICK hs, ss : /\ hs = add_new_host_comment(w.cs, "host", "FLAPPING", FALSE)
                    /\ ss = add_new_service_comment(w.cs, "service", "FLAPPING", FALSE)
  OBVIOUS
<1>3. /\ \E c : FlapComment(w.cs, get_next_comment_id(w.cs), c, hs)
      /\ \E c : FlapComment(w.cs, get_next_comment_id(w.cs), c, ss)
  <2>1. FALSE \in BOOLEAN /\ ~FALSE
    OBVIOUS
  <2>2. QED
    BY <1>0, <1>2, <2>1, FlapCommented, Zenon
<1>4. PICK h, s : /\ h = [w EXCEPT !.o = FlapBegan(@, get_next_comment_id(w.cs)), !.cs = hs]
                  /\ s = [w EXCEPT !.o = FlapBegan(@, get_next_comment_id(w.cs)), !.cs = ss]
  OBVIOUS
<1>5. Sound(h, t) /\ Sound(s, t)
  BY <1>1, <1>3, <1>4
<1>6. /\ set_host_flap(w, e, mod) = host_notification(h, e, "FLAPPINGSTART", {}, mod)
      /\ set_service_flap(w, e, mod) = service_notification(s, e, "FLAPPINGSTART", {}, mod)
  BY <1>2, <1>4 DEF set_host_flap, set_service_flap
<1>7. /\ Sound(host_notification(h, e, "FLAPPINGSTART", {}, mod), t)
      /\ Sound(service_notification(s, e, "FLAPPINGSTART", {}, mod), t)
  BY <1>5, PlainTypes, ServiceNoticeSound, HostNoticeSound
<1>8. QED
  BY <1>6, <1>7

LEMMA FlapEndedSound ==
    ASSUME NEW w, NEW t, Sound(w, t)
    PROVE  Sound(FlapEnded(w), t)
<1>0. w \in WorldType /\ Good(w, t) /\ w.o \in Object
  BY DEF Sound, WorldType
<1>1. PICK v : v = FlapEnded(w)
  OBVIOUS
<1>2. v \in WorldType /\ Good(v, t) /\ Flapped(w.o, v.o)
  BY <1>0, <1>1, FlapEndedKeeps
<1>3. v.sent = w.sent /\ v.o = [w.o EXCEPT !.is_flapping = FALSE, !.flapping_comment_id = 0]
  BY <1>0, <1>1 DEF FlapEnded, WorldType
<1>4. v.o.number = w.o.number
  BY <1>0, <1>3 DEF Object
<1>5. Sound(v, t)
  BY <1>2, <1>3, <1>4, AloneSound DEF Alone, Flapped, Same
<1>6. QED
  BY <1>1, <1>5

LEMMA FlapEndsSound ==
    ASSUME NEW w, NEW t, Sound(w, t), NEW e, Calm(e), NEW mod,
           NEW type \in {"FLAPPINGSTOP", "FLAPPINGDISABLED"}
    PROVE  /\ Sound(ServiceFlapEnds(w, e, type, mod), t)
           /\ Sound(HostFlapEnds(w, e, type, mod), t)
<1>0. /\ type \in NotificationTypes /\ "NORMAL" \in NotificationTypes
      /\ Sound(FlapEnded(w), t)
  BY PlainTypes, FlapEndedSound
<1>1. Sound(ServiceFlapEnds(w, e, type, mod), t)
  <2>1. PICK w1 : w1 = service_notification(FlapEnded(w), e, type, {}, mod)
    OBVIOUS
  <2>2. PICK w2 : w2 = IF RecoveryDue(w.o) THEN service_notification(w1, e, "NORMAL", {}, mod) ELSE w1
    OBVIOUS
  <2>3. Sound(w1, t)
    BY <1>0, <2>1, ServiceNoticeSound
  <2>4. Sound(w2, t)
    BY <1>0, <2>2, <2>3, ServiceNoticeSound
  <2>5. Sound([w2 EXCEPT !.o.check_recovery = FALSE], t)
    BY <2>4, SwitchSound
  <2>6. QED
    BY <2>1, <2>2, <2>5 DEF ServiceFlapEnds
<1>2. Sound(HostFlapEnds(w, e, type, mod), t)
  <2>1. PICK w1 : w1 = host_notification(FlapEnded(w), e, type, {}, mod)
    OBVIOUS
  <2>2. PICK w2 : w2 = IF RecoveryDue(w.o) THEN host_notification(w1, e, "NORMAL", {}, mod) ELSE w1
    OBVIOUS
  <2>3. Sound(w1, t)
    BY <1>0, <2>1, HostNoticeSound
  <2>4. Sound(w2, t)
    BY <1>0, <2>2, <2>3, HostNoticeSound
  <2>5. Sound([w2 EXCEPT !.o.check_recovery = FALSE], t)
    BY <2>4, SwitchSound
  <2>6. QED
    BY <2>1, <2>2, <2>5 DEF HostFlapEnds
<1>3. QED
  BY <1>1, <1>2

LEMMA RecordedSound ==
    ASSUME NEW w, NEW t, Sound(w, t)
    PROVE  Sound([w EXCEPT !.o.history = Recorded(w.o)], t)
<1>0. w \in WorldType /\ Good(w, t) /\ w.o \in Object
  BY DEF Sound, WorldType
<1>1. PICK v : v = [w EXCEPT !.o.history = Recorded(w.o)]
  OBVIOUS
<1>2. Keeps(w, v, t)
  BY <1>0, <1>1, RecordedKeeps
<1>3. v.sent = w.sent /\ v.o = [w.o EXCEPT !.history = Recorded(w.o)]
  BY <1>0, <1>1 DEF WorldType
<1>4. v.o.number = w.o.number /\ v.o.notified_on = w.o.notified_on
      /\ v.o.current_state = w.o.current_state
  BY <1>0, <1>3 DEF Object
<1>5. Sound(v, t)
  BY <1>2, <1>3, <1>4, AloneSound DEF Alone, Keeps
<1>6. QED
  BY <1>1, <1>5

LEMMA FlappingSound ==
    ASSUME NEW w, NEW t, Sound(w, t), NEW e, Calm(e), NEW mod
    PROVE  /\ Sound(check_for_service_flapping(w, e, mod), t)
           /\ Sound(check_for_host_flapping(w, e, mod), t)
<1>1. PICK w1 : w1 = [w EXCEPT !.o.history = Recorded(w.o)]
  OBVIOUS
<1>2. Sound(w1, t)
  BY <1>1, RecordedSound
<1>3. FlapDecision(w1.o, e) = "start" =>
        /\ Sound(set_service_flap(w1, e, mod), t)
        /\ Sound(set_host_flap(w1, e, mod), t)
  <2>1. FlapDecision(w1.o, e) = "start" => ~w1.o.is_flapping
    BY DEF FlapDecision
  <2>2. QED
    BY <1>2, <2>1, SetFlapSound
<1>4. /\ Sound(clear_service_flap(w1, e, mod), t)
      /\ Sound(clear_host_flap(w1, e, mod), t)
  BY <1>2, FlapEndsSound DEF clear_service_flap, clear_host_flap
<1>5. PICK d : d = FlapDecision(w1.o, e)
  OBVIOUS
<1>6. PICK v : v = IF d = "start" THEN set_service_flap(w1, e, mod)
                   ELSE IF d = "stop" THEN clear_service_flap(w1, e, mod) ELSE w1
  OBVIOUS
<1>7. PICK u : u = IF d = "start" THEN set_host_flap(w1, e, mod)
                   ELSE IF d = "stop" THEN clear_host_flap(w1, e, mod) ELSE w1
  OBVIOUS
<1>8. Sound(v, t) /\ Sound(u, t)
  BY <1>2, <1>3, <1>4, <1>5, <1>6, <1>7
<1>9. /\ check_for_service_flapping(w, e, mod) \in {w, v}
      /\ check_for_host_flapping(w, e, mod) \in {w, u}
  BY <1>1, <1>5, <1>6, <1>7 DEF check_for_service_flapping, check_for_host_flapping
<1>10. QED
  BY <1>8, <1>9

LEMMA FlapSwitchSound ==
    ASSUME NEW w, NEW t, Sound(w, t), NEW e, Calm(e), NEW mod, NEW late
    PROVE  /\ Sound(disable_service_flap_detection(w, e, mod), t)
           /\ Sound(disable_host_flap_detection(w, e, mod), t)
           /\ Sound(enable_service_flap_detection(w), t)
           /\ Sound(enable_host_flap_detection(w, e, mod, late), t)
           /\ Sound(enable_flap_detection_routines(w, e, mod, late), t)
           /\ Sound(disable_flap_detection_routines(w, e, mod), t)
<1>1. PICK off, on : /\ off = [w EXCEPT !.o.flap_detection_enabled = FALSE]
                     /\ on = [w EXCEPT !.o.flap_detection_enabled = TRUE]
  OBVIOUS
<1>2. Sound(off, t) /\ Sound(on, t)
  <2>1. Sound([w EXCEPT !.o.flap_detection_enabled = FALSE], t)
    BY SwitchSound
  <2>2. Sound([w EXCEPT !.o.flap_detection_enabled = TRUE], t)
    BY SwitchSound
  <2>3. QED
    BY <1>1, <2>1, <2>2
<1>3. ASSUME NEW u, Sound(u, t)
      PROVE  /\ Sound(handle_service_flap_detection_disabled(u, e, mod), t)
             /\ Sound(handle_host_flap_detection_disabled(u, e, mod), t)
             /\ Sound(check_for_host_flapping(u, e, mod), t)
  BY <1>3, FlapEndsSound, FlappingSound
     DEF handle_service_flap_detection_disabled, handle_host_flap_detection_disabled
<1>4. /\ disable_service_flap_detection(w, e, mod)
           \in {w, handle_service_flap_detection_disabled(off, e, mod)}
      /\ disable_host_flap_detection(w, e, mod)
           \in {w, handle_host_flap_detection_disabled(off, e, mod)}
      /\ enable_service_flap_detection(w) = on
      /\ enable_host_flap_detection(w, e, mod, late) \in {on, check_for_host_flapping(on, e, mod)}
  BY <1>1 DEF disable_service_flap_detection, disable_host_flap_detection,
              enable_service_flap_detection, enable_host_flap_detection
<1>5. /\ enable_flap_detection_routines(w, e, mod, late) \in {w, check_for_host_flapping(w, e, mod)}
      /\ disable_flap_detection_routines(w, e, mod)
           \in {handle_service_flap_detection_disabled(w, e, mod),
                handle_host_flap_detection_disabled(w, e, mod)}
  BY DEF enable_flap_detection_routines, disable_flap_detection_routines
<1>6. QED
  BY <1>2, <1>3, <1>4, <1>5

-----------------------------------------------------------------------------
(* Between two steps.                                                       *)
Known == obj.notified_on # {} => Wanting(obj.number, told_under) \subseteq told

(* A step that ends with some v whose recovery went to those in told.       *)
Informs == \E v : Sound(v, told) /\ Commit(v)

RecoveredTheTold ==
    told_under = env.escalations_on /\ Recoveries # {} =>
        sent'[CHOOSE i \in Recoveries : \A j \in Recoveries : i <= j].to \subseteq told

LEMMA ReadySound ==
    ASSUME NEW w, NEW t, Ready(w, t), w.o.notified_on # {} => Wanting(w.o.number, told_under) \subseteq t
    PROVE  Sound(w, t)
<1>1. Len(w.sent) = 0
  BY DEF Ready
<1>2. Recovs(w) = {} /\ Problems(w) = {}
  BY <1>1 DEF Recovs, Problems
<1>3. QED
  BY <1>1, <1>2 DEF Sound, Ready, Informed, Knowing, Under

LEMMA CommitInforms ==
    ASSUME Inv', Informs
    PROVE  Known' /\ RecoveredTheTold
<1>1. PICK v : Sound(v, told) /\ Commit(v)
  BY DEF Informs
<1>2. /\ obj' = v.o /\ sent' = v.sent /\ Informed(v, told)
      /\ told' = IF v.o.current_state = 0 THEN {} ELSE Knowing(v, told)
      /\ told_under' = IF v.o.current_state = 0 THEN Escalations ELSE Under(v)
  BY <1>1 DEF Commit, Sound, Knowing, Under
<1>3. ASSUME obj'.notified_on # {}
      PROVE  Wanting(obj'.number, told_under') \subseteq told'
  <2>1. v.o.current_state # 0
    BY <1>2, <1>3 DEF Inv, Silent
  <2>2. Recovs(v) = {}
    BY <1>2, <2>1 DEF Informed, Recovs
  <2>3. QED
    BY <1>2, <1>3, <2>1, <2>2 DEF Informed
<1>4. RecoveredTheTold
  <2>1. Recovs(v) = Recoveries
    BY <1>2 DEF Recovs, Recoveries
  <2>2. ASSUME Recoveries # {}, told_under = env.escalations_on
        PROVE  sent'[CHOOSE i \in Recoveries : \A j \in Recoveries : i <= j].to \subseteq told
    <3>1. PICK i \in Recovs(v) : (\A j \in Recovs(v) : i <= j) /\ v.sent[i].to \subseteq told
      BY <1>2, <2>1, <2>2 DEF Informed
    <3>2. \A k \in Recovs(v) : (\A j \in Recovs(v) : k <= j) => k = i
      <4>1. \A k \in Recovs(v) : k \in Int
        BY DEF Recovs
      <4>2. QED
        BY <3>1, <4>1
    <3>3. (CHOOSE k \in Recovs(v) : \A j \in Recovs(v) : k <= j) = i
      BY <3>1, <3>2
    <3>4. QED
      BY <1>2, <2>1, <3>1, <3>3
  <2>3. QED
    BY <2>2 DEF RecoveredTheTold
<1>5. Known'
  BY <1>3 DEF Known
<1>6. QED
  BY <1>4, <1>5

LEMMA WorldSound ==
    ASSUME Inv, Known
    PROVE  Sound(World, told) /\ World.o = obj
BY WorldReady, ReadySound DEF Known

LEMMA ServiceOkSound ==
    ASSUME NEW w, NEW t, Sound(w, t), NEW hard, NEW mod, Calm(env)
    PROVE  Sound(ServiceOk(w, hard, mod), t)
<1>1. PICK f : f = check_for_service_flapping(w, env, mod)
  OBVIOUS
<1>2. PICK n : n = service_notification(f, env, "NORMAL", {}, mod)
  OBVIOUS
<1>3. PICK e : e = env
  OBVIOUS
<1>4. Sound(f, t)
  <2>1. Sound(check_for_service_flapping(w, e, mod), t)
    BY <1>3, FlappingSound
  <2>2. QED
    BY <1>1, <1>3, <2>1
<1>5. Sound(n, t)
  <2>1. Sound(service_notification(f, e, "NORMAL", {}, mod), t)
    BY <1>3, <1>4, PlainTypes, ServiceNoticeSound
  <2>2. QED
    BY <1>2, <1>3, <2>1
<1>6. PICK w1 : w1 = IF hard THEN n ELSE w
  OBVIOUS
<1>7. Sound(w1, t) /\ w1.o \in Object
  <2>1. Sound(w1, t)
    BY <1>5, <1>6
  <2>2. QED
    BY <2>1 DEF Sound, WorldType
<1>8. PICK p : p = ServiceRecovered(w1.o)
  OBVIOUS
<1>9. p \in Object /\ Kept(w1.o, p) /\ p.notified_on = {}
  BY <1>7, <1>8, RecoveredType
<1>10. PICK w2 : w2 = [w1 EXCEPT !.o = p]
  OBVIOUS
<1>11. Sound(w2, t)
  BY <1>7, <1>9, <1>10, FieldsSound DEF Alone, Kept
<1>12. Sound(check_for_service_flapping(w2, env, mod), t)
  <2>1. Sound(check_for_service_flapping(w2, e, mod), t)
    BY <1>3, <1>11, FlappingSound
  <2>2. QED
    BY <1>3, <2>1
<1>13. ServiceOk(w, hard, mod) \in {w2, check_for_service_flapping(w2, env, mod)}
  BY <1>1, <1>2, <1>6, <1>8, <1>10 DEF ServiceOk
<1>14. QED
  BY <1>11, <1>12, <1>13

LEMMA ServiceProblemSound ==
    ASSUME NEW w, NEW t, Sound(w, t), NEW retry, NEW quiet, NEW mod, Calm(env)
    PROVE  Sound(ServiceProblem(w, retry, quiet, mod), t)
<1>1. PICK e : e = env
  OBVIOUS
<1>2. PICK f : f = check_for_service_flapping(w, e, mod)
  OBVIOUS
<1>3. PICK n : n = service_notification(f, e, "NORMAL", {}, mod)
  OBVIOUS
<1>4. Sound(f, t)
  BY <1>1, <1>2, FlappingSound
<1>5. Sound(n, t)
  BY <1>1, <1>3, <1>4, PlainTypes, ServiceNoticeSound
<1>6. ServiceProblem(w, retry, quiet, mod) \in {f, n}
  BY <1>1, <1>2, <1>3 DEF ServiceProblem
<1>7. QED
  BY <1>4, <1>5, <1>6

LEMMA ServiceResultInforms ==
    ASSUME Inv, Known, Calm(env), NEW st \in ServiceResults, NEW flex \in BOOLEAN, NEW mod,
           ServiceResult(st, flex, mod)
    PROVE  Informs
<1>1. PICK w : w = ServiceWorld(st)
  OBVIOUS
<1>2. PICK hard : hard = IF st = STATE_OK THEN HardChange(obj, st)
                         ELSE ProblemHardChange(obj, st, env.host_up)
  OBVIOUS
<1>3. PICK quiet : quiet = (flex /\ (hard \/ st # obj.current_state))
  OBVIOUS
<1>4. PICK v : v = IF st = STATE_OK THEN ServiceOk(w, hard, mod)
                   ELSE ServiceProblem(w, Retrying(obj, env.host_up), quiet, mod)
  OBVIOUS
<1>5. Commit(v)
  BY <1>1, <1>2, <1>3, <1>4 DEF ServiceResult, ServiceWorld
<1>6. Ready(w, told) /\ w.o.number = obj.number /\ w.o.notified_on = obj.notified_on
  BY <1>1, ServiceWorldReady DEF Carried
<1>7. Sound(w, told)
  BY <1>6, ReadySound DEF Known
<1>8. /\ Sound(ServiceOk(w, hard, mod), told)
      /\ Sound(ServiceProblem(w, Retrying(obj, env.host_up), quiet, mod), told)
  BY <1>7, ServiceOkSound, ServiceProblemSound
<1>9. QED
  BY <1>4, <1>5, <1>8 DEF Informs

LEMMA HostStateSound ==
    ASSUME NEW W, NEW t, Ready(W, t), NEW h, HostMayGo(W.o, h), NEW flex, NEW mod, Calm(env),
           W.o.notified_on # {} => Wanting(W.o.number, told_under) \subseteq t
    PROVE  Sound(handle_host_state([W EXCEPT !.o = h], flex, mod), t)
<1>1. PICK w : w = [W EXCEPT !.o = h]
  OBVIOUS
<1>2. PICK w1 : w1 = IF HostChanged(h) THEN [w EXCEPT !.o = TimesReset(@)] ELSE w
  OBVIOUS
<1>3. PICK w2 : w2 = IF HostAckEnds(h) THEN AckDropped(w1) ELSE w1
  OBVIOUS
<1>4. Sound(w2, t) /\ w2.o \in Object
  <2>1. w2 = AckHandled([W EXCEPT !.o = h], h)
    BY <1>1, <1>2, <1>3 DEF AckHandled
  <2>2. Ready(w2, t) /\ w2.o.notified_on = h.notified_on /\ w2.o.number = h.number
    BY <2>1, HostAckHandled
  <2>3. h.notified_on = W.o.notified_on /\ h.number = W.o.number
    BY DEF HostMayGo, HostCarried, Carried
  <2>4. Sound(w2, t)
    BY <2>2, <2>3, ReadySound
  <2>5. QED
    BY <2>4 DEF Sound, WorldType
<1>5. PICK w3 : w3 = IF HostTold(h) /\ h.state_type = "HARD" THEN [w2 EXCEPT !.o.hard_age = 0] ELSE w2
  OBVIOUS
<1>6. Sound(w3, t)
  <2>1. PICK p : p = [w2.o EXCEPT !.hard_age = 0]
    OBVIOUS
  <2>2. p \in Object /\ Kept(w2.o, p) /\ p.notified_on = w2.o.notified_on /\ p.number = w2.o.number
    BY <1>4, <2>1 DEF Object, Kept
  <2>3. Sound([w2 EXCEPT !.o = p], t)
    BY <1>4, <2>2, FieldsSound DEF Alone, Kept
  <2>4. QED
    BY <1>4, <1>5, <2>1, <2>3
<1>7. PICK w4 : w4 = IF /\ h.state_type = "HARD"
                        /\ IF HostTold(h) THEN ~flex ELSE h.current_state # STATE_UP
                     THEN host_notification(w3, env, "NORMAL", {}, mod) ELSE w3
  OBVIOUS
<1>8. Sound(w4, t) /\ w4.o \in Object
  <2>1. PICK e : e = env
    OBVIOUS
  <2>2. Sound(host_notification(w3, e, "NORMAL", {}, mod), t)
    BY <1>6, <2>1, PlainTypes, HostNoticeSound
  <2>3. Sound(w4, t)
    BY <1>6, <1>7, <2>1, <2>2
  <2>4. QED
    BY <2>3 DEF Sound, WorldType
<1>9. PICK q : q = HostHandled(w4.o)
  OBVIOUS
<1>10. /\ q \in Object /\ Kept(w4.o, q)
       /\ q.notified_on = {} \/ (q.notified_on = w4.o.notified_on /\ q.number = w4.o.number)
  BY <1>8, <1>9, HostLater
<1>11. PICK w5 : w5 = [w4 EXCEPT !.o = q]
  OBVIOUS
<1>12. Sound(w5, t) /\ w5.o \in Object
  <2>1. Sound(w5, t)
    BY <1>8, <1>10, <1>11, FieldsSound DEF Alone, Kept
  <2>2. QED
    BY <2>1 DEF Sound, WorldType
<1>13. PICK r : r = HostRecovered(w5.o)
  OBVIOUS
<1>14. /\ r \in Object /\ Kept(w5.o, r)
       /\ r.notified_on = {} \/ (r.notified_on = w5.o.notified_on /\ r.number = w5.o.number)
  BY <1>12, <1>13, HostLater
<1>15. PICK w6 : w6 = [w5 EXCEPT !.o = r]
  OBVIOUS
<1>16. Sound(w6, t)
  BY <1>12, <1>14, <1>15, FieldsSound DEF Alone, Kept
<1>17. handle_host_state([W EXCEPT !.o = h], flex, mod) \in {w5, w6}
  <2>1. w.o = h
    BY <1>1 DEF Ready, WorldType
  <2>2. handle_host_state(w, flex, mod) =
          IF HostTold(h) /\ h.current_state = STATE_UP THEN w6 ELSE w5
    BY <1>2, <1>3, <1>5, <1>7, <1>9, <1>11, <1>13, <1>15, <2>1 DEF handle_host_state
  <2>3. QED
    BY <1>1, <2>2
<1>18. QED
  BY <1>12, <1>16, <1>17

LEMMA HostResultInforms ==
    ASSUME Inv, Known, Calm(env),
           NEW r \in HostResults, NEW discarded \in BOOLEAN, NEW parentUp \in BOOLEAN,
           NEW flex \in BOOLEAN, NEW mod, HostResult(r, discarded, parentUp, flex, mod)
    PROVE  Informs
<1>1. PICK posted : posted = IF discarded THEN obj ELSE update_host_state_post_check(obj, r)
  OBVIOUS
<1>2. PICK h : h = HostDetermined(posted, obj.current_state,
                                  determine_host_reachability(FALSE, parentUp))
  OBVIOUS
<1>3. HostMayGo(obj, h)
  BY <1>1, <1>2, HostMayGoes
<1>4. PICK w : w = handle_host_state([World EXCEPT !.o = h], flex, mod)
  OBVIOUS
<1>5. Sound(w, told)
  <2>1. PICK W : W = World
    OBVIOUS
  <2>2. Ready(W, told) /\ W.o = obj
    BY <2>1, WorldReady
  <2>3. Sound(handle_host_state([W EXCEPT !.o = h], flex, mod), told)
    BY <1>3, <2>2, HostStateSound DEF Known
  <2>4. QED
    BY <1>4, <2>1, <2>3
<1>6. PICK v : v = check_for_host_flapping(w, env, mod)
  OBVIOUS
<1>7. Sound(v, told)
  BY <1>5, <1>6, FlappingSound
<1>8. Commit(v)
  BY <1>1, <1>2, <1>4, <1>6 DEF HostResult
<1>9. QED
  BY <1>7, <1>8 DEF Informs

LEMMA NoticeSound ==
    ASSUME NEW w, NEW t, Sound(w, t), NEW e, Calm(e), NEW type \in NotificationTypes, NEW mod
    PROVE  Sound(notification(w, e, type, {}, mod), t)
BY ServiceNoticeSound, HostNoticeSound DEF notification

LEMMA ServiceResultOfHostInforms ==
    ASSUME Inv, Known, Calm(env), NEW renotifies \in BOOLEAN, NEW mod,
           ServiceResultOfHost(renotifies, mod)
    PROVE  Informs
<1>1. PICK w : w = IF renotifies THEN host_notification(World, env, "NORMAL", {}, mod) ELSE World
  OBVIOUS
<1>2. Sound(w, told)
  <2>1. Sound(World, told)
    BY WorldSound
  <2>2. PICK e, W : e = env /\ W = World
    OBVIOUS
  <2>3. Sound(host_notification(W, e, "NORMAL", {}, mod), told)
    BY <2>1, <2>2, PlainTypes, HostNoticeSound
  <2>4. QED
    BY <1>1, <2>1, <2>2, <2>3
<1>3. PICK v : v = check_for_host_flapping(w, env, mod)
  OBVIOUS
<1>4. Sound(v, told)
  BY <1>2, <1>3, FlappingSound
<1>5. Commit(v)
  BY <1>1, <1>3 DEF ServiceResultOfHost
<1>6. QED
  BY <1>4, <1>5 DEF Informs

LEMMA FlapInforms ==
    ASSUME Inv, Known, Calm(env), NEW late, NEW mod,
           SwitchFlapDetection(late, mod) \/ SwitchAllFlapDetection(late, mod)
    PROVE  Informs
<1>0. Sound(World, told) /\ World.o = obj /\ obj \in Object /\ env \in Env
  BY WorldSound, WorldReady
<1>1. CASE SwitchFlapDetection(late, mod)
  <2>1. obj.kind \in {"host", "service"}
    BY <1>0 DEF Object
  <2>2. PICK v : /\ Commit(v)
                 /\ v \in {disable_host_flap_detection(World, env, mod),
                           enable_host_flap_detection(World, env, mod, late),
                           disable_service_flap_detection(World, env, mod),
                           enable_service_flap_detection(World)}
    BY <1>1, <2>1 DEF SwitchFlapDetection
  <2>3. Sound(v, told)
    BY <1>0, <2>2, FlapSwitchSound
  <2>4. QED
    BY <2>2, <2>3 DEF Informs
<1>2. CASE SwitchAllFlapDetection(late, mod)
  <2>1. PICK e : e = [env EXCEPT !.enable_flap_detection = ~@]
    OBVIOUS
  <2>2. Calm(e)
    BY <1>0, <2>1 DEF Calm, Env
  <2>3. PICK v : /\ Commit(v)
                 /\ v \in {disable_flap_detection_routines(World, e, mod),
                           enable_flap_detection_routines(World, e, mod, late)}
    BY <1>2, <2>1 DEF SwitchAllFlapDetection
  <2>4. Sound(v, told)
    BY <1>0, <2>2, <2>3, FlapSwitchSound
  <2>5. QED
    BY <2>3, <2>4 DEF Informs
<1>3. QED
  BY <1>1, <1>2

LEMMA AcknowledgeInforms ==
    ASSUME Inv, Known, Calm(env), NEW type \in {"normal", "sticky"}, NEW notify \in BOOLEAN,
           NEW persistent \in BOOLEAN, NEW end \in AckTimes \cup {-1}, NEW mod,
           acknowledge_problem(type, notify, persistent, end, mod)
    PROVE  Informs
<1>0. Sound(World, told) /\ World.o = obj /\ obj.current_state # 0
  BY WorldSound DEF acknowledge_problem
<1>1. PICK w1 : w1 = IF notify THEN notification(World, env, "ACKNOWLEDGEMENT", {}, mod) ELSE World
  OBVIOUS
<1>2. Sound(w1, told) /\ w1.o.kind = obj.kind /\ w1.o.current_state # 0
  <2>1. PICK e, W : e = env /\ W = World
    OBVIOUS
  <2>2. "ACKNOWLEDGEMENT" \in NotificationTypes /\ "ACKNOWLEDGEMENT" # "NORMAL"
    BY PlainTypes
  <2>3. Sound(notification(W, e, "ACKNOWLEDGEMENT", {}, mod), told)
    BY <1>0, <2>1, <2>2, NoticeSound
  <2>4. Keeps(W, notification(W, e, "ACKNOWLEDGEMENT", {}, mod), told)
    BY <1>0, <2>1, <2>2, NoticeKeeps DEF Sound
  <2>5. QED
    BY <1>0, <1>1, <2>1, <2>3, <2>4 DEF Keeps, Same
<1>3. w1 \in WorldType /\ Good(w1, told) /\ w1.o \in Object
  BY <1>2 DEF Sound, WorldType
<1>4. PICK w2 : w2 = [w1 EXCEPT !.o.acknowledged = TRUE, !.o.ack_type = type, !.o.ack_end = end]
  OBVIOUS
<1>5. Sound(w2, told) /\ w2.o.kind = obj.kind /\ w2.o.acknowledged /\ w2.o.current_state # 0
  <2>1. PICK yes : yes = TRUE
    OBVIOUS
  <2>2. yes \in BOOLEAN /\ yes
    BY <2>1
  <2>3. end \in Nat \cup {-1}
    BY AlertsAssumption
  <2>4. w2 = AckSet(w1, type, end, yes)
    BY <1>4, <2>1 DEF AckSet
  <2>5. /\ w2 \in WorldType /\ Good(w2, told) /\ w2.o.acknowledged
        /\ w2.o.kind = w1.o.kind /\ w2.o.current_state # 0
    BY <1>2, <1>3, <2>2, <2>3, <2>4, AckSetKeeps, ZenonT(30)
  <2>6. /\ w2.sent = w1.sent
        /\ w2.o = [w1.o EXCEPT !.acknowledged = TRUE, !.ack_type = type, !.ack_end = end]
    BY <1>3, <1>4 DEF WorldType
  <2>7. /\ w2.o.number = w1.o.number /\ w2.o.notified_on = w1.o.notified_on
        /\ w2.o.current_state = w1.o.current_state
    BY <1>3, <2>6 DEF Object
  <2>8. Sound(w2, told)
    BY <1>2, <2>5, <2>6, <2>7, AloneSound DEF Alone
  <2>9. QED
    BY <1>2, <2>5, <2>8
<1>6. PICK v : v = [w2 EXCEPT !.cs = add_new_comment(@, w2.o.kind, "ACKNOWLEDGEMENT", persistent)]
  OBVIOUS
<1>7. Sound(v, told)
  <2>1. w2 \in WorldType /\ Good(w2, told)
    BY <1>5 DEF Sound
  <2>2. v \in WorldType /\ Good(v, told)
    <3>1. Keeps(w2, v, told)
      BY <1>5, <1>6, <2>1, CommentKeeps
    <3>2. QED
      BY <3>1 DEF Keeps
  <2>3. v.sent = w2.sent /\ v.o = w2.o
    BY <1>6, <2>1 DEF WorldType
  <2>4. QED
    BY <1>5, <2>2, <2>3, AloneSound DEF Alone
<1>8. Commit(v)
  BY <1>1, <1>4, <1>5, <1>6 DEF acknowledge_problem
<1>9. QED
  BY <1>7, <1>8 DEF Informs

LEMMA DepthSound ==
    ASSUME NEW w, NEW t, Sound(w, t), NEW n \in Nat
    PROVE  Sound([w EXCEPT !.o.depth = n], t)
<1>1. w.o \in Object
  BY DEF Sound, WorldType
<1>2. PICK p : p = [w.o EXCEPT !.depth = n]
  OBVIOUS
<1>3. p \in Object /\ Kept(w.o, p) /\ p.notified_on = w.o.notified_on /\ p.number = w.o.number
  BY <1>1, <1>2 DEF Object, Kept
<1>4. Sound([w EXCEPT !.o = p], t)
  BY <1>3, FieldsSound DEF Alone, Kept
<1>5. QED
  BY <1>2, <1>4

LEMMA DowntimeInforms ==
    ASSUME Inv, Known, Calm(env), NEW mod, DowntimeStarts(mod) \/ DowntimeEnds(mod)
    PROVE  Informs
<1>0. PICK e, W : e = env /\ W = World
  OBVIOUS
<1>1. Sound(W, told) /\ Calm(e)
  BY <1>0, WorldSound
<1>2. {"DOWNTIMESTART", "DOWNTIMEEND"} \subseteq NotificationTypes
  BY PlainTypes
<1>3. CASE DowntimeStarts(mod)
  <2>1. PICK w : w = notification(W, e, "DOWNTIMESTART", {}, mod)
    OBVIOUS
  <2>2. Sound(w, told)
    BY <1>1, <1>2, <2>1, NoticeSound
  <2>3. PICK v : v = [w EXCEPT !.o.depth = 1]
    OBVIOUS
  <2>4. Sound(v, told)
    BY <2>2, <2>3, DepthSound
  <2>5. Commit(v)
    BY <1>0, <1>3, <2>1, <2>3 DEF DowntimeStarts
  <2>6. QED
    BY <2>4, <2>5 DEF Informs
<1>4. CASE DowntimeEnds(mod)
  <2>1. PICK w : w = [W EXCEPT !.o.depth = 0]
    OBVIOUS
  <2>2. Sound(w, told)
    BY <1>1, <2>1, DepthSound
  <2>3. PICK v : v = notification(w, e, "DOWNTIMEEND", {}, mod)
    OBVIOUS
  <2>4. Sound(v, told)
    BY <1>1, <1>2, <2>2, <2>3, NoticeSound
  <2>5. Commit(v)
    BY <1>0, <1>4, <2>1, <2>3 DEF DowntimeEnds
  <2>6. QED
    BY <2>4, <2>5 DEF Informs
<1>5. QED
  BY <1>3, <1>4

(* Steps that send nothing and leave the count alone.                       *)
Bare ==
    /\ sent' = <<>> /\ obj'.number = obj.number /\ obj'.notified_on \subseteq obj.notified_on
    /\ obj'.current_state = 0 \/ (told' = told /\ told_under' = told_under)

LEMMA BareInforms ==
    ASSUME Inv', Known, Bare
    PROVE  Known' /\ RecoveredTheTold
<1>1. Recoveries = {}
  <2>1. Len(sent') = 0
    BY DEF Bare
  <2>2. QED
    BY <2>1 DEF Recoveries
<1>2. Known'
  BY DEF Known, Bare, Inv, Silent
<1>3. QED
  BY <1>1, <1>2 DEF RecoveredTheTold

LEMMA BareCommit ==
    ASSUME NEW w, w.sent = <<>>, Commit(w), w.o.number = obj.number,
           w.o.notified_on \subseteq obj.notified_on
    PROVE  Bare
<1>1. Problems(w) = {}
  <2>1. Len(w.sent) = 0
    OBVIOUS
  <2>2. QED
    BY <2>1 DEF Problems
<1>2. QED
  BY <1>1 DEF Commit, Bare

LEMMA FieldsBare ==
    ASSUME Inv, NEW d, NEW persistent, NEW id,
           \/ remove_acknowledgement \/ handle_acknowledgement_expire_event
           \/ DelayNotification(d) \/ SwitchNotifications
           \/ AddComment(persistent) \/ DeleteComment(id) \/ DeleteAllComments
           \/ Restart
    PROVE  Bare
<1>0. World \in WorldType /\ World.o = obj /\ World.sent = <<>> /\ obj \in Object
  BY WorldReady DEF Ready
<1>1. CASE remove_acknowledgement \/ handle_acknowledgement_expire_event
  <2>1. PICK v : v = AckRemoved(World)
    OBVIOUS
  <2>2. v.sent = <<>> /\ v.o = [obj EXCEPT !.acknowledged = FALSE, !.ack_end = -1]
    BY <1>0, <2>1 DEF AckRemoved, WorldType
  <2>3. v.o.number = obj.number /\ v.o.notified_on = obj.notified_on
    BY <1>0, <2>2 DEF Object
  <2>4. Commit(v) \/ Commit(World)
    BY <1>1, <2>1 DEF remove_acknowledgement, handle_acknowledgement_expire_event
  <2>5. QED
    BY <1>0, <2>2, <2>3, <2>4, BareCommit
<1>2. CASE DelayNotification(d) \/ SwitchNotifications
  <2>1. PICK p, q : /\ p = [obj EXCEPT !.next_notification = d]
                    /\ q = [obj EXCEPT !.notifications_enabled = ~@]
    OBVIOUS
  <2>2. /\ p.number = obj.number /\ p.notified_on = obj.notified_on
        /\ q.number = obj.number /\ q.notified_on = obj.notified_on
    BY <1>0, <2>1 DEF Object
  <2>3. PICK x, y : x = [World EXCEPT !.o = p] /\ y = [World EXCEPT !.o = q]
    OBVIOUS
  <2>4. x.sent = <<>> /\ x.o = p /\ y.sent = <<>> /\ y.o = q
    BY <1>0, <2>3 DEF WorldType
  <2>5. Commit(x) \/ Commit(y)
    BY <1>0, <1>2, <2>1, <2>3 DEF DelayNotification, SwitchNotifications
  <2>6. QED
    BY <2>2, <2>4, <2>5, BareCommit
<1>3. CASE AddComment(persistent) \/ DeleteComment(id) \/ DeleteAllComments
  <2>1. PICK cs : Commit([World EXCEPT !.cs = cs])
    BY <1>3 DEF AddComment, DeleteComment, DeleteAllComments
  <2>2. PICK v : v = [World EXCEPT !.cs = cs]
    OBVIOUS
  <2>3. v.sent = <<>> /\ v.o = obj
    BY <1>0, <2>2 DEF WorldType
  <2>4. QED
    BY <2>1, <2>2, <2>3, BareCommit
<1>4. CASE Restart
  <2>1. PICK p : p = Restored(obj)
    OBVIOUS
  <2>2. p.number = obj.number /\ p.notified_on \subseteq obj.notified_on
    BY <1>0, <2>1, RestoredType DEF Retained
  <2>3. PICK cs : cs = RetainedComments(World.cs, p.acknowledged)
    OBVIOUS
  <2>4. PICK v : v = [World EXCEPT !.o = p, !.cs = cs]
    OBVIOUS
  <2>5. v.sent = <<>> /\ v.o = p
    BY <1>0, <2>4 DEF WorldType
  <2>6. Commit(v)
    BY <1>4, <2>1, <2>3, <2>4 DEF Restart
  <2>7. QED
    BY <2>2, <2>5, <2>6, BareCommit
<1>5. QED
  BY <1>1, <1>2, <1>3, <1>4

LEMMA QuietBare ==
    ASSUME Inv, EnvChanges \/ ContactSwitched \/ EscalationPeriodTurns \/ Tick
    PROVE  Bare
<1>1. CASE EnvChanges \/ ContactSwitched \/ EscalationPeriodTurns
  BY <1>1 DEF EnvChanges, ContactSwitched, EscalationPeriodTurns, Bare
<1>2. CASE Tick
  <2>1. obj \in Object
    BY WorldReady
  <2>2. obj'.number = obj.number /\ obj'.notified_on = obj.notified_on
    BY <1>2, <2>1 DEF Tick, Object
  <2>3. QED
    BY <1>2, <2>2 DEF Tick, Bare
<1>3. QED
  BY <1>1, <1>2

LEMMA SwitchLeavesContacts ==
    ASSUME NEW e \in Env, NEW f, f # "contacts_on"
    PROVE  [e EXCEPT ![f] = ~@].contacts_on = e.contacts_on
<1>1. PICK b : b = ~e[f]
  OBVIOUS
<1>2. [e EXCEPT ![f] = b].contacts_on = e.contacts_on
  BY DEF Env
<1>3. QED
  BY <1>1, <1>2

(* Where contacts keep their minds, those who would hear of the recovery    *)
(* know of the problem in every state.                                      *)
Heard == Undisturbed => env.contacts_on = Contacts /\ Known

LEMMA InitHeard == Init => Heard
BY DEF Init, Environment, Heard, Known

LEMMA StutterHeard == Heard /\ UNCHANGED vars => Heard'
<1> SUFFICES ASSUME Heard, UNCHANGED vars PROVE Heard'
  OBVIOUS
<1>1. scene' = scene /\ obj' = obj /\ env' = env /\ told' = told /\ told_under' = told_under
  BY DEF vars
<1>2. QED
  BY <1>1 DEF Heard, Known, Undisturbed

LEMMA NextInforms ==
    ASSUME Inv, Inv', Alike, Heard, Next, Undisturbed
    PROVE  env'.contacts_on = Contacts /\ Known' /\ RecoveredTheTold
<1> DEFINE Goal == env'.contacts_on = Contacts /\ Known' /\ RecoveredTheTold
<1>0. env \in Env /\ env.contacts_on = Contacts /\ Known /\ Calm(env)
  BY WorldReady DEF Heard, Calm, Env
<1>1. ASSUME Informs, env' = env
      PROVE  Goal
  BY <1>0, <1>1, CommitInforms
<1>2. ASSUME Bare, env' = env
      PROVE  Goal
  BY <1>0, <1>2, BareInforms
<1>3. CASE \E st \in ServiceResults, flex \in BOOLEAN, mod \in Mods : ServiceResult(st, flex, mod)
  <2>1. PICK st \in ServiceResults, flex \in BOOLEAN, mod \in Mods : ServiceResult(st, flex, mod)
    BY <1>3
  <2>2. env' = env
    BY <2>1 DEF ServiceResult
  <2>3. Informs
    BY <1>0, <2>1, ServiceResultInforms
  <2>4. QED
    BY <1>1, <2>2, <2>3
<1>4. CASE \E r \in HostResults, discarded, parentUp, flex \in BOOLEAN, mod \in Mods :
             HostResult(r, discarded, parentUp, flex, mod)
  <2>1. PICK r \in HostResults, discarded, parentUp, flex \in BOOLEAN, mod \in Mods :
             HostResult(r, discarded, parentUp, flex, mod)
    BY <1>4
  <2>2. env' = env
    BY <2>1 DEF HostResult
  <2>3. Informs
    BY <1>0, <2>1, HostResultInforms
  <2>4. QED
    BY <1>1, <2>2, <2>3
<1>5. CASE \E renotifies \in BOOLEAN, mod \in Mods : ServiceResultOfHost(renotifies, mod)
  BY <1>0, <1>1, <1>5, ServiceResultOfHostInforms DEF ServiceResultOfHost
<1>6. CASE \E type \in {"normal", "sticky"}, notify, persistent \in BOOLEAN,
              end \in AckTimes \cup {-1}, mod \in Mods :
             acknowledge_problem(type, notify, persistent, end, mod)
  <2>1. PICK type \in {"normal", "sticky"}, notify, persistent \in BOOLEAN,
              end \in AckTimes \cup {-1}, mod \in Mods :
             acknowledge_problem(type, notify, persistent, end, mod)
    BY <1>6
  <2>2. env' = env
    BY <2>1 DEF acknowledge_problem
  <2>3. Informs
    BY <1>0, <2>1, AcknowledgeInforms
  <2>4. QED
    BY <1>1, <2>2, <2>3
<1>7. CASE \E late \in BOOLEAN, mod \in Mods : SwitchFlapDetection(late, mod)
  <2>1. PICK late \in BOOLEAN, mod \in Mods : SwitchFlapDetection(late, mod)
    BY <1>7
  <2>2. env' = env
    BY <2>1 DEF SwitchFlapDetection
  <2>3. Informs
    BY <1>0, <2>1, FlapInforms
  <2>4. QED
    BY <1>1, <2>2, <2>3
<1>8. CASE \E late \in BOOLEAN, mod \in Mods : SwitchAllFlapDetection(late, mod)
  <2>1. PICK late \in BOOLEAN, mod \in Mods : SwitchAllFlapDetection(late, mod)
    BY <1>8
  <2>2. env' = [env EXCEPT !["enable_flap_detection"] = ~@]
    BY <2>1 DEF SwitchAllFlapDetection
  <2>3. env'.contacts_on = Contacts
    BY <1>0, <2>2, SwitchLeavesContacts
  <2>4. Informs
    BY <1>0, <2>1, FlapInforms
  <2>5. QED
    BY <2>3, <2>4, CommitInforms
<1>9. CASE \E mod \in Mods : DowntimeStarts(mod) \/ DowntimeEnds(mod)
  <2>1. PICK mod \in Mods : DowntimeStarts(mod) \/ DowntimeEnds(mod)
    BY <1>9
  <2>2. env' = env
    BY <2>1 DEF DowntimeStarts, DowntimeEnds
  <2>3. Informs
    BY <1>0, <2>1, DowntimeInforms
  <2>4. QED
    BY <1>1, <2>2, <2>3
<1>10. CASE remove_acknowledgement \/ handle_acknowledgement_expire_event \/ SwitchNotifications
            \/ DeleteAllComments \/ Restart
  <2>1. env' = env
    BY <1>10 DEF remove_acknowledgement, handle_acknowledgement_expire_event, SwitchNotifications,
       DeleteAllComments, Restart
  <2>2. Bare
    BY <1>10, FieldsBare
  <2>3. QED
    BY <1>2, <2>1, <2>2
<1>11. CASE \E d \in 0..1 : DelayNotification(d)
  BY <1>2, <1>11, FieldsBare DEF DelayNotification
<1>12. CASE \E persistent \in BOOLEAN : AddComment(persistent)
  BY <1>2, <1>12, FieldsBare DEF AddComment
<1>13. CASE \E id \in Ids(comments) : DeleteComment(id)
  BY <1>2, <1>13, FieldsBare DEF DeleteComment
<1>14. CASE EnvChanges
  <2>1. PICK f : f # "contacts_on" /\ env' = [env EXCEPT ![f] = ~@]
    BY <1>14 DEF EnvChanges, Choices
  <2>2. env'.contacts_on = Contacts
    BY <1>0, <2>1, SwitchLeavesContacts
  <2>3. QED
    BY <1>0, <1>14, <2>2, QuietBare, BareInforms
<1>15. CASE Tick
  <2>1. env' = env
    BY <1>15 DEF Tick
  <2>2. QED
    BY <1>2, <1>15, <2>1, QuietBare
<1>16. CASE EscalationPeriodTurns
  <2>1. env'.contacts_on = Contacts
    BY <1>0, <1>16 DEF EscalationPeriodTurns, Env
  <2>2. QED
    BY <1>0, <1>16, <2>1, QuietBare, BareInforms
<1>17. ~Given("custom") /\ ~Given("number") /\ ~ContactSwitched
  BY DEF Undisturbed, Given, ContactSwitched
<1>18. QED
  BY <1>3, <1>4, <1>5, <1>6, <1>7, <1>8, <1>9, <1>10, <1>11, <1>12, <1>13, <1>14, <1>15, <1>16,
     <1>17 DEF Next

LEMMA SceneStays == Next => scene' = scene
<1> SUFFICES ASSUME Next PROVE scene' = scene
  OBVIOUS
<1>1. ASSUME NEW v, Commit(v)
      PROVE  scene' = scene
  BY <1>1 DEF Commit
<1>2. CASE EnvChanges \/ ContactSwitched \/ EscalationPeriodTurns \/ Tick
  BY <1>2 DEF EnvChanges, ContactSwitched, EscalationPeriodTurns, Tick
<1>3. \A st, flex, mod : ServiceResult(st, flex, mod) => scene' = scene
  BY <1>1 DEF ServiceResult
<1>4. \A r, discarded, parentUp, flex, mod : HostResult(r, discarded, parentUp, flex, mod) => scene' = scene
  BY <1>1 DEF HostResult
<1>5. \A renotifies, mod : ServiceResultOfHost(renotifies, mod) => scene' = scene
  BY <1>1 DEF ServiceResultOfHost
<1>6. \A type, notify, persistent, end, mod : acknowledge_problem(type, notify, persistent, end, mod) => scene' = scene
  BY <1>1 DEF acknowledge_problem
<1>7. remove_acknowledgement => scene' = scene
  BY <1>1 DEF remove_acknowledgement
<1>8. handle_acknowledgement_expire_event => scene' = scene
  BY <1>1 DEF handle_acknowledgement_expire_event
<1>9. \A options, mod : SendCustomNotification(options, mod) => scene' = scene
  BY <1>1 DEF SendCustomNotification
<1>10. \A d : DelayNotification(d) => scene' = scene
  BY <1>1 DEF DelayNotification
<1>11. \A n : set_notification_number(n) => scene' = scene
  BY <1>1 DEF set_notification_number
<1>12. SwitchNotifications => scene' = scene
  BY <1>1 DEF SwitchNotifications
<1>13. \A late, mod : SwitchFlapDetection(late, mod) => scene' = scene
  BY <1>1 DEF SwitchFlapDetection
<1>14. \A late, mod : SwitchAllFlapDetection(late, mod) => scene' = scene
  BY <1>1 DEF SwitchAllFlapDetection
<1>15. \A persistent : AddComment(persistent) => scene' = scene
  BY <1>1 DEF AddComment
<1>16. \A id : DeleteComment(id) => scene' = scene
  BY <1>1 DEF DeleteComment
<1>17. DeleteAllComments => scene' = scene
  BY <1>1 DEF DeleteAllComments
<1>18. \A mod : DowntimeStarts(mod) => scene' = scene
  BY <1>1 DEF DowntimeStarts
<1>19. \A mod : DowntimeEnds(mod) => scene' = scene
  BY <1>1 DEF DowntimeEnds
<1>20. Restart => scene' = scene
  BY <1>1 DEF Restart
<1>21. QED
  BY <1>2, <1>3, <1>4, <1>5, <1>6, <1>7, <1>8, <1>9, <1>10, <1>11, <1>12, <1>13, <1>14, <1>15, <1>16, <1>17, <1>18, <1>19, <1>20 DEF Next

LEMMA NextHeard ==
    ASSUME Inv, Inv', Alike, Heard, Next
    PROVE  Heard' /\ (Undisturbed => RecoveredTheTold)
<1>1. scene' = scene
  BY SceneStays
<1>2. Undisturbed' <=> Undisturbed
  BY <1>1 DEF Undisturbed
<1>3. QED
  BY <1>2, NextInforms DEF Heard

(* A recovery goes only to those who were told last of the problem, however *)
(* results, commands, flapping, downtimes and restarts interleave, unless   *)
(* it meets another set of escalation periods than the problem did: the     *)
(* count of notifications that is_valid_escalation_for_host_notification    *)
(* and ..._service_notification go by is still that of the problem's last   *)
(* one. The premises: no global handler; no escalation that is for the      *)
(* recovery but not for a problem that is notified of, or the reverse, as   *)
(* none is by default; and no contact that hears of the recovery but only   *)
(* of some of the problems the others are told of.                          *)
THEOREM RecoveriesGoToTheTold == Alike => (Spec => RecoveryToTheTold)
<1> SUFFICES ASSUME Alike PROVE Spec => RecoveryToTheTold
  OBVIOUS
<1>1. Inv /\ Inv' /\ Heard /\ [Next]_vars => Heard'
  BY NextHeard, StutterHeard
<1>2. Inv /\ Inv' /\ Heard /\ [Next]_vars =>
        [Undisturbed /\ told_under = env.escalations_on /\ Recoveries # {} =>
            sent'[CHOOSE i \in Recoveries : \A j \in Recoveries : i <= j].to \subseteq told]_vars
  BY NextHeard DEF RecoveredTheTold
<1>3. QED
  BY <1>1, <1>2, InitHeard, InvAlways, PTL DEF Spec, RecoveryToTheTold
=============================================================================
