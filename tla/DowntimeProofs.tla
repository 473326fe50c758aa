--------------------------- MODULE DowntimeProofs ---------------------------
(* Proofs about Downtime for any objects, requests and clock: depths,       *)
(* notices and pointers agree with the downtimes in effect, and no downtime *)
(* is read after it was freed.                                              *)
EXTENDS Downtime, FiniteSetTheorems, TLAPS

(* Ids are given out once.                                                  *)
IdsInv ==
    /\ \A x \in Known : x < next_downtime_id /\ dts[x].triggered_by < next_downtime_id
    /\ \A e \in events : e.id < next_downtime_id
    /\ Known \subseteq comments

(* What is in effect was started with its trigger, which still is.          *)
TriggerInv ==
    \A x \in InEffect(Known) : dts[x].triggered_by # 0 => dts[x].triggered_by \in InEffect(Known)

(* An event that starts a downtime is the only one, and of a downtime that  *)
(* nothing triggers and that is not in effect; that of a flexible one is    *)
(* due.  An event that stops a downtime is of one in effect.                *)
EventInv ==
    /\ \A e \in events : e.kind = "start" /\ e.id \in Known =>
         /\ ~dts[e.id].is_in_effect /\ dts[e.id].triggered_by = 0
         /\ dts[e.id].fixed \/ e.at <= now
         /\ \A f \in events : f.kind = "start" /\ f.id = e.id => f = e
    /\ \A e \in events : e.kind = "stop" /\ e.id \in Known => dts[e.id].is_in_effect
    /\ \A x \in Known :
         /\ dts[x].flex_downtime_start <= now
         /\ ~dts[x].is_in_effect /\ dts[x].triggered_by # 0 => dts[x].flex_downtime_start = 0

(* The event a downtime knows as its start is in the queue and of the kind; *)
(* what it knows as its stop is its expiry until it is in effect.           *)
StartPointer(d, x) ==
    d.start_event # NULL =>
        d.start_event \in events /\ d.start_event.id = x /\ d.start_event.kind = "start"
StopPointer(d, x) ==
    d.stop_event # NULL =>
        /\ d.stop_event \in events /\ d.stop_event.id = x
        /\ IF d.is_in_effect THEN d.stop_event.kind = "stop"
           ELSE d.stop_event.kind = "expire" /\ d.stop_event.at = d.end_time + 1
PointerInv == \A x \in Known : StartPointer(dts[x], x) /\ StopPointer(dts[x], x)

(* The list is in the order of downtime_compar, and triggers come before    *)
(* what they trigger.                                                       *)
OrderInv ==
    /\ \A x, y \in Known : Before(dts[x], dts[y]) => <<x, y>> \in list
    /\ SortedTriggers => \A x \in Known : dts[x].triggered_by \in Known =>
                            Before(dts[dts[x].triggered_by], dts[x])

DepthInv == SortedTriggers => DepthMatches /\ ContactsInformed

Inv == /\ TypeOK /\ IsFiniteSet(events) /\ IdsInv /\ TriggerInv /\ EventInv /\ PointerInv /\ OrderInv
       /\ DepthInv /\ NoFreedRead

-----------------------------------------------------------------------------
(* What a downtime triggers, directly or not.                               *)

LEMMA CascadeFacts ==
    ASSUME TypeOK, NEW S \in SUBSET Known
    PROVE  /\ S \subseteq Cascade(S) /\ Cascade(S) \subseteq Known
           /\ \A x \in Cascade(S) \ S : dts[x].triggered_by # 0
           /\ \A x \in Known \ Cascade(S) : dts[x].triggered_by \notin Cascade(S)
<1> DEFINE triggered == {x \in Known \ S : dts[x].triggered_by # 0}
<1>1. Cascade(S) = S \cup {x \in triggered : \A C \in SUBSET triggered : Closed(S \cup C) => x \in C}
  BY DEF Cascade
<1>2. 0 \notin Known
  BY DEF TypeOK, Ids
<1>3. ASSUME NEW x \in Known \ Cascade(S), dts[x].triggered_by \in Cascade(S)
      PROVE  FALSE
  <2>1. x \in triggered
    BY <1>1, <1>2, <1>3
  <2>2. ASSUME NEW C \in SUBSET triggered, Closed(S \cup C)
        PROVE  x \in C
    <3>1. dts[x].triggered_by \in S \cup C
      BY <1>1, <1>3, <2>2
    <3>2. QED
      BY <1>1, <1>3, <2>2, <3>1 DEF Closed
  <2>3. QED
    BY <1>1, <1>3, <2>1, <2>2
<1>4. QED
  BY <1>1, <1>3

LEMMA CascadeLeast ==
    ASSUME NEW S \in SUBSET Known, NEW C \in SUBSET {x \in Known \ S : dts[x].triggered_by # 0},
           Closed(S \cup C)
    PROVE  Cascade(S) \subseteq S \cup C
BY DEF Cascade

(* Nothing that a downtime not in effect triggers is in effect.             *)
LEMMA UnstartedCascade ==
    ASSUME TypeOK, TriggerInv, NEW S \in SUBSET Known, InEffect(S) = {}
    PROVE  InEffect(Cascade(S)) = {}
<1> DEFINE C == {x \in Known \ S : dts[x].triggered_by # 0 /\ ~dts[x].is_in_effect}
<1>1. 0 \notin Known
  BY DEF TypeOK, Ids
<1>2. \A x \in S \cup C : x \in Known /\ ~dts[x].is_in_effect
  BY DEF InEffect
<1>3. Closed(S \cup C)
  BY <1>1, <1>2 DEF Closed, TriggerInv, InEffect
<1>4. Cascade(S) \subseteq S \cup C
  BY <1>3, CascadeLeast
<1>5. QED
  BY <1>2, <1>4 DEF InEffect

-----------------------------------------------------------------------------
(* Events, and how many downtimes are in effect.                            *)

LEMMA ImageFinite ==
    ASSUME NEW S, IsFiniteSet(S), NEW f, DOMAIN f = S
    PROVE  IsFiniteSet({f[x] : x \in S})
<1>1. [x \in S |-> f[x]] \in Surjection(S, {f[x] : x \in S})
  BY DEF Surjection
<1>2. QED
  BY <1>1, FS_Surjection

LEMMA EventType ==
    ASSUME NEW q \in SUBSET Event, IsFiniteSet(q), NEW kind \in {"start", "stop", "expire"},
           NEW id \in Ids, NEW at \in Nat
    PROVE  LET e == schedule_event(q, kind, id, at)
           IN  e \in Event /\ e.kind = kind /\ e.id = id /\ e.at = at
<1> DEFINE same == {f \in q : f.kind = kind /\ f.id = id /\ f.at = at}
           used == {e.n : e \in same}
           num == CHOOSE n \in 0..Cardinality(used) : n \notin used
<1>1. IsFiniteSet(used)
  <2>1. IsFiniteSet(same)
    BY FS_Subset
  <2>2. PICK g : g = [e \in same |-> e.n]
    OBVIOUS
  <2>3. IsFiniteSet({g[e] : e \in same})
    BY <2>1, <2>2, ImageFinite
  <2>4. used = {g[e] : e \in same}
    BY <2>2
  <2>5. QED
    BY <2>3, <2>4
<1> HIDE DEF used
<1>2. Cardinality(used) \in Nat
  BY <1>1, FS_CardinalityType
<1>3. \E n \in 0..Cardinality(used) : n \notin used
  <2> SUFFICES ASSUME 0..Cardinality(used) \subseteq used PROVE FALSE
    OBVIOUS
  <2>1. Cardinality(0..Cardinality(used)) = Cardinality(used) + 1
    BY <1>2, FS_Interval
  <2>2. Cardinality(0..Cardinality(used)) <= Cardinality(used)
    BY <1>1, FS_Subset
  <2>3. QED
    BY <1>2, <2>1, <2>2
<1>4. num \in Nat
  BY <1>2, <1>3
<1>5. schedule_event(q, kind, id, at) = [kind |-> kind, id |-> id, at |-> at, n |-> num]
  BY DEF schedule_event, used
<1> HIDE DEF num
<1>6. QED
  BY <1>4, <1>5 DEF Event

LEMMA KnownFinite ==
    ASSUME TypeOK
    PROVE  /\ IsFiniteSet(Known)
           /\ \A S \in SUBSET Known : IsFiniteSet(S) /\ Cardinality(S) \in Nat
<1>1. IsFiniteSet(Ids)
  BY DowntimeAssumption, FS_Interval DEF Ids
<1>2. QED
  BY <1>1, FS_Subset, FS_CardinalityType DEF TypeOK

-----------------------------------------------------------------------------
(* Downtimes S are deleted, with all that they trigger and that is in       *)
(* effect; new events are of deleted downtimes only.                        *)

Removes(S) ==
    /\ Delete(S)
    /\ \A x \in InEffect(Known) \ S : dts[x].triggered_by \notin S
    /\ events' \subseteq Event /\ IsFiniteSet(events')
    /\ \A e \in events' \ events : e.id \in S
    /\ \A x \in Known \ S : \A e \in {dts[x].start_event, dts[x].stop_event} :
         e # NULL => e \in events'
    /\ depth' = Less(InEffect(S))
    /\ \E X : /\ told' = [o \in Objects |-> told[o] /\ ~(depth'[o] = 0 /\ X[o])]
              /\ \A o \in Objects : On(InEffect(S), o) # {} => X[o]
    /\ UNCHANGED <<now, next_downtime_id, freedRead>>

LEMMA RemovesKeeps ==
    ASSUME Inv, NEW S \in SUBSET Known, Removes(S)
    PROVE  Inv'
<1> USE DEF Inv
<1>1. /\ Known' = Known \ S /\ \A x \in Known' : dts'[x] = dts[x]
      /\ dts' \in [Known' -> scheduled_downtime]
      /\ list' = list \cap ((Known \ S) \X (Known \ S)) /\ comments' = comments \ S
  BY DEF Removes, Delete, Restrict, Known, TypeOK
<1>2. /\ now' = now /\ next_downtime_id' = next_downtime_id /\ freedRead' = freedRead
      /\ depth' = Less(InEffect(S)) /\ events' \subseteq Event /\ IsFiniteSet(events')
  BY DEF Removes
<1>3. InEffect(S) \subseteq Known /\ InEffect(S) \subseteq InEffect(Known)
  BY DEF InEffect
<1>4. \A o \in Objects : /\ Cardinality(On(InEffect(S), o)) \in Nat
                         /\ IsFiniteSet(On(InEffect(S), o)) /\ IsFiniteSet(On(InEffect(Known), o))
                         /\ Cardinality(On(InEffect(Known), o)) \in Nat
  BY KnownFinite DEF On, InEffect
<1>5. \A o \in Objects : depth[o] \in Nat /\ depth'[o] \in Nat /\ depth'[o] <= depth[o]
  BY <1>2, <1>4 DEF Less, TypeOK
<1>6. TypeOK'
  <2>1. depth' \in [Objects -> Nat]
    BY <1>2, <1>5 DEF Less
  <2>2. told' \in [Objects -> BOOLEAN]
    BY DEF Removes
  <2>3. list' \subseteq Known' \X Known'
    BY <1>1
  <2>4. \A x, y \in Known' : <<x, y>> \in list' <=> x # y /\ <<y, x>> \notin list'
    BY <1>1 DEF TypeOK
  <2>5. QED
    BY <1>1, <1>2, <2>1, <2>2, <2>3, <2>4 DEF TypeOK
<1>7. IdsInv'
  <2>1. \A e \in events' : e.id < next_downtime_id
    BY DEF Removes, IdsInv
  <2>2. QED
    BY <1>1, <1>2, <2>1 DEF IdsInv
<1>8. TriggerInv'
  <2> SUFFICES ASSUME NEW x \in Known', dts'[x].is_in_effect, dts'[x].triggered_by # 0
               PROVE  /\ dts'[x].triggered_by \in Known'
                      /\ dts'[dts'[x].triggered_by].is_in_effect
    BY DEF TriggerInv, InEffect
  <2>1. x \in InEffect(Known) \ S /\ dts'[x] = dts[x]
    BY <1>1 DEF InEffect
  <2>2. dts[x].triggered_by \notin S /\ dts[x].triggered_by \in InEffect(Known)
    BY <2>1 DEF Removes, TriggerInv
  <2>3. QED
    BY <1>1, <2>1, <2>2 DEF InEffect
<1>9. EventInv'
  <2>1. \A e \in events' : e.id \in Known' => e \in events /\ e.id \in Known /\ dts'[e.id] = dts[e.id]
    BY <1>1 DEF Removes
  <2>2. \A e \in events' : e.kind = "start" /\ e.id \in Known' =>
         /\ ~dts'[e.id].is_in_effect /\ dts'[e.id].triggered_by = 0
         /\ dts'[e.id].fixed \/ e.at <= now'
    BY <1>2, <2>1 DEF EventInv
  <2>3. \A e, f \in events' : e.kind = "start" /\ e.id \in Known' =>
                              (f.kind = "start" /\ f.id = e.id => f = e)
    BY <2>1 DEF EventInv
  <2>4. \A e \in events' : e.kind = "stop" /\ e.id \in Known' => dts'[e.id].is_in_effect
    BY <2>1 DEF EventInv
  <2>5. \A x \in Known' :
         /\ dts'[x].flex_downtime_start <= now'
         /\ ~dts'[x].is_in_effect /\ dts'[x].triggered_by # 0 => dts'[x].flex_downtime_start = 0
    BY <1>1, <1>2 DEF EventInv
  <2>6. QED
    BY <2>2, <2>3, <2>4, <2>5 DEF EventInv
<1>10. PointerInv'
  <2> SUFFICES ASSUME NEW x \in Known'
               PROVE  StartPointer(dts[x], x)' /\ StopPointer(dts[x], x)'
    BY DEF PointerInv
  <2>1. /\ dts'[x] = dts[x] /\ StartPointer(dts[x], x) /\ StopPointer(dts[x], x)
        /\ dts[x].start_event # NULL => dts[x].start_event \in events'
        /\ dts[x].stop_event # NULL => dts[x].stop_event \in events'
    BY <1>1 DEF PointerInv, Removes
  <2>2. QED
    BY <2>1 DEF StartPointer, StopPointer
<1>11. OrderInv'
  BY <1>1 DEF OrderInv, Before
<1>12. DepthInv'
  <2> SUFFICES ASSUME SortedTriggers, NEW o \in Objects
               PROVE  /\ depth'[o] = Cardinality(On(InEffect(Known), o)')
                      /\ told'[o] <=> depth'[o] > 0
    BY DEF DepthInv, DepthMatches, ContactsInformed
  <2> DEFINE A == On(InEffect(Known), o)
             B == On(InEffect(S), o)
  <2>1. On(InEffect(Known), o)' = A \ B /\ B \subseteq A
    BY <1>1 DEF On, InEffect
  <2>2. depth[o] = Cardinality(A) /\ (told[o] <=> depth[o] > 0)
    BY DEF DepthInv, DepthMatches, ContactsInformed
  <2>3. depth'[o] = IF depth[o] > Cardinality(B) THEN depth[o] - Cardinality(B) ELSE 0
    BY <1>2 DEF Less
  <2>4. IsFiniteSet(A) /\ IsFiniteSet(B) /\ Cardinality(A) \in Nat /\ Cardinality(B) \in Nat
    BY <1>4
  <2> HIDE DEF A, B
  <2>5. Cardinality(A \ B) = Cardinality(A) - Cardinality(B) /\ Cardinality(B) <= Cardinality(A)
    <3>1. A \cap B = B
      BY <2>1
    <3>2. QED
      BY <2>1, <2>4, <3>1, FS_Difference, FS_Subset
  <2>6. depth'[o] = Cardinality(A \ B)
    BY <2>2, <2>3, <2>4, <2>5
  <2>7. told'[o] <=> depth'[o] > 0
    <3>1. PICK X : /\ told' = [p \in Objects |-> told[p] /\ ~(depth'[p] = 0 /\ X[p])]
                   /\ \A p \in Objects : On(InEffect(S), p) # {} => X[p]
      BY DEF Removes
    <3>2. (B # {} => X[o]) /\ (told'[o] <=> told[o] /\ ~(depth'[o] = 0 /\ X[o]))
      BY <3>1 DEF B
    <3>3. B = {} => depth'[o] = depth[o]
      BY <2>3, <1>5, FS_EmptySet
    <3>4. depth'[o] > 0 => depth[o] > 0
      BY <1>5
    <3>5. depth'[o] = 0 \/ depth'[o] > 0
      BY <1>5
    <3>6. ~(depth'[o] = 0 /\ depth'[o] > 0)
      BY <1>5
    <3>7. QED
      BY <2>2, <3>2, <3>3, <3>4, <3>5, <3>6
  <2>8. QED
    BY <2>1, <2>6, <2>7
<1>13. QED
  BY <1>2, <1>6, <1>7, <1>8, <1>9, <1>10, <1>11, <1>12 DEF NoFreedRead

LEMMA UnscheduleKeeps ==
    ASSUME Inv, NEW S \in SUBSET Known, unschedule_downtime(S)
    PROVE  Inv'
<1> DEFINE all == Cascade(S)
           gone == UNION {{dts[x].start_event, dts[x].stop_event} : x \in all}
<1>1. all \subseteq Known /\ \A x \in Known \ all : dts[x].triggered_by \notin all
  BY CascadeFacts DEF Inv
<1>2. /\ depth' = Less(InEffect(all)) /\ events' = events \ gone /\ Delete(all)
      /\ told' = [o \in Objects |-> told[o] /\ ~(depth'[o] = 0 /\ On(InEffect(all), o) # {})]
      /\ UNCHANGED <<now, next_downtime_id, freedRead>>
  BY DEF unschedule_downtime
<1> HIDE DEF all
<1>3. \A x \in Known \ all : \A e \in {dts[x].start_event, dts[x].stop_event} :
        e # NULL => e \in events'
  <2> SUFFICES ASSUME NEW x \in Known \ all, NEW e \in {dts[x].start_event, dts[x].stop_event}, e # NULL
               PROVE  e \in events /\ e \notin gone
    BY <1>2
  <2>1. e \in events /\ e.id = x
    BY DEF Inv, PointerInv, StartPointer, StopPointer
  <2>2. ASSUME NEW y \in all, e \in {dts[y].start_event, dts[y].stop_event} PROVE FALSE
    <3>1. e.id = y
      BY <1>1, <2>2 DEF Inv, PointerInv, StartPointer, StopPointer
    <3>2. QED
      BY <2>1, <3>1
  <2>3. QED
    BY <2>1, <2>2
<1>4. /\ \A x \in InEffect(Known) \ all : dts[x].triggered_by \notin all
      /\ events' \subseteq Event /\ IsFiniteSet(events') /\ \A e \in events' \ events : e.id \in all
  BY <1>1, <1>2, FS_Subset DEF Inv, TypeOK, InEffect
<1>5. \E X : /\ told' = [o \in Objects |-> told[o] /\ ~(depth'[o] = 0 /\ X[o])]
             /\ \A o \in Objects : On(InEffect(all), o) # {} => X[o]
  <2>1. PICK X : X = [o \in Objects |-> On(InEffect(all), o) # {}]
    OBVIOUS
  <2>2. /\ told' = [o \in Objects |-> told[o] /\ ~(depth'[o] = 0 /\ X[o])]
        /\ \A o \in Objects : On(InEffect(all), o) # {} => X[o]
    BY <1>2, <2>1
  <2>3. QED
    BY <2>2
<1>6. Removes(all)
  BY <1>2, <1>3, <1>4, <1>5 DEF Removes
<1>7. QED
  BY <1>1, <1>6, RemovesKeeps

(* What a stop finds not in effect triggers nothing that is: the loop over  *)
(* triggered downtimes never starts one only to stop and free another.      *)
LEMMA StopKeeps ==
    ASSUME Inv, NEW e \in events, e.kind = "stop", e.id \in Known,
           handle_scheduled_downtime_stop(e.id, e), UNCHANGED <<now, next_downtime_id>>
    PROVE  Inv'
<1> DEFINE id == e.id
           all == Cascade({id})
           unstarted == all \ ({id} \cup InEffect(all))
           stop(x) == schedule_event(events, "stop", x, StopTime(dts[x]))
<1>0. TypeOK /\ TriggerInv /\ {id} \in SUBSET Known
  BY DEF Inv
<1>1. /\ id \in all /\ all \subseteq Known
      /\ \A x \in Known \ all : dts[x].triggered_by \notin all
  BY <1>0, CascadeFacts
<1>2. dts[id].is_in_effect
  BY DEF Inv, EventInv
<1>3. {id} \cup InEffect(all) = InEffect(all)
  BY <1>1, <1>2 DEF InEffect
<1>4. \A x \in unstarted : InEffect(Cascade({x})) = {}
  <2> SUFFICES ASSUME NEW x \in unstarted PROVE InEffect(Cascade({x})) = {}
    OBVIOUS
  <2>1. {x} \in SUBSET Known /\ InEffect({x}) = {}
    BY <1>1 DEF InEffect
  <2>2. QED
    BY <1>0, <2>1, UnstartedCascade
<1>5. /\ events' = (events \ {e}) \cup {stop(x) : x \in unstarted}
      /\ depth' = Less(InEffect(all)) /\ Delete(all)
      /\ told' = [o \in Objects |-> told[o] /\ ~(depth'[o] = 0 /\ On(all, o) # {})]
      /\ UNCHANGED freedRead
  BY <1>3, <1>4 DEF handle_scheduled_downtime_stop
<1>6. \A x \in all : stop(x) \in Event /\ stop(x).id = x
  <2> SUFFICES ASSUME NEW x \in all PROVE stop(x) \in Event /\ stop(x).id = x
    OBVIOUS
  <2>1. x \in Ids /\ dts[x] \in scheduled_downtime
    BY <1>0, <1>1 DEF TypeOK
  <2>2. StopTime(dts[x]) \in Nat
    BY <2>1 DEF StopTime, scheduled_downtime
  <2>3. QED
    BY <2>1, <2>2, EventType DEF Inv, TypeOK
<1> HIDE DEF all, unstarted, stop
<1>7. IsFiniteSet(events') /\ events' \subseteq Event
  <2>1. IsFiniteSet(unstarted) /\ unstarted \subseteq all
    BY <1>0, <1>1, KnownFinite DEF unstarted
  <2>2. PICK g : g = [x \in unstarted |-> stop(x)]
    OBVIOUS
  <2>3. IsFiniteSet({g[x] : x \in unstarted})
    BY <2>1, <2>2, ImageFinite
  <2>4. {g[x] : x \in unstarted} = {stop(x) : x \in unstarted}
    BY <2>2
  <2>5. IsFiniteSet(events \ {e})
    BY FS_Subset DEF Inv
  <2>6. IsFiniteSet(events')
    BY <1>5, <2>3, <2>4, <2>5, FS_Union
  <2>7. QED
    BY <1>5, <1>6, <2>1, <2>6 DEF Inv, TypeOK
<1>8. \A f \in events' \ events : f.id \in all
  BY <1>5, <1>6 DEF unstarted
<1>9. \A x \in Known \ all : \A f \in {dts[x].start_event, dts[x].stop_event} :
        f # NULL => f \in events'
  BY <1>1, <1>5 DEF Inv, PointerInv, StartPointer, StopPointer
<1>10. \E X : /\ told' = [o \in Objects |-> told[o] /\ ~(depth'[o] = 0 /\ X[o])]
              /\ \A o \in Objects : On(InEffect(all), o) # {} => X[o]
  <2>1. PICK X : X = [o \in Objects |-> On(all, o) # {}]
    OBVIOUS
  <2>2. told' = [o \in Objects |-> told[o] /\ ~(depth'[o] = 0 /\ X[o])]
    BY <1>5, <2>1
  <2>3. \A o \in Objects : On(InEffect(all), o) # {} => On(all, o) # {}
    BY DEF On, InEffect
  <2>4. \A o \in Objects : On(InEffect(all), o) # {} => X[o]
    BY <2>1, <2>3
  <2>5. QED
    BY <2>2, <2>4
<1>11. \A x \in InEffect(Known) \ all : dts[x].triggered_by \notin all
  BY <1>1 DEF InEffect
<1>12. Removes(all)
  BY <1>5, <1>7, <1>8, <1>9, <1>10, <1>11 DEF Removes
<1>13. QED
  BY <1>1, <1>12, RemovesKeeps

LEMMA ExpiredKeeps ==
    ASSUME Inv, NEW e \in events, check_for_expired_downtime(e)
    PROVE  Inv'
<1> DEFINE expired == {x \in Known : ~dts[x].is_in_effect /\ dts[x].end_time <= now}
<1>1. /\ e.kind = "expire" /\ e.at <= now /\ events' = events \ {e} /\ Delete(expired)
      /\ told' = [o \in Objects |-> told[o] /\ ~(depth[o] = 0 /\ On(expired, o) # {})]
      /\ UNCHANGED <<now, next_downtime_id, depth, freedRead>>
  BY DEF check_for_expired_downtime, First, Due
<1>2. InEffect(expired) = {} /\ \A o \in Objects : On(InEffect(expired), o) = {}
  BY DEF InEffect, On
<1>3. depth' = Less(InEffect(expired))
  <2>1. \A o \in Objects : Cardinality(On(InEffect(expired), o)) = 0
    BY <1>2, FS_EmptySet
  <2>2. depth \in [Objects -> Nat]
    BY DEF Inv, TypeOK
  <2>3. Less(InEffect(expired)) = [o \in Objects |-> depth[o]]
    BY <2>1, <2>2 DEF Less
  <2>4. QED
    BY <1>1, <2>2, <2>3
<1>4. \A x \in Known \ expired : \A f \in {dts[x].start_event, dts[x].stop_event} :
        f # NULL => f \in events'
  <2> SUFFICES ASSUME NEW x \in Known \ expired
               PROVE  /\ dts[x].start_event # NULL => dts[x].start_event \in events'
                      /\ dts[x].stop_event # NULL => dts[x].stop_event \in events'
    OBVIOUS
  <2>1. StartPointer(dts[x], x) /\ StopPointer(dts[x], x)
    BY DEF Inv, PointerInv
  <2>2. dts[x].start_event # NULL => dts[x].start_event \in events'
    BY <1>1, <2>1 DEF StartPointer
  <2>3. ASSUME dts[x].stop_event = e, e # NULL PROVE FALSE
    <3>1. ~dts[x].is_in_effect /\ e.at = dts[x].end_time + 1
      BY <1>1, <2>1, <2>3 DEF StopPointer
    <3>2. dts[x].end_time \in Nat /\ now \in Nat
      BY DowntimeAssumption DEF Inv, TypeOK, scheduled_downtime
    <3>3. QED
      BY <1>1, <3>1, <3>2
  <2>4. QED
    BY <1>1, <2>1, <2>2, <2>3 DEF StopPointer
<1>5. \A x \in InEffect(Known) \ expired : dts[x].triggered_by \notin expired
  <2> SUFFICES ASSUME NEW x \in InEffect(Known), dts[x].triggered_by \in expired PROVE FALSE
    OBVIOUS
  <2>1. 0 \notin Known
    BY DEF Inv, TypeOK, Ids
  <2>2. QED
    BY <2>1 DEF Inv, TriggerInv, InEffect
<1>6. \E X : /\ told' = [o \in Objects |-> told[o] /\ ~(depth'[o] = 0 /\ X[o])]
             /\ \A o \in Objects : On(InEffect(expired), o) # {} => X[o]
  <2>1. PICK X : X = [o \in Objects |-> On(expired, o) # {}]
    OBVIOUS
  <2>2. told' = [o \in Objects |-> told[o] /\ ~(depth'[o] = 0 /\ X[o])]
    BY <1>1, <2>1
  <2>3. QED
    BY <1>2, <2>2
<1>7. events' \subseteq Event /\ IsFiniteSet(events') /\ \A f \in events' \ events : f.id \in expired
  BY <1>1, FS_Subset DEF Inv, TypeOK
<1> HIDE DEF expired
<1>8. Removes(expired)
  BY <1>1, <1>3, <1>4, <1>5, <1>6, <1>7 DEF Removes
<1>9. expired \in SUBSET Known
  BY DEF expired
<1>10. QED
  BY <1>8, <1>9, RemovesKeeps

(* An event of a downtime that is gone changes nothing.                     *)
LEMMA GoneKeeps ==
    ASSUME Inv, NEW e \in events, Gone(e), UNCHANGED <<now, next_downtime_id>>
    PROVE  Inv'
<1>1. /\ e.id \notin Known /\ events' = events \ {e}
      /\ UNCHANGED <<dts, list, depth, told, comments, freedRead, now, next_downtime_id>>
  BY DEF Gone
<1>2. events' \subseteq events /\ IsFiniteSet(events') /\ Known' = Known
  BY <1>1, FS_Subset DEF Inv, Known
<1>3. TypeOK' /\ IdsInv' /\ TriggerInv' /\ OrderInv' /\ DepthInv' /\ NoFreedRead'
  BY <1>1, <1>2 DEF Inv, TypeOK, Known, IdsInv, TriggerInv, InEffect, OrderInv, Before, DepthInv,
                   DepthMatches, ContactsInformed, On, NoFreedRead
<1>4. EventInv'
  BY <1>1, <1>2 DEF Inv, EventInv
<1>5. PointerInv'
  <2> SUFFICES ASSUME NEW x \in Known'
               PROVE  StartPointer(dts[x], x)' /\ StopPointer(dts[x], x)'
    BY DEF PointerInv
  <2>1. x \in Known /\ x # e.id /\ StartPointer(dts[x], x) /\ StopPointer(dts[x], x)
    BY <1>1, <1>2 DEF Inv, PointerInv
  <2>2. QED
    BY <1>1, <2>1 DEF StartPointer, StopPointer
<1>6. QED
  BY <1>2, <1>3, <1>4, <1>5 DEF Inv

-----------------------------------------------------------------------------
(* A downtime starts, with all that it triggers.                            *)

LEMMA CascadeTriggered ==
    ASSUME TypeOK, NEW S \in SUBSET Known
    PROVE  \A x \in Cascade(S) \ S : dts[x].triggered_by \in Cascade(S)
<1> DEFINE C == {x \in Cascade(S) \ S : dts[x].triggered_by \in Cascade(S)}
<1>1. /\ S \subseteq Cascade(S) /\ Cascade(S) \subseteq Known
      /\ \A x \in Cascade(S) \ S : dts[x].triggered_by # 0
      /\ \A x \in Known \ Cascade(S) : dts[x].triggered_by \notin Cascade(S)
  BY CascadeFacts
<1>2. C \in SUBSET {x \in Known \ S : dts[x].triggered_by # 0}
  BY <1>1
<1>3. Closed(S \cup C)
  BY <1>1 DEF Closed
<1>4. Cascade(S) \subseteq S \cup C
  BY <1>2, <1>3, CascadeLeast
<1>5. QED
  BY <1>4

(* How a start changes downtime d: fl is the start of the flexible downtime *)
(* that it takes over, se and pe what it then knows as its events.          *)
Begun(d, p, fl, pe) ==
    /\ p \in scheduled_downtime
    /\ p.object = d.object /\ p.start_time = d.start_time /\ p.end_time = d.end_time
    /\ p.fixed = d.fixed /\ p.triggered_by = d.triggered_by
    /\ p.is_in_effect /\ p.flex_downtime_start = fl /\ p.stop_event = pe

BegunAs(d, fl, se, pe) ==
    [d EXCEPT !.flex_downtime_start = fl, !.is_in_effect = TRUE, !.start_event = se, !.stop_event = pe]

LEMMA BegunFields ==
    ASSUME NEW d \in scheduled_downtime, NEW fl \in Nat, NEW se \in Event \cup {NULL}, NEW pe \in Event
    PROVE  Begun(d, BegunAs(d, fl, se, pe), fl, pe) /\ BegunAs(d, fl, se, pe).start_event = se
BY DEF scheduled_downtime, Begun, BegunAs

LEMMA StartKeeps ==
    ASSUME Inv, NEW e \in events, e.kind = "start", e.id \in Known,
           handle_scheduled_downtime_start(e.id, e), UNCHANGED <<now, next_downtime_id>>
    PROVE  Inv'
<1> DEFINE id == e.id
           all == Cascade({id})
           stop(x) == schedule_event(events, "stop", x, StopTime(Started(x, id)))
<1>0. /\ TypeOK /\ TriggerInv /\ {id} \in SUBSET Known /\ ~dts[id].is_in_effect
      /\ dts[id].triggered_by = 0
  BY DEF Inv, EventInv
<1>1. id \in all /\ all \subseteq Known /\ \A x \in all \ {id} : dts[x].triggered_by # 0
  BY <1>0, CascadeFacts
<1>2. \A x \in all \ {id} : dts[x].triggered_by \in all
  BY <1>0, CascadeTriggered
<1>3. InEffect(all) = {} /\ \A x \in all : ~dts[x].is_in_effect
  <2>1. InEffect({id}) = {}
    BY <1>0 DEF InEffect
  <2>2. InEffect(all) = {}
    BY <1>0, <2>1, UnstartedCascade
  <2>3. QED
    BY <2>2 DEF InEffect
<1>4. /\ dts' = [x \in Known |->
                   IF x \in all THEN [Started(x, id) EXCEPT !.stop_event = stop(x)] ELSE dts[x]]
      /\ events' = (events \ {e}) \cup {stop(x) : x \in all}
      /\ depth' = [o \in Objects |-> depth[o] + Cardinality(On(all, o))]
      /\ told' = [o \in Objects |-> told[o] \/ (depth[o] = 0 /\ On(all, o) # {})]
      /\ UNCHANGED <<list, comments, freedRead, now, next_downtime_id>>
  <2>1. InEffect(all \ {id}) = {}
    BY <1>3 DEF InEffect
  <2>2. QED
    BY <2>1 DEF handle_scheduled_downtime_start
<1>5. \A x \in Known : dts[x] \in scheduled_downtime /\ x \in Ids
  BY <1>0 DEF TypeOK
<1>6. \A x \in all : /\ stop(x) \in Event /\ stop(x).id = x /\ stop(x).kind = "stop"
  <2> SUFFICES ASSUME NEW x \in all
               PROVE  stop(x) \in Event /\ stop(x).id = x /\ stop(x).kind = "stop"
    OBVIOUS
  <2>1. StopTime(Started(x, id)) \in Nat
    BY <1>0, <1>1, <1>5 DEF StopTime, Started, scheduled_downtime
  <2>2. PICK at \in Nat : at = StopTime(Started(x, id))
    BY <2>1
  <2>3. events \in SUBSET Event /\ IsFiniteSet(events) /\ x \in Ids
    BY <1>1, <1>5 DEF Inv, TypeOK
  <2>4. PICK f : f = schedule_event(events, "stop", x, at)
    OBVIOUS
  <2>5. f \in Event /\ f.id = x /\ f.kind = "stop"
    BY <2>3, <2>4, EventType
  <2>6. QED
    BY <2>2, <2>4, <2>5
<1> HIDE DEF all, stop
<1>7. Known' = Known /\ \A x \in Known \ all : dts'[x] = dts[x]
  BY <1>4 DEF Known
<1>8. \A x \in all : /\ Begun(dts[x], dts'[x], dts[id].flex_downtime_start, stop(x))
                     /\ dts'[x].start_event = IF x = id THEN NULL ELSE dts[x].start_event
  <2> SUFFICES ASSUME NEW x \in all
               PROVE  /\ Begun(dts[x], dts'[x], dts[id].flex_downtime_start, stop(x))
                      /\ dts'[x].start_event = IF x = id THEN NULL ELSE dts[x].start_event
    OBVIOUS
  <2>1. dts[x] \in scheduled_downtime /\ dts[id].flex_downtime_start \in Nat /\ stop(x) \in Event
    BY <1>0, <1>1, <1>5, <1>6 DEF scheduled_downtime
  <2>2. PICK se : se = IF x = id THEN NULL ELSE dts[x].start_event
    OBVIOUS
  <2>3. se \in Event \cup {NULL}
    BY <2>1, <2>2 DEF scheduled_downtime
  <2>4. dts'[x] = BegunAs(dts[x], dts[id].flex_downtime_start, se, stop(x))
    BY <1>1, <1>4, <2>2 DEF Started, BegunAs
  <2>5. PICK d, fl, pe : d = dts[x] /\ fl = dts[id].flex_downtime_start /\ pe = stop(x)
    OBVIOUS
  <2>6. PICK p : p = BegunAs(d, fl, se, pe)
    OBVIOUS
  <2>7. Begun(d, p, fl, pe) /\ p.start_event = se
    BY <2>1, <2>3, <2>5, <2>6, BegunFields
  <2>8. dts'[x] = p
    BY <2>4, <2>5, <2>6
  <2>9. QED
    BY <2>2, <2>5, <2>7, <2>8
<1>9. \A x \in Known : /\ dts'[x] \in scheduled_downtime
                       /\ dts'[x].object = dts[x].object /\ dts'[x].start_time = dts[x].start_time
                       /\ dts'[x].triggered_by = dts[x].triggered_by
                       /\ dts'[x].is_in_effect <=> dts[x].is_in_effect \/ x \in all
  BY <1>5, <1>7, <1>8 DEF Begun
<1>10. IsFiniteSet(events') /\ events' \subseteq Event
  <2>1. IsFiniteSet(all)
    BY <1>0, <1>1, KnownFinite
  <2>2. PICK g : g = [x \in all |-> stop(x)]
    OBVIOUS
  <2>3. IsFiniteSet({g[x] : x \in all})
    BY <2>1, <2>2, ImageFinite
  <2>4. {g[x] : x \in all} = {stop(x) : x \in all}
    BY <2>2
  <2>5. IsFiniteSet(events \ {e})
    BY FS_Subset DEF Inv
  <2>6. IsFiniteSet(events')
    BY <1>4, <2>3, <2>4, <2>5, FS_Union
  <2>7. QED
    BY <1>4, <1>6, <2>6 DEF Inv, TypeOK
<1>11. \A o \in Objects : /\ IsFiniteSet(On(all, o)) /\ Cardinality(On(all, o)) \in Nat
                          /\ IsFiniteSet(On(InEffect(Known), o))
                          /\ Cardinality(On(InEffect(Known), o)) \in Nat
  BY <1>0, <1>1, KnownFinite DEF On, InEffect
<1>12. TypeOK'
  <2>1. depth' \in [Objects -> Nat]
    BY <1>0, <1>4, <1>11 DEF TypeOK
  <2>2. told' \in [Objects -> BOOLEAN]
    BY <1>4
  <2>3. dts' \in [Known' -> scheduled_downtime]
    BY <1>4, <1>7, <1>9
  <2>4. QED
    BY <1>0, <1>4, <1>7, <1>10, <2>1, <2>2, <2>3 DEF TypeOK
<1>13. IdsInv'
  <2>1. \A f \in events' : f.id < next_downtime_id
    BY <1>1, <1>4, <1>6 DEF Inv, IdsInv
  <2>2. QED
    BY <1>4, <1>7, <1>9, <2>1 DEF Inv, IdsInv
<1>14. TriggerInv'
  <2> SUFFICES ASSUME NEW x \in Known', dts'[x].is_in_effect, dts'[x].triggered_by # 0
               PROVE  /\ dts'[x].triggered_by \in Known'
                      /\ dts'[dts'[x].triggered_by].is_in_effect
    BY DEF TriggerInv, InEffect
  <2>1. CASE x \in all
    BY <1>0, <1>1, <1>2, <1>7, <1>9, <2>1
  <2>2. CASE x \notin all
    <3>1. x \in InEffect(Known) /\ dts'[x].triggered_by = dts[x].triggered_by
      BY <1>7, <1>9, <2>2 DEF InEffect
    <3>2. dts[x].triggered_by \in InEffect(Known)
      BY <1>0, <3>1 DEF TriggerInv
    <3>3. QED
      BY <1>7, <1>9, <3>1, <3>2 DEF InEffect
  <2>3. QED
    BY <2>1, <2>2
<1>15. EventInv'
  <2>1. ASSUME NEW f \in events', f.kind = "start", f.id \in Known'
        PROVE  f \in events /\ f.id \in Known \ all /\ dts'[f.id] = dts[f.id]
    <3>1. f \in events /\ f # e
      BY <1>4, <1>6, <2>1
    <3>2. f.id # id /\ dts[f.id].triggered_by = 0
      BY <1>7, <2>1, <3>1 DEF Inv, EventInv
    <3>3. QED
      BY <1>1, <1>7, <2>1, <3>1, <3>2
  <2>2. \A f \in events' : f.kind = "start" /\ f.id \in Known' =>
         /\ ~dts'[f.id].is_in_effect /\ dts'[f.id].triggered_by = 0
         /\ dts'[f.id].fixed \/ f.at <= now'
    BY <1>4, <2>1 DEF Inv, EventInv
  <2>3. \A f, g \in events' : f.kind = "start" /\ f.id \in Known' =>
                              (g.kind = "start" /\ g.id = f.id => g = f)
    BY <2>1 DEF Inv, EventInv
  <2>4. ASSUME NEW f \in events', f.kind = "stop", f.id \in Known'
        PROVE  dts'[f.id].is_in_effect
    <3>1. CASE f \in events
      BY <1>7, <1>9, <2>4, <3>1 DEF Inv, EventInv
    <3>2. CASE f \in {stop(x) : x \in all}
      BY <1>6, <1>7, <1>9, <2>4, <3>2
    <3>3. QED
      BY <1>4, <3>1, <3>2
  <2>5. ASSUME NEW x \in Known'
        PROVE  /\ dts'[x].flex_downtime_start <= now'
               /\ ~dts'[x].is_in_effect /\ dts'[x].triggered_by # 0 => dts'[x].flex_downtime_start = 0
    <3>1. CASE x \in all
      <4>1. dts[id].flex_downtime_start <= now /\ now' = now
        BY <1>0, <1>4 DEF Inv, EventInv
      <4>2. dts'[x].flex_downtime_start = dts[id].flex_downtime_start /\ dts'[x].is_in_effect
        BY <1>8, <3>1 DEF Begun
      <4>3. QED
        BY <4>1, <4>2
    <3>2. CASE x \notin all
      BY <1>4, <1>7, <2>5, <3>2 DEF Inv, EventInv
    <3>3. QED
      BY <3>1, <3>2
  <2>6. QED
    BY <2>2, <2>3, <2>4, <2>5 DEF EventInv
<1>16. PointerInv'
  <2> SUFFICES ASSUME NEW x \in Known'
               PROVE  StartPointer(dts[x], x)' /\ StopPointer(dts[x], x)'
    BY DEF PointerInv
  <2>1. x \in Known /\ StartPointer(dts[x], x) /\ StopPointer(dts[x], x)
    BY <1>7 DEF Inv, PointerInv
  <2>2. \A f \in events : f.id = x /\ x # id => f \in events'
    BY <1>4
  <2>3. CASE x \in all
    <3>1. StartPointer(dts[x], x)'
      BY <1>8, <2>1, <2>2, <2>3 DEF StartPointer
    <3>2. StopPointer(dts[x], x)'
      <4>1. dts'[x].stop_event = stop(x) /\ dts'[x].is_in_effect
        BY <1>8, <2>3 DEF Begun
      <4>2. stop(x) \in events' /\ stop(x).id = x /\ stop(x).kind = "stop"
        BY <1>4, <1>6, <2>3
      <4>3. QED
        BY <4>1, <4>2 DEF StopPointer
    <3>3. QED
      BY <3>1, <3>2
  <2>4. CASE x \notin all
    <3>1. dts'[x] = dts[x] /\ x # id
      BY <1>1, <1>7, <2>1, <2>4
    <3>2. QED
      BY <2>1, <2>2, <3>1 DEF StartPointer, StopPointer
  <2>5. QED
    BY <2>3, <2>4
<1>17. OrderInv'
  <2>1. \A x, y \in Known : Before(dts'[x], dts'[y]) <=> Before(dts[x], dts[y])
    BY <1>9 DEF Before
  <2>2. \A x, y \in Known' : Before(dts'[x], dts'[y]) => <<x, y>> \in list'
    BY <1>4, <1>7, <2>1 DEF Inv, OrderInv
  <2>3. ASSUME SortedTriggers, NEW x \in Known', dts'[x].triggered_by \in Known'
        PROVE  Before(dts'[dts'[x].triggered_by], dts'[x])
    <3>1. dts'[x].triggered_by = dts[x].triggered_by /\ x \in Known /\ dts[x].triggered_by \in Known
      BY <1>7, <1>9, <2>3
    <3>2. Before(dts[dts[x].triggered_by], dts[x])
      BY <2>3, <3>1 DEF Inv, OrderInv
    <3>3. QED
      BY <2>1, <3>1, <3>2
  <2>4. QED
    BY <2>2, <2>3 DEF OrderInv
<1>18. DepthInv'
  <2> SUFFICES ASSUME SortedTriggers, NEW o \in Objects
               PROVE  /\ depth'[o] = Cardinality(On(InEffect(Known), o)')
                      /\ told'[o] <=> depth'[o] > 0
    BY DEF DepthInv, DepthMatches, ContactsInformed
  <2> DEFINE A == On(InEffect(Known), o)
             B == On(all, o)
  <2>1. On(InEffect(Known), o)' = A \cup B /\ A \cap B = {}
    BY <1>1, <1>3, <1>7, <1>9 DEF On, InEffect
  <2>2. depth[o] = Cardinality(A) /\ (told[o] <=> depth[o] > 0)
    BY DEF Inv, DepthInv, DepthMatches, ContactsInformed
  <2>3. /\ depth'[o] = depth[o] + Cardinality(B)
        /\ told'[o] <=> told[o] \/ (depth[o] = 0 /\ B # {})
    BY <1>4
  <2>4. IsFiniteSet(A) /\ IsFiniteSet(B) /\ Cardinality(A) \in Nat /\ Cardinality(B) \in Nat
    BY <1>11
  <2> HIDE DEF A, B
  <2>5. Cardinality(A \cup B) = Cardinality(A) + Cardinality(B)
    <3>1. Cardinality(A \cap B) = 0
      BY <2>1, FS_EmptySet
    <3>2. Cardinality(A \cup B) = Cardinality(A) + Cardinality(B) - Cardinality(A \cap B)
      BY <2>4, FS_Union
    <3>3. QED
      BY <2>4, <3>1, <3>2
  <2>6. B # {} <=> Cardinality(B) > 0
    BY <2>4, FS_EmptySet
  <2>7. depth[o] \in Nat /\ depth'[o] \in Nat
    BY <2>2, <2>3, <2>4
  <2>8. told'[o] <=> depth'[o] > 0
    <3>1. depth'[o] > 0 <=> depth[o] > 0 \/ Cardinality(B) > 0
      BY <2>3, <2>4, <2>7
    <3>2. depth[o] = 0 <=> ~(depth[o] > 0)
      BY <2>7
    <3>3. QED
      BY <2>2, <2>3, <2>6, <3>1, <3>2
  <2>9. QED
    BY <2>1, <2>2, <2>3, <2>5, <2>8
<1>19. QED
  BY <1>4, <1>10, <1>12, <1>13, <1>14, <1>15, <1>16, <1>17, <1>18 DEF Inv, NoFreedRead

-----------------------------------------------------------------------------
(* Registration.                                                            *)

RegisteredAs(d, p) ==
    /\ p \in scheduled_downtime
    /\ p.object = d.object /\ p.start_time = d.start_time /\ p.end_time = d.end_time
    /\ p.fixed = d.fixed /\ p.triggered_by = d.triggered_by
    /\ p.is_in_effect = d.is_in_effect /\ p.flex_downtime_start = d.flex_downtime_start

(* The events A and B that register_downtime schedules for a downtime.      *)
StartsOf(A, x, d) ==
    /\ A \subseteq Event /\ IsFiniteSet(A) /\ \A e, f \in A : e = f
    /\ \A e \in A : /\ e.kind = "start" /\ e.id = x /\ ~d.is_in_effect
                    /\ d.fixed => d.triggered_by = 0
                    /\ ~d.fixed => d.flex_downtime_start > 0 /\ e.at = d.flex_downtime_start
StopsOf(B, x, d) ==
    /\ B \subseteq Event /\ IsFiniteSet(B)
    /\ \A e \in B : /\ e.id = x
                    /\ IF d.is_in_effect THEN e.kind = "stop"
                       ELSE e.kind = "expire" /\ e.at = d.end_time + 1

LEMMA StartEventsType ==
    ASSUME NEW q \in SUBSET Event, IsFiniteSet(q), NEW x \in Ids, NEW d \in scheduled_downtime
    PROVE  StartsOf(StartEvents(q, x, d), x, d)
<1>1. d.start_time \in Nat /\ d.flex_downtime_start \in Nat
  BY DEF scheduled_downtime
<1>2. PICK e, f : /\ e = schedule_event(q, "start", x, d.start_time)
                  /\ f = schedule_event(q, "start", x, d.flex_downtime_start)
  OBVIOUS
<1>3. /\ e \in Event /\ e.kind = "start" /\ e.id = x
      /\ f \in Event /\ f.kind = "start" /\ f.id = x /\ f.at = d.flex_downtime_start
  BY <1>1, <1>2, EventType
<1>4. IsFiniteSet({}) /\ IsFiniteSet({e}) /\ IsFiniteSet({f})
  BY FS_EmptySet, FS_Singleton
<1>5. StartEvents(q, x, d) = IF d.is_in_effect THEN {}
                             ELSE IF d.fixed THEN IF d.triggered_by = 0 THEN {e} ELSE {}
                             ELSE IF d.flex_downtime_start > 0 THEN {f} ELSE {}
  BY <1>2 DEF StartEvents
<1>6. QED
  BY <1>3, <1>4, <1>5 DEF StartsOf

LEMMA StopEventsType ==
    ASSUME NEW q \in SUBSET Event, IsFiniteSet(q), NEW x \in Ids, NEW d \in scheduled_downtime
    PROVE  StopsOf(StopEvents(q, x, d), x, d)
<1>1. StopTime(d) \in Nat /\ d.end_time + 1 \in Nat
  BY DEF scheduled_downtime, StopTime
<1>2. PICK e, f : /\ e = schedule_event(q, "stop", x, StopTime(d))
                  /\ f = schedule_event(q, "expire", x, d.end_time + 1)
  OBVIOUS
<1>3. /\ e \in Event /\ e.kind = "stop" /\ e.id = x
      /\ f \in Event /\ f.kind = "expire" /\ f.id = x /\ f.at = d.end_time + 1
  BY <1>1, <1>2, EventType
<1>4. IsFiniteSet({}) /\ IsFiniteSet({e}) /\ IsFiniteSet({f})
  BY FS_EmptySet, FS_Singleton
<1>5. StopEvents(q, x, d) = IF d.is_in_effect THEN {e} ELSE IF ~d.fixed THEN {f} ELSE {}
  BY <1>2 DEF StopEvents
<1>6. QED
  BY <1>3, <1>4, <1>5 DEF StopsOf

LEMMA RegisterFields ==
    ASSUME NEW q \in SUBSET Event, IsFiniteSet(q), NEW x \in Ids, NEW d \in scheduled_downtime
    PROVE  LET p == register_downtime(q, x, d)
           IN  /\ RegisteredAs(d, p)
               /\ p.start_event # NULL => p.start_event \in StartEvents(q, x, d)
               /\ p.stop_event # NULL => p.stop_event \in StopEvents(q, x, d)
<1>1. StartEvents(q, x, d) \subseteq Event /\ StopEvents(q, x, d) \subseteq Event
  BY StartEventsType, StopEventsType DEF StartsOf, StopsOf
<1>2. PICK a, b : /\ a = Pointer(StartEvents(q, x, d))
                  /\ b = IF d.is_in_effect THEN NULL ELSE Pointer(StopEvents(q, x, d))
  OBVIOUS
<1>3. /\ a \in Event \cup {NULL} /\ b \in Event \cup {NULL}
      /\ a # NULL => a \in StartEvents(q, x, d)
      /\ b # NULL => b \in StopEvents(q, x, d)
  BY <1>1, <1>2 DEF Pointer
<1>4. PICK p : p = [d EXCEPT !.start_event = a, !.stop_event = b]
  OBVIOUS
<1>5. RegisteredAs(d, p) /\ p.start_event = a /\ p.stop_event = b
  BY <1>3, <1>4 DEF RegisteredAs, scheduled_downtime
<1>6. register_downtime(q, x, d) = p
  BY <1>2, <1>4 DEF register_downtime
<1>7. QED
  BY <1>3, <1>5, <1>6

(* A new downtime has an id that no event and no trigger knows yet.         *)
LEMMA ScheduleKeeps ==
    ASSUME Inv, NEW r \in Requests, NEW t \in 0..next_downtime_id - 1, schedule_downtime(r, t)
    PROVE  Inv'
<1> DEFINE id == next_downtime_id
<1>0. /\ TypeOK /\ id \in Ids /\ id \notin Known /\ id \in Nat /\ now \in Nat /\ t \in Nat
      /\ next_downtime_id' = id + 1 /\ UNCHANGED <<now, depth, told, freedRead>>
      /\ t \in Ids \cup {0} /\ r.start_time \in Nat /\ r.end_time \in Nat
  BY DowntimeAssumption DEF Inv, TypeOK, IdsInv, schedule_downtime, Ids
<1>1. id + 1 \in 1..MaxDowntimes + 1 /\ \A n \in Nat : n < id => n < id + 1
  BY <1>0, DowntimeAssumption DEF Ids
<1>2. PICK d : d = add_downtime(r, t)
  OBVIOUS
<1>3. /\ d \in scheduled_downtime /\ d.triggered_by = t /\ d.flex_downtime_start = 0
      /\ d.is_in_effect = FALSE /\ d.object \in Objects
  <2>1. r \in [object : Objects, start_time : Nat, end_time : Nat, fixed : BOOLEAN, duration : Nat]
    BY DowntimeAssumption
  <2>2. QED
    BY <1>0, <1>2, <2>1 DEF add_downtime, scheduled_downtime
<1>4. CASE UNCHANGED <<dts, list, events, comments>>
  <2>1. Known' = Known
    BY <1>4 DEF Known
  <2>2. TypeOK' /\ TriggerInv' /\ OrderInv' /\ DepthInv' /\ NoFreedRead' /\ EventInv' /\ IsFiniteSet(events')
    BY <1>0, <1>1, <1>4, <2>1 DEF Inv, TypeOK, TriggerInv, InEffect, OrderInv, Before, DepthInv,
          DepthMatches, ContactsInformed, On, NoFreedRead, EventInv
  <2>3. PointerInv'
    BY <1>4, <2>1 DEF Inv, PointerInv, StartPointer, StopPointer
  <2>4. IdsInv'
    <3>1. \A x \in Known : x \in Nat /\ dts[x].triggered_by \in Nat
      BY <1>0 DEF TypeOK, Ids, scheduled_downtime
    <3>2. \A e \in events : e.id \in Nat
      BY <1>0 DEF TypeOK, Ids, Event
    <3>3. QED
      BY <1>0, <1>1, <1>4, <2>1, <3>1, <3>2 DEF Inv, IdsInv
  <2>5. QED
    BY <2>2, <2>3, <2>4 DEF Inv
<1>5. CASE /\ SortedTriggers /\ t # 0 => Before(dts[t], d)
           /\ Accepted(d)
           /\ dts' = [x \in Known \cup {id} |-> IF x = id THEN register_downtime(events, id, d) ELSE dts[x]]
           /\ list' = Inserted(id, d)
           /\ events' = events \cup StartEvents(events, id, d) \cup StopEvents(events, id, d)
           /\ comments' = comments \cup {id}
  <2>1. PICK p : p = register_downtime(events, id, d)
    OBVIOUS
  <2>2. PICK A, B : A = StartEvents(events, id, d) /\ B = StopEvents(events, id, d)
    OBVIOUS
  <2>3. events \in SUBSET Event /\ IsFiniteSet(events)
    BY DEF Inv, TypeOK
  <2>4. StartsOf(A, id, d) /\ StopsOf(B, id, d)
    BY <1>0, <1>3, <2>2, <2>3, StartEventsType, StopEventsType
  <2>5. /\ RegisteredAs(d, p)
        /\ p.start_event # NULL => p.start_event \in A
        /\ p.stop_event # NULL => p.stop_event \in B
    BY <1>0, <1>3, <2>1, <2>2, <2>3, RegisterFields
  <2>6. /\ Known' = Known \cup {id} /\ dts'[id] = p /\ \A x \in Known : dts'[x] = dts[x]
        /\ events' = events \cup A \cup B /\ comments' = comments \cup {id}
        /\ dts' \in [Known \cup {id} -> scheduled_downtime]
    BY <1>0, <1>5, <2>1, <2>2, <2>5 DEF Known, TypeOK, RegisteredAs
  <2>7. \A x \in Known : /\ <<x, id>> \in list' <=> ~Before(d, dts[x])
                         /\ <<id, x>> \in list' <=> Before(d, dts[x])
                         /\ <<id, id>> \notin list'
    BY <1>0, <1>5 DEF Inserted, TypeOK
  <2>8. <<id, id>> \notin list' /\ list' \subseteq Known' \X Known'
    BY <1>0, <1>5, <2>6 DEF Inserted, TypeOK
  <2>9. \A x, y \in Known : <<x, y>> \in list' <=> <<x, y>> \in list
    BY <1>0, <1>5 DEF Inserted
  <2>10. \A e \in events : e.id # id
    BY <1>0, <2>3 DEF Inv, IdsInv, Event, Ids
  <2>11. IsFiniteSet(events') /\ events' \subseteq Event
    <3>1. IsFiniteSet(events \cup A)
      BY <2>3, <2>4, FS_Union DEF StartsOf
    <3>2. QED
      BY <2>3, <2>4, <2>6, <3>1, FS_Union DEF StartsOf, StopsOf
  <2>12. TypeOK'
    <3>1. \A x, y \in Known' : <<x, y>> \in list' <=> x # y /\ <<y, x>> \notin list'
      BY <1>0, <2>6, <2>7, <2>8, <2>9 DEF TypeOK
    <3>2. QED
      BY <1>0, <1>1, <2>6, <2>8, <2>11, <3>1 DEF TypeOK
  <2>13. IdsInv'
    <3>1. \A x \in Known : x \in Nat /\ dts[x].triggered_by \in Nat
      BY <1>0 DEF TypeOK, Ids, scheduled_downtime
    <3>2. \A e \in events : e.id \in Nat
      BY <1>0 DEF TypeOK, Ids, Event
    <3>3. p.triggered_by = t /\ t < id + 1 /\ id < id + 1
      BY <1>0, <1>3, <2>5 DEF RegisteredAs
    <3>4. \A e \in A \cup B : e.id = id
      BY <2>4 DEF StartsOf, StopsOf
    <3>5. \A e \in events' : e.id < id + 1
      BY <1>1, <2>6, <3>2, <3>3, <3>4 DEF Inv, IdsInv
    <3>6. \A x \in Known' : x < id + 1 /\ dts'[x].triggered_by < id + 1
      BY <1>1, <2>6, <3>1, <3>3 DEF Inv, IdsInv
    <3>7. Known' \subseteq comments'
      BY <2>6 DEF Inv, IdsInv
    <3>8. QED
      BY <1>0, <3>5, <3>6, <3>7 DEF IdsInv
  <2>14. p.is_in_effect = FALSE
    BY <1>3, <2>5 DEF RegisteredAs
  <2>15. InEffect(Known)' = InEffect(Known) /\ \A o : On(InEffect(Known), o)' = On(InEffect(Known), o)
    BY <1>0, <2>6, <2>14 DEF InEffect, On
  <2>16. TriggerInv'
    <3> SUFFICES ASSUME NEW x \in InEffect(Known), dts'[x].triggered_by # 0
                 PROVE  dts'[x].triggered_by \in InEffect(Known)
      BY <2>15 DEF TriggerInv
    <3>1. dts'[x] = dts[x]
      BY <2>6 DEF InEffect
    <3>2. QED
      BY <3>1 DEF Inv, TriggerInv
  <2>17. EventInv'
    <3>1. ASSUME NEW e \in events', e.kind = "start", e.id \in Known'
          PROVE  /\ ~dts'[e.id].is_in_effect /\ dts'[e.id].triggered_by = 0
                 /\ dts'[e.id].fixed \/ e.at <= now'
                 /\ \A f \in events' : f.kind = "start" /\ f.id = e.id => f = e
      <4>1. CASE e \in events
        <5>1. e.id \in Known /\ dts'[e.id] = dts[e.id] /\ e.id # id
          BY <2>6, <2>10, <3>1, <4>1
        <5>2. \A f \in events' : f.id = e.id => f \in events
          BY <2>4, <2>6, <5>1 DEF StartsOf, StopsOf
        <5>3. QED
          BY <1>0, <3>1, <4>1, <5>1, <5>2 DEF Inv, EventInv
      <4>2. CASE e \in A
        <5>1. /\ e.id = id /\ (d.fixed => t = 0) /\ d.fixed
          BY <1>3, <2>4, <4>2 DEF StartsOf
        <5>2. \A f \in events' : f.kind = "start" /\ f.id = id => f \in A
          BY <2>4, <2>6, <2>10, <1>3 DEF StopsOf
        <5>3. \A f \in A : f = e
          BY <2>4, <4>2 DEF StartsOf
        <5>4. p.fixed = d.fixed /\ p.triggered_by = t
          BY <1>3, <2>5 DEF RegisteredAs
        <5>5. QED
          BY <2>6, <2>14, <5>1, <5>2, <5>3, <5>4
      <4>3. CASE e \in B
        BY <1>3, <2>4, <3>1, <4>3 DEF StopsOf
      <4>4. QED
        BY <2>6, <4>1, <4>2, <4>3
    <3>2. ASSUME NEW e \in events', e.kind = "stop", e.id \in Known'
          PROVE  dts'[e.id].is_in_effect
      <4>1. e \in events /\ e.id \in Known
        BY <1>3, <2>4, <2>6, <2>10, <3>2 DEF StartsOf, StopsOf
      <4>2. QED
        BY <2>6, <3>2, <4>1 DEF Inv, EventInv
    <3>3. ASSUME NEW x \in Known'
          PROVE  /\ dts'[x].flex_downtime_start <= now'
                 /\ ~dts'[x].is_in_effect /\ dts'[x].triggered_by # 0 => dts'[x].flex_downtime_start = 0
      <4>1. CASE x = id
        BY <1>0, <1>3, <2>5, <2>6, <4>1 DEF RegisteredAs
      <4>2. CASE x \in Known
        BY <1>0, <2>6, <4>2 DEF Inv, EventInv
      <4>3. QED
        BY <2>6, <4>1, <4>2
    <3>4. QED
      BY <3>1, <3>2, <3>3 DEF EventInv
  <2>18. PointerInv'
    <3> SUFFICES ASSUME NEW x \in Known'
                 PROVE  StartPointer(dts[x], x)' /\ StopPointer(dts[x], x)'
      BY DEF PointerInv
    <3>1. CASE x = id
      <4>1. StartPointer(dts[x], x)'
        BY <2>4, <2>5, <2>6, <3>1 DEF StartPointer, StartsOf
      <4>2. StopPointer(dts[x], x)'
        BY <1>3, <2>4, <2>5, <2>6, <3>1 DEF StopPointer, StopsOf, RegisteredAs
      <4>3. QED
        BY <4>1, <4>2
    <3>2. CASE x \in Known
      <4>1. dts'[x] = dts[x] /\ StartPointer(dts[x], x) /\ StopPointer(dts[x], x)
        BY <2>6, <3>2 DEF Inv, PointerInv
      <4>2. QED
        BY <2>6, <4>1 DEF StartPointer, StopPointer
    <3>3. QED
      BY <2>6, <3>1, <3>2
  <2>19. OrderInv'
    <3>1. \A y \in Known : /\ Before(p, dts[y]) <=> Before(d, dts[y])
                           /\ Before(dts[y], p) <=> Before(dts[y], d)
      BY <2>5 DEF Before, RegisteredAs
    <3>2. /\ \A y \in Known : Before(dts[y], d) => ~Before(d, dts[y])
          /\ ~Before(p, p)
      <4>1. d.start_time \in Nat /\ p.start_time \in Nat /\ \A y \in Known : dts[y].start_time \in Nat
        BY <1>0, <1>3, <2>5 DEF TypeOK, scheduled_downtime, RegisteredAs
      <4>2. QED
        BY <4>1 DEF Before
    <3>3. \A x, y \in Known' : Before(dts'[x], dts'[y]) => <<x, y>> \in list'
      BY <2>6, <2>7, <2>9, <3>1, <3>2 DEF Inv, OrderInv
    <3>4. ASSUME SortedTriggers, NEW x \in Known', dts'[x].triggered_by \in Known'
          PROVE  Before(dts'[dts'[x].triggered_by], dts'[x])
      <4>1. CASE x = id
        <5>1. dts'[x].triggered_by = t /\ dts'[x] = p /\ t # id /\ t # 0
          BY <1>0, <1>3, <2>5, <2>6, <3>4, <4>1 DEF RegisteredAs, TypeOK, Ids
        <5>2. t \in Known /\ dts'[t] = dts[t] /\ Before(dts[t], d)
          BY <1>5, <2>6, <3>4, <5>1
        <5>3. QED
          BY <3>1, <5>1, <5>2
      <4>2. CASE x \in Known
        <5>1. dts'[x] = dts[x] /\ dts[x].triggered_by # id
          BY <1>0, <2>6, <4>2 DEF Inv, IdsInv, TypeOK, scheduled_downtime, Ids
        <5>2. dts[x].triggered_by \in Known
          BY <2>6, <3>4, <5>1
        <5>3. QED
          BY <2>6, <3>4, <4>2, <5>1, <5>2 DEF Inv, OrderInv
      <4>3. QED
        BY <2>6, <4>1, <4>2
    <3>5. QED
      BY <3>3, <3>4 DEF OrderInv
  <2>20. DepthInv' /\ NoFreedRead'
    BY <1>0, <2>15 DEF Inv, DepthInv, DepthMatches, ContactsInformed, NoFreedRead
  <2>21. QED
    BY <2>11, <2>12, <2>13, <2>16, <2>17, <2>18, <2>19, <2>20 DEF Inv
<1>6. QED
  BY <1>2, <1>4, <1>5 DEF schedule_downtime

(* With no event due, a flexible downtime that is not in effect has no      *)
(* start event yet.                                                         *)
LEMMA PendingKeeps ==
    ASSUME Prompt, Inv, NEW o \in Objects, check_pending_flex_downtime(o)
    PROVE  Inv'
<1> DEFINE pending == {x \in Known : Pending(x, o)}
           start(x) == schedule_event(events, "start", x, now)
<1>0. TypeOK /\ now \in Nat /\ events \in SUBSET Event /\ IsFiniteSet(events)
  BY DowntimeAssumption DEF Inv, TypeOK
<1>1. /\ \A e \in events : ~(e.at <= now)
      /\ dts' = [x \in Known |->
                   IF x \in pending
                   THEN [dts[x] EXCEPT !.flex_downtime_start = now, !.start_event = start(x)]
                   ELSE dts[x]]
      /\ events' = events \cup {start(x) : x \in pending}
      /\ UNCHANGED <<now, list, next_downtime_id, depth, told, comments, freedRead>>
  BY DEF check_pending_flex_downtime, Due
<1>2. \A x \in pending : x \in Known /\ ~dts[x].fixed /\ ~dts[x].is_in_effect /\ dts[x].triggered_by = 0
  BY DEF Pending
<1>3. \A x \in Known : dts[x] \in scheduled_downtime /\ x \in Ids
  BY <1>0 DEF TypeOK
<1>4. \A x \in pending : /\ start(x) \in Event /\ start(x).id = x /\ start(x).kind = "start"
                         /\ start(x).at = now
  <2> SUFFICES ASSUME NEW x \in pending
               PROVE  /\ start(x) \in Event /\ start(x).id = x /\ start(x).kind = "start"
                      /\ start(x).at = now
    OBVIOUS
  <2>1. PICK f, n : f = schedule_event(events, "start", x, n) /\ n = now
    OBVIOUS
  <2>2. f \in Event /\ f.id = x /\ f.kind = "start" /\ f.at = n
    BY <1>0, <1>2, <1>3, <2>1, EventType
  <2>3. QED
    BY <2>1, <2>2
<1> HIDE DEF pending, start
<1>5. Known' = Known /\ \A x \in Known \ pending : dts'[x] = dts[x]
  BY <1>1 DEF Known
<1>6. \A x \in pending : /\ dts'[x] \in scheduled_downtime
                         /\ dts'[x].object = dts[x].object /\ dts'[x].start_time = dts[x].start_time
                         /\ dts'[x].end_time = dts[x].end_time /\ dts'[x].fixed = dts[x].fixed
                         /\ dts'[x].triggered_by = dts[x].triggered_by
                         /\ dts'[x].is_in_effect = dts[x].is_in_effect
                         /\ dts'[x].stop_event = dts[x].stop_event
                         /\ dts'[x].flex_downtime_start = now /\ dts'[x].start_event = start(x)
  <2> SUFFICES ASSUME NEW x \in pending
               PROVE  /\ dts'[x] \in scheduled_downtime
                      /\ dts'[x].object = dts[x].object /\ dts'[x].start_time = dts[x].start_time
                      /\ dts'[x].end_time = dts[x].end_time /\ dts'[x].fixed = dts[x].fixed
                      /\ dts'[x].triggered_by = dts[x].triggered_by
                      /\ dts'[x].is_in_effect = dts[x].is_in_effect
                      /\ dts'[x].stop_event = dts[x].stop_event
                      /\ dts'[x].flex_downtime_start = now /\ dts'[x].start_event = start(x)
    OBVIOUS
  <2>1. dts[x] \in scheduled_downtime /\ start(x) \in Event /\ x \in Known
    BY <1>2, <1>3, <1>4
  <2>2. dts'[x] = [dts[x] EXCEPT !.flex_downtime_start = now, !.start_event = start(x)]
    BY <1>1, <2>1
  <2>3. QED
    BY <1>0, <2>1, <2>2 DEF scheduled_downtime
<1>7. \A x \in Known : /\ dts'[x] \in scheduled_downtime
                       /\ dts'[x].object = dts[x].object /\ dts'[x].start_time = dts[x].start_time
                       /\ dts'[x].end_time = dts[x].end_time /\ dts'[x].fixed = dts[x].fixed
                       /\ dts'[x].triggered_by = dts[x].triggered_by
                       /\ dts'[x].is_in_effect = dts[x].is_in_effect
                       /\ dts'[x].stop_event = dts[x].stop_event
  BY <1>3, <1>5, <1>6
<1>8. IsFiniteSet(events') /\ events' \subseteq Event
  <2>1. IsFiniteSet(pending)
    BY <1>0, KnownFinite DEF pending
  <2>2. PICK g : g = [x \in pending |-> start(x)]
    OBVIOUS
  <2>3. IsFiniteSet({g[x] : x \in pending})
    BY <2>1, <2>2, ImageFinite
  <2>4. {g[x] : x \in pending} = {start(x) : x \in pending}
    BY <2>2
  <2>5. IsFiniteSet(events')
    BY <1>0, <1>1, <2>3, <2>4, FS_Union
  <2>6. QED
    BY <1>0, <1>1, <1>4, <2>5
<1>9. TypeOK'
  <2>1. dts' \in [Known' -> scheduled_downtime]
    BY <1>1, <1>5, <1>7
  <2>2. QED
    BY <1>0, <1>1, <1>5, <1>8, <2>1 DEF TypeOK
<1>10. IdsInv'
  <2>0. \A x \in Known : x < next_downtime_id
    BY DEF Inv, IdsInv
  <2>b. \A x \in pending : start(x).id < next_downtime_id
    BY <1>2, <1>4, <2>0
  <2>1. \A f \in events' : f.id < next_downtime_id
    BY <1>1, <2>b DEF Inv, IdsInv
  <2>2. QED
    BY <1>1, <1>5, <1>7, <2>1 DEF Inv, IdsInv
<1>11. InEffect(Known)' = InEffect(Known) /\ \A p : On(InEffect(Known), p)' = On(InEffect(Known), p)
  BY <1>5, <1>7 DEF InEffect, On
<1>12. TriggerInv'
  <2> SUFFICES ASSUME NEW x \in InEffect(Known), dts'[x].triggered_by # 0
               PROVE  dts'[x].triggered_by \in InEffect(Known)
    BY <1>11 DEF TriggerInv
  <2>1. dts'[x].triggered_by = dts[x].triggered_by
    BY <1>7 DEF InEffect
  <2>2. QED
    BY <2>1 DEF Inv, TriggerInv
<1>13. EventInv'
  <2>1. \A e \in events : e.kind = "start" => e.id \notin pending
    BY <1>1, <1>2 DEF Inv, EventInv
  <2>2. ASSUME NEW e \in events', e.kind = "start", e.id \in Known'
        PROVE  /\ ~dts'[e.id].is_in_effect /\ dts'[e.id].triggered_by = 0
               /\ dts'[e.id].fixed \/ e.at <= now'
               /\ \A f \in events' : f.kind = "start" /\ f.id = e.id => f = e
    <3>1. CASE e \in events
      <4>1. e.id \in Known \ pending /\ dts'[e.id] = dts[e.id]
        BY <1>5, <2>1, <2>2, <3>1
      <4>2. \A f \in events' : f.kind = "start" /\ f.id = e.id => f \in events
        BY <1>1, <1>4, <4>1
      <4>3. QED
        BY <1>1, <2>2, <3>1, <4>1, <4>2 DEF Inv, EventInv
    <3>2. CASE e \notin events
      <4>1. PICK x \in pending : e = start(x)
        BY <1>1, <3>2
      <4>2. e.id = x /\ e.at = now /\ now <= now
        BY <1>0, <1>4, <4>1
      <4>3. \A f \in events' : f.kind = "start" /\ f.id = x => f = start(x)
        BY <1>1, <1>4, <2>1
      <4>4. QED
        BY <1>1, <1>2, <1>7, <4>1, <4>2, <4>3, ZenonT(30)
    <3>3. QED
      BY <3>1, <3>2
  <2>3. ASSUME NEW e \in events', e.kind = "stop", e.id \in Known'
        PROVE  dts'[e.id].is_in_effect
    <3>1. e \in events /\ e.id \in Known
      BY <1>1, <1>4, <1>5, <2>3
    <3>2. QED
      BY <1>7, <2>3, <3>1 DEF Inv, EventInv
  <2>4. ASSUME NEW x \in Known'
        PROVE  /\ dts'[x].flex_downtime_start <= now'
               /\ ~dts'[x].is_in_effect /\ dts'[x].triggered_by # 0 => dts'[x].flex_downtime_start = 0
    <3>1. CASE x \in pending
      <4>1. dts'[x].flex_downtime_start = now
        BY <1>6, <3>1
      <4>b. now' = now
        BY <1>1
      <4>c. now <= now
        BY <1>0
      <4>2. dts'[x].triggered_by = 0
        BY <1>2, <1>6, <3>1
      <4>3. QED
        BY <4>1, <4>b, <4>c, <4>2
    <3>2. CASE x \notin pending
      BY <1>1, <1>5, <3>2 DEF Inv, EventInv
    <3>3. QED
      BY <3>1, <3>2
  <2>5. QED
    BY <2>2, <2>3, <2>4 DEF EventInv
<1>14. PointerInv'
  <2> SUFFICES ASSUME NEW x \in Known'
               PROVE  StartPointer(dts[x], x)' /\ StopPointer(dts[x], x)'
    BY DEF PointerInv
  <2>1. x \in Known /\ StartPointer(dts[x], x) /\ StopPointer(dts[x], x) /\ events \subseteq events'
    BY <1>1, <1>5 DEF Inv, PointerInv
  <2>2. StopPointer(dts[x], x)'
    BY <1>7, <2>1 DEF StopPointer
  <2>3. CASE x \in pending
    <3>1. dts'[x].start_event = start(x) /\ start(x) \in events'
      BY <1>1, <1>6, <2>3
    <3>2. StartPointer(dts[x], x)'
      BY <1>4, <2>3, <3>1 DEF StartPointer
    <3>3. QED
      BY <2>2, <3>2
  <2>4. CASE x \notin pending
    <3>1. StartPointer(dts[x], x)'
      BY <1>5, <2>1, <2>4 DEF StartPointer
    <3>2. QED
      BY <2>2, <3>1
  <2>5. QED
    BY <2>3, <2>4
<1>15. OrderInv'
  <2>1. \A x, y \in Known : Before(dts'[x], dts'[y]) <=> Before(dts[x], dts[y])
    BY <1>7 DEF Before
  <2>2. \A x, y \in Known' : Before(dts'[x], dts'[y]) => <<x, y>> \in list'
    BY <1>1, <1>5, <2>1 DEF Inv, OrderInv
  <2>3. ASSUME SortedTriggers, NEW x \in Known', dts'[x].triggered_by \in Known'
        PROVE  Before(dts'[dts'[x].triggered_by], dts'[x])
    <3>1. dts'[x].triggered_by = dts[x].triggered_by /\ x \in Known /\ dts[x].triggered_by \in Known
      BY <1>5, <1>7, <2>3
    <3>2. Before(dts[dts[x].triggered_by], dts[x])
      BY <2>3, <3>1 DEF Inv, OrderInv
    <3>3. QED
      BY <2>1, <3>1, <3>2
  <2>4. QED
    BY <2>2, <2>3 DEF OrderInv
<1>16. DepthInv' /\ NoFreedRead'
  BY <1>1, <1>11 DEF Inv, DepthInv, DepthMatches, ContactsInformed, NoFreedRead
<1>17. QED
  BY <1>8, <1>9, <1>10, <1>12, <1>13, <1>14, <1>15, <1>16 DEF Inv

LEMMA TickKeeps ==
    ASSUME Inv, Tick
    PROVE  Inv'
<1>1. /\ now' = now + 1 /\ now \in Nat /\ now' \in StartTime..MaxTime
      /\ UNCHANGED <<dts, list, next_downtime_id, events, depth, told, comments, freedRead>>
  BY DowntimeAssumption DEF Tick, Inv, TypeOK
<1>2. Known' = Known
  BY <1>1 DEF Known
<1>3. TypeOK' /\ IdsInv' /\ TriggerInv' /\ OrderInv' /\ DepthInv' /\ NoFreedRead' /\ IsFiniteSet(events')
  BY <1>1, <1>2 DEF Inv, TypeOK, IdsInv, TriggerInv, InEffect, OrderInv, Before, DepthInv,
                   DepthMatches, ContactsInformed, On, NoFreedRead
<1>4. PointerInv'
  BY <1>1, <1>2 DEF Inv, PointerInv, StartPointer, StopPointer
<1>5. EventInv'
  <2>1. /\ \A e \in events : e.at \in Nat
        /\ \A x \in Known : dts[x].flex_downtime_start \in Nat
    BY DEF Inv, TypeOK, Event, scheduled_downtime
  <2>2. \A n \in Nat : n <= now => n <= now'
    BY <1>1
  <2>3. QED
    BY <1>1, <1>2, <2>1, <2>2 DEF Inv, EventInv
<1>6. QED
  BY <1>3, <1>4, <1>5 DEF Inv

-----------------------------------------------------------------------------
(* A restart.  What is left out has a trigger that was not read before it;  *)
(* if triggers are listed first, that one is gone, and so nothing that is   *)
(* in effect is left out.                                                   *)
LEMMA NoneInEffectIsLeftOut ==
    ASSUME Inv, SortedTriggers
    PROVE  InEffect(Known) \subseteq Restored
<1> DEFINE U == {x \in Known : ~TriggerRead(x)}
<1>1. InEffect(U) = {}
  <2> SUFFICES ASSUME NEW x \in Known, dts[x].is_in_effect PROVE TriggerRead(x)
    BY DEF InEffect
  <2>1. CASE dts[x].triggered_by = 0
    BY <2>1 DEF TriggerRead
  <2>2. CASE dts[x].triggered_by # 0
    <3>1. dts[x].triggered_by \in Known
      BY <2>2 DEF Inv, TriggerInv, InEffect
    <3>2. <<dts[x].triggered_by, x>> \in list
      BY <3>1 DEF Inv, OrderInv
    <3>3. QED
      BY <3>2 DEF TriggerRead
  <2>3. QED
    BY <2>1, <2>2
<1>2. U \in SUBSET Known
  OBVIOUS
<1> HIDE DEF U
<1>3. InEffect(Cascade(U)) = {}
  BY <1>1, <1>2, UnstartedCascade DEF Inv
<1>4. Restored = Known \ Cascade(U)
  BY DEF Restored, U
<1>5. QED
  BY <1>3, <1>4 DEF InEffect

LEMMA RestartKeeps ==
    ASSUME Inv, Restart
    PROVE  Inv'
<1> DEFINE A(x) == StartEvents({}, x, dts[x])
           B(x) == StopEvents({}, x, dts[x])
<1>0. TypeOK /\ Restored \subseteq Known
  BY DEF Inv, Restored
<1>1. /\ dts' = [x \in Restored |-> register_downtime({}, x, dts[x])]
      /\ events' = UNION {A(x) \cup B(x) : x \in Restored}
      /\ depth' = [o \in Objects |-> Cardinality(On(InEffect(Known), o))]
      /\ comments' = comments \cup Restored
      /\ UNCHANGED <<next_downtime_id, told, freedRead>>
  BY DEF Restart
<1>2. now \in Nat /\ now' \in Nat /\ now <= now' /\ now' \in StartTime..MaxTime
  BY <1>0, DowntimeAssumption DEF Restart, TypeOK
<1>3. \A x \in Restored : x \in Known /\ x \in Ids /\ dts[x] \in scheduled_downtime
  BY <1>0 DEF TypeOK
<1>4. {} \in SUBSET Event /\ IsFiniteSet({})
  BY FS_EmptySet
<1>5. \A x \in Restored : StartsOf(A(x), x, dts[x]) /\ StopsOf(B(x), x, dts[x])
  BY <1>3, <1>4, StartEventsType, StopEventsType
<1>6. \A x \in Restored : /\ RegisteredAs(dts[x], dts'[x])
                          /\ dts'[x].start_event # NULL => dts'[x].start_event \in A(x)
                          /\ dts'[x].stop_event # NULL => dts'[x].stop_event \in B(x)
  <2> SUFFICES ASSUME NEW x \in Restored
               PROVE  /\ RegisteredAs(dts[x], dts'[x])
                      /\ dts'[x].start_event # NULL => dts'[x].start_event \in A(x)
                      /\ dts'[x].stop_event # NULL => dts'[x].stop_event \in B(x)
    OBVIOUS
  <2>1. PICK d, p : d = dts[x] /\ p = register_downtime({}, x, d)
    OBVIOUS
  <2>2. /\ RegisteredAs(d, p)
        /\ p.start_event # NULL => p.start_event \in StartEvents({}, x, d)
        /\ p.stop_event # NULL => p.stop_event \in StopEvents({}, x, d)
    BY <1>3, <1>4, <2>1, RegisterFields
  <2>3. dts'[x] = p
    BY <1>1, <2>1
  <2>4. QED
    BY <2>1, <2>2, <2>3
<1> HIDE DEF A, B
<1>7. Known' = Restored
  BY <1>1 DEF Known
<1>8. \A x \in Restored : /\ dts'[x] \in scheduled_downtime
                          /\ dts'[x].object = dts[x].object /\ dts'[x].start_time = dts[x].start_time
                          /\ dts'[x].end_time = dts[x].end_time /\ dts'[x].fixed = dts[x].fixed
                          /\ dts'[x].triggered_by = dts[x].triggered_by
                          /\ dts'[x].is_in_effect = dts[x].is_in_effect
                          /\ dts'[x].flex_downtime_start = dts[x].flex_downtime_start
  BY <1>6 DEF RegisteredAs
<1>9. \A e : e \in events' <=> \E x \in Restored : e \in A(x) \/ e \in B(x)
  BY <1>1
<1>10. IsFiniteSet(events') /\ events' \subseteq Event
  <2>1. IsFiniteSet(Restored)
    BY <1>0, KnownFinite
  <2>2. PICK g : g = [x \in Restored |-> A(x) \cup B(x)]
    OBVIOUS
  <2>3. IsFiniteSet({g[x] : x \in Restored})
    BY <2>1, <2>2, ImageFinite
  <2>4. {g[x] : x \in Restored} = {A(x) \cup B(x) : x \in Restored}
    BY <2>2
  <2>5. \A x \in Restored : IsFiniteSet(A(x) \cup B(x))
    BY <1>5, FS_Union DEF StartsOf, StopsOf
  <2>6. \A T \in {A(x) \cup B(x) : x \in Restored} : IsFiniteSet(T)
    BY <2>5
  <2>7. IsFiniteSet(events')
    BY <1>1, <2>3, <2>4, <2>6, FS_UNION
  <2>8. QED
    BY <1>5, <1>9, <2>7 DEF StartsOf, StopsOf
<1>11. PICK s \in Bijection(1..Cardinality(Restored), Restored) : Sorted(s) /\ list' = Pairs(s)
  BY DEF Restart
<1>12. /\ \A x \in Restored : \E i \in DOMAIN s : s[i] = x
       /\ \A i, j \in DOMAIN s : s[i] = s[j] => i = j
       /\ DOMAIN s \subseteq Nat
       /\ \A i \in DOMAIN s : s[i] \in Restored
  <2>1. Cardinality(Restored) \in Nat
    BY <1>0, KnownFinite
  <2>2. QED
    BY <2>1 DEF Bijection, Injection, Surjection, IsInjective
<1>13. list' \subseteq Restored \X Restored
  BY <1>11 DEF Pairs
<1>14. \A i, j \in DOMAIN s : <<s[i], s[j]>> \in list' <=> i < j
  BY <1>11, <1>12 DEF Pairs
<1>15. \A x, y \in Restored : <<x, y>> \in list' <=> x # y /\ <<y, x>> \notin list'
  <2> SUFFICES ASSUME NEW x \in Restored, NEW y \in Restored
               PROVE  <<x, y>> \in list' <=> x # y /\ <<y, x>> \notin list'
    OBVIOUS
  <2>1. PICK i \in DOMAIN s, j \in DOMAIN s : s[i] = x /\ s[j] = y
    BY <1>12
  <2>2. i \in Nat /\ j \in Nat /\ (x = y <=> i = j)
    BY <1>12, <2>1
  <2>3. (<<x, y>> \in list' <=> i < j) /\ (<<y, x>> \in list' <=> j < i)
    BY <1>14, <2>1
  <2>4. QED
    BY <2>2, <2>3
<1>16. \A o \in Objects : Cardinality(On(InEffect(Known), o)) \in Nat
  BY <1>0, KnownFinite DEF On, InEffect
<1>17. TypeOK'
  <2>1. dts' \in [Known' -> scheduled_downtime] /\ depth' \in [Objects -> Nat]
    BY <1>1, <1>7, <1>8, <1>16
  <2>2. QED
    BY <1>0, <1>1, <1>2, <1>3, <1>7, <1>10, <1>13, <1>15, <2>1 DEF TypeOK
<1>18. IdsInv'
  <2>1. \A x \in Known' : x < next_downtime_id /\ dts'[x].triggered_by < next_downtime_id
    BY <1>3, <1>7, <1>8 DEF Inv, IdsInv
  <2>2. \A e \in events' : e.id < next_downtime_id
    BY <1>5, <1>7, <1>9, <2>1 DEF StartsOf, StopsOf
  <2>3. QED
    BY <1>1, <1>7, <2>1, <2>2 DEF IdsInv
<1>19. TriggerInv'
  <2> SUFFICES ASSUME NEW x \in Restored, dts'[x].is_in_effect, dts'[x].triggered_by # 0
               PROVE  /\ dts'[x].triggered_by \in Restored
                      /\ dts'[dts'[x].triggered_by].is_in_effect
    BY <1>7 DEF TriggerInv, InEffect
  <2>1. PICK t : t = dts[x].triggered_by
    OBVIOUS
  <2>2. t \in Known /\ dts[t].is_in_effect
    BY <1>3, <1>8, <2>1 DEF Inv, TriggerInv, InEffect
  <2>3. t \in Restored
    <3>1. PICK U \in SUBSET Known : Restored = Known \ Cascade(U)
      BY DEF Restored
    <3>2. QED
      BY <1>0, <1>3, <2>1, <2>2, <3>1, CascadeFacts
  <2>4. QED
    BY <1>8, <2>1, <2>2, <2>3
<1>20. EventInv'
  <2>1. ASSUME NEW e \in events', e.kind = "start", e.id \in Known'
        PROVE  /\ ~dts'[e.id].is_in_effect /\ dts'[e.id].triggered_by = 0
               /\ dts'[e.id].fixed \/ e.at <= now'
               /\ \A f \in events' : f.kind = "start" /\ f.id = e.id => f = e
    <3>1. PICK x \in Restored : e \in A(x) \/ e \in B(x)
      BY <1>9
    <3>2. e.id = x /\ e \in A(x)
      BY <1>5, <2>1, <3>1 DEF StartsOf, StopsOf
    <3>3. /\ ~dts[x].is_in_effect /\ (dts[x].fixed => dts[x].triggered_by = 0)
          /\ ~dts[x].fixed => dts[x].flex_downtime_start > 0 /\ e.at = dts[x].flex_downtime_start
      BY <1>5, <3>2 DEF StartsOf
    <3>4. /\ dts[x].flex_downtime_start \in Nat /\ dts[x].flex_downtime_start <= now
          /\ ~dts[x].is_in_effect /\ dts[x].triggered_by # 0 => dts[x].flex_downtime_start = 0
      BY <1>3 DEF Inv, EventInv, scheduled_downtime
    <3>5. ~dts[x].fixed => dts[x].triggered_by = 0 /\ e.at <= now'
      BY <1>2, <3>3, <3>4
    <3>6. ASSUME NEW f \in events', f.kind = "start", f.id = x
          PROVE  f = e
      <4>1. PICK y \in Restored : f \in A(y) \/ f \in B(y)
        BY <1>9
      <4>2. f \in A(x)
        BY <1>5, <3>6, <4>1 DEF StartsOf, StopsOf
      <4>3. QED
        BY <1>5, <3>2, <4>2 DEF StartsOf
    <3>7. QED
      BY <1>8, <3>2, <3>3, <3>5, <3>6
  <2>2. ASSUME NEW e \in events', e.kind = "stop", e.id \in Known'
        PROVE  dts'[e.id].is_in_effect
    <3>1. PICK x \in Restored : e \in A(x) \/ e \in B(x)
      BY <1>9
    <3>2. e.id = x /\ dts[x].is_in_effect
      BY <1>5, <2>2, <3>1 DEF StartsOf, StopsOf
    <3>3. QED
      BY <1>8, <3>2
  <2>3. ASSUME NEW x \in Known'
        PROVE  /\ dts'[x].flex_downtime_start <= now'
               /\ ~dts'[x].is_in_effect /\ dts'[x].triggered_by # 0 => dts'[x].flex_downtime_start = 0
    <3>1. /\ dts[x].flex_downtime_start \in Nat /\ dts[x].flex_downtime_start <= now
          /\ ~dts[x].is_in_effect /\ dts[x].triggered_by # 0 => dts[x].flex_downtime_start = 0
      BY <1>3, <1>7 DEF Inv, EventInv, scheduled_downtime
    <3>2. dts[x].flex_downtime_start <= now'
      BY <1>2, <3>1
    <3>3. QED
      BY <1>7, <1>8, <3>1, <3>2
  <2>4. QED
    BY <2>1, <2>2, <2>3 DEF EventInv
<1>21. PointerInv'
  <2> SUFFICES ASSUME NEW x \in Known'
               PROVE  StartPointer(dts[x], x)' /\ StopPointer(dts[x], x)'
    BY DEF PointerInv
  <2>1. StartPointer(dts[x], x)'
    BY <1>5, <1>6, <1>7, <1>9 DEF StartPointer, StartsOf
  <2>2. StopPointer(dts[x], x)'
    BY <1>5, <1>6, <1>7, <1>8, <1>9 DEF StopPointer, StopsOf
  <2>3. QED
    BY <2>1, <2>2
<1>22. OrderInv'
  <2>1. \A x, y \in Restored : Before(dts'[x], dts'[y]) <=> Before(dts[x], dts[y])
    BY <1>8 DEF Before
  <2>2. ASSUME NEW x \in Restored, NEW y \in Restored, Before(dts[x], dts[y])
        PROVE  <<x, y>> \in list'
    <3>1. PICK i \in DOMAIN s, j \in DOMAIN s : s[i] = x /\ s[j] = y
      BY <1>12
    <3>2. ~(j < i)
      BY <1>11, <2>2, <3>1 DEF Sorted
    <3>3. x # y
      <4>1. dts[x].start_time \in Nat
        BY <1>3 DEF scheduled_downtime
      <4>2. QED
        BY <2>2, <4>1 DEF Before
    <3>4. i \in Nat /\ j \in Nat /\ i # j
      BY <1>12, <3>1, <3>3
    <3>5. i < j
      BY <3>2, <3>4
    <3>6. QED
      BY <1>14, <3>1, <3>5
  <2>3. ASSUME SortedTriggers, NEW x \in Restored, dts'[x].triggered_by \in Restored
        PROVE  Before(dts'[dts'[x].triggered_by], dts'[x])
    <3>1. PICK t \in Restored : t = dts[x].triggered_by /\ t = dts'[x].triggered_by
      BY <1>8, <2>3
    <3>2. Before(dts[t], dts[x])
      BY <1>3, <2>3, <3>1 DEF Inv, OrderInv
    <3>3. QED
      BY <2>1, <3>1, <3>2
  <2>4. QED
    BY <1>7, <2>1, <2>2, <2>3 DEF OrderInv
<1>23. DepthInv'
  <2> SUFFICES ASSUME SortedTriggers, NEW o \in Objects
               PROVE  /\ depth'[o] = Cardinality(On(InEffect(Known), o)')
                      /\ told'[o] <=> depth'[o] > 0
    BY DEF DepthInv, DepthMatches, ContactsInformed
  <2>1. On(InEffect(Known), o)' = On(InEffect(Known), o)
    BY <1>0, <1>7, <1>8, NoneInEffectIsLeftOut DEF On, InEffect
  <2>2. depth'[o] = depth[o] /\ depth'[o] = Cardinality(On(InEffect(Known), o))
    BY <1>1 DEF Inv, DepthInv, DepthMatches
  <2>3. told'[o] <=> depth'[o] > 0
    BY <1>1, <2>2 DEF Inv, DepthInv, ContactsInformed
  <2>4. QED
    BY <2>1, <2>2, <2>3
<1>24. QED
  BY <1>1, <1>10, <1>17, <1>18, <1>19, <1>20, <1>21, <1>22, <1>23 DEF Inv, NoFreedRead

-----------------------------------------------------------------------------
LEMMA InitInv ==
    Init => Inv
<1> SUFFICES ASSUME Init PROVE Inv
  OBVIOUS
<1>1. Known = {} /\ events = {} /\ list = {} /\ InEffect(Known) = {}
  BY DEF Init, Known, InEffect
<1>2. TypeOK
  <2>1. now \in StartTime..MaxTime
    BY DowntimeAssumption DEF Init
  <2>2. dts \in [Known -> scheduled_downtime]
    BY <1>1 DEF Init
  <2>3. next_downtime_id \in 1..MaxDowntimes + 1
    BY DowntimeAssumption DEF Init
  <2>4. QED
    BY <1>1, <2>1, <2>2, <2>3 DEF Init, TypeOK
<1>3. IsFiniteSet(events)
  BY <1>1, FS_EmptySet
<1>4. IdsInv /\ TriggerInv /\ EventInv /\ PointerInv /\ OrderInv
  BY <1>1 DEF IdsInv, TriggerInv, EventInv, PointerInv, OrderInv
<1>5. DepthMatches /\ ContactsInformed
  <2>1. \A o \in Objects : On(InEffect(Known), o) = {}
    BY <1>1 DEF On
  <2>2. \A o \in Objects : depth[o] = 0 /\ told[o] = FALSE /\ ~(0 > 0)
    BY DEF Init
  <2>3. QED
    BY <2>1, <2>2, FS_EmptySet DEF DepthMatches, ContactsInformed
<1>6. QED
  BY <1>2, <1>3, <1>4, <1>5 DEF Inv, DepthInv, Init, NoFreedRead

LEMMA NextKeeps ==
    ASSUME Prompt, Inv, [Next]_vars
    PROVE  Inv'
<1>1. ASSUME NEW e \in events, handle_downtime_start_event(e)
      PROVE  Inv'
  <2>1. CASE Gone(e)
    BY <1>1, <2>1, GoneKeeps DEF handle_downtime_start_event
  <2>2. CASE e.id \in Known /\ handle_scheduled_downtime_start(e.id, e)
    BY <1>1, <2>2, StartKeeps DEF handle_downtime_start_event
  <2>3. QED
    BY <1>1, <2>1, <2>2 DEF handle_downtime_start_event
<1>2. ASSUME NEW e \in events, handle_downtime_stop_event(e)
      PROVE  Inv'
  <2>1. CASE Gone(e)
    BY <1>2, <2>1, GoneKeeps DEF handle_downtime_stop_event
  <2>2. CASE e.id \in Known /\ handle_scheduled_downtime_stop(e.id, e)
    BY <1>2, <2>2, StopKeeps DEF handle_downtime_stop_event
  <2>3. QED
    BY <1>2, <2>1, <2>2 DEF handle_downtime_stop_event
<1>3. CASE RunEvent
  BY <1>1, <1>2, <1>3, ExpiredKeeps DEF RunEvent
<1>4. ASSUME NEW S \in SUBSET Known, unschedule_downtime(S)
      PROVE  Inv'
  BY <1>4, UnscheduleKeeps
<1>5. CASE delete_downtime_by_filter
  <2>1. ASSUME NEW o \in Objects, unschedule_downtime(On(Known, o))
        PROVE  Inv'
    <3>1. On(Known, o) \in SUBSET Known
      BY DEF On
    <3>2. QED
      BY <1>4, <2>1, <3>1
  <2>2. ASSUME NEW x \in Known,
               unschedule_downtime({y \in Known : dts[y].start_time = dts[x].start_time})
        PROVE  Inv'
    BY <1>4, <2>2
  <2>3. QED
    BY <1>5, <2>1, <2>2 DEF delete_downtime_by_filter
<1>6. CASE Command
  <2>1. ASSUME NEW x \in Known, unschedule_downtime({x})
        PROVE  Inv'
    BY <1>4, <2>1
  <2>2. QED
    BY <1>5, <1>6, <2>1, ScheduleKeeps DEF Command
<1>7. CASE \E o \in Objects : check_pending_flex_downtime(o)
  BY <1>7, PendingKeeps
<1>8. CASE UNCHANGED vars
  <2>1. UNCHANGED <<now, dts, list, next_downtime_id, events, depth, told, comments, freedRead>>
    BY <1>8 DEF vars
  <2>2. Known' = Known
    BY <2>1 DEF Known
  <2>3. TypeOK' /\ IsFiniteSet(events') /\ IdsInv' /\ TriggerInv' /\ OrderInv' /\ DepthInv' /\ NoFreedRead'
    BY <2>1, <2>2 DEF Inv, TypeOK, IdsInv, TriggerInv, InEffect, OrderInv, Before, DepthInv,
                      DepthMatches, ContactsInformed, On, NoFreedRead
  <2>4. EventInv' /\ PointerInv'
    BY <2>1, <2>2 DEF Inv, EventInv, PointerInv, StartPointer, StopPointer
  <2>5. QED
    BY <2>3, <2>4 DEF Inv
<1>9. QED
  BY <1>3, <1>6, <1>7, <1>8, TickKeeps, RestartKeeps DEF Next

LEMMA InvHolds ==
    Prompt => (Spec => []Inv)
<1> SUFFICES ASSUME Prompt PROVE Spec => []Inv
  OBVIOUS
<1>1. Inv /\ [Next]_vars => Inv'
  BY NextKeeps
<1>2. QED
  BY <1>1, InitInv, PTL DEF Spec

-----------------------------------------------------------------------------
(* Every variable keeps its type when events are run before the next result *)
(* is read; in particular the list stays one order of all downtimes.        *)
THEOREM TypeCorrect ==
    Prompt => (Spec => []TypeOK)
<1> SUFFICES ASSUME Prompt PROVE Spec => []TypeOK
  OBVIOUS
<1>1. Inv => TypeOK
  BY DEF Inv
<1>2. Spec => []Inv
  BY InvHolds
<1>3. QED
  BY <1>1, <1>2, PTL

(* scheduled_downtime_depth counts the downtimes in effect of its object,   *)
(* through starts, stops, cancellations with all they trigger, expiries and *)
(* restarts, provided a trigger is sorted before what it triggers, as       *)
(* downtime_compar means it to be, and due events are run before the next   *)
(* result.                                                                  *)
THEOREM DepthsMatch ==
    Prompt /\ SortedTriggers => (Spec => []DepthMatches)
<1> SUFFICES ASSUME Prompt, SortedTriggers PROVE Spec => []DepthMatches
  OBVIOUS
<1>1. Inv => DepthMatches
  BY DEF Inv, DepthInv
<1>2. Spec => []Inv
  BY InvHolds
<1>3. QED
  BY <1>1, <1>2, PTL

(* Contacts were told last what holds, downtime or none, under the same     *)
(* conditions.                                                              *)
THEOREM ContactsAreInformed ==
    Prompt /\ SortedTriggers => (Spec => []ContactsInformed)
<1> SUFFICES ASSUME Prompt, SortedTriggers PROVE Spec => []ContactsInformed
  OBVIOUS
<1>1. Inv => ContactsInformed
  BY DEF Inv, DepthInv
<1>2. Spec => []Inv
  BY InvHolds
<1>3. QED
  BY <1>1, <1>2, PTL

(* start_event and stop_event of a downtime are its own and in the queue,   *)
(* in whatever order triggers and what they trigger are listed.             *)
THEOREM PointersAreLive ==
    Prompt => (Spec => []PointersLive)
<1> SUFFICES ASSUME Prompt PROVE Spec => []PointersLive
  OBVIOUS
<1>1. Inv => PointersLive
  BY DEF Inv, PointerInv, StartPointer, StopPointer, PointersLive
<1>2. Spec => []Inv
  BY InvHolds
<1>3. QED
  BY <1>1, <1>2, PTL

(* The loops of the start and the stop handler over triggered downtimes     *)
(* meet none that a nested call has freed: a start finds none of them in    *)
(* effect, and what a stop finds unstarted triggers only what is unstarted. *)
THEOREM NothingFreedIsRead ==
    Prompt => (Spec => []NoFreedRead)
<1> SUFFICES ASSUME Prompt PROVE Spec => []NoFreedRead
  OBVIOUS
<1>1. Inv => NoFreedRead
  BY DEF Inv
<1>2. Spec => []Inv
  BY InvHolds
<1>3. QED
  BY <1>1, <1>2, PTL

-----------------------------------------------------------------------------
(* Every downtime has its comment, whenever results are read: what a step   *)
(* adds it adds to both, and what a handler deletes it deletes from both.   *)
CommentInv == Known \subseteq comments

LEMMA DeleteComments ==
    ASSUME CommentInv, NEW S, Delete(S)
    PROVE  Known' \subseteq comments' /\ Known \cap comments' \subseteq Known'
BY DEF CommentInv, Delete, Restrict, Known

LEMMA CommentStep ==
    ASSUME CommentInv, [Next]_vars
    PROVE  /\ DOMAIN dts' \subseteq comments'
           /\ Known \cap comments' \subseteq DOMAIN dts' \/ Restart
<1> DEFINE Goal == /\ Known' \subseteq comments'
                   /\ Known \cap comments' \subseteq Known' \/ Restart
<1> SUFFICES Goal
  BY DEF Known
<1>1. ASSUME NEW S, Delete(S) PROVE Goal
  BY <1>1, DeleteComments
<1>2. ASSUME Known' = Known, comments' = comments PROVE Goal
  BY <1>2 DEF CommentInv
<1>3. ASSUME UNCHANGED <<dts, comments>> PROVE Goal
  BY <1>2, <1>3 DEF Known
<1> HIDE DEF Goal
<1>4. ASSUME NEW e \in events, handle_downtime_start_event(e)
      PROVE  Goal
  <2>1. CASE Gone(e)
    BY <1>3, <2>1 DEF Gone
  <2>2. CASE handle_scheduled_downtime_start(e.id, e)
    <3>1. Known' = Known /\ comments' = comments
      BY <2>2 DEF handle_scheduled_downtime_start, Undefined, Known
    <3>2. QED
      BY <1>2, <3>1
  <2>3. QED
    BY <1>4, <2>1, <2>2 DEF handle_downtime_start_event
<1>5. ASSUME NEW e \in events, handle_downtime_stop_event(e)
      PROVE  Goal
  <2>1. CASE Gone(e)
    BY <1>3, <2>1 DEF Gone
  <2>2. CASE handle_scheduled_downtime_stop(e.id, e)
    <3>1. UNCHANGED <<dts, comments>> \/ Delete(Cascade({e.id}))
      BY <2>2 DEF handle_scheduled_downtime_stop, Undefined
    <3>2. QED
      BY <1>1, <1>3, <3>1
  <2>3. QED
    BY <1>5, <2>1, <2>2 DEF handle_downtime_stop_event
<1>6. ASSUME NEW e \in events, check_for_expired_downtime(e)
      PROVE  Goal
  BY <1>1, <1>6 DEF check_for_expired_downtime
<1>7. ASSUME NEW S, unschedule_downtime(S)
      PROVE  Goal
  BY <1>1, <1>7 DEF unschedule_downtime
<1>8. ASSUME NEW r \in Requests, NEW t, schedule_downtime(r, t)
      PROVE  Goal
  <2>1. \/ UNCHANGED <<dts, comments>>
        \/ Known' = Known \cup {next_downtime_id} /\ comments' = comments \cup {next_downtime_id}
    BY <1>8 DEF schedule_downtime, Known
  <2>2. QED
    BY <1>3, <2>1 DEF CommentInv, Goal
<1>9. ASSUME NEW o \in Objects, check_pending_flex_downtime(o)
      PROVE  Goal
  <2>1. Known' = Known /\ comments' = comments
    BY <1>9 DEF check_pending_flex_downtime, Known
  <2>2. QED
    BY <1>2, <2>1
<1>10. CASE Restart
  <2>1. Known' = Restored /\ comments' = comments \cup Restored
    BY <1>10 DEF Restart, Known
  <2>2. QED
    BY <1>10, <2>1 DEF Goal
<1>11. CASE Tick
  BY <1>3, <1>11 DEF Tick
<1>12. CASE UNCHANGED vars
  BY <1>3, <1>12 DEF vars
<1>13. QED
  BY <1>4, <1>5, <1>6, <1>7, <1>8, <1>9, <1>10, <1>11, <1>12
  DEF Next, RunEvent, Command, delete_downtime_by_filter

(* Each downtime has its comment, and delete_downtime takes the comment     *)
(* along: only a restart that leaves a downtime out leaves its comment, and *)
(* that whatever is due and however triggers are sorted.                    *)
THEOREM CommentsGoWithDowntimes ==
    Spec => CommentsOwned
<1>1. Init => CommentInv
  BY DEF Init, CommentInv, Known
<1>2. CommentInv /\ [Next]_vars => CommentInv'
  BY CommentStep DEF CommentInv, Known
<1>3. CommentInv /\ [Next]_vars =>
        [/\ DOMAIN dts' \subseteq comments'
         /\ Known \cap comments' \subseteq DOMAIN dts' \/ Restart]_vars
  BY CommentStep
<1>4. QED
  BY <1>1, <1>2, <1>3, PTL DEF Spec, CommentsOwned
=============================================================================
