----------------------------- MODULE EventQueue -----------------------------
(* The timed event queue of events.c: a binary heap of pointers to          *)
(* timed_event objects, each of which knows its own index (pos), and the    *)
(* poll step of the main loop that runs the head of the heap.  Everything   *)
(* runs in one thread; what makes it delicate is that callbacks and input   *)
(* handlers schedule and destroy events while event_poll_full holds a       *)
(* pointer to the head it read before the poll.                             *)
EXTENDS Integers, FiniteSets, Functions

CONSTANTS Events,        \* addresses nm_calloc can return for a timed_event
          Delays,        \* the delays callers pass to schedule_event
          MaxTime,       \* bound on the clock and on event times
          TiesPossible,  \* may two queued events have the same event_time?
          NULL

ASSUME EventQueueAssumption ==
    /\ IsFiniteSet(Events)
    /\ Delays \subseteq Nat
    /\ MaxTime \in Nat
    /\ TiesPossible \in BOOLEAN
    /\ NULL \notin Events

VARIABLES queue,      \* the used part of q->queue: 0 .. count-1 -> Events
          pos,        \* ev->pos
          event_time, \* ev->event_time, on the one monotonic clock
          size,       \* q->size, the allocated length of q->queue
          live,       \* the timed_events allocated and not yet freed
          pc,         \* main loop: "loop", "poll" (in iobroker_poll), "callback"
          evt,        \* the local evt of event_poll_full
          inputs,     \* have input handlers been run in this poll?
          now         \* CLOCK_MONOTONIC

vars == <<queue, pos, event_time, size, live, pc, evt, inputs, now>>
loopVars == <<pc, evt, inputs>>

count == Cardinality(DOMAIN queue)

TypeOK ==
    /\ queue \in [0..count - 1 -> Events]
    /\ pos \in [Events -> 0..Cardinality(Events)]
    /\ event_time \in [Events -> 0..MaxTime]
    /\ size \in Nat \ {0}
    /\ live \subseteq Events
    /\ pc \in {"loop", "poll", "callback"}
    /\ evt \in Events \cup {NULL}
    /\ inputs \in BOOLEAN
    /\ now \in 0..MaxTime

-----------------------------------------------------------------------------
(* The heap methods.  A heap h is a record of the array, the positions and  *)
(* the number n of entries in use; t gives the event times.                 *)

Heap == [queue |-> queue, pos |-> pos, n |-> count]

evheap_cond_swap(h, t, low, high) ==
    IF low = high \/ t[h.queue[low]] < t[h.queue[high]]
    THEN [swapped |-> FALSE, heap |-> h]
    ELSE [swapped |-> TRUE,
          heap |-> [queue |-> [h.queue EXCEPT ![low] = h.queue[high], ![high] = h.queue[low]],
                    pos |-> [h.pos EXCEPT ![h.queue[high]] = low, ![h.queue[low]] = high],
                    n |-> h.n]]

(* The states a loop over the heap h can be in: the heap, and the index the *)
(* loop stands at.  The loops are functions: loop[c] is the state in which  *)
(* the loop that has come to c ends.                                        *)
Cells(h) == [heap : [queue : [DOMAIN h.queue -> Events], pos : [Events -> Nat], n : {h.n}],
             at : DOMAIN h.queue]

evheap_bubble_up(h, t, idx) ==
    LET loop[c \in Cells(h)] ==
            LET parent == (c.at - 1) \div 2
                s == evheap_cond_swap(c.heap, t, parent, c.at)
            IN  IF c.at > 0 /\ s.swapped THEN loop[[heap |-> s.heap, at |-> parent]] ELSE c
    IN  loop[[heap |-> h, at |-> idx]].heap

(* The earlier of the children of idx, or the only one.                     *)
EarlierChild(h, t, idx) ==
    LET left == 2 * idx + 1
    IN  IF left + 1 < h.n /\ t[h.queue[left]] > t[h.queue[left + 1]] THEN left + 1 ELSE left

evheap_bubble_down(h, t, idx) ==
    LET loop[c \in Cells(h)] ==
            LET child == EarlierChild(c.heap, t, c.at)
                s == evheap_cond_swap(c.heap, t, c.at, child)
            IN  IF 2 * c.at + 1 < h.n /\ s.swapped
                THEN loop[[heap |-> s.heap, at |-> child]] ELSE c
    IN  loop[[heap |-> h, at |-> idx]].heap

(* Mutant: the array never shrinks.                                         *)
SetSizeGrowOnly(sz, new_size) == IF sz < new_size THEN 2 * sz ELSE sz

(* The number of slots kept for new_size entries: doubled until they fit,   *)
(* halved while three times too large.                                      *)
evheap_set_size(sz, new_size) ==
    LET want == IF new_size < 1 THEN 1 ELSE new_size
        loop[s \in Nat \ {0}] == IF s < want THEN loop[2 * s]
                                 ELSE IF s >= 3 * want THEN loop[s \div 2] ELSE s
    IN  loop[sz]

evheap_head(h) == IF h.n = 0 THEN NULL ELSE h.queue[0]

(* The heap after ev was put in the first free slot and bubbled up.         *)
evheap_add(h, t, ev) ==
    evheap_bubble_up([queue |-> [i \in 0..h.n |-> IF i = h.n THEN ev ELSE h.queue[i]],
                      pos |-> [h.pos EXCEPT ![ev] = h.n],
                      n |-> h.n + 1], t, h.n)

(* Mutant: the entry that takes the place of ev is only bubbled down.       *)
RemoveBubbleDownOnly(h, t, ev) ==
    LET last == h.queue[h.n - 1]
        moved == [queue |-> [h.queue EXCEPT ![h.pos[ev]] = last],
                  pos |-> [h.pos EXCEPT ![last] = h.pos[ev]],
                  n |-> h.n - 1]
        down == evheap_bubble_down(moved, t, moved.pos[ev])
    IN  [down EXCEPT !.queue = Restrict(down.queue, 0..moved.n - 1)]

(* The last entry takes the place of ev and is bubbled down, then up.  The  *)
(* test `ev->pos <= q->count` comes after `q->count--`, so it holds for     *)
(* every ev, the last entry included: its slot, now just beyond the used    *)
(* part and still holding ev, is then compared with its parent.             *)
evheap_remove(h, t, ev) ==
    LET last == h.queue[h.n - 1]
        moved == [queue |-> [h.queue EXCEPT ![h.pos[ev]] = last],
                  pos |-> [h.pos EXCEPT ![last] = h.pos[ev]],
                  n |-> h.n - 1]
        down == IF moved.pos[ev] <= moved.n
                THEN evheap_bubble_down(moved, t, moved.pos[ev]) ELSE moved
        up == IF moved.pos[ev] <= moved.n
              THEN evheap_bubble_up(down, t, down.pos[ev]) ELSE down
    IN  [up EXCEPT !.queue = Restrict(up.queue, 0..moved.n - 1)]

(* The events destroyed by destroying the head until there is none.         *)
DrainedFrom(h, t) ==
    LET heap[k \in 0..h.n] ==
            IF k = 0 THEN h ELSE evheap_remove(heap[k - 1], t, evheap_head(heap[k - 1]))
    IN  {evheap_head(heap[k]) : k \in 0..h.n - 1}

-----------------------------------------------------------------------------
(* The heap becomes h and the events of E are freed: what their fields held *)
(* is gone, and nm_calloc gives zeros to the next one allocated there.      *)
HeapAfterFree(h, E) ==
    /\ queue' = h.queue
    /\ pos' = [e \in Events |-> IF e \in E THEN 0 ELSE h.pos[e]]
    /\ event_time' = [e \in Events |-> IF e \in E THEN 0 ELSE event_time[e]]
    /\ live' = live \ E

(* Scheduling is done at start-up, by input handlers and by callbacks; a    *)
(* handler's call makes iobroker_poll return a positive count of inputs.    *)
schedule_event(e, delay) ==
    /\ e \notin live
    /\ now + delay <= MaxTime
    /\ TiesPossible \/ \A f \in Range(queue) : event_time[f] # now + delay
    /\ event_time' = [event_time EXCEPT ![e] = now + delay]
    /\ LET h == evheap_add(Heap, event_time', e)
       IN  queue' = h.queue /\ pos' = h.pos
    /\ size' = evheap_set_size(size, count + 1)
    /\ live' = live \cup {e}
    /\ inputs' = (pc = "poll")
    /\ UNCHANGED <<pc, evt, now>>

(* destroy_event, with the callback told EVENT_EXEC_ABORTED: no callback of *)
(* the program touches the queue then.  Callers hold pointers to the events *)
(* they scheduled, and drop them when the event is run.                     *)
destroy_event(e) ==
    /\ e \in live \ (IF pc = "callback" THEN {evt} ELSE {})
    /\ HeapAfterFree(evheap_remove(Heap, event_time, e), {e})
    /\ size' = evheap_set_size(size, count - 1)
    /\ inputs' = (pc = "poll")
    /\ UNCHANGED <<pc, evt, now>>

(* At shutdown and on restart; the array is left with the size one entry    *)
(* needs.                                                                   *)
clear_event_queue ==
    /\ pc = "loop"
    /\ queue # << >>
    /\ HeapAfterFree([Heap EXCEPT !.queue = << >>], DrainedFrom(Heap, event_time))
    /\ size' = evheap_set_size(size, 0)
    /\ UNCHANGED <<pc, evt, inputs, now>>

-----------------------------------------------------------------------------
(* event_poll_full: the head is read, then iobroker_poll sleeps and runs    *)
(* the handlers of the descriptors that have input.                         *)
PollStart ==
    /\ pc = "loop"
    /\ pc' = "poll"
    /\ evt' = evheap_head(Heap)
    /\ inputs' = FALSE
    /\ UNCHANGED <<queue, pos, event_time, size, live, now>>

(* Nothing is run when a signal interrupted the poll, when handlers were    *)
(* run, when there was no event or when the head is not due yet.            *)
PollReturn ==
    /\ pc = "poll"
    /\ pc' = "loop"
    /\ evt' = NULL
    /\ inputs' = FALSE
    /\ UNCHANGED <<queue, pos, event_time, size, live, now>>

(* Mutant: the head is run although the poll only reached its time limit.   *)
PollExecuteEarly ==
    /\ pc = "poll"
    /\ ~inputs
    /\ evt # NULL
    /\ LET h == evheap_remove(Heap, event_time, evt)
       IN  queue' = h.queue /\ pos' = h.pos
    /\ size' = evheap_set_size(size, count - 1)
    /\ pc' = "callback"
    /\ UNCHANGED <<event_time, live, evt, inputs, now>>

(* execute_and_destroy_event of the head: removed, then called back.        *)
PollExecute ==
    /\ pc = "poll"
    /\ ~inputs
    /\ evt # NULL
    /\ event_time[evt] <= now
    /\ LET h == evheap_remove(Heap, event_time, evt)
       IN  queue' = h.queue /\ pos' = h.pos
    /\ size' = evheap_set_size(size, count - 1)
    /\ pc' = "callback"
    /\ UNCHANGED <<event_time, live, evt, inputs, now>>

(* The callback has returned and the event is freed.                        *)
CallbackReturn ==
    /\ pc = "callback"
    /\ HeapAfterFree(Heap, {evt})
    /\ pc' = "loop"
    /\ evt' = NULL
    /\ UNCHANGED <<size, inputs, now>>

Tick == now < MaxTime /\ now' = now + 1
        /\ UNCHANGED <<queue, pos, event_time, size, live, loopVars>>

Init ==
    /\ queue = << >>
    /\ pos = [e \in Events |-> 0]
    /\ event_time = [e \in Events |-> 0]
    /\ size = 1
    /\ live = {}
    /\ pc = "loop"
    /\ evt = NULL
    /\ inputs = FALSE
    /\ now = 0

Next ==
    \/ \E e \in Events, d \in Delays : schedule_event(e, d)
    \/ \E e \in Events : destroy_event(e)
    \/ clear_event_queue
    \/ PollStart \/ PollReturn \/ PollExecute \/ CallbackReturn
    \/ Tick

Spec == Init /\ [][Next]_vars

-----------------------------------------------------------------------------
(* The heap array holds exactly the events that are allocated and have not  *)
(* been taken out to be run, each at the index its own pos field names:     *)
(* evheap_remove trusts pos, and a slot that holds a freed event is a       *)
(* dangling pointer.                                                        *)
HeapHoldsPending ==
    /\ Range(queue) = live \ (IF pc = "callback" THEN {evt} ELSE {})
    /\ \A i \in DOMAIN queue : pos[queue[i]] = i

(* The heap property of the test verify_queue_heap: no node is later than   *)
(* its children, so that evheap_head is the earliest event.                 *)
HeapOrdered ==
    \A i \in DOMAIN queue : \A child \in {2 * i + 1, 2 * i + 2} \cap DOMAIN queue :
        event_time[queue[i]] <= event_time[queue[child]]

(* Both hold through every cancellation by pointer, also of a node in the   *)
(* middle that evheap_remove fills with the last one: it may belong further *)
(* up as well as further down.                                              *)
HeapSound == HeapHoldsPending /\ HeapOrdered

(* evheap_set_size keeps the array large enough for the entries in use and  *)
(* less than three times as large as they need.  Removing an entry shrinks  *)
(* the array first and reads the slot just beyond the used part afterwards, *)
(* when the entry was the last one: that slot is still in the array.        *)
SizeFits ==
    LET want == IF count < 1 THEN 1 ELSE count
    IN  /\ want <= size /\ size < 3 * want
        /\ count > 0 => evheap_set_size(size, count - 1) >= count

(* The queue is a TimedEvents: only due events are run, earliest first, and *)
(* an event that was scheduled stays until it is run or destroyed.          *)
Abstract == INSTANCE TimedEvents WITH
                NoEvent <- NULL,
                due <- [e \in Range(queue) |-> event_time[e]],
                running <- IF pc = "callback" THEN evt ELSE NULL
RefinesTimedEvents == Abstract!AbsSpec
=============================================================================
