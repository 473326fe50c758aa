---------------------------- MODULE TimedEvents ----------------------------
(* What the timed event queue of events.c promises its callers: a set of    *)
(* pending events, each with the time it is due.  An event leaves the set   *)
(* because its owner destroyed it, because the queue was cleared, or        *)
(* because the event loop ran it: and the loop runs only an event that is   *)
(* due, and never before one that is due earlier.  EventQueue implements    *)
(* this with a binary heap of pointers.                                     *)
EXTENDS Naturals, Functions

CONSTANTS Events,   \* the timed_event objects
          MaxTime,  \* bound on the clock and on due times
          NoEvent   \* no event is being run

VARIABLES due,      \* the pending events and when each of them is due
          running,  \* the event whose callback is being run, or NoEvent
          now       \* the monotonic clock

absVars == <<due, running, now>>

AbsTypeOK ==
    /\ DOMAIN due \subseteq Events
    /\ \A e \in DOMAIN due : due[e] \in 0..MaxTime
    /\ running \in Events \cup {NoEvent}
    /\ now \in 0..MaxTime

AbsInit == due = << >> /\ running = NoEvent /\ now = 0

Add(e, t) ==
    /\ e \in Events \ (DOMAIN due \cup {running})
    /\ due' = [x \in DOMAIN due \cup {e} |-> IF x = e THEN t ELSE due[x]]
    /\ UNCHANGED <<running, now>>

Cancel(e) ==
    /\ e \in DOMAIN due
    /\ due' = Restrict(due, DOMAIN due \ {e})
    /\ UNCHANGED <<running, now>>

CancelAll == due' = << >> /\ UNCHANGED <<running, now>>

Run(e) ==
    /\ running = NoEvent
    /\ e \in DOMAIN due
    /\ due[e] <= now
    /\ \A f \in DOMAIN due : due[e] <= due[f]
    /\ running' = e
    /\ due' = Restrict(due, DOMAIN due \ {e})
    /\ UNCHANGED now

Finish == running # NoEvent /\ running' = NoEvent /\ UNCHANGED <<due, now>>

Advance == now < MaxTime /\ now' = now + 1 /\ UNCHANGED <<due, running>>

AbsNext ==
    \/ \E e \in Events, t \in 0..MaxTime : Add(e, t)
    \/ \E e \in Events : Cancel(e) \/ Run(e)
    \/ CancelAll \/ Finish \/ Advance

AbsSpec == AbsInit /\ [][AbsNext]_absVars
=============================================================================
