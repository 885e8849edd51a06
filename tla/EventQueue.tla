----------------------------- MODULE EventQueue ----------------------------
(***************************************************************************)
(* The event ring of the NetSurf SDL shim: event_queue, eq_head, eq_tail   *)
(* under eq_mutex.  The input thread, the timer thread and NetSurf itself  *)
(* put events in (queue_event, SDL_PushEvent), NetSurf's main thread takes *)
(* them out (SDL_PollEvent, SDL_WaitEvent).  Both sides hold the mutex for *)
(* their whole operation, so each is one step.                             *)
(***************************************************************************)
EXTENDS Integers, Sequences

CONSTANTS MaxEvents, Events, NoEvent

ASSUME RingAssumption == MaxEvents \in Nat /\ MaxEvents > 1
ASSUME EventAssumption == NoEvent \notin Events

VARIABLES event_queue, eq_head, eq_tail, got

ring == <<event_queue, eq_head, eq_tail>>
ringVars == <<ring, got>>

Index == 0..(MaxEvents - 1)

RingTypeOK ==
  /\ event_queue \in [Index -> Events \cup {NoEvent}]
  /\ eq_head \in Index /\ eq_tail \in Index
  /\ got \in Events \cup {NoEvent}

RingInit ==
  /\ event_queue = [i \in Index |-> NoEvent]     \* zeroed static memory
  /\ eq_head = 0 /\ eq_tail = 0
  /\ got = NoEvent

Advance(i) == (i + 1) % MaxEvents

QueueEventOverruns(e) ==
  /\ event_queue' = [event_queue EXCEPT ![eq_tail] = e]
  /\ eq_tail' = Advance(eq_tail)
  /\ UNCHANGED <<eq_head, got>>
queue_event(e) ==
  /\ IF Advance(eq_tail) # eq_head
     THEN /\ event_queue' = [event_queue EXCEPT ![eq_tail] = e]
          /\ eq_tail' = Advance(eq_tail)
     ELSE UNCHANGED <<event_queue, eq_tail>>
  /\ UNCHANGED <<eq_head, got>>

dequeue_event ==
  /\ eq_head # eq_tail
  /\ got' = event_queue[eq_head]
  /\ eq_head' = Advance(eq_head)
  /\ UNCHANGED <<event_queue, eq_tail>>

\* SDL_PollEvent returns 0; SDL_WaitEvent sleeps 5 ms and asks again.
PollEmpty ==
  /\ eq_head = eq_tail
  /\ got' = NoEvent
  /\ UNCHANGED ring

RingNext == (\E e \in Events : queue_event(e)) \/ dequeue_event \/ PollEmpty

RingSpec == RingInit /\ [][RingNext]_ringVars

-----------------------------------------------------------------------------
\* How many events wait, and the place of the one k behind the head.
Count == IF eq_tail >= eq_head THEN eq_tail - eq_head ELSE eq_tail - eq_head + MaxEvents
At(k) == IF eq_head + k < MaxEvents THEN eq_head + k ELSE eq_head + k - MaxEvents

\* The events waiting, oldest first.
Contents == [k \in 1..Count |-> event_queue[At(k - 1)]]

Fifo == INSTANCE EventFifo WITH q <- Contents, Capacity <- MaxEvents - 1

\* The ring, across every wrap-round and at its limit, is a first-in first-out
\* queue of MaxEvents - 1 places that discards the newest event when full.
ImplementsFifo == Fifo!Spec
=============================================================================
