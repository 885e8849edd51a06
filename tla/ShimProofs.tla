----------------------------- MODULE ShimProofs -----------------------------
(***************************************************************************)
(* What the threads of the NetSurf SDL shim share, proved for every size:  *)
(*  - the timer pool: the worker revives nothing and starts no callback of *)
(*    a removed timer; and unless a timer is removed under its callback or *)
(*    after it ended, none is ever lost;                                   *)
(*  - the event ring implements the bounded first-in first-out queue       *)
(*    EventFifo;                                                           *)
(*  - the lower part of the screen: the keyboard is never left covered,    *)
(*    and without overlap or narrow updates dismissing it brings back the  *)
(*    newest page.                                                         *)
(***************************************************************************)
EXTENDS TimerPool, EventQueue, OskScreen, SequenceTheorems, TLAPS

-----------------------------------------------------------------------------
(* The timer pool.                                                          *)
LEMMA SpecSafety == PoolSpec => PoolInit /\ [][PoolNext]_poolVars
BY PTL DEF PoolSpec

\* A slot a scan still has to call is in use, and is ahead of the scan; the
\* callback in progress was called from the slot its client knows.
Calling == worker.at \in Slots /\ worker.cb \in Timers
            /\ handle[worker.cb] = worker.at /\ life[worker.cb] # "new"
ScanInv == /\ \A i \in worker.due : slot[i].active /\ i > worker.at
           /\ worker.pc = "call" => Calling

\* The inductive invariant: the call made by the worker has a real slot and
\* timer because ActiveIsLive gives every slot of the scan an owner.
IInv == PoolTypeOK /\ ActiveIsLive /\ ScanInv
         /\ \A n \in Timers : life[n] \in {"live", "ended"} => handle[n] \in Slots

-----------------------------------------------------------------------------
LEMMA IInvInit == PoolInit => IInv
<1> SUFFICES ASSUME PoolInit PROVE IInv
  OBVIOUS
<1>1. PoolTypeOK
  BY PoolAssumption DEF PoolInit, PoolTypeOK, Slots, Timers, NULL, Slot, Asleep
<1> QED BY <1>1, PoolAssumption DEF PoolInit, IInv, ActiveIsLive, ScanInv, Asleep

\* The scan hands the worker a slot in use or puts it to sleep.
LEMMA ScanStep ==
  ASSUME IInv, NEW due \in SUBSET Slots, \A i \in due : slot[i].active, ScanFrom(due, slot)
  PROVE  /\ worker' \in [pc : {"sleep", "call"}, at : Slots \cup {0},
                         cb : Timers \cup {NULL}, due : SUBSET Slots]
         /\ worker'.due \subseteq due
         /\ \A i \in worker'.due : i > worker'.at
         /\ worker'.pc = "call" => /\ worker'.at \in due \ worker'.due
                                   /\ worker'.cb = slot[worker'.at].cb /\ worker'.cb \in Timers
                                   /\ handle[worker'.cb] = worker'.at /\ life[worker'.cb] = "live"
<1>1. CASE due = {} /\ worker' = Asleep
  BY <1>1 DEF Asleep
<1>2. ASSUME NEW i \in due, \A j \in due : i <= j,
             worker' = [pc |-> "call", at |-> i, cb |-> slot[i].cb, due |-> due \ {i}]
      PROVE  /\ worker' \in [pc : {"sleep", "call"}, at : Slots \cup {0},
                             cb : Timers \cup {NULL}, due : SUBSET Slots]
             /\ worker'.due \subseteq due
             /\ \A j \in worker'.due : j > worker'.at
             /\ worker'.at \in due \ worker'.due
             /\ worker'.cb = slot[worker'.at].cb /\ worker'.cb \in Timers
             /\ handle[worker'.cb] = worker'.at /\ life[worker'.cb] = "live"
  <2>1. i \in Slots /\ slot[i].cb \in Timers /\ handle[slot[i].cb] = i
        /\ life[slot[i].cb] = "live"
    BY DEF IInv, PoolTypeOK, ActiveIsLive, Slot
  <2>2. \A j \in due \ {i} : j > i
    BY <1>2, PoolAssumption DEF Slots
  <2> QED BY <1>2, <2>1, <2>2
<1> QED BY <1>1, <1>2 DEF ScanFrom

LEMMA WorkerIInv == ASSUME IInv, Worker PROVE IInv'
<1> USE PoolAssumption
<1>1. CASE WorkerWake
  <2>1. DueSlots \in SUBSET Slots /\ \A i \in DueSlots : slot[i].active
    BY DEF DueSlots
  <2>2. ScanFrom(DueSlots, slot) /\ UNCHANGED <<slot, life, handle, running, racy>>
    BY <1>1 DEF WorkerWake
  <2>3. PoolTypeOK' /\ ScanInv'
    BY <2>1, <2>2, ScanStep DEF IInv, PoolTypeOK, ScanInv, Calling
  <2> QED BY <2>2, <2>3 DEF IInv, ActiveIsLive
<1>2. ASSUME NEW next \in Intervals \cup {0}, WorkerReturn(next) PROVE IInv'
  <2> DEFINE a == worker.at
  <2>0. a \in Slots /\ worker.cb \in Timers /\ worker.due \in SUBSET Slots /\ slot[a] \in Slot
        /\ next \in Nat /\ handle[worker.cb] = a
    BY <1>2 DEF WorkerReturn, IInv, ScanInv, Calling, PoolTypeOK
  <2>1. /\ slot' \in [Slots -> Slot]
        /\ \A i \in Slots \ {a} : slot'[i] = slot[i]
        /\ slot'[a].active => slot[a].active /\ slot'[a].cb = slot[a].cb /\ next # 0
    BY <1>2, <2>0 DEF WorkerReturn, IInv, PoolTypeOK, Answered, Slot, NULL
  <2>2. \A i \in worker.due : slot[i].active /\ i # a
    BY <2>0 DEF IInv, ScanInv, Slots
  <2>3. ScanFrom(worker.due, slot)
    BY <1>2 DEF WorkerReturn
  <2>4. /\ worker' \in [pc : {"sleep", "call"}, at : Slots \cup {0},
                        cb : Timers \cup {NULL}, due : SUBSET Slots]
        /\ ScanInv'
    <3> HIDE DEF a
    <3>1. \A n \in Timers : life[n] # "new" => life'[n] # "new"
      BY <1>2 DEF WorkerReturn, IInv, PoolTypeOK
    <3>2. handle' = handle
      BY <1>2 DEF WorkerReturn
    <3> QED BY <2>0, <2>1, <2>2, <2>3, <3>1, <3>2, ScanStep DEF ScanInv, Calling
  <2>5. /\ life' \in [Timers -> {"new", "live", "ended", "removed"}]
        /\ \A n \in Timers : n # worker.cb => life'[n] = life[n]
        /\ next # 0 => life' = life
        /\ \A n \in Timers : life'[n] \in {"live", "ended"} => life[n] \in {"live", "ended"}
    BY <1>2, <2>0 DEF WorkerReturn, IInv, PoolTypeOK
  <2>6. UNCHANGED <<handle, running, racy>>
    BY <1>2 DEF WorkerReturn
  <2>7. ActiveIsLive'
    <3> SUFFICES ASSUME NEW i \in Slots, slot'[i].active
                 PROVE  /\ slot'[i].cb # NULL /\ life'[slot'[i].cb] = "live"
                        /\ handle'[slot'[i].cb] = i
      BY DEF ActiveIsLive
    <3>1. slot[i].active /\ slot'[i].cb = slot[i].cb
      BY <2>1
    <3>2. slot[i].cb # NULL /\ life[slot[i].cb] = "live" /\ handle[slot[i].cb] = i
          /\ slot[i].cb \in Timers
      BY <3>1 DEF IInv, ActiveIsLive, PoolTypeOK, Slot
    <3>3. CASE next # 0
      BY <3>1, <3>2, <3>3, <2>5, <2>6
    <3>4. CASE next = 0 /\ slot[i].cb # worker.cb
      BY <3>1, <3>2, <3>4, <2>5, <2>6
    <3>5. CASE next = 0 /\ slot[i].cb = worker.cb   \* then i is the slot just freed
      BY <3>1, <3>2, <3>5, <2>0, <2>1
    <3> QED BY <3>3, <3>4, <3>5, <2>0
  <2> QED BY <2>1, <2>4, <2>5, <2>6, <2>7 DEF IInv, PoolTypeOK
<1> QED BY <1>1, <1>2 DEF Worker

LEMMA ClientIInv == ASSUME IInv, Client PROVE IInv'
<1> USE PoolAssumption
<1>1. ASSUME NEW n \in Timers, NEW d \in Intervals, SDL_AddTimer(n, d) PROVE IInv'
  <2>1. PICK i \in FreeSlots :
          /\ slot' = [slot EXCEPT ![i] = [active |-> TRUE, cb |-> n, left |-> d]]
          /\ handle' = [handle EXCEPT ![n] = i]
          /\ life' = [life EXCEPT ![n] = "live"]
          /\ worker' = [worker EXCEPT !.due = @ \ {i}]
    BY <1>1 DEF SDL_AddTimer, Touch
  <2>2. i \in Slots /\ ~slot[i].active /\ life[n] = "new" /\ d \in Nat
        /\ running' = running /\ racy' = racy
    BY <1>1 DEF FreeSlots, SDL_AddTimer
  <2>3. PoolTypeOK'
    <3>1. [active |-> TRUE, cb |-> n, left |-> d] \in Slot
      BY <2>2 DEF Slot
    <3>2. worker' \in [pc : {"sleep", "call"}, at : Slots \cup {0},
                       cb : Timers \cup {NULL}, due : SUBSET Slots]
      BY <2>1 DEF IInv, PoolTypeOK
    <3> QED BY <2>1, <2>2, <3>1, <3>2 DEF IInv, PoolTypeOK
  <2>4. ActiveIsLive'
    BY <2>1, <2>2 DEF IInv, PoolTypeOK, ActiveIsLive, Slot, NULL, Timers
  <2>5. ScanInv'
    BY <2>1, <2>2 DEF IInv, PoolTypeOK, ScanInv, Calling
  <2> QED BY <2>1, <2>2, <2>3, <2>4, <2>5 DEF IInv, PoolTypeOK
<1>2. ASSUME NEW n \in Timers, SDL_AddTimerFull(n) PROVE IInv'
  <2>1. /\ life[n] = "new" /\ life' = [life EXCEPT ![n] = "removed"]
        /\ UNCHANGED <<slot, worker, handle, running, racy>>
    BY <1>2 DEF SDL_AddTimerFull
  <2> QED BY <2>1 DEF IInv, PoolTypeOK, ActiveIsLive, ScanInv, Calling, Slot
<1>3. ASSUME NEW n \in Timers, SDL_RemoveTimer(n) PROVE IInv'
  <2> DEFINE h == handle[n]
  <2>1. h \in Slots
    BY <1>3, PoolAssumption DEF SDL_RemoveTimer, IInv
  <2>2. /\ slot' = [slot EXCEPT ![h] = [active |-> FALSE, cb |-> NULL, left |-> @.left]]
        /\ life' = [life EXCEPT ![n] = "removed"]
        /\ worker' = [worker EXCEPT !.due = @ \ {h}]
        /\ racy' \in BOOLEAN
        /\ UNCHANGED <<handle, running>>
    BY <1>3 DEF SDL_RemoveTimer, Touch, IInv, PoolTypeOK
  <2>3. /\ slot' \in [Slots -> Slot]
        /\ ~slot'[h].active /\ \A i \in Slots \ {h} : slot'[i] = slot[i]
    BY <2>1, <2>2 DEF IInv, PoolTypeOK, Slot, NULL
  <2>4. PoolTypeOK'
    BY <2>2, <2>3 DEF IInv, PoolTypeOK
  <2>5. ActiveIsLive'
    BY <2>1, <2>2, <2>3 DEF IInv, PoolTypeOK, ActiveIsLive, Slot, NULL
  <2>6. ScanInv'
    BY <2>1, <2>2, <2>3 DEF IInv, PoolTypeOK, ScanInv, Calling
  <2> QED BY <2>2, <2>4, <2>5, <2>6 DEF IInv, PoolTypeOK
<1>4. CASE SDL_Quit
  BY <1>4 DEF SDL_Quit, IInv, PoolTypeOK, ActiveIsLive, ScanInv, Calling
<1> QED BY <1>1, <1>2, <1>3, <1>4 DEF Client

LEMMA TickIInv == ASSUME IInv, Tick PROVE IInv'
<1>1. /\ slot' \in [Slots -> Slot]
      /\ \A i \in Slots : slot'[i].active = slot[i].active /\ slot'[i].cb = slot[i].cb
  BY DEF Tick, IInv, PoolTypeOK, Slot
<1>2. UNCHANGED <<worker, life, handle, running, racy>>
  BY DEF Tick
<1>3. worker.due \subseteq Slots
  BY DEF IInv, PoolTypeOK
<1> QED BY <1>1, <1>2, <1>3 DEF IInv, PoolTypeOK, ActiveIsLive, ScanInv, Calling

LEMMA IInvNext == ASSUME IInv, [PoolNext]_poolVars PROVE IInv'
<1>1. CASE UNCHANGED poolVars
  BY <1>1 DEF poolVars, IInv, PoolTypeOK, ActiveIsLive, ScanInv, Calling
<1> QED BY <1>1, WorkerIInv, ClientIInv, TickIInv DEF PoolNext

LEMMA IInvAlways == PoolSpec => []IInv
BY IInvInit, IInvNext, SpecSafety, PTL

-----------------------------------------------------------------------------
\* The type invariant, for every pool.
THEOREM PoolTypeCorrect == PoolSpec => []PoolTypeOK
<1>1. IInv => PoolTypeOK
  BY DEF IInv
<1> QED BY <1>1, IInvAlways, PTL

\* A slot in use always belongs to a live timer and to the client that holds
\* its address, whatever callbacks and removals overlap.
THEOREM ActiveIsLiveCorrect == PoolSpec => []ActiveIsLive
<1>1. IInv => ActiveIsLive
  BY DEF IInv
<1> QED BY <1>1, IInvAlways, PTL

\* SDL_RemoveTimer keeps every later callback of that timer from starting.
THEOREM StartsLiveCorrect == PoolSpec => StartsLive
<1> DEFINE Starts == worker'.pc = "call" /\ <<worker'.at, worker'.cb>> # <<worker.at, worker.cb>>
                       => life[worker'.cb] = "live"
<1>1. ASSUME IInv, [PoolNext]_poolVars PROVE [Starts]_poolVars
  <2>1. CASE WorkerWake
    <3>1. DueSlots \in SUBSET Slots /\ \A i \in DueSlots : slot[i].active
      BY DEF DueSlots
    <3> QED BY <1>1, <2>1, <3>1, ScanStep DEF WorkerWake
  <2>2. ASSUME NEW next, WorkerReturn(next) PROVE Starts
    <3>1. worker.due \in SUBSET Slots /\ \A i \in worker.due : slot[i].active
      BY <1>1 DEF IInv, PoolTypeOK, ScanInv
    <3> QED BY <1>1, <2>2, <3>1, ScanStep DEF WorkerReturn
  <2>3. ASSUME NEW i, Touch(i) PROVE <<worker'.at, worker'.cb>> = <<worker.at, worker.cb>>
    BY <1>1, <2>3 DEF Touch, IInv, PoolTypeOK
  <2>4. CASE Client
    BY <2>3, <2>4 DEF Client, SDL_AddTimer, SDL_AddTimerFull, SDL_RemoveTimer, SDL_Quit
  <2>5. CASE Tick
    BY <2>5 DEF Tick
  <2> QED BY <1>1, <2>1, <2>2, <2>4, <2>5 DEF PoolNext, Worker
<1> QED BY <1>1, IInvAlways, SpecSafety, PTL DEF StartsLive

-----------------------------------------------------------------------------
\* Without late removals the worker's call is of a timer still in its slot.
CallOwnsSlot == worker.pc = "call" =>
  life[worker.cb] = "live" /\ slot[worker.at].active /\ slot[worker.at].cb = worker.cb
AllArmed == \A n \in Timers : life[n] = "live" => Armed(n)
KeepInv == ~racy => AllArmed /\ CallOwnsSlot

LEMMA KeepNext ==
  ASSUME IInv, KeepInv, [PoolNext]_poolVars PROVE KeepInv'
<1> USE DEF KeepInv, AllArmed, Armed, CallOwnsSlot
<1> SUFFICES ASSUME ~racy' PROVE AllArmed' /\ CallOwnsSlot'
  OBVIOUS
<1>r. ~racy
  BY DEF PoolNext, Worker, Client, WorkerWake, WorkerReturn, SDL_AddTimer, SDL_AddTimerFull,
         SDL_RemoveTimer, SDL_Quit, Tick, poolVars
<1> USE <1>r
<1>0. \A n \in Timers : life[n] = "live" => handle[n] \in Slots
  BY DEF IInv
<1>1. CASE WorkerWake
  <2>1. DueSlots \in SUBSET Slots /\ \A i \in DueSlots : slot[i].active
    BY DEF DueSlots
  <2> QED BY <1>1, <2>1, ScanStep DEF WorkerWake
<1>2. ASSUME NEW next \in Intervals \cup {0}, WorkerReturn(next) PROVE KeepInv'
  <2> DEFINE a == worker.at
  <2>1. /\ a \in Slots /\ worker.cb \in Timers /\ handle[worker.cb] = a
        /\ slot[a] \in Slot /\ slot[a].active /\ slot[a].cb = worker.cb
    BY <1>2 DEF WorkerReturn, IInv, ScanInv, Calling, PoolTypeOK
  <2>2. /\ \A i \in Slots \ {a} : slot'[i] = slot[i]
        /\ next # 0 => slot'[a].active /\ slot'[a].cb = slot[a].cb
    BY <1>2, <2>1 DEF WorkerReturn, IInv, PoolTypeOK, Answered, Slot
  <2>3. /\ next = 0 => life'[worker.cb] # "live"
        /\ \A n \in Timers : n # worker.cb => life'[n] = life[n]
        /\ next # 0 => life' = life
        /\ handle' = handle
    BY <1>2, <2>1 DEF WorkerReturn, IInv, PoolTypeOK
  <2>4. AllArmed'
    BY <1>0, <2>1, <2>2, <2>3
  <2>5. CallOwnsSlot'
    <3>1. worker.due \in SUBSET Slots /\ \A i \in worker.due : slot[i].active /\ i # a
      BY <2>1 DEF IInv, PoolTypeOK, ScanInv, Slots
    <3>2. worker'.pc = "call" =>
            /\ worker'.at \in worker.due /\ worker'.cb = slot[worker'.at].cb
            /\ worker'.cb \in Timers
            /\ handle[worker'.cb] = worker'.at /\ life[worker'.cb] = "live"
      BY <1>2, <3>1, ScanStep DEF WorkerReturn
    <3> QED BY <2>1, <2>2, <2>3, <3>1, <3>2
  <2> QED BY <2>4, <2>5
<1>3. ASSUME NEW n \in Timers, NEW d \in Intervals, SDL_AddTimer(n, d) PROVE KeepInv'
  <2>1. PICK i \in FreeSlots :
          /\ slot' = [slot EXCEPT ![i] = [active |-> TRUE, cb |-> n, left |-> d]]
          /\ handle' = [handle EXCEPT ![n] = i]
          /\ life' = [life EXCEPT ![n] = "live"]
          /\ worker' = [worker EXCEPT !.due = @ \ {i}]
    BY <1>3 DEF SDL_AddTimer, Touch
  <2>2. i \in Slots /\ ~slot[i].active /\ life[n] = "new"
    BY <1>3 DEF FreeSlots, SDL_AddTimer
  <2>3. AllArmed'
    BY <1>0, <2>1, <2>2 DEF IInv, PoolTypeOK
  <2>4. worker'.pc = worker.pc /\ worker'.at = worker.at /\ worker'.cb = worker.cb
    BY <2>1 DEF IInv, PoolTypeOK
  <2>5. CallOwnsSlot'
    BY <2>1, <2>2, <2>4 DEF IInv, PoolTypeOK, ScanInv, Calling
  <2> QED BY <2>3, <2>5
<1>4. ASSUME NEW n \in Timers, SDL_AddTimerFull(n) PROVE KeepInv'
  BY <1>4 DEF SDL_AddTimerFull, IInv, PoolTypeOK, ScanInv, Calling
<1>5. ASSUME NEW n \in Timers, SDL_RemoveTimer(n) PROVE KeepInv'
  <2>1. /\ life[n] = "live" /\ handle[n] \in Slots /\ slot[handle[n]].cb = n
        /\ worker.pc = "call" => worker.at # handle[n]
    BY <1>0, <1>5 DEF SDL_RemoveTimer, Late
  <2>2. /\ \A i \in Slots : i # handle[n] => slot'[i] = slot[i]
        /\ \A k \in Timers : k # n => life'[k] = life[k]
        /\ life'[n] = "removed" /\ handle' = handle
    BY <1>5 DEF SDL_RemoveTimer, IInv, PoolTypeOK
  <2>3. worker'.pc = worker.pc /\ worker'.at = worker.at /\ worker'.cb = worker.cb
    BY <1>5 DEF SDL_RemoveTimer, Touch, IInv, PoolTypeOK
  <2>4. \A k \in Timers : k # n /\ life[k] = "live" => handle[k] # handle[n]
    BY <2>1
  <2>5. AllArmed'
    BY <1>0, <2>1, <2>2, <2>4
  <2>6. CallOwnsSlot'
    BY <2>1, <2>2, <2>3 DEF IInv, ScanInv, Calling
  <2> QED BY <2>5, <2>6
<1>6. CASE SDL_Quit
  BY <1>6 DEF SDL_Quit
<1>7. CASE Tick
  <2>1. \A i \in Slots : slot'[i].active = slot[i].active /\ slot'[i].cb = slot[i].cb
    BY <1>7 DEF Tick
  <2> QED BY <1>0, <1>7, <2>1 DEF Tick, IInv, ScanInv, Calling
<1>8. CASE UNCHANGED poolVars
  BY <1>8 DEF poolVars
<1> QED BY <1>1, <1>2, <1>3, <1>4, <1>5, <1>6, <1>7, <1>8 DEF PoolNext, Worker, Client

\* As long as timers are removed between callbacks only, none is lost: a timer
\* stays armed in its slot until its client removes it or its callback answers 0.
THEOREM NotLostCorrect == PoolSpec => []NotLost
<1>1. PoolInit => KeepInv
  BY DEF PoolInit, KeepInv, AllArmed, CallOwnsSlot, Asleep
<1>2. KeepInv => NotLost
  BY DEF KeepInv, NotLost, AllArmed
<1> QED BY <1>1, <1>2, KeepNext, IInvAlways, SpecSafety, PTL

-----------------------------------------------------------------------------
(* The event ring.                                                          *)
\* The successor of an index without the remainder.
LEMMA AdvanceIs ==
  ASSUME NEW i \in Index
  PROVE  Advance(i) = IF i = MaxEvents - 1 THEN 0 ELSE i + 1
<1>1. CASE i = MaxEvents - 1
  BY <1>1, RingAssumption DEF Advance, Index
<1>2. CASE i # MaxEvents - 1
  BY <1>2, RingAssumption DEF Advance, Index
<1> QED BY <1>1, <1>2

LEMMA TypeNext == ASSUME RingTypeOK, [RingNext]_ringVars PROVE RingTypeOK'
<1> USE RingAssumption, EventAssumption
<1>0. \A i \in Index : Advance(i) \in Index
  BY AdvanceIs DEF Index
<1>1. ASSUME NEW e \in Events, queue_event(e) PROVE RingTypeOK'
  BY <1>0, <1>1 DEF queue_event, RingTypeOK
<1>2. CASE dequeue_event
  BY <1>0, <1>2 DEF dequeue_event, RingTypeOK
<1>3. CASE PollEmpty
  BY <1>3 DEF PollEmpty, RingTypeOK, ring
<1>4. CASE UNCHANGED ringVars
  BY <1>4 DEF ringVars, ring, RingTypeOK
<1> QED BY <1>1, <1>2, <1>3, <1>4 DEF RingNext

LEMMA TypeInit == RingInit => RingTypeOK
BY RingAssumption DEF RingInit, RingTypeOK, Index

\* The type invariant, for every ring.
THEOREM RingTypeCorrect == RingSpec => []RingTypeOK
BY TypeInit, TypeNext, PTL DEF RingSpec

-----------------------------------------------------------------------------
\* The count is within the capacity, and every place it covers is in the ring.
LEMMA CountType ==
  ASSUME RingTypeOK
  PROVE  /\ Count \in 0..(MaxEvents - 1)
         /\ Count = 0 <=> eq_head = eq_tail
         /\ \A k \in 0..Count : At(k) \in Index
         /\ At(Count) = eq_tail
         /\ \A k \in 0..(Count - 1) : At(k) # eq_tail
BY RingAssumption DEF RingTypeOK, Count, At, Index

LEMMA ContentsType ==
  ASSUME RingTypeOK
  PROVE  /\ Contents \in Seq(Events \cup {NoEvent})
         /\ Len(Contents) = Count
         /\ \A k \in 1..Count : Contents[k] = event_queue[At(k - 1)]
<1>1. Count \in Nat
  BY CountType, RingAssumption
<1>2. \A k \in 1..Count : event_queue[At(k - 1)] \in Events \cup {NoEvent}
  <2>1. \A k \in 1..Count : k - 1 \in 0..Count
    BY <1>1
  <2> QED BY <2>1, CountType DEF RingTypeOK
<1>3. Contents \in [1..Count -> Events \cup {NoEvent}]
  BY <1>2 DEF Contents
<1> QED BY <1>1, <1>3 DEF Contents

\* The ring is full exactly when the abstract queue is.
LEMMA FullIs ==
  ASSUME RingTypeOK
  PROVE  Advance(eq_tail) # eq_head <=> Count < MaxEvents - 1
BY AdvanceIs, RingAssumption DEF RingTypeOK, Count, Index

\* Posting an event is an abstract Post: append, or drop when full.
LEMMA PostRefines ==
  ASSUME RingTypeOK, RingTypeOK', NEW e \in Events, queue_event(e)
  PROVE  Fifo!Post(e)
<1>1. CASE Advance(eq_tail) # eq_head
  <2>1. /\ event_queue' = [event_queue EXCEPT ![eq_tail] = e]
        /\ eq_tail' = Advance(eq_tail) /\ eq_head' = eq_head /\ got' = got
    BY <1>1 DEF queue_event
  <2>2. Count < MaxEvents - 1
    BY <1>1, FullIs
  <2>3. Count' = Count + 1
    BY <2>1, <2>2, AdvanceIs, RingAssumption DEF RingTypeOK, Count, Index
  <2>4. \A k \in Int : At(k)' = At(k)
    BY <2>1 DEF At
  <2>5. Contents' = Append(Contents, e)
    <3>1. Contents' = [k \in 1..(Count + 1) |-> event_queue'[At(k - 1)]]
      BY <2>1, <2>3 DEF Contents, At
    <3>2. \A k \in 1..Count : event_queue'[At(k - 1)] = Contents[k]
      <4> SUFFICES ASSUME NEW k \in 1..Count PROVE event_queue'[At(k - 1)] = Contents[k]
        OBVIOUS
      <4>1. k - 1 \in 0..(Count - 1) /\ k - 1 \in 0..Count
        BY CountType, RingAssumption
      <4>2. At(k - 1) \in Index /\ At(k - 1) # eq_tail
        BY <4>1, CountType
      <4> QED BY <2>1, <4>2, ContentsType DEF RingTypeOK
    <3>3. event_queue'[At(Count)] = e
      BY <2>1, CountType DEF RingTypeOK
    <3> DEFINE S == Events \cup {NoEvent}
    <3>4. /\ Append(Contents, e) \in Seq(S) /\ Len(Append(Contents, e)) = Count + 1
          /\ \A k \in 1..Count : Append(Contents, e)[k] = Contents[k]
          /\ Append(Contents, e)[Count + 1] = e
      BY ContentsType, AppendProperties
    <3>5. \A k \in 1..(Count + 1) : k \in 1..Count \/ k = Count + 1
      BY CountType, RingAssumption
    <3>6. \A k \in 1..(Count + 1) : event_queue'[At(k - 1)] = Append(Contents, e)[k]
      <4> SUFFICES ASSUME NEW k \in 1..(Count + 1)
                   PROVE  event_queue'[At(k - 1)] = Append(Contents, e)[k]
        OBVIOUS
      <4>1. CASE k \in 1..Count
        BY <4>1, <3>2, <3>4
      <4>2. CASE k = Count + 1
        <5>1. event_queue'[At(k - 1)] = e
          <6>1. k - 1 = Count
            BY <4>2, CountType, RingAssumption
          <6> QED BY <6>1, <3>3
        <5>2. Append(Contents, e)[k] = e
          BY <4>2, <3>4
        <5> QED BY <5>1, <5>2
      <4> QED BY <4>1, <4>2, <3>5
    <3>7. Contents' \in Seq(S) /\ Len(Contents') = Count + 1
      <4>1. \A k \in 1..(Count + 1) : event_queue'[At(k - 1)] \in S
        BY <3>4, <3>6, ElementOfSeq
      <4>2. Count + 1 \in Nat
        BY CountType, RingAssumption
      <4>3. Contents' \in [1..(Count + 1) -> S]
        BY <3>1, <4>1
      <4> QED BY <4>2, <4>3
    <3> QED BY <3>1, <3>4, <3>6, <3>7, SeqEqual
  <2> QED BY <2>1, <2>2, <2>5, ContentsType DEF Fifo!Post
<1>2. CASE Advance(eq_tail) = eq_head
  <2>1. UNCHANGED <<event_queue, eq_tail, eq_head, got>>
    BY <1>2 DEF queue_event
  <2>2. Contents' = Contents
    BY <2>1 DEF Contents, Count, At
  <2>3. ~(Count < MaxEvents - 1)
    BY <1>2, FullIs
  <2> QED BY <2>1, <2>2, <2>3, ContentsType DEF Fifo!Post
<1> QED BY <1>1, <1>2

\* Taking an event is an abstract Take of the oldest one.
LEMMA TakeRefines ==
  ASSUME RingTypeOK, RingTypeOK', dequeue_event
  PROVE  Fifo!Take
<1>1. /\ eq_head # eq_tail /\ got' = event_queue[eq_head]
      /\ eq_head' = Advance(eq_head) /\ UNCHANGED <<event_queue, eq_tail>>
  BY DEF dequeue_event
<1>2. Count \in Nat /\ Count > 0 /\ Len(Contents) = Count
  BY <1>1, CountType, ContentsType, RingAssumption
<1>3. Count' = Count - 1
  BY <1>1, AdvanceIs, RingAssumption DEF RingTypeOK, Count, Index
<1>4. Contents # <<>>
  BY <1>2, ContentsType
<1>5. Head(Contents) = event_queue[eq_head]
  <2>1. At(1 - 1) = eq_head
    BY RingAssumption DEF At, RingTypeOK, Index
  <2> QED BY <1>2, <1>4, <2>1, ContentsType
<1>6. \A k \in 1..(Count - 1) : At(k - 1)' = At(k)
  <2> SUFFICES ASSUME NEW k \in 1..(Count - 1) PROVE At(k - 1)' = At(k)
    OBVIOUS
  <2>1. k \in Nat /\ k > 0 /\ k < MaxEvents - 1
    BY <1>2, CountType, RingAssumption
  <2>2. eq_head' = IF eq_head = MaxEvents - 1 THEN 0 ELSE eq_head + 1
    BY <1>1, AdvanceIs DEF RingTypeOK
  <2>3. At(k - 1)' = IF eq_head' + (k - 1) < MaxEvents THEN eq_head' + (k - 1)
                     ELSE eq_head' + (k - 1) - MaxEvents
    BY DEF At
  <2> QED BY <2>1, <2>2, <2>3, RingAssumption DEF At, RingTypeOK, Index
<1>7. Contents' = [k \in 1..(Count - 1) |-> event_queue[At(k - 1)']]
  BY <1>1, <1>3 DEF Contents, At
<1>8. /\ Tail(Contents) \in Seq(Events \cup {NoEvent}) /\ Len(Tail(Contents)) = Count - 1
      /\ \A k \in 1..(Count - 1) : Tail(Contents)[k] = Contents[k + 1]
  BY <1>2, <1>4, ContentsType, HeadTailProperties
<1>9. \A k \in 1..(Count - 1) : Contents[k + 1] = event_queue[At(k)]
  <2> SUFFICES ASSUME NEW k \in 1..(Count - 1) PROVE Contents[k + 1] = event_queue[At(k)]
    OBVIOUS
  <2>1. k + 1 \in 1..Count /\ (k + 1) - 1 = k
    BY <1>2
  <2> QED BY <2>1, ContentsType
<1>10. Contents' = Tail(Contents)
  <2>1. \A k \in 1..(Count - 1) : k \in 0..Count
    BY <1>2
  <2>2. \A k \in 1..(Count - 1) : event_queue[At(k)] \in Events \cup {NoEvent}
    BY <2>1, CountType DEF RingTypeOK
  <2>3. Contents' \in [1..(Count - 1) -> Events \cup {NoEvent}]
    BY <1>6, <1>7, <2>2
  <2>4. Contents' \in Seq(Events \cup {NoEvent}) /\ Len(Contents') = Count - 1
    <3>1. Count - 1 \in Nat
      BY <1>2
    <3> QED BY <2>3, <3>1
  <2>5. \A k \in 1..(Count - 1) : Contents'[k] = Tail(Contents)[k]
    BY <1>6, <1>7, <1>8, <1>9
  <2> QED BY <1>8, <2>4, <2>5, SeqEqual
<1> QED BY <1>1, <1>4, <1>5, <1>10 DEF Fifo!Take

\* A poll that finds nothing finds the abstract queue empty.
LEMMA EmptyRefines ==
  ASSUME RingTypeOK, PollEmpty
  PROVE  Fifo!TakeNothing
<1>1. eq_head = eq_tail /\ got' = NoEvent /\ UNCHANGED <<event_queue, eq_head, eq_tail>>
  BY DEF PollEmpty, ring
<1>2. Contents = <<>>
  BY <1>1, CountType, ContentsType
<1>3. Contents' = Contents
  BY <1>1 DEF Contents, Count, At
<1> QED BY <1>1, <1>2, <1>3 DEF Fifo!TakeNothing

\* The ring of the shim is a bounded first-in first-out queue, whatever its
\* size, across wrap-round and at its limit.
THEOREM RingIsFifo == RingSpec => ImplementsFifo
<1>1. RingInit => Fifo!Init
  <2> SUFFICES ASSUME RingInit PROVE Fifo!Init
    OBVIOUS
  <2>1. Contents = <<>>
    BY TypeInit, CountType, ContentsType DEF RingInit
  <2> QED BY <2>1 DEF RingInit, Fifo!Init
<1>2. ASSUME RingTypeOK, RingTypeOK', [RingNext]_ringVars PROVE [Fifo!Next]_<<Contents, got>>
  <2>1. CASE UNCHANGED ringVars
    BY <2>1 DEF ringVars, ring, Contents, Count, At
  <2> QED BY <1>2, <2>1, PostRefines, TakeRefines, EmptyRefines DEF RingNext, Fifo!Next
<1> QED BY <1>1, <1>2, RingTypeCorrect, PTL DEF RingSpec, ImplementsFifo, Fifo!Spec

-----------------------------------------------------------------------------
(* The screen.                                                              *)
\* The keys are on the screen, or somebody is about to draw them or to turn the
\* keyboard off.
Repaired ==
  \/ fb = Keys
  \/ \E t \in Threads : pc[t] = "draw_osk"
  \/ pc["main"] \in {"update", "backup", "reassert"}
  \/ pc["input"] = "deactivate"

\* The saved strips are really there once somebody got past saving them.
Saved ==
  \/ osk_backup \in [Columns -> Pixels]
  \/ /\ osk_backup = Unset /\ ~osk_active
     /\ \A t \in Threads : pc[t] \in {"idle", "save", "update"}

Typed == ScreenTypeOK /\ Saved

ScreenInv == Typed /\ (osk_active => Repaired)

-----------------------------------------------------------------------------
\* Every strip drawn holds a pixel that the panel has.
LEMMA PixelFacts ==
  /\ MaxDraws \in Nat
  /\ KeyPixel \in Pixels
  /\ 0..MaxDraws \subseteq Pixels
  /\ Keys \in [Columns -> Pixels]
BY ScreenAssumption DEF KeyPixel, Pixels, Keys

\* The type invariant is inductive with the fact that a backup exists.
LEMMA TypedInit == ScreenInit => Typed
<1> SUFFICES ASSUME ScreenInit PROVE Typed
  OBVIOUS
<1>1. pc = [t \in Threads |-> "idle"] /\ pc \in [Threads -> Pcs]
  BY DEF ScreenInit, Threads, Pcs
<1>2. fb \in [Columns -> Pixels] /\ page \in [Columns -> 0..MaxDraws] /\ draws \in 0..MaxDraws
  BY PixelFacts DEF ScreenInit
<1> QED BY <1>1, <1>2 DEF ScreenInit, Typed, ScreenTypeOK, Saved, Threads

LEMMA TypedNext == ASSUME Typed, [ScreenNext]_screenVars PROVE Typed'
<1> USE PixelFacts DEF Typed, ScreenTypeOK, Saved, Threads, Pcs
<1>1. ASSUME NEW t \in Threads, ShowBegin(t) PROVE Typed'
  BY <1>1 DEF ShowBegin, Begin
<1>2. ASSUME NEW t \in Threads, ShowSave(t) PROVE Typed'
  BY <1>2 DEF ShowSave, Goto
<1>3. ASSUME NEW t \in Threads, ShowActivate(t) PROVE Typed'
  BY <1>3 DEF ShowActivate, Goto
<1>4. ASSUME NEW t \in Threads, ShowDraw(t) PROVE Typed'
  BY <1>4 DEF ShowDraw, Goto
<1>5. CASE HideBegin BY <1>5 DEF HideBegin, Begin
<1>6. CASE HideRestore BY <1>6 DEF HideRestore, Goto
<1>7. CASE HideDeactivate BY <1>7 DEF HideDeactivate, Goto
<1>8. ASSUME NEW cols \in SUBSET Columns, Draw(cols) PROVE Typed'
  <2>1. draws + 1 \in 0..MaxDraws
    BY <1>8 DEF Draw
  <2>2. fb' \in [Columns -> Pixels] /\ page' \in [Columns -> 0..MaxDraws]
    BY <1>8, <2>1 DEF Draw
  <2>3. draws' \in 0..MaxDraws /\ UNCHANGED <<osk_backup, osk_active>> /\ narrow' \in BOOLEAN
    BY <1>8, <2>1 DEF Draw
  <2>4. pc' \in [Threads -> Pcs] /\ overlap' \in BOOLEAN /\ pc' = [pc EXCEPT !["main"] = "update"]
    BY <1>8 DEF Draw, Begin
  <2>5. Saved'
    BY <2>3, <2>4
  <2> QED BY <2>2, <2>3, <2>4, <2>5
<1>9. CASE UpdateBegin BY <1>9 DEF UpdateBegin
<1>10. CASE UpdateBackup BY <1>10 DEF UpdateBackup, Goto
<1>11. CASE UpdateReassert BY <1>11 DEF UpdateReassert, Goto
<1>12. CASE UNCHANGED screenVars BY <1>12 DEF screenVars
<1> QED
  BY <1>1, <1>2, <1>3, <1>4, <1>5, <1>6, <1>7, <1>8, <1>9, <1>10, <1>11, <1>12 DEF ScreenNext

\* Every pixel on the screen and in the backup is a real one: hide_osk never
\* copies strips that malloc left unset onto the panel.
THEOREM ScreenTypeCorrect == ScreenSpec => []ScreenTypeOK
<1>1. Typed => ScreenTypeOK
  BY DEF Typed
<1> QED BY <1>1, TypedInit, TypedNext, PTL DEF ScreenSpec

-----------------------------------------------------------------------------
\* Whoever covers or uncovers the keys still has a step to take that repairs it.
LEMMA RepairedNext == ASSUME Typed, osk_active => Repaired, [ScreenNext]_screenVars PROVE osk_active' => Repaired'
<1> USE DEF Repaired, Typed, ScreenTypeOK, Threads
<1>1. ASSUME NEW t \in Threads, ShowBegin(t) PROVE osk_active' => Repaired'
  BY <1>1 DEF ShowBegin, Begin
<1>2. ASSUME NEW t \in Threads, ShowSave(t) PROVE osk_active' => Repaired'
  BY <1>2 DEF ShowSave, Goto
<1>3. ASSUME NEW t \in Threads, ShowActivate(t) PROVE osk_active' => Repaired'
  BY <1>3 DEF ShowActivate, Goto
<1>4. ASSUME NEW t \in Threads, ShowDraw(t) PROVE osk_active' => Repaired'
  BY <1>4 DEF ShowDraw, Goto, Keys
<1>5. CASE HideBegin BY <1>5 DEF HideBegin, Begin
<1>6. CASE HideRestore BY <1>6 DEF HideRestore, Goto
<1>7. CASE HideDeactivate BY <1>7 DEF HideDeactivate, Goto
<1>8. ASSUME NEW cols \in SUBSET Columns, Draw(cols) PROVE osk_active' => Repaired'
  BY <1>8 DEF Draw, Begin
<1>9. CASE UpdateBegin BY <1>9 DEF UpdateBegin
<1>10. CASE UpdateBackup BY <1>10 DEF UpdateBackup, Goto
<1>11. CASE UpdateReassert BY <1>11 DEF UpdateReassert, Goto, Keys
<1>12. CASE UNCHANGED screenVars BY <1>12 DEF screenVars, Keys
<1> QED
  BY <1>1, <1>2, <1>3, <1>4, <1>5, <1>6, <1>7, <1>8, <1>9, <1>10, <1>11, <1>12 DEF ScreenNext

\* The comment in SDL_UpdateRect, for every interleaving of the two threads:
\* once both are done an active keyboard is on the screen, whole.
THEOREM KeyboardVisibleCorrect == ScreenSpec => []KeyboardVisible
<1>1. ScreenInit => ScreenInv
  BY TypedInit DEF ScreenInv, ScreenInit
<1>2. ScreenInv /\ [ScreenNext]_screenVars => ScreenInv'
  BY TypedNext, RepairedNext DEF ScreenInv
<1>3. ScreenInv => KeyboardVisible
  BY DEF ScreenInv, Repaired, KeyboardVisible, Quiet, Threads
<1> QED BY <1>1, <1>2, <1>3, PTL DEF ScreenSpec

-----------------------------------------------------------------------------
\* At most one thread is at work, and this is what each of its positions knows
\* about the page: on the screen, in the backup, or in both.
Alone == \E t \in Threads : pc[t] = "idle"

PageKept ==
  /\ Quiet => IF osk_active THEN osk_backup = page ELSE fb = page
  /\ \A t \in Threads :
       /\ pc[t] = "save" => ~osk_active /\ fb = page
       /\ pc[t] = "activate" => ~osk_active /\ fb = page /\ osk_backup = page
       /\ pc[t] = "draw_osk" => osk_active /\ osk_backup = page
       /\ pc[t] = "restore" => osk_active /\ osk_backup = page
       /\ pc[t] = "deactivate" => osk_active /\ fb = page
       /\ pc[t] = "update" => fb = page
       /\ pc[t] = "backup" => osk_active /\ fb = page
       /\ pc[t] = "reassert" => osk_active /\ osk_backup = page

PageInv == Typed /\ (~overlap => Alone) /\ (~overlap /\ ~narrow => PageKept)

\* A thread that begins while the other is at work leaves its mark.
LEMMA AloneNext == ASSUME Typed, ~overlap => Alone, [ScreenNext]_screenVars PROVE ~overlap' => Alone'
<1> USE DEF Alone, Typed, ScreenTypeOK, Threads
<1>1. ASSUME NEW t \in Threads, NEW to \in Pcs, Begin(t, to) PROVE ~overlap' => Alone'
  BY <1>1 DEF Begin, Quiet
<1>2. ASSUME NEW t \in Threads, NEW from, NEW to, from # "idle", Goto(t, from, to)
      PROVE  ~overlap' => Alone'
  BY <1>2 DEF Goto
<1>3. ASSUME NEW t \in Threads, ShowBegin(t) PROVE ~overlap' => Alone'
  BY <1>3, <1>1 DEF ShowBegin, Pcs
<1>4. ASSUME NEW t \in Threads, ShowSave(t) \/ ShowActivate(t) \/ ShowDraw(t)
      PROVE  ~overlap' => Alone'
  BY <1>4, <1>2 DEF ShowSave, ShowActivate, ShowDraw
<1>5. CASE HideBegin BY <1>5, <1>1 DEF HideBegin, Pcs
<1>6. CASE HideRestore \/ HideDeactivate \/ UpdateBackup \/ UpdateReassert
  BY <1>6, <1>2 DEF HideRestore, HideDeactivate, UpdateBackup, UpdateReassert
<1>7. ASSUME NEW cols \in SUBSET Columns, Draw(cols) PROVE ~overlap' => Alone'
  BY <1>7, <1>1 DEF Draw, Pcs
<1>8. CASE UpdateBegin BY <1>8 DEF UpdateBegin
<1>9. CASE UNCHANGED screenVars BY <1>9 DEF screenVars
<1> QED BY <1>3, <1>4, <1>5, <1>6, <1>7, <1>8, <1>9 DEF ScreenNext

LEMMA PageNext == ASSUME PageInv, [ScreenNext]_screenVars, ~overlap', ~narrow' PROVE PageKept'
<1>1. ~overlap /\ ~narrow
  BY DEF ScreenNext, screenVars, PageInv, Typed, ScreenTypeOK, ShowBegin, ShowSave, ShowActivate, ShowDraw,
         HideBegin, HideRestore, HideDeactivate, Draw, UpdateBegin, UpdateBackup, UpdateReassert,
         Begin, Goto
<1>2. Typed /\ Alone /\ PageKept
  BY <1>1 DEF PageInv
<1> USE <1>1, <1>2 DEF Typed, ScreenTypeOK, Threads, Alone, PageKept, Quiet
<1>3. ASSUME NEW t \in Threads, ShowBegin(t) PROVE PageKept'
  BY <1>3 DEF ShowBegin, Begin
<1>4. ASSUME NEW t \in Threads, ShowSave(t) PROVE PageKept'
  BY <1>4 DEF ShowSave, Goto
<1>5. ASSUME NEW t \in Threads, ShowActivate(t) PROVE PageKept'
  BY <1>5 DEF ShowActivate, Goto
<1>6. ASSUME NEW t \in Threads, ShowDraw(t) PROVE PageKept'
  BY <1>6 DEF ShowDraw, Goto
<1>7. CASE HideBegin BY <1>7 DEF HideBegin, Begin
<1>8. CASE HideRestore BY <1>8 DEF HideRestore, Goto
<1>9. CASE HideDeactivate BY <1>9 DEF HideDeactivate, Goto
<1>10. ASSUME NEW cols \in SUBSET Columns, Draw(cols) PROVE PageKept'
  <2>1. \A t \in Threads : pc[t] = "idle"
    BY <1>10 DEF Draw, Begin
  <2>2. pc' = [pc EXCEPT !["main"] = "update"] /\ UNCHANGED <<osk_backup, osk_active>>
    BY <1>10 DEF Draw, Begin
  <2>3. fb' = page'
    <3>1. CASE osk_active
      <4>1. cols = Columns
        BY <1>10, <3>1 DEF Draw
      <4> QED BY <1>10, <4>1 DEF Draw
    <3>2. CASE ~osk_active
      <4>1. fb = page
        BY <2>1, <3>2
      <4> QED BY <1>10, <4>1 DEF Draw
    <3> QED BY <3>1, <3>2
  <2> QED BY <2>1, <2>2, <2>3
<1>11. CASE UpdateBegin BY <1>11 DEF UpdateBegin
<1>12. CASE UpdateBackup BY <1>12 DEF UpdateBackup, Goto
<1>13. CASE UpdateReassert BY <1>13 DEF UpdateReassert, Goto
<1>14. CASE UNCHANGED screenVars BY <1>14 DEF screenVars
<1> QED
  BY <1>3, <1>4, <1>5, <1>6, <1>7, <1>8, <1>9, <1>10, <1>11, <1>12, <1>13, <1>14 DEF ScreenNext

\* hide_osk brings back the newest page, also what was drawn under the keyboard,
\* unless the threads overlapped or an update was narrower than the screen.
THEOREM PageRestoredCorrect == ScreenSpec => []PageRestored
<1>1. ScreenInit => PageInv
  BY TypedInit DEF PageInv, ScreenInit, Alone, PageKept, Quiet, Threads
<1>2. PageInv /\ [ScreenNext]_screenVars => PageInv'
  BY TypedNext, AloneNext, PageNext DEF PageInv
<1>3. PageInv => PageRestored
  BY DEF PageInv, PageKept, PageRestored
<1> QED BY <1>1, <1>2, <1>3, PTL DEF ScreenSpec
=============================================================================
