----------------------------- MODULE TimerPool -----------------------------
(***************************************************************************)
(* The static SDL timer pool of the NetSurf framebuffer shim: SDL_AddTimer *)
(* and SDL_RemoveTimer from any thread against the one timer_worker, which *)
(* drops g_timer_mutex while a callback runs and then applies the          *)
(* callback's answer to the slot it started from.                          *)
(*                                                                         *)
(* Time is what is left until next_expire_ms; a scan samples the clock     *)
(* once, so the slots it will call are those due at that moment and not    *)
(* touched since (every interval is at least 1 ms).                        *)
(***************************************************************************)
EXTENDS Integers, FiniteSets

CONSTANTS MaxTimers,     \* slots of g_timers
          MaxAdds,       \* bound: timers ever created
          Intervals      \* intervals asked for, and answered by callbacks

ASSUME PoolAssumption ==
  /\ MaxTimers \in Nat \ {0} /\ MaxAdds \in Nat \ {0}
  /\ Intervals \subseteq Nat \ {0}

Slots  == 1..MaxTimers
Timers == 1..MaxAdds     \* the n-th timer created stands for its cb and param
NULL   == 0

VARIABLES
  slot,     \* g_timers: [active, cb, left]
  worker,   \* timer_worker: [pc, at, cb, due]; the mutex is free in both pcs
  life,     \* history, per timer: "new", "live", "ended" (answered 0), "removed"
  handle,   \* per timer: the slot whose address SDL_AddTimer returned, or NULL
  running,  \* g_timer_thread_running
  racy      \* history: a timer was removed from inside or after its last callback

poolVars == <<slot, worker, life, handle, running, racy>>

Slot == [active : BOOLEAN, cb : Timers \cup {NULL}, left : Nat]

PoolTypeOK ==
  /\ slot \in [Slots -> Slot]
  /\ worker \in [pc : {"sleep", "call"}, at : Slots \cup {0},
                 cb : Timers \cup {NULL}, due : SUBSET Slots]
  /\ life \in [Timers -> {"new", "live", "ended", "removed"}]
  /\ handle \in [Timers -> Slots \cup {NULL}]
  /\ running \in BOOLEAN /\ racy \in BOOLEAN

Asleep == [pc |-> "sleep", at |-> 0, cb |-> NULL, due |-> {}]

PoolInit ==
  /\ slot = [i \in Slots |-> [active |-> FALSE, cb |-> NULL, left |-> 0]]
  /\ worker = Asleep
  /\ life = [n \in Timers |-> "new"]
  /\ handle = [n \in Timers |-> NULL]
  /\ running = TRUE /\ racy = FALSE

-----------------------------------------------------------------------------
\* A slot is armed again or freed: the scan in progress will skip it.
Touch(i) == worker' = [worker EXCEPT !.due = @ \ {i}]

FreeSlots == {i \in Slots : ~slot[i].active}

AddTimerNoCheck(n, d) ==
  /\ life[n] = "new" /\ \A k \in 1..(n - 1) : life[k] # "new"
  /\ \E i \in Slots :
       /\ slot' = [slot EXCEPT ![i] = [active |-> TRUE, cb |-> n, left |-> d]]
       /\ handle' = [handle EXCEPT ![n] = i]
       /\ life' = [life EXCEPT ![n] = "live"]
       /\ Touch(i)
  /\ UNCHANGED <<running, racy>>
\* The first inactive slot.
SDL_AddTimer(n, d) ==
  /\ life[n] = "new" /\ \A k \in 1..(n - 1) : life[k] # "new"
  /\ \E i \in FreeSlots :
       /\ \A j \in FreeSlots : i <= j
       /\ slot' = [slot EXCEPT ![i] = [active |-> TRUE, cb |-> n, left |-> d]]
       /\ handle' = [handle EXCEPT ![n] = i]
       /\ life' = [life EXCEPT ![n] = "live"]
       /\ Touch(i)
  /\ UNCHANGED <<running, racy>>

\* All slots taken: SDL_AddTimer returns NULL, and there is no timer n.
SDL_AddTimerFull(n) ==
  /\ life[n] = "new" /\ \A k \in 1..(n - 1) : life[k] # "new"
  /\ FreeSlots = {}
  /\ life' = [life EXCEPT ![n] = "removed"]
  /\ UNCHANGED <<slot, worker, handle, running, racy>>

RemoveTimerLeavesSlot(n) ==
  /\ life[n] \in {"live", "ended"}
  /\ slot' = [slot EXCEPT ![handle[n]].left = 0]
  /\ life' = [life EXCEPT ![n] = "removed"]
  /\ Touch(handle[n])
  /\ UNCHANGED <<handle, running, racy>>
\* The client gives back a timer whose callback has ended or is in progress.
Late(n) == life[n] = "ended" \/ (worker.pc = "call" /\ worker.at = handle[n])

\* Mutant: the scan in progress does not look at the slot again.
RemoveTimerUnseen(n) ==
  /\ life[n] \in {"live", "ended"}
  /\ slot' = [slot EXCEPT ![handle[n]].active = FALSE]
  /\ life' = [life EXCEPT ![n] = "removed"]
  /\ racy' = (racy \/ Late(n))
  /\ UNCHANGED <<worker, handle, running>>
\* A client gives back the pointer it was given, once; the code compares it
\* with the slot's address, so it frees the slot whoever uses it now.
SDL_RemoveTimer(n) ==
  /\ life[n] \in {"live", "ended"}
  /\ slot' = [slot EXCEPT ![handle[n]] = [active |-> FALSE, cb |-> NULL, left |-> @.left]]
  /\ life' = [life EXCEPT ![n] = "removed"]
  /\ racy' = (racy \/ Late(n))
  /\ Touch(handle[n])
  /\ UNCHANGED <<handle, running>>

-----------------------------------------------------------------------------
(* timer_worker.                                                           *)

DueSlots == {i \in Slots : slot[i].active /\ slot[i].left = 0}

\* The scan finds its next slot in order and calls it with the mutex free, or
\* reaches the end and sleeps.
ScanFrom(due, slots) ==
  \/ due = {} /\ worker' = Asleep
  \/ \E i \in due :
       /\ \A j \in due : i <= j
       /\ worker' = [pc |-> "call", at |-> i, cb |-> slots[i].cb, due |-> due \ {i}]

WorkerWake ==
  /\ running /\ worker.pc = "sleep" /\ DueSlots # {}
  /\ ScanFrom(DueSlots, slot)
  /\ UNCHANGED <<slot, life, handle, running, racy>>

\* What the callback's answer does to the slot it was called from.
Answered(s, next) ==
  IF ~s.active THEN s
  ELSE IF next = 0 THEN [s EXCEPT !.active = FALSE, !.cb = NULL]
  ELSE [s EXCEPT !.left = next]

WorkerReturnBreaks(next) ==
  /\ worker.pc = "call"
  /\ slot' = [slot EXCEPT ![worker.at] = Answered(@, next)]
  /\ life' = [life EXCEPT ![worker.cb] = IF next = 0 /\ @ = "live" THEN "ended" ELSE @]
  /\ worker' = Asleep
  /\ UNCHANGED <<handle, running, racy>>
\* cb returned next: lock, apply it if the slot is active, scan on.
WorkerReturn(next) ==
  /\ worker.pc = "call"
  /\ slot' = [slot EXCEPT ![worker.at] = Answered(@, next)]
  /\ life' = [life EXCEPT ![worker.cb] = IF next = 0 /\ @ = "live" THEN "ended" ELSE @]
  /\ ScanFrom(worker.due, slot)
  /\ UNCHANGED <<handle, running, racy>>

\* SDL_Quit: the worker finishes its scan and leaves.
SDL_Quit ==
  /\ running /\ running' = FALSE
  /\ UNCHANGED <<slot, worker, life, handle, racy>>

Tick ==
  /\ \E i \in Slots : slot[i].left > 0
  /\ slot' = [i \in Slots |-> [active |-> slot[i].active, cb |-> slot[i].cb,
                               left |-> IF slot[i].left > 0 THEN slot[i].left - 1 ELSE 0]]
  /\ UNCHANGED <<worker, life, handle, running, racy>>

-----------------------------------------------------------------------------
Worker == WorkerWake \/ \E next \in Intervals \cup {0} : WorkerReturn(next)

Client ==
  \/ \E n \in Timers, d \in Intervals : SDL_AddTimer(n, d)
  \/ \E n \in Timers : SDL_AddTimerFull(n) \/ SDL_RemoveTimer(n)
  \/ SDL_Quit

PoolNext == Worker \/ Client \/ Tick

PoolSpec == PoolInit /\ [][PoolNext]_poolVars /\ WF_poolVars(Worker) /\ WF_poolVars(Tick)

-----------------------------------------------------------------------------
(* Properties.                                                             *)

\* A slot in use belongs to a timer that is neither removed nor finished, and
\* to the client that holds its address: the worker revives nothing.
ActiveIsLive ==
  \A i \in Slots : slot[i].active =>
     /\ slot[i].cb # NULL
     /\ life[slot[i].cb] = "live" /\ handle[slot[i].cb] = i

\* No callback begins once SDL_RemoveTimer has returned or it has answered 0.
StartsLive ==
  [][worker'.pc = "call" /\ <<worker'.at, worker'.cb>> # <<worker.at, worker.cb>>
       => life[worker'.cb] = "live"]_poolVars

\* A timer neither removed by its client nor ended by its own callback is still
\* armed in its slot, as long as timers are removed between callbacks only.
Armed(n) == slot[handle[n]].active /\ slot[handle[n]].cb = n
NotLost == ~racy => \A n \in Timers : life[n] = "live" => Armed(n)

\* ... and it is called, unless it is removed or the library is shut down first:
\* neither a repeating timer in an earlier slot nor a scan in progress starves it.
Fires == []~racy => \A n \in Timers :
  life[n] = "live" ~> (worker.pc = "call" /\ worker.cb = n) \/ life[n] = "removed" \/ ~running
=============================================================================
