----------------------------- MODULE BtnWatcher -----------------------------
(***************************************************************************)
(* The hardware button multiplexer, components/system/src/btn-watcher.c.   *)
(*                                                                         *)
(* One process owns the physical keys (EVIOCGRAB on event0) and re-emits   *)
(* what the readers may see on a virtual uinput device.  Its main loop     *)
(* alternates between evaluating its timers at the top of the loop and     *)
(* handling ONE input event; the two alternate strictly, and a chord in    *)
(* KOReader puts the whole process to sleep for 550 ms while the kernel    *)
(* goes on queueing input.                                                 *)
(*                                                                         *)
(* Time is discrete.  The code compares now with a stored stamp; the model *)
(* keeps the difference, saturated at Cap, which is past every threshold.  *)
(* Page keys: TL = 191 (F9), BL = 192, TR = 193, BR = 194.                 *)
(***************************************************************************)
EXTENDS Naturals, Sequences

CONSTANTS
  Buttons,      \* the inputs the user operates in this instance
  DoubleClick,  \* POWER_DOUBLE_CLICK_MS, in ticks
  LongPress,    \* HOME_LONG_PRESS_MS, in ticks
  ToastTime,    \* life of a toast (2200 ms), in ticks
  HoldTime,     \* usleep(550000) of the KOReader chord, in ticks
  MaxQueue      \* bound on unread input events

PageKeys  == {"TL", "BL", "TR", "BR"}
AllInputs == PageKeys \cup {"HOME", "POWER", "LID"}
Apps      == {"koreader", "plato", "netsurf"}

ASSUME ButtonsAssumption == Buttons \subseteq AllInputs
ASSUME TimeAssumption ==
  /\ DoubleClick \in Nat /\ LongPress \in Nat
  /\ ToastTime \in Nat   /\ HoldTime \in Nat
  /\ DoubleClick < LongPress /\ LongPress <= HoldTime
ASSUME QueueAssumption == MaxQueue \in Nat \ {0}

VARIABLES
  phys,                  \* inputs physically pressed / lid closed
  inq,                   \* evdev queue of event0, oldest first
  pc,                    \* where the main loop is: "loop", "select", "hold"
  hold_left,             \* rest of the usleep while pc = "hold"
  power_pending, power_elapsed,
  home_down, home_elapsed, home_combo_consumed, home_long_sent,
  home_pending_single, single_elapsed, home_double_consumed,
  media_mode, card_active, toast_active, toast_left,
  fb_mem,                \* the framebuffer is mapped
  backups,               \* the overlays whose backup buffer malloc gave
  current_app,           \* content of /tmp/current_app
  vkeys,                 \* keys down on the virtual uinput device
  out,                   \* what the last watcher step did besides vkeys
  chorded,               \* history: the present Home press was used in a chord
  forgotten              \* history: a chord took over a press after its long press
                         \* was sent, and its release was not passed on since

powerVars == <<power_pending, power_elapsed>>
homeVars  == <<home_down, home_elapsed, home_combo_consumed, home_long_sent,
               home_pending_single, single_elapsed, home_double_consumed, chorded, forgotten>>
fbVars    == <<fb_mem, backups>>
showVars  == <<media_mode, card_active, toast_active, toast_left, fbVars>>
envVars   == <<phys, inq>>
vars == <<phys, inq, pc, hold_left, powerVars, homeVars, showVars,
          current_app, vkeys, out>>

Cap == LongPress + 1     \* past DoubleClick and LongPress
Overlays == {"toast", "card"}
Event == [key : AllInputs, val : {0, 1}]
Effects == {"power_click", "home_click", "home_hold", "toggle_frontlight", "suspend",
            "plato_touch", "pause", "prev", "next", "shuffle",
            "kill_koreader", "kill_plato", "kill_netsurf"}

TypeOK ==
  /\ phys \subseteq AllInputs
  /\ inq \in Seq(Event)
  /\ pc \in {"loop", "select", "hold"}
  /\ hold_left \in 0..HoldTime
  /\ power_pending \in BOOLEAN /\ power_elapsed \in 0..Cap
  /\ home_down \in BOOLEAN /\ home_elapsed \in 0..Cap
  /\ home_combo_consumed \in BOOLEAN /\ home_long_sent \in BOOLEAN
  /\ home_pending_single \in BOOLEAN /\ single_elapsed \in 0..Cap
  /\ home_double_consumed \in BOOLEAN
  /\ media_mode \in BOOLEAN /\ card_active \in BOOLEAN
  /\ toast_active \in BOOLEAN /\ toast_left \in 0..ToastTime
  /\ fb_mem \in BOOLEAN /\ backups \subseteq Overlays
  /\ current_app \in Apps
  /\ vkeys \subseteq AllInputs
  /\ out \subseteq Effects
  /\ chorded \in BOOLEAN /\ forgotten \in BOOLEAN

Init ==
  /\ phys = {} /\ inq = <<>> /\ pc = "loop" /\ hold_left = 0
  /\ power_pending = FALSE /\ power_elapsed = 0
  /\ home_down = FALSE /\ home_elapsed = 0
  /\ home_combo_consumed = FALSE /\ home_long_sent = FALSE
  /\ home_pending_single = FALSE /\ single_elapsed = 0
  /\ home_double_consumed = FALSE /\ chorded = FALSE /\ forgotten = FALSE
  /\ media_mode = FALSE /\ card_active = FALSE
  /\ toast_active = FALSE /\ toast_left = 0
  /\ fb_mem = FALSE /\ backups = {}
  /\ current_app = "koreader"
  /\ vkeys = {} /\ out = {}

-----------------------------------------------------------------------------
(* Environment: the user, the clock, and the other writers of current_app. *)

\* The user presses (or closes the lid) / releases; the kernel queues the event.
Press(k) ==
  /\ k \notin phys /\ Len(inq) < MaxQueue
  /\ phys' = phys \cup {k}
  /\ inq' = Append(inq, [key |-> k, val |-> 1])
  /\ UNCHANGED <<pc, hold_left, powerVars, homeVars, showVars, current_app, vkeys, out>>

Release(k) ==
  /\ k \in phys /\ Len(inq) < MaxQueue
  /\ phys' = phys \ {k}
  /\ inq' = Append(inq, [key |-> k, val |-> 0])
  /\ UNCHANGED <<pc, hold_left, powerVars, homeVars, showVars, current_app, vkeys, out>>

Older(t) == IF t < Cap THEN t + 1 ELSE t
Sooner(t) == IF t > 0 THEN t - 1 ELSE t

\* The monotonic clock advances; a stamp that is not in use does not age.
Tick ==
  /\ power_elapsed' = IF power_pending THEN Older(power_elapsed) ELSE power_elapsed
  /\ home_elapsed' = IF home_down THEN Older(home_elapsed) ELSE home_elapsed
  /\ single_elapsed' = IF home_pending_single THEN Older(single_elapsed) ELSE single_elapsed
  /\ toast_left' = Sooner(toast_left)
  /\ hold_left' = Sooner(hold_left)
  /\ UNCHANGED <<envVars, pc, power_pending, home_down, home_combo_consumed, home_long_sent,
                 home_pending_single, home_double_consumed, chorded, forgotten,
                 media_mode, card_active, toast_active, fbVars, current_app, vkeys, out>>

\* The supervisor loop or the app switcher rewrites /tmp/current_app.
OtherWriter(a) ==
  /\ a # current_app /\ current_app' = a
  /\ UNCHANGED <<envVars, pc, hold_left, powerVars, homeVars, showVars, vkeys, out>>

-----------------------------------------------------------------------------
(* Top of the main loop: the four timer checks, in the code's order.       *)

\* hide_toast returns at once when there is no backup to restore from.
ToastDue  == toast_active /\ toast_left = 0 /\ fb_mem /\ "toast" \in backups
PowerDue  == power_pending /\ power_elapsed >= DoubleClick
LongDue   == /\ home_down /\ ~home_combo_consumed /\ ~home_long_sent
             /\ home_elapsed >= LongPress
SingleDue == home_pending_single /\ ~LongDue /\ single_elapsed >= DoubleClick

Timers ==
  /\ pc = "loop" /\ pc' = "select"
  /\ toast_active' = (toast_active /\ ~ToastDue)
  /\ power_pending' = (power_pending /\ ~PowerDue)
  /\ home_long_sent' = (home_long_sent \/ LongDue)
  /\ home_pending_single' = (home_pending_single /\ ~LongDue /\ ~SingleDue)
  /\ vkeys' = LET clicked == (IF PowerDue THEN {"POWER"} ELSE {})
                               \cup (IF SingleDue THEN {"HOME"} ELSE {})
              IN (vkeys \ clicked) \cup (IF LongDue THEN {"HOME"} ELSE {})
  /\ forgotten' = (forgotten /\ ~SingleDue)
  /\ out' = (IF PowerDue THEN {"power_click"} ELSE {})
              \cup (IF LongDue THEN {"home_hold"} ELSE {})
              \cup (IF SingleDue THEN {"home_click"} ELSE {})
  /\ UNCHANGED <<envVars, hold_left, power_elapsed, home_down, home_elapsed,
                 home_combo_consumed, single_elapsed, home_double_consumed, chorded,
                 media_mode, card_active, toast_left, fbVars, current_app>>

SelectForever == FALSE
\* select returns 0 (or EINTR) without an event: back to the top of the loop.
SelectTimeout ==
  /\ pc = "select" /\ inq = <<>>
  /\ pc' = "loop" /\ out' = {}
  /\ UNCHANGED <<envVars, hold_left, powerVars, homeVars, showVars, current_app, vkeys>>

-----------------------------------------------------------------------------
(* One input event is read and handled.                                    *)

ReadFlush(k, v) ==
  /\ pc = "select" /\ inq # <<>>
  /\ Head(inq).key = k /\ Head(inq).val = v
  /\ inq' = <<>> /\ UNCHANGED phys
\* The event at the head of the queue is <<k, v>>; it is taken off.
Read(k, v) ==
  /\ pc = "select" /\ inq # <<>>
  /\ Head(inq).key = k /\ Head(inq).val = v
  /\ inq' = Tail(inq) /\ UNCHANGED phys

\* The framebuffer is mapped at the first overlay that finds it; each backup
\* buffer is then allocated, or not.  Without it the next overlay tries again.
fb_init ==
  \/ UNCHANGED fbVars
  \/ ~fb_mem /\ fb_mem' = TRUE /\ backups' \in SUBSET Overlays

\* Both overlays return at once when there is no framebuffer.
ShowToastForever ==
  /\ fb_init
  /\ toast_active' = (toast_active \/ fb_mem')
  /\ toast_left' = ToastTime + 1
ShowToast ==
  /\ fb_init
  /\ toast_active' = (toast_active \/ fb_mem')
  /\ toast_left' = IF fb_mem' THEN ToastTime ELSE toast_left

ShowCard ==
  /\ fb_init
  /\ card_active' = (card_active \/ fb_mem')

\* hide_media_card restores what the card covered, if that was saved.
CardHides == fb_mem /\ "card" \in backups

\* Second press inside the window toggles the frontlight, else (re)arm.
PowerDouble == power_pending /\ power_elapsed <= DoubleClick

PowerDown ==
  /\ Read("POWER", 1) /\ pc' = "loop"
  /\ power_pending' = ~PowerDouble
  /\ power_elapsed' = IF PowerDouble THEN power_elapsed ELSE 0
  /\ out' = IF PowerDouble THEN {"toggle_frontlight"} ELSE {}
  /\ UNCHANGED <<hold_left, homeVars, showVars, current_app, vkeys>>

PowerUp ==
  /\ Read("POWER", 0) /\ pc' = "loop" /\ out' = {}
  /\ UNCHANGED <<hold_left, powerVars, homeVars, showVars, current_app, vkeys>>

\* Every Home press starts a fresh gesture.
StartHomePressKeepsTap ==
  /\ home_down' = TRUE /\ home_elapsed' = 0
  /\ home_combo_consumed' = FALSE /\ home_long_sent' = FALSE
  /\ chorded' = FALSE /\ UNCHANGED <<home_pending_single, forgotten>>
StartHomePress ==
  /\ home_down' = TRUE /\ home_elapsed' = 0
  /\ home_combo_consumed' = FALSE /\ home_long_sent' = FALSE
  /\ home_pending_single' = FALSE
  /\ chorded' = FALSE /\ UNCHANGED forgotten

HomeDouble == /\ home_pending_single /\ ~home_double_consumed
              /\ single_elapsed <= DoubleClick

\* The second press of a double tap: play/pause in any app, card shown.
HomeDownDouble ==
  /\ Read("HOME", 1) /\ HomeDouble
  /\ home_double_consumed' = TRUE
  /\ ShowCard /\ out' = {"pause"}
  /\ StartHomePress /\ pc' = "loop"
  /\ UNCHANGED <<hold_left, powerVars, single_elapsed, media_mode, toast_active, toast_left,
                 current_app, vkeys>>

HomeDown ==
  /\ Read("HOME", 1) /\ ~HomeDouble
  /\ StartHomePress /\ out' = {} /\ pc' = "loop"
  /\ UNCHANGED <<hold_left, powerVars, single_elapsed, home_double_consumed, showVars,
                 current_app, vkeys>>

\* The release of Home; which of its four branches runs is decided by the
\* flags in this order: combo, long press, double tap, plain tap.
HomeRelease ==
  /\ Read("HOME", 0) /\ pc' = "loop"
  /\ home_down' = FALSE
  /\ UNCHANGED <<hold_left, powerVars, home_elapsed, chorded, media_mode, toast_active,
                 toast_left, current_app>>

HomeUpComboLeaks ==
  /\ HomeRelease /\ home_combo_consumed
  /\ out' = {} /\ forgotten' = (forgotten \/ home_long_sent)
  /\ UNCHANGED <<fbVars, home_combo_consumed, home_long_sent, home_double_consumed, home_pending_single,
                 single_elapsed, card_active, vkeys>>
HomeUpCombo ==
  /\ HomeRelease /\ home_combo_consumed
  /\ home_combo_consumed' = FALSE /\ out' = {}
  /\ forgotten' = (forgotten \/ home_long_sent)
  /\ UNCHANGED <<fbVars, home_long_sent, home_double_consumed, home_pending_single, single_elapsed,
                 card_active, vkeys>>

HomeUpLongSilent ==
  /\ HomeRelease /\ ~home_combo_consumed /\ home_long_sent
  /\ home_long_sent' = FALSE /\ out' = {} /\ forgotten' = FALSE
  /\ UNCHANGED <<fbVars, home_combo_consumed, home_double_consumed, home_pending_single,
                 single_elapsed, card_active, vkeys>>
HomeUpLong ==
  /\ HomeRelease /\ ~home_combo_consumed /\ home_long_sent
  /\ vkeys' = vkeys \ {"HOME"} /\ forgotten' = FALSE
  /\ home_long_sent' = FALSE /\ out' = {}
  /\ UNCHANGED <<fbVars, home_combo_consumed, home_double_consumed, home_pending_single, single_elapsed,
                 card_active>>

HomeUpDouble ==
  /\ HomeRelease /\ ~home_combo_consumed /\ ~home_long_sent /\ home_double_consumed
  /\ home_double_consumed' = FALSE /\ out' = {}
  /\ UNCHANGED <<fbVars, forgotten, home_combo_consumed, home_long_sent, home_pending_single, single_elapsed,
                 card_active, vkeys>>

\* A plain tap: play/pause in media mode, else armed until the window closes.
HomeUpTap ==
  /\ HomeRelease /\ ~home_combo_consumed /\ ~home_long_sent /\ ~home_double_consumed
  /\ IF media_mode
     THEN /\ out' = {"pause"} /\ ShowCard
          /\ UNCHANGED <<home_pending_single, single_elapsed>>
     ELSE /\ home_pending_single' = TRUE /\ single_elapsed' = 0
          /\ out' = {} /\ UNCHANGED <<card_active, fbVars>>
  /\ UNCHANGED <<forgotten, home_combo_consumed, home_long_sent, home_double_consumed, vkeys>>

\* What every chord starts with: a page key goes down while Home is held.
Chord(k) ==
  /\ Read(k, 1) /\ home_down
  /\ home_pending_single' = FALSE
  /\ chorded' = TRUE
  /\ UNCHANGED <<powerVars, home_down, home_elapsed, home_long_sent, single_elapsed,
                 home_double_consumed, forgotten>>

\* An app chord leaves media mode; the card is hidden only if it was on.
LeaveMediaModeOn ==
  /\ card_active' = (card_active /\ ~(media_mode /\ CardHides))
  /\ UNCHANGED media_mode
LeaveMediaMode ==
  /\ media_mode' = FALSE
  /\ card_active' = (card_active /\ ~(media_mode /\ CardHides))

\* Home + Top Left in KOReader: hold virtual KEY_HOME for 550 ms ...
ChordFrontlight ==
  /\ Chord("TL") /\ current_app = "koreader"
  /\ LeaveMediaMode /\ ShowToast
  /\ home_combo_consumed' = TRUE
  /\ vkeys' = vkeys \cup {"HOME"}
  /\ pc' = "hold" /\ hold_left' = HoldTime /\ out' = {}
  /\ UNCHANGED current_app

\* ... then release it and give the press back.
ChordFrontlightEnd ==
  /\ pc = "hold" /\ hold_left = 0
  /\ vkeys' = vkeys \ {"HOME"} /\ forgotten' = FALSE
  /\ home_combo_consumed' = FALSE
  /\ pc' = "loop" /\ out' = {}
  /\ UNCHANGED <<envVars, hold_left, powerVars, home_down, home_elapsed, home_long_sent,
                 home_pending_single, single_elapsed, home_double_consumed, chorded,
                 showVars, current_app>>

\* What the other app chords do besides naming an app: effects are commands.
AppChord(effects) ==
  /\ LeaveMediaMode /\ ShowToast
  /\ home_combo_consumed' = TRUE
  /\ out' = effects
  /\ pc' = "loop" /\ UNCHANGED <<hold_left, vkeys>>

\* set_active_app(a), then killall of the apps in its way.
SwitchTo(a, kills) == AppChord(kills) /\ current_app' = a

ChordKOReader ==
  /\ Chord("TL") /\ current_app # "koreader"
  /\ SwitchTo("koreader", {"kill_plato", "kill_netsurf"})

ChordPlato ==
  /\ Chord("BL") /\ current_app # "plato"
  /\ SwitchTo("plato", {"kill_koreader", "kill_netsurf"})

\* In Plato the chord taps Plato's own frontlight icon on the touch device;
\* the 260 ms it sleeps are Ticks at the top of the loop.
ChordPlatoFrontlight ==
  /\ Chord("BL") /\ current_app = "plato"
  /\ AppChord({"plato_touch"}) /\ UNCHANGED current_app

ChordNetSurf ==
  /\ Chord("TR")
  /\ IF current_app = "netsurf"
     THEN SwitchTo("koreader", {"kill_netsurf"})
     ELSE SwitchTo("netsurf", {"kill_koreader", "kill_plato"})

ChordMedia ==
  /\ Chord("BR")
  /\ home_combo_consumed' = TRUE
  /\ media_mode' = ~media_mode
  /\ IF media_mode
     THEN card_active' = (card_active /\ ~CardHides) /\ ShowToast
     ELSE ShowCard /\ UNCHANGED <<toast_active, toast_left>>
  /\ pc' = "loop" /\ out' = {}
  /\ UNCHANGED <<hold_left, current_app, vkeys>>

MediaCommand(k) == CASE k = "TL" -> "prev" [] k = "BL" -> "shuffle"
                     [] k = "TR" -> "next" [] k = "BR" -> "pause"

\* Page key down, Home not held, media mode: an audiocontrol.sh command.
MediaKey(k) ==
  /\ Read(k, 1) /\ ~home_down /\ media_mode
  /\ ShowCard /\ out' = {MediaCommand(k)} /\ pc' = "loop"
  /\ UNCHANGED <<hold_left, powerVars, homeVars, media_mode, toast_active, toast_left,
                 current_app, vkeys>>

\* Page key down while reading: forwarded to the reader.
PageDown(k) ==
  /\ Read(k, 1) /\ ~home_down /\ ~media_mode
  /\ vkeys' = vkeys \cup {k} /\ out' = {} /\ pc' = "loop"
  /\ UNCHANGED <<hold_left, powerVars, homeVars, showVars, current_app>>

\* Page key up: swallowed during a chord or in media mode, else forwarded.
SwallowPageUp == home_combo_consumed \/ media_mode

PageUp(k) ==
  /\ Read(k, 0)
  /\ vkeys' = IF SwallowPageUp THEN vkeys ELSE vkeys \ {k}
  /\ out' = {} /\ pc' = "loop"
  /\ UNCHANGED <<hold_left, powerVars, homeVars, showVars, current_app>>

LidCloseSuspendOnly ==
  /\ Read("LID", 1) /\ pc' = "loop"
  /\ out' = IF current_app # "koreader" THEN {"suspend"} ELSE {}
  /\ vkeys' = IF current_app # "koreader" THEN vkeys ELSE vkeys \cup {"LID"}
  /\ UNCHANGED <<hold_left, powerVars, homeVars, showVars, current_app>>
\* Closing the cover suspends unless KOReader will; always passed through.
LidClose ==
  /\ Read("LID", 1) /\ pc' = "loop"
  /\ out' = IF current_app # "koreader" THEN {"suspend"} ELSE {}
  /\ vkeys' = vkeys \cup {"LID"}
  /\ UNCHANGED <<hold_left, powerVars, homeVars, showVars, current_app>>

LidOpen ==
  /\ Read("LID", 0) /\ pc' = "loop"
  /\ vkeys' = vkeys \ {"LID"} /\ out' = {}
  /\ UNCHANGED <<hold_left, powerVars, homeVars, showVars, current_app>>

Watcher ==
  \/ Timers \/ SelectTimeout
  \/ PowerDown \/ PowerUp
  \/ HomeDown \/ HomeDownDouble
  \/ HomeUpCombo \/ HomeUpLong \/ HomeUpDouble \/ HomeUpTap
  \/ ChordFrontlight \/ ChordFrontlightEnd \/ ChordKOReader
  \/ ChordPlato \/ ChordPlatoFrontlight \/ ChordNetSurf \/ ChordMedia
  \/ \E k \in PageKeys : MediaKey(k) \/ PageDown(k) \/ PageUp(k)
  \/ LidClose \/ LidOpen

Environment ==
  \/ \E k \in Buttons : Press(k) \/ Release(k)
  \/ \E a \in Apps : OtherWriter(a)
  \/ Tick

Next == Watcher \/ Environment

\* The watcher is a normal runnable process and the clock does not stop.
Fairness == WF_vars(Watcher) /\ WF_vars(Tick)

Spec == Init /\ [][Next]_vars /\ Fairness

-----------------------------------------------------------------------------
(* Properties.                                                             *)

\* While Home is held no single tap is pending, so no KEY_HOME click can be
\* injected into a press that may still become a chord or a long press.
NoTapWhileHeld == home_down => ~home_pending_single

\* A chord owns the press it was made with and nothing else: the combo flag
\* (which swallows page releases) never outlives the Home press.
ComboOnlyWhileHeld == home_combo_consumed => home_down

\* Media mode, in which the page keys stop turning pages, is on without the
\* card that says so only while there is no framebuffer to draw it on: one
\* that appears while media mode lasts gets the card with the next key.
MediaModeShowsCard == media_mode /\ fb_mem => card_active

\* A long press holds the virtual KEY_HOME down for exactly as long as the
\* press lasts.  Down: from the hold timer until the release, also across
\* other input, unless the press is used in a chord (the KOReader chord lets
\* the key go itself).  Up: the key is never down but for a long press still
\* held or the KOReader chord asleep; every release is passed on.  Left out
\* is the release of a press that a chord took over after its long press was
\* sent: it is swallowed as the chord's (btn-watcher.c:598-600), and the key
\* stays down until the next release of KEY_HOME.
LongPressHoldsHome ==
  /\ home_down /\ home_long_sent /\ ~chorded => "HOME" \in vkeys
  /\ "HOME" \in vkeys /\ ~forgotten => home_down /\ (home_long_sent \/ pc = "hold")

\* The watcher's idea of the Home key is the physical one once the queue is
\* drained, whatever was queued behind the 550 ms sleep.
HomeTracked == inq = <<>> => (home_down <=> "HOME" \in phys)

\* The cover state the readers see is the physical one once the queue is
\* drained, suspended or not: a swallowed edge would leave a reader asleep.
CoverTracked == inq = <<>> => ("LID" \in vkeys <=> "LID" \in phys)

\* Once the user leaves the buttons alone, every pending decision is taken:
\* no tap, hold or sleeping chord stays open, and a toast goes away unless
\* nothing was saved to put in its place.
Settled == /\ ~power_pending /\ ~home_pending_single /\ ~home_down
           /\ (toast_active => "toast" \notin backups) /\ pc # "hold"
Settles == <>[](phys = {} /\ inq = <<>>) => <>[]Settled
=============================================================================
