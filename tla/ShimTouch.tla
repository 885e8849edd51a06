----------------------------- MODULE ShimTouch -----------------------------
(***************************************************************************)
(* The input thread of the NetSurf SDL shim: touch reports, hardware keys  *)
(* and FIFO commands become SDL mouse and key events, with the on-screen   *)
(* keyboard (OSK) taking some of them.  NetSurf's main thread takes the    *)
(* events and may open the OSK itself when a text control gets the caret.  *)
(*                                                                         *)
(* A handler decides at once and then posts its events one by one (todo),  *)
(* so the main thread runs between any two of them.  Coordinates are       *)
(* regions of the panel; key codes and the shift, symbol and language      *)
(* modes, which only choose a character, are left out.                     *)
(***************************************************************************)
EXTENDS Integers, Sequences

CONSTANTS
  Capacity,      \* events the queue holds (MAX_EVENTS - 1)
  UrlSize,       \* sizeof(g_current_url)
  Texts,         \* lengths of the strings the FIFO may bring
  KeepsUp        \* the queue always has room for the events of a handler

ASSUME ShimAssumption ==
  /\ Capacity \in Nat \ {0} /\ UrlSize \in Nat /\ UrlSize > 6 /\ Texts \subseteq Nat
  /\ KeepsUp \in BOOLEAN

\* "url": y < 75, x >= 140; "tool": y < 75, x < 140; "page": above OSK_Y;
\* "low", "corner": where the OSK is, "corner" being its hotspot.
Regions == {"url", "tool", "page", "low", "corner"}
InOsk(r) == r \in {"low", "corner"}

VARIABLES
  osk_active, g_url_bar_focused,
  url,           \* strlen(g_current_url)
  touch_down,
  todo, q,       \* events of the running handler; event_queue
  cursor, button, \* NetSurf's pointer position and whether its button is held
  press          \* history: the last DOWN has no UP yet and its finger is on the
                 \* panel ("finger") or was lifted under the OSK ("lost")

keyboard == <<osk_active, g_url_bar_focused, url>>
netsurf  == <<cursor, button>>
vars == <<keyboard, touch_down, todo, q, netsurf, press>>

Event == [t : {"motion", "down", "up", "key"}, at : Regions]

TypeOK ==
  /\ osk_active \in BOOLEAN /\ g_url_bar_focused \in BOOLEAN
  /\ url \in Nat /\ touch_down \in BOOLEAN
  /\ todo \in Seq(Event) /\ q \in Seq(Event) /\ Len(q) <= Capacity
  /\ cursor \in Regions /\ button \in BOOLEAN
  /\ press \in {"none", "finger", "lost"}

Init ==
  /\ osk_active = FALSE /\ g_url_bar_focused = TRUE
  /\ url \in 0..(UrlSize - 1)                      \* init_current_url
  /\ touch_down = FALSE /\ todo = <<>> /\ q = <<>>
  /\ cursor = "page" /\ button = FALSE /\ press = "none"

-----------------------------------------------------------------------------
(* Events a handler posts.                                                 *)

Ev(t, r) == [t |-> t, at |-> r]
Key == <<Ev("key", "page")>>                      \* osk_inject_key, down and up
ClickBeforeMove(r) == <<Ev("down", r), Ev("motion", r), Ev("up", r)>>
simulate_click(r) == <<Ev("motion", r), Ev("down", r), Ev("up", r)>>
Press(r) == <<Ev("motion", r), Ev("down", r)>>    \* queue_touch_motion, DOWN
FocusUrl == simulate_click("url") \o Key

\* The thread is between handlers.
Free == todo = <<>> /\ (KeepsUp => Len(q) + Len(FocusUrl) <= Capacity)

\* History: what the events a handler is about to post leave of the last DOWN.
Posts(t) == \E i \in 1..Len(todo') : todo'[i].t = t
Tracks ==
  press' = IF Posts("up") THEN "none"
           ELSE IF Posts("down") THEN "finger"
           ELSE IF press = "finger" /\ osk_active /\ ~touch_down' THEN "lost" ELSE press

-----------------------------------------------------------------------------
(* A touch report (SYN_REPORT) at region r, finger down or up.             *)

\* Release while the OSK is up: no event, wherever the finger is.
OskRelease ==
  /\ Free /\ osk_active /\ touch_down
  /\ touch_down' = FALSE
  /\ UNCHANGED <<keyboard, todo, q, netsurf>>

\* First contact above the OSK dismisses it, and clicks if it hit the page.
DismissPress(r) ==
  /\ Free /\ osk_active /\ ~InOsk(r) /\ ~touch_down
  /\ osk_active' = FALSE /\ touch_down' = TRUE
  /\ todo' = IF r = "page" THEN simulate_click(r) ELSE <<>>
  /\ UNCHANGED <<g_url_bar_focused, url, q, netsurf>>

UrlPress ==
  /\ Free /\ ~osk_active /\ ~touch_down
  /\ osk_active' = TRUE /\ g_url_bar_focused' = TRUE /\ touch_down' = TRUE
  /\ todo' = FocusUrl
  /\ UNCHANGED <<url, q, netsurf>>

CornerPress ==
  /\ Free /\ ~osk_active /\ ~touch_down
  /\ osk_active' = TRUE /\ touch_down' = TRUE
  /\ UNCHANGED <<g_url_bar_focused, url, todo, q, netsurf>>

\* The regular branches below drop the URL focus when below the toolbar.
Unfocus(r) == g_url_bar_focused' = (g_url_bar_focused /\ r \in {"url", "tool"})

PagePress(r) ==
  /\ Free /\ ~osk_active /\ ~touch_down /\ r \notin {"url", "corner"}
  /\ touch_down' = TRUE /\ todo' = Press(r) /\ Unfocus(r)
  /\ UNCHANGED <<osk_active, url, q, netsurf>>

PageReleaseQuiet(r) ==
  /\ Free /\ ~osk_active /\ touch_down
  /\ touch_down' = FALSE /\ Unfocus(r)
  /\ UNCHANGED <<osk_active, url, todo, q, netsurf>>
PageRelease(r) ==
  /\ Free /\ ~osk_active /\ touch_down
  /\ touch_down' = FALSE /\ todo' = <<Ev("up", r)>> /\ Unfocus(r)
  /\ UNCHANGED <<osk_active, url, q, netsurf>>

\* A report without contact: only the focus is looked at.
IdleReport(r) ==
  /\ Free /\ ~touch_down /\ (osk_active => ~InOsk(r))
  /\ Unfocus(r)
  /\ UNCHANGED <<osk_active, url, touch_down, todo, q, netsurf>>

PageMove(r) ==
  /\ Free /\ touch_down /\ (osk_active => ~InOsk(r))
  /\ todo' = <<Ev("motion", r)>> /\ Unfocus(r)
  /\ UNCHANGED <<osk_active, url, touch_down, q, netsurf>>

-----------------------------------------------------------------------------
(* First contact on the OSK: handle_osk_touch.                             *)

OskPress == Free /\ osk_active /\ ~touch_down /\ touch_down' = TRUE /\ UNCHANGED <<q, netsurf>>

\* A key that appends n bytes to the URL line where it fits under the limit.
OskTypeNoRoom(n, limit) ==
  /\ OskPress
  /\ url' = IF g_url_bar_focused /\ url < UrlSize THEN url + n ELSE url
  /\ todo' = Key
  /\ UNCHANGED <<osk_active, g_url_bar_focused>>
OskType(n, limit) ==
  /\ OskPress
  /\ url' = IF g_url_bar_focused /\ url < limit THEN url + n ELSE url
  /\ todo' = Key
  /\ UNCHANGED <<osk_active, g_url_bar_focused>>

\* ACT_SPACE; ACT_CHAR in one or two bytes of UTF-8; ACT_DOTCOM (.com, .ru).
OskTyped ==
  \/ OskType(1, UrlSize - 2)
  \/ \E n \in 1..2 : OskType(n, UrlSize - 6)
  \/ \E n \in 3..4 : OskType(n, UrlSize - 6)

OskBackspace ==
  /\ OskPress
  /\ url' = IF g_url_bar_focused /\ url > 0 THEN url - 1 ELSE url
  /\ todo' = Key
  /\ UNCHANGED <<osk_active, g_url_bar_focused>>

OskClear ==
  /\ OskPress
  /\ url' = IF g_url_bar_focused THEN 0 ELSE url
  /\ todo' = IF g_url_bar_focused THEN simulate_click("url") \o Key ELSE Key
  /\ UNCHANGED <<osk_active, g_url_bar_focused>>

\* ACT_ENTER with a URL: complete it (an address or a search), click, clear the
\* widget, type it; then Return in any case, and hide.
OskEnter(n) ==
  /\ OskPress
  /\ IF g_url_bar_focused /\ url > 0
     THEN url' = n /\ todo' = simulate_click("url") \o Key
     ELSE url' = url /\ todo' = Key
  /\ osk_active' = FALSE
  /\ UNCHANGED g_url_bar_focused

\* ACT_HIDE; a mode key or a spot between the keys only marks the touch.
OskOther ==
  /\ OskPress
  /\ osk_active' \in BOOLEAN
  /\ UNCHANGED <<g_url_bar_focused, url, todo>>

-----------------------------------------------------------------------------
(* Hardware keys and FIFO commands.                                        *)

\* Page keys, KEY:enter and the like.
PlainKey ==
  /\ Free /\ todo' = Key
  /\ UNCHANGED <<keyboard, touch_down, q, netsurf>>

\* Top Right: hide the OSK, or click NetSurf's Back.
BackKey ==
  /\ Free
  /\ osk_active' = FALSE
  /\ todo' = IF osk_active THEN <<>> ELSE simulate_click("tool")
  /\ UNCHANGED <<g_url_bar_focused, url, touch_down, q, netsurf>>

ToggleKey ==
  /\ Free
  /\ osk_active' = ~osk_active
  /\ UNCHANGED <<g_url_bar_focused, url, touch_down, todo, q, netsurf>>

\* Home and KEY:focus_url.
HomeKey ==
  /\ Free
  /\ osk_active' = TRUE /\ g_url_bar_focused' = TRUE /\ todo' = FocusUrl
  /\ UNCHANGED <<url, touch_down, q, netsurf>>

\* TEXT: appends to the URL line whatever has the focus.
FifoText(n) ==
  /\ Free
  /\ url' = IF url + n < UrlSize - 1 THEN url + n ELSE url
  /\ todo' = Key
  /\ UNCHANGED <<osk_active, g_url_bar_focused, touch_down, q, netsurf>>

\* URL: strncpy keeps sizeof - 1 bytes.
FifoUrl(n) ==
  /\ Free
  /\ url' = IF n < UrlSize - 1 THEN n ELSE UrlSize - 1
  /\ todo' = simulate_click("url") \o Key
  /\ UNCHANGED <<osk_active, g_url_bar_focused, touch_down, q, netsurf>>

\* CLICK:x,y and KEY:back.
FifoClick(r) ==
  /\ Free
  /\ Unfocus(r) /\ todo' = simulate_click(r)
  /\ UNCHANGED <<osk_active, url, touch_down, q, netsurf>>

-----------------------------------------------------------------------------
\* queue_event: the newest event is dropped when the ring is full.
Post ==
  /\ todo # <<>> /\ todo' = Tail(todo)
  /\ q' = IF Len(q) < Capacity THEN Append(q, Head(todo)) ELSE q
  /\ UNCHANGED <<keyboard, touch_down, netsurf, press>>

\* NetSurf takes an event; fbtk hit-tests its cursor, not the event's x, y.
Take ==
  /\ q # <<>> /\ q' = Tail(q)
  /\ cursor' = IF Head(q).t = "motion" THEN Head(q).at ELSE cursor
  /\ button' = CASE Head(q).t = "down" -> TRUE [] Head(q).t = "up" -> FALSE [] OTHER -> button
  /\ UNCHANGED <<keyboard, touch_down, todo, press>>

\* An HTML text control gets the caret, under a finger as a rule.
SDL_ShowKeyboardForTextInput ==
  /\ g_url_bar_focused' = FALSE /\ osk_active' = TRUE
  /\ UNCHANGED <<url, touch_down, todo, q, netsurf, press>>

Handler ==
  \/ OskRelease \/ UrlPress \/ CornerPress
  \/ \E r \in Regions : DismissPress(r) \/ PagePress(r) \/ PageRelease(r) \/ PageMove(r)
                       \/ IdleReport(r)
  \/ OskTyped \/ OskBackspace \/ OskClear \/ OskOther
  \/ \E n \in 1..(UrlSize - 1) : OskEnter(n)
  \/ PlainKey \/ BackKey \/ ToggleKey \/ HomeKey
  \/ \E n \in Texts : FifoText(n) \/ FifoUrl(n)
  \/ \E r \in Regions : FifoClick(r)

InputThread == Handler /\ Tracks

Next == InputThread \/ Post \/ Take \/ SDL_ShowKeyboardForTextInput

Spec == Init /\ [][Next]_vars

-----------------------------------------------------------------------------
(* Properties.                                                             *)

\* The URL line and its terminator stay inside g_current_url whatever mix of
\* OSK keys, each with a limit of its own, and FIFO strings extends it.
UrlFits == url < UrlSize

\* "every real touch must move the cursor before pressing": NetSurf takes a
\* button press only with its cursor where the press was made.
ClickHits ==
  [][ q # <<>> /\ Head(q).t = "down" /\ q' = Tail(q) => cursor = Head(q).at ]_vars

\* With no finger on the panel and everything delivered, NetSurf believes its
\* button held in one case and no other: the keyboard opened (a tap on a text
\* control, a key, the phone) between the DOWN and the lifting of the finger,
\* whose release the shim swallowed (sdl_fb0_shim.c:1318), and no UP has
\* followed.  Every other DOWN found its UP, and the next click or release
\* ends the stuck press too.
NoStuckButton == todo = <<>> /\ q = <<>> /\ ~touch_down => (button <=> press = "lost")
=============================================================================
