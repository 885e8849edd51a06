----------------------------- MODULE OskScreen -----------------------------
(***************************************************************************)
(* The lower part of the screen, shared without a lock by two threads of   *)
(* the NetSurf SDL shim: the input thread shows and hides the on-screen    *)
(* keyboard over it, NetSurf's main thread draws the page straight into    *)
(* the framebuffer, reports it with SDL_UpdateRect and may itself show the *)
(* keyboard for a text control.                                            *)
(***************************************************************************)
EXTENDS Naturals

CONSTANTS
  Columns,       \* vertical strips a page update may cover
  MaxDraws       \* bound: page updates

ASSUME ScreenAssumption == Columns # {} /\ MaxDraws \in Nat

VARIABLES
  fb,            \* fb_mem below OSK_Y, per strip: a version of the page, or keys
  osk_backup,    \* the saved strips
  osk_active,
  pc,            \* where each thread is
  page,          \* what NetSurf last drew in each strip
  draws,         \* number of page updates so far
  overlap,       \* history: one thread began while the other was not idle
  narrow         \* history: a narrow page update was made under the keyboard

screenVars == <<fb, osk_backup, osk_active, pc, page, draws, overlap, narrow>>

Threads == {"input", "main"}
Pcs == {"idle", "save", "activate", "draw_osk", "restore", "deactivate", "update", "backup", "reassert"}
KeyPixel == MaxDraws + 1          \* what draw_osk leaves: no version of the page
Keys == [c \in Columns |-> KeyPixel]
Pixels == 0..KeyPixel
Unset == [c \in Columns |-> KeyPixel + 1]      \* fresh from malloc

ScreenTypeOK ==
  /\ fb \in [Columns -> Pixels]
  /\ osk_backup \in [Columns -> Pixels] \/ (osk_backup = Unset /\ ~osk_active)
  /\ osk_active \in BOOLEAN
  /\ pc \in [Threads -> Pcs]
  /\ page \in [Columns -> 0..MaxDraws] /\ draws \in 0..MaxDraws
  /\ overlap \in BOOLEAN /\ narrow \in BOOLEAN

ScreenInit ==
  /\ fb = [c \in Columns |-> 0] /\ page = [c \in Columns |-> 0]
  /\ osk_backup = Unset
  /\ osk_active = FALSE /\ draws = 0
  /\ pc = [t \in Threads |-> "idle"]
  /\ overlap = FALSE /\ narrow = FALSE

Quiet == \A t \in Threads : pc[t] = "idle"

\* Thread t goes on, or begins something.
Goto(t, from, to) == /\ pc[t] = from /\ pc' = [pc EXCEPT ![t] = to]
                     /\ UNCHANGED <<overlap, narrow>>
Begin(t, to) == /\ pc[t] = "idle" /\ pc' = [pc EXCEPT ![t] = to]
                /\ overlap' = (overlap \/ ~Quiet)

-----------------------------------------------------------------------------
(* show_osk: from the input thread, or as SDL_ShowKeyboardForTextInput.    *)

ShowBegin(t) ==
  /\ ~osk_active /\ Begin(t, "save")
  /\ UNCHANGED <<fb, osk_backup, osk_active, page, draws, narrow>>

ShowSave(t) ==
  /\ Goto(t, "save", "activate")
  /\ osk_backup' = fb
  /\ UNCHANGED <<fb, osk_active, page, draws>>

ShowActivate(t) ==
  /\ Goto(t, "activate", "draw_osk")
  /\ osk_active' = TRUE
  /\ UNCHANGED <<fb, osk_backup, page, draws>>

ShowDraw(t) ==
  /\ Goto(t, "draw_osk", "idle")
  /\ fb' = Keys
  /\ UNCHANGED <<osk_backup, osk_active, page, draws>>

(* hide_osk: only the input thread calls it.                               *)

HideBegin ==
  /\ osk_active /\ Begin("input", "restore")
  /\ UNCHANGED <<fb, osk_backup, osk_active, page, draws, narrow>>

HideRestore ==
  /\ Goto("input", "restore", "deactivate")
  /\ fb' = osk_backup
  /\ UNCHANGED <<osk_backup, osk_active, page, draws>>

HideDeactivate ==
  /\ Goto("input", "deactivate", "idle")
  /\ osk_active' = FALSE
  /\ UNCHANGED <<fb, osk_backup, page, draws>>

-----------------------------------------------------------------------------
(* NetSurf draws some strips of the page, then calls SDL_UpdateRect.       *)

Draw(cols) ==
  /\ draws < MaxDraws /\ cols # {}
  /\ Begin("main", "update")
  /\ narrow' = (narrow \/ (osk_active /\ cols # Columns))
  /\ draws' = draws + 1
  /\ page' = [c \in Columns |-> IF c \in cols THEN draws + 1 ELSE page[c]]
  /\ fb' = [c \in Columns |-> IF c \in cols THEN draws + 1 ELSE fb[c]]
  /\ UNCHANGED <<osk_backup, osk_active>>

UpdateBegin ==
  /\ pc["main"] = "update"
  /\ pc' = [pc EXCEPT !["main"] = IF osk_active THEN "backup" ELSE "idle"]
  /\ UNCHANGED <<fb, osk_backup, osk_active, page, draws, overlap, narrow>>

\* Mutants of UpdateBackup and UpdateReassert: the step left out.
UpdateBackupSkipped ==
  /\ Goto("main", "backup", "reassert")
  /\ UNCHANGED <<fb, osk_backup, osk_active, page, draws>>
\* Whole rows of the framebuffer, not only the strips just drawn.
UpdateBackup ==
  /\ Goto("main", "backup", "reassert")
  /\ osk_backup' = fb
  /\ UNCHANGED <<fb, osk_active, page, draws>>

UpdateReassertSkipped ==
  /\ Goto("main", "reassert", "idle")
  /\ UNCHANGED <<fb, osk_backup, osk_active, page, draws>>
UpdateReassert ==
  /\ Goto("main", "reassert", "idle")
  /\ fb' = Keys
  /\ UNCHANGED <<osk_backup, osk_active, page, draws>>

-----------------------------------------------------------------------------
ScreenNext ==
  \/ \E t \in Threads : ShowBegin(t) \/ ShowSave(t) \/ ShowActivate(t) \/ ShowDraw(t)
  \/ HideBegin \/ HideRestore \/ HideDeactivate
  \/ \E cols \in SUBSET Columns : Draw(cols)
  \/ UpdateBegin \/ UpdateBackup \/ UpdateReassert

ScreenSpec == ScreenInit /\ [][ScreenNext]_screenVars

-----------------------------------------------------------------------------
(* Properties.                                                             *)

\* "Re-assert keyboard directly over fb_mem so NetSurf never hides the keys":
\* once both threads are done an active keyboard is on the screen, whole,
\* however their steps were interleaved.
KeyboardVisible == Quiet /\ osk_active => fb = Keys

\* Dismissing the keyboard brings back the newest page, also what was drawn
\* under it, if the threads did not overlap and page updates had full width.
PageRestored == Quiet /\ ~osk_active /\ ~overlap /\ ~narrow => fb = page
=============================================================================
