---------------------------- MODULE MCBtnWatcher ----------------------------
(***************************************************************************)
(* BtnWatcher for TLC.  All keys at once are too many states, so the user  *)
(* picks at the start which of them to operate (the handlers of the others *)
(* are then never entered), how far the queue may run ahead of it, which   *)
(* apps the other writers of current_app name and which backup             *)
(* buffers malloc may deny.  Every behaviour is one of BtnWatcher.         *)
(***************************************************************************)
EXTENDS BtnWatcher

VARIABLE play      \* the choice: [keys, queue, apps, denied]

MCvars == <<vars, play>>

Play(keys, queue, apps, denied) ==
  [keys |-> keys, queue |-> queue, apps |-> apps, denied |-> denied]
Plays == {Play({"HOME", "TL"}, 2, {"koreader", "plato"}, {}),     \* behind the 550 ms sleep
          Play({"HOME", "TL", "BR"}, 1, {"plato"}, {}),          \* media mode
          Play({"HOME", "BR"}, 1, {"koreader"}, Overlays),      \* nothing to restore from
          Play({"HOME", "POWER", "TL"}, 1, {"koreader"}, {}),
          Play({"HOME", "BL", "LID"}, 1, {"koreader", "plato"}, {}),
          Play({"HOME", "BL", "TR"}, 1, Apps, {})}

ASSUME PlaysFit == \A p \in Plays : p.keys \subseteq Buttons /\ p.queue <= MaxQueue

MCInit == Init /\ play \in Plays

MCEnvironment ==
  \/ \E k \in play.keys : Len(inq) < play.queue /\ (Press(k) \/ Release(k))
  \/ \E a \in play.apps : OtherWriter(a)
  \/ Tick

\* What malloc gives once the framebuffer is mapped.
Allotted == fb_mem' => Overlays \ play.denied \subseteq backups'

MCNext == (Watcher \/ MCEnvironment) /\ Allotted /\ UNCHANGED play

MCSpec == /\ MCInit /\ [][MCNext]_MCvars
          /\ WF_MCvars(Watcher /\ Allotted /\ UNCHANGED play) /\ WF_MCvars(Tick /\ Allotted /\ UNCHANGED play)
=============================================================================
