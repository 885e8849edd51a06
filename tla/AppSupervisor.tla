--------------------------- MODULE AppSupervisor ---------------------------
(***************************************************************************)
(* Which application owns the screen: the supervisor loop of               *)
(* init_system.sh with the launcher scripts it runs (start_koreader.sh,    *)
(* start_plato.sh, start_browser.sh), and everybody who asks it to switch  *)
(* by rewriting /tmp/current_app and killing processes: the btn-watcher    *)
(* chords, the KOReader plugins and the app-switcher dialog.               *)
(*                                                                         *)
(* The requests are not atomic: the two state files and the kill are three *)
(* steps, and the supervisor writes the same files when a script returns.  *)
(***************************************************************************)
EXTENDS Naturals, FiniteSets

CONSTANT Requesters      \* who may act in this instance

Apps == {"koreader", "plato", "netsurf"}

\* Processes by launcher: NetSurf may be started in three ways.
Procs == {"ko", "plato", "ns_sup", "ns_switcher", "ns_plugin"}
AppOf(p) == IF p = "ko" THEN "koreader" ELSE IF p = "plato" THEN "plato" ELSE "netsurf"

ASSUME RequestersAssumption == Requesters \subseteq {"chord", "plugin", "switcher"}

VARIABLES
  current_app,     \* /tmp/current_app
  active_reader,   \* /tmp/active_reader
  proc,            \* per process: "none", "run" or "stop" (SIGSTOP)
  sup,             \* where the supervisor and the script it runs are
  chord,           \* the btn-watcher handler: its pc, target app and kill list
  switcher,        \* app-switcher: its pc and the active_app it read at start
  plugin,          \* what a KOReader plugin is in the middle of
  want,            \* history: app of the last completed request, until it starts
  from             \* history: what ran when that request was complete

files == <<current_app, active_reader>>
hist  == <<want, from>>
vars  == <<files, proc, sup, chord, switcher, plugin, hist>>

NoChord    == [pc |-> "idle", app |-> "koreader", kills |-> {}]
NoSwitcher == [pc |-> "idle", app |-> "koreader", to |-> "koreader"]
SupPcs == {"poll", "ko_pkill", "ko_launch", "ko_run", "pl_pkill", "pl_launch", "pl_run",
           "pl_cur", "pl_act", "ns_launch", "ns_run", "s_cur", "s_act", "sleep"}

TypeOK ==
  /\ current_app \in Apps /\ active_reader \in Apps
  /\ proc \in [Procs -> {"none", "run", "stop"}]
  /\ sup \in SupPcs
  /\ chord \in [pc : {"idle", "cur", "act", "kill"}, app : Apps, kills : SUBSET Apps]
  /\ switcher \in [pc : {"idle", "open", "cur", "act", "kill", "spawn"}, app : Apps, to : Apps]
  /\ plugin \in {"idle", "act", "browser"}
  /\ want \in Apps \cup {"none"} /\ from \in Apps \cup {"none"}

Init ==
  /\ current_app = "koreader" /\ active_reader = "koreader"
  /\ proc = [p \in Procs |-> "none"]
  /\ sup = "poll" /\ chord = NoChord /\ switcher = NoSwitcher /\ plugin = "idle"
  /\ want = "none" /\ from = "none"

\* killall -9 of every process of the named apps (stopped ones die too).
Killed(apps) == [p \in Procs |-> IF AppOf(p) \in apps THEN "none" ELSE proc[p]]
Signalled(app, s, t) ==
  [p \in Procs |-> IF AppOf(p) = app /\ proc[p] = s THEN t ELSE proc[p]]
\* A plugin lives and dies with the KOReader process.
PluginAfter(procs) == IF procs["ko"] = "none" THEN "idle" ELSE plugin
SetProc(procs) == proc' = procs /\ plugin' = PluginAfter(procs)
Starts(p) == /\ proc' = [proc EXCEPT ![p] = "run"]
             /\ want' = IF want = AppOf(p) THEN "none" ELSE want

-----------------------------------------------------------------------------
(* The supervisor loop; its pc also runs through the script it called.     *)

SupPoll ==
  /\ sup = "poll"
  /\ \/ current_app = "plato" /\ sup' = "pl_pkill"
     \/ current_app = "netsurf" /\ sup' = "ns_launch"
     \/ current_app = "koreader" /\ sup' = "ko_pkill"
  /\ UNCHANGED <<files, proc, chord, switcher, plugin, hist>>

\* start_koreader.sh / start_plato.sh first kill the other reader.
SupPkill ==
  /\ sup \in {"ko_pkill", "pl_pkill"}
  /\ SetProc(Killed({IF sup = "ko_pkill" THEN "plato" ELSE "koreader"}))
  /\ sup' = IF sup = "ko_pkill" THEN "ko_launch" ELSE "pl_launch"
  /\ UNCHANGED <<files, chord, switcher, hist>>

SupLaunch ==
  /\ \/ sup = "ko_launch" /\ sup' = "ko_run" /\ Starts("ko")
     \/ sup = "pl_launch" /\ sup' = "pl_run" /\ Starts("plato")
     \/ sup = "ns_launch" /\ sup' = "ns_run" /\ Starts("ns_sup")
  /\ UNCHANGED <<files, chord, switcher, plugin, from>>

SupKoDoneResets ==
  /\ sup = "ko_run" /\ proc["ko"] = "none"
  /\ sup' = "s_cur"
  /\ UNCHANGED <<files, proc, chord, switcher, plugin, hist>>
\* reader.lua died or exited: start_koreader.sh leaves its loop and returns.
SupKoDone ==
  /\ sup = "ko_run" /\ proc["ko"] = "none"
  /\ sup' = "sleep"
  /\ UNCHANGED <<files, proc, chord, switcher, plugin, hist>>

SupPlatoDoneEarly ==
  /\ sup = "pl_run"
  /\ sup' = "pl_cur"
  /\ UNCHANGED <<files, proc, chord, switcher, plugin, hist>>
\* Plato returned: start_plato.sh rewrites both files before it returns.
SupPlatoDone ==
  /\ sup = "pl_run" /\ proc["plato"] = "none"
  /\ sup' = "pl_cur"
  /\ UNCHANGED <<files, proc, chord, switcher, plugin, hist>>

SupNetSurfDone ==
  /\ sup = "ns_run" /\ proc["ns_sup"] = "none"
  /\ sup' = "s_cur"
  /\ UNCHANGED <<files, proc, chord, switcher, plugin, hist>>

\* echo koreader > /tmp/current_app; echo koreader > /tmp/active_reader:
\* once in start_plato.sh (pl_*), once in the loop (s_*).
SupReset ==
  /\ \/ sup = "pl_cur" /\ sup' = "pl_act" /\ current_app' = "koreader" /\ UNCHANGED active_reader
     \/ sup = "pl_act" /\ sup' = "s_cur" /\ active_reader' = "koreader" /\ UNCHANGED current_app
     \/ sup = "s_cur" /\ sup' = "s_act" /\ current_app' = "koreader" /\ UNCHANGED active_reader
     \/ sup = "s_act" /\ sup' = "sleep" /\ active_reader' = "koreader" /\ UNCHANGED current_app
  /\ UNCHANGED <<proc, chord, switcher, plugin, hist>>

SupSleepOnce == FALSE
SupSleep ==
  /\ sup = "sleep" /\ sup' = "poll"
  /\ UNCHANGED <<files, proc, chord, switcher, plugin, hist>>

Supervisor ==
  \/ SupPoll \/ SupPkill \/ SupLaunch \/ SupKoDone \/ SupPlatoDone \/ SupNetSurfDone
  \/ SupReset \/ SupSleep

-----------------------------------------------------------------------------
(* The btn-watcher chords that switch applications.                        *)

\* The target and the kill list of Home + key, from the current_app it reads.
ChordTarget(k) ==
  IF k = "BL" THEN "plato"
  ELSE IF k = "TR" /\ current_app # "netsurf" THEN "netsurf" ELSE "koreader"
ChordKills(k) ==
  IF k = "TR" /\ current_app = "netsurf" THEN {"netsurf"} ELSE Apps \ {ChordTarget(k)}

\* In the app the chord names TL and BL open its frontlight dialog instead.
ChordStart(k) ==
  /\ "chord" \in Requesters /\ chord.pc = "idle"
  /\ k \in {"TL", "BL"} => current_app # ChordTarget(k)
  /\ chord' = [pc |-> "cur", app |-> ChordTarget(k), kills |-> ChordKills(k)]
  /\ UNCHANGED <<files, proc, sup, switcher, plugin, hist>>

\* set_active_app: the two files one after the other.
ChordWrite ==
  /\ \/ chord.pc = "cur" /\ current_app' = chord.app /\ UNCHANGED active_reader
     \/ chord.pc = "act" /\ active_reader' = chord.app /\ UNCHANGED current_app
  /\ chord' = [chord EXCEPT !.pc = IF @ = "cur" THEN "act" ELSE "kill"]
  /\ UNCHANGED <<proc, sup, switcher, plugin, hist>>

\* The app the supervisor is waiting for, if it is alive.
Supervised ==
  IF sup = "ko_run" /\ proc["ko"] # "none" THEN "koreader"
  ELSE IF sup = "pl_run" /\ proc["plato"] # "none" THEN "plato"
  ELSE IF sup = "ns_run" /\ proc["ns_sup"] # "none" THEN "netsurf" ELSE "none"

\* History: the request for app a is complete; from stays "none" when the file
\* the supervisor reads no longer names a, somebody having written after it.
Asked(a) ==
  /\ want' = a
  /\ from' = IF current_app = a THEN Supervised ELSE "none"

\* system("killall -9 ..."): the handler waits for it.
ChordKill ==
  /\ chord.pc = "kill"
  /\ SetProc(Killed(chord.kills))
  /\ chord' = NoChord
  /\ Asked(chord.app)
  /\ UNCHANGED <<files, sup, switcher>>

-----------------------------------------------------------------------------
(* KOReader plugins.                                                       *)

\* KOReader's event loop runs: not stopped, not inside another callback.
KoReady == "plugin" \in Requesters /\ proc["ko"] = "run" /\ plugin = "idle"
KoGone  == [proc EXCEPT !["ko"] = "none"]

\* switch_plato: writes active_reader only, then os.exit(0); from is "none", as
\* current_app does not name Plato.
PluginSwitchPlato ==
  /\ KoReady
  /\ active_reader' = "plato" /\ SetProc(KoGone)
  /\ want' = "plato" /\ from' = "none"
  /\ UNCHANGED <<current_app, sup, chord, switcher>>

\* platomanager: writes current_app, then active_reader and exits.
PluginManagerCur ==
  /\ KoReady
  /\ current_app' = "plato" /\ plugin' = "act"
  /\ UNCHANGED <<active_reader, proc, sup, chord, switcher, hist>>

PluginManagerExit ==
  /\ plugin = "act" /\ proc["ko"] = "run"
  /\ active_reader' = "plato" /\ SetProc(KoGone)
  /\ want' = "plato" /\ from' = IF current_app = "plato" THEN "koreader" ELSE "none"
  /\ UNCHANGED <<current_app, sup, chord, switcher>>

\* browser plugin: NetSurf as a child of KOReader, which waits for it;
\* neither state file is touched.  (Bound: one such browser at a time, though
\* one orphaned by a killed KOReader could get company.)
PluginBrowser ==
  /\ KoReady /\ proc["ns_plugin"] = "none"
  /\ proc' = [proc EXCEPT !["ns_plugin"] = "run"] /\ plugin' = "browser"
  /\ UNCHANGED <<files, sup, chord, switcher, hist>>

PluginBrowserDone ==
  /\ plugin = "browser" /\ proc["ns_plugin"] = "none" /\ proc["ko"] = "run"
  /\ plugin' = "idle"
  /\ UNCHANGED <<files, proc, sup, chord, switcher, hist>>

-----------------------------------------------------------------------------
(* The app-switcher dialog.                                                *)

\* Start: read current_app and SIGSTOP that app.
SwitcherOpen ==
  /\ "switcher" \in Requesters /\ switcher.pc = "idle"
  /\ switcher' = [NoSwitcher EXCEPT !.pc = "open", !.app = current_app]
  /\ proc' = Signalled(current_app, "run", "stop")
  /\ UNCHANGED <<files, sup, chord, plugin, hist>>

\* Close, a signal, a framebuffer that cannot be mapped, or choosing the
\* reader that is already active: SIGCONT the app read at start.
SwitcherResume ==
  /\ switcher.pc = "open" /\ switcher' = NoSwitcher
  /\ proc' = Signalled(switcher.app, "stop", "run")
  /\ UNCHANGED <<files, sup, chord, plugin, hist>>

\* An app button: a reader other than the active one, or NetSurf.
SwitcherChoose(a) ==
  /\ switcher.pc = "open" /\ (a = "netsurf" \/ a # switcher.app)
  /\ switcher' = [switcher EXCEPT !.pc = "cur", !.to = a]
  /\ UNCHANGED <<files, proc, sup, chord, plugin, hist>>

SwitcherWrite ==
  /\ \/ /\ switcher.pc = "cur"
        /\ current_app' = switcher.to /\ UNCHANGED active_reader
        /\ switcher' = [switcher EXCEPT !.pc = IF switcher.to = "netsurf" THEN "kill" ELSE "act"]
     \/ /\ switcher.pc = "act"
        /\ active_reader' = switcher.to /\ UNCHANGED current_app
        /\ switcher' = [switcher EXCEPT !.pc = "kill"]
  /\ UNCHANGED <<proc, sup, chord, plugin, hist>>

SwitcherKill ==
  /\ switcher.pc = "kill"
  /\ SetProc(Killed(Apps \ {switcher.to}))
  /\ switcher' = IF switcher.to = "netsurf" THEN [switcher EXCEPT !.pc = "spawn"] ELSE NoSwitcher
  /\ Asked(switcher.to)
  /\ UNCHANGED <<files, sup, chord>>

\* system("/opt/start_browser.sh &"), beside the supervisor.  One browser per
\* launcher is tracked: beside a stopped one the new one is not.
SwitcherSpawn ==
  /\ switcher.pc = "spawn" /\ switcher' = NoSwitcher
  /\ IF proc["ns_switcher"] = "stop"
     THEN want' = (IF want = "netsurf" THEN "none" ELSE want) /\ UNCHANGED proc
     ELSE Starts("ns_switcher")
  /\ UNCHANGED <<files, sup, chord, plugin, from>>

-----------------------------------------------------------------------------
\* The user quits an application, or it crashes; a stopped one cannot.
AppExit(p) ==
  /\ proc[p] = "run" /\ (p = "ko" => plugin = "idle")
  /\ proc' = [proc EXCEPT ![p] = "none"]
  /\ UNCHANGED <<files, sup, chord, switcher, plugin, hist>>

\* KOReader leaves with code 85: start_koreader.sh starts it again itself.
KoRestart ==
  /\ sup = "ko_run" /\ proc["ko"] = "run" /\ plugin = "idle"
  /\ proc' = [proc EXCEPT !["ko"] = "none"]
  /\ sup' = "ko_launch"
  /\ UNCHANGED <<files, chord, switcher, plugin, hist>>

Finishing ==      \* handlers that have begun run to their end
  \/ ChordWrite \/ ChordKill \/ PluginManagerExit \/ PluginBrowserDone
  \/ SwitcherWrite \/ SwitcherKill \/ SwitcherSpawn

Next ==
  \/ Supervisor \/ Finishing
  \/ \E k \in {"TL", "BL", "TR"} : ChordStart(k)
  \/ PluginSwitchPlato \/ PluginManagerCur \/ PluginBrowser
  \/ SwitcherOpen \/ SwitcherResume \/ \E a \in Apps : SwitcherChoose(a)
  \/ \E p \in Procs : AppExit(p)
  \/ KoRestart

\* Every process that can take a step of its own is scheduled; users need not act.
Fairness == /\ WF_vars(Supervisor)
            /\ WF_vars(ChordWrite \/ ChordKill)
            /\ WF_vars(PluginManagerExit \/ PluginBrowserDone)
            /\ WF_vars(SwitcherWrite \/ SwitcherKill \/ SwitcherSpawn)

Spec == Init /\ [][Next]_vars /\ Fairness

-----------------------------------------------------------------------------
(* Properties.                                                             *)

\* The scripts' "Ensure mutually exclusive execution": the two readers draw on
\* the same panel.  Whoever writes the files and kills what, a reader is alive
\* only while the supervisor waits for exactly that reader.
OneReader ==
  /\ proc["ko"] # "none" => sup = "ko_run"
  /\ proc["plato"] # "none" => sup = "pl_run"

\* A request that was complete while KOReader ran, and which /tmp/current_app
\* still names at that moment, is served, be it a chord, the Plato manager or
\* the dialog: KOReader's own end never resets the files, and no race with
\* the launcher or another requester eats it (a later request may take its
\* place).  Two kinds of request are not covered.  One whose file was
\* rewritten between its write and its kill, by another requester or by the
\* reset that follows Plato and the browser, is lost.  So is every request of
\* the switch_plato plugin, which promises Plato (its main.lua:44) but writes
\* only /tmp/active_reader, a file the supervisor does not read.
Served(a, f) == (want = a /\ from = f) ~> (want # a \/ from # f)
FromKOReaderServed == \A a \in {"plato", "netsurf"} : Served(a, "koreader")

\* Whatever is killed or quits, the supervisor puts an application back, as long
\* as the dialog, which stops and starts apps beside it, is not used.
DialogUnused == [](switcher.pc = "idle")
ScreenOwned == DialogUnused => []<>(\E p \in Procs : proc[p] = "run")

\* BUTTONS.md: "If current reader is NOT Plato: Switches instantly to Plato."
\* A Plato chord made in the browser is followed by a start of Plato.
FromBrowserServed == Served("plato", "netsurf")
=============================================================================
