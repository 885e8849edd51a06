------------------------ MODULE AppSupervisorProofs ------------------------
(***************************************************************************)
(* What holds for every set of requesters: the types, and that a reader    *)
(* process is alive only while the supervisor waits for it.                *)
(***************************************************************************)
EXTENDS AppSupervisor, TLAPS

Untimed == Init /\ [][Next]_vars

LEMMA SpecUntimed == Spec => Untimed
BY PTL DEF Spec, Untimed

\* Type of every variable, preserved by each process of the system.
LEMMA TypeInit == Init => TypeOK
BY DEF Init, TypeOK, Apps, Procs, SupPcs, NoChord, NoSwitcher

LEMMA TypeNext == ASSUME TypeOK, [Next]_vars PROVE TypeOK'
<1> USE DEF TypeOK, Apps, files, hist, SupPcs, Procs
<1>a. ASSUME Supervisor PROVE TypeOK'
  <2>1. CASE SupPoll BY <2>1 DEF SupPoll
  <2>2. CASE SupPkill BY <2>2 DEF SupPkill, SetProc, Killed, PluginAfter
  <2>3. CASE SupLaunch BY <2>3 DEF SupLaunch, Starts
  <2>4. CASE SupKoDone BY <2>4 DEF SupKoDone
  <2>5. CASE SupPlatoDone BY <2>5 DEF SupPlatoDone
  <2>6. CASE SupNetSurfDone BY <2>6 DEF SupNetSurfDone
  <2>7. CASE SupReset BY <2>7 DEF SupReset
  <2>8. CASE SupSleep BY <2>8 DEF SupSleep
  <2> QED BY <1>a, <2>1, <2>2, <2>3, <2>4, <2>5, <2>6, <2>7, <2>8 DEF Supervisor
<1>b. ASSUME Finishing PROVE TypeOK'
  <2>1. CASE ChordWrite BY <2>1 DEF ChordWrite
  <2>2. CASE ChordKill BY <2>2 DEF ChordKill, SetProc, Killed, PluginAfter, NoChord, Asked, Supervised
  <2>3. CASE PluginManagerExit BY <2>3 DEF PluginManagerExit, SetProc, KoGone, PluginAfter
  <2>4. CASE PluginBrowserDone BY <2>4 DEF PluginBrowserDone
  <2>5. CASE SwitcherWrite BY <2>5 DEF SwitcherWrite
  <2>6. CASE SwitcherKill BY <2>6 DEF SwitcherKill, SetProc, Killed, PluginAfter, NoSwitcher, Asked,
    Supervised
  <2>7. CASE SwitcherSpawn BY <2>7 DEF SwitcherSpawn, Starts, NoSwitcher
  <2> QED BY <1>b, <2>1, <2>2, <2>3, <2>4, <2>5, <2>6, <2>7 DEF Finishing
<1>c. ASSUME NEW k \in {"TL", "BL", "TR"}, ChordStart(k) PROVE TypeOK'
  BY <1>c DEF ChordStart, ChordTarget, ChordKills
<1>d. ASSUME PluginSwitchPlato \/ PluginManagerCur \/ PluginBrowser PROVE TypeOK'
  <2>1. CASE PluginSwitchPlato BY <2>1 DEF PluginSwitchPlato, SetProc, KoGone, PluginAfter
  <2>2. CASE PluginManagerCur BY <2>2 DEF PluginManagerCur
  <2>3. CASE PluginBrowser BY <2>3 DEF PluginBrowser
  <2> QED BY <1>d, <2>1, <2>2, <2>3
<1>e. ASSUME SwitcherOpen \/ SwitcherResume PROVE TypeOK'
  <2>1. CASE SwitcherOpen
    <3>1. proc' \in [Procs -> {"none", "run", "stop"}] BY <2>1 DEF SwitcherOpen, Signalled
    <3>2. switcher' = [pc |-> "open", app |-> current_app, to |-> "koreader"]
      BY <2>1 DEF SwitcherOpen, NoSwitcher
    <3> QED BY <2>1, <3>1, <3>2 DEF SwitcherOpen
  <2>2. CASE SwitcherResume BY <2>2 DEF SwitcherResume, Signalled, NoSwitcher
  <2> QED BY <1>e, <2>1, <2>2
<1>f. ASSUME NEW a \in Apps, SwitcherChoose(a) PROVE TypeOK'
  <2>1. switcher' = [pc |-> "cur", app |-> switcher.app, to |-> a]
    BY <1>f DEF SwitcherChoose
  <2> QED BY <1>f, <2>1 DEF SwitcherChoose
<1>g. ASSUME NEW p \in Procs, AppExit(p) PROVE TypeOK'
  BY <1>g DEF AppExit
<1>h. ASSUME KoRestart PROVE TypeOK'
  BY <1>h DEF KoRestart
<1>i. ASSUME UNCHANGED vars PROVE TypeOK'
  BY <1>i DEF vars
<1> QED BY <1>a, <1>b, <1>c, <1>d, <1>e, <1>f, <1>g, <1>h, <1>i DEF Next

\* The type invariant, for every set of requesters.
THEOREM TypeCorrect == Spec => []TypeOK
BY TypeInit, TypeNext, SpecUntimed, PTL DEF Untimed

-----------------------------------------------------------------------------
\* Only a launch brings a reader to life; every other step leaves a reader as
\* dead as it was.
NoNewReader == \A p \in {"ko", "plato"} : proc[p] = "none" => proc'[p] = "none"

LEMMA KilledStaysDead ==
  ASSUME TypeOK, NEW apps, SetProc(Killed(apps)) PROVE NoNewReader
BY DEF TypeOK, SetProc, Killed, NoNewReader, Procs

LEMMA RequestsStartNoReader ==
  ASSUME TypeOK, Next, ~SupLaunch PROVE NoNewReader
<1> USE DEF TypeOK, NoNewReader, Procs
<1>a. ASSUME Supervisor PROVE NoNewReader
  BY <1>a, KilledStaysDead
     DEF Supervisor, SupPoll, SupPkill, SupKoDone, SupPlatoDone, SupNetSurfDone, SupReset, SupSleep
<1>b. ASSUME Finishing PROVE NoNewReader
  BY <1>b, KilledStaysDead
     DEF Finishing, ChordWrite, ChordKill, PluginManagerExit, PluginBrowserDone, SwitcherWrite,
         SwitcherKill, SwitcherSpawn, Starts, SetProc, KoGone
<1>c. ASSUME NEW k \in {"TL", "BL", "TR"}, ChordStart(k) PROVE NoNewReader
  BY <1>c DEF ChordStart
<1>d. ASSUME PluginSwitchPlato \/ PluginManagerCur \/ PluginBrowser PROVE NoNewReader
  BY <1>d DEF PluginSwitchPlato, PluginManagerCur, PluginBrowser, SetProc, KoGone
<1>e. ASSUME SwitcherOpen \/ SwitcherResume PROVE NoNewReader
  BY <1>e DEF SwitcherOpen, SwitcherResume, Signalled
<1>f. ASSUME NEW a \in Apps, SwitcherChoose(a) PROVE NoNewReader
  BY <1>f DEF SwitcherChoose
<1>g. ASSUME NEW p \in Procs, AppExit(p) PROVE NoNewReader
  BY <1>g DEF AppExit
<1>h. ASSUME KoRestart PROVE NoNewReader
  BY <1>h DEF KoRestart
<1> QED BY <1>a, <1>b, <1>c, <1>d, <1>e, <1>f, <1>g, <1>h DEF Next

\* The supervisor leaves ko_run and pl_run only once their process is gone.
LEMMA WaitsForReader ==
  ASSUME TypeOK, Next, ~SupLaunch
  PROVE  /\ sup = "ko_run" /\ sup' # "ko_run" => proc'["ko"] = "none"
         /\ sup = "pl_run" /\ sup' # "pl_run" => proc'["plato"] = "none"
BY DEF TypeOK, Procs, Next, Supervisor, Finishing, SupPoll, SupPkill, SupKoDone, SupPlatoDone,
       SupNetSurfDone, SupReset, SupSleep, ChordStart, ChordWrite, ChordKill, PluginManagerExit,
       PluginBrowserDone, SwitcherWrite, SwitcherKill, SwitcherSpawn, PluginSwitchPlato,
       PluginManagerCur, PluginBrowser, SwitcherOpen, SwitcherResume, SwitcherChoose, AppExit, KoRestart

\* A reader is alive only while the supervisor waits for it, whoever writes the
\* state files and kills processes around it.
THEOREM OneReaderCorrect == Spec => []OneReader
<1>1. Init => OneReader
  BY DEF Init, OneReader, Procs
<1>2. ASSUME TypeOK, OneReader, [Next]_vars PROVE OneReader'
  <2>1. CASE SupLaunch
    BY <1>2, <2>1 DEF SupLaunch, Starts, OneReader, TypeOK, Procs
  <2>2. CASE Next /\ ~SupLaunch
    <3>1. NoNewReader BY <1>2, <2>2, RequestsStartNoReader
    <3>2. /\ sup = "ko_run" /\ sup' # "ko_run" => proc'["ko"] = "none"
          /\ sup = "pl_run" /\ sup' # "pl_run" => proc'["plato"] = "none"
      BY <1>2, <2>2, WaitsForReader
    <3> QED BY <1>2, <3>1, <3>2 DEF NoNewReader, OneReader
  <2>3. CASE UNCHANGED vars
    BY <1>2, <2>3 DEF vars, OneReader
  <2> QED BY <1>2, <2>1, <2>2, <2>3
<1> QED BY <1>1, <1>2, TypeCorrect, SpecUntimed, PTL DEF Untimed
=============================================================================
