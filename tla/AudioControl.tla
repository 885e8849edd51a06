---------------------------- MODULE AudioControl ----------------------------
(***************************************************************************)
(* audiocontrol.sh: the background music player.  Every key press or menu  *)
(* entry runs the script as a process of its own, often in the background, *)
(* and playing starts a further process, the daemon, with one player       *)
(* (mpg123 or aplay) per track.  They share a handful of files in /var/run *)
(* and no lock.                                                            *)
(*                                                                         *)
(* A command is the sequence of its remaining steps (todo); a step is one  *)
(* test, file access or signal.  The daemon started by command c is called *)
(* c, and so is its player: pids are not reused.  Names of tracks, output  *)
(* devices and volume are left out.                                        *)
(***************************************************************************)
EXTENDS Integers, Sequences

CONSTANTS MaxCommands,   \* bound: commands ever given
          MaxTracks,     \* bound: lines of a playlist
          Operations     \* the commands the users give in this instance

ASSUME AudioAssumption ==
  /\ MaxCommands \in Nat /\ MaxTracks \in Nat \ {0}
  /\ Operations \subseteq {"play", "file", "pause", "next", "prev", "shuffle", "reorder",
                           "scan", "stop"}

Commands == 1..MaxCommands
Lines    == 0..MaxTracks
NoPid    == 0

VARIABLES
  status, index, shuffle,      \* STATUSFILE, INDEXFILE, SHUFFLEFILE
  playlist, saved,             \* lines of PLAYLIST_FILE and SAVED_PLAYLIST
  pidfile, player_pidfile,     \* PIDFILE, PLAYER_PIDFILE; NoPid: no such file
  cmd,                         \* per command: its remaining steps and PL_PID
  issued,                      \* number of commands given
  daemon,                      \* per daemon: where it is, its $idx and $total
  player,                      \* per daemon: its player, a state of PlayerStates
  tight,                       \* history: something happened before all had settled
  missed                       \* history: players a sweep passed over before their exec

files == <<status, index, shuffle, playlist, saved, pidfile, player_pidfile>>
vars  == <<files, cmd, issued, daemon, player, tight, missed>>

Steps == {"stopped", "kill_player", "rm_player", "kill_daemon", "rm_daemon", "pkill", "ensure",
          "playing", "spawn", "pause", "sigstop", "paused", "sigcont", "file", "play", "next",
          "prev", "shuffle", "reorder", "scan", "fill"}
DaemonPcs == {"none", "pidfile", "status", "top", "track", "start", "write", "wait", "check",
              "next", "exit", "exited", "dead"}

\* A forked player that has not yet executed mpg123 or aplay is a shell by its
\* name: "fork", or "held" when stopped.  Then it is "run" or "stop".
PlayerStates == {"none", "fork", "held", "run", "stop"}
Unnamed(d) == player[d] \in {"fork", "held"}
Stopped(d) == player[d] \in {"held", "stop"}

TypeOK ==
  /\ status \in {"STOPPED", "PLAYING", "PAUSED"}
  /\ index \in Lines /\ shuffle \in BOOLEAN /\ playlist \in Lines /\ saved \in Lines
  /\ pidfile \in Commands \cup {NoPid} /\ player_pidfile \in Commands \cup {NoPid}
  /\ cmd \in [Commands -> [todo : Seq(Steps), pid : Commands \cup {NoPid}]]
  /\ issued \in 0..MaxCommands
  /\ daemon \in [Commands -> [pc : DaemonPcs, idx : Lines, total : Lines]]
  /\ player \in [Commands -> PlayerStates]
  /\ tight \in BOOLEAN /\ missed \subseteq Commands

Init ==
  /\ status = "STOPPED" /\ index = 0 /\ shuffle = FALSE      \* no files: the defaults
  /\ playlist = 0 /\ saved \in Lines
  /\ pidfile = NoPid /\ player_pidfile = NoPid
  /\ cmd = [c \in Commands |-> [todo |-> <<>>, pid |-> NoPid]] /\ issued = 0
  /\ daemon = [c \in Commands |-> [pc |-> "none", idx |-> 0, total |-> 0]]
  /\ player = [c \in Commands |-> "none"]
  /\ tight = FALSE /\ missed = {}

-----------------------------------------------------------------------------
(* The commands.                                                           *)

StopPlaybackKillsLast ==
  <<"stopped", "kill_player", "rm_player", "pkill", "kill_daemon", "rm_daemon">>
stop_playback == <<"stopped", "kill_player", "rm_player", "kill_daemon", "rm_daemon", "pkill">>
start_playback == stop_playback \o <<"ensure", "playing", "spawn">>

Program(op) ==
  CASE op \in {"play", "file"} -> <<op>> \o start_playback
    [] op = "stop" -> stop_playback
    [] op \in {"next", "prev", "reorder"} -> <<"ensure", op>>
    [] op = "scan" -> <<"scan", "fill">>
    [] OTHER -> <<op>>

\* Nothing is under way: no command, and each daemon waits for its player, which plays.
Settled ==
  /\ \A c \in Commands : cmd[c].todo = <<>>
  /\ \A d \in Commands : \/ daemon[d].pc \in {"none", "dead"}
                         \/ daemon[d].pc = "wait" /\ player[d] \in {"run", "stop"}

Issue(op) ==
  /\ issued < MaxCommands /\ issued' = issued + 1
  /\ cmd' = [cmd EXCEPT ![issued + 1].todo = Program(op)]
  /\ tight' = (tight \/ ~Settled)
  /\ UNCHANGED <<files, daemon, player, missed>>

\* Command c is at step s and goes on with the steps rest.
Do(c, s, rest) ==
  /\ cmd[c].todo # <<>> /\ Head(cmd[c].todo) = s
  /\ cmd' = [cmd EXCEPT ![c].todo = rest]
  /\ UNCHANGED <<issued, tight>>
Then(c) == Tail(cmd[c].todo)
Skip2(c) == Tail(Tail(cmd[c].todo))

WriteStatus(c) ==
  /\ \/ Do(c, "stopped", Then(c)) /\ status' = "STOPPED"
     \/ Do(c, "playing", Then(c)) /\ status' = "PLAYING"
     \/ Do(c, "paused", Then(c)) /\ status' = "PAUSED"
  /\ UNCHANGED <<index, shuffle, playlist, saved, pidfile, player_pidfile, daemon, player>>

\* if [ -f file ]: kill -9 what it names, then remove it.
KillPlayer(c) ==
  /\ Do(c, "kill_player", IF player_pidfile = NoPid THEN Skip2(c) ELSE Then(c))
  /\ player' = [d \in Commands |-> IF d = player_pidfile THEN "none" ELSE player[d]]
  /\ UNCHANGED <<files, daemon>>

KillDaemonForgets(c) ==
  /\ Do(c, "kill_daemon", IF pidfile = NoPid THEN Skip2(c) ELSE Then(c))
  /\ UNCHANGED <<files, daemon, player>>
KillDaemon(c) ==
  /\ Do(c, "kill_daemon", IF pidfile = NoPid THEN Skip2(c) ELSE Then(c))
  /\ daemon' = [d \in Commands |-> IF d = pidfile THEN [daemon[d] EXCEPT !.pc = "dead"]
                                                  ELSE daemon[d]]
  /\ UNCHANGED <<files, player>>

Remove(c) ==
  /\ \/ Do(c, "rm_player", Then(c)) /\ player_pidfile' = NoPid /\ UNCHANGED pidfile
     \/ Do(c, "rm_daemon", Then(c)) /\ pidfile' = NoPid /\ UNCHANGED player_pidfile
  /\ UNCHANGED <<status, index, shuffle, playlist, saved, daemon, player>>

\* pkill -9 -x mpg123, aplay: every player of that name, stopped ones too.
Pkill(c) ==
  /\ Do(c, "pkill", Then(c))
  /\ player' = [d \in Commands |-> IF Unnamed(d) THEN player[d] ELSE "none"]
  /\ missed' = missed \cup {d \in Commands : Unnamed(d)}
  /\ UNCHANGED <<files, daemon>>

\* An empty playlist is replaced by the saved one, or by what find sees.
ensure_playlist ==
  \/ playlist > 0 /\ UNCHANGED <<playlist, saved>>
  \/ playlist = 0 /\ saved > 0 /\ playlist' = saved /\ UNCHANGED saved
  \/ playlist = 0 /\ saved = 0 /\ playlist' \in Lines /\ saved' = playlist'

Ensure(c) ==
  /\ Do(c, "ensure", Then(c)) /\ ensure_playlist
  /\ UNCHANGED <<status, index, shuffle, pidfile, player_pidfile, daemon, player>>

Spawn(c) ==
  /\ Do(c, "spawn", Then(c))
  /\ daemon' = [daemon EXCEPT ![c].pc = "pidfile"]
  /\ UNCHANGED <<files, player>>

\* pause: with both pid files there, toggle the player; else start playing.
PauseToggle(c) ==
  /\ cmd[c].todo # <<>> /\ Head(cmd[c].todo) = "pause"
  /\ pidfile # NoPid /\ player_pidfile # NoPid
  /\ cmd' = [cmd EXCEPT ![c] = [pid |-> player_pidfile,
                                todo |-> IF status = "PLAYING" THEN <<"sigstop", "paused">>
                                                               ELSE <<"sigcont", "playing">>]]
  /\ UNCHANGED <<files, issued, daemon, player, tight>>

PauseStarts(c) ==
  /\ Do(c, "pause", start_playback)
  /\ pidfile = NoPid \/ player_pidfile = NoPid
  /\ UNCHANGED <<files, daemon, player>>

SignalNobody(c) ==
  /\ Do(c, "sigstop", Then(c)) \/ Do(c, "sigcont", Then(c))
  /\ UNCHANGED <<files, daemon, player>>
\* kill -STOP, kill -CONT; a pid that is gone is nobody's.
Halted(p) == CASE p = "run" -> "stop" [] p = "fork" -> "held" [] OTHER -> p
Resumed(p) == CASE p = "stop" -> "run" [] p = "held" -> "fork" [] OTHER -> p

Signal(c) ==
  /\ \/ /\ Do(c, "sigstop", Then(c))
        /\ player' = [d \in Commands |-> IF d = cmd[c].pid THEN Halted(player[d]) ELSE player[d]]
     \/ /\ Do(c, "sigcont", Then(c))
        /\ player' = [d \in Commands |-> IF d = cmd[c].pid THEN Resumed(player[d]) ELSE player[d]]
  /\ UNCHANGED <<files, daemon>>

\* play <n> takes any number; play <file> makes it the whole playlist.
PlayArgument(c) ==
  /\ \/ Do(c, "play", Then(c)) /\ index' \in Lines /\ UNCHANGED playlist
     \/ Do(c, "file", Then(c)) /\ index' = 0 /\ playlist' = 1
  /\ UNCHANGED <<status, shuffle, saved, pidfile, player_pidfile, daemon, player>>

\* next, prev and reorder do nothing without tracks, and then start over.
Skip(c, op, indices) ==
  /\ Do(c, op, IF playlist > 0 THEN start_playback ELSE <<>>)
  /\ index' \in IF playlist > 0 THEN indices ELSE {index}
  /\ UNCHANGED <<status, shuffle, playlist, saved, pidfile, player_pidfile, daemon, player>>
Next_(c) == Skip(c, "next", IF shuffle /\ playlist > 1 THEN 0..(playlist - 1)
                            ELSE {(index + 1) % playlist})
PrevBelowZero(c) == Skip(c, "prev", {index - 1})
Prev(c) == Skip(c, "prev", {(index - 1 + playlist) % playlist})
Reorder(c) ==
  /\ Do(c, "reorder", IF playlist > 0 /\ status = "PLAYING" THEN start_playback ELSE <<>>)
  /\ index' = IF playlist > 0 THEN 0 ELSE index
  /\ saved' = IF playlist > 0 THEN playlist ELSE saved
  /\ UNCHANGED <<status, shuffle, playlist, pidfile, player_pidfile, daemon, player>>

Shuffle(c) ==
  /\ Do(c, "shuffle", Then(c)) /\ shuffle' = ~shuffle
  /\ UNCHANGED <<status, index, playlist, saved, pidfile, player_pidfile, daemon, player>>

\* scan: the playlist is empty from the redirection until find is through.
Scan(c) ==
  /\ \/ Do(c, "scan", Then(c)) /\ playlist' = 0 /\ UNCHANGED <<saved, index>>
     \/ Do(c, "fill", Then(c)) /\ playlist' \in Lines /\ saved' = playlist' /\ index' = 0
  /\ UNCHANGED <<status, shuffle, pidfile, player_pidfile, daemon, player>>

Command(c) ==
  \/ Pkill(c)
  \/ /\ \/ WriteStatus(c) \/ KillPlayer(c) \/ KillDaemon(c) \/ Remove(c) \/ Ensure(c)
        \/ Spawn(c) \/ PauseToggle(c) \/ PauseStarts(c) \/ Signal(c) \/ PlayArgument(c)
        \/ Next_(c) \/ Prev(c) \/ Reorder(c) \/ Shuffle(c) \/ Scan(c)
     /\ UNCHANGED missed

-----------------------------------------------------------------------------
(* run_daemon, and the player it starts for each track.                    *)

At(d, from, to) == /\ daemon[d].pc = from /\ daemon' = [daemon EXCEPT ![d].pc = to]
                   /\ UNCHANGED <<issued, tight>>

DaemonEnter(d) ==
  /\ \/ At(d, "pidfile", "status") /\ pidfile' = d /\ UNCHANGED status
     \/ At(d, "status", "top") /\ status' = "PLAYING" /\ UNCHANGED pidfile
  /\ UNCHANGED <<index, shuffle, playlist, saved, player_pidfile, cmd, player>>

\* The top of the loop: no tracks, leave; else an index within the playlist.
DaemonTop(d) ==
  /\ daemon[d].pc = "top" /\ ensure_playlist
  /\ LET i == IF index < playlist' THEN index ELSE 0 IN
     IF playlist' = 0
     THEN /\ daemon' = [daemon EXCEPT ![d].pc = "exit"] /\ status' = "STOPPED"
          /\ UNCHANGED index
     ELSE /\ daemon' = [daemon EXCEPT ![d] = [pc |-> "track", idx |-> i, total |-> playlist']]
          /\ index' = i /\ UNCHANGED status
  /\ UNCHANGED <<shuffle, pidfile, player_pidfile, cmd, issued, player, tight>>

\* The track's file is there, or it is passed over.
DaemonTrack(d) ==
  /\ \/ At(d, "track", "start") /\ status' = "PLAYING" /\ UNCHANGED index
     \/ /\ At(d, "track", "top") /\ index' = (daemon[d].idx + 1) % daemon[d].total
        /\ UNCHANGED status
  /\ UNCHANGED <<shuffle, playlist, saved, pidfile, player_pidfile, cmd, player>>

\* A new process with a new pid: whoever remembers the last player has nobody.
DaemonStart(d) ==
  /\ At(d, "start", "write") /\ player' = [player EXCEPT ![d] = "fork"]
  /\ cmd' = [c \in Commands |-> IF cmd[c].pid = d THEN [cmd[c] EXCEPT !.pid = NoPid] ELSE cmd[c]]
  /\ missed' = missed \ {d}
  /\ UNCHANGED files

DaemonWrite(d) ==
  /\ At(d, "write", "wait") /\ player_pidfile' = d
  /\ UNCHANGED <<status, index, shuffle, playlist, saved, pidfile, cmd, player>>

\* wait returns, rm -f PLAYER_PIDFILE.
DaemonWait(d) ==
  /\ At(d, "wait", "check") /\ player[d] = "none"
  /\ player_pidfile' = NoPid
  /\ UNCHANGED <<status, index, shuffle, playlist, saved, pidfile, cmd, player>>

DaemonCheck(d) ==
  /\ At(d, "check", IF status = "STOPPED" THEN "exit" ELSE "next")
  /\ UNCHANGED <<files, cmd, player>>

\* The next index; with an empty playlist the shell dies of the division.
DaemonNext(d) ==
  /\ \/ /\ shuffle /\ playlist > 1
        /\ At(d, "next", "top") /\ index' \in 0..(playlist - 1)
     \/ /\ ~(shuffle /\ playlist > 1) /\ playlist > 0
        /\ At(d, "next", "top") /\ index' = (daemon[d].idx + 1) % playlist
     \/ playlist = 0 /\ At(d, "next", "dead") /\ UNCHANGED index
  /\ UNCHANGED <<status, shuffle, playlist, saved, pidfile, player_pidfile, cmd, player>>

DaemonExit(d) ==
  /\ \/ /\ At(d, "exit", "exited") /\ pidfile' = NoPid /\ player_pidfile' = NoPid
        /\ UNCHANGED status
     \/ At(d, "exited", "dead") /\ status' = "STOPPED" /\ UNCHANGED <<pidfile, player_pidfile>>
  /\ UNCHANGED <<index, shuffle, playlist, saved, cmd, player>>

Daemon(d) ==
  \/ DaemonStart(d)
  \/ /\ \/ DaemonEnter(d) \/ DaemonTop(d) \/ DaemonTrack(d) \/ DaemonWrite(d)
        \/ DaemonWait(d) \/ DaemonCheck(d) \/ DaemonNext(d) \/ DaemonExit(d)
     /\ UNCHANGED missed

\* The child the daemon forked becomes mpg123 or aplay.
PlayerExecs(d) ==
  /\ player[d] = "fork" /\ player' = [player EXCEPT ![d] = "run"]
  /\ UNCHANGED <<files, cmd, issued, daemon, tight, missed>>

\* A track is over, or there is no such program.
PlayerEnds(d) ==
  /\ player[d] \in {"fork", "run"} /\ player' = [player EXCEPT ![d] = "none"]
  /\ tight' = (tight \/ ~Settled)
  /\ UNCHANGED <<files, cmd, issued, daemon, missed>>

-----------------------------------------------------------------------------
Next ==
  \/ \E op \in Operations : Issue(op)
  \/ \E c \in Commands : Command(c)
  \/ \E d \in Commands : Daemon(d) \/ PlayerExecs(d) \/ PlayerEnds(d)

Spec == Init /\ [][Next]_vars

-----------------------------------------------------------------------------
(* Properties.                                                             *)

Pending(c, s) == \E i \in 1..Len(cmd[c].todo) : cmd[c].todo[i] = s

\* Whatever commands run at the same time, music plays on with nobody to start
\* the next track in one case only: the last sweep of stop_playback, which goes
\* by name (audiocontrol.sh:149), passed between the fork of the player and its
\* exec.  Any other player whose daemon is dead is about to be killed, since
\* stop_playback kills the daemon before its last sweep.
NoOrphan ==
  \A d \in Commands : player[d] # "none" /\ daemon[d].pc = "dead"
                        => d \in missed \/ \E c \in Commands : Pending(c, "pkill")

\* With commands given when the last one has settled, and no track ending in
\* the middle of one, there is never more than one player at a time.
OneVoice == ~tight => \A d, e \in Commands : player[d] # "none" /\ player[e] # "none" => d = e

\* ... and what the dialogs show as PAUSED is a player that is stopped.
PausedTrue ==
  ~tight /\ Settled => (status = "PAUSED" <=> \E d \in Commands : Stopped(d))
=============================================================================
