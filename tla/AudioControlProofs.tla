------------------------- MODULE AudioControlProofs -------------------------
(***************************************************************************)
(* Proofs about AudioControl, for every number of commands and tracks and  *)
(* every overlap of commands, daemons and players: no player is left with  *)
(* nobody to control it; and where commands are given in peace there is    *)
(* one voice, and PAUSED is the truth.                                     *)
(***************************************************************************)
EXTENDS AudioControl, SequenceTheorems, TLAPS

-----------------------------------------------------------------------------
(* The steps a command has left.                                           *)

\* The last step of a command, which says what it is about: "spawn" for all
\* that starts playing, "pkill" for stop.
Goal(t) == t[Len(t)]
Goals == {"pkill", "spawn", "next", "prev", "reorder", "fill", "paused", "playing", "pause",
          "shuffle"}

\* What comes after step a in a command that ends with g.
Follows(g, a, b) ==
  \/ g \in {"pkill", "spawn"} /\ \/ a = "stopped" /\ b = "kill_player"
                                 \/ a = "kill_player" /\ b = "rm_player"
                                 \/ a = "rm_player" /\ b = "kill_daemon"
                                 \/ a = "kill_daemon" /\ b = "rm_daemon"
                                 \/ a = "rm_daemon" /\ b = "pkill"
  \/ g = "spawn" /\ \/ a \in {"play", "file"} /\ b = "stopped"
                    \/ a = "pkill" /\ b = "ensure"
                    \/ a = "ensure" /\ b = "playing"
                    \/ a = "playing" /\ b = "spawn"
  \/ g \in {"next", "prev", "reorder"} /\ a = "ensure" /\ b = g
  \/ g = "fill" /\ a = "scan" /\ b = g
  \/ g = "paused" /\ a = "sigstop" /\ b = g
  \/ g = "playing" /\ a = "sigcont" /\ b = g

\* The rest of a program.
Rest(t) ==
  /\ t \in Seq(Steps)
  /\ t # <<>> => Goal(t) \in Goals
  /\ \A i \in 1..(Len(t) - 1) : Follows(Goal(t), t[i], t[i + 1])

Busy(c) == cmd[c].todo # <<>>
Step(c) == Head(cmd[c].todo)

-----------------------------------------------------------------------------
(* The invariants.                                                         *)

\* A command that runs has started no daemon: spawn is its last step.
ProgramInv ==
  \A c \in Commands : /\ Rest(cmd[c].todo)
                      /\ Busy(c) => daemon[c].pc = "none"
                      /\ c > issued => ~Busy(c) /\ daemon[c].pc = "none"

\* The pid file names a daemon that was started; a track is one of several.
DaemonInv ==
  /\ pidfile # NoPid => daemon[pidfile].pc # "none"
  /\ \A d \in Commands : daemon[d].pc = "track" => daemon[d].total > 0

AudioInv == TypeOK /\ ProgramInv /\ DaemonInv

\* A player has a daemon, which has just started it, waits for it or was killed.
PlayerInv ==
  \A d \in Commands : player[d] # "none" => daemon[d].pc \in {"write", "wait", "dead"}

OrphanInv == PlayerInv /\ NoOrphan

\* A daemon that has nothing to do: it waits for a player, or is none any more.
Waits(d) == \/ daemon[d].pc \in {"none", "dead"}
            \/ daemon[d].pc = "wait" /\ player[d] # "none"

\* A daemon between its first line and the removal of the pid files.
Running(d) == daemon[d].pc \notin {"none", "exited", "dead"}

\* In stop_playback: the players are gone; so is the daemon.
Aim(c) == Goal(cmd[c].todo)
Stopping(c) == Busy(c) /\ Step(c) \in {"rm_player", "kill_daemon"}
Cleared(c) == Busy(c) /\ \/ Step(c) \in {"rm_daemon", "pkill", "spawn"}
                         \/ Step(c) \in {"ensure", "playing"} /\ Aim(c) = "spawn"

\* Commands given in peace: at most one command runs, and one daemon; the files
\* name it and its player.
PeaceInv ==
  /\ \A c, e \in Commands : Busy(c) /\ Busy(e) => c = e
  /\ \A d, e \in Commands : Running(d) /\ Running(e) => d = e
  /\ \A d \in Commands :
       /\ Running(d) /\ daemon[d].pc # "pidfile" => pidfile = d
       /\ player[d] # "none" => daemon[d].pc \in {"write", "wait"}
       /\ daemon[d].pc = "wait" /\ player[d] # "none" => player_pidfile = d
       /\ player_pidfile = d => daemon[d].pc = "wait"

\* What a running command finds at each of its steps.
CommandAt(c) ==
  /\ Busy(c) /\ ~Stopping(c) /\ ~Cleared(c) => \A d \in Commands : Waits(d)
  /\ Busy(c) /\ Step(c) = "kill_player" => status = "STOPPED"
  /\ Stopping(c) => /\ status = "STOPPED"
                    /\ \A d \in Commands :
                         /\ player[d] = "none"
                         /\ daemon[d].pc \in {"none", "dead", "wait", "check", "exit", "exited"}
                    /\ Step(c) = "kill_daemon" => player_pidfile = NoPid
  /\ Cleared(c) => /\ status # "PAUSED"
                   /\ \A d \in Commands : player[d] = "none" /\ ~Running(d)
CommandInv == \A c \in Commands : CommandAt(c)

\* Where status and player go together: everywhere but between the two steps of a
\* pause, and before the player is killed.
StopSeen == \E d \in Commands : Stopped(d)
Between(c) == Busy(c) /\ Step(c) \in {"kill_player", "paused", "playing"}
PauseAt(c) ==
  /\ Busy(c) /\ Step(c) \in {"sigstop", "sigcont"}
       => cmd[c].pid = player_pidfile /\ player_pidfile # NoPid
  /\ Busy(c) /\ Step(c) = "paused" => StopSeen
  /\ Busy(c) /\ Step(c) = "playing" => ~StopSeen
PauseInv ==
  /\ StopSeen => \A e \in Commands : Waits(e)
  /\ \A c \in Commands : PauseAt(c)
  /\ (\A c \in Commands : ~Between(c)) => (status = "PAUSED" <=> StopSeen)

VoiceInv == ~tight => PeaceInv /\ CommandInv /\ PauseInv

-----------------------------------------------------------------------------
(* Lemmas about the steps of a command.                                    *)

\* The steps that come after the first are the rest of a program too, with the same
\* last step.
LEMMA TailRest ==
  ASSUME NEW t, Rest(t), t # <<>>
  PROVE  /\ Head(t) \in Steps /\ Goal(t) \in Goals /\ Rest(Tail(t))
         /\ Tail(t) = <<>> => Head(t) = Goal(t)
         /\ Tail(t) # <<>> => /\ Goal(Tail(t)) = Goal(t)
                              /\ Follows(Goal(t), Head(t), Head(Tail(t)))
<1> DEFINE u == Tail(t)
           g == Goal(t)
<1>1. t \in Seq(Steps) /\ g \in Goals /\ \A i \in 1..(Len(t) - 1) : Follows(g, t[i], t[i + 1])
  BY DEF Rest
<1>2. /\ Len(t) \in Nat \ {0} /\ u \in Seq(Steps) /\ Len(u) = Len(t) - 1
      /\ \A i \in 1..Len(u) : u[i] = t[i + 1]
      /\ Head(t) = t[1] /\ Head(t) \in Steps
  BY <1>1
<1>3. u = <<>> <=> Len(u) = 0
  BY <1>2, EmptySeq
<1>4. CASE u = <<>>
  BY <1>1, <1>2, <1>3, <1>4 DEF Goal, Rest
<1>5. CASE u # <<>>
  <2>1. Goal(u) = g /\ Head(u) = t[2]
    BY <1>2, <1>3, <1>5 DEF Goal
  <2>2. Follows(g, t[1], t[2])
    BY <1>1, <1>2, <1>3, <1>5
  <2>3. \A i \in 1..(Len(u) - 1) : Follows(g, u[i], u[i + 1])
    <3> SUFFICES ASSUME NEW i \in 1..(Len(u) - 1) PROVE Follows(g, u[i], u[i + 1])
      OBVIOUS
    <3>1. u[i] = t[i + 1] /\ u[i + 1] = t[(i + 1) + 1] /\ i + 1 \in 1..(Len(t) - 1)
      BY <1>2
    <3> QED  BY <1>1, <3>1
  <2> QED  BY <1>1, <1>2, <1>5, <2>1, <2>2, <2>3 DEF Rest
<1> QED  BY <1>4, <1>5

\* A step that is left is the first one or left after it.
LEMMA TailHas ==
  ASSUME NEW t \in Seq(Steps), t # <<>>, NEW s, \E i \in 1..Len(t) : t[i] = s, s # Head(t)
  PROVE  \E i \in 1..Len(Tail(t)) : Tail(t)[i] = s
<1>1. PICK i \in 1..Len(t) : t[i] = s
  OBVIOUS
<1>2. i # 1 /\ i - 1 \in 1..Len(Tail(t)) /\ Tail(t)[i - 1] = t[i]
  BY <1>1
<1> QED  BY <1>1, <1>2

\* Two parts of a program, one after the other.
LEMMA JoinRest ==
  ASSUME NEW a \in Seq(Steps), NEW b \in Seq(Steps), a # <<>>, b # <<>>, Goal(b) \in Goals,
         Follows(Goal(b), Goal(a), Head(b)),
         \A i \in 1..(Len(a) - 1) : Follows(Goal(b), a[i], a[i + 1]),
         \A i \in 1..(Len(b) - 1) : Follows(Goal(b), b[i], b[i + 1])
  PROVE  Rest(a \o b) /\ a \o b # <<>> /\ Head(a \o b) = Head(a) /\ Goal(a \o b) = Goal(b)
<1> DEFINE t == a \o b
<1>1. Len(a) \in Nat \ {0} /\ Len(b) \in Nat \ {0}
  BY EmptySeq
<1>2. /\ t \in Seq(Steps) /\ Len(t) = Len(a) + Len(b)
      /\ \A i \in 1..(Len(a) + Len(b)) : t[i] = IF i <= Len(a) THEN a[i] ELSE b[i - Len(a)]
  BY ConcatProperties
<1> HIDE DEF t
<1>3. t # <<>> /\ Head(t) = Head(a) /\ Goal(t) = Goal(b)
  BY <1>1, <1>2 DEF Goal
<1>4. \A i \in 1..(Len(t) - 1) : Follows(Goal(b), t[i], t[i + 1])
  <2> SUFFICES ASSUME NEW i \in 1..(Len(t) - 1) PROVE Follows(Goal(b), t[i], t[i + 1])
    OBVIOUS
  <2>1. CASE i < Len(a)
    <3>1. i \in 1..(Len(a) - 1) /\ t[i] = a[i] /\ t[i + 1] = a[i + 1]
      BY <1>1, <1>2, <2>1
    <3> QED  BY <3>1
  <2>2. CASE i = Len(a)
    <3>1. t[i] = Goal(a) /\ t[i + 1] = Head(b)
      BY <1>1, <1>2, <2>2 DEF Goal
    <3> QED  BY <3>1
  <2>3. CASE i > Len(a)
    <3>1. /\ i - Len(a) \in 1..(Len(b) - 1)
          /\ t[i] = b[i - Len(a)] /\ t[i + 1] = b[(i - Len(a)) + 1]
      BY <1>1, <1>2, <2>3
    <3> QED  BY <3>1
  <2> QED  BY <1>1, <2>1, <2>2, <2>3
<1> QED  BY <1>2, <1>3, <1>4 DEF Rest, t

\* stop_playback is a program, and the first part of what starts playing.
LEMMA StopSteps ==
  /\ stop_playback \in Seq(Steps) /\ stop_playback # <<>>
  /\ Head(stop_playback) = "stopped" /\ Goal(stop_playback) = "pkill"
  /\ \A g \in {"pkill", "spawn"}, i \in 1..(Len(stop_playback) - 1) :
       Follows(g, stop_playback[i], stop_playback[i + 1])
<1> DEFINE t == <<"stopped", "kill_player", "rm_player", "kill_daemon", "rm_daemon", "pkill">>
<1>1. t \in Seq(Steps) /\ Len(t) = 6 /\ Head(t) = "stopped" /\ t # <<>> /\ t[6] = "pkill"
  BY DEF Steps
<1>2. \A g \in {"pkill", "spawn"}, i \in 1..5 : Follows(g, t[i], t[i + 1])
  BY DEF Follows
<1> QED  BY <1>1, <1>2 DEF Goal, stop_playback

\* start_playback is a program that ends with the start of the daemon.
LEMMA StartRest ==
  /\ Rest(start_playback) /\ start_playback # <<>>
  /\ Head(start_playback) = "stopped" /\ Goal(start_playback) = "spawn"
<1> DEFINE b == <<"ensure", "playing", "spawn">>
<1>1. b \in Seq(Steps) /\ Len(b) = 3 /\ Head(b) = "ensure" /\ b # <<>> /\ b[3] = "spawn"
  BY DEF Steps
<1>2. \A i \in 1..2 : Follows("spawn", b[i], b[i + 1])
  BY DEF Follows
<1>3. Goal(b) = "spawn" /\ "spawn" \in Goals
  BY <1>1 DEF Goal, Goals
<1>4. Follows("spawn", "pkill", "ensure")
  BY DEF Follows
<1>5. \A i \in 1..(Len(b) - 1) : Follows(Goal(b), b[i], b[i + 1])
  BY <1>1, <1>2, <1>3
<1> HIDE DEF b
<1>6. /\ Rest(stop_playback \o b) /\ stop_playback \o b # <<>>
      /\ Head(stop_playback \o b) = Head(stop_playback) /\ Goal(stop_playback \o b) = Goal(b)
  BY <1>1, <1>3, <1>4, <1>5, StopSteps, JoinRest
<1> QED  BY <1>3, <1>6, StopSteps DEF start_playback, b

\* Every command is a program.
LEMMA ProgramRest ==
  ASSUME NEW op \in {"play", "file", "pause", "next", "prev", "shuffle", "reorder", "scan", "stop"}
  PROVE  /\ Rest(Program(op)) /\ Program(op) # <<>>
         /\ Head(Program(op)) \in {"play", "file", "stopped", "ensure", "scan", "pause", "shuffle"}
         /\ Head(Program(op)) = "ensure" => Goal(Program(op)) # "spawn"
<1>1. CASE op \in {"play", "file"}
  <2> DEFINE a == <<op>>
  <2>1. a \in Seq(Steps) /\ a # <<>> /\ Len(a) = 1 /\ Head(a) = op /\ a[1] = op
    BY <1>1 DEF Steps
  <2>2. Goal(a) = op
    BY <2>1 DEF Goal
  <2>3. start_playback \in Seq(Steps) /\ "spawn" \in Goals
    BY StartRest DEF Rest, Goals
  <2>4. Follows("spawn", op, "stopped")
    BY <1>1 DEF Follows
  <2>5. \A i \in 1..(Len(start_playback) - 1) :
           Follows("spawn", start_playback[i], start_playback[i + 1])
    BY StartRest DEF Rest
  <2>6. \A i \in 1..(Len(a) - 1) : Follows("spawn", a[i], a[i + 1])
    BY <2>1
  <2>7. Program(op) = a \o start_playback
    BY <1>1 DEF Program
  <2> HIDE DEF a
  <2>8. /\ Rest(a \o start_playback) /\ a \o start_playback # <<>>
        /\ Head(a \o start_playback) = Head(a)
    BY <2>1, <2>2, <2>3, <2>4, <2>5, <2>6, StartRest, JoinRest
  <2> QED  BY <1>1, <2>1, <2>7, <2>8
<1>2. CASE op = "stop"
  <2>1. Program(op) = stop_playback /\ "pkill" \in Goals
    BY <1>2 DEF Program, Goals
  <2> QED  BY <2>1, StopSteps DEF Rest
<1>3. CASE op \in {"next", "prev", "reorder"}
  <2> DEFINE a == <<"ensure", op>>
  <2>1. Program(op) = a
    BY <1>3 DEF Program
  <2>2. a \in Seq(Steps) /\ Len(a) = 2 /\ a[1] = "ensure" /\ a[2] = op
    BY <1>3 DEF Steps
  <2>3. op \in Goals /\ Follows(op, "ensure", op) /\ op # "spawn"
    BY <1>3 DEF Goals, Follows
  <2> HIDE DEF a
  <2>4. a # <<>> /\ Head(a) = "ensure" /\ Goal(a) = op
    BY <2>2, SMTT(40) DEF Goal
  <2>5. \A i \in 1..(Len(a) - 1) : Follows(op, a[i], a[i + 1])
    BY <2>2, <2>3
  <2> QED  BY <2>1, <2>2, <2>3, <2>4, <2>5 DEF Rest
<1>4. CASE op = "scan"
  <2> DEFINE a == <<"scan", "fill">>
  <2>1. Program(op) = a
    BY <1>4 DEF Program
  <2>2. a \in Seq(Steps) /\ Len(a) = 2 /\ a[1] = "scan" /\ a[2] = "fill"
    BY DEF Steps
  <2>3. "fill" \in Goals /\ Follows("fill", "scan", "fill")
    BY DEF Goals, Follows
  <2> HIDE DEF a
  <2>4. a # <<>> /\ Head(a) = "scan" /\ Goal(a) = "fill"
    BY <2>2 DEF Goal
  <2>5. \A i \in 1..(Len(a) - 1) : Follows("fill", a[i], a[i + 1])
    BY <2>2, <2>3
  <2> QED  BY <2>1, <2>2, <2>3, <2>4, <2>5 DEF Rest
<1>5. CASE op \in {"pause", "shuffle"}
  <2> DEFINE a == <<op>>
  <2>1. Program(op) = a
    BY <1>5 DEF Program
  <2>2. a \in Seq(Steps) /\ Len(a) = 1 /\ a[1] = op /\ op \in Goals
    BY <1>5 DEF Steps, Goals
  <2> HIDE DEF a
  <2>3. a # <<>> /\ Head(a) = op /\ Goal(a) = op
    BY <2>2 DEF Goal
  <2> QED  BY <1>5, <2>1, <2>2, <2>3 DEF Rest
<1> QED  BY <1>1, <1>2, <1>3, <1>4, <1>5

\* So are the two steps of a pause.
LEMMA ToggleRest ==
  /\ Rest(<<"sigstop", "paused">>) /\ <<"sigstop", "paused">> # <<>>
  /\ Head(<<"sigstop", "paused">>) = "sigstop"
  /\ Rest(<<"sigcont", "playing">>) /\ <<"sigcont", "playing">> # <<>>
  /\ Head(<<"sigcont", "playing">>) = "sigcont"
  BY DEF Rest, Goal, Goals, Follows, Steps

-----------------------------------------------------------------------------
(* The types and the programs.                                             *)

CmdType == [Commands -> [todo : Seq(Steps), pid : Commands \cup {NoPid}]]

\* A step of command c leaves it with the rest of a program, and the others alone.
LEMMA DoStep ==
  ASSUME TypeOK, ProgramInv, NEW c \in Commands, NEW s, NEW rest, Do(c, s, rest), Rest(rest)
  PROVE  /\ cmd' \in CmdType /\ cmd'[c].todo = rest
         /\ \A e \in Commands : cmd'[e].pid = cmd[e].pid
         /\ \A e \in Commands \ {c} : cmd'[e] = cmd[e]
         /\ Busy(c) /\ Step(c) = s /\ daemon[c].pc = "none" /\ c <= issued
         /\ \A e \in Commands : Rest(cmd'[e].todo)
         /\ issued' = issued /\ tight' = tight
<1>1. cmd \in CmdType /\ rest \in Seq(Steps)
  BY DEF TypeOK, CmdType, Rest
<1>2. cmd' = [cmd EXCEPT ![c].todo = rest]
  BY DEF Do
<1>3. cmd' \in CmdType /\ cmd'[c].todo = rest
  BY <1>1, <1>2 DEF CmdType
<1>4. /\ \A e \in Commands : cmd'[e].pid = cmd[e].pid
      /\ \A e \in Commands \ {c} : cmd'[e] = cmd[e]
  BY <1>1, <1>2 DEF CmdType
<1>5. Busy(c) /\ Step(c) = s /\ issued' = issued /\ tight' = tight
  BY DEF Do, Busy, Step
<1>6. daemon[c].pc = "none" /\ c <= issued
  BY <1>5 DEF ProgramInv, TypeOK, Commands
<1>7. \A e \in Commands : Rest(cmd'[e].todo)
  BY <1>3, <1>4 DEF ProgramInv
<1> QED  BY <1>3, <1>4, <1>5, <1>6, <1>7

\* What Then and Skip2 leave is the rest of a program.
LEMMA ThenRest ==
  ASSUME TypeOK, ProgramInv, NEW c \in Commands, Busy(c)
  PROVE  /\ Rest(Then(c)) /\ Step(c) \in Steps /\ Goal(cmd[c].todo) \in Goals
         /\ Then(c) = <<>> => Step(c) = Goal(cmd[c].todo)
         /\ Then(c) # <<>> => /\ Goal(Then(c)) = Goal(cmd[c].todo)
                              /\ Follows(Goal(cmd[c].todo), Step(c), Head(Then(c)))
  BY TailRest DEF Busy, Step, Then, ProgramInv

\* What is left of a program whose step kills a process, or skips it when there is none.
LEMMA SkipRest ==
  ASSUME TypeOK, ProgramInv, NEW c \in Commands, Busy(c), Step(c) \in {"kill_player", "kill_daemon"}
  PROVE  /\ Then(c) # <<>> /\ Rest(Then(c)) /\ Skip2(c) # <<>> /\ Rest(Skip2(c))
         /\ Goal(Then(c)) = Goal(cmd[c].todo) /\ Goal(Skip2(c)) = Goal(cmd[c].todo)
         /\ Goal(cmd[c].todo) \in {"pkill", "spawn"}
         /\ Step(c) = "kill_player" => Head(Then(c)) = "rm_player" /\ Head(Skip2(c)) = "kill_daemon"
         /\ Step(c) = "kill_daemon" => Head(Then(c)) = "rm_daemon" /\ Head(Skip2(c)) = "pkill"
<1> DEFINE t == cmd[c].todo
           u == Then(c)
<1>1. Goal(t) \in Goals /\ Rest(u) /\ (u = <<>> => Step(c) = Goal(t))
  BY ThenRest
<1>2. u # <<>>
  BY <1>1 DEF Goals
<1>3. Goal(u) = Goal(t) /\ Follows(Goal(t), Step(c), Head(u))
  BY <1>2, ThenRest
<1>4. /\ Step(c) = "kill_player" => Head(u) = "rm_player"
      /\ Step(c) = "kill_daemon" => Head(u) = "rm_daemon"
      /\ Goal(t) \in {"pkill", "spawn"}
  BY <1>3 DEF Follows
<1>5. Skip2(c) = Tail(u)
  BY DEF Skip2, Then
<1> HIDE DEF t, u
<1>6. /\ Rest(Tail(u)) /\ (Tail(u) = <<>> => Head(u) = Goal(u))
      /\ Tail(u) # <<>> => Goal(Tail(u)) = Goal(u) /\ Follows(Goal(u), Head(u), Head(Tail(u)))
  BY <1>1, <1>2, TailRest
<1>7. Tail(u) # <<>>
  BY <1>3, <1>4, <1>6
<1>8. /\ Step(c) = "kill_player" => Head(Tail(u)) = "kill_daemon"
      /\ Step(c) = "kill_daemon" => Head(Tail(u)) = "pkill"
  BY <1>4, <1>6, <1>7 DEF Follows
<1> QED  BY <1>1, <1>2, <1>3, <1>4, <1>5, <1>6, <1>7, <1>8 DEF t, u

\* A step of a command that leaves the daemons alone leaves it a program.
LEMMA DoProgram ==
  ASSUME TypeOK, ProgramInv, NEW c \in Commands, NEW s, NEW rest, Do(c, s, rest), Rest(rest),
         UNCHANGED daemon
  PROVE  cmd' \in CmdType /\ issued' = issued /\ tight' = tight /\ ProgramInv'
<1>1. /\ cmd' \in CmdType /\ issued' = issued /\ tight' = tight
      /\ \A e \in Commands : Rest(cmd'[e].todo)
      /\ daemon[c].pc = "none" /\ c <= issued
      /\ \A e \in Commands \ {c} : cmd'[e] = cmd[e]
  BY DoStep
<1>2. issued \in Nat /\ \A e \in Commands : e \in Nat
  BY DEF TypeOK, Commands
<1>3. \A e \in Commands : Busy(e)' => daemon[e].pc = "none"
  BY <1>1 DEF ProgramInv, Busy
<1>4. \A e \in Commands : e > issued => ~Busy(e)' /\ daemon[e].pc = "none"
  BY <1>1, <1>2 DEF ProgramInv, Busy
<1> QED  BY <1>1, <1>3, <1>4 DEF ProgramInv

\* An index stays within the playlist.
LEMMA WithinLines ==
  /\ MaxTracks \in Nat \ {0} /\ 0 \in Lines /\ 1 \in Lines
  /\ \A n \in Nat, m \in Lines : m > 0 => n % m \in Lines
  /\ \A m \in Lines : m > 0 => 0..(m - 1) \subseteq Lines
<1>1. MaxTracks \in Nat \ {0}
  BY AudioAssumption
<1>2. \A n \in Nat, m \in Lines : m > 0 => n % m \in 0..(m - 1)
  BY <1>1 DEF Lines
<1>3. \A m \in Lines : m > 0 => 0..(m - 1) \subseteq Lines
  BY <1>1 DEF Lines
<1> QED  BY <1>1, <1>2, <1>3 DEF Lines

\* The playlist is rebuilt, or left as it is.
LEMMA EnsureType ==
  ASSUME playlist \in Lines, saved \in Lines, ensure_playlist
  PROVE  playlist' \in Lines /\ saved' \in Lines
  BY DEF ensure_playlist

\* The commands whose step touches no daemon.
LEMMA QuietStepAudio ==
  ASSUME AudioInv, NEW c \in Commands,
         \/ WriteStatus(c) \/ KillPlayer(c) \/ Remove(c) \/ Pkill(c) \/ Ensure(c)
         \/ PauseStarts(c) \/ Signal(c) \/ PlayArgument(c) \/ Shuffle(c) \/ Scan(c)
  PROVE  missed' \subseteq Commands => AudioInv'
<1>0. TypeOK /\ ProgramInv /\ DaemonInv
  BY DEF AudioInv
<1>1. PICK s, rest : Do(c, s, rest) /\ UNCHANGED daemon
  BY DEF WriteStatus, KillPlayer, Remove, Pkill, Ensure, PauseStarts, Signal, PlayArgument,
         Shuffle, Scan
<1>2. Busy(c)
  BY <1>1 DEF Do, Busy
<1>3. Rest(Then(c)) /\ (Step(c) = "kill_player" => Rest(Skip2(c)))
  BY <1>0, <1>2, ThenRest, SkipRest
<1>4. cmd' \in CmdType /\ issued' = issued /\ tight' = tight /\ ProgramInv'
  <2>1. CASE KillPlayer(c)
    <3>1. PICK r : Do(c, "kill_player", r) /\ r \in {Then(c), Skip2(c)}
      BY <2>1 DEF KillPlayer
    <3>2. Rest(r)
      BY <1>3, <3>1 DEF Do, Step
    <3> QED  BY <1>0, <1>1, <3>1, <3>2, DoProgram
  <2>2. CASE PauseStarts(c)
    <3>1. Do(c, "pause", start_playback)
      BY <2>2 DEF PauseStarts
    <3> QED  BY <1>0, <1>1, <3>1, StartRest, DoProgram
  <2>3. CASE ~KillPlayer(c) /\ ~PauseStarts(c)
    <3>1. PICK p : Do(c, p, Then(c))
      BY <2>3 DEF WriteStatus, Remove, Pkill, Ensure, Signal, PlayArgument, Shuffle, Scan
    <3> QED  BY <1>0, <1>1, <1>3, <3>1, DoProgram
  <2> QED  BY <2>1, <2>2, <2>3
<1>5. status' \in {"STOPPED", "PLAYING", "PAUSED"} /\ shuffle' \in BOOLEAN
  BY <1>0, ZenonT(60) DEF TypeOK, files, WriteStatus, KillPlayer, Remove, Pkill, Ensure, PauseStarts,
                  Signal, PlayArgument, Shuffle, Scan
<1>6. index' \in Lines /\ playlist' \in Lines /\ saved' \in Lines
  BY <1>0, WithinLines, EnsureType
  DEF TypeOK, files, WriteStatus, KillPlayer, Remove, Pkill, Ensure, PauseStarts,
      Signal, PlayArgument, Shuffle, Scan
<1>7. pidfile' \in {pidfile, NoPid} /\ player_pidfile' \in {player_pidfile, NoPid}
  BY DEF files, WriteStatus, KillPlayer, Remove, Pkill, Ensure, PauseStarts,
      Signal, PlayArgument, Shuffle, Scan
<1>8. player' \in [Commands -> PlayerStates]
  BY <1>0 DEF TypeOK, PlayerStates, Halted, Resumed, files, WriteStatus, KillPlayer, Remove, Pkill, Ensure,
      PauseStarts, Signal, PlayArgument, Shuffle, Scan
<1>9. tight' \in BOOLEAN /\ issued' \in 0..MaxCommands
  BY <1>0, <1>4 DEF TypeOK
<1>10. missed' \subseteq Commands => TypeOK'
  BY <1>0, <1>1, <1>4, <1>5, <1>6, <1>7, <1>8, <1>9, Zenon DEF TypeOK, CmdType
<1>11. DaemonInv'
  BY <1>0, <1>1, <1>7 DEF DaemonInv
<1> QED  BY <1>4, <1>10, <1>11 DEF AudioInv

\* kill -9 of the daemon: one that was started, so no command's that still runs.
LEMMA KillDaemonAudio ==
  ASSUME AudioInv, NEW c \in Commands, KillDaemon(c)
  PROVE  missed' \subseteq Commands => AudioInv'
<1>0. TypeOK /\ ProgramInv /\ DaemonInv
  BY DEF AudioInv
<1>1. PICK r : Do(c, "kill_daemon", r) /\ r \in {Then(c), Skip2(c)}
  BY DEF KillDaemon
<1>2. Rest(r)
  BY <1>0, <1>1, SkipRest DEF Do, Step, Busy
<1>3. /\ cmd' \in CmdType /\ issued' = issued /\ tight' = tight
      /\ \A e \in Commands : Rest(cmd'[e].todo)
      /\ daemon[c].pc = "none" /\ c <= issued
      /\ \A e \in Commands \ {c} : cmd'[e] = cmd[e]
  BY <1>0, <1>1, <1>2, DoStep
<1>4. /\ daemon' \in [Commands -> [pc : DaemonPcs, idx : Lines, total : Lines]]
      /\ \A d \in Commands : /\ d # pidfile => daemon'[d] = daemon[d]
                             /\ d = pidfile => daemon'[d].pc = "dead" /\ daemon[d].pc # "none"
  <2>1. \A d \in Commands : d # NoPid
    BY DEF Commands, NoPid
  <2> QED  BY <1>0, <2>1 DEF KillDaemon, TypeOK, DaemonInv, DaemonPcs
<1>5. issued \in Nat /\ \A e \in Commands : e \in Nat
  BY <1>0 DEF TypeOK, Commands
<1>6. \A e \in Commands : Busy(e)' => daemon'[e].pc = "none"
  BY <1>0, <1>3, <1>4 DEF ProgramInv, Busy
<1>7. \A e \in Commands : e > issued => ~Busy(e)' /\ daemon'[e].pc = "none"
  BY <1>0, <1>3, <1>4, <1>5 DEF ProgramInv, Busy
<1>8. ProgramInv'
  BY <1>3, <1>6, <1>7 DEF ProgramInv
<1>9. missed' \subseteq Commands => TypeOK'
  BY <1>0, <1>3, <1>4, Zenon DEF TypeOK, CmdType, KillDaemon, files
<1>10. DaemonInv'
  BY <1>0, <1>4 DEF DaemonInv, KillDaemon, files, TypeOK
<1> QED  BY <1>8, <1>9, <1>10 DEF AudioInv

\* The start of the daemon is the last step of its command.
LEMMA SpawnAudio ==
  ASSUME AudioInv, NEW c \in Commands, Spawn(c)
  PROVE  (missed' \subseteq Commands => AudioInv') /\ cmd'[c].todo = <<>>
<1>0. TypeOK /\ ProgramInv /\ DaemonInv
  BY DEF AudioInv
<1>1. Do(c, "spawn", Then(c)) /\ Busy(c) /\ Step(c) = "spawn"
  BY DEF Spawn, Do, Busy, Step
<1>2. Rest(Then(c)) /\ Then(c) = <<>>
  BY <1>0, <1>1, ThenRest DEF Follows
<1>3. /\ cmd' \in CmdType /\ issued' = issued /\ tight' = tight /\ cmd'[c].todo = Then(c)
      /\ \A e \in Commands : Rest(cmd'[e].todo)
      /\ daemon[c].pc = "none" /\ c <= issued
      /\ \A e \in Commands \ {c} : cmd'[e] = cmd[e]
  BY <1>0, <1>1, <1>2, DoStep
<1>4. /\ daemon' \in [Commands -> [pc : DaemonPcs, idx : Lines, total : Lines]]
      /\ \A d \in Commands \ {c} : daemon'[d] = daemon[d]
      /\ daemon'[c].pc = "pidfile"
  BY <1>0 DEF Spawn, TypeOK, DaemonPcs
<1>5. issued \in Nat /\ \A e \in Commands : e \in Nat
  BY <1>0 DEF TypeOK, Commands
<1>6. \A e \in Commands : Busy(e)' => daemon'[e].pc = "none"
  BY <1>0, <1>2, <1>3, <1>4 DEF ProgramInv, Busy
<1>7. \A e \in Commands : e > issued => ~Busy(e)' /\ daemon'[e].pc = "none"
  BY <1>0, <1>3, <1>4, <1>5 DEF ProgramInv, Busy
<1>8. ProgramInv'
  BY <1>3, <1>6, <1>7 DEF ProgramInv
<1>9. missed' \subseteq Commands => TypeOK'
  BY <1>0, <1>3, <1>4, Zenon DEF TypeOK, CmdType, Spawn, files
<1>10. DaemonInv'
  <2>1. pidfile' = pidfile /\ (pidfile # NoPid => pidfile \in Commands)
    BY <1>0 DEF Spawn, files, TypeOK
  <2> QED  BY <1>0, <1>4, <2>1 DEF DaemonInv
<1> QED  BY <1>2, <1>3, <1>8, <1>9, <1>10 DEF AudioInv

\* What a toggle leaves to do.
LEMMA ToggleStep ==
  ASSUME TypeOK, ProgramInv, NEW c \in Commands, PauseToggle(c)
  PROVE  /\ cmd' \in CmdType /\ cmd'[c].pid = player_pidfile /\ player_pidfile \in Commands
         /\ \A e \in Commands \ {c} : cmd'[e] = cmd[e]
         /\ \A e \in Commands : Rest(cmd'[e].todo)
         /\ Busy(c) /\ Busy(c)' /\ Step(c) = "pause"
         /\ status = "PLAYING" => Step(c)' = "sigstop"
         /\ status # "PLAYING" => Step(c)' = "sigcont"
<1> DEFINE r == IF status = "PLAYING" THEN <<"sigstop", "paused">> ELSE <<"sigcont", "playing">>
<1>1. Rest(r) /\ r # <<>> /\ Head(r) = IF status = "PLAYING" THEN "sigstop" ELSE "sigcont"
  BY ToggleRest
<1>2. r \in Seq(Steps)
  BY <1>1 DEF Rest
<1>3. cmd' = [cmd EXCEPT ![c] = [pid |-> player_pidfile, todo |-> r]]
  BY DEF PauseToggle
<1> HIDE DEF r
<1>4. player_pidfile \in Commands /\ cmd \in CmdType
  BY DEF PauseToggle, TypeOK, CmdType
<1>5. /\ cmd' \in CmdType /\ cmd'[c].pid = player_pidfile /\ cmd'[c].todo = r
      /\ \A e \in Commands \ {c} : cmd'[e] = cmd[e]
  BY <1>2, <1>3, <1>4 DEF CmdType
<1>6. \A e \in Commands : Rest(cmd'[e].todo)
  BY <1>1, <1>5 DEF ProgramInv
<1> QED  BY <1>1, <1>4, <1>5, <1>6 DEF PauseToggle, Busy, Step

\* pause, with both pid files there: the player is stopped, or continued.
LEMMA ToggleAudio ==
  ASSUME AudioInv, NEW c \in Commands, PauseToggle(c)
  PROVE  missed' \subseteq Commands => AudioInv'
<1>0. TypeOK /\ ProgramInv /\ DaemonInv
  BY DEF AudioInv
<1>1. /\ cmd' \in CmdType /\ Busy(c)
      /\ \A e \in Commands \ {c} : cmd'[e] = cmd[e]
      /\ \A e \in Commands : Rest(cmd'[e].todo)
  BY <1>0, ToggleStep
<1>2. UNCHANGED <<files, issued, daemon, player, tight>>
  BY DEF PauseToggle
<1>3. ProgramInv'
  BY <1>0, <1>1, <1>2 DEF ProgramInv, Busy
<1>4. (missed' \subseteq Commands => TypeOK') /\ DaemonInv'
  BY <1>0, <1>1, <1>2, Zenon DEF TypeOK, DaemonInv, CmdType, files
<1> QED  BY <1>3, <1>4 DEF AudioInv

\* next, prev and reorder: start over, or do nothing more.
LEMMA SkipAudio ==
  ASSUME AudioInv, NEW c \in Commands, Next_(c) \/ Prev(c) \/ Reorder(c)
  PROVE  /\ missed' \subseteq Commands => AudioInv'
         /\ Busy(c) /\ Step(c) \in {"next", "prev", "reorder"}
         /\ cmd'[c].todo \in {start_playback, <<>>}
         /\ \A e \in Commands \ {c} : cmd'[e] = cmd[e]
         /\ UNCHANGED <<status, pidfile, player_pidfile, issued, daemon, player, tight>>
<1>0. TypeOK /\ ProgramInv /\ DaemonInv
  BY DEF AudioInv
<1>1. PICK s \in {"next", "prev", "reorder"}, r \in {start_playback, <<>>} : Do(c, s, r)
  BY DEF Next_, Prev, Reorder, Skip
<1>2. UNCHANGED <<status, shuffle, playlist, pidfile, player_pidfile, daemon, player>>
  BY DEF Next_, Prev, Reorder, Skip
<1>3. Rest(r)
  <2>1. Rest(<<>>)
    BY EmptySeq DEF Rest
  <2> QED  BY <2>1, StartRest
<1>4. /\ cmd' \in CmdType /\ issued' = issued /\ tight' = tight /\ ProgramInv'
      /\ Busy(c) /\ Step(c) = s /\ cmd'[c].todo = r
      /\ \A e \in Commands \ {c} : cmd'[e] = cmd[e]
  BY <1>0, <1>1, <1>2, <1>3, DoProgram, DoStep
<1>5. index' \in Lines /\ saved' \in Lines
  <2>1. index \in Nat /\ index \in Lines /\ saved \in Lines /\ playlist \in Lines /\ playlist \in Nat
    BY <1>0 DEF TypeOK, Lines
  <2>2. CASE Next_(c)
    <3>1. (index + 1) \in Nat
      BY <2>1
    <3>2. playlist > 0 => (index + 1) % playlist \in Lines /\ 0..(playlist - 1) \subseteq Lines
      BY <2>1, <3>1, WithinLines
    <3> QED  BY <2>1, <2>2, <3>2 DEF Next_, Skip
  <2>3. CASE Prev(c)
    <3>1. playlist > 0 => (index - 1 + playlist) \in Nat
      BY <2>1
    <3>2. playlist > 0 => (index - 1 + playlist) % playlist \in Lines
      BY <2>1, <3>1, WithinLines
    <3> QED  BY <2>1, <2>3, <3>2 DEF Prev, Skip
  <2>4. CASE Reorder(c)
    BY <2>1, <2>4, WithinLines DEF Reorder
  <2> QED  BY <2>2, <2>3, <2>4
<1>6. (missed' \subseteq Commands => TypeOK') /\ DaemonInv'
  BY <1>0, <1>2, <1>4, <1>5, Zenon DEF TypeOK, DaemonInv, CmdType
<1> QED  BY <1>1, <1>2, <1>4, <1>6 DEF AudioInv

\* One step of a daemon: it stays a daemon, and so its command is through.
LEMMA DaemonMoves ==
  ASSUME AudioInv, NEW d \in Commands, daemon[d].pc # "none", daemon'[d].pc # "none",
         \A e \in Commands \ {d} : daemon'[e] = daemon[e],
         \A c \in Commands : cmd'[c].todo = cmd[c].todo, issued' = issued
  PROVE  ProgramInv'
  BY DEF AudioInv, ProgramInv, Busy

\* What a step At(d, from, to) does to the daemons.
LEMMA AtStep ==
  ASSUME TypeOK, NEW d \in Commands, NEW from, NEW to \in DaemonPcs, At(d, from, to)
  PROVE  /\ daemon' \in [Commands -> [pc : DaemonPcs, idx : Lines, total : Lines]]
         /\ \A e \in Commands \ {d} : daemon'[e] = daemon[e]
         /\ daemon[d].pc = from /\ daemon'[d].pc = to
         /\ daemon'[d].idx = daemon[d].idx /\ daemon'[d].total = daemon[d].total
         /\ issued' = issued /\ tight' = tight
  BY DEF TypeOK, At

\* The steps of a daemon that do not start a player and are not the top of its loop.
LEMMA PlainDaemonAudio ==
  ASSUME AudioInv, NEW d \in Commands,
         \/ DaemonEnter(d) \/ DaemonTrack(d) \/ DaemonWrite(d) \/ DaemonWait(d)
         \/ DaemonCheck(d) \/ DaemonNext(d) \/ DaemonExit(d)
  PROVE  missed' \subseteq Commands => AudioInv'
<1>0. TypeOK /\ ProgramInv /\ DaemonInv
  BY DEF AudioInv
<1>1. PICK from \in DaemonPcs \ {"none"}, to \in DaemonPcs \ {"none", "track"} : At(d, from, to)
  BY DEF DaemonEnter, DaemonTrack, DaemonWrite, DaemonWait, DaemonCheck, DaemonNext, DaemonExit,
         DaemonPcs
<1>2. /\ daemon' \in [Commands -> [pc : DaemonPcs, idx : Lines, total : Lines]]
      /\ \A e \in Commands \ {d} : daemon'[e] = daemon[e]
      /\ daemon[d].pc = from /\ daemon'[d].pc = to
      /\ issued' = issued /\ tight' = tight
  BY <1>0, <1>1, AtStep
<1>3. cmd' = cmd /\ player' = player /\ shuffle' = shuffle /\ playlist' = playlist /\ saved' = saved
  BY DEF DaemonEnter, DaemonTrack, DaemonWrite, DaemonWait, DaemonCheck, DaemonNext, DaemonExit,
         files
<1>4. ProgramInv'
  BY <1>1, <1>2, <1>3, DaemonMoves
<1>5. /\ status' \in {"STOPPED", "PLAYING", "PAUSED"}
      /\ pidfile' \in {pidfile, NoPid, d} /\ player_pidfile' \in {player_pidfile, NoPid, d}
  BY <1>0 DEF TypeOK, DaemonEnter, DaemonTrack, DaemonWrite, DaemonWait, DaemonCheck, DaemonNext,
              DaemonExit, files
<1>6. index' \in Lines
  <2>1. index \in Lines /\ playlist \in Lines /\ playlist \in Nat
    BY <1>0 DEF TypeOK, Lines
  <2>2. /\ daemon[d].idx \in Nat /\ daemon[d].total \in Lines
        /\ daemon[d].pc = "track" => daemon[d].total > 0
    BY <1>0 DEF TypeOK, Lines, DaemonInv
  <2>3. CASE DaemonTrack(d)
    <3>1. daemon[d].pc = "track"
      BY <2>3 DEF DaemonTrack, At
    <3>2. daemon[d].idx + 1 \in Nat
      BY <2>2
    <3>3. (daemon[d].idx + 1) % daemon[d].total \in Lines
      BY <2>2, <3>1, <3>2, WithinLines
    <3> QED  BY <2>1, <2>3, <3>3 DEF DaemonTrack
  <2>4. CASE DaemonNext(d)
    <3>1. daemon[d].idx + 1 \in Nat
      BY <2>2
    <3>2. playlist > 0 => (daemon[d].idx + 1) % playlist \in Lines /\ 0..(playlist - 1) \subseteq Lines
      BY <2>1, <3>1, WithinLines
    <3>3. playlist > 1 => playlist > 0
      BY <2>1
    <3> QED  BY <2>1, <2>4, <3>2, <3>3 DEF DaemonNext
  <2>5. CASE ~DaemonTrack(d) /\ ~DaemonNext(d)
    BY <2>1, <2>5 DEF DaemonEnter, DaemonWrite, DaemonWait, DaemonCheck, DaemonExit, files
  <2> QED  BY <2>3, <2>4, <2>5
<1>7. missed' \subseteq Commands => TypeOK'
  <2>1. pidfile' \in Commands \cup {NoPid} /\ player_pidfile' \in Commands \cup {NoPid}
    BY <1>0, <1>5 DEF TypeOK
  <2> QED  BY <1>0, <1>2, <1>3, <1>5, <1>6, <2>1, ZenonT(60) DEF TypeOK
<1>8. DaemonInv'
  BY <1>0, <1>1, <1>2, <1>5 DEF DaemonInv, TypeOK
<1> QED  BY <1>4, <1>7, <1>8 DEF AudioInv

\* The top of the daemon's loop: the index is within the playlist.
LEMMA DaemonTopAudio ==
  ASSUME AudioInv, NEW d \in Commands, DaemonTop(d)
  PROVE  /\ missed' \subseteq Commands => AudioInv'
         /\ daemon[d].pc = "top" /\ daemon'[d].pc \in {"exit", "track"}
         /\ \A e \in Commands \ {d} : daemon'[e] = daemon[e]
         /\ daemon'[d].pc = "exit" => status' = "STOPPED"
         /\ daemon'[d].pc = "track" => status' = status
<1>0. TypeOK /\ ProgramInv /\ DaemonInv
  BY DEF AudioInv
<1>1. playlist' \in Lines /\ saved' \in Lines
  BY <1>0, EnsureType DEF DaemonTop, TypeOK
<1> DEFINE i == IF index < playlist' THEN index ELSE 0
<1>2. i \in Lines
  BY <1>0, WithinLines DEF TypeOK
<1>3. \/ /\ daemon' = [daemon EXCEPT ![d].pc = "exit"] /\ status' = "STOPPED" /\ index' = index
      \/ /\ daemon' = [daemon EXCEPT ![d] = [pc |-> "track", idx |-> i, total |-> playlist']]
         /\ index' = i /\ status' = status /\ playlist' # 0
  BY DEF DaemonTop
<1> HIDE DEF i
<1>4. /\ daemon' \in [Commands -> [pc : DaemonPcs, idx : Lines, total : Lines]]
      /\ \A e \in Commands \ {d} : daemon'[e] = daemon[e]
      /\ \/ daemon'[d].pc = "exit" /\ status' = "STOPPED" /\ index' = index
         \/ daemon'[d].pc = "track" /\ daemon'[d].total = playlist' /\ playlist' # 0 /\ index' = i
            /\ status' = status
  <2>1. /\ daemon \in [Commands -> [pc : DaemonPcs, idx : Lines, total : Lines]]
        /\ "exit" \in DaemonPcs /\ "track" \in DaemonPcs
    BY <1>0 DEF TypeOK, DaemonPcs
  <2>2. CASE daemon' = [daemon EXCEPT ![d].pc = "exit"] /\ status' = "STOPPED" /\ index' = index
    BY <2>1, <2>2
  <2>3. CASE /\ daemon' = [daemon EXCEPT ![d] = [pc |-> "track", idx |-> i, total |-> playlist']]
             /\ index' = i /\ status' = status /\ playlist' # 0
    BY <1>1, <1>2, <2>1, <2>3
  <2> QED  BY <1>3, <2>2, <2>3
<1>5. daemon[d].pc = "top"
      /\ UNCHANGED <<shuffle, pidfile, player_pidfile, cmd, issued, player, tight>>
  BY DEF DaemonTop
<1>6. ProgramInv'
  BY <1>4, <1>5, DaemonMoves
<1>7. status' \in {"STOPPED", "PLAYING", "PAUSED"} /\ index' \in Lines
  BY <1>0, <1>2, <1>4 DEF TypeOK
<1>8. missed' \subseteq Commands => TypeOK'
  BY <1>0, <1>1, <1>4, <1>5, <1>7, ZenonT(60) DEF TypeOK
<1>9. daemon'[d].pc = "track" => daemon'[d].total > 0
  BY <1>1, <1>4 DEF Lines
<1>10. DaemonInv'
  BY <1>0, <1>4, <1>5, <1>9 DEF DaemonInv, TypeOK
<1> QED  BY <1>4, <1>5, <1>6, <1>8, <1>10 DEF AudioInv

\* A new player: whoever remembers the last one has nobody.
LEMMA DaemonStartAudio ==
  ASSUME AudioInv, NEW d \in Commands, DaemonStart(d)
  PROVE  /\ missed' \subseteq Commands => AudioInv'
         /\ daemon[d].pc = "start" /\ daemon'[d].pc = "write"
         /\ \A e \in Commands \ {d} : daemon'[e] = daemon[e]
         /\ player' = [player EXCEPT ![d] = "fork"]
         /\ \A c \in Commands : cmd'[c].todo = cmd[c].todo
         /\ UNCHANGED files /\ tight' = tight
<1>0. TypeOK /\ ProgramInv /\ DaemonInv
  BY DEF AudioInv
<1>1. /\ daemon' \in [Commands -> [pc : DaemonPcs, idx : Lines, total : Lines]]
      /\ \A e \in Commands \ {d} : daemon'[e] = daemon[e]
      /\ daemon[d].pc = "start" /\ daemon'[d].pc = "write"
      /\ issued' = issued /\ tight' = tight
  BY <1>0, AtStep DEF DaemonStart, DaemonPcs
<1>2. cmd' \in CmdType /\ \A c \in Commands : cmd'[c].todo = cmd[c].todo
  BY <1>0 DEF DaemonStart, TypeOK, CmdType
<1>3. ProgramInv'
  BY <1>1, <1>2, DaemonMoves
<1>4. /\ player' = [player EXCEPT ![d] = "fork"] /\ UNCHANGED files
      /\ player' \in [Commands -> PlayerStates]
  BY <1>0 DEF DaemonStart, TypeOK, PlayerStates
<1>5. missed' \subseteq Commands => TypeOK'
  BY <1>0, <1>1, <1>2, <1>4, ZenonT(60) DEF TypeOK, CmdType, files
<1>6. DaemonInv'
  BY <1>0, <1>1, <1>4 DEF DaemonInv, files, TypeOK
<1> QED  BY <1>1, <1>2, <1>3, <1>4, <1>5, <1>6 DEF AudioInv

\* A command is given: its number is new, so it has no daemon.
LEMMA IssueAudio ==
  ASSUME AudioInv, NEW op \in Operations, Issue(op)
  PROVE  /\ missed' \subseteq Commands => AudioInv'
         /\ issued + 1 \in Commands /\ cmd'[issued + 1].todo = Program(op)
         /\ op \in {"play", "file", "pause", "next", "prev", "shuffle", "reorder", "scan", "stop"}
         /\ \A e \in Commands \ {issued + 1} : cmd'[e] = cmd[e]
<1>0. TypeOK /\ ProgramInv /\ DaemonInv
  BY DEF AudioInv
<1>1. op \in {"play", "file", "pause", "next", "prev", "shuffle", "reorder", "scan", "stop"}
  BY AudioAssumption
<1>2. Rest(Program(op)) /\ Program(op) \in Seq(Steps)
  BY <1>1, ProgramRest DEF Rest
<1> DEFINE n == issued + 1
<1>3. n \in Commands /\ n \in 0..MaxCommands /\ issued' = n /\ n > issued
      /\ \A e \in Commands : e > n => e > issued
  BY <1>0, AudioAssumption DEF Issue, TypeOK, Commands
<1>4. cmd' = [cmd EXCEPT ![n].todo = Program(op)] /\ cmd \in CmdType
  BY <1>0 DEF Issue, TypeOK, CmdType
<1> HIDE DEF n
<1>5. /\ cmd' \in CmdType /\ cmd'[n].todo = Program(op)
      /\ \A e \in Commands \ {n} : cmd'[e] = cmd[e]
  BY <1>2, <1>3, <1>4 DEF CmdType
<1>6. UNCHANGED <<files, daemon, player>> /\ tight' \in BOOLEAN
  BY DEF Issue
<1>7. ProgramInv'
  <2> SUFFICES ASSUME NEW e \in Commands
               PROVE  /\ Rest(cmd'[e].todo)
                      /\ Busy(e)' => daemon[e].pc = "none"
                      /\ e > n => ~Busy(e)' /\ daemon[e].pc = "none"
    BY <1>3, <1>6 DEF ProgramInv
  <2>1. CASE e = n
    <3>1. ~(e > n)
      BY <1>3, <2>1 DEF Commands
    <3> QED  BY <1>0, <1>2, <1>3, <1>5, <2>1, <3>1 DEF ProgramInv
  <2>2. CASE e # n
    BY <1>0, <1>3, <1>5, <2>2 DEF ProgramInv, Busy
  <2> QED  BY <2>1, <2>2
<1>8. missed' \subseteq Commands => TypeOK'
  BY <1>0, <1>3, <1>5, <1>6, ZenonT(60) DEF TypeOK, CmdType, files
<1>9. DaemonInv'
  BY <1>0, <1>6 DEF DaemonInv, files
<1> QED  BY <1>1, <1>3, <1>5, <1>7, <1>8, <1>9 DEF AudioInv, n

\* A track is over: the player of a daemon ends.
LEMMA PlayerEndsAudio ==
  ASSUME AudioInv, NEW d \in Commands, PlayerEnds(d)
  PROVE  missed' \subseteq Commands => AudioInv'
<1>0. TypeOK /\ ProgramInv /\ DaemonInv
  BY DEF AudioInv
<1>1. player' \in [Commands -> PlayerStates] /\ tight' \in BOOLEAN
  BY <1>0 DEF PlayerEnds, TypeOK, PlayerStates
<1>2. UNCHANGED <<files, cmd, issued, daemon>>
  BY DEF PlayerEnds
<1>3. missed' \subseteq Commands => TypeOK'
  BY <1>0, <1>1, <1>2, ZenonT(60) DEF TypeOK, files
<1>4. ProgramInv' /\ DaemonInv'
  BY <1>0, <1>2 DEF ProgramInv, DaemonInv, Busy, files
<1> QED  BY <1>3, <1>4 DEF AudioInv

\* The player becomes mpg123 or aplay.
LEMMA PlayerExecsAudio ==
  ASSUME AudioInv, NEW d \in Commands, PlayerExecs(d)
  PROVE  AudioInv'
<1>0. TypeOK /\ ProgramInv /\ DaemonInv
  BY DEF AudioInv
<1>1. player' \in [Commands -> PlayerStates]
  BY <1>0 DEF PlayerExecs, TypeOK, PlayerStates
<1>2. UNCHANGED <<files, cmd, issued, daemon, tight, missed>>
  BY DEF PlayerExecs
<1>3. TypeOK'
  BY <1>0, <1>1, <1>2, ZenonT(60) DEF TypeOK, files
<1>4. ProgramInv' /\ DaemonInv'
  BY <1>0, <1>2 DEF ProgramInv, DaemonInv, Busy, files
<1> QED  BY <1>3, <1>4 DEF AudioInv

\* Who was passed over is a player.
LEMMA MissedType ==
  ASSUME TypeOK, Next
  PROVE  missed' \subseteq Commands
<1>1. missed \subseteq Commands
  BY DEF TypeOK
<1>2. \/ missed' = missed
      \/ \E c \in Commands : Pkill(c)
      \/ \E d \in Commands : DaemonStart(d)
  BY DEF Next, Issue, Command, Daemon, PlayerExecs, PlayerEnds
<1> QED  BY <1>1, <1>2 DEF Pkill, DaemonStart

\* The inductive invariant behind the types.
THEOREM AudioInductive == Spec => []AudioInv
<1>1. ASSUME Init PROVE AudioInv
  <2>1. Rest(<<>>) /\ <<>> \in Seq(Steps)
    BY EmptySeq DEF Rest
  <2>2. TypeOK
    <3>1. issued \in 0..MaxCommands /\ index \in Lines /\ playlist \in Lines
      BY <1>1, AudioAssumption, WithinLines DEF Init
    <3> QED  BY <1>1, <2>1, <3>1 DEF Init, TypeOK, DaemonPcs, PlayerStates
  <2>3. ProgramInv /\ DaemonInv
    BY <1>1, <2>1 DEF Init, ProgramInv, DaemonInv, Busy
  <2> QED  BY <2>2, <2>3 DEF AudioInv
<1>2. ASSUME AudioInv, [Next]_vars PROVE AudioInv'
  <2>0. Next => missed' \subseteq Commands
    BY <1>2, MissedType DEF AudioInv
  <2>1. ASSUME Next, NEW op \in Operations, Issue(op) PROVE AudioInv'
    BY <1>2, <2>0, <2>1, IssueAudio
  <2>2. ASSUME Next, NEW c \in Commands, Command(c) PROVE AudioInv'
    BY <1>2, <2>0, <2>2, QuietStepAudio, KillDaemonAudio, SpawnAudio, ToggleAudio, SkipAudio DEF Command
  <2>3. ASSUME Next, NEW d \in Commands, Daemon(d) PROVE AudioInv'
    BY <1>2, <2>0, <2>3, PlainDaemonAudio, DaemonTopAudio, DaemonStartAudio DEF Daemon
  <2>4. ASSUME Next, NEW d \in Commands, PlayerExecs(d) \/ PlayerEnds(d) PROVE AudioInv'
    BY <1>2, <2>0, <2>4, PlayerExecsAudio, PlayerEndsAudio
  <2>5. CASE UNCHANGED vars
    BY <1>2, <2>5 DEF AudioInv, TypeOK, ProgramInv, DaemonInv, Busy, vars, files
  <2> QED  BY <1>2, <2>1, <2>2, <2>3, <2>4, <2>5 DEF Next
<1> QED  BY <1>1, <1>2, PTL DEF Spec

\* Every variable keeps its type, whatever commands overlap: no index leaves the
\* playlist (next, prev, the daemon's division), no pid is anybody else's.
THEOREM AudioTypeCorrect == Spec => []TypeOK
<1>1. AudioInv => TypeOK
  BY DEF AudioInv
<1> QED  BY <1>1, AudioInductive, PTL

-----------------------------------------------------------------------------
(* No player without a daemon.                                             *)

Sweep == \E c \in Commands : Pending(c, "pkill")

\* After the daemon was killed the sweep over the players is still to come.
LEMMA SweepAhead ==
  ASSUME NEW t, Rest(t), t # <<>>, Head(t) \in {"rm_daemon", "pkill"}
  PROVE  \E i \in 1..Len(t) : t[i] = "pkill"
<1>1. t \in Seq(Steps) /\ Len(t) \in Nat \ {0} /\ Head(t) = t[1]
  BY EmptySeq DEF Rest
<1>2. CASE Head(t) = "pkill"
  BY <1>1, <1>2
<1>3. CASE Head(t) = "rm_daemon"
  <2>1. Tail(t) # <<>>
    BY <1>3, TailRest DEF Goals
  <2>2. Head(Tail(t)) = "pkill"
    BY <1>3, <2>1, TailRest DEF Follows
  <2>3. Len(t) >= 2 /\ Head(Tail(t)) = t[2]
    BY <1>1, <2>1, EmptySeq, HeadTailProperties
  <2> QED  BY <1>1, <2>2, <2>3
<1> QED  BY <1>2, <1>3

\* A command whose step is its last has no sweep to come.
LEMMA NothingAhead ==
  ASSUME TypeOK, ProgramInv, NEW c \in Commands, Busy(c),
         Step(c) \in {"pause", "next", "prev", "reorder"}
  PROVE  ~Pending(c, "pkill")
<1> DEFINE t == cmd[c].todo
<1>1. Tail(t) = <<>>
  BY ThenRest DEF Follows, Then
<1>2. t \in Seq(Steps) /\ t # <<>> /\ Head(t) # "pkill" /\ Len(Tail(t)) = 0
  BY <1>1, EmptySeq DEF TypeOK, Busy, Step
<1>3. ASSUME \E i \in 1..Len(t) : t[i] = "pkill" PROVE FALSE
  <2>1. \E i \in 1..Len(Tail(t)) : Tail(t)[i] = "pkill"
    BY <1>2, <1>3, TailHas
  <2> QED  BY <1>2, <2>1
<1> QED  BY <1>3 DEF Pending

\* A sweep that was to come is still to come after any step but the sweep itself.
LEMMA StillAhead ==
  ASSUME TypeOK, ProgramInv, NEW c \in Commands, Busy(c), Step(c) # "pkill", Sweep,
         \A e \in Commands \ {c} : cmd'[e] = cmd[e],
         \/ cmd'[c].todo = Then(c)
         \/ cmd'[c].todo = Skip2(c) /\ Step(c) \in {"kill_player", "kill_daemon"}
         \/ Step(c) \in {"pause", "next", "prev", "reorder"}
  PROVE  Sweep'
<1> DEFINE t == cmd[c].todo
<1>1. PICK e \in Commands : Pending(e, "pkill")
  BY DEF Sweep
<1>2. CASE e # c
  BY <1>1, <1>2 DEF Sweep, Pending
<1>3. CASE e = c
  <2>1. t \in Seq(Steps) /\ t # <<>> /\ Head(t) # "pkill" /\ \E i \in 1..Len(t) : t[i] = "pkill"
    BY <1>1, <1>3 DEF TypeOK, Busy, Step, Pending
  <2>2. \E i \in 1..Len(Then(c)) : Then(c)[i] = "pkill"
    BY <2>1, TailHas DEF Then
  <2>3. Step(c) \notin {"pause", "next", "prev", "reorder"}
    BY <1>1, <1>3, NothingAhead
  <2>4. CASE cmd'[c].todo = Then(c)
    BY <2>2, <2>4 DEF Sweep, Pending
  <2>5. CASE cmd'[c].todo = Skip2(c) /\ Step(c) \in {"kill_player", "kill_daemon"}
    <3>1. Then(c) # <<>> /\ Head(Then(c)) # "pkill" /\ Then(c) \in Seq(Steps)
      BY <2>5, SkipRest DEF Rest
    <3>2. Skip2(c) = Tail(Then(c))
      BY DEF Skip2, Then
    <3>3. \E i \in 1..Len(Skip2(c)) : Skip2(c)[i] = "pkill"
      <4>1. \E i \in 1..Len(Tail(Then(c))) : Tail(Then(c))[i] = "pkill"
        BY <2>2, <3>1, TailHas
      <4> QED  BY <3>2, <4>1
    <3> QED  BY <2>5, <3>3 DEF Sweep, Pending
  <2> QED  BY <2>3, <2>4, <2>5
<1> QED  BY <1>2, <1>3

\* A step of a command leaves no player behind.
LEMMA CommandOrphan ==
  ASSUME AudioInv, OrphanInv, NEW c \in Commands, Command(c)
  PROVE  OrphanInv'
<1>0. TypeOK /\ ProgramInv /\ DaemonInv /\ PlayerInv /\ NoOrphan
  BY DEF AudioInv, OrphanInv
<1>1. NoOrphan <=> \A d \in Commands : player[d] # "none" /\ daemon[d].pc = "dead"
                                        => d \in missed \/ Sweep
  BY DEF NoOrphan, Sweep
<1>2. NoOrphan' <=> \A d \in Commands : player'[d] # "none" /\ daemon'[d].pc = "dead"
                                         => d \in missed' \/ Sweep'
  BY DEF NoOrphan, Sweep
<1>3. CASE Pkill(c)
  BY <1>0, <1>2, <1>3 DEF OrphanInv, PlayerInv, Pkill
<1>4. CASE KillDaemon(c)
  <2>1. PICK r : Do(c, "kill_daemon", r) /\ r \in {Then(c), Skip2(c)}
    BY <1>4 DEF KillDaemon
  <2>2. Rest(r) /\ r # <<>> /\ Head(r) \in {"rm_daemon", "pkill"}
    BY <1>0, <2>1, SkipRest DEF Do, Step, Busy
  <2>3. cmd'[c].todo = r
    BY <1>0, <2>1, <2>2, DoStep
  <2>4. Sweep'
    BY <2>2, <2>3, SweepAhead DEF Sweep, Pending
  <2>5. /\ player' = player
        /\ \A d \in Commands : daemon'[d].pc \in {daemon[d].pc, "dead"}
    BY <1>0, <1>4 DEF KillDaemon, TypeOK
  <2> QED  BY <1>0, <1>2, <2>4, <2>5 DEF OrphanInv, PlayerInv
<1>5. CASE Spawn(c)
  <2>1. Do(c, "spawn", Then(c)) /\ Busy(c) /\ Step(c) = "spawn"
    BY <1>5 DEF Spawn, Do, Busy, Step
  <2>2. cmd'[c].todo = Then(c) /\ daemon[c].pc = "none" /\ \A e \in Commands \ {c} : cmd'[e] = cmd[e]
    BY <1>0, <2>1, ThenRest, DoStep
  <2>3. Sweep => Sweep'
    BY <1>0, <2>1, <2>2, StillAhead
  <2>4. player' = player /\ daemon'[c].pc = "pidfile" /\ \A d \in Commands \ {c} : daemon'[d] = daemon[d]
    BY <1>0, <1>5 DEF Spawn, TypeOK
  <2>5. missed' = missed
    BY <1>5 DEF Command, Pkill, Spawn, Do
  <2> QED  BY <1>0, <1>1, <1>2, <2>2, <2>3, <2>4, <2>5 DEF OrphanInv, PlayerInv
<1>6. CASE ~Pkill(c) /\ ~KillDaemon(c) /\ ~Spawn(c)
  <2>1. daemon' = daemon /\ \A d \in Commands : player'[d] # "none" => player[d] # "none"
    BY <1>0, <1>6 DEF Command, WriteStatus, KillPlayer, Remove, Ensure, PauseToggle, PauseStarts,
       Signal, Halted, Resumed, PlayArgument, Next_, Prev, Skip, Reorder, Shuffle, Scan, TypeOK
  <2>2. Sweep => Sweep'
    <3>1. CASE PauseToggle(c)
      BY <1>0, <3>1, ToggleStep, StillAhead
    <3>2. CASE Next_(c) \/ Prev(c) \/ Reorder(c)
      BY <1>0, <3>2, SkipAudio, StillAhead
    <3>3. CASE PauseStarts(c)
      <4>1. Do(c, "pause", start_playback)
        BY <3>3 DEF PauseStarts
      <4>2. Busy(c) /\ Step(c) = "pause" /\ \A e \in Commands \ {c} : cmd'[e] = cmd[e]
        BY <1>0, <4>1, StartRest, DoStep
      <4> QED  BY <1>0, <4>2, StillAhead
    <3>4. CASE KillPlayer(c)
      <4>1. PICK r : Do(c, "kill_player", r) /\ r \in {Then(c), Skip2(c)}
        BY <3>4 DEF KillPlayer
      <4>2. Rest(r)
        BY <1>0, <4>1, SkipRest DEF Do, Step, Busy
      <4>3. /\ Busy(c) /\ Step(c) = "kill_player" /\ cmd'[c].todo = r
            /\ \A e \in Commands \ {c} : cmd'[e] = cmd[e]
        BY <1>0, <4>1, <4>2, DoStep
      <4> QED  BY <1>0, <4>1, <4>3, StillAhead
    <3>5. CASE ~(\/ PauseToggle(c) \/ Next_(c) \/ Prev(c) \/ Reorder(c) \/ PauseStarts(c)
                 \/ KillPlayer(c))
      <4>1. PICK s : Do(c, s, Then(c)) /\ s # "pkill"
        BY <1>6, <3>5 DEF Command, WriteStatus, Remove, Ensure, Signal, PlayArgument, Shuffle, Scan
      <4>2. Busy(c)
        BY <4>1 DEF Do, Busy
      <4>3. /\ Step(c) = s /\ cmd'[c].todo = Then(c)
            /\ \A e \in Commands \ {c} : cmd'[e] = cmd[e]
        BY <1>0, <4>1, <4>2, ThenRest, DoStep
      <4> QED  BY <1>0, <4>1, <4>2, <4>3, StillAhead
    <3> QED  BY <3>1, <3>2, <3>3, <3>4, <3>5
  <2>3. missed' = missed
    BY <1>6 DEF Command
  <2> QED  BY <1>0, <1>1, <1>2, <2>1, <2>2, <2>3 DEF OrphanInv, PlayerInv
<1> QED  BY <1>3, <1>4, <1>5, <1>6

\* Nor does a step of a daemon: it leaves its loop only without a player.
LEMMA DaemonOrphan ==
  ASSUME AudioInv, OrphanInv, NEW d \in Commands, Daemon(d)
  PROVE  OrphanInv'
<1>0. TypeOK /\ ProgramInv /\ DaemonInv /\ PlayerInv /\ NoOrphan
  BY DEF AudioInv, OrphanInv
<1>1. (\A c \in Commands : cmd'[c].todo = cmd[c].todo) => (Sweep <=> Sweep')
  BY DEF Sweep, Pending
<1>2. NoOrphan <=> \A e \in Commands : player[e] # "none" /\ daemon[e].pc = "dead"
                                        => e \in missed \/ Sweep
  BY DEF NoOrphan, Sweep
<1>3. NoOrphan' <=> \A e \in Commands : player'[e] # "none" /\ daemon'[e].pc = "dead"
                                         => e \in missed' \/ Sweep'
  BY DEF NoOrphan, Sweep
<1>4. CASE DaemonStart(d)
  <2>1. /\ daemon'[d].pc = "write" /\ \A e \in Commands \ {d} : daemon'[e] = daemon[e]
        /\ player' = [player EXCEPT ![d] = "fork"]
        /\ \A c \in Commands : cmd'[c].todo = cmd[c].todo
    BY <1>4, DaemonStartAudio
  <2>2. \A e \in Commands \ {d} : player'[e] = player[e]
    BY <1>0, <2>1 DEF TypeOK
  <2>3. missed' = missed \ {d}
    BY <1>4 DEF DaemonStart
  <2> QED  BY <1>0, <1>1, <1>2, <1>3, <2>1, <2>2, <2>3 DEF OrphanInv, PlayerInv
<1>5. CASE DaemonTop(d) /\ missed' = missed
  <2>1. /\ daemon[d].pc = "top" /\ daemon'[d].pc \in {"exit", "track"}
        /\ \A e \in Commands \ {d} : daemon'[e] = daemon[e]
    BY <1>5, DaemonTopAudio
  <2>2. player' = player /\ cmd' = cmd
    BY <1>5 DEF DaemonTop
  <2> QED  BY <1>0, <1>1, <1>2, <1>3, <1>5, <2>1, <2>2 DEF OrphanInv, PlayerInv
<1>6. CASE /\ \/ DaemonEnter(d) \/ DaemonTrack(d) \/ DaemonWrite(d) \/ DaemonWait(d)
              \/ DaemonCheck(d) \/ DaemonNext(d) \/ DaemonExit(d)
           /\ missed' = missed
  <2>1. player' = player /\ cmd' = cmd
    BY <1>6 DEF DaemonEnter, DaemonTrack, DaemonWrite, DaemonWait, DaemonCheck, DaemonNext,
                DaemonExit
  <2>2. PICK from \in DaemonPcs, to \in DaemonPcs :
          /\ At(d, from, to)
          /\ \/ from \notin {"write", "wait", "dead"}
             \/ from = "write" /\ to = "wait"
             \/ player[d] = "none"
    BY <1>6 DEF DaemonEnter, DaemonTrack, DaemonWrite, DaemonWait, DaemonCheck, DaemonNext,
                DaemonExit, DaemonPcs
  <2>3. /\ \A e \in Commands \ {d} : daemon'[e] = daemon[e]
        /\ daemon[d].pc = from /\ daemon'[d].pc = to
    BY <1>0, <2>2, AtStep
  <2> QED  BY <1>0, <1>1, <1>2, <1>3, <1>6, <2>1, <2>2, <2>3 DEF OrphanInv, PlayerInv
<1> QED  BY <1>4, <1>5, <1>6 DEF Daemon

\* Whatever commands overlap, a player whose daemon is dead is about to be swept away,
\* or a sweep has passed it over before it had the name it goes by.
THEOREM NoOrphanCorrect == Spec => []NoOrphan
<1>1. ASSUME Init PROVE OrphanInv
  BY <1>1 DEF Init, OrphanInv, PlayerInv, NoOrphan
<1>2. ASSUME AudioInv, OrphanInv, [Next]_vars PROVE OrphanInv'
  <2>1. ASSUME NEW op \in Operations, Issue(op) PROVE OrphanInv'
    <3>1. UNCHANGED <<daemon, player, missed>>
      BY <2>1 DEF Issue
    <3>2. \A e \in Commands : Pending(e, "pkill") => Pending(e, "pkill")'
      <4> SUFFICES ASSUME NEW e \in Commands, Pending(e, "pkill") PROVE Pending(e, "pkill")'
        OBVIOUS
      <4>1. cmd[e].todo # <<>>
        BY EmptySeq DEF Pending
      <4>2. e # issued + 1
        <5>1. issued \in Nat
          BY <1>2 DEF AudioInv, TypeOK
        <5> QED  BY <1>2, <4>1, <5>1 DEF AudioInv, ProgramInv, Busy
      <4>3. cmd'[e] = cmd[e]
        BY <1>2, <2>1, <4>2, IssueAudio
      <4> QED  BY <4>3 DEF Pending
    <3> QED  BY <1>2, <3>1, <3>2 DEF OrphanInv, PlayerInv, NoOrphan
  <2>2. ASSUME NEW c \in Commands, Command(c) PROVE OrphanInv'
    BY <1>2, <2>2, CommandOrphan
  <2>3. ASSUME NEW d \in Commands, Daemon(d) PROVE OrphanInv'
    BY <1>2, <2>3, DaemonOrphan
  <2>4. ASSUME NEW d \in Commands, PlayerExecs(d) \/ PlayerEnds(d) PROVE OrphanInv'
    <3>1. /\ daemon' = daemon /\ cmd' = cmd /\ missed' = missed
          /\ \A e \in Commands : player'[e] # "none" => player[e] # "none"
      BY <1>2, <2>4 DEF PlayerExecs, PlayerEnds, AudioInv, TypeOK
    <3> QED  BY <1>2, <3>1 DEF OrphanInv, PlayerInv, NoOrphan, Pending
  <2>5. CASE UNCHANGED vars
    BY <1>2, <2>5 DEF OrphanInv, PlayerInv, NoOrphan, Pending, vars
  <2> QED  BY <1>2, <2>1, <2>2, <2>3, <2>4, <2>5 DEF Next
<1>3. OrphanInv => NoOrphan
  BY DEF OrphanInv
<1> QED  BY <1>1, <1>2, <1>3, AudioInductive, PTL DEF Spec

-----------------------------------------------------------------------------
(* Commands given in peace: one voice, and PAUSED is the truth.            *)

Calm == PeaceInv /\ CommandInv /\ PauseInv

\* A step that goes on with the next one.
LEMMA ThenStep ==
  ASSUME AudioInv, NEW c \in Commands, NEW s, Do(c, s, Then(c))
  PROVE  /\ Busy(c) /\ Step(c) = s /\ Aim(c) \in Goals
         /\ \A e \in Commands : cmd'[e].pid = cmd[e].pid
         /\ \A e \in Commands \ {c} : cmd'[e] = cmd[e]
         /\ ~Busy(c)' => s = Aim(c)
         /\ Busy(c)' => Aim(c)' = Aim(c) /\ Follows(Aim(c), s, Step(c)')
<1>1. TypeOK /\ ProgramInv /\ Busy(c)
  BY DEF AudioInv, Do, Busy
<1>2. /\ Rest(Then(c)) /\ Aim(c) \in Goals
      /\ Then(c) = <<>> => Step(c) = Aim(c)
      /\ Then(c) # <<>> => Goal(Then(c)) = Aim(c) /\ Follows(Aim(c), Step(c), Head(Then(c)))
  BY <1>1, ThenRest DEF Aim
<1>3. /\ Step(c) = s /\ cmd'[c].todo = Then(c)
      /\ \A e \in Commands : cmd'[e].pid = cmd[e].pid
      /\ \A e \in Commands \ {c} : cmd'[e] = cmd[e]
  BY <1>1, <1>2, DoStep
<1>4. Busy(c)' <=> Then(c) # <<>>
  BY <1>3 DEF Busy
<1>5. Aim(c)' = Goal(Then(c)) /\ Step(c)' = Head(Then(c))
  BY <1>3 DEF Aim, Step
<1> QED  BY <1>1, <1>2, <1>3, <1>4, <1>5

\* Only the command that moves can be running afterwards.
LEMMA OnlyOne ==
  ASSUME PeaceInv, NEW c \in Commands, Busy(c), \A e \in Commands \ {c} : cmd'[e] = cmd[e]
  PROVE  \A e \in Commands \ {c} : ~Busy(e) /\ ~Busy(e)'
  BY DEF PeaceInv, Busy

\* What is left to show after a step of command c.
LEMMA CalmAfter ==
  ASSUME NEW c \in Commands, \A e \in Commands \ {c} : ~Busy(e)',
         \A d, e \in Commands : Running(d)' /\ Running(e)' => d = e,
         \A d \in Commands :
           /\ Running(d)' /\ daemon'[d].pc # "pidfile" => pidfile' = d
           /\ player'[d] # "none" => daemon'[d].pc \in {"write", "wait"}
           /\ daemon'[d].pc = "wait" /\ player'[d] # "none" => player_pidfile' = d
           /\ player_pidfile' = d => daemon'[d].pc = "wait",
         CommandAt(c)', PauseAt(c)', StopSeen' => \A e \in Commands : Waits(e)',
         ~Between(c)' => (status' = "PAUSED" <=> StopSeen')
  PROVE  Calm'
<1>1. PeaceInv'
  BY DEF PeaceInv
<1>2. CommandInv'
  BY DEF CommandInv, CommandAt, Stopping, Cleared
<1>3. PauseInv'
  BY DEF PauseInv, PauseAt, Between
<1> QED  BY <1>1, <1>2, <1>3 DEF Calm

\* A step that leaves the daemons, the players and their files alone.
LEMMA CalmQuiet ==
  ASSUME Calm, NEW c \in Commands, Busy(c), \A e \in Commands \ {c} : cmd'[e] = cmd[e],
         UNCHANGED <<status, pidfile, player_pidfile, daemon, player>>,
         ~Between(c),
         \/ ~Busy(c)'
         \/ /\ Busy(c)' /\ ~Stopping(c) /\ ~Cleared(c)
            /\ \/ Step(c)' \in {"stopped", "next", "prev", "reorder", "fill"}
               \/ /\ Step(c)' \in {"sigstop", "sigcont"}
                  /\ cmd'[c].pid = player_pidfile /\ player_pidfile # NoPid
         \/ Cleared(c) /\ Cleared(c)'
  PROVE  Calm'
<1>1. \A e \in Commands \ {c} : ~Busy(e) /\ ~Busy(e)'
  BY OnlyOne DEF Calm
<1>2. /\ \A d \in Commands : (Running(d)' <=> Running(d)) /\ (Waits(d)' <=> Waits(d))
      /\ StopSeen' <=> StopSeen
  BY DEF Running, Waits, StopSeen, Stopped
<1>3. CommandAt(c)'
  <2>1. CommandAt(c)
    BY DEF Calm, CommandInv
  <2> QED  BY <1>2, <2>1 DEF CommandAt, Stopping, Cleared
<1>4. \A e \in Commands : ~Between(e)
  BY <1>1 DEF Between
<1>5. /\ status = "PAUSED" <=> StopSeen
      /\ StopSeen => \A e \in Commands : Waits(e)
  BY <1>4 DEF Calm, PauseInv
<1>6. Cleared(c) => ~StopSeen
  BY DEF Calm, CommandInv, CommandAt, StopSeen, Stopped
<1>7. PauseAt(c)'
  BY <1>2, <1>6 DEF PauseAt, Cleared
<1>8. /\ \A d, e \in Commands : Running(d)' /\ Running(e)' => d = e
      /\ \A d \in Commands :
           /\ Running(d)' /\ daemon'[d].pc # "pidfile" => pidfile' = d
           /\ player'[d] # "none" => daemon'[d].pc \in {"write", "wait"}
           /\ daemon'[d].pc = "wait" /\ player'[d] # "none" => player_pidfile' = d
           /\ player_pidfile' = d => daemon'[d].pc = "wait"
  BY <1>2 DEF Calm, PeaceInv
<1> QED  BY <1>1, <1>2, <1>3, <1>5, <1>7, <1>8, CalmAfter

\* The step of a command that are about playlists, and the choice of pause.
LEMMA QuietCalm ==
  ASSUME AudioInv, Calm, NEW c \in Commands,
         \/ Ensure(c) \/ PlayArgument(c) \/ Shuffle(c) \/ Scan(c) \/ PauseStarts(c)
         \/ PauseToggle(c) \/ Next_(c) \/ Prev(c) \/ Reorder(c)
  PROVE  Calm'
<1>0. TypeOK /\ ProgramInv
  BY DEF AudioInv
<1>1. UNCHANGED <<status, pidfile, player_pidfile, daemon, player>>
  BY DEF Ensure, PlayArgument, Shuffle, Scan, PauseStarts, PauseToggle, Next_, Prev, Skip, Reorder,
         files
<1>2. CASE Next_(c) \/ Prev(c) \/ Reorder(c)
  <2>1. /\ Busy(c) /\ Step(c) \in {"next", "prev", "reorder"}
        /\ cmd'[c].todo \in {start_playback, <<>>}
        /\ \A e \in Commands \ {c} : cmd'[e] = cmd[e]
    BY <1>2, SkipAudio
  <2>2. ~Stopping(c) /\ ~Cleared(c) /\ ~Between(c)
    BY <2>1 DEF Stopping, Cleared, Between
  <2>3. Busy(c)' => Step(c)' = "stopped"
    BY <2>1, StartRest DEF Busy, Step
  <2> QED  BY <1>1, <2>1, <2>2, <2>3, CalmQuiet
<1>3. CASE PauseStarts(c)
  <2>1. Do(c, "pause", start_playback)
    BY <1>3 DEF PauseStarts
  <2>2. /\ Busy(c) /\ Step(c) = "pause" /\ cmd'[c].todo = start_playback
        /\ \A e \in Commands \ {c} : cmd'[e] = cmd[e]
    BY <1>0, <2>1, StartRest, DoStep
  <2>3. ~Stopping(c) /\ ~Cleared(c) /\ ~Between(c)
    BY <2>2 DEF Stopping, Cleared, Between
  <2>4. Busy(c)' /\ Step(c)' = "stopped"
    BY <2>2, StartRest DEF Busy, Step
  <2> QED  BY <1>1, <2>2, <2>3, <2>4, CalmQuiet
<1>4. CASE PauseToggle(c)
  <2>1. /\ Busy(c) /\ Step(c) = "pause" /\ Busy(c)' /\ Step(c)' \in {"sigstop", "sigcont"}
        /\ cmd'[c].pid = player_pidfile
        /\ \A e \in Commands \ {c} : cmd'[e] = cmd[e]
    BY <1>0, <1>4, ToggleStep
  <2>2. ~Stopping(c) /\ ~Cleared(c) /\ ~Between(c) /\ player_pidfile # NoPid
    BY <1>4, <2>1 DEF Stopping, Cleared, Between, PauseToggle
  <2> QED  BY <1>1, <2>1, <2>2, CalmQuiet
<1>5. CASE Ensure(c) \/ PlayArgument(c) \/ Shuffle(c) \/ Scan(c)
  <2>1. PICK s \in {"ensure", "play", "file", "shuffle", "scan", "fill"} : Do(c, s, Then(c))
    BY <1>5 DEF Ensure, PlayArgument, Shuffle, Scan
  <2>2. /\ Busy(c) /\ Step(c) = s /\ Aim(c) \in Goals
        /\ \A e \in Commands \ {c} : cmd'[e] = cmd[e]
        /\ ~Busy(c)' => s = Aim(c)
        /\ Busy(c)' => Aim(c)' = Aim(c) /\ Follows(Aim(c), s, Step(c)')
    BY <2>1, ThenStep
  <2>3. ~Stopping(c) /\ ~Between(c)
    BY <2>2 DEF Stopping, Between
  <2>4. CASE s = "ensure" /\ Aim(c) = "spawn"
    <3>1. Cleared(c) /\ Cleared(c)'
      BY <2>2, <2>4 DEF Cleared, Follows
    <3> QED  BY <1>1, <2>2, <2>3, <3>1, CalmQuiet
  <2>5. CASE ~(s = "ensure" /\ Aim(c) = "spawn")
    <3>1. ~Cleared(c)
      BY <2>2, <2>5 DEF Cleared
    <3>2. Busy(c)' => Step(c)' \in {"stopped", "next", "prev", "reorder", "fill"}
      BY <2>2, <2>5 DEF Follows
    <3> QED  BY <1>1, <2>2, <2>3, <3>1, <3>2, CalmQuiet
  <2> QED  BY <2>4, <2>5
<1> QED  BY <1>2, <1>3, <1>4, <1>5

\* The status files of stop, play and pause.
LEMMA WriteStatusCalm ==
  ASSUME AudioInv, Calm, NEW c \in Commands, WriteStatus(c)
  PROVE  Calm'
<1>1. PICK s \in {"stopped", "playing", "paused"} :
        /\ Do(c, s, Then(c))
        /\ s = "stopped" => status' = "STOPPED"
        /\ s = "playing" => status' = "PLAYING"
        /\ s = "paused" => status' = "PAUSED"
  BY DEF WriteStatus
<1>2. UNCHANGED <<pidfile, player_pidfile, daemon, player>>
  BY DEF WriteStatus
<1>3. /\ Busy(c) /\ Step(c) = s /\ Aim(c) \in Goals
      /\ \A e \in Commands \ {c} : cmd'[e] = cmd[e]
      /\ ~Busy(c)' => s = Aim(c)
      /\ Busy(c)' => Aim(c)' = Aim(c) /\ Follows(Aim(c), s, Step(c)')
  BY <1>1, ThenStep
<1>4. \A e \in Commands \ {c} : ~Busy(e) /\ ~Busy(e)'
  BY <1>3, OnlyOne DEF Calm
<1>5. /\ \A d \in Commands : (Running(d)' <=> Running(d)) /\ (Waits(d)' <=> Waits(d))
      /\ StopSeen' <=> StopSeen
  BY <1>2 DEF Running, Waits, StopSeen, Stopped
<1>6. /\ \A d, e \in Commands : Running(d)' /\ Running(e)' => d = e
      /\ \A d \in Commands :
           /\ Running(d)' /\ daemon'[d].pc # "pidfile" => pidfile' = d
           /\ player'[d] # "none" => daemon'[d].pc \in {"write", "wait"}
           /\ daemon'[d].pc = "wait" /\ player'[d] # "none" => player_pidfile' = d
           /\ player_pidfile' = d => daemon'[d].pc = "wait"
  BY <1>2, <1>5 DEF Calm, PeaceInv
<1>7. /\ CommandAt(c) /\ PauseAt(c)
      /\ StopSeen => \A e \in Commands : Waits(e)
  BY DEF Calm, CommandInv, PauseInv
<1>8. CASE s = "stopped"
  <2>1. Busy(c)' /\ Step(c)' = "kill_player"
    BY <1>3, <1>8 DEF Goals, Follows
  <2>2. \A d \in Commands : Waits(d)
    BY <1>3, <1>7, <1>8 DEF CommandAt, Stopping, Cleared
  <2>3. CommandAt(c)' /\ PauseAt(c)' /\ Between(c)'
    BY <1>1, <1>5, <1>8, <2>1, <2>2 DEF CommandAt, PauseAt, Between, Stopping, Cleared
  <2> QED  BY <1>4, <1>5, <1>6, <1>7, <2>3, CalmAfter
<1>9. CASE s = "playing" /\ Busy(c)'
  <2>1. Aim(c) = "spawn" /\ Step(c)' = "spawn"
    BY <1>3, <1>9 DEF Follows
  <2>2. Cleared(c) /\ Cleared(c)' /\ ~Stopping(c)'
    BY <1>3, <1>9, <2>1 DEF Cleared, Stopping
  <2>3. \A d \in Commands : player[d] = "none" /\ ~Running(d)
    BY <1>7, <2>2 DEF CommandAt
  <2>4. CommandAt(c)' /\ PauseAt(c)'
    BY <1>1, <1>2, <1>5, <1>9, <2>1, <2>2, <2>3 DEF CommandAt, PauseAt
  <2>5. ~StopSeen'
    BY <1>5, <2>3 DEF StopSeen, Stopped
  <2> QED  BY <1>1, <1>4, <1>5, <1>6, <1>9, <2>4, <2>5, CalmAfter
<1>10. CASE s = "playing" /\ ~Busy(c)'
  <2>1. ~StopSeen
    BY <1>3, <1>7, <1>10 DEF PauseAt
  <2>2. CommandAt(c)' /\ PauseAt(c)'
    BY <1>10 DEF CommandAt, PauseAt, Stopping, Cleared
  <2> QED  BY <1>1, <1>4, <1>5, <1>6, <1>10, <2>1, <2>2, CalmAfter
<1>11. CASE s = "paused"
  <2>1. ~Busy(c)'
    BY <1>3, <1>11 DEF Follows
  <2>2. StopSeen
    BY <1>3, <1>7, <1>11 DEF PauseAt
  <2>3. CommandAt(c)' /\ PauseAt(c)'
    BY <2>1 DEF CommandAt, PauseAt, Stopping, Cleared
  <2> QED  BY <1>1, <1>4, <1>5, <1>6, <1>7, <1>11, <2>2, <2>3, CalmAfter
<1> QED  BY <1>8, <1>9, <1>10, <1>11

\* The player is the one the file names, or there is none.
LEMMA KillPlayerCalm ==
  ASSUME AudioInv, Calm, NEW c \in Commands, KillPlayer(c)
  PROVE  Calm'
<1>0. TypeOK /\ ProgramInv
  BY DEF AudioInv
<1>1. PICK r : /\ Do(c, "kill_player", r)
               /\ r = IF player_pidfile = NoPid THEN Skip2(c) ELSE Then(c)
  BY DEF KillPlayer
<1>2. UNCHANGED <<status, pidfile, player_pidfile, daemon>>
  BY DEF KillPlayer, files
<1>3. /\ Rest(r) /\ r # <<>>
      /\ Head(r) = IF player_pidfile = NoPid THEN "kill_daemon" ELSE "rm_player"
  BY <1>0, <1>1, SkipRest DEF Do, Step, Busy
<1>4. /\ Busy(c) /\ Step(c) = "kill_player" /\ cmd'[c].todo = r
      /\ \A e \in Commands \ {c} : cmd'[e] = cmd[e]
  BY <1>0, <1>1, <1>3, DoStep
<1>5. Busy(c)' /\ Step(c)' = IF player_pidfile = NoPid THEN "kill_daemon" ELSE "rm_player"
  BY <1>3, <1>4 DEF Busy, Step
<1>6. \A e \in Commands \ {c} : ~Busy(e) /\ ~Busy(e)'
  BY <1>4, OnlyOne DEF Calm
<1>7. status = "STOPPED" /\ \A d \in Commands : Waits(d)
  BY <1>4 DEF Calm, CommandInv, CommandAt, Stopping, Cleared
<1>8. \A d \in Commands : player'[d] = "none"
  <2> SUFFICES ASSUME NEW d \in Commands, player[d] # "none" PROVE player_pidfile = d
    BY DEF KillPlayer
  <2>1. daemon[d].pc = "wait"
    BY <1>7 DEF Waits, Calm, PeaceInv
  <2> QED  BY <2>1 DEF Calm, PeaceInv
<1>9. /\ \A d, e \in Commands : Running(d)' /\ Running(e)' => d = e
      /\ \A d \in Commands :
           /\ Running(d)' /\ daemon'[d].pc # "pidfile" => pidfile' = d
           /\ player'[d] # "none" => daemon'[d].pc \in {"write", "wait"}
           /\ daemon'[d].pc = "wait" /\ player'[d] # "none" => player_pidfile' = d
           /\ player_pidfile' = d => daemon'[d].pc = "wait"
  BY <1>2, <1>8 DEF Calm, PeaceInv, Running
<1>10. \A d \in Commands : daemon'[d].pc \in {"none", "dead", "wait"}
  BY <1>2, <1>7 DEF Waits
<1>11. CommandAt(c)'
  BY <1>2, <1>5, <1>7, <1>8, <1>10 DEF CommandAt, Stopping, Cleared
<1>12. PauseAt(c)' /\ ~StopSeen'
  BY <1>5, <1>8 DEF PauseAt, StopSeen, Stopped
<1> QED  BY <1>2, <1>6, <1>7, <1>9, <1>11, <1>12, CalmAfter

\* The files are removed when what they name is gone.
LEMMA RemoveCalm ==
  ASSUME AudioInv, Calm, NEW c \in Commands, Remove(c)
  PROVE  Calm'
<1>1. PICK s \in {"rm_player", "rm_daemon"} :
        /\ Do(c, s, Then(c))
        /\ s = "rm_player" => player_pidfile' = NoPid /\ pidfile' = pidfile
        /\ s = "rm_daemon" => player_pidfile' = player_pidfile /\ pidfile' = NoPid
  BY DEF Remove
<1>2. UNCHANGED <<status, daemon, player>>
  BY DEF Remove
<1>3. /\ Busy(c) /\ Step(c) = s /\ Aim(c) \in Goals
      /\ \A e \in Commands \ {c} : cmd'[e] = cmd[e]
      /\ ~Busy(c)' => s = Aim(c)
      /\ Busy(c)' => Aim(c)' = Aim(c) /\ Follows(Aim(c), s, Step(c)')
  BY <1>1, ThenStep
<1>4. /\ Busy(c)' /\ (s = "rm_player" => Step(c)' = "kill_daemon")
      /\ s = "rm_daemon" => Step(c)' = "pkill"
  BY <1>3 DEF Goals, Follows
<1>5. \A e \in Commands \ {c} : ~Busy(e) /\ ~Busy(e)'
  BY <1>3, OnlyOne DEF Calm
<1>6. \A d \in Commands : d # NoPid
  BY DEF Commands, NoPid
<1>7. /\ \A d \in Commands : (Running(d)' <=> Running(d)) /\ player'[d] = "none"
      /\ status # "PAUSED" /\ CommandAt(c)
      /\ s = "rm_daemon" => \A d \in Commands : ~Running(d)
  BY <1>2, <1>3 DEF Running, Calm, CommandInv, CommandAt, Stopping, Cleared
<1>8. /\ \A d, e \in Commands : Running(d)' /\ Running(e)' => d = e
      /\ \A d \in Commands :
           /\ Running(d)' /\ daemon'[d].pc # "pidfile" => pidfile' = d
           /\ player'[d] # "none" => daemon'[d].pc \in {"write", "wait"}
           /\ daemon'[d].pc = "wait" /\ player'[d] # "none" => player_pidfile' = d
           /\ player_pidfile' = d => daemon'[d].pc = "wait"
  BY <1>1, <1>2, <1>6, <1>7 DEF Calm, PeaceInv
<1>9. CommandAt(c)'
  BY <1>1, <1>2, <1>3, <1>4, <1>7 DEF CommandAt, Stopping, Cleared
<1>10. PauseAt(c)' /\ ~StopSeen'
  BY <1>4, <1>7 DEF PauseAt, StopSeen, Stopped
<1> QED  BY <1>2, <1>5, <1>7, <1>8, <1>9, <1>10, CalmAfter

\* The daemon that runs is the one the file names, or there is none.
LEMMA KillDaemonCalm ==
  ASSUME AudioInv, Calm, NEW c \in Commands, KillDaemon(c)
  PROVE  Calm'
<1>0. TypeOK /\ ProgramInv
  BY DEF AudioInv
<1>1. PICK r : Do(c, "kill_daemon", r) /\ r \in {Skip2(c), Then(c)}
  BY DEF KillDaemon
<1>2. UNCHANGED <<status, pidfile, player_pidfile, player>>
  BY DEF KillDaemon, files
<1>3. Rest(r) /\ r # <<>> /\ Head(r) \in {"rm_daemon", "pkill"}
  BY <1>0, <1>1, SkipRest DEF Do, Step, Busy
<1>4. /\ Busy(c) /\ Step(c) = "kill_daemon" /\ cmd'[c].todo = r
      /\ \A e \in Commands \ {c} : cmd'[e] = cmd[e]
  BY <1>0, <1>1, <1>3, DoStep
<1>5. Busy(c)' /\ Step(c)' \in {"rm_daemon", "pkill"}
  BY <1>3, <1>4 DEF Busy, Step
<1>6. \A e \in Commands \ {c} : ~Busy(e) /\ ~Busy(e)'
  BY <1>4, OnlyOne DEF Calm
<1>7. /\ status = "STOPPED" /\ player_pidfile = NoPid
      /\ \A d \in Commands :
           /\ player[d] = "none"
           /\ daemon[d].pc \in {"none", "dead", "wait", "check", "exit", "exited"}
  BY <1>4 DEF Calm, CommandInv, CommandAt, Stopping
<1>8. \A d \in Commands : daemon'[d].pc = IF d = pidfile THEN "dead" ELSE daemon[d].pc
  BY <1>0 DEF KillDaemon, TypeOK
<1>9. \A d \in Commands : ~Running(d)'
  BY <1>7, <1>8 DEF Running, Calm, PeaceInv
<1>10. \A d \in Commands : d # NoPid
  BY DEF Commands, NoPid
<1>11. CommandAt(c)'
  BY <1>2, <1>5, <1>7, <1>9 DEF CommandAt, Stopping, Cleared
<1>12. PauseAt(c)' /\ ~StopSeen'
  BY <1>2, <1>5, <1>7 DEF PauseAt, StopSeen, Stopped
<1> QED  BY <1>2, <1>6, <1>7, <1>9, <1>10, <1>11, <1>12, CalmAfter

\* The sweep finds nobody, and the daemon is started when there is none.
LEMMA PkillSpawnCalm ==
  ASSUME AudioInv, Calm, NEW c \in Commands, Pkill(c) \/ Spawn(c)
  PROVE  Calm'
<1>0. TypeOK /\ ProgramInv
  BY DEF AudioInv
<1>1. PICK s \in {"pkill", "spawn"} : Do(c, s, Then(c)) /\ (s = "pkill" <=> Pkill(c))
  BY DEF Pkill, Spawn, Do
<1>2. UNCHANGED <<status, pidfile, player_pidfile>>
  BY DEF Pkill, Spawn, files
<1>3. /\ Busy(c) /\ Step(c) = s /\ Aim(c) \in Goals
      /\ \A e \in Commands \ {c} : cmd'[e] = cmd[e]
      /\ ~Busy(c)' => s = Aim(c)
      /\ Busy(c)' => Aim(c)' = Aim(c) /\ Follows(Aim(c), s, Step(c)')
  BY <1>1, ThenStep
<1>4. \A e \in Commands \ {c} : ~Busy(e) /\ ~Busy(e)'
  BY <1>3, OnlyOne DEF Calm
<1>5. status # "PAUSED" /\ \A d \in Commands : player[d] = "none" /\ ~Running(d)
  BY <1>3 DEF Calm, CommandInv, CommandAt, Cleared
<1>6. \A d \in Commands : player'[d] = "none"
  BY <1>5 DEF Pkill, Spawn
<1>7. ~StopSeen' /\ PauseAt(c)'
  BY <1>3, <1>6 DEF StopSeen, Stopped, PauseAt, Follows
<1>8. CASE s = "pkill"
  <2>1. daemon' = daemon
    BY <1>1, <1>8 DEF Pkill
  <2>2. \A d \in Commands : ~Running(d)'
    BY <1>5, <2>1 DEF Running
  <2>3. Busy(c)' => Cleared(c)' /\ ~Stopping(c)' /\ Step(c)' = "ensure"
    BY <1>3, <1>8 DEF Cleared, Stopping, Follows
  <2>4. CommandAt(c)'
    BY <1>2, <1>5, <1>6, <2>2, <2>3 DEF CommandAt, Cleared, Stopping
  <2>5. \A d \in Commands : player_pidfile' = d => daemon'[d].pc = "wait"
    BY <1>2, <2>1 DEF Calm, PeaceInv
  <2> QED  BY <1>2, <1>4, <1>5, <1>6, <1>7, <2>2, <2>4, <2>5, CalmAfter
<1>9. CASE s = "spawn"
  <2>1. Spawn(c)
    BY <1>1, <1>9
  <2>2. daemon'[c].pc = "pidfile" /\ \A d \in Commands \ {c} : daemon'[d] = daemon[d]
    BY <1>0, <2>1 DEF Spawn, TypeOK
  <2>3. ~Busy(c)'
    BY <1>3, <1>9 DEF Follows
  <2>4. daemon[c].pc = "none"
    BY <1>0, <1>3 DEF ProgramInv
  <2>5. \A d \in Commands : Running(d)' => d = c
    BY <1>5, <2>2 DEF Running
  <2>6. \A d \in Commands : player_pidfile' = d => daemon'[d].pc = "wait"
    BY <1>2, <2>2, <2>4 DEF Calm, PeaceInv
  <2>7. CommandAt(c)'
    BY <2>3 DEF CommandAt, Cleared, Stopping
  <2> QED  BY <1>2, <1>4, <1>5, <1>6, <1>7, <2>2, <2>5, <2>6, <2>7, CalmAfter
<1> QED  BY <1>8, <1>9

\* kill -STOP and -CONT reach the player there is.
LEMMA SignalCalm ==
  ASSUME AudioInv, Calm, NEW c \in Commands, Signal(c)
  PROVE  Calm'
<1>0. TypeOK /\ ProgramInv
  BY DEF AudioInv
<1> DEFINE p == cmd[c].pid
<1>1. PICK s \in {"sigstop", "sigcont"} :
        /\ Do(c, s, Then(c))
        /\ s = "sigstop" => player' = [d \in Commands |-> IF d = p THEN Halted(player[d]) ELSE player[d]]
        /\ s = "sigcont" => player' = [d \in Commands |-> IF d = p THEN Resumed(player[d]) ELSE player[d]]
  BY DEF Signal
<1>2. UNCHANGED <<status, pidfile, player_pidfile, daemon>>
  BY DEF Signal, files
<1>3. /\ Busy(c) /\ Step(c) = s /\ Aim(c) \in Goals
      /\ \A e \in Commands : cmd'[e].pid = cmd[e].pid
      /\ \A e \in Commands \ {c} : cmd'[e] = cmd[e]
      /\ ~Busy(c)' => s = Aim(c)
      /\ Busy(c)' => Aim(c)' = Aim(c) /\ Follows(Aim(c), s, Step(c)')
  BY <1>1, ThenStep
<1>4. /\ Busy(c)' /\ (s = "sigstop" => Step(c)' = "paused")
      /\ s = "sigcont" => Step(c)' = "playing" /\ Aim(c)' = "playing"
  BY <1>3 DEF Goals, Follows
<1>5. \A e \in Commands \ {c} : ~Busy(e) /\ ~Busy(e)'
  BY <1>3, OnlyOne DEF Calm
<1>6. \A d \in Commands : Waits(d)
  BY <1>3 DEF Calm, CommandInv, CommandAt, Stopping, Cleared
<1>7. p = player_pidfile /\ p \in Commands
  BY <1>0, <1>3 DEF Calm, PauseInv, PauseAt, TypeOK
<1>8. daemon[p].pc = "wait" /\ player[p] # "none"
  BY <1>6, <1>7 DEF Calm, PeaceInv, Waits
<1>9. \A d \in Commands \ {p} : player[d] = "none"
  <2> SUFFICES ASSUME NEW d \in Commands, player[d] # "none" PROVE d = p
    OBVIOUS
  <2>1. daemon[d].pc = "wait"
    BY <1>6 DEF Waits, Calm, PeaceInv
  <2> QED  BY <1>7, <2>1 DEF Calm, PeaceInv
<1> HIDE DEF p
<1>10. /\ player'[p] # "none" /\ (player'[p] \in {"held", "stop"} <=> s = "sigstop")
       /\ \A d \in Commands \ {p} : player'[d] = "none"
  <2>1. player[p] \in {"fork", "held", "run", "stop"}
    BY <1>0, <1>7, <1>8 DEF TypeOK, PlayerStates
  <2> QED  BY <1>1, <1>7, <1>9, <2>1 DEF Halted, Resumed
<1>11. \A d \in Commands : Waits(d)'
  BY <1>1, <1>2, <1>6, <1>7, <1>8, <1>9, <1>10 DEF Waits
<1>12. /\ \A d, e \in Commands : Running(d)' /\ Running(e)' => d = e
       /\ \A d \in Commands :
            /\ Running(d)' /\ daemon'[d].pc # "pidfile" => pidfile' = d
            /\ player'[d] # "none" => daemon'[d].pc \in {"write", "wait"}
            /\ daemon'[d].pc = "wait" /\ player'[d] # "none" => player_pidfile' = d
            /\ player_pidfile' = d => daemon'[d].pc = "wait"
  BY <1>2, <1>7, <1>8, <1>10 DEF Calm, PeaceInv, Running
<1>13. StopSeen' <=> s = "sigstop"
  BY <1>7, <1>10 DEF StopSeen, Stopped
<1>14. CommandAt(c)' /\ PauseAt(c)' /\ Between(c)'
  BY <1>1, <1>4, <1>11, <1>13 DEF CommandAt, PauseAt, Between, Stopping, Cleared
<1> QED  BY <1>5, <1>11, <1>12, <1>14, CalmAfter

\* While a daemon is under way no player is stopped, and a command that runs is in
\* stop_playback or past it.
LEMMA UnderWay ==
  ASSUME Calm, NEW d \in Commands, ~Waits(d)
  PROVE  /\ status # "PAUSED" /\ ~StopSeen
         /\ \A c \in Commands : Busy(c) => Stopping(c) \/ Cleared(c)
         /\ \A c \in Commands : Busy(c) => Step(c) \notin {"sigstop", "sigcont", "paused"}
         /\ Running(d) => \A c \in Commands : ~Cleared(c)
<1>1. ~StopSeen
  BY DEF Calm, PauseInv
<1>2. \A c \in Commands : Busy(c) => Stopping(c) \/ Cleared(c)
  BY DEF Calm, CommandInv, CommandAt
<1>3. \A c \in Commands : Busy(c) => Step(c) \notin {"sigstop", "sigcont", "paused", "kill_player"}
  BY <1>2 DEF Stopping, Cleared
<1>4. CASE \A c \in Commands : ~Between(c)
  BY <1>1, <1>2, <1>3, <1>4 DEF Calm, PauseInv, CommandInv, CommandAt
<1>5. CASE \E c \in Commands : Between(c)
  <2>1. PICK c \in Commands : Between(c)
    BY <1>5
  <2>2. Cleared(c)
    BY <1>2, <2>1 DEF Between, Stopping
  <2> QED  BY <1>1, <1>2, <1>3, <2>2 DEF Calm, CommandInv, CommandAt
<1> QED  BY <1>4, <1>5

\* What is left to show after a step of daemon d.
LEMMA CalmAfterDaemon ==
  ASSUME AudioInv, Calm, NEW d \in Commands, ~Waits(d), daemon'[d].pc # "pidfile",
         \A c \in Commands : cmd'[c].todo = cmd[c].todo,
         \A e \in Commands \ {d} : daemon'[e] = daemon[e] /\ player'[e] = player[e],
         status' # "PAUSED", player'[d] \notin {"held", "stop"}, daemon'[d].pc # "none",
         Running(d)' => Running(d) /\ pidfile' = d,
         \A e \in Commands \ {d} : Running(e) => pidfile' = pidfile,
         player'[d] # "none" => daemon'[d].pc \in {"write", "wait"},
         daemon'[d].pc = "wait" /\ player'[d] # "none" => player_pidfile' = d,
         player_pidfile' = d => daemon'[d].pc = "wait",
         player_pidfile' \in {player_pidfile, NoPid, d},
         \A e \in Commands \ {d} : player[e] # "none" => player_pidfile' = player_pidfile,
         \A c \in Commands : Stopping(c) =>
           /\ status' = "STOPPED" /\ player'[d] = "none"
           /\ daemon'[d].pc \in {"wait", "check", "exit", "exited", "dead"}
           /\ Step(c) = "kill_daemon" => player_pidfile' = NoPid,
         \A c \in Commands : Cleared(c) => player'[d] = "none"
  PROVE  Calm'
<1>1. /\ status # "PAUSED" /\ ~StopSeen
      /\ \A c \in Commands : Busy(c) => Stopping(c) \/ Cleared(c)
      /\ \A c \in Commands : Busy(c) => Step(c) \notin {"sigstop", "sigcont", "paused"}
      /\ Running(d) => \A c \in Commands : ~Cleared(c)
  BY UnderWay
<1>2. \A c \in Commands : /\ Busy(c)' <=> Busy(c)
                          /\ Step(c)' = Step(c)
                          /\ Aim(c)' = Aim(c)
                          /\ Stopping(c)' <=> Stopping(c)
                          /\ Cleared(c)' <=> Cleared(c)
  BY DEF Busy, Step, Aim, Stopping, Cleared
<1>3. \A e \in Commands \ {d} : Running(e)' <=> Running(e)
  BY DEF Running
<1>4. ~StopSeen'
  BY <1>1 DEF StopSeen, Stopped
<1>5. \A e \in Commands : d # NoPid /\ e # NoPid
  BY DEF Commands, NoPid
<1>6. PeaceInv'
  <2>1. \A a, b \in Commands : Running(a)' /\ Running(b)' => a = b
    BY <1>3 DEF Calm, PeaceInv
  <2>2. \A e \in Commands : Running(e)' /\ daemon'[e].pc # "pidfile" => pidfile' = e
    BY <1>3 DEF Calm, PeaceInv
  <2>3. \A e \in Commands : player'[e] # "none" => daemon'[e].pc \in {"write", "wait"}
    BY DEF Calm, PeaceInv
  <2>4. \A e \in Commands : daemon'[e].pc = "wait" /\ player'[e] # "none" => player_pidfile' = e
    BY DEF Calm, PeaceInv
  <2>5. \A e \in Commands : player_pidfile' = e => daemon'[e].pc = "wait"
    BY <1>5 DEF Calm, PeaceInv
  <2>6. \A a, b \in Commands : Busy(a)' /\ Busy(b)' => a = b
    BY <1>2 DEF Calm, PeaceInv
  <2> QED  BY <2>1, <2>2, <2>3, <2>4, <2>5, <2>6 DEF PeaceInv
<1>7. CommandInv'
  <2> SUFFICES ASSUME NEW c \in Commands PROVE CommandAt(c)'
    BY DEF CommandInv
  <2>1. CommandAt(c)
    BY DEF Calm, CommandInv
  <2>2. CASE Stopping(c)
    <3>1. Busy(c)' /\ Stopping(c)' /\ ~Cleared(c)' /\ Step(c)' # "kill_player"
      BY <1>2, <2>2 DEF Stopping, Cleared
    <3>2. \A e \in Commands :
            /\ player'[e] = "none"
            /\ daemon'[e].pc \in {"none", "dead", "wait", "check", "exit", "exited"}
      BY <2>1, <2>2 DEF CommandAt
    <3> QED  BY <1>2, <2>2, <3>1, <3>2 DEF CommandAt
  <2>3. CASE Cleared(c)
    <3>1. Busy(c)' /\ Cleared(c)' /\ ~Stopping(c)' /\ Step(c)' # "kill_player"
      BY <1>2, <2>3 DEF Stopping, Cleared
    <3>2. \A e \in Commands : player'[e] = "none" /\ ~Running(e)'
      BY <1>1, <1>3, <2>1, <2>3 DEF CommandAt
    <3> QED  BY <3>1, <3>2 DEF CommandAt
  <2>4. CASE ~Stopping(c) /\ ~Cleared(c)
    BY <1>1, <1>2, <2>4 DEF CommandAt
  <2> QED  BY <2>2, <2>3, <2>4
<1>8. PauseInv'
  BY <1>1, <1>2, <1>4 DEF PauseInv, PauseAt, Between
<1> QED  BY <1>6, <1>7, <1>8 DEF Calm

\* A daemon that runs is alone, and finds no command past the kill.
LEMMA AloneDaemon ==
  ASSUME Calm, NEW d \in Commands, Running(d)
  PROVE  /\ \A e \in Commands \ {d} : ~Running(e) /\ player[e] = "none"
         /\ daemon[d].pc # "pidfile" => pidfile = d
         /\ \A c \in Commands : ~Cleared(c)
         /\ \A c \in Commands : Stopping(c) =>
              /\ status = "STOPPED" /\ player[d] = "none"
              /\ daemon[d].pc \in {"wait", "check", "exit"}
              /\ Step(c) = "kill_daemon" => player_pidfile = NoPid
<1>1. \A e \in Commands \ {d} : ~Running(e)
  BY DEF Calm, PeaceInv
<1>2. \A e \in Commands \ {d} : player[e] = "none"
  BY <1>1 DEF Calm, PeaceInv, Running
<1>3. daemon[d].pc # "pidfile" => pidfile = d
  BY DEF Calm, PeaceInv
<1>4. \A c \in Commands : ~Cleared(c)
  BY DEF Calm, CommandInv, CommandAt
<1>5. \A c \in Commands : Stopping(c) =>
              /\ status = "STOPPED" /\ player[d] = "none"
              /\ daemon[d].pc \in {"wait", "check", "exit"}
              /\ Step(c) = "kill_daemon" => player_pidfile = NoPid
  BY DEF Calm, CommandInv, CommandAt, Running
<1> QED  BY <1>1, <1>2, <1>3, <1>4, <1>5

\* The steps of the daemon before and after its player.
LEMMA LoopCalm ==
  ASSUME AudioInv, Calm, NEW d \in Commands,
         \/ DaemonEnter(d) \/ DaemonTop(d) \/ DaemonTrack(d) \/ DaemonCheck(d) \/ DaemonNext(d)
  PROVE  Calm'
<1>0. TypeOK
  BY DEF AudioInv
<1>1. /\ daemon[d].pc \in {"pidfile", "status", "top", "track", "check", "next"}
      /\ daemon'[d].pc \in {"status", "top", "exit", "track", "start", "next", "dead"}
      /\ \A e \in Commands \ {d} : daemon'[e] = daemon[e]
  <2>1. CASE DaemonTop(d)
    BY <2>1, DaemonTopAudio
  <2>2. CASE ~DaemonTop(d)
    <3>1. PICK from \in {"pidfile", "status", "track", "check", "next"},
               to \in {"status", "top", "exit", "start", "next", "dead"} : At(d, from, to)
      BY <2>2 DEF DaemonEnter, DaemonTrack, DaemonCheck, DaemonNext
    <3>2. to \in DaemonPcs
      BY DEF DaemonPcs
    <3> QED  BY <1>0, <3>1, <3>2, AtStep
  <2> QED  BY <2>1, <2>2
<1>2. Running(d) /\ ~Waits(d)
  BY <1>1 DEF Running, Waits
<1>3. /\ \A e \in Commands \ {d} : ~Running(e) /\ player[e] = "none"
      /\ daemon[d].pc # "pidfile" => pidfile = d
      /\ \A c \in Commands : ~Cleared(c)
      /\ \A c \in Commands : Stopping(c) =>
           /\ status = "STOPPED" /\ player[d] = "none"
           /\ daemon[d].pc \in {"wait", "check", "exit"}
           /\ Step(c) = "kill_daemon" => player_pidfile = NoPid
  BY <1>2, AloneDaemon
<1>4. status # "PAUSED"
  BY <1>2, UnderWay
<1>5. /\ UNCHANGED <<player_pidfile, cmd, player>>
      /\ pidfile' = IF daemon[d].pc = "pidfile" THEN d ELSE pidfile
      /\ status' \in {status, "PLAYING", "STOPPED"}
  BY DEF DaemonEnter, DaemonTop, DaemonTrack, DaemonCheck, DaemonNext, At, files
<1>6. daemon[d].pc = "check" /\ status = "STOPPED" => daemon'[d].pc = "exit" /\ status' = status
  <2>1. ASSUME daemon[d].pc = "check", status = "STOPPED" PROVE DaemonCheck(d)
    BY <2>1 DEF DaemonEnter, DaemonTop, DaemonTrack, DaemonNext, At
  <2>2. ASSUME DaemonCheck(d), status = "STOPPED" PROVE At(d, "check", "exit") /\ status' = status
    BY <2>2 DEF DaemonCheck, files
  <2>3. ASSUME At(d, "check", "exit") PROVE daemon'[d].pc = "exit"
    BY <1>0, <2>3, AtStep DEF DaemonPcs
  <2> QED  BY <2>1, <2>2, <2>3
<1>7. player[d] = "none" /\ player_pidfile # d
  BY <1>1 DEF Calm, PeaceInv
<1>8. /\ daemon'[d].pc # "pidfile" /\ daemon'[d].pc # "none" /\ daemon'[d].pc # "wait"
      /\ status' # "PAUSED"
      /\ \A c \in Commands : cmd'[c].todo = cmd[c].todo
      /\ \A e \in Commands \ {d} : daemon'[e] = daemon[e] /\ player'[e] = player[e]
      /\ pidfile' = d /\ player'[d] = "none" /\ player_pidfile' = player_pidfile
  BY <1>1, <1>3, <1>4, <1>5, <1>7
<1>9. \A c \in Commands : Stopping(c) =>
        /\ status' = "STOPPED" /\ player'[d] = "none"
        /\ daemon'[d].pc \in {"wait", "check", "exit", "exited", "dead"}
        /\ Step(c) = "kill_daemon" => player_pidfile' = NoPid
  BY <1>1, <1>3, <1>6, <1>8
<1> QED  BY <1>2, <1>3, <1>7, <1>8, <1>9, CalmAfterDaemon

\* The player: started, written down, waited for.
LEMMA PlayerCalm ==
  ASSUME AudioInv, Calm, NEW d \in Commands, DaemonStart(d) \/ DaemonWrite(d) \/ DaemonWait(d)
  PROVE  Calm'
<1>0. TypeOK
  BY DEF AudioInv
<1>1. /\ \A e \in Commands \ {d} : daemon'[e] = daemon[e]
      /\ \A c \in Commands : cmd'[c].todo = cmd[c].todo
      /\ UNCHANGED <<status, pidfile>>
      /\ \/ /\ daemon[d].pc = "start" /\ daemon'[d].pc = "write" /\ player_pidfile' = player_pidfile
            /\ player' = [player EXCEPT ![d] = "fork"]
         \/ /\ daemon[d].pc = "write" /\ daemon'[d].pc = "wait" /\ player_pidfile' = d
            /\ player' = player
         \/ /\ daemon[d].pc = "wait" /\ daemon'[d].pc = "check" /\ player_pidfile' = NoPid
            /\ player' = player /\ player[d] = "none"
  <2>1. CASE DaemonStart(d)
    BY <2>1, DaemonStartAudio DEF files
  <2>2. CASE DaemonWrite(d)
    BY <1>0, <2>2, AtStep DEF DaemonWrite, DaemonPcs
  <2>3. CASE DaemonWait(d)
    BY <1>0, <2>3, AtStep DEF DaemonWait, DaemonPcs
  <2> QED  BY <2>1, <2>2, <2>3
<1>2. Running(d) /\ ~Waits(d)
  BY <1>1 DEF Running, Waits
<1>3. /\ \A e \in Commands \ {d} : ~Running(e) /\ player[e] = "none"
      /\ pidfile = d
      /\ \A c \in Commands : ~Cleared(c)
      /\ \A c \in Commands : Stopping(c) =>
           /\ status = "STOPPED" /\ player[d] = "none"
           /\ daemon[d].pc \in {"wait", "check", "exit"}
           /\ Step(c) = "kill_daemon" => player_pidfile = NoPid
  BY <1>1, <1>2, AloneDaemon
<1>4. status # "PAUSED" /\ player[d] \notin {"held", "stop"}
  BY <1>2, UnderWay DEF StopSeen, Stopped
<1>5. d # NoPid
  BY DEF Commands, NoPid
<1>6. daemon[d].pc # "wait" => player_pidfile # d
  BY DEF Calm, PeaceInv
<1>7. /\ \A e \in Commands \ {d} : player'[e] = player[e]
      /\ player'[d] \in {player[d], "fork"}
  BY <1>0, <1>1 DEF TypeOK
<1>8. /\ daemon'[d].pc # "pidfile" /\ daemon'[d].pc # "none" /\ status' # "PAUSED"
      /\ player'[d] \notin {"held", "stop"} /\ pidfile' = d
      /\ player'[d] # "none" => daemon'[d].pc \in {"write", "wait"}
      /\ daemon'[d].pc = "wait" /\ player'[d] # "none" => player_pidfile' = d
      /\ player_pidfile' = d => daemon'[d].pc = "wait"
      /\ player_pidfile' \in {player_pidfile, NoPid, d}
  BY <1>1, <1>3, <1>4, <1>5, <1>6, <1>7
<1>9. \A c \in Commands : Stopping(c) =>
        /\ status' = "STOPPED" /\ player'[d] = "none"
        /\ daemon'[d].pc \in {"wait", "check", "exit", "exited", "dead"}
        /\ Step(c) = "kill_daemon" => player_pidfile' = NoPid
  BY <1>1, <1>3, <1>7
<1>10. \A e \in Commands \ {d} : daemon'[e] = daemon[e] /\ player'[e] = player[e]
  BY <1>1, <1>7
<1> QED  BY <1>1, <1>2, <1>3, <1>8, <1>9, <1>10, CalmAfterDaemon

\* The end of the daemon: it removes the files that named it.
LEMMA ExitCalm ==
  ASSUME AudioInv, Calm, NEW d \in Commands, DaemonExit(d)
  PROVE  Calm'
<1>0. TypeOK
  BY DEF AudioInv
<1>1. /\ \A e \in Commands \ {d} : daemon'[e] = daemon[e]
      /\ UNCHANGED <<cmd, player>>
      /\ \/ /\ daemon[d].pc = "exit" /\ daemon'[d].pc = "exited" /\ status' = status
            /\ pidfile' = NoPid /\ player_pidfile' = NoPid
         \/ /\ daemon[d].pc = "exited" /\ daemon'[d].pc = "dead" /\ status' = "STOPPED"
            /\ UNCHANGED <<pidfile, player_pidfile>>
  BY <1>0, AtStep DEF DaemonExit, DaemonPcs
<1>2. ~Waits(d) /\ ~Running(d)' /\ (daemon[d].pc = "exit" => Running(d))
  BY <1>1 DEF Running, Waits
<1>3. daemon[d].pc = "exit" => \A e \in Commands \ {d} : ~Running(e) /\ player[e] = "none"
  BY <1>2, AloneDaemon
<1>4. status # "PAUSED" /\ player[d] = "none" /\ player_pidfile # d
  BY <1>1, <1>2, UnderWay DEF Calm, PeaceInv
<1>5. d # NoPid
  BY DEF Commands, NoPid
<1>6. \A c \in Commands : Stopping(c) =>
        /\ status' = "STOPPED" /\ player'[d] = "none"
        /\ daemon'[d].pc \in {"wait", "check", "exit", "exited", "dead"}
        /\ Step(c) = "kill_daemon" => player_pidfile' = NoPid
  BY <1>1, <1>4 DEF Calm, CommandInv, CommandAt
<1>7. /\ daemon'[d].pc # "pidfile" /\ daemon'[d].pc # "none" /\ status' # "PAUSED"
      /\ player'[d] = "none" /\ player_pidfile' # d
      /\ player_pidfile' \in {player_pidfile, NoPid, d}
      /\ \A e \in Commands \ {d} : Running(e) => pidfile' = pidfile
      /\ \A e \in Commands \ {d} : player[e] # "none" => player_pidfile' = player_pidfile
      /\ \A e \in Commands \ {d} : daemon'[e] = daemon[e] /\ player'[e] = player[e]
      /\ \A c \in Commands : cmd'[c].todo = cmd[c].todo
  BY <1>1, <1>3, <1>4, <1>5
<1> QED  BY <1>2, <1>6, <1>7, CalmAfterDaemon

\* Settled: no command runs, and every daemon waits.
LEMMA SettledWaits ==
  ASSUME Settled
  PROVE  \A c \in Commands : ~Busy(c) /\ Waits(c)
  BY DEF Settled, Busy, Waits

\* A command that is given when all has settled.
LEMMA IssueCalm ==
  ASSUME AudioInv, Calm, NEW op \in Operations, Issue(op), Settled
  PROVE  Calm'
<1>1. PICK n \in Commands :
        /\ cmd'[n].todo = Program(op)
        /\ op \in {"play", "file", "pause", "next", "prev", "shuffle", "reorder", "scan", "stop"}
        /\ \A e \in Commands \ {n} : cmd'[e] = cmd[e]
  BY IssueAudio
<1>2. /\ Busy(n)' /\ Step(n)' \in {"play", "file", "stopped", "ensure", "scan", "pause", "shuffle"}
      /\ Step(n)' = "ensure" => Aim(n)' # "spawn"
  BY <1>1, ProgramRest DEF Busy, Step, Aim
<1>3. \A c \in Commands : ~Busy(c) /\ Waits(c)
  BY SettledWaits
<1>4. \A e \in Commands \ {n} : ~Busy(e)'
  BY <1>1, <1>3 DEF Busy
<1>5. UNCHANGED <<status, pidfile, player_pidfile, daemon, player>>
  BY DEF Issue, files
<1>6. /\ \A d \in Commands : (Running(d)' <=> Running(d)) /\ Waits(d)'
      /\ StopSeen' <=> StopSeen
  BY <1>3, <1>5 DEF Running, Waits, StopSeen, Stopped
<1>7. /\ \A d, e \in Commands : Running(d)' /\ Running(e)' => d = e
      /\ \A d \in Commands :
           /\ Running(d)' /\ daemon'[d].pc # "pidfile" => pidfile' = d
           /\ player'[d] # "none" => daemon'[d].pc \in {"write", "wait"}
           /\ daemon'[d].pc = "wait" /\ player'[d] # "none" => player_pidfile' = d
           /\ player_pidfile' = d => daemon'[d].pc = "wait"
  BY <1>5, <1>6 DEF Calm, PeaceInv
<1>8. CommandAt(n)' /\ PauseAt(n)'
  BY <1>2, <1>6 DEF CommandAt, PauseAt, Stopping, Cleared
<1>9. status = "PAUSED" <=> StopSeen
  BY <1>3 DEF Calm, PauseInv, Between
<1> QED  BY <1>1, <1>4, <1>5, <1>6, <1>7, <1>8, <1>9, CalmAfter

\* A track that ends when all has settled.
LEMMA PlayerEndsCalm ==
  ASSUME AudioInv, Calm, NEW d \in Commands, PlayerEnds(d), Settled
  PROVE  Calm'
<1>1. \A c \in Commands : ~Busy(c) /\ Waits(c)
  BY SettledWaits
<1>2. UNCHANGED <<status, pidfile, player_pidfile, daemon, cmd>>
  BY DEF PlayerEnds, files
<1>3. /\ player[d] \in {"fork", "run"} /\ player'[d] = "none"
      /\ \A e \in Commands \ {d} : player'[e] = player[e]
  BY DEF PlayerEnds, AudioInv, TypeOK
<1>4. \A c \in Commands : ~Busy(c)' /\ (Running(c)' <=> Running(c))
  BY <1>1, <1>2 DEF Busy, Running
<1>5. \A e \in Commands \ {d} : player[e] = "none"
  BY <1>3, AloneDaemon DEF Calm, PeaceInv, Running
<1>6. ~StopSeen /\ ~StopSeen'
  BY <1>3, <1>5 DEF StopSeen, Stopped
<1>7. /\ \A a, e \in Commands : Running(a)' /\ Running(e)' => a = e
      /\ \A a \in Commands :
           /\ Running(a)' /\ daemon'[a].pc # "pidfile" => pidfile' = a
           /\ player'[a] # "none" => daemon'[a].pc \in {"write", "wait"}
           /\ daemon'[a].pc = "wait" /\ player'[a] # "none" => player_pidfile' = a
           /\ player_pidfile' = a => daemon'[a].pc = "wait"
  BY <1>2, <1>3, <1>4 DEF Calm, PeaceInv
<1>8. CommandAt(d)' /\ PauseAt(d)'
  BY <1>4 DEF CommandAt, PauseAt, Stopping, Cleared
<1>9. status # "PAUSED"
  BY <1>1, <1>6 DEF Calm, PauseInv, Between
<1> QED  BY <1>2, <1>4, <1>6, <1>7, <1>8, <1>9, CalmAfter

\* The exec of a player changes nothing that is told apart here.
LEMMA PlayerExecsCalm ==
  ASSUME AudioInv, Calm, NEW d \in Commands, PlayerExecs(d)
  PROVE  Calm'
<1>1. UNCHANGED <<status, pidfile, player_pidfile, daemon, cmd>>
  BY DEF PlayerExecs, files
<1>2. \A e \in Commands : /\ player'[e] # "none" <=> player[e] # "none"
                          /\ Stopped(e)' <=> Stopped(e)
  BY DEF PlayerExecs, AudioInv, TypeOK, Stopped
<1>3. (StopSeen' <=> StopSeen) /\ \A e \in Commands : (Running(e)' <=> Running(e)) /\ (Waits(e)' <=> Waits(e))
  BY <1>1, <1>2 DEF StopSeen, Running, Waits
<1>4. \A c \in Commands : /\ Busy(c)' <=> Busy(c)
                          /\ Step(c)' = Step(c) /\ Aim(c)' = Aim(c)
                          /\ Stopping(c)' <=> Stopping(c)
                          /\ Cleared(c)' <=> Cleared(c)
                          /\ Between(c)' <=> Between(c)
  BY <1>1 DEF Busy, Step, Aim, Stopping, Cleared, Between
<1>5. PeaceInv'
  BY <1>1, <1>2, <1>3, <1>4 DEF Calm, PeaceInv
<1>6. CommandInv'
  BY <1>1, <1>2, <1>3, <1>4 DEF Calm, CommandInv, CommandAt
<1>7. PauseInv'
  BY <1>1, <1>3, <1>4 DEF Calm, PauseInv, PauseAt
<1> QED  BY <1>5, <1>6, <1>7 DEF Calm

\* The inductive invariant of commands given in peace.
THEOREM VoiceInductive == Spec => [](AudioInv /\ VoiceInv)
<1>1. ASSUME Init PROVE VoiceInv
  <2>1. \A c \in Commands : /\ ~Busy(c) /\ daemon[c].pc = "none" /\ player[c] = "none"
                            /\ player_pidfile # c
    BY <1>1 DEF Init, Busy, Commands, NoPid
  <2>2. PeaceInv /\ CommandInv
    BY <2>1 DEF PeaceInv, CommandInv, CommandAt, Running, Stopping, Cleared
  <2>3. PauseInv
    BY <1>1, <2>1 DEF Init, PauseInv, PauseAt, StopSeen, Stopped
  <2> QED  BY <2>2, <2>3 DEF VoiceInv
<1>2. ASSUME AudioInv, VoiceInv, [Next]_vars PROVE VoiceInv'
  <2> SUFFICES ASSUME ~tight' PROVE Calm'
    BY DEF VoiceInv, Calm
  <2>1. ASSUME ~tight PROVE Calm
    BY <1>2, <2>1 DEF VoiceInv, Calm
  <2>2. ASSUME NEW op \in Operations, Issue(op) PROVE Calm'
    <3>1. ~tight /\ Settled
      BY <2>2 DEF Issue
    <3> QED  BY <1>2, <2>1, <2>2, <3>1, IssueCalm
  <2>3. ASSUME NEW c \in Commands, Command(c) PROVE Calm'
    <3>1. ~tight
      BY <2>3 DEF Command, WriteStatus, KillPlayer, KillDaemon, Remove, Pkill, Ensure, Spawn,
                  PauseToggle, PauseStarts, Signal, PlayArgument, Next_, Prev, Skip, Reorder,
                  Shuffle, Scan, Do
    <3> QED  BY <1>2, <2>1, <2>3, <3>1, QuietCalm, WriteStatusCalm, KillPlayerCalm, RemoveCalm,
                KillDaemonCalm, PkillSpawnCalm, SignalCalm DEF Command
  <2>4. ASSUME NEW d \in Commands, Daemon(d) PROVE Calm'
    <3>1. ~tight
      BY <2>4 DEF Daemon, DaemonEnter, DaemonTop, DaemonTrack, DaemonStart, DaemonWrite, DaemonWait,
                  DaemonCheck, DaemonNext, DaemonExit, At
    <3> QED  BY <1>2, <2>1, <2>4, <3>1, LoopCalm, PlayerCalm, ExitCalm DEF Daemon
  <2>5. ASSUME NEW d \in Commands, PlayerExecs(d) \/ PlayerEnds(d) PROVE Calm'
    <3>1. CASE PlayerExecs(d)
      <4>1. ~tight
        BY <3>1 DEF PlayerExecs
      <4> QED  BY <1>2, <2>1, <3>1, <4>1, PlayerExecsCalm
    <3>2. CASE PlayerEnds(d)
      <4>1. ~tight /\ Settled
        BY <3>2 DEF PlayerEnds
      <4> QED  BY <1>2, <2>1, <3>2, <4>1, PlayerEndsCalm
    <3> QED  BY <2>5, <3>1, <3>2
  <2>6. CASE UNCHANGED vars
    BY <2>1, <2>6 DEF Calm, PeaceInv, CommandInv, CommandAt, PauseInv, PauseAt, Between, StopSeen,
                      Stopped, Running, Waits, Stopping, Cleared, Busy, Step, Aim, vars, files
  <2> QED  BY <1>2, <2>2, <2>3, <2>4, <2>5, <2>6 DEF Next
<1> QED  BY <1>1, <1>2, AudioInductive, PTL DEF Spec

\* One player at a time, when commands are given in peace.
THEOREM OneVoiceCorrect == Spec => []OneVoice
<1>1. ASSUME AudioInv, VoiceInv PROVE OneVoice
  BY <1>1 DEF VoiceInv, OneVoice, PeaceInv, Running
<1> QED  BY <1>1, VoiceInductive, PTL

\* PAUSED in the status file is a player that is stopped, when all has settled.
THEOREM PausedTrueCorrect == Spec => []PausedTrue
<1>1. ASSUME AudioInv, VoiceInv PROVE PausedTrue
  <2> SUFFICES ASSUME ~tight, Settled
               PROVE  status = "PAUSED" <=> \E d \in Commands : Stopped(d)
    BY DEF PausedTrue
  <2>1. \A c \in Commands : ~Between(c)
    BY SettledWaits DEF Between
  <2> QED  BY <1>1, <2>1 DEF VoiceInv, PauseInv, StopSeen
<1> QED  BY <1>1, VoiceInductive, PTL
=============================================================================
