-------------------------- MODULE BtnWatcherProofs --------------------------
(* Proofs that the button multiplexer keeps its invariants for every choice *)
(* of buttons, time constants and queue length.                             *)
EXTENDS BtnWatcher, TLAPS

\* A sleeping watcher sleeps inside a chord, whose press it still holds.
HoldIsChord == pc = "hold" => chorded /\ home_down

\* The inductive strengthening: LongPressHoldsHome needs NoTapWhileHeld (a tap
\* click would release KEY_HOME) and HoldIsChord (so would the end of a hold,
\* and what put the key down is then the chord of the present press).
IInv == /\ NoTapWhileHeld /\ ComboOnlyWhileHeld /\ MediaModeShowsCard
        /\ LongPressHoldsHome /\ HoldIsChord

-----------------------------------------------------------------------------
\* Taking the head event off the queue keeps the queue a sequence of events.
LEMMA ReadType ==
  ASSUME TypeOK, NEW k, NEW v, Read(k, v)
  PROVE  phys' \subseteq AllInputs /\ inq' \in Seq(Event)
BY DEF TypeOK, Read

\* Constants of the type invariant that the arithmetic needs.
LEMMA CapNat == Cap \in Nat /\ 0 \in 0..Cap /\ 0 \in 0..ToastTime
                /\ 0 \in 0..HoldTime /\ ToastTime \in 0..ToastTime
                /\ HoldTime \in 0..HoldTime
BY TimeAssumption DEF Cap

\* Initially every variable has its type.
LEMMA InitType == Init => TypeOK
<1> SUFFICES ASSUME Init PROVE TypeOK
  OBVIOUS
<1>1. inq \in Seq(Event)
  BY DEF Init
<1>2. /\ hold_left \in 0..HoldTime /\ toast_left \in 0..ToastTime
      /\ power_elapsed \in 0..Cap /\ home_elapsed \in 0..Cap /\ single_elapsed \in 0..Cap
  BY CapNat DEF Init
<1> QED BY <1>1, <1>2 DEF Init, TypeOK, Apps

\* The environment: key events, the clock, other writers of current_app.
LEMMA EnvironmentType == TypeOK /\ Environment => TypeOK'
<1> SUFFICES ASSUME TypeOK, Environment PROVE TypeOK'
  OBVIOUS
<1>1. ASSUME NEW k \in Buttons, Press(k) PROVE TypeOK'
  <2>1. k \in AllInputs /\ [key |-> k, val |-> 1] \in Event
    BY ButtonsAssumption DEF Event
  <2> QED BY <1>1, <2>1 DEF TypeOK, Press, powerVars, homeVars, showVars, fbVars
<1>2. ASSUME NEW k \in Buttons, Release(k) PROVE TypeOK'
  <2>1. k \in AllInputs /\ [key |-> k, val |-> 0] \in Event
    BY ButtonsAssumption DEF Event
  <2> QED BY <1>2, <2>1 DEF TypeOK, Release, powerVars, homeVars, showVars, fbVars
<1>3. ASSUME NEW a \in Apps, OtherWriter(a) PROVE TypeOK'
  BY <1>3 DEF TypeOK, OtherWriter, envVars, powerVars, homeVars, showVars, fbVars
<1>4. CASE Tick
  <2>1. \A t \in 0..Cap : Older(t) \in 0..Cap
    BY CapNat DEF Older
  <2>2. \A n \in Nat : \A t \in 0..n : Sooner(t) \in 0..n
    BY DEF Sooner
  <2>3. /\ power_elapsed' \in 0..Cap /\ home_elapsed' \in 0..Cap
        /\ single_elapsed' \in 0..Cap
    BY <1>4, <2>1 DEF TypeOK, Tick
  <2>4. toast_left' \in 0..ToastTime /\ hold_left' \in 0..HoldTime
    BY <1>4, <2>2, TimeAssumption DEF TypeOK, Tick
  <2> QED BY <1>4, <2>3, <2>4 DEF TypeOK, Tick, envVars, fbVars
<1> QED BY <1>1, <1>2, <1>3, <1>4 DEF Environment

\* The watcher's own steps.
LEMMA WatcherType == TypeOK /\ Watcher => TypeOK'
<1> SUFFICES ASSUME TypeOK, Watcher PROVE TypeOK'
  OBVIOUS
<1> USE CapNat
<1>1. CASE Timers
  BY <1>1 DEF TypeOK, Timers, envVars, fbVars, Effects, PowerDue, LongDue, SingleDue, ToastDue, AllInputs
<1>2. CASE SelectTimeout
  BY <1>2 DEF TypeOK, SelectTimeout, envVars, powerVars, homeVars, showVars, fbVars
<1>3. CASE PowerDown
  BY <1>3, ReadType DEF TypeOK, PowerDown, PowerDouble, Effects, homeVars, showVars, fbVars
<1>4. CASE PowerUp
  BY <1>4, ReadType DEF TypeOK, PowerUp, powerVars, homeVars, showVars, fbVars
<1>5. CASE HomeDown \/ HomeDownDouble
  BY <1>5, ReadType DEF TypeOK, HomeDown, HomeDownDouble, StartHomePress, ShowCard, fb_init, fbVars, Effects, powerVars, showVars
<1>6. CASE HomeUpCombo \/ HomeUpLong \/ HomeUpDouble \/ HomeUpTap
  BY <1>6, ReadType, ZenonT(60) DEF TypeOK, HomeRelease, HomeUpCombo, HomeUpLong, HomeUpDouble, HomeUpTap,
     ShowCard, fb_init, fbVars, Effects, powerVars
<1>7. CASE ChordFrontlight
  BY <1>7, ReadType DEF TypeOK, ChordFrontlight, Chord, LeaveMediaMode, ShowToast, fb_init, fbVars, CardHides, powerVars, AllInputs
<1>8. CASE ChordFrontlightEnd
  BY <1>8 DEF TypeOK, ChordFrontlightEnd, envVars, powerVars, showVars, fbVars
<1>9. CASE ChordKOReader \/ ChordPlato \/ ChordPlatoFrontlight \/ ChordNetSurf
  BY <1>9, ReadType DEF TypeOK, ChordKOReader, ChordPlato, ChordPlatoFrontlight, ChordNetSurf,
     Chord, SwitchTo, AppChord, LeaveMediaMode, ShowToast, fb_init, fbVars, CardHides, powerVars, Apps, Effects
<1>10. CASE ChordMedia
  BY <1>10, ReadType DEF TypeOK, ChordMedia, Chord, ShowCard, ShowToast, fb_init, fbVars, CardHides, powerVars
<1>11. ASSUME NEW k \in PageKeys, MediaKey(k) PROVE TypeOK'
  <2>1. MediaCommand(k) \in Effects
    BY DEF MediaCommand, PageKeys, Effects
  <2> QED BY <1>11, <2>1, ReadType DEF TypeOK, MediaKey, ShowCard, fb_init, fbVars, powerVars, homeVars
<1>12. ASSUME NEW k \in PageKeys, PageDown(k) PROVE TypeOK'
  BY <1>12, ReadType DEF TypeOK, PageDown, powerVars, homeVars, showVars, fbVars, AllInputs
<1>13. ASSUME NEW k \in PageKeys, PageUp(k) PROVE TypeOK'
  BY <1>13, ReadType DEF TypeOK, PageUp, powerVars, homeVars, showVars, fbVars
<1>14. CASE LidClose
  BY <1>14, ReadType DEF TypeOK, LidClose, powerVars, homeVars, showVars, fbVars, AllInputs, Effects
<1>15. CASE LidOpen
  BY <1>15, ReadType DEF TypeOK, LidOpen, powerVars, homeVars, showVars, fbVars
<1> QED BY <1>1, <1>2, <1>3, <1>4, <1>5, <1>6, <1>7, <1>8, <1>9, <1>10, <1>11, <1>12,
           <1>13, <1>14, <1>15 DEF Watcher

\* The type invariant of the multiplexer, whatever the buttons and timings.
THEOREM TypeCorrect == Spec => []TypeOK
<1>1. TypeOK /\ UNCHANGED vars => TypeOK'
  BY DEF TypeOK, vars, powerVars, homeVars, showVars, fbVars
<1>2. TypeOK /\ [Next]_vars => TypeOK'
  BY <1>1, EnvironmentType, WatcherType DEF Next
<1> QED BY InitType, <1>2, PTL DEF Spec

-----------------------------------------------------------------------------
(* What is queued catches up: the state of a key once all of the queue is  *)
(* handled is the physical one, now.                                       *)

\* The state of k after the events of s, starting from b: its last event, if any.
After(s, k, b) ==
  \/ \E i \in 1..Len(s) : s[i].key = k /\ s[i].val = 1 /\ \A j \in (i + 1)..Len(s) : s[j].key # k
  \/ b /\ \A j \in 1..Len(s) : s[j].key # k

CatchesUp ==
  /\ After(inq, "HOME", home_down) <=> "HOME" \in phys
  /\ After(inq, "LID", "LID" \in vkeys) <=> "LID" \in phys

LEMMA AfterAppend ==
  ASSUME NEW s \in Seq(Event), NEW e \in Event, NEW k, NEW b
  PROVE  After(Append(s, e), k, b) <=> IF e.key = k THEN e.val = 1 ELSE After(s, k, b)
<1> DEFINE n == Len(s)
           t == Append(s, e)
<1>a. n \in Nat /\ Len(t) = n + 1 /\ t[n + 1] = e /\ n + 1 \in 1..(n + 1)
  OBVIOUS
<1>b. \A i \in 1..n : t[i] = s[i] /\ i \in 1..(n + 1) /\ n + 1 \in (i + 1)..(n + 1)
  OBVIOUS
<1>c. \A i \in 1..(n + 1) : i \in 1..n \/ i = n + 1
  BY <1>a
<1>d. \A i \in 1..n : \A j \in (i + 1)..(n + 1) : j \in 1..n \/ j = n + 1
  BY <1>a
<1>e. \A i \in 1..n : \A j \in (i + 1)..n : j \in 1..n /\ j \in (i + 1)..(n + 1)
  BY <1>a
<1>f. \A i \in 1..n : \A j \in (i + 1)..(n + 1) : j # n + 1 => j \in (i + 1)..n
  BY <1>a
<1>g. \A j \in (n + 2)..(n + 1) : FALSE
  BY <1>a
<1>h. (n + 1) + 1 = n + 2
  BY <1>a
<1> HIDE DEF n, t
<1>1. CASE e.key = k
  <2>1. ~\A j \in 1..(n + 1) : t[j].key # k
    BY <1>1, <1>a
  <2>2. \A i \in 1..n : ~\A j \in (i + 1)..(n + 1) : t[j].key # k
    BY <1>1, <1>a, <1>b
  <2>3. After(t, k, b) => e.val = 1
    BY <1>a, <1>c, <2>1, <2>2 DEF After
  <2>4. e.val = 1 => After(t, k, b)
    BY <1>1, <1>a, <1>g, <1>h DEF After
  <2> QED BY <1>1, <2>3, <2>4 DEF t
<1>2. CASE e.key # k
  <2>1. (\A j \in 1..(n + 1) : t[j].key # k) <=> (\A j \in 1..n : s[j].key # k)
    BY <1>2, <1>a, <1>b, <1>c
  <2>2. ASSUME NEW i \in 1..n
        PROVE  (\A j \in (i + 1)..(n + 1) : t[j].key # k) <=> (\A j \in (i + 1)..n : s[j].key # k)
    BY <1>2, <1>a, <1>b, <1>d, <1>e, <1>f
  <2>3. After(t, k, b) => After(s, k, b)
    BY <1>2, <1>a, <1>b, <1>c, <2>1, <2>2 DEF After, n
  <2>4. After(s, k, b) => After(t, k, b)
    BY <1>a, <1>b, <2>1, <2>2 DEF After, n
  <2> QED BY <1>2, <2>3, <2>4 DEF t
<1> QED BY <1>1, <1>2

LEMMA AfterTail ==
  ASSUME NEW s \in Seq(Event), s # <<>>, NEW k, NEW b, NEW c,
         c <=> IF Head(s).key = k THEN Head(s).val = 1 ELSE b
  PROVE  After(Tail(s), k, c) <=> After(s, k, b)
<1> DEFINE n == Len(Tail(s))
           t == Tail(s)
<1>a. n \in Nat /\ Len(s) = n + 1 /\ Head(s) = s[1] /\ Len(t) = n
  OBVIOUS
<1>b. \A i \in 1..n : t[i] = s[i + 1] /\ i + 1 \in 2..(n + 1)
  OBVIOUS
<1> HIDE DEF n, t
<1>c. \A j \in 2..(n + 1) : j - 1 \in 1..n /\ s[j] = t[j - 1] /\ j \in 1..(n + 1)
  BY <1>a, <1>b
<1>d. \A i \in 1..(n + 1) : i = 1 \/ i \in 2..(n + 1)
  BY <1>a
<1>e. 1 \in 1..(n + 1) /\ 1 + 1 = 2
  BY <1>a
<1>1. (\A j \in 1..n : t[j].key # k) <=> (\A j \in 2..(n + 1) : s[j].key # k)
  BY <1>b, <1>c
<1>2. (\A j \in 1..(n + 1) : s[j].key # k) <=> s[1].key # k /\ (\A j \in 2..(n + 1) : s[j].key # k)
  BY <1>c, <1>d, <1>e
<1>3. ASSUME NEW i \in 1..n
      PROVE  (\A j \in (i + 1)..n : t[j].key # k) <=> (\A j \in ((i + 1) + 1)..(n + 1) : s[j].key # k)
  <2>1. \A j \in (i + 1)..n : j \in 1..n /\ j + 1 \in ((i + 1) + 1)..(n + 1)
    BY <1>a
  <2>2. \A j \in ((i + 1) + 1)..(n + 1) : j \in 2..(n + 1) /\ j - 1 \in (i + 1)..n
    BY <1>a
  <2> QED BY <1>b, <1>c, <2>1, <2>2
<1>4. ASSUME After(t, k, c) PROVE After(s, k, b)
  <2>1. CASE \E i \in 1..n : t[i].key = k /\ t[i].val = 1 /\ \A j \in (i + 1)..n : t[j].key # k
    <3>1. PICK i \in 1..n : t[i].key = k /\ t[i].val = 1 /\ \A j \in (i + 1)..n : t[j].key # k
      BY <2>1
    <3>2. /\ i + 1 \in 1..(n + 1) /\ s[i + 1].key = k /\ s[i + 1].val = 1
          /\ \A j \in ((i + 1) + 1)..(n + 1) : s[j].key # k
      BY <1>b, <1>c, <1>3, <3>1
    <3> QED BY <1>a, <3>2 DEF After
  <2>2. CASE c /\ \A j \in 1..n : t[j].key # k
    BY <1>a, <1>e, <1>1, <1>2, <2>2 DEF After
  <2> QED BY <1>a, <1>4, <2>1, <2>2 DEF After
<1>5. ASSUME After(s, k, b) PROVE After(t, k, c)
  <2>1. CASE \E i \in 1..(n + 1) : s[i].key = k /\ s[i].val = 1 /\ \A j \in (i + 1)..(n + 1) : s[j].key # k
    <3>1. PICK i \in 1..(n + 1) : s[i].key = k /\ s[i].val = 1 /\ \A j \in (i + 1)..(n + 1) : s[j].key # k
      BY <2>1
    <3>2. CASE i = 1
      BY <1>a, <1>e, <1>1, <3>1, <3>2 DEF After
    <3>3. CASE i \in 2..(n + 1)
      <4>1. i - 1 \in 1..n /\ (i - 1) + 1 = i
        BY <1>a, <3>3
      <4>2. t[i - 1].key = k /\ t[i - 1].val = 1
        BY <1>c, <3>1, <3>3
      <4>3. \A j \in ((i - 1) + 1)..n : t[j].key # k
        BY <1>3, <3>1, <4>1
      <4> QED BY <1>a, <4>1, <4>2, <4>3 DEF After
    <3> QED BY <1>d, <3>2, <3>3
  <2>2. CASE b /\ \A j \in 1..(n + 1) : s[j].key # k
    BY <1>a, <1>1, <1>2, <2>2 DEF After
  <2> QED BY <1>a, <1>5, <2>1, <2>2 DEF After
<1> QED BY <1>4, <1>5 DEF t

\* A step of the watcher handles the first event of the queue, or none.
LEMMA Handles ==
  ASSUME Watcher
  PROVE  /\ phys' = phys
         /\ \/ inq' = inq /\ home_down' = home_down /\ ("LID" \in vkeys' <=> "LID" \in vkeys)
            \/ /\ inq # <<>> /\ inq' = Tail(inq)
               /\ home_down' <=> IF Head(inq).key = "HOME" THEN Head(inq).val = 1 ELSE home_down
               /\ "LID" \in vkeys' <=> IF Head(inq).key = "LID" THEN Head(inq).val = 1 ELSE "LID" \in vkeys
<1> USE DEF Read, envVars
<1>1. CASE Timers \/ SelectTimeout \/ ChordFrontlightEnd
  BY <1>1 DEF Timers, SelectTimeout, ChordFrontlightEnd, homeVars
<1>2. CASE PowerDown \/ PowerUp
  BY <1>2 DEF PowerDown, PowerUp, homeVars
<1>3. CASE HomeDown \/ HomeDownDouble
  BY <1>3 DEF HomeDown, HomeDownDouble, StartHomePress
<1>4. CASE HomeUpCombo \/ HomeUpLong \/ HomeUpDouble \/ HomeUpTap
  BY <1>4 DEF HomeRelease, HomeUpCombo, HomeUpLong, HomeUpDouble, HomeUpTap
<1>5. CASE ChordFrontlight
  BY <1>5 DEF ChordFrontlight, Chord
<1>6. CASE ChordKOReader \/ ChordPlato \/ ChordPlatoFrontlight \/ ChordNetSurf \/ ChordMedia
  BY <1>6 DEF ChordKOReader, ChordPlato, ChordPlatoFrontlight, ChordNetSurf, ChordMedia, Chord, SwitchTo,
     AppChord
<1>7. ASSUME NEW k \in PageKeys, MediaKey(k) \/ PageDown(k) \/ PageUp(k)
      PROVE  /\ inq # <<>> /\ inq' = Tail(inq) /\ phys' = phys
             /\ Head(inq).key \notin {"HOME", "LID"}
             /\ home_down' = home_down /\ ("LID" \in vkeys' <=> "LID" \in vkeys)
  BY <1>7 DEF MediaKey, PageDown, PageUp, PageKeys, homeVars
<1>8. CASE LidClose \/ LidOpen
  BY <1>8 DEF LidClose, LidOpen, homeVars
<1> QED BY <1>1, <1>2, <1>3, <1>4, <1>5, <1>6, <1>7, <1>8 DEF Watcher

LEMMA CatchesUpStep == TypeOK /\ CatchesUp /\ [Next]_vars => CatchesUp'
<1> SUFFICES ASSUME TypeOK, CatchesUp, [Next]_vars PROVE CatchesUp'
  OBVIOUS
<1>a. inq \in Seq(Event)
  BY DEF TypeOK
<1>1. CASE Watcher
  <2>1. CASE inq' = inq /\ home_down' = home_down /\ ("LID" \in vkeys' <=> "LID" \in vkeys)
    BY <1>1, <2>1, Handles DEF CatchesUp, After
  <2>2. CASE /\ inq # <<>> /\ inq' = Tail(inq)
             /\ home_down' <=> IF Head(inq).key = "HOME" THEN Head(inq).val = 1 ELSE home_down
             /\ "LID" \in vkeys' <=> IF Head(inq).key = "LID" THEN Head(inq).val = 1 ELSE "LID" \in vkeys
    <3>1. After(Tail(inq), "HOME", home_down') <=> After(inq, "HOME", home_down)
      BY <1>a, <2>2, AfterTail
    <3>2. After(Tail(inq), "LID", "LID" \in vkeys') <=> After(inq, "LID", "LID" \in vkeys)
      BY <1>a, <2>2, AfterTail
    <3> QED BY <1>1, <2>2, <3>1, <3>2, Handles DEF CatchesUp
  <2> QED BY <1>1, <2>1, <2>2, Handles
<1>2. ASSUME NEW k \in Buttons, Press(k) PROVE CatchesUp'
  <2> DEFINE e == [key |-> k, val |-> 1]
  <2>1. e \in Event /\ e.key = k /\ e.val = 1
    BY ButtonsAssumption DEF Event
  <2>2. inq' = Append(inq, e) /\ phys' = phys \cup {k} /\ UNCHANGED <<home_down, vkeys>>
    BY <1>2 DEF Press, homeVars
  <2> HIDE DEF e
  <2> QED BY <1>a, <2>1, <2>2, AfterAppend DEF CatchesUp
<1>3. ASSUME NEW k \in Buttons, Release(k) PROVE CatchesUp'
  <2> DEFINE e == [key |-> k, val |-> 0]
  <2>1. e \in Event /\ e.key = k /\ e.val # 1
    BY ButtonsAssumption DEF Event
  <2>2. inq' = Append(inq, e) /\ phys' = phys \ {k} /\ UNCHANGED <<home_down, vkeys>>
    BY <1>3 DEF Release, homeVars
  <2> HIDE DEF e
  <2> QED BY <1>a, <2>1, <2>2, AfterAppend DEF CatchesUp
<1>4. ASSUME UNCHANGED <<phys, inq, home_down, vkeys>> PROVE CatchesUp'
  BY <1>4 DEF CatchesUp
<1>5. ASSUME NEW a \in Apps, OtherWriter(a) PROVE CatchesUp'
  BY <1>4, <1>5 DEF OtherWriter, envVars, homeVars
<1>6. CASE Tick \/ UNCHANGED vars
  BY <1>4, <1>6 DEF Tick, envVars, vars, homeVars
<1> QED BY <1>1, <1>2, <1>3, <1>5, <1>6 DEF Next, Environment

LEMMA CatchesUpAlways == Spec => []CatchesUp
<1>1. Init => CatchesUp
  BY DEF Init, CatchesUp, After
<1> QED BY <1>1, CatchesUpStep, TypeCorrect, PTL DEF Spec


(* The events of Home alternate, so a press is read only when the previous *)
(* one has been released.                                                  *)

HomeAt(s, i) == s[i].key = "HOME"

\* The first event of Home in s changes b, and each later one the one before.
Alternates(s, b) ==
  /\ \A i \in 1..Len(s) :
       HomeAt(s, i) /\ (\A j \in 1..(i - 1) : ~HomeAt(s, j)) => (s[i].val = 1 <=> ~b)
  /\ \A i, j \in 1..Len(s) :
       i < j /\ HomeAt(s, i) /\ HomeAt(s, j) /\ (\A l \in (i + 1)..(j - 1) : ~HomeAt(s, l))
         => s[i].val # s[j].val

LEMMA EventValues == ASSUME NEW s \in Seq(Event) PROVE \A i \in 1..Len(s) : s[i].val \in {0, 1}
<1>1. \A i \in 1..Len(s) : s[i] \in Event
  OBVIOUS
<1>2. \A x \in Event : x.val \in {0, 1}
  BY DEF Event
<1> QED BY <1>1, <1>2

LEMMA AlternatesAppend ==
  ASSUME NEW s \in Seq(Event), NEW e \in Event, NEW b, Alternates(s, b),
         e.key = "HOME" => (e.val = 1 <=> ~After(s, "HOME", b))
  PROVE  Alternates(Append(s, e), b)
<1> DEFINE n == Len(s)
           t == Append(s, e)
<1>a. n \in Nat /\ Len(s) = n /\ Len(t) = n + 1 /\ t[n + 1] = e
  OBVIOUS
<1>b. \A i \in 1..n : t[i] = s[i] /\ s[i].val \in {0, 1}
  BY EventValues
<1>c. e.val \in {0, 1}
  BY DEF Event
<1> HIDE DEF n, t
<1>1. ASSUME NEW i \in 1..(n + 1), HomeAt(t, i), \A j \in 1..(i - 1) : ~HomeAt(t, j)
      PROVE  t[i].val = 1 <=> ~b
  <2>1. \A j \in 1..(i - 1) : j \in 1..n /\ ~HomeAt(s, j)
    BY <1>a, <1>b, <1>1 DEF HomeAt
  <2>2. CASE i \in 1..n
    BY <1>a, <1>b, <1>1, <2>1, <2>2 DEF Alternates, HomeAt
  <2>3. CASE i = n + 1
    <3>1. \A j \in 1..n : s[j].key # "HOME"
      BY <1>a, <2>1, <2>3 DEF HomeAt
    <3>2. After(s, "HOME", b) <=> b
      BY <1>a, <3>1 DEF After
    <3> QED BY <1>a, <1>1, <2>3, <3>2 DEF HomeAt
  <2> QED BY <1>a, <2>2, <2>3
<1>2. ASSUME NEW i \in 1..(n + 1), NEW j \in 1..(n + 1), i < j, HomeAt(t, i), HomeAt(t, j),
             \A l \in (i + 1)..(j - 1) : ~HomeAt(t, l)
      PROVE  t[i].val # t[j].val
  <2>1. i \in 1..n /\ HomeAt(s, i) /\ t[i] = s[i]
    BY <1>a, <1>b, <1>2 DEF HomeAt
  <2>2. \A l \in (i + 1)..(j - 1) : l \in 1..n /\ ~HomeAt(s, l)
    BY <1>a, <1>b, <1>2 DEF HomeAt
  <2>3. CASE j \in 1..n
    BY <1>a, <1>b, <1>2, <2>1, <2>2, <2>3 DEF Alternates, HomeAt
  <2>4. CASE j = n + 1
    <3>1. \A l \in (i + 1)..n : s[l].key # "HOME"
      BY <1>a, <2>2, <2>4 DEF HomeAt
    <3>2. s[i].val = 1 => After(s, "HOME", b)
      BY <1>a, <2>1, <3>1 DEF After, HomeAt
    <3>3. ASSUME After(s, "HOME", b) PROVE s[i].val = 1
      <4>1. PICK k \in 1..n : /\ s[k].key = "HOME" /\ s[k].val = 1
                              /\ \A l \in (k + 1)..n : s[l].key # "HOME"
        BY <1>a, <2>1, <3>3 DEF After, HomeAt
      <4>2. ~(i > k) /\ ~(k > i)
        BY <1>a, <2>1, <3>1, <4>1 DEF HomeAt
      <4>3. i = k
        BY <2>1, <4>2
      <4> QED BY <4>1, <4>3
    <3>4. e.val = 1 <=> ~After(s, "HOME", b)
      BY <1>a, <1>2, <2>4 DEF HomeAt
    <3> QED BY <1>a, <1>b, <1>c, <2>1, <2>4, <3>2, <3>3, <3>4
  <2> QED BY <1>a, <2>3, <2>4
<1> QED BY <1>a, <1>1, <1>2 DEF Alternates, t

LEMMA AlternatesTail ==
  ASSUME NEW s \in Seq(Event), s # <<>>, NEW b, NEW c, Alternates(s, b),
         c <=> IF Head(s).key = "HOME" THEN Head(s).val = 1 ELSE b
  PROVE  Alternates(Tail(s), c)
<1> DEFINE n == Len(Tail(s))
           t == Tail(s)
<1>a. n \in Nat /\ Len(s) = n + 1 /\ Head(s) = s[1] /\ Len(t) = n
  OBVIOUS
<1>b. \A i \in 1..n : t[i] = s[i + 1] /\ i + 1 \in 1..(n + 1)
  OBVIOUS
<1>c. \A i \in 1..(n + 1) : s[i].val \in {0, 1}
  BY <1>a, EventValues
<1> HIDE DEF n, t
<1>d. 1 \in 1..(n + 1)
  BY <1>a
<1>1. ASSUME NEW i \in 1..n, HomeAt(t, i), \A j \in 1..(i - 1) : ~HomeAt(t, j)
      PROVE  t[i].val = 1 <=> ~c
  <2>1. HomeAt(s, i + 1) /\ i + 1 \in 1..(n + 1) /\ t[i] = s[i + 1] /\ 1 < i + 1
    BY <1>b, <1>1 DEF HomeAt
  <2>2. \A l \in 2..i : ~HomeAt(s, l)
    <3>1. \A l \in 2..i : l - 1 \in 1..(i - 1) /\ l - 1 \in 1..n /\ (l - 1) + 1 = l
      BY <1>a
    <3> QED BY <1>b, <1>1, <3>1 DEF HomeAt
  <2>3. CASE HomeAt(s, 1)
    <3>1. \A l \in (1 + 1)..((i + 1) - 1) : ~HomeAt(s, l)
      BY <2>2
    <3>2. s[1].val # s[i + 1].val
      BY <1>a, <1>d, <2>1, <2>3, <3>1 DEF Alternates
    <3>3. c <=> s[1].val = 1
      BY <1>a, <2>3 DEF HomeAt
    <3> QED BY <1>c, <1>d, <2>1, <3>2, <3>3
  <2>4. CASE ~HomeAt(s, 1)
    <3>1. \A l \in 1..((i + 1) - 1) : ~HomeAt(s, l)
      BY <2>2, <2>4
    <3>2. s[i + 1].val = 1 <=> ~b
      BY <1>a, <2>1, <3>1 DEF Alternates
    <3>3. c <=> b
      BY <1>a, <2>4 DEF HomeAt
    <3> QED BY <2>1, <3>2, <3>3
  <2> QED BY <2>3, <2>4
<1>2. ASSUME NEW i \in 1..n, NEW j \in 1..n, i < j, HomeAt(t, i), HomeAt(t, j),
             \A l \in (i + 1)..(j - 1) : ~HomeAt(t, l)
      PROVE  t[i].val # t[j].val
  <2>1. /\ HomeAt(s, i + 1) /\ HomeAt(s, j + 1) /\ t[i] = s[i + 1] /\ t[j] = s[j + 1]
        /\ i + 1 \in 1..(n + 1) /\ j + 1 \in 1..(n + 1) /\ i + 1 < j + 1
    BY <1>b, <1>2 DEF HomeAt
  <2>2. \A l \in ((i + 1) + 1)..((j + 1) - 1) : l - 1 \in 1..n /\ l - 1 \in (i + 1)..(j - 1)
    BY <1>a
  <2>3. \A l \in ((i + 1) + 1)..((j + 1) - 1) : s[l] = t[l - 1]
    BY <1>a, <1>b, <2>2
  <2>4. \A l \in ((i + 1) + 1)..((j + 1) - 1) : ~HomeAt(s, l)
    BY <1>2, <2>2, <2>3 DEF HomeAt
  <2> QED BY <1>a, <2>1, <2>4 DEF Alternates
<1> QED BY <1>a, <1>1, <1>2 DEF Alternates, t

Turns == Alternates(inq, home_down)

LEMMA TurnsStep == TypeOK /\ CatchesUp /\ Turns /\ [Next]_vars => Turns'
<1> SUFFICES ASSUME TypeOK, CatchesUp, Turns, [Next]_vars PROVE Turns'
  OBVIOUS
<1>a. inq \in Seq(Event)
  BY DEF TypeOK
<1>1. CASE Watcher
  <2>1. CASE inq' = inq /\ home_down' = home_down
    BY <2>1 DEF Turns, Alternates, HomeAt
  <2>2. CASE /\ inq # <<>> /\ inq' = Tail(inq)
             /\ home_down' <=> IF Head(inq).key = "HOME" THEN Head(inq).val = 1 ELSE home_down
    <3>1. Alternates(Tail(inq), home_down')
      BY <1>a, <2>2, AlternatesTail DEF Turns
    <3> QED BY <2>2, <3>1 DEF Turns
  <2> QED BY <1>1, <2>1, <2>2, Handles
<1>2. ASSUME NEW k \in Buttons, NEW v \in {0, 1}, v = 1 <=> k \notin phys,
             inq' = Append(inq, [key |-> k, val |-> v]), UNCHANGED home_down
      PROVE  Turns'
  <2> DEFINE e == [key |-> k, val |-> v]
  <2>1. e \in Event /\ e.key = k /\ e.val = v
    BY ButtonsAssumption DEF Event
  <2>2. inq' = Append(inq, e)
    BY <1>2
  <2> HIDE DEF e
  <2>3. e.key = "HOME" => (e.val = 1 <=> ~After(inq, "HOME", home_down))
    BY <1>2, <2>1 DEF CatchesUp
  <2>4. Alternates(Append(inq, e), home_down)
    BY <1>a, <2>1, <2>3, AlternatesAppend DEF Turns
  <2> QED BY <1>2, <2>2, <2>4 DEF Turns
<1>3. ASSUME NEW k \in Buttons, Press(k) \/ Release(k) PROVE Turns'
  BY <1>2, <1>3 DEF Press, Release, homeVars
<1>4. ASSUME UNCHANGED <<inq, home_down>> PROVE Turns'
  BY <1>4 DEF Turns, Alternates, HomeAt
<1>5. ASSUME NEW a \in Apps, OtherWriter(a) PROVE Turns'
  BY <1>4, <1>5 DEF OtherWriter, envVars, homeVars
<1>6. CASE Tick \/ UNCHANGED vars
  BY <1>4, <1>6 DEF Tick, envVars, vars, homeVars
<1> QED BY <1>1, <1>3, <1>5, <1>6 DEF Next, Environment

LEMMA TurnsAlways == Spec => []Turns
<1>1. Init => Turns
  BY DEF Init, Turns, Alternates
<1> QED BY <1>1, TurnsStep, TypeCorrect, CatchesUpAlways, PTL DEF Spec

\* Home goes down in the gesture machine only from up.
LEMMA FreshPress ==
  ASSUME TypeOK, Turns, Read("HOME", 1)
  PROVE  ~home_down
<1>1. inq \in Seq(Event) /\ inq # <<>> /\ HomeAt(inq, 1) /\ inq[1].val = 1
  BY DEF TypeOK, Read, HomeAt
<1>2. 1 \in 1..Len(inq) /\ \A j \in 1..(1 - 1) : ~HomeAt(inq, j)
  BY <1>1
<1> QED BY <1>1, <1>2 DEF Turns, Alternates

-----------------------------------------------------------------------------
(* The gesture flags.                                                      *)

\* A framebuffer that is there shows the card that is drawn.
LEMMA CardDrawn == ShowCard => (fb_mem' => card_active')
BY Zenon DEF ShowCard

\* An event is read at the select, never in a sleep.
LEMMA ReadAwake == \A k, v : Read(k, v) => pc = "select"
BY Zenon DEF Read

\* No step of user, clock, other processes or watcher breaks IInv.
LEMMA IInvStep == TypeOK /\ Turns /\ IInv /\ [Next]_vars => IInv'
<1> SUFFICES ASSUME TypeOK, Turns, IInv, [Next]_vars PROVE IInv'
  OBVIOUS
<1> USE DEF IInv, NoTapWhileHeld, ComboOnlyWhileHeld, MediaModeShowsCard,
            LongPressHoldsHome, HoldIsChord
<1>1. CASE UNCHANGED vars
  BY <1>1 DEF vars, powerVars, homeVars, showVars, fbVars
<1>2. CASE Environment
  <2>1. ASSUME NEW k \in Buttons, Press(k) \/ Release(k) PROVE IInv'
    BY <2>1 DEF Press, Release, homeVars, showVars, fbVars
  <2>2. ASSUME NEW a \in Apps, OtherWriter(a) PROVE IInv'
    BY <2>2 DEF OtherWriter, homeVars, showVars, fbVars
  <2>3. CASE Tick
    BY <2>3 DEF Tick, fbVars
  <2> QED BY <1>2, <2>1, <2>2, <2>3 DEF Environment
<1>3. CASE Timers
  BY <1>3 DEF Timers, envVars, fbVars, LongDue, SingleDue, PowerDue
<1>4. CASE SelectTimeout \/ PowerDown \/ PowerUp
  BY <1>4 DEF SelectTimeout, PowerDown, PowerUp, Read, powerVars, homeVars, showVars, fbVars
<1>5. CASE HomeDown \/ HomeDownDouble
  <2>1. HomeDown => IInv'
    BY ReadAwake, FreshPress DEF HomeDown, StartHomePress, showVars, fbVars
  <2>2. HomeDownDouble => IInv'
    BY ReadAwake, CardDrawn, FreshPress DEF HomeDownDouble, StartHomePress
  <2> QED BY <1>5, <2>1, <2>2
<1>6. CASE HomeUpCombo \/ HomeUpLong \/ HomeUpDouble \/ HomeUpTap
  <2>1. HomeUpCombo => IInv'
    <3>1. HomeUpCombo => (forgotten' <=> forgotten \/ home_long_sent)
      BY Zenon DEF HomeUpCombo
    <3> QED BY <3>1, ReadAwake DEF HomeRelease, HomeUpCombo, fbVars
  <2>2. HomeUpLong \/ HomeUpDouble => IInv'
    BY ReadAwake DEF HomeRelease, HomeUpLong, HomeUpDouble, fbVars
  <2>3. HomeUpTap => IInv'
    BY ReadAwake, CardDrawn DEF HomeRelease, HomeUpTap, fbVars
  <2> QED BY <1>6, <2>1, <2>2, <2>3
<1>7. CASE ChordFrontlight
  BY <1>7 DEF ChordFrontlight, Chord, LeaveMediaMode, ShowToast, Read
<1>8. CASE ChordFrontlightEnd
  BY <1>8 DEF ChordFrontlightEnd, showVars, fbVars
<1>9. CASE ChordKOReader \/ ChordPlato \/ ChordPlatoFrontlight \/ ChordNetSurf
  BY <1>9 DEF ChordKOReader, ChordPlato, ChordPlatoFrontlight, ChordNetSurf, Chord,
     SwitchTo, AppChord, LeaveMediaMode, Read
<1>10. CASE ChordMedia
  <2>1. media_mode' <=> ~media_mode
    BY <1>10, Zenon DEF ChordMedia
  <2> QED BY <1>10, <2>1, CardDrawn, ReadAwake DEF ChordMedia, Chord
<1>11. ASSUME NEW k \in PageKeys, MediaKey(k) \/ PageDown(k) \/ PageUp(k) PROVE IInv'
  BY <1>11, ReadAwake, CardDrawn DEF MediaKey, PageDown, PageUp, PageKeys, homeVars, showVars, fbVars
<1>12. CASE LidClose \/ LidOpen
  BY <1>12 DEF LidClose, LidOpen, Read, homeVars, showVars, fbVars
<1> QED BY <1>1, <1>2, <1>3, <1>4, <1>5, <1>6, <1>7, <1>8, <1>9, <1>10, <1>11, <1>12
        DEF Next, Watcher

LEMMA IInvAlways == Spec => []IInv
<1>1. Init => IInv
  BY DEF Init, IInv, NoTapWhileHeld, ComboOnlyWhileHeld, MediaModeShowsCard,
         LongPressHoldsHome, HoldIsChord
<1> QED BY <1>1, IInvStep, TypeCorrect, TurnsAlways, PTL DEF Spec

\* A long press that did not become a chord keeps virtual KEY_HOME down until
\* the release, and the release is passed on unless a chord took the press
\* over, for every timing of taps, page keys and sleeps.
THEOREM LongPressCorrect == Spec => []LongPressHoldsHome
BY IInvAlways, PTL DEF IInv

\* No KEY_HOME click is injected into a press still in progress.
THEOREM TapCorrect == Spec => []NoTapWhileHeld
BY IInvAlways, PTL DEF IInv

\* Page releases are swallowed for a chord only while its Home press lasts.
THEOREM ComboCorrect == Spec => []ComboOnlyWhileHeld
BY IInvAlways, PTL DEF IInv

\* Media mode is on without its card only while there is no framebuffer.
THEOREM MediaCorrect == Spec => []MediaModeShowsCard
BY IInvAlways, PTL DEF IInv

-----------------------------------------------------------------------------
\* home_down is the physical key whenever the queue is drained, for every queue
\* length and whatever piled up behind a chord's sleep.
THEOREM HomeTrackedCorrect == Spec => []HomeTracked
<1>1. CatchesUp => HomeTracked
  BY DEF CatchesUp, HomeTracked, After
<1> QED BY <1>1, CatchesUpAlways, PTL

\* So is the cover as the readers see it.
THEOREM CoverTrackedCorrect == Spec => []CoverTracked
<1>1. CatchesUp => CoverTracked
  BY DEF CatchesUp, CoverTracked, After
<1> QED BY <1>1, CatchesUpAlways, PTL
=============================================================================
