-------------------------- MODULE ShimTouchProofs --------------------------
(***************************************************************************)
(* The input thread of the shim for every buffer, queue and text: the URL  *)
(* line stays inside its buffer, a press follows the pointer's move, and   *)
(* the button NetSurf believes held is under a finger, or its release was  *)
(* swallowed by the keyboard.                                              *)
(***************************************************************************)
EXTENDS ShimTouch, SequenceTheorems, TLAPS

\* The length as an integer in the buffer: the arithmetic needs the type too.
UrlInv == url \in 0..(UrlSize - 1)

LEMMA UrlNext == ASSUME UrlInv, [Next]_vars PROVE UrlInv'
<1> USE ShimAssumption DEF UrlInv
<1>1. ASSUME NEW n \in 1..4, NEW limit \in {UrlSize - 2, UrlSize - 6}, OskType(n, limit),
             n > 1 => limit = UrlSize - 6
      PROVE  UrlInv'
  BY <1>1 DEF OskType
<1>2. CASE OskTyped
  <2>1. CASE OskType(1, UrlSize - 2)
    BY <2>1, <1>1
  <2>2. ASSUME NEW n \in 1..4, OskType(n, UrlSize - 6) PROVE UrlInv'
    BY <2>2, <1>1
  <2> QED BY <1>2, <2>1, <2>2 DEF OskTyped
<1>3. CASE OskBackspace BY <1>3 DEF OskBackspace
<1>4. CASE OskClear BY <1>4 DEF OskClear
<1>5. ASSUME NEW n \in 1..(UrlSize - 1), OskEnter(n) PROVE UrlInv'
  BY <1>5 DEF OskEnter
<1>6. ASSUME NEW n \in Texts, FifoText(n) \/ FifoUrl(n) PROVE UrlInv'
  BY <1>6 DEF FifoText, FifoUrl
<1>7. CASE url' = url
  BY <1>7
<1>8. ASSUME NEW r \in Regions,
             DismissPress(r) \/ PagePress(r) \/ PageRelease(r) \/ PageMove(r) \/ IdleReport(r)
               \/ FifoClick(r)
      PROVE  url' = url
  BY <1>8 DEF DismissPress, PagePress, PageRelease, PageMove, IdleReport, FifoClick
<1>9. CASE OskRelease \/ UrlPress \/ CornerPress \/ OskOther \/ PlainKey \/ BackKey \/ ToggleKey
             \/ HomeKey
  BY <1>9 DEF OskRelease, UrlPress, CornerPress, OskOther, PlainKey, BackKey, ToggleKey, HomeKey,
              keyboard
<1>10. CASE Post \/ Take \/ SDL_ShowKeyboardForTextInput \/ UNCHANGED vars
  BY <1>10 DEF Post, Take, SDL_ShowKeyboardForTextInput, vars, keyboard
<1> QED
  BY <1>2, <1>3, <1>4, <1>5, <1>6, <1>7, <1>8, <1>9, <1>10 DEF Next, InputThread, Handler

\* g_current_url never overflows: every writer's own limit is enough, whatever
\* was appended before it.
THEOREM UrlFitsCorrect == Spec => []UrlFits
<1>1. Init => UrlInv
  BY DEF Init, UrlInv
<1>2. UrlInv => UrlFits
  BY ShimAssumption DEF UrlInv, UrlFits
<1> QED BY <1>1, <1>2, UrlNext, PTL DEF Spec

-----------------------------------------------------------------------------
(* The events on their way to NetSurf: those in the queue, then those the  *)
(* running handler has yet to post.                                        *)

pipe == q \o todo

\* A press comes right after a move to where it is made, or finds the pointer there.
Aimed(s, at) ==
  \A i \in 1..Len(s) :
    s[i].t = "down" => IF i = 1 THEN s[i].at = at ELSE s[i - 1].t = "motion" /\ s[i - 1].at = s[i].at

\* The button is held once all of s is taken.
Held(s, b) ==
  \/ \E i \in 1..Len(s) : s[i].t = "down" /\ \A j \in i..Len(s) : s[j].t # "up"
  \/ b /\ \A j \in 1..Len(s) : s[j].t # "up"

\* Events that press nothing, or let go of what they pressed.
LetsGo(e) == \E k \in 1..Len(e) : e[k].t = "up" /\ \A j \in k..Len(e) : e[j].t # "down"
Quiet(e) == (\A j \in 1..Len(e) : e[j].t # "down") \/ LetsGo(e)

PipeTyped == q \in Seq(Event) /\ todo \in Seq(Event) /\ button \in BOOLEAN
Room == Len(q) + Len(todo) <= Capacity
PipeInv == PipeTyped /\ Room /\ Aimed(pipe, cursor)
TouchInv == /\ PipeInv
            /\ Held(pipe, button) <=> press # "none"
            /\ press = "finger" => touch_down

\* What a handler posts is one of these.
LEMMA Shapes ==
  ASSUME NEW r \in Regions,
         NEW e \in {<<>>, Key, simulate_click(r), simulate_click(r) \o Key, Press(r),
                    <<Ev("up", r)>>, <<Ev("motion", r)>>}
  PROVE  /\ e \in Seq(Event) /\ Len(e) \in 0..4
         /\ \A at : Aimed(e, at)
         /\ e # <<>> => e[1].t # "down"
         /\ e # Press(r) => Quiet(e)
<1>1. CASE e = <<>> BY <1>1 DEF Quiet, Aimed
<1>2. CASE e = Key BY <1>2 DEF Key, Ev, Event, Regions, Quiet, Aimed
<1>3. CASE e = simulate_click(r) BY <1>3 DEF simulate_click, Ev, Event, Regions, Quiet, LetsGo, Aimed
<1>4. CASE e = simulate_click(r) \o Key
  <2>1. e = <<Ev("motion", r), Ev("down", r), Ev("up", r), Ev("key", "page")>>
    <3>1. ASSUME NEW a, NEW b, NEW c, NEW d PROVE <<a, b, c>> \o <<d>> = <<a, b, c, d>>
      <4> DEFINE all == {a, b, c, d}
      <4>1. /\ <<a, b, c>> \in Seq(all) /\ <<d>> \in Seq(all) /\ <<a, b, c, d>> \in Seq(all)
            /\ <<a, b, c>> \o <<d>> \in Seq(all)
        OBVIOUS
      <4>2. Len(<<a, b, c>> \o <<d>>) = 4 /\ Len(<<a, b, c, d>>) = 4
        OBVIOUS
      <4>3. \A i \in 1..4 : (<<a, b, c>> \o <<d>>)[i] = <<a, b, c, d>>[i]
        OBVIOUS
      <4> HIDE DEF all
      <4> QED BY <4>1, <4>2, <4>3, SeqEqual
    <3> QED BY <1>4, <3>1 DEF simulate_click, Key
  <2> QED BY <2>1 DEF Ev, Event, Regions, Quiet, LetsGo, Aimed
<1>5. CASE e = Press(r) BY <1>5 DEF Press, Ev, Event, Regions, Aimed
<1>6. CASE e = <<Ev("up", r)>> BY <1>6 DEF Ev, Event, Regions, Quiet, LetsGo, Aimed
<1>7. CASE e = <<Ev("motion", r)>> BY <1>7 DEF Ev, Event, Regions, Quiet, Aimed
<1> QED BY <1>1, <1>2, <1>3, <1>4, <1>5, <1>6, <1>7

LEMMA AimedConcat ==
  ASSUME NEW s \in Seq(Event), NEW e \in Seq(Event), NEW at, Aimed(s, at), Aimed(e, at),
         e # <<>> => e[1].t # "down"
  PROVE  Aimed(s \o e, at)
BY DEF Aimed

LEMMA AimedTail ==
  ASSUME NEW s \in Seq(Event), NEW at, s # <<>>, Aimed(s, at)
  PROVE  Aimed(Tail(s), IF Head(s).t = "motion" THEN Head(s).at ELSE at)
BY DEF Aimed

LEMMA HeldConcat ==
  ASSUME NEW s \in Seq(Event), NEW e \in Seq(Event), NEW b, Quiet(e), Held(s \o e, b)
  PROVE  Held(s, b) /\ ~LetsGo(e)
<1> DEFINE n == Len(s)
           m == Len(e)
<1>a. n \in Nat /\ m \in Nat /\ Len(s \o e) = n + m
  OBVIOUS
<1>b. \A i \in 1..n : i \in 1..(n + m) /\ (s \o e)[i] = s[i]
  OBVIOUS
<1>c. \A i \in 1..m : n + i \in 1..(n + m) /\ (s \o e)[n + i] = e[i]
  OBVIOUS
<1>d. \A i \in 1..(n + m) : i \in 1..n \/ \E k \in 1..m : i = n + k
  <2>1. ASSUME NEW i \in 1..(n + m), i \notin 1..n PROVE i - n \in 1..m /\ i = n + (i - n)
    BY <2>1, <1>a
  <2> QED BY <2>1
<1> HIDE DEF n, m
<1>1. CASE \E i \in 1..(n + m) : (s \o e)[i].t = "down" /\ \A j \in i..(n + m) : (s \o e)[j].t # "up"
  <2>1. PICK i \in 1..(n + m) : (s \o e)[i].t = "down" /\ \A j \in i..(n + m) : (s \o e)[j].t # "up"
    BY <1>1
  <2>2. CASE i \in 1..n
    <3>1. \A j \in i..n : s[j].t # "up"
      <4>1. \A j \in i..n : j \in 1..n /\ j \in i..(n + m)
        BY <1>a, <2>2
      <4> QED BY <1>b, <2>1, <4>1
    <3>2. s[i].t = "down"
      BY <1>b, <2>1, <2>2
    <3>3. \A k \in 1..m : e[k].t # "up"
      <4>1. \A k \in 1..m : n + k \in i..(n + m)
        BY <1>a, <2>2
      <4> QED BY <1>c, <2>1, <4>1
    <3> QED BY <2>2, <3>1, <3>2, <3>3 DEF Held, LetsGo, n, m
  <2>3. ASSUME NEW k \in 1..m, i = n + k PROVE FALSE
    <3>1. e[k].t = "down" /\ \A j \in k..m : e[j].t # "up"
      <4>1. \A j \in k..m : j \in 1..m /\ n + j \in i..(n + m)
        BY <1>a, <2>3
      <4> QED BY <1>c, <2>1, <2>3, <4>1
    <3>2. PICK u \in 1..m : e[u].t = "up" /\ \A j \in u..m : e[j].t # "down"
      BY <3>1 DEF Quiet, LetsGo, m
    <3>3. u \in k..m \/ k \in u..m
      BY <1>a
    <3> QED BY <3>1, <3>2, <3>3
  <2> QED BY <1>d, <2>2, <2>3
<1>2. CASE b /\ \A j \in 1..(n + m) : (s \o e)[j].t # "up"
  <2>1. (\A j \in 1..n : s[j].t # "up") /\ (\A k \in 1..m : e[k].t # "up")
    BY <1>b, <1>c, <1>2
  <2> QED BY <1>2, <2>1 DEF Held, LetsGo, n, m
<1> QED BY <1>a, <1>1, <1>2 DEF Held

\* Events without UP leave held what is held; with a DOWN they hold the button.
LEMMA HeldKept ==
  ASSUME NEW s \in Seq(Event), NEW e \in Seq(Event), NEW b, \A j \in 1..Len(e) : e[j].t # "up",
         Held(s, b) \/ \E i \in 1..Len(e) : e[i].t = "down"
  PROVE  Held(s \o e, b)
<1> DEFINE n == Len(s)
           m == Len(e)
           c == s \o e
<1>a. n \in Nat /\ m \in Nat /\ Len(c) = n + m
  OBVIOUS
<1>b. \A i \in 1..n : i \in 1..(n + m) /\ c[i] = s[i]
  OBVIOUS
<1>c. \A i \in 1..m : n + i \in 1..(n + m) /\ c[n + i] = e[i]
  OBVIOUS
<1>d. \A i \in 1..(n + m) : i \in 1..n \/ (i - n \in 1..m /\ i = n + (i - n))
  BY <1>a
<1>e. \A j \in 1..m : e[j].t # "up"
  OBVIOUS
<1> HIDE DEF n, m, c
<1>1. ASSUME NEW i \in 1..m, e[i].t = "down" PROVE Held(c, b)
  <2>1. n + i \in 1..(n + m) /\ c[n + i].t = "down"
    BY <1>c, <1>1
  <2>2. ASSUME NEW j \in (n + i)..(n + m) PROVE c[j].t # "up"
    <3>1. j - n \in 1..m /\ j = n + (j - n)
      BY <1>a
    <3> QED BY <1>c, <1>e, <3>1
  <2> QED BY <1>a, <2>1, <2>2 DEF Held
<1>2. ASSUME NEW i \in 1..n, s[i].t = "down", \A j \in i..n : s[j].t # "up" PROVE Held(c, b)
  <2>1. i \in 1..(n + m) /\ c[i].t = "down"
    BY <1>b, <1>2
  <2>2. ASSUME NEW j \in i..(n + m) PROVE c[j].t # "up"
    <3>1. j \in 1..(n + m) /\ (j \in 1..n => j \in i..n)
      BY <1>a
    <3> QED BY <1>b, <1>c, <1>d, <1>e, <1>2, <3>1
  <2> QED BY <1>a, <2>1, <2>2 DEF Held
<1>3. ASSUME b, \A j \in 1..n : s[j].t # "up" PROVE Held(c, b)
  <2>1. \A j \in 1..(n + m) : c[j].t # "up"
    BY <1>b, <1>c, <1>d, <1>e, <1>3
  <2> QED BY <1>a, <1>3, <2>1 DEF Held
<1>4. CASE Held(s, b)
  BY <1>2, <1>3, <1>4 DEF Held, n, c
<1>5. CASE \E i \in 1..Len(e) : e[i].t = "down"
  BY <1>1, <1>5 DEF m, c
<1> QED BY <1>4, <1>5

LEMMA HeldTail ==
  ASSUME NEW s \in Seq(Event), NEW b \in BOOLEAN, NEW c \in BOOLEAN, s # <<>>, Held(Tail(s), c),
         c => Head(s).t = "down" \/ (b /\ Head(s).t # "up")
  PROVE  Held(s, b)
<1> DEFINE n == Len(Tail(s))
<1>a. n \in Nat /\ Len(s) = n + 1 /\ Head(s) = s[1]
  OBVIOUS
<1>b. \A i \in 1..n : Tail(s)[i] = s[i + 1]
  OBVIOUS
<1> HIDE DEF n
<1>c. \A j \in 2..(n + 1) : j - 1 \in 1..n /\ s[j] = Tail(s)[j - 1]
  BY <1>a, <1>b
<1>1. CASE \E i \in 1..n : Tail(s)[i].t = "down" /\ \A j \in i..n : Tail(s)[j].t # "up"
  <2>1. PICK i \in 1..n : Tail(s)[i].t = "down" /\ \A j \in i..n : Tail(s)[j].t # "up"
    BY <1>1
  <2>2. s[i + 1].t = "down" /\ i + 1 \in 1..(n + 1)
    BY <1>a, <1>b, <2>1
  <2>3. ASSUME NEW j \in (i + 1)..(n + 1) PROVE s[j].t # "up"
    <3>1. j - 1 \in i..n /\ j \in 2..(n + 1)
      BY <1>a
    <3> QED BY <1>c, <2>1, <3>1
  <2> QED BY <1>a, <2>2, <2>3 DEF Held
<1>2. CASE c /\ \A j \in 1..n : Tail(s)[j].t # "up"
  <2>1. \A j \in 2..(n + 1) : s[j].t # "up"
    BY <1>c, <1>2
  <2>2. s[1].t # "up" /\ (s[1].t = "down" \/ b)
    BY <1>a, <1>2
  <2>3. \A j \in 1..(n + 1) : s[j].t # "up"
    <3>1. \A j \in 1..(n + 1) : j = 1 \/ j \in 2..(n + 1)
      BY <1>a
    <3> QED BY <2>1, <2>2, <3>1
  <2>4. 1 \in 1..(n + 1)
    BY <1>a
  <2> QED BY <1>a, <2>2, <2>3, <2>4 DEF Held
<1> QED BY <1>1, <1>2 DEF Held, n

\* Taking an event leaves held what is held.
LEMMA TailHeld ==
  ASSUME NEW s \in Seq(Event), NEW b \in BOOLEAN, NEW c \in BOOLEAN, s # <<>>, Held(s, b),
         Head(s).t = "down" \/ (b /\ Head(s).t # "up") => c
  PROVE  Held(Tail(s), c)
<1> DEFINE n == Len(Tail(s))
           t == Tail(s)
<1>a. n \in Nat /\ Len(s) = n + 1 /\ Head(s) = s[1] /\ Len(t) = n
  OBVIOUS
<1>b. \A i \in 1..n : t[i] = s[i + 1]
  OBVIOUS
<1> HIDE DEF n, t
<1>1. ASSUME NEW i \in 1..(n + 1), s[i].t = "down", \A j \in i..(n + 1) : s[j].t # "up"
      PROVE  Held(t, c)
  <2>1. CASE i = 1
    <3>1. c
      BY <1>a, <1>1, <2>1
    <3>2. \A j \in 1..n : j + 1 \in i..(n + 1)
      BY <1>a, <2>1
    <3>3. \A j \in 1..n : t[j].t # "up"
      BY <1>b, <1>1, <3>2
    <3> QED BY <1>a, <3>1, <3>3 DEF Held
  <2>2. CASE i # 1
    <3>1. i - 1 \in 1..n /\ (i - 1) + 1 = i /\ \A j \in (i - 1)..n : j \in 1..n /\ j + 1 \in i..(n + 1)
      BY <1>a, <2>2
    <3>2. t[i - 1].t = "down"
      BY <1>b, <1>1, <3>1
    <3>3. \A j \in (i - 1)..n : t[j].t # "up"
      BY <1>b, <1>1, <3>1
    <3> QED BY <1>a, <3>1, <3>2, <3>3 DEF Held
  <2> QED BY <2>1, <2>2
<1>2. ASSUME b, \A j \in 1..(n + 1) : s[j].t # "up" PROVE Held(t, c)
  <2>1. 1 \in 1..(n + 1) /\ \A j \in 1..n : j + 1 \in 1..(n + 1)
    BY <1>a
  <2>2. c
    BY <1>a, <1>2, <2>1
  <2>3. \A j \in 1..n : t[j].t # "up"
    BY <1>b, <1>2, <2>1
  <2> QED BY <1>a, <2>2, <2>3 DEF Held
<1> QED BY <1>a, <1>1, <1>2 DEF Held, t

\* Posting moves an event from the handler to the queue; taking removes the first.
LEMMA PipePost ==
  ASSUME NEW s \in Seq(Event), NEW e \in Seq(Event), e # <<>>
  PROVE  Append(s, Head(e)) \o Tail(e) = s \o e
<1>1. Head(e) \in Event /\ Tail(e) \in Seq(Event) /\ <<Head(e)>> \in Seq(Event)
  OBVIOUS
<1>2. <<Head(e)>> \o Tail(e) = e
  <2>1. <<Head(e)>> \o Tail(e) \in Seq(Event) /\ Len(<<Head(e)>> \o Tail(e)) = Len(e)
    BY <1>1
  <2>2. \A i \in 1..Len(e) : (<<Head(e)>> \o Tail(e))[i] = e[i]
    BY <1>1
  <2> QED BY <2>1, <2>2, SeqEqual
<1>3. Append(s, Head(e)) = s \o <<Head(e)>>
  BY <1>1, AppendIsConcat
<1>4. (s \o <<Head(e)>>) \o Tail(e) = s \o (<<Head(e)>> \o Tail(e))
  BY <1>1, ConcatAssociative
<1> QED BY <1>2, <1>3, <1>4

LEMMA PipeTake ==
  ASSUME NEW s \in Seq(Event), NEW e \in Seq(Event), s # <<>>
  PROVE  /\ s \o e # <<>> /\ Head(s \o e) = Head(s)
         /\ Tail(s \o e) = Tail(s) \o e
<1>1. s \o e \in Seq(Event) /\ Len(s \o e) = Len(s) + Len(e) /\ Len(s) > 0
  OBVIOUS
<1>2. s \o e # <<>> /\ Head(s \o e) = Head(s)
  BY <1>1
<1>3. Tail(s \o e) \in Seq(Event) /\ Tail(s) \o e \in Seq(Event)
  BY <1>1, <1>2
<1>4. Len(Tail(s \o e)) = Len(Tail(s) \o e)
  BY <1>1, <1>2
<1>5. \A i \in 1..Len(Tail(s \o e)) : Tail(s \o e)[i] = (Tail(s) \o e)[i]
  BY <1>1, <1>2
<1> QED BY <1>2, <1>3, <1>4, <1>5, SeqEqual

\* Every handler starts when the last one is done, and posts one of the shapes.
LEMMA Handlers ==
  ASSUME InputThread
  PROVE  /\ Free /\ UNCHANGED <<q, cursor, button>>
         /\ \E r \in Regions :
              todo' \in {<<>>, Key, simulate_click(r), simulate_click(r) \o Key, Press(r),
                         <<Ev("up", r)>>, <<Ev("motion", r)>>}
<1> DEFINE Shaped == \E r \in Regions :
              todo' \in {<<>>, Key, simulate_click(r), simulate_click(r) \o Key, Press(r),
                         <<Ev("up", r)>>, <<Ev("motion", r)>>}
           Good == Free /\ UNCHANGED <<q, cursor, button>> /\ Shaped
<1> SUFFICES Good
  OBVIOUS
<1>a. "url" \in Regions /\ "tool" \in Regions
  BY DEF Regions
<1> USE <1>a DEF netsurf, keyboard, OskPress
<1>1. CASE OskRelease \/ CornerPress \/ OskOther \/ ToggleKey
  BY <1>1 DEF OskRelease, CornerPress, OskOther, ToggleKey, Free
<1>2. CASE UrlPress \/ HomeKey
  BY <1>2 DEF UrlPress, HomeKey, FocusUrl
<1>3. ASSUME NEW r \in Regions, DismissPress(r) \/ PagePress(r) \/ PageRelease(r) \/ PageMove(r) PROVE Good
  BY <1>3 DEF DismissPress, PagePress, PageRelease, PageMove
<1>4. ASSUME NEW r \in Regions, IdleReport(r) \/ FifoClick(r) PROVE Good
  BY <1>4 DEF IdleReport, FifoClick, Free
<1>5. CASE OskTyped \/ OskBackspace \/ OskClear
  BY <1>5 DEF OskTyped, OskType, OskBackspace, OskClear
<1>6. ASSUME NEW n \in 1..(UrlSize - 1), OskEnter(n) PROVE Good
  BY <1>6 DEF OskEnter
<1>7. CASE PlainKey \/ BackKey
  BY <1>7 DEF PlainKey, BackKey
<1>8. ASSUME NEW n \in Texts, FifoText(n) \/ FifoUrl(n) PROVE Good
  BY <1>8 DEF FifoText, FifoUrl
<1> HIDE DEF Good
<1> QED BY <1>1, <1>2, <1>3, <1>4, <1>5, <1>6, <1>7, <1>8 DEF InputThread, Handler

\* With room for every handler nothing is dropped, and a press stays behind its move.
LEMMA PipeNext == ASSUME KeepsUp, PipeInv, [Next]_vars PROVE PipeInv'
<1> USE ShimAssumption DEF PipeInv, PipeTyped
<1>1. CASE InputThread
  <2>1. PICK r \in Regions :
              todo' \in {<<>>, Key, simulate_click(r), simulate_click(r) \o Key, Press(r),
                         <<Ev("up", r)>>, <<Ev("motion", r)>>}
    BY <1>1, Handlers
  <2>2. /\ todo' \in Seq(Event) /\ Len(todo') \in 0..4
        /\ Aimed(todo', cursor) /\ (todo' # <<>> => todo'[1].t # "down")
    BY <2>1, Shapes
  <2>3. Free /\ UNCHANGED <<q, cursor, button>>
    BY <1>1, Handlers
  <2>4. Len(q) + 4 <= Capacity /\ todo = <<>>
    <3>1. Len(FocusUrl) = 4
      BY DEF FocusUrl, simulate_click, Key
    <3> QED BY <2>3, <3>1 DEF Free
  <2>5. pipe = q
    BY <2>4 DEF pipe
  <2>6. Aimed(q \o todo', cursor)
    BY <2>2, <2>5, AimedConcat
  <2>7. Room'
    <3>1. Len(q') = Len(q) /\ Len(q) \in Nat
      BY <2>3
    <3>2. ASSUME NEW n \in Nat, NEW m \in 0..4, n + 4 <= Capacity PROVE n + m <= Capacity
      BY <3>2
    <3>3. Len(todo') \in 0..4 /\ Len(q) + 4 <= Capacity
      BY <2>2, <2>4
    <3> QED BY <3>1, <3>2, <3>3 DEF Room
  <2> QED BY <2>2, <2>3, <2>6, <2>7 DEF pipe
<1>2. CASE Post
  <2>1. todo # <<>> /\ todo' = Tail(todo) /\ UNCHANGED <<cursor, button>>
    BY <1>2 DEF Post, netsurf
  <2>2. Len(q) < Capacity
    BY <2>1 DEF Room
  <2>3. q' = Append(q, Head(todo))
    BY <1>2, <2>2 DEF Post
  <2>4. pipe' = pipe
    BY <2>1, <2>3, PipePost DEF pipe
  <2>5. q' \in Seq(Event) /\ todo' \in Seq(Event) /\ Room'
    BY <2>1, <2>3 DEF Room
  <2> QED BY <2>1, <2>4, <2>5
<1>3. CASE Take
  <2>1. /\ q # <<>> /\ q' = Tail(q) /\ todo' = todo
        /\ cursor' = IF Head(q).t = "motion" THEN Head(q).at ELSE cursor
    BY <1>3 DEF Take
  <2>2. button' \in BOOLEAN
    BY <1>3 DEF Take
  <2>3. q' \in Seq(Event) /\ Room'
    BY <2>1 DEF Room
  <2>4. pipe # <<>> /\ Head(pipe) = Head(q) /\ pipe' = Tail(pipe) /\ pipe \in Seq(Event)
    BY <2>1, PipeTake DEF pipe
  <2>5. Aimed(Tail(pipe), cursor')
    BY <2>1, <2>4, AimedTail
  <2> QED BY <2>1, <2>2, <2>3, <2>4, <2>5
<1>4. CASE SDL_ShowKeyboardForTextInput \/ UNCHANGED vars
  BY <1>4 DEF SDL_ShowKeyboardForTextInput, vars, netsurf, pipe, Room
<1> QED BY <1>1, <1>2, <1>3, <1>4 DEF Next

LEMMA PipeInit == Init => PipeInv
<1> SUFFICES ASSUME Init PROVE PipeInv
  OBVIOUS
<1>1. q = <<>> /\ todo = <<>> /\ button \in BOOLEAN
  BY DEF Init
<1>2. pipe = <<>> /\ Len(<<>>) = 0
  BY <1>1 DEF pipe
<1> QED BY <1>1, <1>2, ShimAssumption DEF PipeInv, PipeTyped, Room, Aimed

\* A press reaches NetSurf with its pointer where the press was made, whatever the
\* handlers posted before it, while the queue has room for what they post.
THEOREM ClickHitsCorrect == ASSUME KeepsUp PROVE Spec => ClickHits
<1> DEFINE Hit == q # <<>> /\ Head(q).t = "down" /\ q' = Tail(q) => cursor = Head(q).at
<1>1. PipeInv => Hit
  <2> SUFFICES ASSUME PipeInv, q # <<>>, Head(q).t = "down" PROVE cursor = Head(q).at
    OBVIOUS
  <2>1. pipe # <<>> /\ Head(pipe) = Head(q) /\ pipe \in Seq(Event)
    BY PipeTake DEF pipe, PipeInv, PipeTyped
  <2>2. 1 \in 1..Len(pipe) /\ pipe[1] = Head(q)
    BY <2>1
  <2> QED BY <2>2 DEF PipeInv, Aimed
<1>2. PipeInv /\ [Next]_vars => PipeInv'
  BY PipeNext
<1>3. PipeInv /\ [Next]_vars => [Hit]_vars
  BY <1>1
<1> QED BY <1>2, <1>3, PipeInit, PTL DEF Spec, ClickHits

-----------------------------------------------------------------------------
(* The types, for any queue and whether or not the main thread keeps up.   *)

FlagsTyped == osk_active \in BOOLEAN /\ g_url_bar_focused \in BOOLEAN /\ touch_down \in BOOLEAN
PressTyped == press \in {"none", "finger", "lost"}
QueueTyped == /\ todo \in Seq(Event) /\ q \in Seq(Event) /\ Len(q) <= Capacity
              /\ cursor \in Regions /\ button \in BOOLEAN

LEMMA FlagsNext == ASSUME FlagsTyped, [Next]_vars PROVE FlagsTyped'
<1> USE DEF FlagsTyped, Unfocus, OskPress, keyboard
<1>1. CASE OskRelease \/ UrlPress \/ CornerPress
  BY <1>1 DEF OskRelease, UrlPress, CornerPress
<1>2. ASSUME NEW r \in Regions,
             DismissPress(r) \/ PagePress(r) \/ PageRelease(r) \/ PageMove(r) \/ IdleReport(r)
               \/ FifoClick(r)
      PROVE  FlagsTyped'
  BY <1>2 DEF DismissPress, PagePress, PageRelease, PageMove, IdleReport, FifoClick
<1>3. CASE OskTyped \/ OskBackspace \/ OskClear \/ OskOther
  BY <1>3 DEF OskTyped, OskType, OskBackspace, OskClear, OskOther
<1>4. ASSUME NEW n \in 1..(UrlSize - 1), OskEnter(n) PROVE FlagsTyped'
  BY <1>4 DEF OskEnter
<1>5. CASE PlainKey \/ BackKey \/ ToggleKey \/ HomeKey
  BY <1>5 DEF PlainKey, BackKey, ToggleKey, HomeKey
<1>6. ASSUME NEW n \in Texts, FifoText(n) \/ FifoUrl(n) PROVE FlagsTyped'
  BY <1>6 DEF FifoText, FifoUrl
<1>7. CASE Post \/ Take \/ SDL_ShowKeyboardForTextInput \/ UNCHANGED vars
  BY <1>7 DEF Post, Take, SDL_ShowKeyboardForTextInput, vars
<1> HIDE DEF FlagsTyped
<1> QED BY <1>1, <1>2, <1>3, <1>4, <1>5, <1>6, <1>7 DEF Next, InputThread, Handler

\* queue_event drops what does not fit.
LEMMA QueueNext == ASSUME QueueTyped, [Next]_vars PROVE QueueTyped'
<1> USE ShimAssumption DEF QueueTyped
<1>1. CASE InputThread
  <2>1. UNCHANGED <<q, cursor, button>> /\ todo' \in Seq(Event)
    BY <1>1, Handlers, Shapes
  <2> QED BY <2>1
<1>2. CASE Post
  <2>1. todo # <<>> /\ todo' = Tail(todo) /\ UNCHANGED <<cursor, button>>
    BY <1>2 DEF Post, netsurf
  <2>2. q' = q \/ (q' = Append(q, Head(todo)) /\ Len(q) < Capacity)
    BY <1>2 DEF Post
  <2>3. Head(todo) \in Event /\ Tail(todo) \in Seq(Event)
    BY <2>1
  <2>4. q' \in Seq(Event) /\ Len(q') <= Capacity
    BY <2>2, <2>3
  <2> QED BY <2>1, <2>3, <2>4
<1>3. CASE Take
  <2>1. q # <<>> /\ q' = Tail(q) /\ todo' = todo
        /\ cursor' = IF Head(q).t = "motion" THEN Head(q).at ELSE cursor
    BY <1>3 DEF Take
  <2>2. Head(q) \in Event
    BY <2>1
  <2>3. cursor' \in Regions
    BY <2>1, <2>2 DEF Event
  <2>4. button' \in BOOLEAN
    BY <1>3 DEF Take
  <2>5. q' \in Seq(Event) /\ Len(q') <= Capacity
    BY <2>1
  <2> QED BY <2>1, <2>3, <2>4, <2>5
<1>4. CASE SDL_ShowKeyboardForTextInput \/ UNCHANGED vars
  BY <1>4 DEF SDL_ShowKeyboardForTextInput, vars, netsurf
<1> QED BY <1>1, <1>2, <1>3, <1>4 DEF Next

LEMMA PressNext == ASSUME PressTyped, [Next]_vars PROVE PressTyped'
<1>1. CASE InputThread
  BY <1>1 DEF InputThread, Tracks, PressTyped
<1>2. CASE Post \/ Take \/ SDL_ShowKeyboardForTextInput \/ UNCHANGED vars
  BY <1>2 DEF Post, Take, SDL_ShowKeyboardForTextInput, vars, PressTyped
<1> QED BY <1>1, <1>2 DEF Next

\* Every variable of the input thread keeps its type, and the queue never holds more
\* than it has room for (queue_event), keyboard and FIFO commands under a finger included.
THEOREM TouchTypeCorrect == Spec => []TypeOK
<1> DEFINE Types == UrlInv /\ FlagsTyped /\ QueueTyped /\ PressTyped
<1>1. Init => Types
  <2> SUFFICES ASSUME Init PROVE Types
    OBVIOUS
  <2>1. UrlInv /\ FlagsTyped /\ PressTyped
    BY DEF Init, UrlInv, FlagsTyped, PressTyped
  <2>2. q = <<>> /\ todo = <<>> /\ cursor \in Regions /\ button \in BOOLEAN /\ Len(<<>>) = 0
    BY DEF Init, Regions
  <2>3. QueueTyped
    BY <2>2, ShimAssumption DEF QueueTyped
  <2> QED BY <2>1, <2>3
<1>2. Types /\ [Next]_vars => Types'
  BY UrlNext, FlagsNext, QueueNext, PressNext
<1>3. Types => TypeOK
  BY ShimAssumption DEF UrlInv, FlagsTyped, QueueTyped, PressTyped, TypeOK
<1> HIDE DEF Types
<1> QED BY <1>1, <1>2, <1>3, PTL DEF Spec

-----------------------------------------------------------------------------
(* The button.                                                             *)

\* What each shape posts: an UP ends what is held, a press alone begins it.
LEMMA ShapePosts ==
  ASSUME NEW r \in Regions,
         NEW e \in {<<>>, Key, simulate_click(r), simulate_click(r) \o Key, Press(r),
                    <<Ev("up", r)>>, <<Ev("motion", r)>>}
  PROVE  \/ LetsGo(e) /\ \E i \in 1..Len(e) : e[i].t = "up"
         \/ \A i \in 1..Len(e) : e[i].t \notin {"up", "down"}
         \/ e = Press(r) /\ (\A i \in 1..Len(e) : e[i].t # "up") /\ \E i \in 1..Len(e) : e[i].t = "down"
<1>1. CASE e \in {<<>>, Key, <<Ev("motion", r)>>}
  BY <1>1 DEF Key, Ev
<1>2. CASE e \in {simulate_click(r), <<Ev("up", r)>>}
  BY <1>2 DEF simulate_click, Ev, LetsGo
<1>3. CASE e = simulate_click(r) \o Key
  <2>1. Quiet(e)
    <3>1. simulate_click(r) \o Key # Press(r)
      BY DEF simulate_click, Key, Press
    <3> QED BY <1>3, <3>1, Shapes
  <2>2. Len(e) = 4 /\ e[2].t = "down"
    BY <1>3 DEF simulate_click, Key, Ev
  <2>3. LetsGo(e)
    BY <2>1, <2>2 DEF Quiet
  <2> QED BY <2>3 DEF LetsGo
<1>4. CASE e = Press(r)
  BY <1>4 DEF Press, Ev
<1> QED BY <1>1, <1>2, <1>3, <1>4

\* Who may lift or put down a finger, and what is posted then.
LEMMA Fingers ==
  ASSUME InputThread
  PROVE  \/ UNCHANGED touch_down
         \/ touch_down' = TRUE
         \/ touch_down' = FALSE /\ osk_active
         \/ Posts("up")
<1> USE DEF OskPress, keyboard
<1>1. ASSUME NEW r \in Regions, PageRelease(r) PROVE Posts("up")
  BY <1>1 DEF PageRelease, Posts, Ev
<1>2. CASE OskRelease \/ UrlPress \/ CornerPress
  BY <1>2 DEF OskRelease, UrlPress, CornerPress
<1>3. ASSUME NEW r \in Regions,
             DismissPress(r) \/ PagePress(r) \/ PageMove(r) \/ IdleReport(r) \/ FifoClick(r)
      PROVE  UNCHANGED touch_down \/ touch_down' = TRUE
  BY <1>3 DEF DismissPress, PagePress, PageMove, IdleReport, FifoClick
<1>4. CASE OskTyped \/ OskBackspace \/ OskClear \/ OskOther
  BY <1>4 DEF OskTyped, OskType, OskBackspace, OskClear, OskOther
<1>5. ASSUME NEW n \in 1..(UrlSize - 1), OskEnter(n) PROVE touch_down' = TRUE
  BY <1>5 DEF OskEnter
<1>6. CASE PlainKey \/ BackKey \/ ToggleKey \/ HomeKey
  BY <1>6 DEF PlainKey, BackKey, ToggleKey, HomeKey
<1>7. ASSUME NEW n \in Texts, FifoText(n) \/ FifoUrl(n) PROVE UNCHANGED touch_down
  BY <1>7 DEF FifoText, FifoUrl
<1> QED BY <1>1, <1>2, <1>3, <1>4, <1>5, <1>6, <1>7 DEF InputThread, Handler

\* A handler that presses leaves the finger on the panel.
LEMMA Presses ==
  ASSUME InputThread, Posts("down"), ~Posts("up")
  PROVE  touch_down' = TRUE
<1> USE DEF OskPress, keyboard
<1>a. ASSUME NEW r \in Regions,
             todo' \in {<<>>, Key, simulate_click(r), simulate_click(r) \o Key,
                        <<Ev("up", r)>>, <<Ev("motion", r)>>}
      PROVE  FALSE
  <2>1. todo' # Press(r)
    BY <1>a DEF Key, simulate_click, Press, Ev
  <2>2. todo' \in {<<>>, Key, simulate_click(r), simulate_click(r) \o Key, Press(r),
                   <<Ev("up", r)>>, <<Ev("motion", r)>>}
    BY <1>a
  <2>3. \/ \E i \in 1..Len(todo') : todo'[i].t = "up"
        \/ \A i \in 1..Len(todo') : todo'[i].t \notin {"up", "down"}
    BY <2>1, <2>2, ShapePosts
  <2> QED BY <2>3 DEF Posts
<1>b. "url" \in Regions /\ "tool" \in Regions
  BY DEF Regions
<1>1. ASSUME NEW r \in Regions, PagePress(r) PROVE touch_down' = TRUE
  BY <1>1 DEF PagePress
<1>2. ASSUME NEW r \in Regions,
             DismissPress(r) \/ PageRelease(r) \/ PageMove(r) \/ FifoClick(r)
      PROVE  FALSE
  BY <1>2, <1>a DEF DismissPress, PageRelease, PageMove, FifoClick
<1>3. CASE todo' = <<>>
  BY <1>3, <1>a, <1>b
<1>4. CASE OskRelease \/ CornerPress \/ ToggleKey \/ OskOther \/ \E r \in Regions : IdleReport(r)
  BY <1>3, <1>4 DEF OskRelease, CornerPress, ToggleKey, OskOther, IdleReport, Free
<1>5. CASE UrlPress \/ HomeKey
  BY <1>5, <1>a, <1>b DEF UrlPress, HomeKey, FocusUrl
<1>6. CASE OskTyped \/ OskBackspace \/ OskClear
  BY <1>6, <1>a, <1>b DEF OskTyped, OskType, OskBackspace, OskClear
<1>7. ASSUME NEW n \in 1..(UrlSize - 1), OskEnter(n) PROVE FALSE
  BY <1>7, <1>a, <1>b DEF OskEnter
<1>8. CASE PlainKey \/ BackKey
  BY <1>8, <1>a, <1>b DEF PlainKey, BackKey
<1>9. ASSUME NEW n \in Texts, FifoText(n) \/ FifoUrl(n) PROVE FALSE
  BY <1>9, <1>a, <1>b DEF FifoText, FifoUrl
<1> QED BY <1>1, <1>2, <1>4, <1>5, <1>6, <1>7, <1>8, <1>9 DEF InputThread, Handler

\* What is held is the last DOWN without an UP, and its finger is on the panel
\* unless it was lifted under the keyboard.
LEMMA TouchNext == ASSUME KeepsUp, TouchInv, [Next]_vars PROVE TouchInv'
<1>a. PipeInv /\ PipeInv' /\ PipeTyped
  BY PipeNext DEF TouchInv, PipeInv
<1>1. CASE InputThread
  <2>1. PICK r \in Regions :
              todo' \in {<<>>, Key, simulate_click(r), simulate_click(r) \o Key, Press(r),
                         <<Ev("up", r)>>, <<Ev("motion", r)>>}
    BY <1>1, Handlers
  <2>2. Free /\ UNCHANGED <<q, cursor, button>> /\ todo' \in Seq(Event)
    BY <1>1, <1>a, Handlers DEF PipeInv, PipeTyped
  <2>3. pipe = q /\ pipe' = q \o todo' /\ q \in Seq(Event)
    BY <1>a, <2>2 DEF pipe, Free, PipeTyped
  <2>4. press' = IF Posts("up") THEN "none" ELSE IF Posts("down") THEN "finger"
                 ELSE IF press = "finger" /\ osk_active /\ ~touch_down' THEN "lost" ELSE press
    BY <1>1 DEF InputThread, Tracks
  <2>5. CASE LetsGo(todo') /\ Posts("up")
    <3>1. ~Held(pipe', button')
      <4>1. Quiet(todo')
        BY <2>5 DEF Quiet
      <4> QED BY <2>2, <2>3, <2>5, <4>1, HeldConcat
    <3> QED BY <1>a, <2>4, <2>5, <3>1 DEF TouchInv
  <2>6. CASE ~Posts("up") /\ ~Posts("down")
    <3>1. Held(pipe', button') <=> Held(pipe, button)
      <4>1. Quiet(todo') /\ \A j \in 1..Len(todo') : todo'[j].t # "up"
        BY <2>6 DEF Quiet, Posts
      <4> QED BY <2>2, <2>3, <4>1, HeldConcat, HeldKept
    <3>2. press' # "none" <=> press # "none"
      BY <2>4, <2>6
    <3>3. press' = "finger" => touch_down'
      <4>1. press' = "finger" => press = "finger" /\ ~(osk_active /\ ~touch_down')
        BY <2>4, <2>6
      <4> QED BY <1>1, <2>6, <4>1, Fingers DEF TouchInv
    <3> QED BY <1>a, <3>1, <3>2, <3>3 DEF TouchInv
  <2>7. CASE ~Posts("up") /\ Posts("down")
    <3>1. Held(pipe', button')
      <4>1. \A j \in 1..Len(todo') : todo'[j].t # "up"
        BY <2>7 DEF Posts
      <4>2. \E i \in 1..Len(todo') : todo'[i].t = "down"
        BY <2>7 DEF Posts
      <4>3. Held(q \o todo', button)
        BY <2>2, <2>3, <4>1, <4>2, HeldKept
      <4> QED BY <2>2, <2>3, <4>3
    <3>2. touch_down'
      BY <1>1, <2>7, Presses
    <3> QED BY <1>a, <2>4, <2>7, <3>1, <3>2 DEF TouchInv
  <2>8. LetsGo(todo') \/ ~Posts("up")
    BY <2>1, ShapePosts DEF Posts
  <2> QED BY <2>5, <2>6, <2>7, <2>8
<1>2. CASE Post
  <2>1. todo # <<>> /\ todo' = Tail(todo) /\ UNCHANGED <<button, touch_down, press>>
    BY <1>2 DEF Post, netsurf, keyboard
  <2>2. Len(q) < Capacity
    BY <1>a, <2>1, ShimAssumption DEF PipeInv, PipeTyped, Room
  <2>3. q' = Append(q, Head(todo))
    BY <1>2, <2>2 DEF Post
  <2>4. pipe' = pipe
    BY <1>a, <2>1, <2>3, PipePost DEF pipe, PipeTyped
  <2> QED BY <1>a, <2>1, <2>4 DEF TouchInv
<1>3. CASE Take
  <2>1. q # <<>> /\ q' = Tail(q) /\ UNCHANGED <<todo, touch_down, press>>
    BY <1>3 DEF Take, keyboard
  <2>2. pipe # <<>> /\ Head(pipe) = Head(q) /\ pipe' = Tail(pipe) /\ pipe \in Seq(Event)
    BY <1>a, <2>1, PipeTake DEF pipe, PipeTyped
  <2>3. button' <=> Head(q).t = "down" \/ (button /\ Head(q).t # "up")
    BY <1>3 DEF Take
  <2>4. button \in BOOLEAN /\ button' \in BOOLEAN
    BY <1>a DEF PipeInv, PipeTyped
  <2>5. Held(pipe', button') <=> Held(pipe, button)
    BY <2>2, <2>3, <2>4, HeldTail, TailHeld
  <2> QED BY <1>a, <2>1, <2>5 DEF TouchInv
<1>4. CASE SDL_ShowKeyboardForTextInput
  <2>1. UNCHANGED <<q, todo, button, touch_down, press>>
    BY <1>4 DEF SDL_ShowKeyboardForTextInput, netsurf
  <2> QED BY <1>a, <2>1 DEF TouchInv, pipe
<1>5. CASE UNCHANGED vars
  BY <1>a, <1>5 DEF TouchInv, pipe, vars, keyboard, netsurf
<1> QED BY <1>1, <1>2, <1>3, <1>4, <1>5 DEF Next

\* Each DOWN finds its UP, or lost it to a keyboard that opened under the finger,
\* whatever keys, phone and NetSurf do meanwhile, while the queue has room.
THEOREM NoStuckButtonCorrect == ASSUME KeepsUp PROVE Spec => []NoStuckButton
<1>1. Init => TouchInv
  <2> SUFFICES ASSUME Init PROVE TouchInv
    OBVIOUS
  <2>1. pipe = <<>> /\ Len(<<>>) = 0 /\ ~button /\ press = "none"
    BY DEF Init, pipe
  <2> QED BY <2>1, PipeInit DEF TouchInv, Held
<1>2. TouchInv /\ [Next]_vars => TouchInv'
  BY TouchNext
<1>3. TouchInv /\ TypeOK => NoStuckButton
  <2> SUFFICES ASSUME TouchInv, TypeOK, todo = <<>>, q = <<>>, ~touch_down
               PROVE  button <=> press = "lost"
    BY DEF NoStuckButton
  <2>1. pipe = <<>> /\ Len(<<>>) = 0
    BY DEF pipe
  <2>2. Held(pipe, button) <=> button
    BY <2>1 DEF Held
  <2>3. press \in {"none", "finger", "lost"}
    BY DEF TypeOK
  <2> QED BY <2>2, <2>3 DEF TouchInv
<1> QED BY <1>1, <1>2, <1>3, TouchTypeCorrect, PTL DEF Spec
=============================================================================
