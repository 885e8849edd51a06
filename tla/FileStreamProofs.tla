-------------------------- MODULE FileStreamProofs --------------------------
(***************************************************************************)
(* Proofs about FileStream, for every size of the buffers, every file and  *)
(* every number of commands: a clean download delivers the bytes of the    *)
(* file, a clean upload leaves the bytes of the host, an upload ends where *)
(* the host's data ends, and a data phase can be told from its packets.    *)
(***************************************************************************)
EXTENDS FileStream, SequenceTheorems, TLAPS

-----------------------------------------------------------------------------
(* The operators.                                                          *)

\* The smaller and the larger of two numbers.
LEMMA MinMax ==
    ASSUME NEW a \in Int, NEW b \in Int
    PROVE  /\ Min({a, b}) = IF a <= b THEN a ELSE b
           /\ Max({a, b}) = IF a <= b THEN b ELSE a
<1>1. \E x \in {a, b} : \A y \in {a, b} : x <= y
  OBVIOUS
<1>2. \E x \in {a, b} : \A y \in {a, b} : x >= y
  OBVIOUS
<1>3. Min({a, b}) \in {a, b} /\ \A y \in {a, b} : Min({a, b}) <= y
  BY <1>1 DEF Min
<1>4. Max({a, b}) \in {a, b} /\ \A y \in {a, b} : Max({a, b}) >= y
  BY <1>2 DEF Max
<1> QED BY <1>3, <1>4

\* What the proofs use of the assumption on the buffers.
LEMMA Buffers ==
    /\ Header \in Nat /\ Header > 0 /\ MaxPacket \in Nat /\ WrBuffer \in Nat /\ RdBuffer \in Nat
    /\ Page \in Nat /\ Page > 0 /\ Header + 1 < MaxPacket /\ MaxPacket < WrBuffer /\ WrBuffer < Page
    /\ RdBuffer > Header
    /\ Sizes \subseteq Nat /\ Offsets \subseteq Nat /\ Counts \subseteq Nat
    /\ MaxOps \in Nat /\ MaxChanges \in Nat
<1>1. /\ Header \in Nat /\ Header > 0 /\ MaxPacket \in Nat /\ WrBuffer \in Nat /\ RdBuffer \in Nat
      /\ RdBuffer > 0 /\ Page \in Nat /\ Page > 0 /\ Header + 1 < MaxPacket /\ MaxPacket < WrBuffer
      /\ WrBuffer < Page
      /\ Sizes \subseteq Nat /\ Offsets \subseteq Nat /\ Counts \subseteq Nat
      /\ MaxOps \in Nat /\ MaxChanges \in Nat /\ RdBuffer % MaxPacket = 0
  BY BuffersAssumption
<1>2. ASSUME NEW a \in Nat, NEW b \in Nat, a > 0, b > 0, a % b = 0 PROVE a >= b
  BY <1>2
<1>3. RdBuffer >= MaxPacket
  BY <1>1, <1>2
<1> QED BY <1>1, <1>3

\* The page a position of the file lies on, and its place there.
LEMMA PageFacts ==
    ASSUME NEW n \in Nat
    PROVE  PageOf(n) \in Nat /\ n % Page \in 0..(Page - 1) /\ PageOf(n) + (n % Page) = n
<1>1. ASSUME NEW a \in Nat, NEW b \in Nat, b > 0 PROVE a % b <= a /\ a % b \in 0..(b - 1)
  BY <1>1
<1>2. n % Page <= n /\ n % Page \in 0..(Page - 1)
  BY <1>1, Buffers
<1> QED BY <1>2, Buffers DEF PageOf

\* A sequence without elements is the empty one.
LEMMA Empty ==
    ASSUME NEW s \in Seq(Nat)
    PROVE  s = <<>> <=> Len(s) = 0
BY EmptySeq

\* What write(2) leaves in the file.
LEMMA Writes ==
    ASSUME NEW c \in Seq(Nat), NEW o \in Nat, NEW d \in Seq(Nat)
    PROVE  /\ Overwrite(c, o, d) \in Seq(Nat)
           /\ Len(Overwrite(c, o, d)) =
                IF d = <<>> \/ o + Len(d) <= Len(c) THEN Len(c) ELSE o + Len(d)
           /\ \A i \in 1..Len(Overwrite(c, o, d)) :
                Overwrite(c, o, d)[i] = IF o < i /\ i <= o + Len(d) THEN d[i - o]
                                        ELSE IF i <= Len(c) THEN c[i] ELSE 0
<1>1. CASE d = <<>>
  BY <1>1 DEF Overwrite
<1>2. CASE d # <<>>
  <2> DEFINE n == IF o + Len(d) <= Len(c) THEN Len(c) ELSE o + Len(d)
             w == [i \in 1..n |-> IF o < i /\ i <= o + Len(d) THEN d[i - o]
                                  ELSE IF i <= Len(c) THEN c[i] ELSE 0]
  <2>1. n \in Nat /\ Max({Len(c), o + Len(d)}) = n
    <3> DEFINE x == Len(c)
               y == o + Len(d)
    <3>1. x \in Nat /\ y \in Nat /\ x \in Int /\ y \in Int
      OBVIOUS
    <3> HIDE DEF x, y
    <3>2. Max({x, y}) = IF x <= y THEN y ELSE x
      BY <3>1, MinMax, Zenon
    <3>3. (IF x <= y THEN y ELSE x) = IF y <= x THEN x ELSE y
      BY <3>1
    <3> QED BY <3>1, <3>2, <3>3 DEF x, y
  <2>2. \A i \in 1..n : i \in o + 1..o + Len(d) <=> o < i /\ i <= o + Len(d)
    BY <2>1
  <2>3. Overwrite(c, o, d) = w
    BY <1>2, <2>1, <2>2 DEF Overwrite
  <2>4. \A i \in 1..n : w[i] \in Nat
    OBVIOUS
  <2>5. w \in Seq(Nat) /\ Len(w) = n
    BY <2>1, <2>4
  <2> QED BY <1>2, <2>1, <2>3, <2>5
<1> QED BY <1>1, <1>2

\* A write in two pieces is the write of both.
LEMMA WriteTwice ==
    ASSUME NEW c \in Seq(Nat), NEW o \in Nat, NEW d \in Seq(Nat), NEW n \in 0..Len(d)
    PROVE  Overwrite(Overwrite(c, o, SubSeq(d, 1, n)), o + n, SubSeq(d, n + 1, Len(d)))
             = Overwrite(c, o, d)
<1> DEFINE d1 == SubSeq(d, 1, n)
           d2 == SubSeq(d, n + 1, Len(d))
           once == Overwrite(c, o, d1)
           twice == Overwrite(once, o + n, d2)
           whole == Overwrite(c, o, d)
<1>1. d1 \in Seq(Nat) /\ Len(d1) = n /\ \A i \in 1..n : d1[i] = d[i]
  OBVIOUS
<1>2. d2 \in Seq(Nat) /\ Len(d2) = Len(d) - n /\ \A i \in 1..(Len(d) - n) : d2[i] = d[n + i]
  OBVIOUS
<1>3. /\ d1 = <<>> <=> n = 0
      /\ d2 = <<>> <=> n = Len(d)
      /\ d = <<>> <=> Len(d) = 0
  <2>1. /\ d1 = <<>> <=> Len(d1) = 0
        /\ d2 = <<>> <=> Len(d2) = 0
        /\ d = <<>> <=> Len(d) = 0
    <3> HIDE DEF d1, d2
    <3> QED BY <1>1, <1>2, Empty
  <2>2. Len(d1) = n /\ Len(d2) = Len(d) - n /\ Len(d) \in Nat
    BY <1>1, <1>2
  <2> HIDE DEF d1, d2
  <2> QED BY <2>1, <2>2
<1> HIDE DEF d1, d2
<1>4. /\ once \in Seq(Nat)
      /\ Len(once) = IF n = 0 \/ o + n <= Len(c) THEN Len(c) ELSE o + n
      /\ \A i \in 1..Len(once) :
           once[i] = IF o < i /\ i <= o + n THEN d[i - o] ELSE IF i <= Len(c) THEN c[i] ELSE 0
  <2>1. /\ once \in Seq(Nat)
        /\ Len(once) = IF d1 = <<>> \/ o + Len(d1) <= Len(c) THEN Len(c) ELSE o + Len(d1)
        /\ \A i \in 1..Len(once) :
             once[i] = IF o < i /\ i <= o + Len(d1) THEN d1[i - o] ELSE IF i <= Len(c) THEN c[i] ELSE 0
    BY <1>1, Writes
  <2>2. \A i \in Nat : o < i /\ i <= o + n => d1[i - o] = d[i - o]
    BY <1>1
  <2>3. \A i \in 1..Len(once) : i \in Nat
    BY <2>1
  <2> HIDE DEF once
  <2>4. Len(once) = IF n = 0 \/ o + n <= Len(c) THEN Len(c) ELSE o + n
    BY <1>1, <1>3, <2>1
  <2>5. \A i \in 1..Len(once) :
          once[i] = IF o < i /\ i <= o + n THEN d[i - o] ELSE IF i <= Len(c) THEN c[i] ELSE 0
    BY <1>1, <2>1, <2>2, <2>3
  <2> QED BY <2>1, <2>4, <2>5
<1> HIDE DEF once
<1>5. /\ twice \in Seq(Nat)
      /\ Len(twice) = IF n = Len(d) \/ o + Len(d) <= Len(once) THEN Len(once) ELSE o + Len(d)
      /\ \A i \in 1..Len(twice) :
           twice[i] = IF o + n < i /\ i <= o + Len(d) THEN d[i - o]
                      ELSE IF i <= Len(once) THEN once[i] ELSE 0
  <2>1. o + n \in Nat /\ o + n + Len(d2) = o + Len(d)
    BY <1>2
  <2>2. /\ twice \in Seq(Nat)
        /\ Len(twice) = IF d2 = <<>> \/ o + n + Len(d2) <= Len(once) THEN Len(once) ELSE o + n + Len(d2)
        /\ \A i \in 1..Len(twice) :
             twice[i] = IF o + n < i /\ i <= o + n + Len(d2) THEN d2[i - (o + n)]
                        ELSE IF i <= Len(once) THEN once[i] ELSE 0
    BY <1>2, <1>4, <2>1, Writes
  <2>3. \A i \in Nat : o + n < i /\ i <= o + Len(d) => d2[i - (o + n)] = d[i - o]
    <3> TAKE i \in Nat
    <3> HAVE o + n < i /\ i <= o + Len(d)
    <3>1. i - (o + n) \in 1..(Len(d) - n) /\ n + (i - (o + n)) = i - o
      OBVIOUS
    <3> QED BY <1>2, <3>1
  <2> QED BY <1>3, <2>1, <2>2, <2>3
<1>6. /\ whole \in Seq(Nat)
      /\ Len(whole) = IF Len(d) = 0 \/ o + Len(d) <= Len(c) THEN Len(c) ELSE o + Len(d)
      /\ \A i \in 1..Len(whole) :
           whole[i] = IF o < i /\ i <= o + Len(d) THEN d[i - o] ELSE IF i <= Len(c) THEN c[i] ELSE 0
  BY <1>3, Writes
<1> HIDE DEF twice, whole
<1>7. Len(twice) = Len(whole)
  <2>1. Len(c) \in Nat /\ Len(d) \in Nat /\ n \in 0..Len(d)
    OBVIOUS
  <2>2. Len(once) = IF n = 0 \/ o + n <= Len(c) THEN Len(c) ELSE o + n
    BY <1>4
  <2>3. Len(twice) = IF n = Len(d) \/ o + Len(d) <= Len(once) THEN Len(once) ELSE o + Len(d)
    BY <1>5
  <2>4. Len(whole) = IF Len(d) = 0 \/ o + Len(d) <= Len(c) THEN Len(c) ELSE o + Len(d)
    BY <1>6
  <2> QED BY <2>1, <2>2, <2>3, <2>4
<1>8. \A i \in 1..Len(twice) : twice[i] = whole[i]
  <2> TAKE i \in 1..Len(twice)
  <2>0. i \in Nat /\ i >= 1 /\ Len(c) \in Nat /\ Len(d) \in Nat /\ Len(once) \in Nat /\ n \in 0..Len(d)
    BY <1>4, <1>5
  <2>1. i <= Len(once) => i \in 1..Len(once)
    BY <1>4, <2>0
  <2>2. i \in 1..Len(whole)
    BY <1>7
  <2>3. twice[i] = IF o + n < i /\ i <= o + Len(d) THEN d[i - o]
                   ELSE IF i <= Len(once) THEN once[i] ELSE 0
    BY <1>5
  <2>4. i <= Len(once) =>
          once[i] = IF o < i /\ i <= o + n THEN d[i - o] ELSE IF i <= Len(c) THEN c[i] ELSE 0
    BY <1>4, <2>1
  <2>5. whole[i] = IF o < i /\ i <= o + Len(d) THEN d[i - o] ELSE IF i <= Len(c) THEN c[i] ELSE 0
    BY <1>6, <2>2
  <2>6. Len(once) = IF n = 0 \/ o + n <= Len(c) THEN Len(c) ELSE o + n
    BY <1>4
  <2> QED BY <2>0, <2>3, <2>4, <2>5, <2>6
<1>9. twice = whole
  BY <1>5, <1>6, <1>7, <1>8, SeqEqual
<1> QED BY <1>9 DEF twice, once, whole, d1, d2
-----------------------------------------------------------------------------
(* The invariants.                                                         *)

\* The descriptor is open while data go through it, and no more is sent than
\* was announced.  The header of a list and its count go with the first packet.
Running ==
    /\ op.kind \in {"send", "receive", "last"} => fd # 0
    /\ op.kind \in {"send", "list"} => op.j <= op.length
    /\ op.kind = "list" => op.ofs \in {0, Header + 1}
StreamInv == TypeOK /\ Running

\* A clean download so far: the descriptor is on the file, the file is as long
\* as the entry said, the host has the first j bytes, and the page in the buffer
\* holds the bytes of the file as far as it goes.
Sending ==
    (op.kind = "send" /\ op.clean) =>
      /\ fd = at
      /\ op.expect = SubSeq(file, op.offset + 1, op.offset + op.length)
      /\ op.length = 0 \/ op.offset + op.length <= Len(file)
      /\ Len(sent) = op.j /\ \A i \in 1..op.j : sent[i] = file[op.offset + i]
      /\ op.buf \in Nat =>
           \A i \in 0..Page - 1 : op.buf + i < Len(file) => page[i] = file[op.buf + i + 1]
DownloadInv == Sending /\ DownloadExact

\* A clean upload so far: the descriptor is on the file, which lacks what is
\* still to be read and nothing else.
Receiving ==
    (op.kind \in {"receive", "last"} /\ op.clean) =>
      fd = at /\ Overwrite(file, op.j, op.rest) = op.expect
UploadInv == Receiving /\ UploadExact
-----------------------------------------------------------------------------
(* Types of the operators.                                                 *)

Pages == [0..Page - 1 -> Nat]

\* A file is replaced on the disk.
LEMMA DiskPut ==
    ASSUME NEW d \in Seq(Seq(Nat)), NEW k \in 1..Len(d), NEW c \in Seq(Nat)
    PROVE  /\ [d EXCEPT ![k] = c] \in Seq(Seq(Nat))
           /\ Len([d EXCEPT ![k] = c]) = Len(d)
           /\ [d EXCEPT ![k] = c][k] = c
BY ExceptSeq

\* A file is added to the disk.
LEMMA DiskAdd ==
    ASSUME NEW d \in Seq(Seq(Nat)), NEW c \in Seq(Nat)
    PROVE  Append(d, c) \in Seq(Seq(Nat)) /\ Len(Append(d, c)) = Len(d) + 1
BY AppendProperties

\* The contents that commands and other programs put into a file.
LEMMA Contents ==
    ASSUME NEW c \in Seq(Nat), NEW n \in Nat, NEW from \in Nat
    PROVE  /\ Bytes(from, n) \in Seq(Nat) /\ Len(Bytes(from, n)) = n
           /\ Truncated(c, n) \in Seq(Nat)
<1>1. \A i \in 1..n : from + i \in Nat
  OBVIOUS
<1>2. \A i \in 1..n : (IF i <= Len(c) THEN c[i] ELSE 0) \in Nat
  OBVIOUS
<1> QED BY <1>1, <1>2 DEF Bytes, Truncated

\* The two parts of what the host sends.
LEMMA Cut ==
    ASSUME NEW d \in Seq(Nat), NEW n \in 0..Len(d)
    PROVE  /\ SubSeq(d, 1, n) \in Seq(Nat) /\ Len(SubSeq(d, 1, n)) = n
           /\ SubSeq(d, n + 1, Len(d)) \in Seq(Nat) /\ Len(SubSeq(d, n + 1, Len(d))) = Len(d) - n
OBVIOUS

\* How much of the data the first read and the later ones take.
LEMMA Taken ==
    ASSUME NEW d \in Seq(Nat), NEW m \in Nat
    PROVE  /\ Min({Len(d), m}) \in 0..Len(d) /\ Min({Len(d), m}) <= m
           /\ Min({Len(d), m}) = Len(d) \/ Min({Len(d), m}) = m
<1> DEFINE x == Len(d)
<1>1. x \in Nat /\ x \in Int /\ m \in Int
  OBVIOUS
<1> HIDE DEF x
<1>2. Min({x, m}) = IF x <= m THEN x ELSE m
  BY <1>1, MinMax, Zenon
<1>3. ASSUME NEW a \in Nat
      PROVE  LET n == IF a <= m THEN a ELSE m IN n \in 0..a /\ n <= m /\ (n = a \/ n = m)
  OBVIOUS
<1>4. Min({x, m}) \in 0..x /\ Min({x, m}) <= m /\ (Min({x, m}) = x \/ Min({x, m}) = m)
  BY <1>1, <1>2, <1>3
<1> QED BY <1>4 DEF x

\* The file a descriptor is on, or the entry names.
LEMMA Files ==
    ASSUME FileTyped
    PROVE  /\ file \in Seq(Nat)
           /\ Opened \in 1..Len(disk) /\ disk[Opened] \in Seq(Nat)
           /\ fd # 0 => fd \in 1..Len(disk) /\ disk[fd] \in Seq(Nat)
<1>1. \A i \in 1..Len(disk) : disk[i] \in Seq(Nat)
  BY DEF FileTyped
<1>2. Opened \in 1..Len(disk)
  BY DEF FileTyped, Opened
<1> QED BY <1>1, <1>2 DEF FileTyped, file

\* A page that is read is a page.
LEMMA Reads ==
    ASSUME FileTyped, fd # 0, NEW b \in Pages, NEW from \in Nat
    PROVE  entry_read(b, from) \in Pages
<1>1. disk[fd] \in Seq(Nat)
  BY Files
<1> DEFINE f == disk[fd]
<1>2. f \in Seq(Nat)
  BY <1>1
<1> HIDE DEF f
<1>3. \A i \in 0..Page - 1 : (IF from + i < Len(f) THEN f[from + i + 1] ELSE b[i]) \in Nat
  BY <1>2, Buffers DEF Pages
<1> QED BY <1>3 DEF entry_read, Pages, f

\* A block fits into the write buffer, after the header if it is the first, and
\* stays within what was announced.
LEMMA Blocksize ==
    ASSUME op \in Operations, op.j <= op.length
    PROVE  /\ blocksize \in Nat /\ op.j + blocksize <= op.length
           /\ op.ofs + blocksize <= WrBuffer /\ blocksize < Page
<1>1. op.j \in Nat /\ op.length \in Int /\ op.ofs \in 0..WrBuffer
  BY DEF Operations
<1>2. ASSUME NEW j \in Nat, NEW l \in Int, NEW w \in Nat, NEW o \in 0..w, j <= l
      PROVE  LET n == IF j + (w - o) < l THEN w - o ELSE l - j
             IN n \in Nat /\ j + n <= l /\ o + n <= w
  BY <1>2
<1>3. blocksize \in Nat /\ op.j + blocksize <= op.length /\ op.ofs + blocksize <= WrBuffer
  BY <1>1, <1>2, Buffers DEF blocksize
<1>4. ASSUME NEW a \in Nat, NEW o \in Nat, NEW w \in Nat, NEW p \in Nat, o + a <= w, w < p
      PROVE  a < p
  BY <1>4
<1> QED BY <1>1, <1>3, <1>4, Buffers

\* A write on the endpoint is one more write, which starts where the last one ended.
LEMMA Written ==
    ASSUME ends \in Seq(Nat), NEW n \in Nat, write_usb(n)
    PROVE  /\ ends' \in Seq(Nat) /\ Len(ends') = Len(ends) + 1
           /\ EndBefore(Len(ends) + 1) \in Nat
           /\ ends'[Len(ends) + 1] = EndBefore(Len(ends) + 1) + n
           /\ \A i \in 1..Len(ends) : ends'[i] = ends[i]
           /\ \A i \in 1..Len(ends) + 1 : EndBefore(i)' = EndBefore(i)
<1> DEFINE m == Len(ends)
           e == EndBefore(m + 1) + n
<1>1. m \in Nat /\ ends \in Seq(Nat)
  OBVIOUS
<1>2. EndBefore(m + 1) \in Nat
  BY DEF EndBefore
<1>3. e \in Nat /\ ends' = Append(ends, e)
  BY <1>2 DEF write_usb
<1> HIDE DEF e
<1>4. /\ ends' \in Seq(Nat) /\ Len(ends') = m + 1 /\ ends'[m + 1] = e
      /\ \A i \in 1..m : ends'[i] = ends[i]
  BY <1>3, AppendProperties
<1>5. ASSUME NEW i \in 1..m + 1 PROVE EndBefore(i)' = EndBefore(i)
  <2>1. i = 1 \/ i - 1 \in 1..m
    BY <1>1
  <2> HIDE DEF m
  <2> QED BY <1>4, <2>1 DEF EndBefore
<1> QED BY <1>2, <1>4, <1>5 DEF e

\* What is copied out of a page.
LEMMA Copies ==
    ASSUME NEW b \in Pages, NEW from \in Nat, NEW n \in Nat, from + n <= Page
    PROVE  Copy(b, from, n) \in Seq(Nat) /\ Len(Copy(b, from, n)) = n
<1>1. \A i \in 1..n : from + i - 1 \in 0..Page - 1
  BY Buffers
<1>2. \A i \in 1..n : b[from + i - 1] \in Nat
  BY <1>1 DEF Pages
<1> QED BY <1>2 DEF Copy

\* Page b holds the bytes of f from position k, as far as there are any.
Holds(b, k, f) == \A i \in 0..Page - 1 : k + i < Len(f) => b[i] = f[k + i + 1]

\* A page that is read holds the bytes of the file.
LEMMA ReadHolds ==
    ASSUME FileTyped, fd # 0, NEW b \in Pages, NEW from \in Nat
    PROVE  Holds(entry_read(b, from), from, disk[fd])
BY DEF Holds, entry_read

\* A copy out of such a page is a piece of the file.
LEMMA CopyHolds ==
    ASSUME NEW f \in Seq(Nat), NEW b \in Pages, NEW k \in Nat, NEW from \in Nat, NEW n \in Nat,
           Holds(b, k, f), from + n <= Page, n = 0 \/ k + from + n <= Len(f)
    PROVE  \A i \in 1..n : Copy(b, from, n)[i] = f[k + from + i]
<1> TAKE i \in 1..n
<1>1. from + i - 1 \in 0..Page - 1 /\ k + (from + i - 1) < Len(f) /\ k + (from + i - 1) + 1 = k + from + i
  BY Buffers
<1>2. b[from + i - 1] = f[k + (from + i - 1) + 1]
  BY <1>1 DEF Holds
<1> QED BY <1>1, <1>2 DEF Copy

\* send_file_data, one block: it has the size computed for it, the page buffer
\* is a page, and where the page and the size are right the block is the next
\* piece of the file, however many pages it lies on.
LEMMA Blocks ==
    ASSUME StreamInv, op.kind = "send"
    PROVE  /\ Block.data \in Seq(Nat) /\ Len(Block.data) = blocksize
           /\ Block.page \in Pages /\ Block.buf \in Nat
           /\ (/\ op.buf \in Nat => Holds(page, op.buf, disk[fd])
               /\ blocksize = 0 \/ op.offset + op.j + blocksize <= Len(disk[fd]))
              => /\ Holds(Block.page, Block.buf, disk[fd])
                 /\ \A i \in 1..blocksize : Block.data[i] = disk[fd][op.offset + op.j + i]
<1> DEFINE n == blocksize
           pos == op.offset + op.j
           index == pos % Page
           start == PageOf(pos)
           loaded == IF op.buf = start THEN page ELSE entry_read(page, start)
           first == n - (index + n - Page)
           next == entry_read(loaded, start + Page)
           f == disk[fd]
           Right == /\ op.buf \in Nat => Holds(page, op.buf, f)
                    /\ n = 0 \/ pos + n <= Len(f)
<1>1. FileTyped /\ op \in Operations /\ fd # 0 /\ op.j <= op.length
  BY DEF StreamInv, TypeOK, Running
<1>2. n \in Nat /\ n < Page
  BY <1>1, Blocksize
<1>3. op.offset \in Nat /\ op.j \in Nat
  BY <1>1 DEF Operations
<1>4. pos \in Nat
  BY <1>3
<1>5. start \in Nat /\ index \in 0..Page - 1 /\ start + index = pos
  BY <1>4, PageFacts
<1>6. f \in Seq(Nat)
  BY <1>1, Files
<1>7. page \in Pages
  BY <1>1 DEF FileTyped, Pages
<1>8. Page \in Nat /\ start + Page \in Nat
  BY <1>5, Buffers
<1>9. loaded \in Pages
  BY <1>1, <1>5, <1>7, Reads
<1>10. next \in Pages
  BY <1>1, <1>8, <1>9, Reads
<1>11. Right => Holds(loaded, start, f)
  BY <1>1, <1>5, <1>7, ReadHolds
<1>12. Holds(next, start + Page, f)
  BY <1>1, <1>8, <1>9, ReadHolds
<1>13. Block = IF index + n < Page
               THEN [data |-> Copy(loaded, index, n), page |-> loaded, buf |-> start]
               ELSE [data |-> Copy(loaded, index, first) \o Copy(next, 0, n - first),
                     page |-> next, buf |-> start + Page]
  BY DEF Block
<1> HIDE DEF n, pos, index, start, loaded, next, f
<1>14. CASE index + n < Page
  <2>1. Block.data = Copy(loaded, index, n) /\ Block.page = loaded /\ Block.buf = start
    BY <1>13, <1>14
  <2>2. index \in Nat /\ index + n <= Page
    BY <1>2, <1>5, <1>8, <1>14
  <2>3. Copy(loaded, index, n) \in Seq(Nat) /\ Len(Copy(loaded, index, n)) = n
    BY <1>2, <1>9, <2>2, Copies
  <2>4. ASSUME Right PROVE \A i \in 1..n : Copy(loaded, index, n)[i] = f[pos + i]
    <3>1. n = 0 \/ start + index + n <= Len(f)
      BY <1>5, <2>4
    <3>2. \A i \in 1..n : Copy(loaded, index, n)[i] = f[start + index + i]
      BY <1>2, <1>5, <1>6, <1>9, <1>11, <2>2, <2>4, <3>1, CopyHolds, SMTT(40)
    <3> QED BY <1>5, <3>2
  <2>5. /\ Block.data \in Seq(Nat) /\ Len(Block.data) = n
        /\ Block.page \in Pages /\ Block.buf \in Nat
        /\ Right => Holds(Block.page, Block.buf, f) /\ \A i \in 1..n : Block.data[i] = f[pos + i]
    BY <1>5, <1>9, <1>11, <2>1, <2>3, <2>4
  <2> QED BY <2>5 DEF n, pos, f
<1>15. CASE ~(index + n < Page)
  <2>1. /\ Block.data = Copy(loaded, index, first) \o Copy(next, 0, n - first)
        /\ Block.page = next /\ Block.buf = start + Page
    BY <1>13, <1>15
  <2>2. /\ index \in Nat /\ first \in Nat /\ n - first \in Nat /\ index + first = Page
        /\ 0 + (n - first) <= Page /\ first = Page - index
    BY <1>2, <1>5, <1>8, <1>15
  <2> HIDE DEF first
  <2> DEFINE head == Copy(loaded, index, first)
             tail == Copy(next, 0, n - first)
  <2>3. head \in Seq(Nat) /\ Len(head) = first
    <3>1. index + first <= Page
      BY <1>8, <2>2
    <3> QED BY <1>9, <2>2, <3>1, Copies
  <2>4. tail \in Seq(Nat) /\ Len(tail) = n - first
    BY <1>10, <2>2, Copies
  <2>5. ASSUME Right PROVE \A i \in 1..first : head[i] = f[pos + i]
    <3>1. first = 0 \/ start + index + first <= Len(f)
      BY <1>2, <1>4, <1>5, <1>6, <2>2, <2>5
    <3>2. index + first <= Page
      BY <1>8, <2>2
    <3>3. \A i \in 1..first : head[i] = f[start + index + i]
      BY <1>5, <1>6, <1>9, <1>11, <2>2, <2>5, <3>1, <3>2, CopyHolds
    <3> QED BY <1>5, <3>3
  <2>6. ASSUME Right PROVE \A i \in 1..(n - first) : tail[i] = f[start + Page + i]
    <3> DEFINE k == start + Page
               m == n - first
    <3>1. m \in Nat /\ k \in Nat /\ 0 + m <= Page /\ (m = 0 \/ k + 0 + m <= Len(f))
      BY <1>2, <1>4, <1>5, <1>6, <1>8, <2>2, <2>6
    <3>2. Holds(next, k, f)
      BY <1>12
    <3> HIDE DEF k, m
    <3>3. \A i \in 1..m : Copy(next, 0, m)[i] = f[k + 0 + i]
      BY <1>6, <1>10, <3>1, <3>2, CopyHolds
    <3>4. \A i \in 1..m : Copy(next, 0, m)[i] = f[k + i]
      BY <3>1, <3>3
    <3> QED BY <3>4 DEF k, m
  <2> HIDE DEF head, tail
  <2>7. /\ head \o tail \in Seq(Nat) /\ Len(head \o tail) = first + (n - first)
        /\ \A i \in 1..first + (n - first) :
             (head \o tail)[i] = IF i <= first THEN head[i] ELSE tail[i - first]
    <3>1. /\ head \o tail \in Seq(Nat) /\ Len(head \o tail) = Len(head) + Len(tail)
          /\ \A i \in 1..Len(head) + Len(tail) :
               (head \o tail)[i] = IF i <= Len(head) THEN head[i] ELSE tail[i - Len(head)]
      BY <2>3, <2>4, ConcatProperties
    <3> QED BY <2>3, <2>4, <3>1
  <2>8. first + (n - first) = n
    BY <1>2, <2>2
  <2>9. ASSUME Right, NEW i \in 1..n PROVE (head \o tail)[i] = f[pos + i]
    <3>1. (head \o tail)[i] = IF i <= first THEN head[i] ELSE tail[i - first]
      BY <2>7, <2>8
    <3>2. CASE i <= first
      <4>1. i \in 1..first
        BY <1>2, <2>2, <3>2
      <4>2. head[i] = f[pos + i]
        BY <2>5, <2>9, <4>1
      <4> QED BY <3>1, <3>2, <4>2
    <3>3. CASE ~(i <= first)
      <4>1. i - first \in 1..(n - first) /\ start + Page + (i - first) = pos + i
        BY <1>2, <1>5, <1>8, <2>2, <3>3
      <4>2. tail[i - first] = f[start + Page + (i - first)]
        BY <2>6, <2>9, <4>1
      <4> QED BY <3>1, <3>3, <4>1, <4>2
    <3> QED BY <3>2, <3>3
  <2>10. /\ Block.data \in Seq(Nat) /\ Len(Block.data) = n
         /\ Block.page \in Pages /\ Block.buf \in Nat
         /\ Right => Holds(Block.page, Block.buf, f) /\ \A i \in 1..n : Block.data[i] = f[pos + i]
    BY <1>8, <1>10, <1>12, <2>1, <2>7, <2>8, <2>9 DEF head, tail
  <2> QED BY <2>10 DEF n, pos, f
<1> QED BY <1>14, <1>15

-----------------------------------------------------------------------------
(* Types.                                                                  *)

\* At first there is no command.
LEMMA NoOpTyped == NoOp \in Operations
BY Buffers, EmptySeq DEF NoOp, Operations, Kinds

\* The initial state: one file, no command.
LEMMA InitTyped ==
    ASSUME Init
    PROVE  StreamInv
<1>1. PICK n \in Sizes : disk = <<Bytes(0, n)>> /\ size = n
  BY DEF Init
<1>2. n \in Nat /\ Bytes(0, n) \in Seq(Nat)
  BY Buffers, Contents, EmptySeq
<1>3. disk \in Seq(Seq(Nat)) /\ Len(disk) = 1
  BY <1>1, <1>2
<1>4. page \in [0..Page - 1 -> Nat]
  BY DEF Init
<1>5. FileTyped
  BY <1>1, <1>2, <1>3, <1>4 DEF Init, FileTyped
<1>6. sent \in Seq(Nat) /\ ends \in Seq(Nat)
  BY EmptySeq DEF Init
<1>7. PhaseTyped
  BY <1>6, Buffers DEF Init, PhaseTyped
<1>8. op \in Operations
  BY NoOpTyped DEF Init
<1>9. Running
  BY DEF Init, NoOp, Running
<1> QED BY <1>5, <1>7, <1>8, <1>9 DEF StreamInv, TypeOK

\* Commands that leave no transfer behind them.
LEMMA CommandTyped ==
    ASSUME StreamInv, NEW kind \in Kinds, kind \notin {"send", "receive", "last", "list"},
           Command(kind), FileTyped', UNCHANGED <<sent, ends, changes>>, announced' \in BOOLEAN
    PROVE  StreamInv'
<1>1. op' = [NoOp EXCEPT !.kind = kind]
  BY DEF Command
<1>2. op' \in Operations /\ op'.kind = kind
  BY <1>1, NoOpTyped DEF Operations, NoOp
<1>3. ASSUME NEW a \in Nat, NEW x \in 0..a, x < a PROVE x + 1 \in 0..a
  BY <1>3
<1>4. ops' \in 0..MaxOps
  BY <1>3, Buffers DEF Command, StreamInv, TypeOK, PhaseTyped
<1>5. PhaseTyped'
  BY <1>4 DEF StreamInv, TypeOK, PhaseTyped
<1>6. Running'
  BY <1>2 DEF Running
<1> QED BY <1>2, <1>5, <1>6 DEF StreamInv, TypeOK

\* The start of a download.
LEMMA SendStartTyped ==
    ASSUME StreamInv, NEW offset \in Nat, NEW maxsize \in Int, NEW asked \in Nat,
           send_file_data(offset, maxsize, asked)
    PROVE  StreamInv'
<1> DEFINE length == actualsize(offset, maxsize)
           expect == Wanted(offset, asked)
           kind == IF length < 0 THEN "fault" ELSE "send"
<1>1. FileTyped /\ PhaseTyped
  BY DEF StreamInv, TypeOK
<1>2. length \in Int
  <2>1. size \in Nat
    BY <1>1 DEF FileTyped
  <2> QED BY <2>1 DEF actualsize
<1>3. expect \in Seq(Nat)
  <2> DEFINE x == offset + asked
             y == Len(file)
  <2>1. file \in Seq(Nat)
    BY <1>1, Files
  <2>2. x \in Int /\ y \in Int
    BY <2>1
  <2> HIDE DEF x, y
  <2>3. Min({x, y}) = IF x <= y THEN x ELSE y
    BY <2>2, MinMax, Zenon
  <2>4. Min({x, y}) \in Int /\ Min({x, y}) <= y
    BY <2>2, <2>3
  <2>5. ASSUME NEW k \in Int, k <= Len(file) PROVE SubSeq(file, offset + 1, k) \in Seq(Nat)
    <3>1. \A i \in offset + 1..k : file[i] \in Nat
      BY <2>1, <2>5
    <3> QED BY <3>1, SubSeqProperties
  <2>6. SubSeq(file, offset + 1, Min({x, y})) \in Seq(Nat)
    BY <2>4, <2>5 DEF y
  <2> QED BY <2>6 DEF Wanted, x, y
<1>4. UpToDate \in BOOLEAN
  BY DEF UpToDate
<1>5. Header \in 0..WrBuffer
  BY Buffers
<1>6. op' = [NoOp EXCEPT !.kind = kind, !.offset = offset, !.asked = asked, !.length = length,
                         !.ofs = Header, !.clean = UpToDate, !.expect = expect]
  BY DEF send_file_data
<1>61. kind \in {"send", "fault"} /\ (kind = "send" => length >= 0)
  BY <1>2
<1> HIDE DEF length, expect, kind
<1>7. /\ op' \in Operations
      /\ op'.kind = kind /\ op'.j = 0 /\ op'.length = length
  BY <1>61, <1>2, <1>3, <1>4, <1>5, <1>6, NoOpTyped DEF Operations, NoOp, Kinds
<1>8. FileTyped' /\ fd' # 0
  BY <1>1, Files DEF send_file_data, FileTyped
<1>9. ASSUME NEW a \in Nat, NEW x \in 0..a, x < a PROVE x + 1 \in 0..a
  BY <1>9
<1>10. ops' \in 0..MaxOps
  BY <1>1, <1>9, Buffers DEF send_file_data, PhaseTyped
<1>11. sent' \in Seq(Nat) /\ ends' \in Seq(Nat)
  BY EmptySeq DEF send_file_data
<1>12. PhaseTyped'
  BY <1>1, <1>10, <1>11 DEF send_file_data, PhaseTyped
<1>13. Running'
  BY <1>2, <1>61, <1>7, <1>8 DEF Running
<1> QED BY <1>7, <1>8, <1>12, <1>13 DEF StreamInv, TypeOK

\* The rest of a download.
LEMMA SendTyped ==
    ASSUME StreamInv, SendBlock \/ SendEnd
    PROVE  StreamInv'
<1>1. FileTyped /\ PhaseTyped /\ op \in Operations /\ Running
  BY DEF StreamInv, TypeOK
<1>2. CASE SendBlock
  <2>1. op.kind = "send" /\ op.j <= op.length
    BY <1>1, <1>2 DEF SendBlock, Running
  <2>2. Block.data \in Seq(Nat) /\ Len(Block.data) = blocksize /\ Block.page \in Pages /\ Block.buf \in Nat
    BY <2>1, Blocks
  <2>3. blocksize \in Nat /\ op.j + blocksize <= op.length /\ op.ofs + blocksize <= WrBuffer
    BY <1>1, <2>1, Blocksize
  <2>4. op.j \in Nat /\ op.ofs \in Nat /\ op.length \in Int
    BY <1>1, Buffers DEF Operations
  <2>5. op.j + blocksize \in Nat /\ op.ofs + blocksize \in 0..WrBuffer /\ 0 \in 0..WrBuffer
    BY <2>3, <2>4, Buffers
  <2>6. op' = [op EXCEPT !.j = op.j + blocksize, !.ofs = 0, !.buf = Block.buf]
    BY <1>2, <2>2 DEF SendBlock
  <2>7. /\ op' \in Operations /\ op'.kind = "send" /\ op'.j = op.j + blocksize /\ op'.length = op.length
    <3> DEFINE to == op.j + blocksize
               b == Block.buf
    <3>1. to \in Nat /\ b \in Int /\ 0 \in 0..WrBuffer /\ op' = [op EXCEPT !.j = to, !.ofs = 0, !.buf = b]
      BY <2>2, <2>5, <2>6
    <3> HIDE DEF to, b
    <3>2. op' \in Operations /\ op'.kind = "send" /\ op'.j = to /\ op'.length = op.length
      BY <1>1, <2>1, <3>1 DEF Operations
    <3> QED BY <3>2 DEF to
  <2>8. FileTyped' /\ fd' = fd
    BY <1>1, <1>2, <2>2 DEF SendBlock, FileTyped, Pages
  <2>9. sent' \in Seq(Nat)
    BY <1>1, <1>2, <2>2, ConcatProperties DEF SendBlock, PhaseTyped
  <2>10. write_usb(op.ofs + blocksize)
    BY <1>2, <2>2 DEF SendBlock
  <2>11. ends' \in Seq(Nat)
    <3> DEFINE e == op.ofs + blocksize
    <3>1. e \in Nat /\ ends \in Seq(Nat) /\ write_usb(e)
      BY <1>1, <2>5, <2>10, Buffers DEF PhaseTyped
    <3> HIDE DEF e
    <3> QED BY <3>1, Written
  <2>12. PhaseTyped'
    BY <1>1, <1>2, <2>9, <2>11 DEF SendBlock, PhaseTyped
  <2>13. Running'
    BY <1>1, <2>1, <2>3, <2>7, <2>8 DEF Running
  <2> QED BY <2>7, <2>8, <2>12, <2>13 DEF StreamInv, TypeOK
<1>3. CASE SendEnd
  <2>1. op' = [op EXCEPT !.kind = "sent"]
    BY <1>3 DEF SendEnd
  <2>2. op' \in Operations /\ op'.kind = "sent"
    BY <1>1, <2>1 DEF Operations, Kinds
  <2>3. FileTyped'
    BY <1>1, <1>3 DEF SendEnd, FileTyped
  <2>4. ends' = ends \/ write_usb(0)
    BY <1>3 DEF SendEnd, check_and_send_USB_ZLP
  <2>5. ends' \in Seq(Nat)
    <3>1. ends \in Seq(Nat) /\ 0 \in Nat
      BY <1>1 DEF PhaseTyped
    <3> QED BY <2>4, <3>1, Written
  <2>6. PhaseTyped'
    BY <1>1, <1>3, <2>5 DEF SendEnd, PhaseTyped
  <2>7. Running'
    BY <2>2 DEF Running
  <2> QED BY <2>2, <2>3, <2>6, <2>7 DEF StreamInv, TypeOK
<1> QED BY <1>2, <1>3

\* An upload.
LEMMA ReceiveStartTyped ==
    ASSUME StreamInv, NEW partial \in BOOLEAN, NEW offset \in Nat, NEW data \in Seq(Nat),
           NEW split \in BOOLEAN, Receive(partial, offset, data, split)
    PROVE  StreamInv'
<1> DEFINE first == IF split THEN 0 ELSE Min({Len(data), RdBuffer - Header})
           old == IF partial \/ fd # 0 THEN disk[Opened] ELSE <<>>
           rest == SubSeq(data, first + 1, Len(data))
           new == Overwrite(old, offset, SubSeq(data, 1, first))
           expect == Overwrite(IF partial THEN file ELSE <<>>, offset, data)
           kind == IF More(partial, first, Len(rest)) THEN "receive" ELSE "last"
           open == IF split THEN data # <<>> ELSE first = RdBuffer - Header
           clean == fd = 0 \/ (fd = at /\ (partial \/ file = <<>>))
           to == offset + first
<1>1. FileTyped /\ PhaseTyped
  BY DEF StreamInv, TypeOK
<1>2. first \in 0..Len(data)
  BY Buffers, Taken
<1>3. /\ op' = [NoOp EXCEPT !.kind = kind, !.j = to, !.rest = rest, !.open = open,
                            !.partial = partial, !.clean = clean, !.expect = expect]
      /\ disk' = [disk EXCEPT ![Opened] = new]
  BY DEF Receive
<1> HIDE DEF first
<1>4. to \in Nat /\ rest \in Seq(Nat) /\ SubSeq(data, 1, first) \in Seq(Nat)
  BY <1>2, Cut
<1>5. old \in Seq(Nat) /\ file \in Seq(Nat) /\ <<>> \in Seq(Nat)
  BY <1>1, Files, EmptySeq
<1>6. new \in Seq(Nat) /\ expect \in Seq(Nat)
  BY <1>4, <1>5, Writes
<1>7. kind \in {"receive", "last"} /\ open \in BOOLEAN /\ clean \in BOOLEAN
  OBVIOUS
<1> HIDE DEF old, rest, new, expect, kind, open, clean, to
<1>8. op' \in Operations /\ op'.kind \in {"receive", "last"}
  BY <1>3, <1>4, <1>6, <1>7, NoOpTyped, ZenonT(60) DEF Operations, NoOp, Kinds
<1>9. FileTyped' /\ fd' # 0
  <2>1. Opened \in 1..Len(disk)
    BY <1>1, Files
  <2>2. disk' \in Seq(Seq(Nat)) /\ Len(disk') = Len(disk)
    BY <1>1, <1>3, <1>6, <2>1, DiskPut DEF FileTyped
  <2>3. fd' = Opened /\ UNCHANGED <<at, size, page>>
    BY DEF Receive
  <2> QED BY <1>1, <2>1, <2>2, <2>3 DEF FileTyped
<1>10. ASSUME NEW a \in Nat, NEW x \in 0..a, x < a PROVE x + 1 \in 0..a
  BY <1>10
<1>11. ops' \in 0..MaxOps
  BY <1>1, <1>10, Buffers DEF Receive, PhaseTyped
<1>12. announced' = FALSE /\ UNCHANGED <<sent, ends, changes>>
  BY DEF Receive
<1>13. PhaseTyped'
  BY <1>1, <1>11, <1>12 DEF PhaseTyped
<1>14. Running'
  BY <1>8, <1>9 DEF Running
<1> QED BY <1>8, <1>9, <1>13, <1>14 DEF StreamInv, TypeOK

\* The rest of an upload.
LEMMA ReceiveTyped ==
    ASSUME StreamInv, ReceiveBlock \/ ReceiveEnd
    PROVE  StreamInv'
<1>1. FileTyped /\ PhaseTyped /\ op \in Operations /\ Running
  BY DEF StreamInv, TypeOK
<1>2. op.kind \in {"receive", "last"} /\ fd # 0
  BY <1>1 DEF Running, ReceiveBlock, ReceiveEnd
<1>3. fd \in 1..Len(disk) /\ disk[fd] \in Seq(Nat)
  BY <1>1, <1>2, Files
<1>4. CASE ReceiveBlock
  <2> DEFINE n == Min({Len(op.rest), RdBuffer})
             new == Overwrite(disk[fd], op.j, SubSeq(op.rest, 1, n))
             rest == SubSeq(op.rest, n + 1, Len(op.rest))
             kind == IF n = RdBuffer THEN "receive" ELSE "last"
             to == op.j + n
             open == (n = RdBuffer)
  <2>1. op.rest \in Seq(Nat) /\ op.j \in Nat
    BY <1>1 DEF Operations
  <2>2. n \in 0..Len(op.rest)
    BY <2>1, Buffers, Taken
  <2>3. /\ disk' = [disk EXCEPT ![fd] = new]
        /\ op' = [op EXCEPT !.kind = kind, !.j = to, !.rest = rest, !.open = open]
    BY <1>4 DEF ReceiveBlock
  <2> HIDE DEF n
  <2>4. to \in Nat /\ rest \in Seq(Nat) /\ SubSeq(op.rest, 1, n) \in Seq(Nat)
    BY <2>1, <2>2, Cut
  <2>5. new \in Seq(Nat)
    BY <1>3, <2>1, <2>4, Writes
  <2>6. kind \in {"receive", "last"} /\ open \in BOOLEAN
    OBVIOUS
  <2> HIDE DEF new, rest, kind, to, open
  <2>7. op' \in Operations /\ op'.kind \in {"receive", "last"}
    BY <1>1, <2>3, <2>4, <2>6 DEF Operations, Kinds
  <2>8. disk' \in Seq(Seq(Nat)) /\ Len(disk') = Len(disk)
    BY <1>1, <1>3, <2>3, <2>5, DiskPut DEF FileTyped
  <2>9. FileTyped' /\ fd' = fd
    BY <1>1, <1>4, <2>8 DEF ReceiveBlock, FileTyped
  <2>10. PhaseTyped'
    BY <1>1, <1>4 DEF ReceiveBlock, PhaseTyped
  <2>11. Running'
    BY <1>2, <2>7, <2>9 DEF Running
  <2> QED BY <2>7, <2>9, <2>10, <2>11 DEF StreamInv, TypeOK
<1>5. CASE ReceiveEnd
  <2>1. op' = [op EXCEPT !.kind = "received"]
    BY <1>5 DEF ReceiveEnd
  <2>2. op' \in Operations /\ op'.kind = "received"
    BY <1>1, <2>1 DEF Operations, Kinds
  <2>3. size' \in Nat
    BY <1>3, <1>5 DEF ReceiveEnd
  <2>4. FileTyped'
    BY <1>1, <1>5, <2>3 DEF ReceiveEnd, FileTyped
  <2>5. PhaseTyped'
    BY <1>1, <1>5 DEF ReceiveEnd, PhaseTyped
  <2>6. Running'
    BY <2>2 DEF Running
  <2> QED BY <2>2, <2>4, <2>5, <2>6 DEF StreamInv, TypeOK
<1> QED BY <1>4, <1>5

\* A list of handles.
LEMMA ListTyped ==
    ASSUME StreamInv, (\E n \in Counts : GetObjectHandles(n)) \/ ListPacket \/ ListEnd
    PROVE  StreamInv'
<1>1. FileTyped /\ PhaseTyped /\ op \in Operations /\ Running
  BY DEF StreamInv, TypeOK
<1>2. ASSUME NEW n \in Counts, GetObjectHandles(n) PROVE StreamInv'
  <2>1. n \in Nat /\ Header + 1 \in 0..WrBuffer /\ 0 <= n
    BY Buffers
  <2>2. op' = [NoOp EXCEPT !.kind = "list", !.length = n, !.ofs = Header + 1]
    BY <1>2 DEF GetObjectHandles
  <2>3. /\ op' \in Operations
        /\ op'.kind = "list" /\ op'.j = 0 /\ op'.length = n /\ op'.ofs = Header + 1
    <3> DEFINE h == Header + 1
    <3>1. h \in 0..WrBuffer /\ op' = [NoOp EXCEPT !.kind = "list", !.length = n, !.ofs = h]
      BY <2>1, <2>2
    <3>11. n \in Int
      BY <2>1
    <3> HIDE DEF h
    <3>2. /\ op' \in Operations
          /\ op'.kind = "list" /\ op'.j = 0 /\ op'.length = n /\ op'.ofs = h
      BY <2>1, <3>1, <3>11, NoOpTyped DEF Operations, NoOp, Kinds
    <3> QED BY <3>2 DEF h
  <2>4. FileTyped'
    BY <1>1, <1>2 DEF GetObjectHandles, FileTyped
  <2>5. ASSUME NEW a \in Nat, NEW x \in 0..a, x < a PROVE x + 1 \in 0..a
    BY <2>5
  <2>6. ops' \in 0..MaxOps
    BY <1>1, <1>2, <2>5, Buffers DEF GetObjectHandles, PhaseTyped
  <2>7. sent' \in Seq(Nat) /\ ends' \in Seq(Nat)
    BY <1>2, EmptySeq DEF GetObjectHandles
  <2>8. PhaseTyped'
    BY <1>1, <1>2, <2>6, <2>7 DEF GetObjectHandles, PhaseTyped
  <2>9. Running'
    BY <2>1, <2>3 DEF Running
  <2> QED BY <2>3, <2>4, <2>8, <2>9 DEF StreamInv, TypeOK
<1>3. CASE ListPacket
  <2> DEFINE n == HandlesNow
             to == op.j + n
             e == op.ofs + n
  <2>1. op.kind = "list" /\ op.j <= op.length /\ op.ofs \in {0, Header + 1}
    BY <1>1, <1>3 DEF ListPacket, Running
  <2>2. op.j \in Nat /\ op.length \in Int /\ op.ofs \in Int
    BY <1>1, <2>1, Buffers DEF Operations
  <2>3. n \in Nat /\ to \in Nat /\ to <= op.length /\ e \in 0..WrBuffer /\ e \in Nat
    <3> DEFINE left == op.length - op.j
               room == MaxPacket - op.ofs
               most == Max({room, 1})
    <3>1. left \in Int /\ left >= 0 /\ room \in Int /\ 1 \in Int /\ room >= 1
      BY <2>1, <2>2, Buffers
    <3> HIDE DEF left, room
    <3>2. most = IF room <= 1 THEN 1 ELSE room
      BY <3>1, MinMax, Zenon
    <3>3. most = room
      BY <3>1, <3>2
    <3>4. Min({left, room}) = IF left <= room THEN left ELSE room
      BY <3>1, MinMax, Zenon
    <3>5. n = IF left <= room THEN left ELSE room
      BY <3>3, <3>4 DEF HandlesNow, left, room
    <3>6. n \in Int /\ 0 <= n /\ n <= left /\ n <= room
      BY <3>1, <3>5
    <3> HIDE DEF n
    <3> QED BY <2>1, <2>2, <3>6, Buffers DEF left, room
  <2>4. Bytes(op.j, n) \in Seq(Nat)
    BY <2>2, <2>3, Contents, EmptySeq
  <2>5. /\ op' = [op EXCEPT !.j = to, !.ofs = 0] /\ write_usb(e) /\ sent' = sent \o Bytes(op.j, n)
    BY <1>3 DEF ListPacket
  <2>6. 0 \in 0..WrBuffer
    BY Buffers
  <2>7. ends \in Seq(Nat) /\ sent \in Seq(Nat)
    BY <1>1 DEF PhaseTyped
  <2> HIDE DEF n, to, e
  <2>8. /\ op' \in Operations
        /\ op'.kind = "list" /\ op'.j = to /\ op'.length = op.length /\ op'.ofs = 0
    BY <1>1, <2>1, <2>3, <2>5, <2>6 DEF Operations
  <2>9. ends' \in Seq(Nat)
    BY <2>3, <2>5, <2>7, Written
  <2>10. sent' \in Seq(Nat)
    BY <2>4, <2>5, <2>7, ConcatProperties
  <2>11. PhaseTyped'
    BY <1>1, <1>3, <2>9, <2>10 DEF ListPacket, PhaseTyped
  <2>12. FileTyped'
    BY <1>1, <1>3 DEF ListPacket, FileTyped
  <2>13. Running'
    BY <2>3, <2>8 DEF Running
  <2> QED BY <2>8, <2>11, <2>12, <2>13 DEF StreamInv, TypeOK
<1>4. CASE ListEnd
  <2>1. op' = [op EXCEPT !.kind = "listed"]
    BY <1>4 DEF ListEnd
  <2>2. op' \in Operations /\ op'.kind = "listed"
    BY <1>1, <2>1 DEF Operations, Kinds
  <2>3. FileTyped'
    BY <1>1, <1>4 DEF ListEnd, FileTyped
  <2>4. ends' = ends \/ write_usb(0)
    BY <1>4 DEF ListEnd, check_and_send_USB_ZLP
  <2>5. ends' \in Seq(Nat)
    <3>1. ends \in Seq(Nat) /\ 0 \in Nat
      BY <1>1 DEF PhaseTyped
    <3> QED BY <2>4, <3>1, Written
  <2>6. PhaseTyped'
    BY <1>1, <1>4, <2>5 DEF ListEnd, PhaseTyped
  <2>7. Running'
    BY <2>2 DEF Running
  <2> QED BY <2>2, <2>3, <2>6, <2>7 DEF StreamInv, TypeOK
<1> QED BY <1>2, <1>3, <1>4

\* The other commands about the file.
Others == SendObjectInfo \/ EndEditObject \/ GetObjectInfo \/ (\E n \in Sizes : TruncateObject(n))

\* Each of them, action by action.
LEMMA OthersTyped ==
    ASSUME StreamInv, Others
    PROVE  StreamInv'
<1>1. FileTyped /\ PhaseTyped
  BY DEF StreamInv, TypeOK
<1>2. file \in Seq(Nat) /\ at \in 1..Len(disk) /\ <<>> \in Seq(Nat)
  BY <1>1, Files, EmptySeq DEF FileTyped
<1>3. CASE SendObjectInfo
  <2>1. disk' \in Seq(Seq(Nat)) /\ Len(disk') = Len(disk)
    BY <1>1, <1>2, <1>3, DiskPut DEF SendObjectInfo, FileTyped
  <2>2. FileTyped'
    BY <1>1, <1>3, <2>1 DEF SendObjectInfo, FileTyped
  <2> QED BY <1>3, <2>2, CommandTyped DEF SendObjectInfo, Kinds
<1>4. CASE EndEditObject
  <2>1. FileTyped'
    BY <1>1, <1>4 DEF EndEditObject, FileTyped
  <2> QED BY <1>4, <2>1, CommandTyped DEF EndEditObject, Kinds
<1>5. CASE GetObjectInfo
  <2>1. size' \in Nat
    BY <1>2, <1>5 DEF GetObjectInfo
  <2>2. FileTyped'
    BY <1>1, <1>5, <2>1 DEF GetObjectInfo, FileTyped
  <2> QED BY <1>5, <2>2, CommandTyped DEF GetObjectInfo, Kinds
<1>6. ASSUME NEW n \in Sizes, TruncateObject(n) PROVE StreamInv'
  <2>1. Truncated(file, n) \in Seq(Nat)
    BY <1>2, Buffers, Contents
  <2>2. disk' = [disk EXCEPT ![at] = Truncated(file, n)]
    BY <1>6 DEF TruncateObject, file
  <2>3. disk' \in Seq(Seq(Nat)) /\ Len(disk') = Len(disk)
    BY <1>1, <1>2, <2>1, <2>2, DiskPut DEF FileTyped
  <2>4. FileTyped'
    BY <1>1, <1>6, <2>3 DEF TruncateObject, FileTyped
  <2> QED BY <1>6, <2>4, CommandTyped DEF TruncateObject, Kinds
<1> QED BY <1>3, <1>4, <1>5, <1>6 DEF Others

\* Other programs.
Programs == \E n \in Sizes : OtherTruncates(n) \/ OtherReplaces(n)

\* What they do to the file, the command under way is no longer clean.
LEMMA ProgramsFrame ==
    ASSUME StreamInv, Programs
    PROVE  op' \in Operations /\ op' = [op EXCEPT !.clean = FALSE]
BY DEF Programs, OtherTruncates, OtherReplaces, Changing, StreamInv, TypeOK, Operations

\* What other programs do keeps the types and the command under way.
LEMMA ProgramsTyped ==
    ASSUME StreamInv, Programs
    PROVE  StreamInv'
<1>1. FileTyped /\ PhaseTyped /\ op \in Operations /\ Running
  BY DEF StreamInv, TypeOK
<1>2. file \in Seq(Nat) /\ at \in 1..Len(disk)
  BY <1>1, Files DEF FileTyped
<1>3. /\ op' \in Operations
      /\ op'.kind = op.kind /\ op'.j = op.j /\ op'.length = op.length /\ op'.ofs = op.ofs
  BY <1>1, ProgramsFrame DEF Operations
<1>4. fd' = fd /\ UNCHANGED <<size, page, sent, ends, announced, ops>>
  BY DEF Programs, OtherTruncates, OtherReplaces
<1>5. Running'
  BY <1>1, <1>3, <1>4 DEF Running
<1>6. ASSUME NEW a \in Nat, NEW x \in 0..a, x < a PROVE x + 1 \in 0..a
  BY <1>6
<1>7. changes' \in 0..MaxChanges
  BY <1>1, <1>6, Buffers DEF Programs, OtherTruncates, OtherReplaces, Changing, PhaseTyped
<1>8. PhaseTyped'
  BY <1>1, <1>4, <1>7 DEF PhaseTyped
<1>9. FileTyped'
  <2>1. PICK n \in Sizes : OtherTruncates(n) \/ OtherReplaces(n)
    BY DEF Programs
  <2>2. Truncated(file, n) \in Seq(Nat) /\ Bytes(200, n) \in Seq(Nat)
    BY <1>2, Buffers, Contents
  <2>3. CASE OtherTruncates(n)
    <3>1. disk' = [disk EXCEPT ![at] = Truncated(file, n)] /\ at' = at
      BY <2>3 DEF OtherTruncates, file
    <3>2. disk' \in Seq(Seq(Nat)) /\ Len(disk') = Len(disk)
      BY <1>1, <1>2, <2>2, <3>1, DiskPut DEF FileTyped
    <3> QED BY <1>1, <1>4, <3>1, <3>2 DEF FileTyped
  <2>4. CASE OtherReplaces(n)
    <3>1. disk' = Append(disk, Bytes(200, n)) /\ at' = Len(disk) + 1
      BY <2>4 DEF OtherReplaces
    <3>2. disk' \in Seq(Seq(Nat)) /\ Len(disk') = Len(disk) + 1
      BY <1>1, <2>2, <3>1, DiskAdd DEF FileTyped
    <3>3. Len(disk) \in Nat
      BY <1>1 DEF FileTyped
    <3>4. at' \in 1..Len(disk') /\ fd' \in 0..Len(disk')
      BY <1>1, <1>4, <3>1, <3>2, <3>3 DEF FileTyped
    <3> QED BY <1>1, <1>4, <3>2, <3>4 DEF FileTyped
  <2> QED BY <2>1, <2>3, <2>4
<1> QED BY <1>3, <1>5, <1>8, <1>9 DEF StreamInv, TypeOK

\* The operations, as the proofs group them.
Downloads == GetObject \/ (\E o \in Offsets, n \in Sizes : GetPartialObject(o, n))
Uploads == \/ \E n \in Sizes : SendObject(Bytes(100, n))
           \/ \E o \in Offsets, n \in Sizes, split \in BOOLEAN : SendPartialObject(o, Bytes(100, n), split)
Lists == (\E n \in Counts : GetObjectHandles(n)) \/ ListPacket \/ ListEnd

\* Every step is one of these groups; the proofs below go through them.
LEMMA Cases ==
    ASSUME Next
    PROVE  \/ Downloads \/ SendBlock \/ SendEnd
           \/ Uploads \/ ReceiveBlock \/ ReceiveEnd
           \/ Others \/ Programs \/ Lists
BY DEF Next, Downloads, Uploads, Others, Programs, Lists

\* A length as it has been asked for, or made negative by an int.
Passed(maxsize, asked) == maxsize = asked \/ (maxsize < 0 /\ asked >= IntRange \div 2)

\* What an int makes of a length that fits an unsigned one.
LEMMA Conversion ==
    ASSUME NEW n \in Nat, n < IntRange
    PROVE  AsInt(n) \in Int /\ (AsInt(n) = n \/ (AsInt(n) < 0 /\ n >= IntRange \div 2))
<1>1. IntRange \in Nat /\ IntRange > 0
  BY BuffersAssumption
<1> DEFINE h == IntRange \div 2
<1>2. h \in Nat /\ 2 * h <= IntRange
  BY <1>1
<1>3. AsInt(n) = ((n + h) % IntRange) - h
  BY DEF AsInt
<1> HIDE DEF h
<1>4. CASE n + h < IntRange
  BY <1>1, <1>2, <1>3, <1>4
<1>5. CASE ~(n + h < IntRange)
  <2>1. (n + h) % IntRange = n + h - IntRange
    BY <1>1, <1>2, <1>5
  <2>2. AsInt(n) = n - IntRange /\ n >= h
    BY <1>1, <1>2, <1>3, <1>5, <2>1
  <2> QED BY <1>1, <2>2 DEF h
<1> QED BY <1>4, <1>5

\* What the commands of the host are about.
LEMMA DownloadArguments ==
    ASSUME StreamInv, Downloads
    PROVE  \E offset \in Nat, maxsize \in Int, asked \in Nat :
             send_file_data(offset, maxsize, asked) /\ Passed(maxsize, asked)
<1>1. size \in Nat /\ size \in Int /\ 0 \in Nat
  BY DEF StreamInv, TypeOK, FileTyped
<1>2. CASE GetObject
  BY <1>1, <1>2 DEF GetObject, Passed
<1>3. CASE \E o \in Offsets, n \in Sizes : GetPartialObject(o, n)
  <2>1. PICK o \in Offsets, n \in Sizes : GetPartialObject(o, n)
    BY <1>3
  <2>2. o \in Nat /\ n \in Nat
    BY Buffers
  <2>3. n < IntRange /\ send_file_data(o, AsInt(n), n)
    BY <2>1 DEF GetPartialObject
  <2>4. AsInt(n) \in Int /\ Passed(AsInt(n), n)
    BY <2>2, <2>3, Conversion DEF Passed
  <2> QED BY <2>2, <2>3, <2>4
<1> QED BY <1>2, <1>3 DEF Downloads

\* The same for uploads.
LEMMA UploadArguments ==
    ASSUME Uploads
    PROVE  \E partial \in BOOLEAN, offset \in Nat, data \in Seq(Nat), split \in BOOLEAN :
             Receive(partial, offset, data, split) /\ (partial \/ ~split)
<1>0. \A n \in Nat : Bytes(100, n) \in Seq(Nat)
  BY DEF Bytes
<1>1. \A n \in Sizes : Bytes(100, n) \in Seq(Nat)
  BY <1>0, Buffers
<1>2. CASE \E n \in Sizes : SendObject(Bytes(100, n))
  <2>1. PICK n \in Sizes : SendObject(Bytes(100, n))
    BY <1>2
  <2>2. Receive(FALSE, 0, Bytes(100, n), FALSE) /\ 0 \in Nat /\ Bytes(100, n) \in Seq(Nat)
    BY <1>1, <2>1 DEF SendObject
  <2> QED BY <2>2
<1>3. CASE \E o \in Offsets, n \in Sizes, split \in BOOLEAN : SendPartialObject(o, Bytes(100, n), split)
  <2>1. PICK o \in Offsets, n \in Sizes, split \in BOOLEAN : SendPartialObject(o, Bytes(100, n), split)
    BY <1>3
  <2>2. Receive(TRUE, o, Bytes(100, n), split) /\ o \in Nat /\ Bytes(100, n) \in Seq(Nat)
    BY <1>1, <2>1, Buffers DEF SendPartialObject
  <2> QED BY <2>2
<1> QED BY <1>2, <1>3 DEF Uploads

\* The types, and what a command under way needs, survive every step.
LEMMA StreamStep ==
    ASSUME StreamInv, [Next]_vars
    PROVE  StreamInv'
<1>1. CASE UNCHANGED vars
  BY <1>1 DEF vars, StreamInv, TypeOK, FileTyped, PhaseTyped, Running
<1>2. CASE Next
  <2>1. CASE Downloads
    BY <2>1, DownloadArguments, SendStartTyped
  <2>2. CASE Uploads
    BY <2>2, UploadArguments, ReceiveStartTyped
  <2> QED BY <1>2, <2>1, <2>2, Cases, SendTyped, ReceiveTyped, OthersTyped, ProgramsTyped, ListTyped DEF Lists
<1> QED BY <1>1, <1>2

\* Every variable of the file, its entry and the transfer has its type: no copy
\* leaves the page, no descriptor names a file that is not there (send_file_data, mtp_op_SendObject).
THEOREM TypeCorrect == Spec => []TypeOK
<1>1. Init => StreamInv
  BY InitTyped
<1>2. StreamInv /\ [Next]_vars => StreamInv'
  BY StreamStep
<1>3. StreamInv => TypeOK
  BY DEF StreamInv
<1> QED BY <1>1, <1>2, <1>3, PTL DEF Spec

-----------------------------------------------------------------------------
(* Which commands concern a download, and which an upload.                 *)

\* A command about something else ends neither a download nor an upload.
LEMMA Elsewhere ==
    ASSUME StreamInv, Others \/ Lists
    PROVE  op'.kind \notin {"send", "sent", "fault", "receive", "last", "received"}
<1>1. op \in Operations
  BY DEF StreamInv, TypeOK
<1>2. CASE Others
  BY <1>2 DEF Others, SendObjectInfo, EndEditObject, GetObjectInfo, TruncateObject, Command, NoOp
<1>3. CASE Lists
  BY <1>1, <1>3 DEF Lists, GetObjectHandles, ListPacket, ListEnd, NoOp, Operations
<1> QED BY <1>2, <1>3

\* The steps of a download leave a download.
LEMMA DownloadKinds ==
    ASSUME StreamInv, Downloads \/ SendBlock \/ SendEnd
    PROVE  op'.kind \in {"send", "sent", "fault"}
<1>1. op \in Operations
  BY DEF StreamInv, TypeOK
<1>2. ASSUME NEW o, NEW n, NEW a, send_file_data(o, n, a) PROVE op'.kind \in {"send", "fault"}
  BY <1>2 DEF send_file_data, NoOp
<1>3. CASE Downloads
  BY <1>2, <1>3 DEF Downloads, GetObject, GetPartialObject
<1>4. CASE SendBlock
  BY <1>1, <1>4 DEF SendBlock, Operations
<1>5. CASE SendEnd
  BY <1>1, <1>5 DEF SendEnd, Operations
<1> QED BY <1>3, <1>4, <1>5

\* The steps of an upload leave an upload.
LEMMA UploadKinds ==
    ASSUME StreamInv, Uploads \/ ReceiveBlock \/ ReceiveEnd
    PROVE  op'.kind \in {"receive", "last", "received"}
<1>1. op \in Operations
  BY DEF StreamInv, TypeOK
<1>2. ASSUME NEW p, NEW o, NEW d, NEW s, Receive(p, o, d, s) PROVE op'.kind \in {"receive", "last"}
  BY <1>2 DEF Receive, NoOp
<1>3. CASE Uploads
  BY <1>2, <1>3 DEF Uploads, SendObject, SendPartialObject
<1>4. CASE ReceiveBlock
  BY <1>1, <1>4 DEF ReceiveBlock, Operations
<1>5. CASE ReceiveEnd
  BY <1>1, <1>5 DEF ReceiveEnd, Operations
<1> QED BY <1>3, <1>4, <1>5

-----------------------------------------------------------------------------
(* The end of an upload.                                                   *)

\* The first read: the loop goes on exactly when the transfer is not over.
LEMMA FirstRead ==
    ASSUME NEW partial \in BOOLEAN, NEW data \in Seq(Nat), NEW split \in BOOLEAN, partial \/ ~split
    PROVE  LET first == IF split THEN 0 ELSE Min({Len(data), RdBuffer - Header})
               rest == SubSeq(data, first + 1, Len(data))
               open == IF split THEN data # <<>> ELSE first = RdBuffer - Header
           IN /\ More(partial, first, Len(rest)) => open
              /\ ~More(partial, first, Len(rest)) => ~open /\ rest = <<>>
<1> DEFINE room == RdBuffer - Header
           first == IF split THEN 0 ELSE Min({Len(data), room})
           rest == SubSeq(data, first + 1, Len(data))
           open == IF split THEN data # <<>> ELSE first = room
<1>1. room \in Nat /\ room > 0
  BY Buffers
<1>2. first \in 0..Len(data) /\ (~split => first = Len(data) \/ first = room)
  <2> HIDE DEF room
  <2> QED BY <1>1, Taken
<1>3. More(partial, first, Len(rest)) <=> first = room \/ (partial /\ Len(rest) # 0)
  BY DEF More
<1>4. split => first = 0
  OBVIOUS
<1> HIDE DEF first
<1>5. rest \in Seq(Nat) /\ Len(rest) = Len(data) - first /\ Len(data) \in Nat
  BY <1>2, Cut
<1>6. (rest = <<>> <=> Len(rest) = 0) /\ (data = <<>> <=> Len(data) = 0)
  BY <1>5, Empty
<1> HIDE DEF room, rest
<1>7. /\ More(partial, first, Len(rest)) => open
      /\ ~More(partial, first, Len(rest)) => ~open /\ rest = <<>>
  BY <1>1, <1>2, <1>3, <1>4, <1>5, <1>6
<1> QED BY <1>7 DEF first, rest, room

\* UploadConsumed is inductive.
LEMMA ConsumedStep ==
    ASSUME StreamInv, UploadConsumed, [Next]_vars
    PROVE  UploadConsumed'
<1>1. op \in Operations
  BY DEF StreamInv, TypeOK
<1>2. CASE UNCHANGED vars
  BY <1>2 DEF vars, UploadConsumed
<1>3. CASE Others \/ Lists
  BY <1>3, Elsewhere DEF UploadConsumed
<1>4. CASE Downloads \/ SendBlock \/ SendEnd
  BY <1>4, DownloadKinds DEF UploadConsumed
<1>5. CASE Programs
  BY <1>1, <1>5, ProgramsFrame DEF UploadConsumed, Operations
<1>6. CASE Uploads
  <2>1. PICK partial \in BOOLEAN, offset \in Nat, data \in Seq(Nat), split \in BOOLEAN :
          Receive(partial, offset, data, split) /\ (partial \/ ~split)
    BY <1>6, UploadArguments
  <2> DEFINE first == IF split THEN 0 ELSE Min({Len(data), RdBuffer - Header})
             rest == SubSeq(data, first + 1, Len(data))
             open == IF split THEN data # <<>> ELSE first = RdBuffer - Header
             more == More(partial, first, Len(rest))
  <2>2. op'.kind = (IF more THEN "receive" ELSE "last") /\ op'.rest = rest /\ op'.open = open
    BY <2>1 DEF Receive, NoOp
  <2>3. (more => open) /\ (~more => ~open /\ rest = <<>>)
    BY <2>1, FirstRead
  <2> HIDE DEF more, rest, open
  <2> QED BY <2>2, <2>3 DEF UploadConsumed
<1>7. CASE ReceiveBlock
  <2> DEFINE n == Min({Len(op.rest), RdBuffer})
             rest == SubSeq(op.rest, n + 1, Len(op.rest))
  <2>1. op.rest \in Seq(Nat)
    BY <1>1 DEF Operations
  <2>2. n \in 0..Len(op.rest) /\ (n = Len(op.rest) \/ n = RdBuffer)
    BY <2>1, Buffers, Taken
  <2>3. op' = [op EXCEPT !.kind = IF n = RdBuffer THEN "receive" ELSE "last",
                         !.j = op.j + n, !.rest = rest, !.open = (n = RdBuffer)]
    BY <1>7 DEF ReceiveBlock
  <2> HIDE DEF n
  <2>4. rest \in Seq(Nat) /\ Len(rest) = Len(op.rest) - n /\ Len(op.rest) \in Nat
    BY <2>1, <2>2, Cut
  <2> HIDE DEF rest
  <2>5. n # RdBuffer => rest = <<>>
    BY <2>2, <2>4, Empty
  <2>6. /\ op'.kind = (IF n = RdBuffer THEN "receive" ELSE "last")
        /\ op'.rest = rest /\ op'.open = (n = RdBuffer)
    BY <1>1, <2>3 DEF Operations
  <2> QED BY <2>5, <2>6 DEF UploadConsumed
<1>8. CASE ReceiveEnd
  BY <1>1, <1>8 DEF ReceiveEnd, UploadConsumed, Operations
<1> QED BY <1>2, <1>3, <1>4, <1>5, <1>6, <1>7, <1>8, Cases

\* SendObject and SendPartialObject read the host's data phase to its end and no
\* further, whatever its length and the size of the read buffer: the loop of
\* mtp_op_SendObject goes on exactly as long as there is something to read.
THEOREM UploadConsumedCorrect == Spec => []UploadConsumed
<1>1. Init => StreamInv /\ UploadConsumed
  <2>1. Init => op.kind = "none"
    BY DEF Init, NoOp
  <2>2. op.kind = "none" => UploadConsumed
    BY DEF UploadConsumed
  <2> QED BY <2>1, <2>2, InitTyped
<1>2. StreamInv /\ UploadConsumed /\ [Next]_vars => StreamInv' /\ UploadConsumed'
  BY StreamStep, ConsumedStep
<1> QED BY <1>1, <1>2, PTL DEF Spec

-----------------------------------------------------------------------------
(* What an upload leaves in the file.                                      *)

\* The first write of a clean upload.
LEMMA ReceivingStart ==
    ASSUME StreamInv, NEW partial \in BOOLEAN, NEW offset \in Nat, NEW data \in Seq(Nat),
           NEW split \in BOOLEAN, Receive(partial, offset, data, split)
    PROVE  Receiving'
<1> DEFINE first == IF split THEN 0 ELSE Min({Len(data), RdBuffer - Header})
           old == IF partial \/ fd # 0 THEN disk[Opened] ELSE <<>>
           rest == SubSeq(data, first + 1, Len(data))
           new == Overwrite(old, offset, SubSeq(data, 1, first))
           base == IF partial THEN file ELSE <<>>
           expect == Overwrite(base, offset, data)
           clean == fd = 0 \/ (fd = at /\ (partial \/ file = <<>>))
           to == offset + first
<1>1. FileTyped
  BY DEF StreamInv, TypeOK
<1>2. first \in 0..Len(data)
  BY Buffers, Taken
<1>3. /\ op'.j = to /\ op'.rest = rest /\ op'.clean = clean /\ op'.expect = expect
      /\ disk' = [disk EXCEPT ![Opened] = new]
      /\ fd' = Opened /\ at' = at
  BY DEF Receive, NoOp
<1> HIDE DEF first
<1>4. SUFFICES ASSUME clean PROVE fd' = at' /\ Overwrite(file', op'.j, op'.rest) = op'.expect
  BY <1>3 DEF Receiving
<1>5. Opened = at /\ at # 0
  BY <1>1, <1>4 DEF Opened, FileTyped
<1>6. old = base
  BY <1>4, <1>5 DEF file
<1>7. base \in Seq(Nat) /\ SubSeq(data, 1, first) \in Seq(Nat)
  BY <1>1, <1>2, Files, EmptySeq, Cut
<1>8. new \in Seq(Nat)
  BY <1>6, <1>7, Writes
<1> HIDE DEF new
<1>9. file' = new
  BY <1>1, <1>3, <1>5, <1>8, DiskPut DEF file, FileTyped
<1> HIDE DEF base
<1>10. Overwrite(Overwrite(base, offset, SubSeq(data, 1, first)), offset + first, rest) = expect
  BY <1>2, <1>7, WriteTwice
<1>11. Overwrite(file', op'.j, op'.rest) = expect
  BY <1>3, <1>6, <1>9, <1>10 DEF new
<1> QED BY <1>3, <1>5, <1>11

\* And every other one.
LEMMA ReceivingBlock ==
    ASSUME StreamInv, Receiving, ReceiveBlock
    PROVE  Receiving'
<1> DEFINE n == Min({Len(op.rest), RdBuffer})
           rest == SubSeq(op.rest, n + 1, Len(op.rest))
           new == Overwrite(disk[fd], op.j, SubSeq(op.rest, 1, n))
<1>1. FileTyped /\ op \in Operations
  BY DEF StreamInv, TypeOK
<1>2. op.rest \in Seq(Nat) /\ op.j \in Nat
  BY <1>1 DEF Operations
<1>3. n \in 0..Len(op.rest)
  BY <1>2, Buffers, Taken
<1>4. /\ op' = [op EXCEPT !.kind = IF n = RdBuffer THEN "receive" ELSE "last",
                          !.j = op.j + n, !.rest = rest, !.open = (n = RdBuffer)]
      /\ disk' = [disk EXCEPT ![fd] = new]
      /\ op.kind = "receive" /\ at' = at /\ fd' = fd
  BY DEF ReceiveBlock
<1> HIDE DEF n
<1>5. op'.j = op.j + n /\ op'.rest = rest /\ op'.clean = op.clean /\ op'.expect = op.expect
  BY <1>1, <1>4 DEF Operations
<1>6. SUFFICES ASSUME op.clean PROVE fd' = at' /\ Overwrite(file', op'.j, op'.rest) = op'.expect
  BY <1>5 DEF Receiving
<1>7. fd = at /\ Overwrite(file, op.j, op.rest) = op.expect
  BY <1>4, <1>6 DEF Receiving
<1>8. file \in Seq(Nat) /\ SubSeq(op.rest, 1, n) \in Seq(Nat)
  BY <1>1, <1>2, <1>3, Files, Cut
<1>9. new = Overwrite(file, op.j, SubSeq(op.rest, 1, n)) /\ new \in Seq(Nat)
  BY <1>2, <1>7, <1>8, Writes DEF file
<1> HIDE DEF new
<1>10. file' = new
  BY <1>1, <1>4, <1>7, <1>9, DiskPut DEF file, FileTyped
<1>11. Overwrite(Overwrite(file, op.j, SubSeq(op.rest, 1, n)), op.j + n, rest)
         = Overwrite(file, op.j, op.rest)
  BY <1>2, <1>3, <1>8, WriteTwice
<1>12. Overwrite(file', op'.j, op'.rest) = op'.expect
  BY <1>5, <1>7, <1>9, <1>10, <1>11
<1> QED BY <1>4, <1>7, <1>12

\* Every step keeps what an upload is to leave.
LEMMA UploadStep ==
    ASSUME StreamInv, UploadConsumed, UploadInv, [Next]_vars
    PROVE  UploadInv'
<1>1. op \in Operations /\ FileTyped
  BY DEF StreamInv, TypeOK
<1>2. CASE UNCHANGED vars
  BY <1>2 DEF vars, UploadInv, Receiving, UploadExact, file
<1>3. CASE Others \/ Lists
  BY <1>3, Elsewhere DEF UploadInv, Receiving, UploadExact
<1>4. CASE Downloads \/ SendBlock \/ SendEnd
  BY <1>4, DownloadKinds DEF UploadInv, Receiving, UploadExact
<1>5. CASE Programs
  <2>1. op'.clean = FALSE
    BY <1>1, <1>5, ProgramsFrame DEF Operations
  <2> QED BY <2>1 DEF UploadInv, Receiving, UploadExact
<1>6. CASE Uploads
  <2>1. PICK partial \in BOOLEAN, offset \in Nat, data \in Seq(Nat), split \in BOOLEAN :
          Receive(partial, offset, data, split)
    BY <1>6, UploadArguments
  <2>2. op'.kind \in {"receive", "last"}
    BY <2>1 DEF Receive, NoOp
  <2> QED BY <2>1, <2>2, ReceivingStart DEF UploadInv, UploadExact
<1>7. CASE ReceiveBlock
  <2>1. op'.kind \in {"receive", "last"}
    BY <1>1, <1>7 DEF ReceiveBlock, Operations
  <2> QED BY <1>7, <2>1, ReceivingBlock DEF UploadInv, UploadExact
<1>8. CASE ReceiveEnd
  <2>1. /\ op'.kind = "received" /\ op'.clean = op.clean /\ op'.expect = op.expect
        /\ op.kind = "last" /\ size' = Len(disk[fd]) /\ disk' = disk /\ at' = at
    BY <1>1, <1>8 DEF ReceiveEnd, Operations
  <2>2. op.rest = <<>>
    BY <2>1 DEF UploadConsumed
  <2>3. ASSUME op.clean PROVE file' = op'.expect /\ size' = Len(file')
    <3>1. fd = at /\ Overwrite(file, op.j, op.rest) = op.expect
      BY <2>1, <2>3 DEF UploadInv, Receiving
    <3>2. file = op.expect
      BY <2>2, <3>1 DEF Overwrite
    <3> QED BY <2>1, <3>1, <3>2 DEF file
  <2> QED BY <2>1, <2>3 DEF UploadInv, Receiving, UploadExact
<1> QED BY <1>2, <1>3, <1>4, <1>5, <1>6, <1>7, <1>8, Cases

\* After an upload the file is what the host sent, in its place, and the entry has
\* its size, for every length, offset and buffer, if no other program changed the
\* file (mtp_op_SendObject, entry_open).
THEOREM UploadExactCorrect == Spec => []UploadExact
<1>1. Init => StreamInv /\ UploadConsumed /\ UploadInv
  <2>1. Init => op.kind = "none"
    BY DEF Init, NoOp
  <2>2. op.kind = "none" => UploadConsumed /\ UploadInv
    BY DEF UploadConsumed, UploadInv, Receiving, UploadExact
  <2> QED BY <2>1, <2>2, InitTyped
<1>2. StreamInv /\ UploadConsumed /\ UploadInv /\ [Next]_vars
        => StreamInv' /\ UploadConsumed' /\ UploadInv'
  BY StreamStep, ConsumedStep, UploadStep
<1>3. UploadInv => UploadExact
  BY DEF UploadInv
<1> QED BY <1>1, <1>2, <1>3, PTL DEF Spec

-----------------------------------------------------------------------------
(* What a download delivers.                                               *)

\* A download that starts with the right size announces what there is.
LEMMA SendingStart ==
    ASSUME StreamInv, NEW offset \in Nat, NEW maxsize \in Int, NEW asked \in Nat,
           send_file_data(offset, maxsize, asked), Passed(maxsize, asked), op'.kind = "send"
    PROVE  Sending'
<1> DEFINE length == actualsize(offset, maxsize)
           expect == Wanted(offset, asked)
           x == offset + asked
           y == Len(file)
<1>1. FileTyped
  BY DEF StreamInv, TypeOK
<1>2. /\ op'.offset = offset /\ op'.length = length /\ op'.clean = UpToDate
      /\ op'.expect = expect /\ op'.j = 0 /\ op'.buf = -1
      /\ fd' = Opened /\ sent' = <<>> /\ disk' = disk /\ at' = at
  BY DEF send_file_data, NoOp
<1>21. ~(length < 0)
  <2> DEFINE negative == length < 0
  <2>1. op' = [NoOp EXCEPT !.kind = IF negative THEN "fault" ELSE "send",
                 !.offset = offset, !.asked = asked, !.length = length,
                 !.ofs = Header, !.clean = UpToDate, !.expect = expect]
    BY DEF send_file_data
  <2> HIDE DEF negative, length, expect
  <2>2. negative => op'.kind = "fault"
    BY <2>1 DEF NoOp
  <2> QED BY <2>2 DEF negative
<1>3. SUFFICES ASSUME UpToDate
               PROVE  /\ Opened = at
                      /\ expect = SubSeq(file, offset + 1, offset + length)
                      /\ length = 0 \/ offset + length <= Len(file)
  <2>1. file' = file /\ op'.buf \notin Nat /\ Len(sent') = 0 /\ 1..0 = {}
    BY <1>2, EmptySeq DEF file
  <2> QED BY <1>2, <1>3, <2>1 DEF Sending
<1>4. Opened = at /\ size = Len(file)
  BY <1>1, <1>3 DEF UpToDate, Opened, FileTyped
<1>5. file \in Seq(Nat) /\ y \in Nat /\ x \in Int /\ y \in Int
  BY <1>1, Files
<1>6. length = IF offset >= y THEN 0 ELSE IF x > y THEN y - offset ELSE asked
  <2>1. length = IF offset >= y THEN 0 ELSE IF offset + maxsize > y THEN y - offset ELSE maxsize
    BY <1>4 DEF actualsize
  <2> HIDE DEF y, length
  <2>2. CASE maxsize = asked
    BY <2>1, <2>2
  <2>3. CASE maxsize < 0
    BY <1>5, <1>21, <2>1, <2>3
  <2> QED BY <2>2, <2>3 DEF Passed
<1>7. expect = SubSeq(file, offset + 1, Min({x, y}))
  BY DEF Wanted
<1> HIDE DEF length, expect
<1>8. Min({x, y}) = IF x <= y THEN x ELSE y
  <2> HIDE DEF x, y
  <2> QED BY <1>5, MinMax, Zenon
<1> DEFINE k == Min({x, y})
<1>9. k = (IF x <= y THEN x ELSE y)
  BY <1>8
<1> HIDE DEF k
<1>10. CASE offset < y
  <2>1. k = offset + length /\ offset + length <= y
    BY <1>5, <1>6, <1>9, <1>10
  <2> QED BY <1>4, <1>7, <2>1 DEF k
<1>11. CASE ~(offset < y)
  <2>1. length = 0 /\ k = y
    BY <1>5, <1>6, <1>9, <1>11
  <2>2. y < offset + 1 /\ offset + length < offset + 1 /\ offset + length \in Int
    BY <1>5, <1>11, <2>1
  <2>3. ASSUME NEW b \in Int, b < offset + 1 PROVE SubSeq(file, offset + 1, b) = <<>>
    <3>1. \A i \in offset + 1..b : file[i] \in Nat
      BY <2>3
    <3>2. SubSeq(file, offset + 1, b) \in Seq(Nat) /\ Len(SubSeq(file, offset + 1, b)) = 0
      BY <2>3, <3>1, SubSeqProperties
    <3> QED BY <3>2, Empty
  <2>4. expect = <<>> /\ SubSeq(file, offset + 1, offset + length) = <<>>
    <3>1. SubSeq(file, offset + 1, y) = <<>>
      BY <1>5, <2>2, <2>3
    <3> QED BY <1>7, <2>1, <2>2, <2>3, <3>1 DEF k
  <2> QED BY <1>4, <2>1, <2>4
<1> QED BY <1>5, <1>10, <1>11

\* Only a length that an int has made negative is a fault.
LEMMA FaultAsked ==
    ASSUME FileTyped, NEW offset \in Nat, NEW maxsize \in Int, NEW asked \in Nat,
           send_file_data(offset, maxsize, asked), Passed(maxsize, asked), op'.kind = "fault"
    PROVE  asked >= IntRange \div 2
<1> DEFINE length == actualsize(offset, maxsize)
           expect == Wanted(offset, asked)
           negative == length < 0
<1>1. negative
  <2>1. op' = [NoOp EXCEPT !.kind = IF negative THEN "fault" ELSE "send",
                 !.offset = offset, !.asked = asked, !.length = length,
                 !.ofs = Header, !.clean = UpToDate, !.expect = expect]
    BY DEF send_file_data
  <2> HIDE DEF negative, length, expect
  <2>2. ~negative => op'.kind = "send"
    BY <2>1 DEF NoOp
  <2> QED BY <2>2
<1>2. size \in Nat
  BY DEF FileTyped
<1>3. maxsize < 0
  BY <1>1, <1>2 DEF actualsize
<1> QED BY <1>3 DEF Passed

\* One more block of a clean download.
LEMMA SendingBlock ==
    ASSUME StreamInv, Sending, SendBlock
    PROVE  Sending'
<1> DEFINE n == blocksize
           data == Block.data
           f == disk[fd]
           j == op.j
           pos == op.offset + op.j
<1>1. FileTyped /\ PhaseTyped /\ op \in Operations /\ Running /\ op.kind = "send"
  BY DEF StreamInv, TypeOK, SendBlock
<1>2. op.offset \in Nat /\ op.length \in Int /\ j \in Nat /\ j <= op.length
  BY <1>1 DEF Operations, Running
<1>3. n \in Nat /\ j + n <= op.length
  BY <1>1, <1>2, Blocksize
<1>4. data \in Seq(Nat) /\ Len(data) = n /\ Block.buf \in Nat
  BY <1>1, Blocks
<1>5. /\ op' = [op EXCEPT !.j = j + Len(data), !.ofs = 0, !.buf = Block.buf]
      /\ sent' = sent \o data /\ page' = Block.page
      /\ disk' = disk /\ at' = at /\ fd' = fd
  BY DEF SendBlock
<1>6. /\ op'.offset = op.offset /\ op'.length = op.length /\ op'.expect = op.expect /\ op'.clean = op.clean
      /\ op'.j = j + n /\ op'.buf = Block.buf
  <2> DEFINE to == j + Len(data)
             b == Block.buf
  <2>1. op' = [op EXCEPT !.j = to, !.ofs = 0, !.buf = b] /\ to = j + n
    BY <1>4, <1>5
  <2> HIDE DEF to, b
  <2>2. /\ op'.offset = op.offset /\ op'.length = op.length /\ op'.expect = op.expect
        /\ op'.clean = op.clean /\ op'.j = to /\ op'.buf = b
    BY <1>1, <2>1 DEF Operations
  <2> QED BY <2>1, <2>2 DEF b
<1>7. SUFFICES ASSUME op.clean
               PROVE  /\ fd = at
                      /\ op.expect = SubSeq(file, op.offset + 1, op.offset + op.length)
                      /\ op.length = 0 \/ op.offset + op.length <= Len(file)
                      /\ Len(sent') = j + n /\ \A i \in 1..(j + n) : sent'[i] = f[op.offset + i]
                      /\ Holds(Block.page, Block.buf, f)
  <2>1. file' = file
    BY <1>5 DEF file
  <2> HIDE DEF j, n
  <2>2. fd = at => f = file
    BY DEF file
  <2> QED BY <1>5, <1>6, <1>7, <2>1, <2>2, SMTT(40) DEF Sending, Holds
<1>8. /\ fd = at
      /\ op.expect = SubSeq(file, op.offset + 1, op.offset + op.length)
      /\ op.length = 0 \/ op.offset + op.length <= Len(file)
      /\ Len(sent) = j /\ \A i \in 1..j : sent[i] = file[op.offset + i]
      /\ op.buf \in Nat => Holds(page, op.buf, file)
  BY <1>1, <1>7 DEF Sending, Holds
<1>9. f = file /\ file \in Seq(Nat)
  BY <1>1, <1>8, Files DEF file
<1>10. n = 0 \/ pos + n <= Len(f)
  <2>1. Len(f) \in Nat /\ (op.length = 0 \/ op.offset + op.length <= Len(f))
    BY <1>8, <1>9
  <2> HIDE DEF n, f
  <2> QED BY <1>2, <1>3, <2>1
<1>11. Holds(Block.page, Block.buf, f) /\ \A i \in 1..n : data[i] = f[pos + i]
  BY <1>1, <1>8, <1>9, <1>10, Blocks
<1>12. sent \in Seq(Nat)
  BY <1>1 DEF PhaseTyped
<1> HIDE DEF n, data, f
<1>13. /\ Len(sent \o data) = Len(sent) + Len(data)
       /\ \A i \in 1..Len(sent) + Len(data) :
            (sent \o data)[i] = IF i <= Len(sent) THEN sent[i] ELSE data[i - Len(sent)]
  BY <1>4, <1>12, ConcatProperties
<1>14. Len(sent') = j + n
  BY <1>4, <1>5, <1>8, <1>13
<1>15. ASSUME NEW i \in 1..(j + n) PROVE sent'[i] = f[op.offset + i]
  <2>1. sent'[i] = IF i <= j THEN sent[i] ELSE data[i - j]
    BY <1>4, <1>5, <1>8, <1>13
  <2>2. CASE i <= j
    BY <1>2, <1>3, <1>8, <1>9, <2>1, <2>2, SMTT(40)
  <2>3. CASE ~(i <= j)
    <3>1. i - j \in 1..n /\ pos + (i - j) = op.offset + i
      BY <1>2, <1>3, <2>3
    <3>2. data[i - j] = f[pos + (i - j)]
      BY <1>11, <3>1
    <3> QED BY <2>1, <2>3, <3>1, <3>2
  <2> QED BY <2>2, <2>3
<1> QED BY <1>8, <1>11, <1>14, <1>15

\* Every step keeps what a download is to deliver.
LEMMA DownloadStep ==
    ASSUME StreamInv, DownloadInv, [Next]_vars
    PROVE  DownloadInv'
<1>1. op \in Operations /\ FileTyped /\ PhaseTyped /\ Running
  BY DEF StreamInv, TypeOK
<1>2. CASE UNCHANGED vars
  BY <1>2 DEF vars, DownloadInv, Sending, DownloadExact, file
<1>3. CASE Others \/ Lists
  BY <1>3, Elsewhere DEF DownloadInv, Sending, DownloadExact
<1>4. CASE Uploads \/ ReceiveBlock \/ ReceiveEnd
  BY <1>4, UploadKinds DEF DownloadInv, Sending, DownloadExact
<1>5. CASE Programs
  <2>1. op'.clean = FALSE /\ op'.kind = op.kind /\ op'.asked = op.asked
    BY <1>1, <1>5, ProgramsFrame DEF Operations
  <2> QED BY <2>1 DEF DownloadInv, Sending, DownloadExact
<1>6. CASE Downloads
  <2>1. PICK offset \in Nat, maxsize \in Int, asked \in Nat :
               send_file_data(offset, maxsize, asked) /\ Passed(maxsize, asked)
    BY <1>6, DownloadArguments
  <2>2. op'.kind \in {"send", "fault"} /\ op'.asked = asked
    BY <2>1 DEF send_file_data, NoOp
  <2>3. CASE op'.kind = "send"
    BY <2>1, <2>3, SendingStart DEF DownloadInv, DownloadExact
  <2>4. CASE op'.kind = "fault"
    <3>1. asked >= IntRange \div 2
      BY <1>1, <2>1, <2>4, FaultAsked
    <3> QED BY <2>2, <2>4, <3>1 DEF DownloadInv, DownloadExact, Sending
  <2> QED BY <2>2, <2>3, <2>4
<1>7. CASE SendBlock
  <2>1. op'.kind = "send"
    BY <1>1, <1>7 DEF SendBlock, Operations
  <2> QED BY <1>7, <2>1, SendingBlock DEF DownloadInv, DownloadExact
<1>8. CASE SendEnd
  <2>1. /\ op'.kind = "sent" /\ op'.clean = op.clean /\ op'.expect = op.expect
        /\ op.kind = "send" /\ op.j >= op.length /\ sent' = sent
    BY <1>1, <1>8 DEF SendEnd, Operations
  <2>2. op.offset \in Nat /\ op.length \in Int /\ op.j \in Nat
    BY <1>1 DEF Operations
  <2>3. op.j <= op.length
    BY <1>1, <2>1 DEF Running
  <2>4. op.j = op.length
    BY <2>1, <2>2, <2>3
  <2>5. ASSUME op.clean PROVE sent = op.expect
    <3> DEFINE l == op.length
               o == op.offset
               cut == SubSeq(file, o + 1, o + l)
    <3>1. /\ op.expect = cut
          /\ l = 0 \/ o + l <= Len(file)
          /\ Len(sent) = l /\ \A i \in 1..l : sent[i] = file[o + i]
      <4>1. /\ op.expect = SubSeq(file, op.offset + 1, op.offset + op.length)
            /\ op.length = 0 \/ op.offset + op.length <= Len(file)
            /\ Len(sent) = op.j /\ \A i \in 1..op.j : sent[i] = file[op.offset + i]
        BY <2>1, <2>5 DEF DownloadInv, Sending
      <4> QED BY <2>4, <4>1
    <3>2. file \in Seq(Nat) /\ sent \in Seq(Nat) /\ l \in Nat /\ o \in Nat
      BY <1>1, <2>2, <2>4, Files DEF PhaseTyped
    <3> HIDE DEF l, o
    <3>3. \A i \in o + 1..o + l : file[i] \in Nat
      BY <3>1, <3>2
    <3>4. cut \in Seq(Nat) /\ Len(cut) = l /\ \A i \in 1..l : cut[i] = file[o + i]
      <4> DEFINE a == o + 1
                 b == o + l
      <4>1. a \in Int /\ b \in Int /\ b - a + 1 = l /\ l \in Nat /\ \A i \in 1..l : a + i - 1 = o + i
        BY <3>2
      <4>2. \A i \in a..b : file[i] \in Nat
        BY <3>3
      <4> HIDE DEF a, b
      <4>3. /\ SubSeq(file, a, b) \in Seq(Nat)
            /\ Len(SubSeq(file, a, b)) = IF a <= b THEN b - a + 1 ELSE 0
            /\ \A i \in 1..b - a + 1 : SubSeq(file, a, b)[i] = file[a + i - 1]
        BY <4>1, <4>2, SubSeqProperties
      <4>4. Len(SubSeq(file, a, b)) = l
        BY <4>1, <4>3
      <4>5. \A i \in 1..l : SubSeq(file, a, b)[i] = file[o + i]
        BY <4>1, <4>3
      <4> QED BY <4>3, <4>4, <4>5 DEF a, b
    <3> HIDE DEF cut
    <3>5. Len(sent) = Len(cut) /\ \A i \in 1..Len(sent) : sent[i] = cut[i]
      BY <3>1, <3>4
    <3>6. sent = cut
      BY <3>2, <3>4, <3>5, SeqEqual
    <3> QED BY <3>1, <3>6
  <2> QED BY <2>1, <2>5 DEF DownloadInv, Sending, DownloadExact
<1> QED BY <1>2, <1>3, <1>4, <1>5, <1>6, <1>7, <1>8, Cases

\* GetObject and GetPartialObject deliver the bytes of the file, for every offset,
\* page and buffer, if the size in the entry was right and no other program changed
\* the file meanwhile; only a request from half the range of an int on may fail to
\* come to its end (send_file_data, entry_read, mtp_op_GetPartialObject).
THEOREM DownloadExactCorrect == Spec => []DownloadExact
<1>1. Init => StreamInv /\ DownloadInv
  <2>1. Init => op.kind = "none"
    BY DEF Init, NoOp
  <2>2. op.kind = "none" => DownloadInv
    BY DEF DownloadInv, Sending, DownloadExact
  <2> QED BY <2>1, <2>2, InitTyped
<1>2. StreamInv /\ DownloadInv /\ [Next]_vars => StreamInv' /\ DownloadInv'
  BY StreamStep, DownloadStep
<1>3. DownloadInv => DownloadExact
  BY DEF DownloadInv
<1> QED BY <1>1, <1>2, <1>3, PTL DEF Spec

-----------------------------------------------------------------------------
(* The framing of a data phase.                                            *)

\* A number without a remainder is a multiple.
LEMMA Divides ==
    ASSUME NEW a \in Nat, NEW m \in Nat, m > 0, a % m = 0
    PROVE  \E q \in Nat : a = q * m
<1>1. a = m * (a \div m) + (a % m)
  OBVIOUS
<1>2. a \div m \in Nat
  OBVIOUS
<1> QED BY <1>1, <1>2

\* A multiple has none.
LEMMA NoRemainder ==
    ASSUME NEW q \in Nat, NEW m \in Nat, m > 0
    PROVE  (q * m) % m = 0
OBVIOUS

\* The sum of two multiples is one.
LEMMA Multiples ==
    ASSUME NEW a \in Nat, NEW b \in Nat, NEW m \in Nat, m > 0, a % m = 0, b % m = 0
    PROVE  (a + b) % m = 0
<1>1. PICK q \in Nat : a = q * m
  BY Divides
<1>2. PICK r \in Nat : b = r * m
  BY Divides
<1>3. q * m + r * m = (q + r) * m
  OBVIOUS
<1>4. PICK s \in Nat : a + b = s * m
  BY <1>1, <1>2, <1>3
<1> QED BY <1>4, NoRemainder

\* A number below the modulus is its own remainder.
LEMMA Small ==
    ASSUME NEW a \in Nat, NEW m \in Nat, a < m
    PROVE  a % m = a
OBVIOUS

\* A length below half the range of an int passes through it.
LEMMA FitsInt ==
    ASSUME NEW n \in Nat, n < IntRange \div 2
    PROVE  AsInt(n) = n
<1>1. IntRange \in Nat /\ IntRange > 0
  BY BuffersAssumption
<1> DEFINE h == IntRange \div 2
<1>2. h \in Nat /\ 2 * h <= IntRange
  BY <1>1
<1> HIDE DEF h
<1>3. n + h \in Nat /\ n + h < IntRange
  BY <1>1, <1>2 DEF h
<1>4. (n + h) % IntRange = n + h
  BY <1>1, <1>3, Small
<1> QED BY <1>2, <1>4 DEF AsInt, h

\* What goes ahead of the data in a phase.
Base == IF op.kind = "send" THEN Header ELSE Header + 1

\* A data phase so far: it has come as far as the command has, in writes that are
\* not empty, and as long as there is more to come all of them end with a packet.
Framing ==
    op.kind \in {"send", "list"} =>
      /\ op.ofs = IF Len(ends) = 0 THEN Base ELSE 0
      /\ Len(ends) = 0 => op.j = 0
      /\ Len(ends) > 0 => ends[Len(ends)] = Base + op.j
      /\ \A i \in 1..Len(ends) : ends[i] > EndBefore(i)
      /\ \A i \in 1..Len(ends) : i < Len(ends) \/ op.j < op.length => ends[i] % MaxPacket = 0
FramingInv == Framing /\ DataFramed

\* No write is longer than the buffer.
Short == \A i \in 1..Len(ends) : ends[i] - EndBefore(i) \in 0..WrBuffer

\* One more write that fits the buffer keeps it so.
LEMMA ShortWrite ==
    ASSUME ends \in Seq(Nat), NEW n \in 0..WrBuffer, write_usb(n), Short
    PROVE  Short'
<1>1. n \in Nat
  BY Buffers
<1> DEFINE m == Len(ends)
           e == EndBefore(m + 1)
<1>2. /\ Len(ends') = m + 1 /\ e \in Nat /\ ends'[m + 1] = e + n /\ m \in Nat
      /\ \A i \in 1..m : ends'[i] = ends[i]
      /\ \A i \in 1..m + 1 : EndBefore(i)' = EndBefore(i)
  BY <1>1, Written
<1>3. ASSUME NEW i \in 1..m + 1 PROVE ends'[i] - EndBefore(i)' \in 0..WrBuffer
  <2>1. CASE i = m + 1
    <3>1. EndBefore(i)' = e /\ ends'[i] = e + n
      BY <1>2, <2>1
    <3> HIDE DEF e
    <3> QED BY <1>1, <1>2, <3>1
  <2>2. CASE i # m + 1
    <3>1. i \in 1..m
      BY <1>2, <2>2
    <3> QED BY <1>2, <3>1 DEF Short
  <2> QED BY <2>1, <2>2
<1> QED BY <1>2, <1>3 DEF Short

\* One write of a data phase: a full unit, a multiple of a packet, or all the rest.
LEMMA FramingWrite ==
    ASSUME ends \in Seq(Nat), op \in Operations, op.kind \in {"send", "list"}, Framing,
           NEW n \in Nat, write_usb(op.ofs + n), op.ofs + n > 0,
           op.j < op.length \/ op.ofs # 0, op.j + n <= op.length,
           op.j + n < op.length => (op.ofs + n) % MaxPacket = 0,
           op'.kind = op.kind, op'.j = op.j + n, op'.length = op.length, op'.ofs = 0
    PROVE  Framing'
<1> DEFINE m == Len(ends)
           p == EndBefore(m + 1)
           k == op.ofs + n
           j == op.j
           l == op.length
           o == op.ofs
           b == Base
<1>1. /\ o = IF m = 0 THEN b ELSE 0
      /\ m = 0 => j = 0
      /\ m > 0 => ends[m] = b + j
      /\ \A i \in 1..m : ends[i] > EndBefore(i)
      /\ \A i \in 1..m : i < m \/ j < l => ends[i] % MaxPacket = 0
  BY DEF Framing
<1>2. j \in Nat /\ l \in Int /\ o \in Nat /\ m \in Nat
  BY Buffers DEF Operations
<1>3. b \in Nat /\ b > 0 /\ b' = b
  BY Buffers DEF Base
<1>4. k \in Nat /\ k > 0
  BY <1>2
<1>5. /\ Len(ends') = m + 1 /\ p \in Nat /\ ends'[m + 1] = p + k
      /\ \A i \in 1..m : ends'[i] = ends[i]
      /\ \A i \in 1..m + 1 : EndBefore(i)' = EndBefore(i)
  <2> HIDE DEF k
  <2>1. write_usb(k)
    BY DEF k
  <2> QED BY <1>4, <2>1, Written
<1>6. p = IF m = 0 THEN 0 ELSE ends[m]
  BY <1>2 DEF EndBefore
<1> HIDE DEF m, p, b
<1>7. p + k = b + j + n
  BY <1>1, <1>2, <1>3, <1>5, <1>6
<1>8. ends'[m + 1] = b + (j + n)
  BY <1>2, <1>3, <1>5, <1>7
<1>9. ASSUME NEW i \in 1..m + 1 PROVE ends'[i] > EndBefore(i)'
  <2>1. CASE i = m + 1
    <3>1. EndBefore(i)' = p /\ ends'[i] = p + k
      BY <1>5, <2>1 DEF p, m
    <3> QED BY <1>4, <1>5, <3>1
  <2>2. CASE i # m + 1
    <3>1. i \in 1..m
      BY <1>2, <2>2
    <3> QED BY <1>1, <1>5, <3>1
  <2> QED BY <2>1, <2>2
<1>10. \A i \in 1..m : ends[i] % MaxPacket = 0
  BY <1>1, <1>2
<1>11. j + n < l => (p + k) % MaxPacket = 0
  <2>1. p % MaxPacket = 0
    <3>1. CASE m = 0
      <4>1. p = 0
        BY <1>6, <3>1
      <4> QED BY <4>1, Buffers, Small
    <3>2. CASE m # 0
      <4>1. m \in 1..m /\ p = ends[m]
        BY <1>2, <1>6, <3>2
      <4> QED BY <1>10, <4>1
    <3> QED BY <3>1, <3>2
  <2>2. MaxPacket \in Nat /\ MaxPacket > 0
    BY Buffers
  <2>3. ASSUME j + n < l PROVE (p + k) % MaxPacket = 0
    <3>1. k % MaxPacket = 0
      BY <2>3
    <3> HIDE DEF k
    <3> QED BY <1>4, <1>5, <2>1, <2>2, <3>1, Multiples
  <2> QED BY <2>3
<1>12. ASSUME NEW i \in 1..m + 1, i < m + 1 \/ j + n < l PROVE ends'[i] % MaxPacket = 0
  <2>1. CASE i = m + 1
    <3>1. j + n < l /\ ends'[i] = p + k
      BY <1>2, <1>5, <1>12, <2>1
    <3> QED BY <1>11, <3>1
  <2>2. CASE i # m + 1
    <3>1. i \in 1..m
      BY <1>2, <2>2
    <3> QED BY <1>5, <1>10, <3>1
  <2> QED BY <2>1, <2>2
<1>13. /\ op'.ofs = 0 /\ op'.j = j + n /\ op'.length = l /\ Base' = b /\ Len(ends') = m + 1 /\ m + 1 > 0
       /\ m + 1 # 0
  BY <1>2, <1>3, <1>5 DEF b
<1> HIDE DEF j, l
<1> QED BY <1>8, <1>9, <1>12, <1>13 DEF Framing

\* The end of a data phase: the empty packet is sent when it is needed.
LEMMA FramingEnd ==
    ASSUME ends \in Seq(Nat), op \in Operations, op.kind \in {"send", "list"}, Framing,
           op.j = op.length, op.ofs = 0, NEW total \in Nat, total = Base + op.length,
           total < IntRange \div 2, check_and_send_USB_ZLP(total)
    PROVE  Framed(total)'
<1> DEFINE m == Len(ends)
<1>1. /\ 0 = IF m = 0 THEN Base ELSE 0
      /\ m > 0 => ends[m] = total
      /\ \A i \in 1..m : ends[i] > EndBefore(i)
      /\ \A i \in 1..m : i < m => ends[i] % MaxPacket = 0
  BY DEF Framing
<1>2. Base \in Nat /\ Base > 0 /\ op.length \in Int /\ MaxPacket \in Nat /\ MaxPacket > 0
  BY Buffers DEF Base, Operations
<1>3. m \in Nat /\ m > 0 /\ total > 0
  <2>1. op.j \in Nat
    BY DEF Operations
  <2> QED BY <1>1, <1>2, <2>1
<1>4. AsInt(total) = total
  BY FitsInt
<1>5. CASE total >= MaxPacket /\ total % MaxPacket = 0
  <2>1. write_usb(0) /\ 0 \in Nat
    BY <1>4, <1>5 DEF check_and_send_USB_ZLP
  <2>2. PICK last \in Nat : last = m + 1
    BY <1>3
  <2>3. /\ Len(ends') = m + 1 /\ ends'[m + 1] = EndBefore(m + 1) + 0
        /\ \A i \in 1..m : ends'[i] = ends[i]
        /\ \A i \in 1..m + 1 : EndBefore(i)' = EndBefore(i)
    BY <2>1, Written
  <2>4. EndBefore(last) = total
    BY <1>1, <1>3, <2>2 DEF EndBefore
  <2>5. last \in 1..last /\ last > 0 /\ last - 1 = m
    BY <1>3, <2>2
  <2>6. Len(ends') = last /\ ends'[last] = total /\ EndBefore(last)' = total
    BY <2>2, <2>3, <2>4, <2>5
  <2>7. \A i \in 1..m : ends[i] % MaxPacket = 0
    BY <1>1, <1>3, <1>5
  <2>8. \A i \in 1..last - 1 : ends'[i] > EndBefore(i)' /\ ends'[i] % MaxPacket = 0
    <3>1. ASSUME NEW i \in 1..m PROVE ends'[i] > EndBefore(i)' /\ ends'[i] % MaxPacket = 0
      <4>1. i \in 1..m + 1
        BY <1>3
      <4> QED BY <1>1, <2>3, <2>7, <4>1
    <3> QED BY <2>5, <3>1
  <2> QED BY <2>5, <2>6, <2>8 DEF Framed, EndBefore
<1>6. CASE ~(total >= MaxPacket /\ total % MaxPacket = 0)
  <2>1. ends' = ends
    BY <1>4, <1>6 DEF check_and_send_USB_ZLP
  <2>2. total % MaxPacket # 0
    <3>1. CASE total < MaxPacket
      <4>1. total % MaxPacket = total
        BY <1>2, <3>1, Small
      <4> QED BY <1>3, <4>1
    <3>2. CASE ~(total < MaxPacket)
      BY <1>2, <1>6, <3>2
    <3> QED BY <3>1, <3>2
  <2>3. \A i \in 1..m - 1 : i \in 1..m /\ i < m
    BY <1>3
  <2>4. /\ m > 0 /\ ends[m] = total /\ total % MaxPacket # 0
        /\ \A i \in 1..m - 1 : ends[i] > EndBefore(i) /\ ends[i] % MaxPacket = 0
    BY <1>1, <1>3, <2>2, <2>3
  <2> QED BY <2>1, <2>4 DEF Framed, EndBefore
<1> QED BY <1>5, <1>6

\* The block of a download and the packet of a list are such writes.
LEMMA FramingSend ==
    ASSUME StreamInv, Framing, SendBlock
    PROVE  Framing' /\ op.ofs + blocksize \in 0..WrBuffer /\ write_usb(op.ofs + blocksize)
<1> DEFINE n == blocksize
           to == op.j + n
           buf == Block.buf
<1>1. /\ op \in Operations /\ op.kind = "send" /\ op.j <= op.length /\ ends \in Seq(Nat)
      /\ op.j < op.length \/ op.ofs # 0
  BY DEF StreamInv, TypeOK, PhaseTyped, Running, SendBlock
<1>2. op.j \in Nat /\ op.length \in Int /\ op.ofs \in 0..WrBuffer /\ op.ofs \in Nat
  BY <1>1, Buffers DEF Operations
<1>3. n \in Nat /\ op.j + n <= op.length /\ op.ofs + n <= WrBuffer
  BY <1>1, Blocksize
<1>4. op.ofs = 0 => n > 0
  BY <1>1, <1>2, Buffers DEF blocksize
<1>5. op.j + n < op.length => op.ofs + n = WrBuffer
  BY <1>1, <1>2, Buffers DEF blocksize
<1>6. WrBuffer % MaxPacket = 0
  BY BuffersAssumption
<1>7. Len(Block.data) = n
  BY <1>1, Blocks
<1>8. write_usb(op.ofs + n) /\ op' = [op EXCEPT !.j = to, !.ofs = 0, !.buf = buf]
  BY <1>7 DEF SendBlock
<1> HIDE DEF n
<1>9. op.ofs + n > 0 /\ op.ofs + n \in 0..WrBuffer
  BY <1>2, <1>3, <1>4, Buffers
<1>10. op.j + n < op.length => (op.ofs + n) % MaxPacket = 0
  BY <1>5, <1>6
<1> HIDE DEF to, buf
<1>11. op'.kind = op.kind /\ op'.j = to /\ op'.length = op.length /\ op'.ofs = 0
  BY <1>1, <1>8 DEF Operations
<1>12. Framing'
  BY <1>1, <1>3, <1>8, <1>9, <1>10, <1>11, FramingWrite DEF to
<1> QED BY <1>8, <1>9, <1>12 DEF n

\* A packet of a handle list: it is filled up to the packet size, or holds the last handles.
LEMMA FramingList ==
    ASSUME StreamInv, Framing, ListPacket
    PROVE  Framing' /\ op.ofs + HandlesNow \in 0..WrBuffer /\ write_usb(op.ofs + HandlesNow)
<1> DEFINE n == HandlesNow
           to == op.j + n
           left == op.length - op.j
           room == MaxPacket - op.ofs
<1>1. /\ op \in Operations /\ op.kind = "list" /\ op.j <= op.length /\ ends \in Seq(Nat)
      /\ op.ofs \in {0, Header + 1} /\ (op.j < op.length \/ op.ofs # 0)
  BY DEF StreamInv, TypeOK, PhaseTyped, Running, ListPacket
<1>2. op.j \in Nat /\ op.length \in Int /\ op.ofs \in Nat
  BY <1>1, Buffers DEF Operations
<1>3. left \in Int /\ left >= 0 /\ room \in Int /\ 1 \in Int /\ room >= 1
  BY <1>1, <1>2, Buffers
<1> HIDE DEF left, room
<1>4. Max({room, 1}) = IF room <= 1 THEN 1 ELSE room
  BY <1>3, MinMax, Zenon
<1>5. Max({room, 1}) = room
  BY <1>3, <1>4
<1>6. Min({left, room}) = IF left <= room THEN left ELSE room
  BY <1>3, MinMax, Zenon
<1>7. n = IF left <= room THEN left ELSE room
  BY <1>5, <1>6 DEF HandlesNow, left, room
<1>8. write_usb(op.ofs + n) /\ op' = [op EXCEPT !.j = to, !.ofs = 0]
  BY DEF ListPacket
<1> HIDE DEF n
<1>9. /\ n \in Nat /\ op.j + n <= op.length /\ op.ofs + n <= MaxPacket
      /\ op.j + n < op.length => op.ofs + n = MaxPacket
      /\ op.j < op.length => n > 0
  BY <1>2, <1>3, <1>7, Buffers DEF left, room
<1>10. op.ofs + n > 0 /\ op.ofs + n \in 0..WrBuffer
  BY <1>1, <1>2, <1>9, Buffers
<1>11. MaxPacket % MaxPacket = 0
  BY Buffers
<1>12. op.j + n < op.length => (op.ofs + n) % MaxPacket = 0
  BY <1>9, <1>11
<1> HIDE DEF to
<1>13. op'.kind = op.kind /\ op'.j = to /\ op'.length = op.length /\ op'.ofs = 0
  BY <1>1, <1>8 DEF Operations
<1>14. Framing'
  BY <1>1, <1>8, <1>9, <1>10, <1>12, <1>13, FramingWrite DEF to
<1> QED BY <1>8, <1>10, <1>14 DEF n

\* Nothing but a data phase writes, and a new one starts from nothing.
LEMMA FramingFrame ==
    ASSUME StreamInv, Others \/ Uploads \/ ReceiveBlock \/ ReceiveEnd
    PROVE  ends' = ends /\ op'.kind \notin {"send", "sent", "list", "listed"}
<1>1. ends' = ends
  BY DEF Others, SendObjectInfo, EndEditObject, GetObjectInfo, TruncateObject, Uploads, SendObject,
         SendPartialObject, Receive, ReceiveBlock, ReceiveEnd
<1>2. CASE Others
  BY <1>1, <1>2 DEF Others, SendObjectInfo, EndEditObject, GetObjectInfo, TruncateObject, Command, NoOp
<1>3. CASE Uploads \/ ReceiveBlock \/ ReceiveEnd
  BY <1>1, <1>3, UploadKinds
<1> QED BY <1>2, <1>3

\* A data phase starts with its header and nothing written.
LEMMA FramingStart ==
    ASSUME StreamInv, Downloads \/ \E n \in Counts : GetObjectHandles(n)
    PROVE  FramingInv'
<1>1. ends' = <<>> /\ Len(ends') = 0
  BY DEF Downloads, GetObject, GetPartialObject, send_file_data, GetObjectHandles
<1>2. /\ op'.kind = "fault" \/ (op'.kind \in {"send", "list"} /\ op'.j = 0 /\ op'.ofs = Base')
  <2>1. ASSUME NEW o, NEW n, NEW a, send_file_data(o, n, a)
        PROVE  op'.kind \in {"send", "fault"} /\ op'.j = 0 /\ op'.ofs = Header
    BY <2>1 DEF send_file_data, NoOp
  <2>2. ASSUME NEW n, GetObjectHandles(n)
        PROVE  op'.kind = "list" /\ op'.j = 0 /\ op'.ofs = Header + 1
    <3> DEFINE h == Header + 1
    <3>1. op' = [NoOp EXCEPT !.kind = "list", !.length = n, !.ofs = h]
      BY <2>2 DEF GetObjectHandles
    <3> HIDE DEF h
    <3>2. op'.kind = "list" /\ op'.j = 0 /\ op'.ofs = h
      BY <3>1 DEF NoOp
    <3> QED BY <3>2 DEF h
  <2>3. CASE Downloads
    BY <2>1, <2>3 DEF Downloads, GetObject, GetPartialObject, Base
  <2>4. CASE \E n \in Counts : GetObjectHandles(n)
    BY <2>2, <2>4 DEF Base
  <2> QED BY <2>3, <2>4
<1>3. 1..0 = {}
  OBVIOUS
<1>4. Framing'
  BY <1>1, <1>2, <1>3 DEF Framing
<1>5. DataFramed'
  BY <1>1, <1>2, <1>3 DEF DataFramed
<1> QED BY <1>4, <1>5 DEF FramingInv

\* A write of a data phase under way.
LEMMA FramingMiddle ==
    ASSUME StreamInv, FramingInv, SendBlock \/ ListPacket
    PROVE  FramingInv'
<1>1. ends \in Seq(Nat) /\ op \in Operations /\ Short
  BY DEF StreamInv, TypeOK, PhaseTyped, FramingInv, DataFramed, Short
<1>2. Framing
  BY DEF FramingInv
<1>3. op'.kind \in {"send", "list"}
  BY <1>1 DEF SendBlock, ListPacket, Operations
<1>4. PICK n \in 0..WrBuffer : write_usb(n) /\ Framing'
  <2>1. CASE SendBlock
    BY <1>2, <2>1, FramingSend
  <2>2. CASE ListPacket
    BY <1>2, <2>2, FramingList
  <2> QED BY <2>1, <2>2
<1>5. Short'
  BY <1>1, <1>4, ShortWrite
<1>6. DataFramed'
  BY <1>3, <1>5 DEF DataFramed, Short
<1> QED BY <1>4, <1>6 DEF FramingInv

\* And its end.
LEMMA FramingLast ==
    ASSUME StreamInv, FramingInv, SendEnd \/ ListEnd
    PROVE  FramingInv'
<1> DEFINE l == op.length
<1>1. ends \in Seq(Nat) /\ op \in Operations /\ Short /\ Framing /\ Running
  BY DEF StreamInv, TypeOK, PhaseTyped, FramingInv, DataFramed, Short
<1>2. l \in Int /\ op.j \in Nat /\ Header \in Nat /\ Base \in Nat
  BY <1>1, Buffers DEF Operations, Base
<1>3. /\ op.kind \in {"send", "list"} /\ op.ofs = 0 /\ op.j >= l
      /\ op'.length = l /\ op'.kind \in {"sent", "listed"}
      /\ op'.kind = "sent" <=> op.kind = "send"
  BY <1>1 DEF SendEnd, ListEnd, Operations
<1>4. op.j = l
  <2>1. op.j <= l
    BY <1>1, <1>3 DEF Running
  <2> QED BY <1>2, <1>3, <2>1
<1>5. Base = IF op'.kind = "sent" THEN Header ELSE Header + 1
  BY <1>3 DEF Base
<1>6. PICK total \in Nat : total = Base + l
  BY <1>2, <1>4
<1>7. check_and_send_USB_ZLP(total)
  <2>1. CASE SendEnd
    BY <1>6, <2>1 DEF SendEnd, Base
  <2>2. CASE ListEnd
    BY <1>6, <2>2 DEF ListEnd, Base
  <2> QED BY <2>1, <2>2
<1>8. total < IntRange \div 2 => Framed(total)'
  BY <1>1, <1>3, <1>4, <1>6, <1>7, FramingEnd
<1>9. Short'
  <2>1. ends' = ends \/ write_usb(0)
    BY <1>7 DEF check_and_send_USB_ZLP
  <2>2. 0 \in 0..WrBuffer
    BY Buffers
  <2>3. ends' = ends => Short'
    BY <1>1 DEF Short, EndBefore
  <2> QED BY <1>1, <2>1, <2>2, <2>3, ShortWrite
<1>10. op'.kind = "sent" => total = Header + op'.length
  BY <1>3, <1>5, <1>6
<1>11. op'.kind = "listed" => total = Header + 1 + op'.length
  BY <1>3, <1>5, <1>6
<1>12. (op'.kind = "sent" /\ Header + op'.length < IntRange \div 2) => Framed(Header + op.length)'
  BY <1>8, <1>10 DEF Framed
<1>13. (op'.kind = "listed" /\ Header + 1 + op'.length < IntRange \div 2)
         => Framed(Header + 1 + op.length)'
  BY <1>8, <1>11 DEF Framed
<1>14. DataFramed'
  BY <1>9, <1>12, <1>13 DEF DataFramed, Short
<1>15. Framing'
  BY <1>3 DEF Framing
<1> QED BY <1>14, <1>15 DEF FramingInv

\* Every step keeps the framing.
LEMMA FramingStep ==
    ASSUME StreamInv, FramingInv, [Next]_vars
    PROVE  FramingInv'
<1>1. op \in Operations /\ Short
  BY DEF StreamInv, TypeOK, FramingInv, DataFramed, Short
<1>2. CASE UNCHANGED vars
  BY <1>2 DEF vars, FramingInv, Framing, DataFramed, Framed, EndBefore, Base
<1>3. CASE Others \/ Uploads \/ ReceiveBlock \/ ReceiveEnd
  <2>1. ends' = ends /\ op'.kind \notin {"send", "sent", "list", "listed"}
    BY <1>3, FramingFrame
  <2> QED BY <1>1, <2>1 DEF FramingInv, Framing, DataFramed, Short, EndBefore
<1>4. CASE Programs
  <2>1. op' = [op EXCEPT !.clean = FALSE] /\ ends' = ends
    BY <1>4, ProgramsFrame DEF Programs, OtherTruncates, OtherReplaces
  <2>2. op'.kind = op.kind /\ op'.length = op.length /\ op'.j = op.j /\ op'.ofs = op.ofs
    BY <1>1, <2>1 DEF Operations
  <2> QED BY <2>1, <2>2 DEF FramingInv, Framing, DataFramed, Framed, EndBefore, Base
<1>5. CASE Downloads
  BY <1>5, FramingStart
<1>6. CASE SendBlock
  BY <1>6, FramingMiddle
<1>7. CASE SendEnd
  BY <1>7, FramingLast
<1>8. CASE Lists
  BY <1>8, FramingStart, FramingMiddle, FramingLast DEF Lists
<1> QED BY <1>2, <1>3, <1>4, <1>5, <1>6, <1>7, <1>8, Cases

\* Every data phase is as long as announced and its end can be seen: whole
\* packets, then one short or empty one, for every packet and buffer size, every
\* file and every number of handles, up to half the range of an int
\* (send_file_data, mtp_op_GetObjectHandles, check_and_send_USB_ZLP).
THEOREM DataFramedCorrect == Spec => []DataFramed
<1>1. Init => StreamInv /\ FramingInv
  <2>1. Init => op.kind = "none" /\ ends = <<>>
    BY DEF Init, NoOp
  <2>2. op.kind = "none" /\ ends = <<>> => FramingInv
    BY DEF FramingInv, Framing, DataFramed
  <2> QED BY <2>1, <2>2, InitTyped
<1>2. StreamInv /\ FramingInv /\ [Next]_vars => StreamInv' /\ FramingInv'
  BY StreamStep, FramingStep
<1>3. FramingInv => DataFramed
  BY DEF FramingInv
<1> QED BY <1>1, <1>2, <1>3, PTL DEF Spec
=============================================================================
