----------------------------- MODULE FileStream -----------------------------
(***************************************************************************)
(* umtprd: how the bytes of a file reach the host and come from it.        *)
(* send_file_data cuts a range of the file into USB writes out of a page   *)
(* buffer, mtp_op_SendObject puts a file together from USB reads,          *)
(* mtp_op_GetObjectHandles cuts a list into packets, and                   *)
(* check_and_send_USB_ZLP marks the end of a data phase.                   *)
(*                                                                         *)
(* One file, one entry.  A byte is a number that says where it comes from. *)
(* The descriptor that SendPartialObject leaves open, the size kept in the *)
(* entry and other programs at work on the file are part of the model;     *)
(* locks and cancelled transfers are in UsbTransfer.                       *)
(***************************************************************************)
EXTENDS Integers, Sequences, FiniteSetsExt

CONSTANTS
    Header,         \* sizeof(MTP_PACKET_HEADER)
    MaxPacket,      \* usb_cfg.usb_max_packet_size
    WrBuffer,       \* usb_wr_buffer_max_size
    RdBuffer,       \* usb_rd_buffer_max_size
    Page,           \* read_file_buffer_size
    IntRange,       \* number of values of an int
    Sizes,          \* lengths of files and uploads, of truncations and requests
    Offsets,        \* where partial reads and writes start
    Counts,         \* numbers of objects in a folder
    MaxOps,         \* bound: commands
    MaxChanges      \* bound: changes by other programs

\* buildconf.h: the buffers are multiples of 512, the read buffer is a power of
\* two and larger than the write buffer.  (The configuration file may say otherwise.)
ASSUME BuffersAssumption ==
    /\ {Header, MaxPacket, WrBuffer, RdBuffer, Page, IntRange} \subseteq Nat \ {0}
    /\ \E k \in 0..Page : Page = 2^k
    /\ Header + 1 < MaxPacket /\ MaxPacket < WrBuffer /\ WrBuffer < Page
    /\ WrBuffer % MaxPacket = 0 /\ RdBuffer % MaxPacket = 0 /\ Page % MaxPacket = 0
    /\ Sizes \cup Offsets \cup Counts \cup {MaxOps, MaxChanges} \subseteq Nat

VARIABLES
    disk,       \* the files: the content of each inode
    at,         \* the inode the entry's path names
    fd,         \* entry->file_descriptor: the inode it is open on, 0 when closed
    size,       \* entry->size
    page,       \* ctx->read_file_buffer
    op,         \* the command under way, or the last one
    sent,       \* what the host has received of its data phase
    ends,       \* and where in it each of its writes ended
    announced,  \* the last command was a SendObjectInfo
    ops, changes

vars == <<disk, at, fd, size, page, op, sent, ends, announced, ops, changes>>

file == disk[at]
Bytes(from, n) == [i \in 1..n |-> from + i]

NoOp == [kind |-> "none", offset |-> 0, asked |-> 0, length |-> 0, j |-> 0, ofs |-> 0, buf |-> -1,
         rest |-> <<>>, open |-> FALSE, partial |-> FALSE, clean |-> TRUE, expect |-> <<>>]

Init ==
    /\ \E n \in Sizes : disk = <<Bytes(0, n)>> /\ size = n
    /\ at = 1
    /\ fd = 0
    /\ page = [i \in 0..Page - 1 |-> 0]
    /\ op = NoOp
    /\ sent = <<>> /\ ends = <<>>
    /\ announced = FALSE
    /\ ops = 0 /\ changes = 0

-----------------------------------------------------------------------------
Idle == op.kind \notin {"send", "receive", "last", "list", "fault"}
Command(kind) == /\ Idle /\ ops < MaxOps /\ ops' = ops + 1
                 /\ op' = [NoOp EXCEPT !.kind = kind]

\* entry_open: a descriptor that is still open is used again.
Opened == IF fd # 0 THEN fd ELSE at

\* The entry is up to date and its descriptor, if open, is on the file.
UpToDate == size = Len(file) /\ fd \in {0, at}

\* A write of n units on the bulk endpoint.
EndBefore(i) == IF i = 1 THEN 0 ELSE ends[i - 1]
write_usb(n) == ends' = Append(ends, EndBefore(Len(ends) + 1) + n)

\* Mutant: an empty packet after every data phase that fills one packet or more.
ZLPAlways(total) == IF total >= MaxPacket THEN write_usb(0) ELSE UNCHANGED ends

\* What an int makes of a length: from half its range on, a negative number.
AsInt(n) == ((n + IntRange \div 2) % IntRange) - IntRange \div 2

\* check_and_send_USB_ZLP takes the length as an int.
check_and_send_USB_ZLP(total) ==
    IF AsInt(total) >= MaxPacket /\ AsInt(total) % MaxPacket = 0 THEN write_usb(0) ELSE UNCHANGED ends

-----------------------------------------------------------------------------
(* send_file_data.                                                         *)

actualsize(offset, maxsize) ==
    IF offset >= size THEN 0
    ELSE IF offset + maxsize > size THEN size - offset ELSE maxsize

\* What the host asks for.
Wanted(offset, asked) == SubSeq(file, offset + 1, Min({offset + asked, Len(file)}))

\* A negative length is that of the first block too: the memcpy of it runs out of
\* both buffers, and the process is gone ("fault").
send_file_data(offset, maxsize, asked) ==
    /\ Idle /\ ops < MaxOps /\ ops' = ops + 1
    /\ fd' = Opened
    /\ op' = [NoOp EXCEPT !.kind = IF actualsize(offset, maxsize) < 0 THEN "fault" ELSE "send",
                          !.offset = offset, !.asked = asked, !.length = actualsize(offset, maxsize),
                          !.ofs = Header, !.clean = UpToDate, !.expect = Wanted(offset, asked)]
    /\ sent' = <<>> /\ ends' = <<>>
    /\ announced' = FALSE
    /\ UNCHANGED <<disk, at, size, page, changes>>

GetObject == send_file_data(0, size, size)

\* The length is a uint32_t in the command and an int here.
GetPartialObject(offset, asked) == asked < IntRange /\ send_file_data(offset, AsInt(asked), asked)

PageOf(n) == n - (n % Page)

\* entry_read: at the end of the file the rest of the buffer keeps what it held.
entry_read(buffer, from) ==
    [i \in 0..Page - 1 |-> IF from + i < Len(disk[fd]) THEN disk[fd][from + i + 1] ELSE buffer[i]]

Copy(buffer, from, n) == [i \in 1..n |-> buffer[from + i - 1]]

blocksize ==
    IF op.j + (WrBuffer - op.ofs) < op.length THEN WrBuffer - op.ofs ELSE op.length - op.j

\* Mutant: a block that goes over the end of a page is taken from that page alone.
BlockWithin ==
    LET pos == op.offset + op.j
        loaded == IF op.buf = PageOf(pos) THEN page ELSE entry_read(page, PageOf(pos))
    IN [data |-> [i \in 1..blocksize |-> loaded[(pos + i - 1) % Page]],
        page |-> loaded, buf |-> PageOf(pos)]

\* The next block, and the page it leaves in the buffer.  A block that reaches
\* the end of a page is completed from the next one.
Block ==
    LET pos == op.offset + op.j
        index == pos % Page
        loaded == IF op.buf = PageOf(pos) THEN page ELSE entry_read(page, PageOf(pos))
        first == blocksize - (index + blocksize - Page)
        next == entry_read(loaded, PageOf(pos) + Page)
    IN IF index + blocksize < Page
       THEN [data |-> Copy(loaded, index, blocksize), page |-> loaded, buf |-> PageOf(pos)]
       ELSE [data |-> Copy(loaded, index, first) \o Copy(next, 0, blocksize - first),
             page |-> next, buf |-> PageOf(pos) + Page]

SendBlock ==
    /\ op.kind = "send" /\ (op.j < op.length \/ op.ofs # 0)
    /\ LET b == Block
       IN /\ page' = b.page
          /\ sent' = sent \o b.data
          /\ write_usb(op.ofs + Len(b.data))
          /\ op' = [op EXCEPT !.j = @ + Len(b.data), !.ofs = 0, !.buf = b.buf]
    /\ UNCHANGED <<disk, at, fd, size, announced, ops, changes>>

SendEnd ==
    /\ op.kind = "send" /\ op.j >= op.length /\ op.ofs = 0
    /\ check_and_send_USB_ZLP(Header + op.length)
    /\ fd' = 0
    /\ op' = [op EXCEPT !.kind = "sent"]
    /\ UNCHANGED <<disk, at, size, page, sent, announced, ops, changes>>

-----------------------------------------------------------------------------
(* SendObject.  The host sends the header and the data in one transfer, or, *)
(* with SendPartialObject, also in two; a transfer whose length is a        *)
(* multiple of a packet ends with an empty one.                             *)

\* SendObjectInfo on the name of the file: its content goes, the entry's size
\* stays as it was.
SendObjectInfo ==
    /\ Command("info")
    /\ disk' = [disk EXCEPT ![at] = <<>>]
    /\ announced' = TRUE
    /\ UNCHANGED <<at, fd, size, page, sent, ends, changes>>

\* write(2) at a position.
Overwrite(content, from, data) ==
    IF data = <<>> THEN content
    ELSE [i \in 1..Max({Len(content), from + Len(data)}) |->
            IF i \in from + 1..from + Len(data) THEN data[i - from]
            ELSE IF i <= Len(content) THEN content[i] ELSE 0]

\* Mutant: a first read that fills the buffer is taken for the whole file.
MoreIfPartial(partial, got, left) == partial /\ left # 0

\* After the first read: the loop goes on when the buffer was full, or when
\* SendPartialObject has announced more.
More(partial, got, left) == got = RdBuffer - Header \/ (partial /\ left # 0)

Receive(partial, offset, data, split) ==
    LET first == IF split THEN 0 ELSE Min({Len(data), RdBuffer - Header})
        old == IF partial \/ fd # 0 THEN disk[Opened] ELSE <<>>
        rest == SubSeq(data, first + 1, Len(data))
    IN /\ Idle /\ ops < MaxOps /\ ops' = ops + 1
       /\ fd' = Opened
       /\ disk' = [disk EXCEPT ![Opened] = Overwrite(old, offset, SubSeq(data, 1, first))]
       /\ op' = [NoOp EXCEPT !.kind = IF More(partial, first, Len(rest)) THEN "receive" ELSE "last",
                             !.j = offset + first, !.rest = rest,
                             !.open = IF split THEN data # <<>> ELSE first = RdBuffer - Header,
                             !.partial = partial,
                             !.clean = fd = 0 \/ (fd = at /\ (partial \/ file = <<>>)),
                             !.expect = Overwrite(IF partial THEN file ELSE <<>>, offset, data)]
       /\ announced' = FALSE
       /\ UNCHANGED <<at, size, page, sent, ends, changes>>

SendObject(data) == announced /\ Receive(FALSE, 0, data, FALSE)
SendPartialObject(offset, data, split) == Receive(TRUE, offset, data, split)

\* One read: a full buffer, or the end of the transfer.
ReceiveBlock ==
    /\ op.kind = "receive" /\ op.open
    /\ LET n == Min({Len(op.rest), RdBuffer})
       IN /\ disk' = [disk EXCEPT ![fd] = Overwrite(@, op.j, SubSeq(op.rest, 1, n))]
          /\ op' = [op EXCEPT !.kind = IF n = RdBuffer THEN "receive" ELSE "last",
                              !.j = @ + n, !.rest = SubSeq(@, n + 1, Len(@)), !.open = (n = RdBuffer)]
    /\ UNCHANGED <<at, fd, size, page, sent, ends, announced, ops, changes>>

\* Mutant: the entry keeps the size it had.
ReceiveEndOldSize ==
    /\ op.kind = "last"
    /\ fd' = IF op.partial THEN fd ELSE 0
    /\ op' = [op EXCEPT !.kind = "received"]
    /\ UNCHANGED <<disk, at, size, page, sent, ends, announced, ops, changes>>

\* The size is taken from the descriptor; SendPartialObject leaves it open.
ReceiveEnd ==
    /\ op.kind = "last"
    /\ size' = Len(disk[fd])
    /\ fd' = IF op.partial THEN fd ELSE 0
    /\ op' = [op EXCEPT !.kind = "received"]
    /\ UNCHANGED <<disk, at, page, sent, ends, announced, ops, changes>>

-----------------------------------------------------------------------------
(* The other commands about the file.                                      *)

\* EndEditObject closes the descriptor; BeginEditObject changes nothing.
EndEditObject ==
    /\ Command("edit")
    /\ fd' = 0
    /\ announced' = FALSE
    /\ UNCHANGED <<disk, at, size, page, sent, ends, changes>>

\* TruncateObject goes by the path and leaves the entry's size alone.
Truncated(content, n) == [i \in 1..n |-> IF i <= Len(content) THEN content[i] ELSE 0]
TruncateObject(n) ==
    /\ Command("truncate")
    /\ disk' = [disk EXCEPT ![at] = Truncated(@, n)]
    /\ announced' = FALSE
    /\ UNCHANGED <<at, fd, size, page, sent, ends, changes>>

\* GetObjectInfo, GetObjectPropList and a scan of the folder look at the file.
GetObjectInfo ==
    /\ Command("stat")
    /\ size' = Len(file)
    /\ announced' = FALSE
    /\ UNCHANGED <<disk, at, fd, page, sent, ends, changes>>

-----------------------------------------------------------------------------
(* GetObjectHandles: a count and as many handles, packet by packet.  A     *)
(* header is Header units long, a handle one.                              *)

GetObjectHandles(n) ==
    /\ Idle /\ ops < MaxOps /\ ops' = ops + 1
    /\ op' = [NoOp EXCEPT !.kind = "list", !.length = n, !.ofs = Header + 1]
    /\ sent' = <<>> /\ ends' = <<>>
    /\ announced' = FALSE
    /\ UNCHANGED <<disk, at, fd, size, page, changes>>

\* Handles are put into the buffer until a packet is full.
HandlesNow == Min({op.length - op.j, Max({MaxPacket - op.ofs, 1})})
ListPacket ==
    /\ op.kind = "list" /\ (op.j < op.length \/ op.ofs # 0)
    /\ write_usb(op.ofs + HandlesNow)
    /\ sent' = sent \o Bytes(op.j, HandlesNow)
    /\ op' = [op EXCEPT !.j = @ + HandlesNow, !.ofs = 0]
    /\ UNCHANGED <<disk, at, fd, size, page, announced, ops, changes>>

ListEnd ==
    /\ op.kind = "list" /\ op.j >= op.length /\ op.ofs = 0
    /\ check_and_send_USB_ZLP(Header + 1 + op.length)
    /\ op' = [op EXCEPT !.kind = "listed"]
    /\ UNCHANGED <<disk, at, fd, size, page, sent, announced, ops, changes>>

-----------------------------------------------------------------------------
(* Other programs: they cut the file, or put another one in its place.     *)

Changing == /\ changes < MaxChanges /\ changes' = changes + 1
            /\ op' = [op EXCEPT !.clean = FALSE]
OtherTruncates(n) ==
    /\ Changing
    /\ disk' = [disk EXCEPT ![at] = Truncated(@, n)]
    /\ UNCHANGED <<at, fd, size, page, sent, ends, announced, ops>>
OtherReplaces(n) ==
    /\ Changing
    /\ disk' = Append(disk, Bytes(200, n))
    /\ at' = Len(disk) + 1
    /\ UNCHANGED <<fd, size, page, sent, ends, announced, ops>>

Next ==
    \/ GetObject \/ SendBlock \/ SendEnd
    \/ \E o \in Offsets, n \in Sizes : GetPartialObject(o, n)
    \/ SendObjectInfo \/ ReceiveBlock \/ ReceiveEnd
    \/ \E n \in Sizes : SendObject(Bytes(100, n))
    \/ \E o \in Offsets, n \in Sizes, split \in BOOLEAN : SendPartialObject(o, Bytes(100, n), split)
    \/ EndEditObject \/ GetObjectInfo
    \/ \E n \in Sizes : TruncateObject(n) \/ OtherTruncates(n) \/ OtherReplaces(n)
    \/ \E n \in Counts : GetObjectHandles(n)
    \/ ListPacket \/ ListEnd

Spec == Init /\ [][Next]_vars

-----------------------------------------------------------------------------
Kinds == {"none", "info", "edit", "truncate", "stat", "send", "sent", "fault", "receive", "last",
          "received", "list", "listed"}
Operations ==
    [kind : Kinds, offset : Nat, asked : Nat, length : Int, j : Nat, ofs : 0..WrBuffer, buf : Int,
     rest : Seq(Nat), open : BOOLEAN, partial : BOOLEAN, clean : BOOLEAN, expect : Seq(Nat)]

FileTyped ==
    /\ disk \in Seq(Seq(Nat)) /\ at \in 1..Len(disk) /\ fd \in 0..Len(disk)
    /\ size \in Nat
    /\ page \in [0..Page - 1 -> Nat]
PhaseTyped ==
    /\ sent \in Seq(Nat) /\ ends \in Seq(Nat)
    /\ announced \in BOOLEAN
    /\ ops \in 0..MaxOps /\ changes \in 0..MaxChanges

\* Every variable has its type: no read leaves the page.  (The length of a download
\* may be negative, see GetPartialObject.)
TypeOK == FileTyped /\ PhaseTyped /\ op \in Operations

\* The data phase of total units is framed as USB asks: full packets up to the
\* end, and at the end a short packet or an empty one.
Framed(total) ==
    LET last == Len(ends)
    IN /\ last > 0 /\ ends[last] = total
       /\ \A i \in 1..last - 1 : ends[i] > EndBefore(i) /\ ends[i] % MaxPacket = 0
       /\ ends[last] = EndBefore(last) \/ total % MaxPacket # 0

\* The length a data phase has been announced with is the length it has, and the
\* host can tell its end: no write before the last ends in a short packet, the
\* last does or is empty (send_file_data, GetObjectHandles,
\* check_and_send_USB_ZLP).  From half the range of an int on, the empty packet
\* may be missing, and a request for that much of a file may have no data phase at
\* all (DownloadExact).  No write is longer than the buffer it is made from.
DataFramed ==
    /\ (op.kind = "sent" /\ Header + op.length < IntRange \div 2) => Framed(Header + op.length)
    /\ (op.kind = "listed" /\ Header + 1 + op.length < IntRange \div 2) => Framed(Header + 1 + op.length)
    /\ \A i \in 1..Len(ends) : ends[i] - EndBefore(i) \in 0..WrBuffer

\* A download that comes to its end has delivered the bytes of the file, whatever
\* the offset, the end of the file and the pages the range lies on, if the size in
\* the entry was right and no other program changed the file meanwhile.  One that
\* does not come to its end was asked for 2 GiB or more: GetPartialObject keeps the
\* length in an int, which is negative then (send_file_data, GetPartialObject).
DownloadExact ==
    /\ (op.kind = "sent" /\ op.clean) => sent = op.expect
    /\ op.kind = "fault" => op.asked >= IntRange \div 2

\* After SendObject and SendPartialObject the file is what the host sent, in its
\* place, and the entry knows its size, if no other program changed the file.  A
\* descriptor that SendPartialObject left open must still be on the file, and the
\* file as empty as SendObjectInfo has left it: SendObject does not open it again.
UploadExact == (op.kind = "received" /\ op.clean) => file = op.expect /\ size = Len(file)

\* SendObject reads the host's data phase to its end and no further: it does not
\* wait for more than there is, and leaves nothing to be taken for a command.
UploadConsumed ==
    /\ op.kind = "receive" => op.open
    /\ op.kind \in {"last", "received"} => ~op.open /\ op.rest = <<>>
=============================================================================
