------------------------- MODULE UsbTransferProofs -------------------------
(***************************************************************************)
(* umtprd's transport for every front end and every bound: the locks an    *)
(* operation takes are held through it and returned, the database is       *)
(* dropped only when the io thread is idle, and a cancel stops a download. *)
(***************************************************************************)
EXTENDS UsbTransfer, TLAPS

\* The io thread runs only between being started and being joined; in mtp_usb
\* mode it is the main thread itself, which then serves no control events.
LifeInv ==
    /\ mode # "mtp_usb" /\ io.pc # "off" => started
    /\ mode = "mtp_usb" => /\ ~started /\ queue = <<>> /\ main.batch = <<>>
                           /\ main.pc \in {"setup", "io", "deinit", "close", "leave", "exit"}
                           /\ io.pc # "off" => main.pc = "io"
    /\ main.pc \in {"joined", "close", "setup", "leave", "exit"} => ~started
    /\ main.pc = "cancel" => main.after \in {"serve", "wait"}
    /\ main.pc = "disable" => main.after = "joined"
    /\ main.pc = "raise" => main.after # "close"

\* In a write to the host, and in the closing write of send_file_data.
InWrite == io.pc \in {"write", "entering", "writing"}
Settling == io.pc = "settled" \/ (InWrite /\ io.then = "settled")

\* Places that only operations under inotify_mutex reach.
LockedPlaces == {"lock", "read dataset", "load", "next", "settle", "settled", "more", "entering read",
                 "read data", "received", "check", "unlock"}

\* Who holds which mutex, by where each thread is.
LockInv ==
    /\ io.pc \in {"off", "read"} => io.op = NoPacket
    /\ io.pc \in LockedPlaces => io.op.lock
    /\ InWrite /\ io.then \in {"next", "settled", "unlock"} => io.op.lock
    /\ InWrite /\ io.then = "respond" => ~io.op.lock
    /\ InSection => inotify_mutex = "io"
    /\ ~killed /\ inotify_mutex = "io" => InSection
    /\ aux \in {"push locked", "cut locked"} <=> inotify_mutex = "aux"
    /\ Settling => cancel_mutex = "io"
    /\ ~killed /\ cancel_mutex = "io" => Settling
    /\ main.pc = "raise" <=> cancel_mutex = "ep0"

\* A block taken after the cancel was the last one to be written.
LateInv == late \in {0, 1} /\ (cancel_req # 0 /\ late = 1 => io.pc \notin {"entering", "writing"})

\* Between packets; the places of a file transfer whose end looks at cancel_req; and
\* the places where a pending cancel can silence no other operation's answer.
Resting == io.pc \in {"off", "top", "read"}
TransferPlaces == {"load", "next", "settle", "more", "entering read", "read data", "received", "check"}
InTransfer == io.pc \in TransferPlaces \/ (InWrite /\ io.then = "next")
Moving == InTransfer /\ io.pc \notin {"settle", "check"}
Silent == Resting \/ Transfer(io.op)
Pending == Range(queue) \cup Range(main.batch)

\* Only a transfer, or a command whose data are still to come, is left without an
\* answer; an endpoint is closed under an operation only by deinit_usb_mtp_gadget.
OpInv ==
    /\ ~Resting /\ ~io.answer => Transfer(io.op) \/ io.op.step = "await data"
    /\ InTransfer => Transfer(io.op)
    /\ eps # "open" /\ ~Resting => stop /\ main.pc = "join" /\ main.after = "close"
    /\ main.pc = "disable" \/ (main.pc = "raise" /\ main.after = "joined") => stop

\* The host polls from its CANCEL to the status that answers it.
QueueInv ==
    /\ main.pc \in {"cancel", "raise"} /\ main.after = "serve" => polling
    /\ "cancel" \in Pending => polling
    /\ "status" \in Pending => "cancel" \notin Pending

\* A cancel is pending only while the host polls or a transfer that will drop it is
\* under way.
HandshakeInv ==
    /\ transferring => Moving
    /\ cancel_req # 0 => Silent /\ (polling \/ InTransfer)
    /\ main.pc = "raise" /\ main.after = "serve" => Silent

\* What the host waits for is the answer to the packet at hand; it waits for none
\* that a pending cancel, a failing call or the end of the connection will keep.
OwedInv ==
    /\ ~link => owed = NoPacket
    /\ Ending => owed = NoPacket \/ main.pc = "deinit"
    /\ ~Resting => owed \in {NoPacket, io.op}
    /\ ~Resting /\ (~io.answer \/ io.op.step = "await data") => owed = NoPacket
    /\ Resting => owed = NoPacket \/ (stop /\ io.pc # "read")
    /\ polling => ~Transfer(owed)
    /\ cancel_req # 0 \/ kerr => owed = NoPacket
    /\ main.pc = "raise" /\ main.after = "serve" => owed = NoPacket

AnswerInv == OpInv /\ (~stale /\ ~killed => QueueInv /\ HandshakeInv /\ (~swallowed => OwedInv))

-----------------------------------------------------------------------------
\* What the operations have in common: everything that moves a file, and the
\* dataset of SendObjectInfo, runs under inotify_mutex.
LEMMA PacketFacts ==
    ASSUME NEW op \in Packets \cup {NoPacket}
    PROVE  op.step \in {"load", "more", "read dataset"} => op.lock
<1> DEFINE Fine(o) == o.step \in {"load", "more", "read dataset"} => o.lock
<1>1. /\ Fine(mtp_op_OpenSession) /\ Fine(mtp_op_CloseSession) /\ Fine(mtp_op_GetDeviceInfos)
      /\ Fine(mtp_op_GetStorageIDs) /\ Fine(mtp_op_GetStorageInfo)
      /\ Fine(mtp_op_GetObjectPropsSupported) /\ Fine(mtp_op_GetDevicePropDesc)
      /\ Fine(mtp_op_GetDevicePropValue) /\ Fine(mtp_op_GetObjectPropDesc)
      /\ Fine(mtp_op_GetObjectPropValue) /\ Fine(mtp_op_GetObjectPropList)
  BY DEF Op, mtp_op_OpenSession, mtp_op_CloseSession, mtp_op_GetDeviceInfos, mtp_op_GetStorageIDs,
         mtp_op_GetStorageInfo, mtp_op_GetObjectPropsSupported, mtp_op_GetDevicePropDesc,
         mtp_op_GetDevicePropValue, mtp_op_GetObjectPropDesc, mtp_op_GetObjectPropValue,
         mtp_op_GetObjectPropList
<1>2. /\ Fine(mtp_op_GetObjectReferences) /\ Fine(mtp_op_GetObjectInfo) /\ Fine(mtp_op_GetObjectHandles)
      /\ Fine(mtp_op_GetObject) /\ Fine(mtp_op_GetPartialObject) /\ Fine(mtp_op_SendObjectInfo)
      /\ Fine(mtp_op_DeleteObject) /\ Fine(mtp_op_TruncateObject) /\ Fine(mtp_op_BeginEditObject)
      /\ Fine(mtp_op_EndEditObject) /\ Fine(unsupported) /\ Fine(NoPacket)
  BY DEF Op, mtp_op_GetObjectReferences, mtp_op_GetObjectInfo, mtp_op_GetObjectHandles,
         mtp_op_GetObject, mtp_op_GetPartialObject, mtp_op_SendObjectInfo, mtp_op_DeleteObject,
         mtp_op_TruncateObject, mtp_op_BeginEditObject, mtp_op_EndEditObject, unsupported, NoPacket
<1>3. /\ Fine(Op(TRUE, TRUE, "write", "await data")) /\ Fine(Op(TRUE, TRUE, "write", "more"))
      /\ Fine(Op(TRUE, FALSE, "nothing", "await data")) /\ Fine(Op(TRUE, FALSE, "nothing", "reply"))
  BY DEF Op
<1> HIDE DEF Fine
<1>4. Fine(op)
  BY <1>1, <1>2, <1>3 DEF Packets, mtp_op_SendObject, mtp_op_SetObjectPropValue
<1> QED BY <1>4 DEF Fine

LEMMA EventFacts ==
    ASSUME NEW s \in Seq(Events)
    PROVE  <<>> \in Seq(Events) /\ (s # <<>> => Tail(s) \in Seq(Events) /\ <<Head(s)>> \in Seq(Events))
<1>1. s # <<>> => Tail(s) \in Seq(Events) /\ Head(s) \in Events
  OBVIOUS
<1>2. \A e \in Events : <<e>> \in Seq(Events)
  OBVIOUS
<1> QED BY <1>1, <1>2

LEMMA Bounds ==
    Blocks \in Nat /\ MaxPackets \in Nat /\ MaxControl \in Nat /\ MaxExtra \in Nat /\ MaxInputs \in Nat
BY ConstantsAssumption

\* The thread that does not run, or has just begun.
LEMMA OffFacts ==
    /\ Off.pc = "off" /\ Off.op = NoPacket /\ Off.then = "top" /\ ~NoPacket.lock
    /\ Off \in [pc : IoPlaces, op : Packets \cup {NoPacket}, left : 0..Blocks, answer : BOOLEAN,
                then : {"top", "zlp", "next", "settled", "unlock", "respond"}]
BY ConstantsAssumption DEF Off, IoPlaces, NoPacket, Op

LEMMA TypeInit == Init => TypeOK
<1> SUFFICES ASSUME Init PROVE TypeOK
  OBVIOUS
<1> USE ConstantsAssumption
<1>1. IoTyped BY DEF Init, IoTyped, Off, IoPlaces
<1>2. MainTyped BY DEF Init, MainTyped, MainPlaces
<1>3. FlagsTyped /\ HostTyped BY DEF Init, FlagsTyped, HostTyped
<1>4. ValuesTyped BY DEF Init, ValuesTyped
<1>5. CountsTyped BY Bounds DEF Init, CountsTyped
<1> QED BY <1>1, <1>2, <1>3, <1>4, <1>5 DEF TypeOK

LEMMA IoTypedIo == ASSUME IoTyped, IoSteps \/ IoHost PROVE IoTyped'
<1>a. Blocks \in 0..Blocks /\ 0 \in 0..Blocks
  BY Bounds
<1>b. io.left \in 0..Blocks
  BY DEF IoTyped
<1>c. io.left > 1 => io.left - 1 \in 0..Blocks
  BY <1>b, Bounds
<1> USE <1>a DEF IoTyped, IoAt, Goto, Write, IoPlaces
<1>1. CASE IoTop BY <1>1, OffFacts DEF IoTop
<1>2. CASE IoReadError BY <1>2 DEF IoReadError
<1>3. CASE process_in_packet BY <1>3 DEF process_in_packet
<1>4. CASE IoLock BY <1>4 DEF IoLock
<1>5. CASE IoHeld
  <2>1. CASE Refused \/ OpenFails BY <2>1 DEF Refused, OpenFails, Done
  <2>2. CASE Granted
    <3> DEFINE place == IF io.op.step \in {"dataset", "read dataset", "load", "more"} THEN io.op.step
                        ELSE Done
    <3>1. place \in IoPlaces
      BY DEF Done
    <3>2. io' = [io EXCEPT !.pc = place, !.left = Blocks, !.answer = io.op.step # "await data"]
      BY <2>2 DEF Granted
    <3> HIDE DEF place
    <3> QED BY <3>1, <3>2, ZenonT(60)
  <2> QED BY <1>5, <2>1, <2>2 DEF IoHeld
<1>6. CASE IoCallFails BY <1>6 DEF IoCallFails, InKernel
<1>7. CASE IoDataset BY <1>7 DEF IoDataset, Done
<1>8. CASE check_and_send_USB_ZLP BY <1>8 DEF check_and_send_USB_ZLP, Done
<1>9. CASE write_usb BY <1>9 DEF write_usb
<1>10. CASE IoEnter BY <1>10 DEF IoEnter
<1>11. CASE IoLoad BY <1>11 DEF IoLoad, Extra
<1>12. CASE IoNext BY <1>12, <1>c DEF IoNext
<1>13. CASE IoSettle BY <1>13, ZenonT(60) DEF IoSettle
<1>14. CASE IoSettled BY <1>14 DEF IoSettled
<1>15. CASE IoMore BY <1>15 DEF IoMore
<1>16. CASE IoReceived BY <1>16 DEF IoReceived
<1>17. CASE IoCheck BY <1>17 DEF IoCheck
<1>18. CASE IoUnlock BY <1>18 DEF IoUnlock
<1>19. CASE IoRespond BY <1>19, ZenonT(60) DEF IoRespond
<1>20. CASE IoKilled BY <1>20, OffFacts DEF IoKilled
<1>21. CASE IoTaken BY <1>21 DEF IoTaken
<1>22. CASE IoDatasetRead BY <1>22 DEF IoDatasetRead
<1>23. CASE IoBlock BY <1>23 DEF IoBlock
<1>24. ASSUME NEW op \in Packets, IoPacket(op) PROVE IoTyped'
  BY <1>24 DEF IoPacket, HostSends
<1>25. ASSUME NEW op \in Packets, IoSwallow(op) PROVE IoTyped'
  BY <1>25 DEF IoSwallow, HostSends
<1> QED
  BY <1>1, <1>2, <1>3, <1>4, <1>5, <1>6, <1>7, <1>8, <1>9, <1>10, <1>11, <1>12, <1>13, <1>14, <1>15,
     <1>16, <1>17, <1>18, <1>19, <1>20, <1>21, <1>22, <1>23, <1>24, <1>25 DEF IoSteps, IoHost

\* What the io thread never touches.
LEMMA IoFrame ==
    ASSUME IoSteps \/ IoHost
    PROVE  UNCHANGED <<mode, link, queue, main, started, eps, aux, shutdown, polling, control>>
BY DEF IoSteps, IoHost, NotIo, IoTop, IoReadError, process_in_packet, IoLock, IoHeld, IoCallFails,
       IoDataset, check_and_send_USB_ZLP, write_usb, IoEnter, IoLoad, IoNext, IoSettle, IoSettled,
       IoMore, IoReceived, IoCheck, IoUnlock, IoRespond, IoKilled, IoTaken, IoDatasetRead, IoBlock,
       IoPacket, IoSwallow, HostSends

LEMMA FlagsTypedIo == ASSUME FlagsTyped, IoSteps \/ IoHost PROVE FlagsTyped'
<1> USE DEF FlagsTyped, NotIo, Flags, Marks
<1>1. CASE IoTop BY <1>1 DEF IoTop
<1>2. CASE IoReadError BY <1>2 DEF IoReadError
<1>3. CASE process_in_packet BY <1>3, ZenonT(60) DEF process_in_packet
<1>4. CASE IoLock BY <1>4 DEF IoLock
<1>5. CASE IoHeld BY <1>5, ZenonT(60) DEF IoHeld, Refused, OpenFails, Granted
<1>6. CASE IoCallFails BY <1>6 DEF IoCallFails
<1>7. CASE IoDataset BY <1>7 DEF IoDataset
<1>8. CASE check_and_send_USB_ZLP BY <1>8 DEF check_and_send_USB_ZLP
<1>9. CASE write_usb BY <1>9 DEF write_usb
<1>10. CASE IoEnter BY <1>10 DEF IoEnter
<1>11. CASE IoLoad BY <1>11, ZenonT(60) DEF IoLoad
<1>12. CASE IoNext BY <1>12, ZenonT(60) DEF IoNext
<1>13. CASE IoSettle BY <1>13 DEF IoSettle
<1>14. CASE IoSettled BY <1>14 DEF IoSettled
<1>15. CASE IoMore BY <1>15 DEF IoMore
<1>16. CASE IoReceived BY <1>16 DEF IoReceived
<1>17. CASE IoCheck BY <1>17 DEF IoCheck
<1>18. CASE IoUnlock BY <1>18 DEF IoUnlock
<1>19. CASE IoRespond BY <1>19 DEF IoRespond
<1>20. CASE IoKilled BY <1>20 DEF IoKilled
<1>21. CASE IoTaken BY <1>21 DEF IoTaken
<1>22. CASE IoDatasetRead BY <1>22 DEF IoDatasetRead
<1>23. CASE IoBlock BY <1>23 DEF IoBlock
<1>24. ASSUME NEW op \in Packets, IoPacket(op) PROVE FlagsTyped'
  BY <1>24 DEF IoPacket, HostSends
<1>25. ASSUME NEW op \in Packets, IoSwallow(op) PROVE FlagsTyped'
  BY <1>25 DEF IoSwallow, HostSends
<1> QED
  BY <1>1, <1>2, <1>3, <1>4, <1>5, <1>6, <1>7, <1>8, <1>9, <1>10, <1>11, <1>12, <1>13, <1>14, <1>15,
     <1>16, <1>17, <1>18, <1>19, <1>20, <1>21, <1>22, <1>23, <1>24, <1>25 DEF IoSteps, IoHost

LEMMA ValuesTypedIo == ASSUME ValuesTyped, IoSteps \/ IoHost PROVE ValuesTyped'
<1> USE IoFrame DEF ValuesTyped, NotIo, Flags, Marks
<1>1. cancel_mutex' \in {cancel_mutex, "free", "io"} /\ inotify_mutex' \in {inotify_mutex, "free", "io"}
  BY DEF IoSteps, IoHost, IoTop, IoReadError, process_in_packet, IoLock, IoHeld, IoCallFails, IoDataset,
         check_and_send_USB_ZLP, write_usb, IoEnter, IoLoad, IoNext, IoSettle, IoSettled, IoMore,
         IoReceived, IoCheck, IoUnlock, IoRespond, IoKilled, IoTaken, IoDatasetRead, IoBlock,
         IoPacket, IoSwallow, HostSends
<1>2. owed' \in {owed, NoPacket} \cup Packets
  BY DEF IoSteps, IoHost, IoTop, IoReadError, process_in_packet, IoLock, IoHeld, IoCallFails, IoDataset,
         check_and_send_USB_ZLP, write_usb, IoEnter, IoLoad, IoNext, IoSettle, IoSettled, IoMore,
         IoReceived, IoCheck, IoUnlock, IoRespond, IoKilled, IoTaken, IoDatasetRead, IoBlock,
         IoPacket, IoSwallow, HostSends, Refused, OpenFails, Granted
<1> QED BY <1>1, <1>2

LEMMA CountsTypedIo == ASSUME CountsTyped, IoSteps \/ IoHost PROVE CountsTyped'
<1> USE Bounds, IoFrame DEF CountsTyped, NotIo, Flags, Marks
<1>1. cancel_req' \in {cancel_req, 0} /\ late' \in {late, late + 1, 0}
  BY DEF IoSteps, IoHost, IoTop, IoReadError, process_in_packet, IoLock, IoHeld, IoCallFails, IoDataset,
         check_and_send_USB_ZLP, write_usb, IoEnter, IoLoad, IoNext, IoSettle, IoSettled, IoMore,
         IoReceived, IoCheck, IoUnlock, IoRespond, IoKilled, IoTaken, IoDatasetRead, IoBlock,
         IoPacket, IoSwallow, HostSends
<1>2. packets' = packets \/ (packets < MaxPackets /\ packets' = packets + 1)
  BY DEF IoSteps, IoHost, IoTop, IoReadError, process_in_packet, IoLock, IoHeld, IoCallFails, IoDataset,
         check_and_send_USB_ZLP, write_usb, IoEnter, IoLoad, IoNext, IoSettle, IoSettled, IoMore,
         IoReceived, IoCheck, IoUnlock, IoRespond, IoKilled, IoTaken, IoDatasetRead, IoBlock,
         IoPacket, IoSwallow, HostSends
<1>3. extra' = extra \/ (extra < MaxExtra /\ extra' = extra + 1)
  BY DEF IoSteps, IoHost, IoTop, IoReadError, process_in_packet, IoLock, IoHeld, IoCallFails, IoDataset,
         check_and_send_USB_ZLP, write_usb, IoEnter, IoLoad, IoNext, IoSettle, IoSettled, IoMore,
         IoReceived, IoCheck, IoUnlock, IoRespond, IoKilled, IoTaken, IoDatasetRead, IoBlock,
         IoPacket, IoSwallow, HostSends, Refused, OpenFails, Granted, Extra
<1> QED BY <1>1, <1>2, <1>3

-----------------------------------------------------------------------------
\* What the main thread never touches, and what it can do to the rest.
LEMMA MainFrame ==
    ASSUME MainSteps
    PROVE  /\ UNCHANGED <<mode, inotify_mutex, aux, packets>>
           /\ UNCHANGED <<transferring, shutdown, control, killed, sending, swallowed>>
           /\ owed' \in {owed, NoPacket}
BY DEF MainSteps, Setup, IoReturns, Select, ServedAll, Enable, StartThread, Disable, Deconfigure, Cancel, CancelLock,
         Raise, SuspendWait, GetDeviceStatus, OtherRequest, Join, DropDb, Deinit, CloseDb, Leave,
         FrontEnd, InitFails, init_usb_mtp_gadget, NotMain, Flags, Marks, Uncancelled

LEMMA IoTypedMain == ASSUME IoTyped, MainSteps PROVE IoTyped'
<1>1. io' = io \/ io' = [Off EXCEPT !.pc = "top"]
  BY DEF MainSteps, Setup, IoReturns, Select, ServedAll, Enable, StartThread, Disable, Deconfigure, Cancel, CancelLock,
         Raise, SuspendWait, GetDeviceStatus, OtherRequest, Join, DropDb, Deinit, CloseDb, Leave,
         FrontEnd, InitFails, init_usb_mtp_gadget, NotMain, Flags, Marks
<1> QED BY <1>1, OffFacts DEF IoTyped, IoPlaces

LEMMA MainTypedMain == ASSUME MainTyped, ValuesTyped, MainSteps PROVE MainTyped'
<1>1. ASSUME NEW place \in MainPlaces, Main(place) PROVE MainTyped'
  BY <1>1 DEF MainTyped, Main
<1>a. main.batch \in Seq(Events) /\ queue \in Seq(Events)
  BY DEF MainTyped, ValuesTyped
<1>b. <<>> \in Seq(Events)
  BY EventFacts, <1>a
<1>2. ASSUME NEW event, Serve(event) PROVE Tail(main.batch) \in Seq(Events)
  BY <1>2, <1>a, EventFacts DEF Serve
<1>3. ASSUME NEW event, NEW place \in MainPlaces, NEW after \in {"serve", "wait", "joined", "close"},
             Serve(event), Served(place, after)
      PROVE  MainTyped'
  BY <1>2, <1>3 DEF MainTyped, Served
<1>4. main.after \in MainPlaces /\ {"io", "select", "deinit", "leave", "serve", "raise"} \subseteq MainPlaces
  BY DEF MainTyped, MainPlaces
<1>5. CASE Setup
  <2>1. CASE FrontEnd BY <2>1, <1>4, <1>b DEF FrontEnd, MainTyped
  <2>2. CASE InitFails BY <2>2, <1>1, <1>4 DEF InitFails
  <2> QED BY <1>5, <2>1, <2>2 DEF Setup
<1>6. CASE IoReturns \/ ServedAll \/ SuspendWait \/ DropDb
  BY <1>1, <1>4, <1>6 DEF IoReturns, ServedAll, SuspendWait, DropDb
<1>7. CASE Select
  <2>1. queue # <<>> => <<Head(queue)>> \in Seq(Events)
    BY <1>a, EventFacts
  <2> QED BY <1>1, <1>4, <1>7, <1>a, <2>1 DEF Select, MainTyped
<1>8. CASE Enable \/ Deconfigure \/ GetDeviceStatus \/ OtherRequest
  BY <1>3, <1>4, <1>8 DEF Enable, StartThread, Deconfigure, GetDeviceStatus, OtherRequest
<1>9. CASE Disable
  <2>1. CASE mode = "ffs"
    BY <1>3, <1>9, <2>1 DEF Disable, MainPlaces
  <2>2. CASE mode # "ffs"
    BY <1>2, <1>9, <2>2 DEF Disable, MainPlaces, MainTyped
  <2> QED BY <2>1, <2>2
<1>10. CASE Cancel BY <1>3, <1>10 DEF Cancel, MainPlaces
<1>11. CASE CancelLock BY <1>1, <1>4, <1>11 DEF CancelLock
<1>12. CASE Raise BY <1>1, <1>4, <1>12 DEF Raise, MainPlaces
<1>13. CASE Join BY <1>1, <1>4, <1>13 DEF Join
<1>14. CASE Deinit BY <1>14, <1>b DEF Deinit, MainTyped, MainPlaces
<1>15. CASE CloseDb \/ Leave BY <1>1, <1>15 DEF CloseDb, Leave, MainPlaces
<1> QED
  BY <1>5, <1>6, <1>7, <1>8, <1>9, <1>10, <1>11, <1>12, <1>13, <1>14, <1>15 DEF MainSteps

LEMMA FlagsTypedMain == ASSUME FlagsTyped, MainSteps PROVE FlagsTyped'
<1> USE MainFrame DEF FlagsTyped, NotMain, Flags, Marks
<1>1. CASE Setup BY <1>1, ZenonT(60) DEF Setup, FrontEnd, InitFails, init_usb_mtp_gadget
<1>2. CASE IoReturns BY <1>2 DEF IoReturns
<1>3. CASE Select BY <1>3 DEF Select
<1>4. CASE ServedAll BY <1>4 DEF ServedAll
<1>5. CASE Enable BY <1>5, ZenonT(60) DEF Enable, StartThread
<1>6. CASE Disable BY <1>6 DEF Disable
<1>7. CASE Deconfigure BY <1>7 DEF Deconfigure
<1>8. CASE Cancel BY <1>8 DEF Cancel
<1>9. CASE CancelLock BY <1>9 DEF CancelLock
<1>10. CASE Raise BY <1>10 DEF Raise, Interrupt
<1>11. CASE SuspendWait BY <1>11, ZenonT(60) DEF SuspendWait, Interrupt
<1>12. CASE GetDeviceStatus BY <1>12 DEF GetDeviceStatus
<1>13. CASE OtherRequest BY <1>13 DEF OtherRequest
<1>14. CASE Join BY <1>14 DEF Join
<1>15. CASE DropDb BY <1>15 DEF DropDb
<1>16. CASE Deinit BY <1>16 DEF Deinit
<1>17. CASE CloseDb BY <1>17 DEF CloseDb
<1>18. CASE Leave BY <1>18 DEF Leave
<1> QED
  BY <1>1, <1>2, <1>3, <1>4, <1>5, <1>6, <1>7, <1>8, <1>9, <1>10, <1>11, <1>12, <1>13, <1>14, <1>15,
     <1>16, <1>17, <1>18 DEF MainSteps

LEMMA ValuesTypedMain == ASSUME ValuesTyped, MainSteps PROVE ValuesTyped'
<1>1. cancel_mutex' \in {cancel_mutex, "free", "ep0"}
  BY DEF MainSteps, Setup, IoReturns, Select, ServedAll, Enable, StartThread, Disable, Deconfigure, Cancel, CancelLock,
         Raise, SuspendWait, GetDeviceStatus, OtherRequest, Join, DropDb, Deinit, CloseDb, Leave,
         FrontEnd, InitFails, init_usb_mtp_gadget, NotMain, Flags, Marks
<1>2. eps' \in {eps, "open", "closed", "partly"}
  BY DEF MainSteps, Setup, IoReturns, Select, ServedAll, Enable, StartThread, Disable, Deconfigure, Cancel, CancelLock,
         Raise, SuspendWait, GetDeviceStatus, OtherRequest, Join, DropDb, Deinit, CloseDb, Leave,
         FrontEnd, InitFails, init_usb_mtp_gadget, NotMain, Flags, Marks, init_eps
<1>3. queue' = queue \/ queue' = <<>> \/ (queue # <<>> /\ queue' = Tail(queue))
  BY DEF MainSteps, Setup, IoReturns, Select, ServedAll, Enable, StartThread, Disable, Deconfigure, Cancel, CancelLock,
         Raise, SuspendWait, GetDeviceStatus, OtherRequest, Join, DropDb, Deinit, CloseDb, Leave,
         FrontEnd, InitFails, init_usb_mtp_gadget, NotMain, Flags, Marks
<1>4. queue \in Seq(Events)
  BY DEF ValuesTyped
<1>5. queue' \in Seq(Events)
  BY <1>3, <1>4, EventFacts
<1> QED BY <1>1, <1>2, <1>5, MainFrame DEF ValuesTyped

LEMMA CountsTypedMain == ASSUME CountsTyped, MainSteps PROVE CountsTyped'
<1> USE MainFrame, Bounds DEF CountsTyped
<1>1. cancel_req' \in {cancel_req, 0, 1, 2} /\ late' \in {late, 0}
  BY DEF MainSteps, Setup, IoReturns, Select, ServedAll, Enable, StartThread, Disable, Deconfigure, Cancel, CancelLock,
         Raise, SuspendWait, GetDeviceStatus, OtherRequest, Join, DropDb, Deinit, CloseDb, Leave,
         FrontEnd, InitFails, init_usb_mtp_gadget, NotMain, Flags, Marks
<1>2. extra' = extra \/ (extra < MaxExtra /\ extra' = extra + 1)
  BY DEF MainSteps, Setup, IoReturns, Select, ServedAll, Enable, StartThread, Disable, Deconfigure, Cancel, CancelLock,
         Raise, SuspendWait, GetDeviceStatus, OtherRequest, Join, DropDb, Deinit, CloseDb, Leave,
         FrontEnd, InitFails, init_usb_mtp_gadget, NotMain, Flags, Marks, Extra, init_eps
<1> QED BY <1>1, <1>2

-----------------------------------------------------------------------------
\* The threads that push events, the host, the cable and the signal.
Others == AuxEvent \/ AuxChange \/ AuxTaken \/ AuxFails \/ Host \/ Sigterm

LEMMA OthersFrame ==
    ASSUME Others
    PROVE  /\ UNCHANGED <<mode, started, eps, io, doomed, transferring, cancel_req>>
           /\ UNCHANGED <<cancel_mutex, db, killed, packets, late, missed, swallowed>>
BY DEF Others, AuxEvent, AuxChange, AuxTaken, AuxFails, AuxDone, NotAux, Host, HostConnects,
       HostDisconnects, HostCancels, HostAsks, NotHost, Flags, Sigterm

\* The host's data phase, and whether its last command was swallowed.
LEMMA HostTypedNext == ASSUME HostTyped, [Next]_vars PROVE HostTyped'
<1>1. CASE IoSteps \/ IoHost
  <2>1. \/ UNCHANGED <<sending, swallowed>>
        \/ \E op \in Packets : /\ sending' = (op.step \in {"more", "read dataset"})
                               /\ swallowed' \in BOOLEAN
    BY <1>1 DEF IoSteps, IoHost, IoTop, IoReadError, process_in_packet, IoLock, IoHeld, IoCallFails,
       IoDataset, check_and_send_USB_ZLP, write_usb, IoEnter, IoLoad, IoNext, IoSettle, IoSettled,
       IoMore, IoReceived, IoCheck, IoUnlock, IoRespond, IoKilled, IoTaken, IoDatasetRead, IoBlock,
       IoPacket, IoSwallow, HostSends, Marks
  <2>2. CASE UNCHANGED <<sending, swallowed>>
    BY <2>2 DEF HostTyped
  <2>3. ASSUME NEW op, sending' = (op.step \in {"more", "read dataset"}), swallowed' \in BOOLEAN
        PROVE  HostTyped'
    <3> DEFINE data == op.step \in {"more", "read dataset"}
    <3>1. data \in BOOLEAN
      OBVIOUS
    <3>2. sending' = data
      BY <2>3
    <3> HIDE DEF data
    <3> QED BY <2>3, <3>1, <3>2 DEF HostTyped
  <2> QED BY <2>1, <2>2, <2>3
<1>2. CASE MainSteps
  BY <1>2, MainFrame DEF HostTyped
<1>3. CASE Others
  <2>1. \/ sending' = sending
        \/ sending' = FALSE
        \/ \E r, ends : sending' = (sending /\ r \notin ends)
    <3>1. CASE AuxEvent \/ AuxChange \/ AuxTaken \/ AuxFails
      BY <3>1 DEF AuxEvent, AuxChange, AuxTaken, AuxFails, AuxDone, NotAux
    <3>2. CASE HostConnects \/ HostDisconnects \/ HostCancels
      BY <3>2 DEF HostConnects, HostDisconnects, HostCancels
    <3>3. ASSUME NEW r, HostAsks(r) PROVE \E ends : sending' = (sending /\ r \notin ends)
      BY <3>3, Zenon DEF HostAsks
    <3>4. CASE Sigterm BY <3>4 DEF Sigterm
    <3> QED BY <1>3, <3>1, <3>2, <3>3, <3>4, Zenon DEF Others, Host
  <2> QED BY <1>3, <2>1, OthersFrame, Zenon DEF HostTyped
<1>4. CASE UNCHANGED vars
  BY <1>4 DEF HostTyped, vars, ghosts
<1> QED BY <1>1, <1>2, <1>3, <1>4 DEF Next, Others

LEMMA TypeOthers == ASSUME TypeOK, Others PROVE HostTyped' => TypeOK'
<1>1. IoTyped'
  BY OthersFrame DEF TypeOK, IoTyped
<1>2. MainTyped'
  <2>1. main' = main \/ Main("deinit")
    BY DEF Others, AuxEvent, AuxChange, AuxTaken, AuxFails, AuxDone, NotAux, Host, HostConnects,
           HostDisconnects, HostCancels, HostAsks, NotHost, Sigterm
  <2> QED BY <2>1 DEF TypeOK, MainTyped, Main, MainPlaces
<1>3. FlagsTyped'
  <2> USE OthersFrame DEF TypeOK, FlagsTyped, Flags, NotAux, NotHost
  <2>1. CASE AuxEvent \/ AuxChange \/ AuxTaken \/ AuxFails
    <3>1. UNCHANGED <<link, kerr, stop, shutdown, polling, stale, sending>>
      BY <2>1 DEF AuxEvent, AuxChange, AuxTaken, AuxFails, AuxDone
    <3> QED BY <3>1
  <2>2. CASE HostConnects BY <2>2 DEF HostConnects
  <2>3. CASE HostDisconnects BY <2>3 DEF HostDisconnects
  <2>4. CASE HostCancels BY <2>4 DEF HostCancels
  <2>5. CASE \E r \in {"status", "suspend", "deconfigure", "other"} : HostAsks(r)
    BY <2>5 DEF HostAsks
  <2>6. CASE Sigterm BY <2>6 DEF Sigterm
  <2> QED BY <2>1, <2>2, <2>3, <2>4, <2>5, <2>6 DEF Others, Host
<1>4. ValuesTyped'
  <2>1. /\ inotify_mutex' \in {inotify_mutex, "free", "aux"}
        /\ aux' \in {aux, "idle", "lock", "push", "push locked", "cut", "cut locked"}
    BY DEF Cut, Others, AuxEvent, AuxChange, AuxTaken, AuxFails, AuxDone, NotAux, Host, HostConnects,
           HostDisconnects, HostCancels, HostAsks, NotHost, Flags, Sigterm
  <2>2. owed' \in {owed, NoPacket}
    BY DEF Uncancelled, Others, AuxEvent, AuxChange, AuxTaken, AuxFails, AuxDone, NotAux, Host, HostConnects,
           HostDisconnects, HostCancels, HostAsks, NotHost, Flags, Sigterm
  <2>3. queue' = queue \/ \E e \in Events : queue' = Append(queue, e)
    BY DEF Others, AuxEvent, AuxChange, AuxTaken, AuxFails, AuxDone, NotAux, Host, HostConnects,
           HostDisconnects, HostCancels, HostAsks, Notify, Sigterm, Events
  <2>4. queue \in Seq(Events)
    BY DEF TypeOK, ValuesTyped
  <2>5. queue' \in Seq(Events)
    BY <2>3, <2>4
  <2> QED BY <2>1, <2>2, <2>5, OthersFrame DEF TypeOK, ValuesTyped
<1>5. CountsTyped'
  <2>1. extra' = extra \/ (extra < MaxExtra /\ extra' = extra + 1)
    BY DEF Others, AuxEvent, AuxChange, AuxTaken, AuxFails, AuxDone, NotAux, Host, HostConnects,
           HostDisconnects, HostCancels, HostAsks, NotHost, Sigterm, Extra
  <2>2. control' = control \/ (control < MaxControl /\ control' = control + 1)
    BY DEF Others, AuxEvent, AuxChange, AuxTaken, AuxFails, AuxDone, NotAux, Host, HostConnects,
           HostDisconnects, HostCancels, HostAsks, NotHost, Sigterm, Control
  <2> QED BY <2>1, <2>2, OthersFrame, Bounds DEF TypeOK, CountsTyped
<1> QED BY <1>1, <1>2, <1>3, <1>4, <1>5 DEF TypeOK

LEMMA TypeNext == ASSUME TypeOK, [Next]_vars PROVE TypeOK'
<1>a. HostTyped'
  BY HostTypedNext DEF TypeOK
<1>1. CASE IoSteps \/ IoHost
  <2>1. MainTyped'
    BY <1>1, IoFrame DEF TypeOK, MainTyped
  <2> QED BY <1>a, <1>1, <2>1, IoTypedIo, FlagsTypedIo, ValuesTypedIo, CountsTypedIo DEF TypeOK
<1>2. CASE MainSteps
  BY <1>a, <1>2, IoTypedMain, MainTypedMain, FlagsTypedMain, ValuesTypedMain, CountsTypedMain DEF TypeOK
<1>3. CASE Others
  BY <1>a, <1>3, TypeOthers
<1>4. CASE UNCHANGED vars
  <2>1. IoTyped' /\ MainTyped'
    BY <1>4 DEF TypeOK, IoTyped, MainTyped, vars
  <2>a. ValuesTyped'
    BY <1>4 DEF TypeOK, ValuesTyped, vars, ghosts
  <2>2. FlagsTyped'
    <3>1. UNCHANGED <<link, kerr, stop, started, doomed, transferring, db, shutdown, polling, missed,
                      killed, stale>>
      BY <1>4 DEF vars, ghosts
    <3> QED BY <3>1 DEF TypeOK, FlagsTyped
  <2>3. CountsTyped'
    <3>1. UNCHANGED <<cancel_req, late, packets, control, extra>>
      BY <1>4 DEF vars, ghosts
    <3> QED BY <3>1, Bounds DEF TypeOK, CountsTyped
  <2> QED BY <1>a, <2>1, <2>a, <2>2, <2>3 DEF TypeOK
<1> QED BY <1>1, <1>2, <1>3, <1>4 DEF Next, Others

\* Every thread is at one of its places and every counter within its bound.
THEOREM TypeCorrect == Spec => []TypeOK
BY TypeInit, TypeNext, PTL DEF Spec

-----------------------------------------------------------------------------
(* The life of the io thread.                                              *)

LEMMA IoRuns == ASSUME IoSteps \/ IoHost PROVE io.pc # "off"
BY DEF IoSteps, IoHost, IoTop, IoReadError, process_in_packet, IoLock, IoHeld, IoCallFails,
       IoDataset, check_and_send_USB_ZLP, write_usb, IoEnter, IoLoad, IoNext, IoSettle,
       IoSettled, IoMore, IoReceived, IoCheck, IoUnlock, IoRespond, IoKilled, IoTaken,
       IoDatasetRead, IoBlock, IoPacket, IoSwallow, HostSends, IoAt, InKernel, CancelPoints

LEMMA LifeInit == Init => LifeInv
BY DEF Init, LifeInv, Off

LEMMA LifeMain == ASSUME TypeOK, LifeInv, MainSteps PROVE LifeInv'
<1>1. MainTyped /\ mode' = mode /\ (io' = io \/ io'.pc = "top")
  <2>1. io' = io \/ io' = [Off EXCEPT !.pc = "top"]
    BY DEF MainSteps, Setup, IoReturns, Select, ServedAll, Enable, StartThread, Disable, Deconfigure, Cancel,
           CancelLock, Raise, SuspendWait, GetDeviceStatus, OtherRequest, Join, DropDb,
           Deinit, CloseDb, Leave, FrontEnd, InitFails, init_usb_mtp_gadget, NotMain,
           Flags, Marks
  <2> QED BY <2>1, MainFrame, OffFacts DEF TypeOK
<1> USE <1>1 DEF LifeInv, MainTyped, Main, Serve, Served
<1>2. CASE Setup BY <1>2 DEF Setup, FrontEnd, InitFails, Flags
<1>3. CASE IoReturns BY <1>3 DEF IoReturns, Flags
<1>4. CASE Select BY <1>4 DEF Select, Flags
<1>5. CASE ServedAll BY <1>5 DEF ServedAll, Flags
<1>6. CASE Enable
  <2>1. started' = started \/ started'
    BY <1>6 DEF Enable, StartThread
  <2>2. io' = io \/ started'
    BY <1>6 DEF Enable, StartThread
  <2>3. Serve("enable") /\ Served("serve", "serve") /\ queue' = queue
    BY <1>6 DEF Enable
  <2> QED BY <1>6, <2>1, <2>2, <2>3
<1>7. CASE Disable BY <1>7 DEF Disable, Flags
<1>8. CASE Deconfigure BY <1>8 DEF Deconfigure, Flags
<1>9. CASE Cancel BY <1>9 DEF Cancel, Flags
<1>10. CASE CancelLock BY <1>10 DEF CancelLock, Flags
<1>11. CASE Raise BY <1>11 DEF Raise, Flags
<1>12. CASE SuspendWait BY <1>12 DEF SuspendWait, Flags
<1>13. CASE GetDeviceStatus BY <1>13 DEF GetDeviceStatus, Flags
<1>14. CASE OtherRequest BY <1>14 DEF OtherRequest, Flags
<1>15. CASE Join BY <1>15 DEF Join, Flags
<1>16. CASE DropDb BY <1>16 DEF DropDb, Flags
<1>17. CASE Deinit BY <1>17 DEF Deinit, Flags
<1>18. CASE CloseDb BY <1>18 DEF CloseDb, Flags
<1>19. CASE Leave BY <1>19 DEF Leave, Flags
<1> QED
  BY <1>2, <1>3, <1>4, <1>5, <1>6, <1>7, <1>8, <1>9, <1>10, <1>11, <1>12, <1>13, <1>14, <1>15, <1>16,
     <1>17, <1>18, <1>19 DEF MainSteps

LEMMA LifeNext == ASSUME TypeOK, LifeInv, [Next]_vars PROVE LifeInv'
<1>1. CASE IoSteps \/ IoHost
  BY <1>1, IoRuns, IoFrame DEF LifeInv
<1>2. CASE MainSteps
  BY <1>2, LifeMain
<1>3. CASE Others
  <2>1. MainTyped /\ UNCHANGED <<mode, started, io>>
    BY <1>3, OthersFrame DEF TypeOK
  <2>2. main' = main \/ (main.pc = "select" /\ Main("deinit"))
    BY <1>3 DEF Others, AuxEvent, AuxChange, AuxTaken, AuxFails, AuxDone, NotAux, Host, HostConnects,
           HostDisconnects, HostCancels, HostAsks, NotHost, Sigterm
  <2>3. mode = "mtp_usb" => queue' = queue
    BY <1>3 DEF Others, AuxEvent, AuxChange, AuxTaken, AuxFails, AuxDone, NotAux, Host, HostConnects,
           HostDisconnects, HostCancels, HostAsks, Notify, Sigterm
  <2> QED BY <2>1, <2>2, <2>3 DEF LifeInv, Main, MainTyped
<1>4. CASE UNCHANGED vars
  BY <1>4 DEF LifeInv, vars
<1> QED BY <1>1, <1>2, <1>3, <1>4 DEF Next, Others

-----------------------------------------------------------------------------
(* The two mutexes.                                                        *)

LEMMA LockInit == Init => LockInv
<1> SUFFICES ASSUME Init PROVE LockInv
  OBVIOUS
<1>1. io.pc = "off" /\ io.op = NoPacket /\ ~io.op.lock
  BY OffFacts DEF Init
<1>2. main.pc = "setup" /\ aux = "idle" /\ inotify_mutex = "free" /\ cancel_mutex = "free"
  BY DEF Init
<1> QED BY <1>1, <1>2 DEF LockInv, InSection, InWrite, Settling, LockedPlaces

LEMMA LockIo == ASSUME TypeOK, LockInv, IoSteps \/ IoHost PROVE LockInv'
<1>a. UNCHANGED <<main, aux>>
  BY IoFrame
<1>b. IoTyped /\ io.op \in Packets \cup {NoPacket} /\ (Transfer(io.op) => io.op.lock)
  BY PacketFacts DEF TypeOK, IoTyped, Transfer
<1>c. io.op.step = "read dataset" => io.op.lock
  BY PacketFacts DEF TypeOK, IoTyped
<1> USE <1>a, <1>b, <1>c
    DEF LockInv, InSection, InWrite, Settling, LockedPlaces, IoTyped, IoAt, Goto, Write, Done, NotIo,
        Flags
<1>1. CASE IoTop BY <1>1, OffFacts DEF IoTop
<1>2. CASE IoReadError BY <1>2, OffFacts DEF IoReadError
<1>3. CASE process_in_packet BY <1>3 DEF process_in_packet
<1>4. CASE IoLock BY <1>4 DEF IoLock
<1>5. CASE IoHeld BY <1>5, ZenonT(60) DEF IoHeld, Refused, OpenFails, Granted, Transfer
<1>6. CASE IoCallFails BY <1>6 DEF IoCallFails, InKernel
<1>7. CASE IoDataset BY <1>7 DEF IoDataset
<1>8. CASE check_and_send_USB_ZLP BY <1>8 DEF check_and_send_USB_ZLP
<1>9. CASE write_usb BY <1>9 DEF write_usb
<1>10. CASE IoEnter BY <1>10 DEF IoEnter
<1>11. CASE IoLoad BY <1>11 DEF IoLoad
<1>12. CASE IoNext BY <1>12 DEF IoNext
<1>13. CASE IoSettle BY <1>13 DEF IoSettle
<1>14. CASE IoSettled BY <1>14 DEF IoSettled
<1>15. CASE IoMore BY <1>15 DEF IoMore
<1>16. CASE IoReceived BY <1>16 DEF IoReceived
<1>17. CASE IoCheck BY <1>17 DEF IoCheck
<1>18. CASE IoUnlock BY <1>18 DEF IoUnlock
<1>19. CASE IoRespond BY <1>19, ZenonT(60) DEF IoRespond
<1>20. CASE IoKilled BY <1>20, OffFacts DEF IoKilled
<1>21. CASE IoTaken BY <1>21 DEF IoTaken
<1>22. CASE IoDatasetRead BY <1>22 DEF IoDatasetRead
<1>23. CASE IoBlock BY <1>23 DEF IoBlock
<1>24. ASSUME NEW op \in Packets, IoPacket(op) PROVE LockInv'
  BY <1>24, OffFacts DEF IoPacket, HostSends
<1>25. ASSUME NEW op \in Packets, IoSwallow(op) PROVE LockInv'
  BY <1>25, OffFacts DEF IoSwallow, HostSends
<1> QED
  BY <1>1, <1>2, <1>3, <1>4, <1>5, <1>6, <1>7, <1>8, <1>9, <1>10, <1>11, <1>12, <1>13, <1>14, <1>15,
     <1>16, <1>17, <1>18, <1>19, <1>20, <1>21, <1>22, <1>23, <1>24, <1>25 DEF IoSteps, IoHost

\* The main thread starts the io thread only when there is none.
LEMMA MainStarts ==
    ASSUME LifeInv, MainSteps
    PROVE  io' = io \/ (io.pc = "off" /\ io' = [Off EXCEPT !.pc = "top"])
<1>1. CASE Setup BY <1>1 DEF Setup, FrontEnd, InitFails, LifeInv
<1>2. CASE Enable BY <1>2 DEF Enable, StartThread, Serve, LifeInv
<1>3. CASE IoReturns \/ Select \/ ServedAll \/ Disable \/ Deconfigure \/ Cancel \/ CancelLock \/ Raise
  BY <1>3 DEF IoReturns, Select, ServedAll, Disable, Deconfigure, Cancel, CancelLock, Raise
<1>4. CASE SuspendWait \/ GetDeviceStatus \/ OtherRequest \/ Join \/ DropDb \/ Deinit \/ CloseDb \/ Leave
  BY <1>4 DEF SuspendWait, GetDeviceStatus, OtherRequest, Join, DropDb, Deinit, CloseDb, Leave
<1> QED BY <1>1, <1>2, <1>3, <1>4 DEF MainSteps

\* The main thread takes cancel_mutex, and gives it back in the next step.
LEMMA MainMutex ==
    ASSUME TypeOK, MainSteps
    PROVE  \/ main.pc # "raise" /\ main'.pc # "raise" /\ cancel_mutex' = cancel_mutex
           \/ main.pc # "raise" /\ main'.pc = "raise" /\ cancel_mutex = "free" /\ cancel_mutex' = "ep0"
           \/ main.pc = "raise" /\ main'.pc # "raise" /\ cancel_mutex' = "free"
<1> USE DEF TypeOK, MainTyped, Main, Serve, Served, NotMain, Flags
<1>1. CASE Setup BY <1>1 DEF Setup, FrontEnd, InitFails
<1>2. CASE IoReturns BY <1>2 DEF IoReturns
<1>3. CASE Select BY <1>3 DEF Select
<1>4. CASE ServedAll BY <1>4 DEF ServedAll
<1>5. CASE Enable BY <1>5 DEF Enable, StartThread
<1>6. CASE Disable BY <1>6 DEF Disable
<1>7. CASE Deconfigure BY <1>7 DEF Deconfigure
<1>8. CASE Cancel BY <1>8 DEF Cancel
<1>9. CASE CancelLock BY <1>9 DEF CancelLock
<1>10. CASE Raise BY <1>10 DEF Raise
<1>11. CASE SuspendWait BY <1>11 DEF SuspendWait
<1>12. CASE GetDeviceStatus BY <1>12 DEF GetDeviceStatus
<1>13. CASE OtherRequest BY <1>13 DEF OtherRequest
<1>14. CASE Join BY <1>14 DEF Join
<1>15. CASE DropDb BY <1>15 DEF DropDb
<1>16. CASE Deinit BY <1>16 DEF Deinit
<1>17. CASE CloseDb BY <1>17 DEF CloseDb
<1>18. CASE Leave BY <1>18 DEF Leave
<1> QED
  BY <1>1, <1>2, <1>3, <1>4, <1>5, <1>6, <1>7, <1>8, <1>9, <1>10, <1>11, <1>12, <1>13, <1>14, <1>15,
     <1>16, <1>17, <1>18 DEF MainSteps

LEMMA LockMain == ASSUME TypeOK, LifeInv, LockInv, MainSteps PROVE LockInv'
<1>1. UNCHANGED <<inotify_mutex, aux, killed>>
  BY MainFrame
<1>2. CASE io' = io
  BY <1>1, <1>2, MainMutex, ZenonT(60) DEF LockInv, InSection, InWrite, Settling, LockedPlaces
<1>3. CASE io.pc = "off" /\ io' = [Off EXCEPT !.pc = "top"]
  <2>1. io'.pc = "top" /\ ~io'.op.lock /\ ~io.op.lock
    BY <1>3, OffFacts DEF LockInv
  <2> QED BY <1>1, <1>3, <2>1, MainMutex DEF LockInv, InSection, InWrite, Settling, LockedPlaces
<1> QED BY <1>2, <1>3, MainStarts

LEMMA LockNext == ASSUME TypeOK, LifeInv, LockInv, [Next]_vars PROVE LockInv'
<1>1. CASE Others
  <2>1. UNCHANGED <<io, killed, cancel_mutex>>
    BY <1>1, OthersFrame
  <2>2. main' = main \/ (main.pc = "select" /\ Main("deinit"))
    BY <1>1 DEF Others, AuxEvent, AuxChange, AuxTaken, AuxFails, AuxDone, NotAux, Host, HostConnects,
           HostDisconnects, HostCancels, HostAsks, NotHost, Sigterm
  <2>3. main'.pc = "raise" <=> main.pc = "raise"
    BY <2>2 DEF TypeOK, MainTyped, Main
  <2>4. CASE AuxEvent \/ AuxChange \/ AuxTaken \/ AuxFails
    BY <2>1, <2>3, <2>4, ZenonT(60) DEF AuxEvent, AuxChange, AuxTaken, AuxFails, AuxDone, LockInv, InSection,
       InWrite, Settling
  <2>5. CASE Host \/ Sigterm
    <3>1. inotify_mutex' = inotify_mutex /\ aux' \in {aux, Cut}
      BY <2>5 DEF Host, HostConnects, HostDisconnects, HostCancels, HostAsks, NotHost, Flags, Sigterm
    <3>2. aux' \in {"push locked", "cut locked"} <=> aux \in {"push locked", "cut locked"}
      BY <3>1 DEF Cut
    <3> QED BY <2>1, <2>3, <3>1, <3>2 DEF LockInv, InSection, InWrite, Settling
  <2> QED BY <1>1, <2>4, <2>5 DEF Others
<1>2. CASE UNCHANGED vars
  BY <1>2 DEF LockInv, InSection, InWrite, Settling, vars, ghosts
<1> QED BY <1>1, <1>2, LockIo, LockMain DEF Next, Others

UsbInv == TypeOK /\ LifeInv /\ LockInv

LEMMA UsbInvariant == Spec => []UsbInv
<1>1. Init => UsbInv
  BY TypeInit, LifeInit, LockInit DEF UsbInv
<1>2. UsbInv /\ [Next]_vars => UsbInv'
  BY TypeNext, LifeNext, LockNext DEF UsbInv
<1> QED BY <1>1, <1>2, PTL DEF Spec

\* Every way out of an operation gives the mutexes back: only pthread_cancel can
\* leave one locked behind.
THEOREM LocksReturnedCorrect == Spec => []LocksReturned
<1>1. UsbInv => LocksReturned
  BY DEF UsbInv, LockInv, LocksReturned, Settling
<1> QED BY <1>1, UsbInvariant, PTL

\* The other direction, killed threads or not: inside the section an operation runs
\* under inotify_mutex the io thread does hold it, and so does the thread that
\* pushes an event of a storage command; the closing write of a download is made
\* under cancel_mutex, which handle_ep0 then does not have.
Excludes ==
    /\ InSection => inotify_mutex = "io"
    /\ aux \in {"push locked", "cut locked"} => inotify_mutex = "aux"
    /\ Settling => main.pc # "raise"

\* A thread in a locked section holds the lock, so no two are in theirs together.
THEOREM MutualExclusion == Spec => []Excludes
<1>1. UsbInv => Excludes
  BY DEF UsbInv, LockInv, Excludes
<1> QED BY <1>1, UsbInvariant, PTL

-----------------------------------------------------------------------------
(* The cancel of a download.                                               *)

\* The io thread goes into a write only where no cancel is pending, and only a
\* write that the host takes counts.
LEMMA LateIo == ASSUME TypeOK, LateInv, IoSteps \/ IoHost PROVE LateInv'
<1> DEFINE Sends(i) == i.pc \in {"entering", "writing"}
<1>1. late' = late \/ IoTaken
  BY DEF IoSteps, IoHost, IoTop, IoReadError, process_in_packet, IoLock, IoHeld, IoCallFails,
         IoDataset, check_and_send_USB_ZLP, write_usb, IoEnter, IoLoad, IoNext, IoSettle,
         IoSettled, IoMore, IoReceived, IoCheck, IoUnlock, IoRespond, IoKilled, IoTaken,
         IoDatasetRead, IoBlock, IoPacket, IoSwallow, HostSends, Marks, Refused, OpenFails, Granted
<1>2. cancel_req' # 0 => cancel_req # 0
  BY DEF IoSteps, IoHost, IoTop, IoReadError, process_in_packet, IoLock, IoHeld, IoCallFails,
         IoDataset, check_and_send_USB_ZLP, write_usb, IoEnter, IoLoad, IoNext, IoSettle,
         IoSettled, IoMore, IoReceived, IoCheck, IoUnlock, IoRespond, IoKilled, IoTaken,
         IoDatasetRead, IoBlock, IoPacket, IoSwallow, HostSends, Flags
<1>3. IoTyped
  BY DEF TypeOK
<1>4. CASE IoTaken
  <2>1. Sends(io) /\ ~Sends(io')
    BY <1>3, <1>4 DEF IoTaken, IoAt, Goto, IoTyped
  <2>2. cancel_req # 0 => late = 0
    BY <2>1 DEF LateInv
  <2>3. late' \in {0, 1}
    BY <1>4, <2>2 DEF IoTaken
  <2> QED BY <2>1, <2>3 DEF LateInv
<1>5. CASE write_usb
  <2>1. late' = late /\ cancel_req' = cancel_req
    BY <1>5 DEF write_usb, Flags, Marks
  <2>2. cancel_req # 0 => ~Sends(io')
    BY <1>3, <1>5 DEF write_usb, Goto, IoTyped
  <2> QED BY <2>1, <2>2 DEF LateInv
<1>6. CASE IoEnter
  <2>1. Sends(io') => Sends(io)
    BY <1>3, <1>6 DEF IoEnter, Goto, IoTyped
  <2>2. late' = late
    BY <1>6 DEF IoEnter, Marks
  <2> QED BY <1>2, <2>1, <2>2 DEF LateInv
<1>7. CASE ~IoTaken /\ ~write_usb /\ ~IoEnter
  <2>1. ~Sends(io')
    <3> USE <1>3, <1>7 DEF IoTyped, IoAt, Goto, Write
    <3>1. CASE IoTop BY <3>1, OffFacts DEF IoTop
    <3>2. CASE IoReadError BY <3>2 DEF IoReadError
    <3>3. CASE process_in_packet BY <3>3 DEF process_in_packet
    <3>4. CASE IoLock BY <3>4 DEF IoLock
    <3>5. CASE IoHeld BY <3>5 DEF IoHeld, Refused, OpenFails, Granted, Done
    <3>6. CASE IoCallFails BY <3>6 DEF IoCallFails, InKernel
    <3>7. CASE IoDataset BY <3>7 DEF IoDataset
    <3>8. CASE check_and_send_USB_ZLP BY <3>8 DEF check_and_send_USB_ZLP
    <3>9. CASE IoLoad BY <3>9 DEF IoLoad
    <3>10. CASE IoNext BY <3>10 DEF IoNext
    <3>11. CASE IoSettle BY <3>11 DEF IoSettle
    <3>12. CASE IoSettled BY <3>12 DEF IoSettled
    <3>13. CASE IoMore BY <3>13 DEF IoMore
    <3>14. CASE IoReceived BY <3>14 DEF IoReceived
    <3>15. CASE IoCheck BY <3>15 DEF IoCheck
    <3>16. CASE IoUnlock BY <3>16 DEF IoUnlock
    <3>17. CASE IoRespond BY <3>17 DEF IoRespond
    <3>18. CASE IoKilled BY <3>18, OffFacts DEF IoKilled
    <3>19. CASE IoDatasetRead BY <3>19 DEF IoDatasetRead
    <3>20. CASE IoBlock BY <3>20 DEF IoBlock
    <3>21. ASSUME NEW op \in Packets, IoPacket(op) PROVE ~Sends(io')
      BY <3>21 DEF IoPacket, HostSends
    <3>22. ASSUME NEW op \in Packets, IoSwallow(op) PROVE ~Sends(io')
      BY <3>22 DEF IoSwallow, HostSends
    <3> QED
      BY <3>1, <3>2, <3>3, <3>4, <3>5, <3>6, <3>7, <3>8, <3>9, <3>10, <3>11, <3>12,
         <3>13, <3>14, <3>15, <3>16, <3>17, <3>18, <3>19, <3>20, <3>21, <3>22 DEF IoSteps, IoHost
  <2> QED BY <1>1, <1>7, <2>1 DEF LateInv
<1> QED BY <1>4, <1>5, <1>6, <1>7

LEMMA LateNext == ASSUME TypeOK, LifeInv, LateInv, [Next]_vars PROVE LateInv'
<1>1. CASE MainSteps
  <2>1. late' = 0 \/ (late' = late /\ (cancel_req' # 0 => cancel_req # 0))
    <3>1. CASE Raise BY <3>1 DEF Raise
    <3>2. CASE GetDeviceStatus BY <3>2 DEF GetDeviceStatus, NotMain
    <3>3. CASE ~Raise /\ ~GetDeviceStatus
      <4>1. late' = late
        BY <1>1, <3>3 DEF MainSteps, Setup, IoReturns, Select, ServedAll, Enable, Disable, Deconfigure, Cancel,
           CancelLock, SuspendWait, OtherRequest, Join, DropDb, Deinit, CloseDb, Leave, NotMain, Marks
      <4>2. cancel_req' \in {cancel_req, 0}
        BY <1>1, <3>3 DEF MainSteps, Setup, IoReturns, Select, ServedAll, Enable, Disable, Deconfigure, Cancel,
           CancelLock, SuspendWait, OtherRequest, Join, DropDb, Deinit, CloseDb, Leave, Flags
      <4> QED BY <4>1, <4>2
    <3> QED BY <3>1, <3>2, <3>3
  <2>2. io' = io \/ io'.pc = "top"
    BY <1>1, MainStarts, OffFacts
  <2> QED BY <2>1, <2>2 DEF LateInv
<1>2. CASE Others
  BY <1>2, OthersFrame DEF LateInv
<1>3. CASE UNCHANGED vars
  BY <1>3 DEF LateInv, vars, ghosts
<1> QED BY <1>1, <1>2, <1>3, LateIo DEF Next, Others

\* After a cancel the host gets at most the block that was already on its way,
\* for files of any number of blocks.
THEOREM CancelStopsCorrect == Spec => []CancelStops
<1>1. Init => LateInv
  BY DEF Init, LateInv
<1>2. UsbInv /\ LateInv /\ [Next]_vars => LateInv'
  BY LateNext DEF UsbInv
<1>3. LateInv => CancelStops
  BY DEF LateInv, CancelStops
<1> QED BY <1>1, <1>2, <1>3, UsbInvariant, PTL DEF Spec

-----------------------------------------------------------------------------
(* The database.                                                           *)

\* Neither FUNCTIONFS_DISABLE nor the main loop frees the database under an
\* operation: what they wait for, or never started, has ended.
THEOREM DropsIdleDbCorrect == Spec => DropsIdleDb
<1> DEFINE Idle == db /\ ~db' => io.pc \in {"off", "top", "read"} \/ io.op.step = "close"
<1>1. ASSUME UsbInv, [Next]_vars PROVE [Idle]_vars
  <2>1. CASE IoSteps \/ IoHost
    <3>1. CASE process_in_packet
      BY <3>1 DEF process_in_packet
    <3>2. CASE ~process_in_packet
      <4>1. db' = db
        BY <2>1, <3>2 DEF IoSteps, IoHost, IoTop, IoReadError, IoLock, IoHeld, IoCallFails, IoDataset,
                  check_and_send_USB_ZLP, write_usb, IoEnter, IoLoad, IoNext,
                  IoSettle, IoSettled, IoMore, IoReceived, IoCheck, IoUnlock,
                  IoRespond, IoKilled, IoTaken, IoDatasetRead, IoBlock, IoPacket, IoSwallow, HostSends,
                  Flags
      <4> QED BY <4>1
    <3> QED BY <3>1, <3>2
  <2>2. CASE MainSteps
    <3>1. db' = db \/ main.pc \in {"setup", "joined", "close"}
      BY <2>2 DEF MainSteps, Setup, IoReturns, Select, ServedAll, Enable, StartThread, Disable, Deconfigure, Cancel,
             CancelLock, Raise, SuspendWait, GetDeviceStatus, OtherRequest, Join,
             DropDb, Deinit, CloseDb, Leave, FrontEnd, InitFails, init_usb_mtp_gadget,
             NotMain, Flags, Marks
    <3>2. main.pc \in {"setup", "joined", "close"} => io.pc = "off"
      BY <1>1 DEF UsbInv, LifeInv
    <3> QED BY <3>1, <3>2
  <2>3. CASE Others
    BY <2>3, OthersFrame
  <2> QED BY <1>1, <2>1, <2>2, <2>3 DEF Next, Others
<1> QED BY <1>1, UsbInvariant, PTL DEF Spec, DropsIdleDb

-----------------------------------------------------------------------------
(* The answers.                                                            *)

LEMMA OpIo == ASSUME TypeOK, OpInv, IoSteps \/ IoHost PROVE OpInv'
<1>a. IoTyped /\ UNCHANGED <<main, eps>>
  BY IoFrame DEF TypeOK
<1> USE <1>a DEF OpInv, Resting, InTransfer, TransferPlaces, InWrite, IoTyped, IoAt, Goto, Write, NotIo,
                 Flags, Marks
<1>1. CASE IoTop BY <1>1, OffFacts DEF IoTop
<1>2. CASE IoReadError BY <1>2 DEF IoReadError
<1>3. CASE process_in_packet BY <1>3 DEF process_in_packet
<1>4. CASE IoLock BY <1>4 DEF IoLock
<1>5. CASE IoHeld BY <1>5, ZenonT(60) DEF IoHeld, Refused, OpenFails, Granted, Done, Transfer
<1>6. CASE IoCallFails BY <1>6 DEF IoCallFails, InKernel
<1>7. CASE IoDataset BY <1>7 DEF IoDataset, Done
<1>8. CASE check_and_send_USB_ZLP BY <1>8 DEF check_and_send_USB_ZLP, Done
<1>9. CASE write_usb BY <1>9 DEF write_usb
<1>10. CASE IoEnter BY <1>10 DEF IoEnter
<1>11. CASE IoLoad BY <1>11 DEF IoLoad
<1>12. CASE IoNext BY <1>12 DEF IoNext
<1>13. CASE IoSettle BY <1>13 DEF IoSettle
<1>14. CASE IoSettled BY <1>14 DEF IoSettled
<1>15. CASE IoMore BY <1>15 DEF IoMore
<1>16. CASE IoReceived BY <1>16 DEF IoReceived
<1>17. CASE IoCheck BY <1>17 DEF IoCheck
<1>18. CASE IoUnlock BY <1>18 DEF IoUnlock
<1>19. CASE IoRespond BY <1>19 DEF IoRespond
<1>20. CASE IoKilled BY <1>20, OffFacts DEF IoKilled
<1>21. CASE IoTaken BY <1>21 DEF IoTaken
<1>22. CASE IoDatasetRead BY <1>22 DEF IoDatasetRead
<1>23. CASE IoBlock BY <1>23 DEF IoBlock
<1>24. ASSUME NEW op \in Packets, IoPacket(op) PROVE OpInv'
  BY <1>24 DEF IoPacket, HostSends
<1>25. ASSUME NEW op \in Packets, IoSwallow(op) PROVE OpInv'
  BY <1>25 DEF IoSwallow, HostSends
<1> QED
  BY <1>1, <1>2, <1>3, <1>4, <1>5, <1>6, <1>7, <1>8, <1>9, <1>10, <1>11, <1>12, <1>13, <1>14, <1>15,
     <1>16, <1>17, <1>18, <1>19, <1>20, <1>21, <1>22, <1>23, <1>24, <1>25 DEF IoSteps, IoHost

\* The kinds of steps of the io thread, by what they do to a pending cancel: in an
\* operation but outside a transfer, or inside one ...
LEMMA Goes ==
    ASSUME OpInv, HandshakeInv, ~Resting, ~Resting', (InTransfer' <=> InTransfer), io'.op = io.op,
           UNCHANGED <<main, polling, cancel_req>>, ~transferring' \/ (transferring /\ (Moving => Moving'))
    PROVE  HandshakeInv'
BY DEF HandshakeInv, OpInv, Silent

\* ... the end of a transfer, which drops the cancel ...
LEMMA Ends ==
    ASSUME OpInv, HandshakeInv, InTransfer, ~Moving, ~Resting', io'.op = io.op, cancel_req' = 0,
           UNCHANGED <<main, transferring>>
    PROVE  HandshakeInv'
BY DEF HandshakeInv, OpInv, Silent

\* ... and the end of an operation, answered or not.
LEMMA Rests ==
    ASSUME HandshakeInv, ~InTransfer, Resting', UNCHANGED <<main, polling, cancel_req, transferring>>
    PROVE  HandshakeInv'
BY DEF HandshakeInv, Silent, Moving

LEMMA HandshakeIo ==
    ASSUME TypeOK, OpInv, QueueInv, HandshakeInv, IoSteps \/ IoHost, ~stale', ~killed'
    PROVE  HandshakeInv'
<1>a. IoTyped /\ UNCHANGED <<main, eps, polling>>
  BY IoFrame DEF TypeOK
<1> DEFINE Same == UNCHANGED <<main, polling, cancel_req, transferring>>
           Within == ~Resting /\ ~Resting' /\ (InTransfer' <=> InTransfer) /\ io'.op = io.op
                     /\ (Moving => Moving')
<1>b. ASSUME Same, Within PROVE HandshakeInv'
  BY <1>b, Goes DEF HandshakeInv
<1>1. CASE IoTop \/ IoReadError
  <2>1. Same /\ Resting /\ ~InTransfer
    BY <1>1, <1>a DEF IoTop, IoReadError, IoAt, Flags, Marks, Resting, InTransfer, TransferPlaces, InWrite
  <2>2. Resting'
    BY <1>1, <1>a, OffFacts DEF IoTop, IoReadError, Goto, Resting, IoTyped
  <2> QED BY <2>1, <2>2, Rests DEF HandshakeInv
<1>2. CASE process_in_packet \/ IoLock \/ IoDataset \/ check_and_send_USB_ZLP \/ IoUnlock \/ IoSettled
             \/ IoMore \/ IoDatasetRead \/ IoBlock \/ IoEnter
  <2>1. Same
    BY <1>2, <1>a DEF process_in_packet, IoLock, IoDataset, check_and_send_USB_ZLP, IoUnlock, IoSettled,
                      IoMore, IoDatasetRead, IoBlock, IoEnter, Flags
  <2> USE <1>a DEF IoTyped, IoAt, Goto, Write, Done, Resting, InTransfer, Moving, TransferPlaces, InWrite
  <2>2. CASE process_in_packet BY <2>1, <2>2, <1>b DEF process_in_packet
  <2>3. CASE IoLock BY <2>1, <2>3, <1>b DEF IoLock
  <2>4. CASE IoDataset BY <2>1, <2>4, <1>b DEF IoDataset
  <2>5. CASE check_and_send_USB_ZLP BY <2>1, <2>5, <1>b DEF check_and_send_USB_ZLP
  <2>6. CASE IoUnlock BY <2>1, <2>6, <1>b DEF IoUnlock
  <2>7. CASE IoSettled BY <2>1, <2>7, <1>b DEF IoSettled
  <2>8. CASE IoMore BY <2>1, <2>8, <1>b DEF IoMore
  <2>9. CASE IoDatasetRead BY <2>1, <2>9, <1>b DEF IoDatasetRead
  <2>10. CASE IoBlock BY <2>1, <2>10, <1>b DEF IoBlock
  <2>11. CASE IoEnter BY <2>1, <2>11, <1>b DEF IoEnter
  <2> QED BY <1>2, <2>2, <2>3, <2>4, <2>5, <2>6, <2>7, <2>8, <2>9, <2>10, <2>11
<1>3. CASE IoHeld
  <2>1. ~Resting /\ ~InTransfer /\ ~transferring /\ UNCHANGED <<main, polling, cancel_req>>
    BY <1>3, <1>a DEF IoHeld, IoAt, Resting, InTransfer, Moving, TransferPlaces, InWrite, HandshakeInv
  <2>2. io'.op = io.op /\ ~Resting'
    BY <1>3, <1>a DEF IoHeld, Refused, OpenFails, Granted, Goto, Done, IoTyped, Resting
  <2>3. CASE Granted /\ Transfer(io.op)
    <3>1. InTransfer' /\ Moving'
      BY <1>a, <2>3 DEF Granted, Transfer, IoTyped, InTransfer, Moving, TransferPlaces
    <3> QED BY <2>1, <2>2, <2>3, <3>1 DEF HandshakeInv, Silent
  <2>4. CASE ~(Granted /\ Transfer(io.op))
    <3>1. ~InTransfer'
      BY <1>3, <1>a, <2>4 DEF IoHeld, Refused, OpenFails, Granted, Goto, Done, Transfer, IoTyped, InTransfer,
         TransferPlaces, InWrite
    <3>2. ~transferring'
      BY <1>3, <2>1, <2>4 DEF IoHeld, Refused, OpenFails, Granted
    <3> QED BY <2>1, <2>2, <3>1, <3>2, Goes
  <2> QED BY <2>3, <2>4
<1>4. CASE IoLoad
  <2>1. Same /\ Write("next") /\ IoAt("load")
    BY <1>4, <1>a DEF IoLoad, Flags
  <2>2. Within
    BY <2>1, <1>a DEF Write, IoAt, IoTyped, Resting, InTransfer, Moving, TransferPlaces, InWrite
  <2> QED BY <2>1, <2>2, <1>b
<1>5. CASE IoNext \/ IoReceived
  <2>1. ~Resting /\ ~Resting' /\ InTransfer /\ InTransfer' /\ io'.op = io.op /\ cancel_req' = cancel_req
    BY <1>5, <1>a DEF IoNext, IoReceived, Goto, IoAt, IoTyped, Resting, InTransfer, TransferPlaces
  <2>2. ~transferring' \/ (transferring' = transferring /\ (Moving => Moving'))
    BY <1>5, <1>a DEF IoNext, IoReceived, Goto, IoAt, IoTyped, InTransfer, Moving, TransferPlaces
  <2> QED BY <1>a, <2>1, <2>2, Goes
<1>6. CASE IoSettle \/ IoCheck
  <2>1. InTransfer /\ ~Moving /\ ~Resting' /\ io'.op = io.op
    BY <1>6, <1>a DEF IoSettle, IoCheck, Goto, Write, IoAt, IoTyped, Resting, InTransfer, Moving,
       TransferPlaces
  <2>2. cancel_req' = 0 /\ UNCHANGED <<main, transferring>>
    BY <1>6, <1>a DEF IoSettle, IoCheck
  <2> QED BY <2>1, <2>2, Ends
<1>7. CASE IoRespond
  <2>1. Same /\ ~Resting /\ ~InTransfer
    BY <1>7, <1>a DEF IoRespond, IoAt, Flags, Marks, Resting, InTransfer, TransferPlaces, InWrite
  <2>2. CASE io.answer
    <3>1. Within
      BY <1>7, <1>a, <2>2 DEF IoRespond, Write, IoAt, IoTyped, Resting, InTransfer, Moving, TransferPlaces,
         InWrite
    <3> QED BY <2>1, <3>1, <1>b
  <2>3. CASE ~io.answer
    <3>1. Resting'
      BY <1>7, <1>a, <2>3 DEF IoRespond, Goto, IoTyped, Resting
    <3> QED BY <2>1, <3>1, Rests
  <2> QED BY <2>2, <2>3
<1>8. CASE write_usb \/ IoTaken \/ IoCallFails
  <2>1. Same /\ ~Resting
    BY <1>8, <1>a DEF write_usb, IoTaken, IoCallFails, InKernel, IoAt, Flags, Resting
  <2>2. CASE io.pc \in {"read dataset", "read data"}
    <3>1. Within
      BY <1>8, <1>a, <2>2 DEF write_usb, IoTaken, IoCallFails, Goto, IoAt, IoTyped, Resting, InTransfer, Moving,
         TransferPlaces, InWrite
    <3> QED BY <2>1, <3>1, <1>b
  <2>3. CASE InWrite /\ io'.pc = "entering"
    <3>1. Within
      BY <1>8, <1>a, <2>3 DEF write_usb, IoTaken, IoCallFails, Goto, IoAt, IoTyped, Resting, InTransfer, Moving,
         TransferPlaces, InWrite
    <3> QED BY <2>1, <3>1, <1>b
  <2>4. CASE InWrite /\ io'.pc = io.then /\ io.then # "top"
    <3>1. Within
      BY <1>8, <1>a, <2>4 DEF write_usb, IoTaken, IoCallFails, Goto, IoAt, IoTyped, Resting, InTransfer, Moving,
         TransferPlaces, InWrite
    <3> QED BY <2>1, <3>1, <1>b
  <2>5. CASE InWrite /\ io'.pc = io.then /\ io.then = "top"
    <3>1. ~InTransfer /\ Resting'
      BY <2>5 DEF InTransfer, TransferPlaces, InWrite, Resting
    <3> QED BY <2>1, <3>1, Rests
  <2>6. io.pc \in {"read dataset", "read data"} \/ (InWrite /\ io'.pc \in {"entering", io.then})
    BY <1>8, <1>a DEF write_usb, IoTaken, IoCallFails, Goto, IoAt, IoTyped, InWrite, InKernel
  <2> QED BY <2>2, <2>3, <2>4, <2>5, <2>6
<1>9. ASSUME NEW op \in Packets, IoPacket(op) PROVE HandshakeInv'
  <2>1. Resting /\ ~InTransfer /\ ~polling
    BY <1>9 DEF IoPacket, HostSends, IoAt, Resting, InTransfer, TransferPlaces, InWrite
  <2>2. cancel_req = 0 /\ ~transferring /\ ~(main.pc = "raise" /\ main.after = "serve")
    BY <2>1 DEF HandshakeInv, QueueInv, Moving
  <2>3. cancel_req' = cancel_req /\ transferring' = transferring /\ main' = main
    BY <1>9, <1>a DEF IoPacket, HostSends, Flags
  <2>4. ~Resting'
    BY <1>9, <1>a DEF IoPacket, HostSends, IoTyped, Resting
  <2> QED BY <2>2, <2>3, <2>4 DEF HandshakeInv
<1>10. ASSUME NEW op \in Packets, IoSwallow(op) PROVE HandshakeInv'
  <2>1. Same
    BY <1>10, <1>a DEF IoSwallow, Flags
  <2>2. Within
    BY <1>10, <1>a DEF IoSwallow, IoAt, Goto, IoTyped, Resting, InTransfer, Moving, TransferPlaces, InWrite
  <2> QED BY <2>1, <2>2, <1>b
<1>11. ~IoKilled
  BY DEF IoKilled
<1> QED
  BY <1>1, <1>2, <1>3, <1>4, <1>5, <1>6, <1>7, <1>8, <1>9, <1>10, <1>11 DEF IoSteps, IoHost

\* A range that a handler can only shorten, and the host only extend.
LEMMA RangeFacts ==
    ASSUME NEW s \in Seq(Events)
    PROVE  /\ Range(<<>>) = {}
           /\ s # <<>> => Head(s) \in Range(s) /\ Range(Tail(s)) \subseteq Range(s)
                          /\ Range(<<Head(s)>>) \subseteq Range(s)
           /\ \A e : Range(Append(s, e)) = Range(s) \cup {e}
<1>1. Range(<<>>) = {}
  BY DEF Range
<1>2. ASSUME s # <<>> PROVE Head(s) \in Range(s) /\ Range(<<Head(s)>>) \subseteq Range(s)
  BY <1>2 DEF Range
<1>3. ASSUME s # <<>> PROVE Range(Tail(s)) \subseteq Range(s)
  BY <1>3 DEF Range
<1>4. ASSUME NEW e PROVE Range(Append(s, e)) = Range(s) \cup {e}
  BY DEF Range
<1> QED BY <1>1, <1>2, <1>3, <1>4

LEMMA PendingMain == ASSUME TypeOK, MainSteps PROVE Pending' \subseteq Pending
<1>a. main.batch \in Seq(Events) /\ queue \in Seq(Events)
  BY DEF TypeOK, MainTyped, ValuesTyped
<1>1. \/ queue' = queue /\ main'.batch = main.batch
      \/ queue' = queue /\ main.batch # <<>> /\ main'.batch = Tail(main.batch)
      \/ queue' \in {queue, <<>>} /\ main'.batch \in {queue, <<>>}
      \/ queue # <<>> /\ queue' = Tail(queue) /\ main'.batch = <<Head(queue)>>
  <2> USE DEF TypeOK, MainTyped, Main, Serve, Served
  <2>1. CASE Setup BY <2>1 DEF Setup, FrontEnd, InitFails
  <2>2. CASE IoReturns BY <2>2 DEF IoReturns
  <2>3. CASE Select BY <2>3 DEF Select
  <2>4. CASE ServedAll BY <2>4 DEF ServedAll
  <2>5. CASE Enable BY <2>5 DEF Enable, StartThread
  <2>6. CASE Disable BY <2>6 DEF Disable
  <2>7. CASE Deconfigure BY <2>7 DEF Deconfigure
  <2>8. CASE Cancel BY <2>8 DEF Cancel
  <2>9. CASE CancelLock BY <2>9 DEF CancelLock
  <2>10. CASE Raise BY <2>10 DEF Raise
  <2>11. CASE SuspendWait BY <2>11 DEF SuspendWait
  <2>12. CASE GetDeviceStatus BY <2>12 DEF GetDeviceStatus
  <2>13. CASE OtherRequest BY <2>13 DEF OtherRequest
  <2>14. CASE Join BY <2>14 DEF Join
  <2>15. CASE DropDb BY <2>15 DEF DropDb
  <2>16. CASE Deinit BY <2>16 DEF Deinit
  <2>17. CASE CloseDb BY <2>17 DEF CloseDb
  <2>18. CASE Leave BY <2>18 DEF Leave
  <2> QED
    BY <2>1, <2>2, <2>3, <2>4, <2>5, <2>6, <2>7, <2>8, <2>9, <2>10, <2>11, <2>12, <2>13, <2>14, <2>15,
       <2>16, <2>17, <2>18 DEF MainSteps
<1>2. Pending' = Range(queue') \cup Range(main'.batch)
  BY DEF Pending
<1>3. /\ Range(<<>>) = {}
      /\ main.batch # <<>> => Range(Tail(main.batch)) \subseteq Range(main.batch)
      /\ queue # <<>> => Range(Tail(queue)) \cup Range(<<Head(queue)>>) \subseteq Range(queue)
  BY <1>a, RangeFacts
<1> QED BY <1>1, <1>2, <1>3 DEF Pending

LEMMA OpMain == ASSUME TypeOK, LifeInv, OpInv, MainSteps PROVE OpInv'
<1>a. MainTyped
  BY DEF TypeOK
<1>1. main'.pc = "disable" \/ (main'.pc = "raise" /\ main'.after = "joined") => stop'
  <2> USE <1>a DEF MainTyped, Main, Serve, Served, OpInv, LifeInv
  <2>1. CASE Setup
    <3>1. CASE FrontEnd BY <3>1 DEF FrontEnd
    <3>2. CASE InitFails BY <3>2 DEF InitFails
    <3> QED BY <2>1, <3>1, <3>2 DEF Setup
  <2>2. CASE IoReturns \/ Select \/ ServedAll \/ SuspendWait \/ OtherRequest \/ GetDeviceStatus
    BY <2>2 DEF IoReturns, Select, ServedAll, SuspendWait, OtherRequest, GetDeviceStatus
  <2>3. CASE Enable \/ Deconfigure \/ Cancel BY <2>3 DEF Enable, Deconfigure, Cancel
  <2>4. CASE Disable BY <2>4 DEF Disable
  <2>5. CASE CancelLock BY <2>5 DEF CancelLock
  <2>6. CASE Raise BY <2>6 DEF Raise
  <2>7. CASE Join BY <2>7 DEF Join
  <2>8. CASE DropDb \/ CloseDb \/ Leave BY <2>8 DEF DropDb, CloseDb, Leave
  <2>9. CASE Deinit BY <2>9 DEF Deinit
  <2> QED BY <2>1, <2>2, <2>3, <2>4, <2>5, <2>6, <2>7, <2>8, <2>9 DEF MainSteps
<1>2. CASE io.pc = "off" /\ io' = [Off EXCEPT !.pc = "top"]
  <2>1. Resting' /\ ~InTransfer'
    BY <1>2, OffFacts DEF Resting, InTransfer, TransferPlaces, InWrite
  <2> QED BY <1>1, <2>1 DEF OpInv
<1>3. CASE io' = io
  <2>1. (Resting' <=> Resting) /\ (InTransfer' <=> InTransfer)
    BY <1>3 DEF Resting, InTransfer, InWrite
  <2>2. ASSUME ~Resting, eps' # "open" PROVE stop' /\ main'.pc = "join" /\ main'.after = "close"
    <3>1. io.pc # "off"
      BY <2>2 DEF Resting
    <3>2. Deinit
      <4>1. ~Join /\ ~IoReturns
        BY <3>1 DEF Join, IoReturns
      <4>2. main.pc # "join"
        BY <4>1 DEF MainSteps, Setup, Select, ServedAll, Enable, StartThread, Disable, Deconfigure, Cancel, CancelLock,
               Raise, SuspendWait, GetDeviceStatus, OtherRequest, DropDb, Deinit, CloseDb, Leave, Serve
      <4>3. main.pc # "setup" /\ eps = "open"
        BY <2>2, <3>1, <4>2 DEF OpInv, LifeInv
      <4>4. CASE Enable
        BY <2>2, <4>3, <4>4 DEF Enable, StartThread, init_eps
      <4> QED
        BY <2>2, <4>1, <4>3, <4>4 DEF MainSteps, Setup, Select, ServedAll, Disable, Deconfigure, Cancel,
           CancelLock, Raise, SuspendWait, GetDeviceStatus, OtherRequest, DropDb, CloseDb, Leave
    <3>3. started
      BY <3>1, <3>2 DEF Deinit, LifeInv
    <3> QED BY <3>2, <3>3 DEF Deinit, TypeOK, MainTyped
  <2> QED BY <1>1, <1>3, <2>1, <2>2 DEF OpInv
<1> QED BY <1>2, <1>3, MainStarts

\* Only a cancel's own handling and the status that answers it touch the handshake.
LEMMA QueueMain ==
    ASSUME TypeOK, LifeInv, QueueInv, MainSteps
    PROVE  QueueInv'
<1>a. MainTyped /\ main.batch \in Seq(Events) /\ Pending' \subseteq Pending
  BY PendingMain DEF TypeOK, MainTyped
<1>1. CASE GetDeviceStatus
  <2>1. main'.pc = "serve" /\ "status" \in Range(main.batch)
    BY <1>1, <1>a, RangeFacts DEF GetDeviceStatus, Serve, Served, MainTyped
  <2>2. "cancel" \notin Pending
    BY <2>1 DEF QueueInv, Pending
  <2> QED BY <1>a, <2>1, <2>2 DEF QueueInv
<1>2. CASE ~GetDeviceStatus
  <2>1. polling' = polling
    BY <1>2 DEF MainSteps, Setup, IoReturns, Select, ServedAll, Enable, StartThread, Disable, Deconfigure, Cancel,
           CancelLock, Raise, SuspendWait, OtherRequest, Join, DropDb, Deinit, CloseDb, Leave
  <2>2. ASSUME main'.pc \in {"cancel", "raise"}, main'.after = "serve" PROVE polling
    <3>1. CASE Cancel
      <4>1. main.batch # <<>> /\ Head(main.batch) = "cancel"
        BY <1>a, <2>2, <3>1 DEF Cancel, Serve, Served, MainTyped
      <4>2. Head(main.batch) \in Range(main.batch)
        BY <1>a, <4>1, RangeFacts
      <4>3. "cancel" \in Pending
        BY <4>1, <4>2 DEF Pending
      <4> QED BY <4>3 DEF QueueInv
    <3>2. CASE ~Cancel
      <4>1. main.pc \in {"cancel", "disable", "raise"} /\ main'.after = main.after
        <5> USE <1>a, <2>2 DEF MainTyped, Main, Serve, Served
        <5>1. CASE Setup BY <5>1 DEF Setup, FrontEnd, InitFails
        <5>2. CASE IoReturns \/ Select \/ ServedAll \/ SuspendWait \/ OtherRequest
          BY <5>2 DEF IoReturns, Select, ServedAll, SuspendWait, OtherRequest
        <5>3. CASE Enable \/ Deconfigure BY <5>3 DEF Enable, StartThread, Deconfigure
        <5>4. CASE Disable BY <5>4 DEF Disable
        <5>5. CASE CancelLock BY <5>5 DEF CancelLock
        <5>6. CASE Raise BY <5>6 DEF Raise
        <5>7. CASE Join BY <5>7 DEF Join
        <5>8. CASE DropDb \/ CloseDb \/ Leave BY <5>8 DEF DropDb, CloseDb, Leave
        <5>9. CASE Deinit BY <5>9 DEF Deinit
        <5> QED
          BY <1>2, <3>2, <5>1, <5>2, <5>3, <5>4, <5>5, <5>6, <5>7, <5>8, <5>9 DEF MainSteps
      <4> QED BY <2>2, <4>1 DEF QueueInv, LifeInv
    <3> QED BY <3>1, <3>2
  <2> QED BY <1>a, <2>1, <2>2 DEF QueueInv
<1> QED BY <1>1, <1>2

LEMMA HandshakeMain ==
    ASSUME TypeOK, LifeInv, OpInv, QueueInv, HandshakeInv, MainSteps, ~stale'
    PROVE  HandshakeInv'
<1>a. MainTyped /\ transferring' = transferring
  BY MainFrame DEF TypeOK
<1>b. transferring => InTransfer /\ Silent
  BY DEF HandshakeInv, Moving, OpInv, Silent
<1>1. /\ (Moving => Moving') /\ (InTransfer => InTransfer') /\ (Silent => Silent')
      /\ (Resting' => Resting)
  <2>1. CASE io' = io
    BY <2>1 DEF Moving, InTransfer, Silent, Resting, InWrite
  <2>2. CASE io.pc = "off" /\ io' = [Off EXCEPT !.pc = "top"]
    BY <2>2, OffFacts DEF Moving, InTransfer, TransferPlaces, Silent, Resting, InWrite
  <2> QED BY <2>1, <2>2, MainStarts
<1>2. ASSUME cancel_req' # 0 PROVE Silent /\ (polling' \/ InTransfer)
  <2>1. CASE Raise
    <3>1. transferring \/ main.after = "serve"
      BY <2>1 DEF Raise
    <3>2. main.pc = "raise" /\ polling' = polling
      BY <2>1 DEF Raise
    <3> QED BY <1>b, <3>1, <3>2 DEF HandshakeInv, QueueInv
  <2>2. CASE GetDeviceStatus
    <3>1. cancel_req # 0 /\ (cancel_req = 2 \/ transferring)
      BY <1>2, <2>2 DEF GetDeviceStatus
    <3>2. cancel_req = 2 => polling'
      BY <2>2 DEF GetDeviceStatus
    <3> QED BY <1>b, <3>1, <3>2 DEF HandshakeInv
  <2>3. CASE ~Raise /\ ~GetDeviceStatus
    <3>1. polling' = polling
      BY <2>3 DEF MainSteps, Setup, IoReturns, Select, ServedAll, Enable, StartThread, Disable, Deconfigure, Cancel,
             CancelLock, SuspendWait, OtherRequest, Join, DropDb, Deinit, CloseDb, Leave
    <3>2. cancel_req' \in {cancel_req, 0}
      BY <2>3 DEF MainSteps, Setup, IoReturns, Select, ServedAll, Enable, StartThread, Disable, Deconfigure, Cancel,
             CancelLock, SuspendWait, OtherRequest, Join, DropDb, Deinit, CloseDb, Leave, Flags
    <3> QED BY <1>2, <3>1, <3>2 DEF HandshakeInv
  <2> QED BY <2>1, <2>2, <2>3
<1>3. ASSUME main'.pc = "raise", main'.after = "serve" PROVE Silent
  <2>1. CancelLock
    <3> USE <1>a, <1>3 DEF MainTyped, Main, Serve, Served
    <3>1. ~Setup BY DEF Setup, FrontEnd, InitFails
    <3>2. ~IoReturns /\ ~Select /\ ~ServedAll /\ ~SuspendWait /\ ~OtherRequest /\ ~GetDeviceStatus
      BY DEF IoReturns, Select, ServedAll, SuspendWait, OtherRequest, GetDeviceStatus
    <3>3. ~Enable /\ ~Deconfigure /\ ~Cancel BY DEF Enable, StartThread, Deconfigure, Cancel
    <3>4. ~Disable BY DEF Disable
    <3>5. ~Raise BY DEF Raise
    <3>6. ~Join BY DEF Join
    <3>7. ~DropDb /\ ~CloseDb /\ ~Leave BY DEF DropDb, CloseDb, Leave
    <3>8. ~Deinit BY DEF Deinit
    <3> QED
      BY <3>1, <3>2, <3>3, <3>4, <3>5, <3>6, <3>7, <3>8 DEF MainSteps
  <2>2. main'.after = main.after /\ (transferring \/ main.pc = "disable")
    BY <1>a, <1>3, <2>1 DEF CancelLock, Main, MainTyped
  <2> QED BY <1>b, <1>3, <2>2 DEF LifeInv
<1> QED BY <1>a, <1>1, <1>2, <1>3 DEF HandshakeInv

-----------------------------------------------------------------------------
\* The host and the other threads.
LEMMA AnswerOthers ==
    ASSUME TypeOK, OpInv, Others
    PROVE  OpInv' /\ (QueueInv /\ HandshakeInv /\ ~stale' => QueueInv' /\ HandshakeInv')
<1>a. MainTyped /\ UNCHANGED <<eps, io, transferring, cancel_req>>
  BY OthersFrame DEF TypeOK
<1>b. /\ Resting' <=> Resting
      /\ InTransfer' <=> InTransfer
      /\ Moving' <=> Moving
      /\ Silent' <=> Silent
  BY <1>a DEF Resting, InTransfer, Moving, Silent, InWrite
<1>c. main' = main \/ (main.pc = "select" /\ Main("deinit"))
  BY DEF Others, AuxEvent, AuxChange, AuxTaken, AuxFails, AuxDone, NotAux, Host, HostConnects,
         HostDisconnects, HostCancels, HostAsks, NotHost, Sigterm
<1>d. main' = main \/ main'.pc = "deinit"
  BY <1>a, <1>c DEF Main, MainTyped
<1>e. main'.batch = main.batch
  BY <1>a, <1>c DEF Main, MainTyped
<1>2. OpInv'
  <2>1. stop => stop'
    BY DEF Others, AuxEvent, AuxChange, AuxTaken, AuxFails, AuxDone, NotAux, Host, HostConnects,
           HostDisconnects, HostCancels, HostAsks, NotHost, Flags, Sigterm
  <2> QED BY <1>a, <1>b, <1>c, <1>d, <2>1 DEF OpInv
<1>3. ASSUME QueueInv, HandshakeInv, ~stale' PROVE QueueInv' /\ HandshakeInv'
  <2>1. polling => polling'
    <3>1. CASE HostConnects \/ HostDisconnects
      BY <1>3, <3>1 DEF HostConnects, HostDisconnects
    <3>2. CASE ~HostConnects /\ ~HostDisconnects
      BY <3>2 DEF Others, AuxEvent, AuxChange, AuxTaken, AuxFails, AuxDone, NotAux, Host, HostCancels,
             HostAsks, Sigterm
    <3> QED BY <3>1, <3>2
  <2>2. HandshakeInv'
    <3>1. main'.pc = "raise" /\ main'.after = "serve" => main.pc = "raise" /\ main.after = "serve"
      BY <1>d
    <3> QED BY <1>a, <1>b, <1>3, <2>1, <3>1 DEF HandshakeInv
  <2>3. \/ Pending' = Pending
        \/ Pending' = Pending \cup {"enable"}
        \/ Pending' = Pending \cup {"disable"}
        \/ Pending = {} /\ polling' /\ Pending' = {"cancel"}
        \/ Pending = {} /\ \E r \in {"status", "suspend", "deconfigure", "other"} : Pending' = {r}
    <3>1. /\ queue \in Seq(Events)
          /\ Pending' = Range(queue') \cup Range(main.batch)
          /\ Pending = Range(queue) \cup Range(main.batch)
      BY <1>e DEF TypeOK, ValuesTyped, Pending
    <3>2. /\ queue' = queue => Pending' = Pending
          /\ \A e : queue' = Append(queue, e) => Pending' = Pending \cup {e}
          /\ Answering => Pending = {}
      <4>1. Range(<<>>) = {} /\ \A e : Range(Append(queue, e)) = Range(queue) \cup {e}
        BY <3>1, RangeFacts
      <4>2. ASSUME NEW e, queue' = Append(queue, e) PROVE Pending' = Pending \cup {e}
        BY <3>1, <4>1, <4>2
      <4> QED BY <3>1, <4>1, <4>2 DEF Answering
    <3>3. CASE HostConnects BY <3>2, <3>3 DEF HostConnects, Notify
    <3>4. CASE HostDisconnects BY <3>2, <3>4 DEF HostDisconnects, Notify
    <3>5. CASE HostCancels BY <3>2, <3>5 DEF HostCancels, Notify
    <3>6. CASE \E r \in {"status", "suspend", "deconfigure", "other"} : HostAsks(r)
      BY <3>2, <3>6 DEF HostAsks, Notify
    <3>7. CASE AuxEvent \/ AuxChange \/ AuxTaken \/ AuxFails \/ Sigterm
      BY <3>2, <3>7 DEF AuxEvent, AuxChange, AuxTaken, AuxFails, AuxDone, NotAux, Sigterm
    <3> QED BY <3>3, <3>4, <3>5, <3>6, <3>7 DEF Others, Host
  <2>4. QueueInv'
    <3>1. main'.pc \in {"cancel", "raise"} => main' = main
      BY <1>d
    <3>2. ("cancel" \in Pending' => polling') /\ ("status" \in Pending' => "cancel" \notin Pending')
      BY <1>3, <2>1, <2>3 DEF QueueInv
    <3> QED BY <1>3, <2>1, <3>1, <3>2 DEF QueueInv
  <2> QED BY <2>2, <2>4
<1> QED BY <1>2, <1>3

-----------------------------------------------------------------------------
\* What the host waits for, through each thread's steps: it is enough to look at the
\* steps after which it still waits.
LEMMA NoneOwed == ASSUME owed' = NoPacket PROVE OwedInv'
BY DEF OwedInv, Transfer, NoPacket, Op

LEMMA OwedIo ==
    ASSUME TypeOK, OpInv, QueueInv, HandshakeInv, ~swallowed => OwedInv, IoSteps \/ IoHost,
           ~killed', ~swallowed'
    PROVE  OwedInv'
<1>a. IoTyped /\ UNCHANGED <<mode, link, queue, main, eps, polling>>
  BY IoFrame DEF TypeOK
<1>1. ASSUME NEW op \in Packets, IoPacket(op) PROVE OwedInv'
  <2>1. Resting /\ ~InTransfer /\ ~polling /\ link /\ ~kerr
    BY <1>1 DEF IoPacket, HostSends, Flows, IoAt, Resting, InTransfer, TransferPlaces, InWrite
  <2>2. cancel_req = 0 /\ ~(main.pc = "raise" /\ main.after = "serve")
    BY <2>1 DEF HandshakeInv, QueueInv
  <2>3. UNCHANGED <<kerr, cancel_req, stop>>
    BY <1>1 DEF IoPacket, Flags
  <2>4. ~Resting' /\ io'.op = op /\ io'.answer
    BY <1>1, <1>a DEF IoPacket, IoTyped, Resting
  <2>5. owed' = IF op.step = "await data" \/ Ending THEN NoPacket ELSE op
    BY <1>1 DEF IoPacket, HostSends
  <2>6. Ending' <=> Ending
    BY <1>a, <2>3 DEF Ending
  <2> QED BY <1>a, <2>1, <2>2, <2>3, <2>4, <2>5, <2>6 DEF OwedInv
<1>2. ASSUME ~\E op \in Packets : IoPacket(op) PROVE OwedInv'
  <2>1. OwedInv
    <3>1. ~\E op \in Packets : IoSwallow(op)
      BY DEF IoSwallow
    <3>2. swallowed' = swallowed
      BY <1>2, <3>1 DEF IoSteps, IoHost, IoTop, IoReadError, process_in_packet, IoLock, IoHeld, IoCallFails,
         IoDataset, check_and_send_USB_ZLP, write_usb, IoEnter, IoLoad, IoNext, IoSettle, IoSettled,
         IoMore, IoReceived, IoCheck, IoUnlock, IoRespond, IoKilled, IoTaken, IoDatasetRead, IoBlock,
         Marks
    <3> QED BY <3>2
  <2>2. SUFFICES ASSUME owed' # NoPacket PROVE OwedInv'
    BY NoneOwed
  <2>3. owed' = owed
    BY <1>2, <2>2 DEF IoSteps, IoHost, IoTop, IoReadError, process_in_packet, IoLock, IoHeld, IoCallFails,
         IoDataset, check_and_send_USB_ZLP, write_usb, IoEnter, IoLoad, IoNext, IoSettle, IoSettled,
         IoMore, IoReceived, IoCheck, IoUnlock, IoRespond, IoKilled, IoTaken, IoDatasetRead, IoBlock,
         IoSwallow, Marks
  <2>4. /\ link /\ ~kerr /\ cancel_req = 0 /\ (polling => ~Transfer(owed))
        /\ ~(main.pc = "raise" /\ main.after = "serve") /\ (Ending => main.pc = "deinit")
    BY <2>1, <2>2, <2>3 DEF OwedInv
  <2>5. /\ Resting => stop /\ io.pc # "read"
        /\ ~Resting => owed = io.op /\ io.answer /\ io.op.step # "await data"
    BY <2>1, <2>2, <2>3 DEF OwedInv
  <2>6. ~IoReadError /\ ~IoCallFails
    <3>1. ~IoReadError
      BY <2>5 DEF IoReadError, IoAt, Resting
    <3>2. ~IoCallFails
      BY <2>4 DEF IoCallFails
    <3> QED BY <3>1, <3>2
  <2>7. UNCHANGED <<kerr, stop>> /\ cancel_req' \in {cancel_req, 0}
    BY <1>2, <2>6 DEF IoSteps, IoHost, IoTop, process_in_packet, IoLock, IoHeld, IoDataset,
         check_and_send_USB_ZLP, write_usb, IoEnter, IoLoad, IoNext, IoSettle, IoSettled, IoMore,
         IoReceived, IoCheck, IoUnlock, IoRespond, IoKilled, IoTaken, IoDatasetRead, IoBlock, IoSwallow,
         Flags
  <2>8. Ending' <=> Ending
    BY <1>a, <2>7 DEF Ending
  <2>9. \/ Resting' /\ stop' /\ io'.pc # "read"
        \/ ~Resting /\ ~Resting' /\ io'.op = io.op /\ io'.answer
    <3> USE <1>a, <2>5, <2>7 DEF IoTyped, IoAt, Goto, Write, Done, Resting
    <3>1. CASE IoTop BY <3>1, OffFacts DEF IoTop
    <3>2. CASE process_in_packet BY <3>2 DEF process_in_packet
    <3>3. CASE IoLock BY <3>3 DEF IoLock
    <3>4. CASE IoHeld
      <4>1. ~Resting /\ io'.op = io.op /\ ~Resting'
        BY <3>4 DEF IoHeld, Refused, OpenFails, Granted
      <4>2. io.answer /\ io.op.step # "await data"
        BY <4>1, <2>5
      <4>3. io'.answer
        BY <3>4, <4>2 DEF IoHeld, Refused, OpenFails, Granted
      <4> QED BY <4>1, <4>3
    <3>5. CASE IoDataset
      <4>1. ~Resting /\ ~Resting' /\ io'.op = io.op
        BY <3>5 DEF IoDataset
      <4>2. io'.answer = io.answer
        BY <3>5 DEF IoDataset
      <4> QED BY <2>5, <4>1, <4>2
    <3>6. CASE check_and_send_USB_ZLP BY <3>6 DEF check_and_send_USB_ZLP
    <3>7. CASE write_usb
      <4>1. CASE cancel_req # 0 \/ stop \/ eps # "open"
        <5>1. stop
          BY <2>4, <3>7, <4>1 DEF OpInv, write_usb
        <5>2. io' = [io EXCEPT !.pc = io.then]
          BY <3>7, <4>1 DEF write_usb
        <5> QED BY <5>1, <5>2, <3>7 DEF write_usb
      <4>2. CASE ~(cancel_req # 0 \/ stop \/ eps # "open")
        BY <3>7, <4>2 DEF write_usb
      <4> QED BY <4>1, <4>2
    <3>8. CASE IoEnter BY <3>8 DEF IoEnter
    <3>9. CASE IoLoad
      <4>1. ~Resting /\ ~Resting' /\ io'.op = io.op
        BY <3>9 DEF IoLoad
      <4>2. io'.answer = io.answer
        BY <3>9 DEF IoLoad
      <4> QED BY <2>5, <4>1, <4>2
    <3>10. CASE IoNext
      <4>1. ~Resting /\ ~Resting' /\ io'.op = io.op
        BY <3>10 DEF IoNext
      <4>2. io'.answer = io.answer
        BY <3>10 DEF IoNext
      <4> QED BY <2>5, <4>1, <4>2
    <3>11. CASE IoSettle BY <2>4, <3>11 DEF IoSettle
    <3>12. CASE IoSettled BY <3>12 DEF IoSettled
    <3>13. CASE IoMore BY <3>13 DEF IoMore
    <3>14. CASE IoReceived BY <3>14 DEF IoReceived
    <3>15. CASE IoCheck BY <2>4, <3>15 DEF IoCheck
    <3>16. CASE IoUnlock BY <3>16 DEF IoUnlock
    <3>17. CASE IoRespond
      <4>1. ~Resting
        BY <3>17 DEF IoRespond
      <4>2. io' = [io EXCEPT !.pc = "write", !.then = "top"]
        BY <3>17, <4>1, <2>5 DEF IoRespond
      <4>3. ~Resting' /\ io'.op = io.op
        BY <4>2
      <4>4. io'.answer = io.answer
        BY <4>2
      <4> QED BY <2>5, <4>1, <4>3, <4>4
    <3>18. CASE IoTaken
      <4>1. ~swallowed
        BY <3>18 DEF IoTaken
      <4>2. io.then # "top"
        BY <2>2, <3>18, <4>1 DEF IoTaken
      <4> QED BY <3>18, <4>2 DEF IoTaken
    <3>19. CASE IoDatasetRead BY <3>19 DEF IoDatasetRead
    <3>20. CASE IoBlock BY <3>20 DEF IoBlock
    <3>21. ~IoKilled /\ ~\E op \in Packets : IoSwallow(op)
      BY DEF IoKilled, IoSwallow
    <3> QED
      BY <1>2, <2>6, <3>1, <3>2, <3>3, <3>4, <3>5, <3>6, <3>7, <3>8, <3>9, <3>10, <3>11, <3>12, <3>13,
         <3>14, <3>15, <3>16, <3>17, <3>18, <3>19, <3>20, <3>21 DEF IoSteps, IoHost
  <2> QED BY <1>a, <2>3, <2>4, <2>5, <2>7, <2>8, <2>9 DEF OwedInv
<1> QED BY <1>1, <1>2

LEMMA OwedMain ==
    ASSUME TypeOK, LifeInv, OpInv, QueueInv, HandshakeInv, OwedInv, MainSteps, ~stale'
    PROVE  OwedInv'
<1>1. SUFFICES ASSUME owed' # NoPacket PROVE OwedInv'
  BY NoneOwed
<1>a. MainTyped /\ main.batch \in Seq(Events) /\ Pending' \subseteq Pending
  BY PendingMain DEF TypeOK, MainTyped
<1>2. owed' = owed /\ transferring' = transferring
  BY <1>1, MainFrame
<1>3. ~Deinit
  BY <1>1 DEF Deinit
<1>4. main.pc # "deinit"
  BY <1>3 DEF MainSteps, Setup, IoReturns, Select, ServedAll, Enable, Disable, Deconfigure, Cancel,
     CancelLock, Raise, SuspendWait, GetDeviceStatus, OtherRequest, Join, DropDb, CloseDb, Leave, Serve
<1>5. /\ link /\ ~Ending /\ ~kerr /\ cancel_req = 0 /\ (polling => ~Transfer(owed))
      /\ ~(main.pc = "raise" /\ main.after = "serve")
  BY <1>1, <1>2, <1>4 DEF OwedInv
<1>6. ~stop /\ ~Resting /\ owed = io.op /\ io.answer /\ io.op.step # "await data"
  BY <1>1, <1>2, <1>5 DEF OwedInv, Ending
<1>7. "disable" \notin Pending /\ "deconfigure" \notin Pending
  BY <1>5 DEF Ending, Pending
<1>8. transferring => Transfer(owed)
  BY <1>6 DEF HandshakeInv, Moving, OpInv
<1>9. ~Disable /\ ~Deconfigure
  <2>1. main.batch # <<>> => Head(main.batch) \in Pending
    BY <1>a, RangeFacts DEF Pending
  <2> QED BY <1>7, <2>1 DEF Disable, Deconfigure, Serve
<1>10. ~Raise
  <2>1. SUFFICES ASSUME Raise PROVE FALSE
    OBVIOUS
  <2>2. main.pc = "raise" /\ main.after \in {"serve", "wait", "joined"}
    BY <1>a, <2>1 DEF Raise, LifeInv, MainTyped
  <2>3. main.after = "wait"
    BY <1>5, <1>6, <2>2 DEF OpInv
  <2>4. transferring
    BY <2>1, <2>3 DEF Raise
  <2> QED BY <1>1, <1>8, <2>1, <2>3, <2>4 DEF Raise, Uncancelled
<1>11. link' = link /\ ~stop'
  <2>1. link' = link
    BY <1>3, <1>9, <1>10 DEF MainSteps, Setup, FrontEnd, InitFails, IoReturns, Select, ServedAll, Enable,
       Cancel, CancelLock, SuspendWait, GetDeviceStatus, OtherRequest, Join, DropDb, CloseDb, Leave, Flags
  <2>2. stop' = stop \/ stop' = FALSE
    BY <1>3, <1>9, <1>10 DEF MainSteps, Setup, FrontEnd, InitFails, IoReturns, Select, ServedAll, Enable,
       Cancel, CancelLock, SuspendWait, GetDeviceStatus, OtherRequest, Join, DropDb, CloseDb, Leave, Flags
  <2>3. ~stop'
    BY <1>6, <2>2, Zenon
  <2> QED BY <2>1, <2>3
<1>12. io' = io
  BY <1>6, MainStarts DEF Resting
<1>13. cancel_req' = 0 /\ kerr' = kerr
  <2>1. CASE GetDeviceStatus
    BY <1>5, <2>1 DEF GetDeviceStatus
  <2>2. CASE SuspendWait
    BY <1>5, <2>2 DEF SuspendWait, Flags
  <2>3. CASE ~GetDeviceStatus /\ ~SuspendWait
    <3>1. cancel_req' \in {cancel_req, 0}
      BY <1>3, <1>9, <1>10, <2>3 DEF MainSteps, Setup, IoReturns, Select, ServedAll, Enable, Cancel, CancelLock,
         OtherRequest, Join, DropDb, CloseDb, Leave, Flags
    <3>2. kerr' = kerr
      BY <1>3, <1>9, <1>10, <2>3 DEF MainSteps, Setup, IoReturns, Select, ServedAll, Enable, Cancel, CancelLock,
         OtherRequest, Join, DropDb, CloseDb, Leave
    <3> QED BY <1>5, <3>1, <3>2
  <2> QED BY <2>1, <2>2, <2>3
<1>14. polling' => polling
  <2>1. CASE GetDeviceStatus
    <3>1. polling' <=> cancel_req = 2
      BY <2>1, Zenon DEF GetDeviceStatus
    <3> QED BY <1>5, <3>1
  <2>2. CASE ~GetDeviceStatus
    <3>1. polling' = polling
      BY <1>3, <1>9, <1>10, <2>2 DEF MainSteps, Setup, IoReturns, Select, ServedAll, Enable, Cancel, CancelLock,
         SuspendWait, OtherRequest, Join, DropDb, CloseDb, Leave
    <3> QED BY <3>1
  <2> QED BY <2>1, <2>2
<1>15. ~(main'.pc = "raise" /\ main'.after = "serve")
  <2>1. SUFFICES ASSUME main'.pc = "raise", main'.after = "serve" PROVE FALSE
    OBVIOUS
  <2>2. main.pc # "raise"
    BY <1>10 DEF MainSteps, Setup, IoReturns, Select, ServedAll, Enable, Disable, Deconfigure, Cancel,
       CancelLock, SuspendWait, GetDeviceStatus, OtherRequest, Join, DropDb, Deinit, CloseDb, Leave, Serve
  <2>3. cancel_mutex = "free" /\ cancel_mutex' = "ep0"
    BY <2>1, <2>2, MainMutex
  <2>4. CancelLock
    BY <2>3, <1>10 DEF MainSteps, Setup, IoReturns, Select, ServedAll, Enable, Disable, Deconfigure, Cancel,
       SuspendWait, GetDeviceStatus, OtherRequest, Join, DropDb, Deinit, CloseDb, Leave, Flags
  <2>5. main'.after = main.after /\ (transferring \/ main.pc = "disable") /\ main.pc \in {"cancel", "disable"}
    BY <1>a, <2>1, <2>4 DEF CancelLock, Main, MainTyped
  <2>6. main.pc = "cancel" /\ transferring
    BY <1>6, <2>5 DEF OpInv
  <2>7. polling
    BY <2>1, <2>5, <2>6 DEF QueueInv
  <2> QED BY <1>5, <1>8, <2>6, <2>7
<1>16. ~Ending'
  <2>1. "disable" \notin Pending' /\ "deconfigure" \notin Pending'
    BY <1>a, <1>7
  <2> QED BY <1>6, <1>11, <2>1 DEF Ending, Pending
<1>17. ~Resting'
  BY <1>6, <1>12 DEF Resting
<1> QED BY <1>2, <1>5, <1>6, <1>11, <1>12, <1>13, <1>14, <1>15, <1>16, <1>17 DEF OwedInv

LEMMA OwedOthers == ASSUME TypeOK, OwedInv, Others PROVE OwedInv'
<1>1. SUFFICES ASSUME owed' # NoPacket PROVE OwedInv'
  BY NoneOwed
<1>a. MainTyped /\ UNCHANGED <<mode, eps, io, cancel_req>>
  BY OthersFrame DEF TypeOK
<1>2. ~HostConnects /\ ~HostDisconnects
  BY <1>1 DEF HostConnects, HostDisconnects
<1>3. owed' = owed
  BY <1>1, <1>2 DEF Others, AuxEvent, AuxChange, AuxTaken, AuxFails, AuxDone, NotAux, Host, HostCancels,
     HostAsks, Sigterm, Uncancelled
<1>4. link' = link
  BY <1>2 DEF Others, AuxEvent, AuxChange, AuxTaken, AuxFails, AuxDone, NotAux, Host, HostCancels,
     HostAsks, Sigterm
<1>5. kerr' => kerr
  <2>1. CASE HostCancels
    BY <1>1, <2>1 DEF HostCancels
  <2>2. CASE ~HostCancels
    BY <1>1, <1>2, <2>2 DEF Others, AuxEvent, AuxChange, AuxTaken, AuxFails, AuxDone, NotAux, Host, HostAsks,
       Sigterm
  <2> QED BY <2>1, <2>2
<1>6. polling' => polling \/ ~Transfer(owed)
  <2>1. CASE HostCancels
    BY <1>1, <1>3, <2>1 DEF HostCancels, Uncancelled
  <2>2. CASE ~HostCancels
    BY <1>2, <2>2 DEF Others, AuxEvent, AuxChange, AuxTaken, AuxFails, AuxDone, NotAux, Host, HostAsks,
       Sigterm
  <2> QED BY <2>1, <2>2
<1>7. /\ main' = main \/ main'.pc = "deinit"
      /\ main'.batch = main.batch
      /\ stop' = stop \/ (stop' /\ main'.pc = "deinit")
      /\ stop => stop'
  <2>1. CASE Sigterm
    BY <1>a, <2>1 DEF Sigterm, Main, MainTyped
  <2>2. CASE ~Sigterm
    <3>1. main' = main /\ stop' = stop
      BY <1>2, <2>2 DEF Others, AuxEvent, AuxChange, AuxTaken, AuxFails, AuxDone, NotAux, Host, HostCancels,
         HostAsks, NotHost, Flags
    <3> QED BY <3>1
  <2> QED BY <2>1, <2>2
<1>8. \/ queue' = queue
      \/ \E e \in {"cancel", "status", "suspend", "other"} : queue' = Append(queue, e)
  <2>1. CASE HostCancels BY <2>1 DEF HostCancels, Notify
  <2>2. CASE \E r \in {"status", "suspend", "deconfigure", "other"} : HostAsks(r)
    BY <1>1, <2>2 DEF HostAsks, Notify
  <2>3. CASE AuxEvent \/ AuxChange \/ AuxTaken \/ AuxFails \/ Sigterm
    BY <2>3 DEF AuxEvent, AuxChange, AuxTaken, AuxFails, AuxDone, NotAux, Sigterm
  <2> QED BY <1>2, <2>1, <2>2, <2>3 DEF Others, Host
<1>9. Ending' => Ending \/ main'.pc = "deinit"
  <2>1. queue \in Seq(Events)
    BY DEF TypeOK, ValuesTyped
  <2>2. \A e : Range(Append(queue, e)) = Range(queue) \cup {e}
    BY <2>1, RangeFacts
  <2>3. \/ Range(queue') = Range(queue)
        \/ \E e \in {"cancel", "status", "suspend", "other"} : Range(queue') = Range(queue) \cup {e}
    <3>1. CASE queue' = queue BY <3>1
    <3>2. ASSUME NEW e \in {"cancel", "status", "suspend", "other"}, queue' = Append(queue, e)
          PROVE  Range(queue') = Range(queue) \cup {e}
      BY <2>2, <3>2, Zenon
    <3> QED BY <1>8, <3>1, <3>2
  <2>4. /\ "disable" \in Range(queue') => "disable" \in Range(queue)
        /\ "deconfigure" \in Range(queue') => "deconfigure" \in Range(queue)
    BY <2>3
  <2>5. ASSUME Ending' PROVE \/ stop'
                             \/ {"disable", "deconfigure"} \cap (Range(queue') \cup Range(main.batch)) # {}
    BY <1>7, <2>5 DEF Ending
  <2> QED BY <1>7, <2>4, <2>5 DEF Ending
<1>10. Ending /\ main.pc = "deinit" => main'.pc = "deinit"
  BY <1>7
<1>11. Resting' <=> Resting
  BY <1>a DEF Resting
<1>12. main'.pc = "raise" /\ main'.after = "serve" => main.pc = "raise" /\ main.after = "serve"
  BY <1>7
<1> QED
  BY <1>1, <1>a, <1>3, <1>4, <1>5, <1>6, <1>7, <1>9, <1>10, <1>11, <1>12 DEF OwedInv

LEMMA AnswerNext == ASSUME UsbInv, AnswerInv, [Next]_vars PROVE AnswerInv'
<1> USE DEF UsbInv
<1>1. CASE IoSteps \/ IoHost
  <2>1. OpInv'
    BY <1>1, OpIo DEF AnswerInv
  <2>2. (stale => stale') /\ (killed => killed')
    <3>1. stale' = stale \/ stale'
      BY <1>1 DEF IoSteps, IoHost, IoTop, IoReadError, process_in_packet, IoLock, IoHeld, IoCallFails,
             IoDataset, check_and_send_USB_ZLP, write_usb, IoEnter, IoLoad, IoNext, IoSettle,
             IoSettled, IoMore, IoReceived, IoCheck, IoUnlock, IoRespond, IoKilled, IoTaken,
             IoDatasetRead, IoBlock, IoPacket, IoSwallow, HostSends, Marks
    <3>2. killed' = killed \/ killed'
      BY <1>1 DEF IoSteps, IoHost, IoTop, IoReadError, process_in_packet, IoLock, IoHeld, IoCallFails,
             IoDataset, check_and_send_USB_ZLP, write_usb, IoEnter, IoLoad, IoNext, IoSettle,
             IoSettled, IoMore, IoReceived, IoCheck, IoUnlock, IoRespond, IoKilled, IoTaken,
             IoDatasetRead, IoBlock, IoPacket, IoSwallow, HostSends, NotIo
    <3> QED BY <3>1, <3>2
  <2>3. QueueInv => QueueInv'
    BY <1>1, IoFrame DEF QueueInv, Pending
  <2> QED BY <1>1, <2>1, <2>2, <2>3, HandshakeIo, OwedIo DEF AnswerInv
<1>2. CASE MainSteps
  <2>1. killed' = killed /\ swallowed' = swallowed
    BY <1>2, MainFrame
  <2>2. stale' = stale \/ stale' = (stale \/ (~transferring /\ main.after # "serve"))
    BY <1>2 DEF MainSteps, Setup, IoReturns, Select, ServedAll, Enable, Disable, Deconfigure, Cancel,
           CancelLock, Raise, SuspendWait, GetDeviceStatus, OtherRequest, Join, DropDb, Deinit, CloseDb,
           Leave, Marks
  <2> QED BY <1>2, <2>1, <2>2, OpMain, QueueMain, HandshakeMain, OwedMain DEF AnswerInv
<1>3. CASE Others
  <2>1. killed' = killed /\ swallowed' = swallowed
    BY <1>3, OthersFrame
  <2>2. stale => stale'
    <3>1. CASE HostConnects \/ HostDisconnects
      BY <3>1 DEF HostConnects, HostDisconnects
    <3>2. CASE ~HostConnects /\ ~HostDisconnects
      <4>1. stale' = stale
        BY <1>3, <3>2 DEF Others, AuxEvent, AuxChange, AuxTaken, AuxFails, AuxDone, NotAux, Host,
               HostCancels, HostAsks, Sigterm
      <4> QED BY <4>1
    <3> QED BY <3>1, <3>2
  <2> QED BY <1>3, <2>1, <2>2, AnswerOthers, OwedOthers DEF AnswerInv
<1>4. CASE UNCHANGED vars
  <2>1. UNCHANGED <<io, main, queue, stop, eps, owed, polling, link, kerr>>
    BY <1>4 DEF vars, ghosts
  <2>2. UNCHANGED <<transferring, cancel_req, stale, killed, swallowed>>
    BY <1>4 DEF vars, ghosts
  <2> QED
    BY <2>1, <2>2 DEF AnswerInv, OpInv, OwedInv, QueueInv, HandshakeInv, Pending, Resting, InTransfer,
       Moving, Silent, InWrite, Ending
<1> QED BY <1>1, <1>2, <1>3, <1>4 DEF Next, Others

\* A host that keeps to the cancel handshake has taken the response to every command
\* before the next packet is read, but for the transfers it or a suspend has
\* cancelled, whatever the threads do in between; unless the command was swallowed
\* as data, a cancel was left behind, or the thread was killed.
THEOREM OneResponseCorrect == Spec => []OneResponse
<1>1. Init => AnswerInv
  <2> SUFFICES ASSUME Init PROVE AnswerInv
    OBVIOUS
  <2>1. io.pc = "off" /\ owed = NoPacket /\ ~transferring /\ cancel_req = 0 /\ main.pc = "setup"
    BY OffFacts DEF Init
  <2>2. queue = <<>> /\ main.batch = <<>> /\ main.after = "serve"
    BY DEF Init
  <2>3. Range(<<>>) = {}
    BY DEF Range
  <2>4. Pending = {}
    BY <2>2, <2>3 DEF Pending
  <2>5. ~Transfer(NoPacket)
    BY DEF Transfer, NoPacket, Op
  <2> QED
    BY <2>1, <2>4, <2>5 DEF AnswerInv, OpInv, OwedInv, QueueInv, HandshakeInv, Resting, InTransfer,
       TransferPlaces, InWrite
<1>2. UsbInv /\ AnswerInv /\ [Next]_vars => AnswerInv'
  BY AnswerNext
<1>3. AnswerInv => OneResponse
  BY DEF AnswerInv, OwedInv, OneResponse, Resting
<1> QED BY <1>1, <1>2, <1>3, UsbInvariant, PTL DEF Spec
=============================================================================
