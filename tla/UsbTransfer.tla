----------------------------- MODULE UsbTransfer -----------------------------
(***************************************************************************)
(* umtprd's transport: the thread that answers MTP packets (io_thread,     *)
(* process_in_packet and the operations in mtp_operations/), the control   *)
(* endpoint (handle_ep0, handle_ffs_ep0, handle_setup_request), the main   *)
(* loop that starts and stops both (umtprd.c) and the threads that push    *)
(* events.                                                                 *)
(*                                                                         *)
(* Three front ends share the code: "mtp_usb", the kernel's MTP function,  *)
(* where the main thread answers the packets itself; "ffs", FunctionFS;    *)
(* and "gadgetfs".  What an operation looks up and sends is left out here: *)
(* kept are its locks, its blocking calls, its answer, and the cancel      *)
(* handshake (transferring_file_data, cancel_req, SIGUSR1).                *)
(***************************************************************************)
EXTENDS Integers, Sequences, TLC, Functions

CONSTANTS
    Modes,              \* the front ends
    LoopOnDisconnect,   \* usb_cfg.loop_on_disconnect
    WaitConnection,     \* usb_cfg.wait_connection
    Blocks,             \* blocks of a file sent to the host
    MaxPackets,         \* bound: packets the host sends
    MaxControl,         \* bound: connections, disconnections and control requests
    MaxExtra,           \* bound: events pushed to the host, endpoints or files that
                        \* cannot be opened or read, and SIGTERM
    MaxInputs           \* bound: all of these together, the last counting threefold

ASSUME ConstantsAssumption ==
    /\ Modes \subseteq {"mtp_usb", "ffs", "gadgetfs"}
    /\ {LoopOnDisconnect, WaitConnection} \subseteq BOOLEAN
    /\ Blocks \in Nat \ {0}
    /\ {MaxPackets, MaxControl, MaxExtra, MaxInputs} \subseteq Nat

VARIABLES
    mode,           \* the front end in use
    link,           \* the kernel has the endpoints enabled
    kerr,           \* the endpoint call in progress, or the next one, fails
    queue,          \* control endpoint events not yet read
    main,           \* the main thread: where it is, the events it has read
    stop,           \* ctx->stop
    started,        \* ~ctx->thread_not_started
    eps,            \* ctx->ep_handles: "closed", "partly" or "open"
    io,             \* the thread that answers packets
    doomed,         \* pthread_cancel has been called on it
    transferring,   \* ctx->transferring_file_data
    cancel_req,
    cancel_mutex, inotify_mutex,    \* their owners
    db,             \* ctx->fs_db # NULL
    aux,            \* the inotify or message queue thread, pushing an event
    shutdown,       \* shutdown_requested
    polling,        \* the host has cancelled and waits for GET_DEVICE_STATUS to say OK
    \* What the bounds count, and what the properties remember:
    packets, control, extra,
    owed,           \* the host waits for a response
    late,           \* blocks taken by the host after cancel_req was last raised
    missed,         \* SIGUSR1 arrived while no endpoint call was in progress
    killed,         \* the io thread was ended by pthread_cancel
    stale,          \* cancel_req was raised or left behind when nothing was transferred
    sending,        \* the host is in the data phase of its last command
    swallowed       \* its last command was taken for data by an earlier one

ghosts == <<packets, control, extra, owed, late, missed, killed, stale, sending, swallowed>>
vars == <<mode, link, kerr, queue, main, stop, started, eps, io, doomed, transferring, cancel_req,
          cancel_mutex, inotify_mutex, db, aux, shutdown, polling, ghosts>>

-----------------------------------------------------------------------------
(* The packets, by what the operation does with the session, the lock and  *)
(* the endpoints: does it need a session, does it run under inotify_mutex, *)
(* what must it find (nothing, an entry, an entry it may read or write),   *)
(* and what follows.  Operations that do the same are the same here.       *)

Op(session, lock, access, step) == [session |-> session, lock |-> lock, access |-> access, step |-> step]

mtp_op_OpenSession == Op(FALSE, TRUE, "nothing", "open")
mtp_op_CloseSession == Op(TRUE, FALSE, "nothing", "close")
mtp_op_GetDeviceInfos == Op(FALSE, FALSE, "nothing", "dataset")
mtp_op_GetStorageIDs == Op(TRUE, FALSE, "nothing", "dataset")
mtp_op_GetStorageInfo == Op(TRUE, FALSE, "entry", "dataset")
mtp_op_GetObjectPropsSupported == Op(TRUE, FALSE, "nothing", "dataset")
mtp_op_GetDevicePropDesc == Op(TRUE, TRUE, "entry", "dataset")
mtp_op_GetDevicePropValue == Op(TRUE, TRUE, "entry", "dataset")
mtp_op_GetObjectPropDesc == Op(TRUE, TRUE, "entry", "dataset")
mtp_op_GetObjectPropValue == Op(TRUE, TRUE, "entry", "dataset")
mtp_op_GetObjectPropList == Op(TRUE, TRUE, "entry", "dataset")
mtp_op_GetObjectReferences == Op(TRUE, TRUE, "entry", "dataset")
mtp_op_GetObjectInfo == Op(TRUE, TRUE, "entry", "dataset")
mtp_op_GetObjectHandles == Op(TRUE, TRUE, "entry", "dataset")
mtp_op_GetObject == Op(TRUE, TRUE, "read", "load")
mtp_op_GetPartialObject == Op(TRUE, TRUE, "read", "load")
mtp_op_SendObjectInfo == Op(TRUE, TRUE, "nothing", "read dataset")
mtp_op_SendObject == {Op(TRUE, TRUE, "write", "await data"), Op(TRUE, TRUE, "write", "more")}
mtp_op_SetObjectPropValue == {Op(TRUE, FALSE, "nothing", "await data"), Op(TRUE, FALSE, "nothing", "reply")}
mtp_op_DeleteObject == Op(TRUE, TRUE, "write", "reply")
mtp_op_TruncateObject == Op(TRUE, TRUE, "write", "reply")
mtp_op_BeginEditObject == Op(TRUE, TRUE, "write", "reply")
mtp_op_EndEditObject == Op(TRUE, TRUE, "write", "reply")
unsupported == Op(FALSE, FALSE, "nothing", "reply")

Packets ==
    {mtp_op_OpenSession, mtp_op_CloseSession, mtp_op_GetDeviceInfos, mtp_op_GetStorageIDs,
     mtp_op_GetStorageInfo, mtp_op_GetObjectPropsSupported, mtp_op_GetDevicePropDesc,
     mtp_op_GetDevicePropValue, mtp_op_GetObjectPropDesc, mtp_op_GetObjectPropValue,
     mtp_op_GetObjectPropList, mtp_op_GetObjectReferences, mtp_op_GetObjectInfo,
     mtp_op_GetObjectHandles, mtp_op_GetObject, mtp_op_GetPartialObject, mtp_op_SendObjectInfo,
     mtp_op_DeleteObject, mtp_op_TruncateObject, mtp_op_BeginEditObject, mtp_op_EndEditObject,
     unsupported}
      \cup mtp_op_SendObject \cup mtp_op_SetObjectPropValue

NoPacket == Op(FALSE, FALSE, "nothing", "none")

\* A file goes to the host or comes from it.
Transfer(op) == op.step \in {"load", "more"}

\* What check_handle_access and the operations find out about the object.
Found == {"no entry", "no storage", "locked", "read-only", "fine"}
check_handle_access(found, access) ==
    \/ access = "nothing"
    \/ access = "entry" /\ found # "no entry"
    \/ access = "read" /\ found \in {"read-only", "fine"}
    \/ access = "write" /\ found = "fine"

\* Places of the io thread: in a call on an endpoint, or in one on a file.
InKernel == {"read", "read dataset", "read data", "writing"}
CancelPoints == InKernel \cup {"load", "more"}

\* A call on an endpoint that is down fails at once, or waits for it to come up.
FailsWhenDown == mode = "gadgetfs" \/ (mode = "mtp_usb" /\ io.pc = "writing")

\* Data flows: a GadgetFS host waits until its SET_CONFIGURATION has been served.
Flows == /\ link /\ ~kerr
         /\ mode = "gadgetfs" => "enable" \notin Range(queue) \cup Range(main.batch)

Off == [pc |-> "off", op |-> NoPacket, then |-> "top", left |-> 0, answer |-> FALSE]

Init ==
    /\ mode \in Modes
    /\ link = FALSE
    /\ kerr = FALSE
    /\ queue = <<>>
    /\ main = [pc |-> "setup", batch |-> <<>>, timed |-> TRUE, after |-> "serve"]
    /\ stop = FALSE
    /\ started = FALSE
    /\ eps = "closed"
    /\ io = Off
    /\ doomed = FALSE
    /\ transferring = FALSE
    /\ cancel_req = 0
    /\ cancel_mutex = "free" /\ inotify_mutex = "free"
    /\ db = FALSE
    /\ aux = "idle"
    /\ shutdown = FALSE
    /\ polling = FALSE
    /\ packets = 0 /\ control = 0 /\ extra = 0
    /\ owed = NoPacket /\ late = 0
    /\ missed = FALSE /\ killed = FALSE /\ stale = FALSE
    /\ sending = FALSE /\ swallowed = FALSE

-----------------------------------------------------------------------------
(* The thread that answers packets.  A step runs up to the next lock,      *)
(* blocking call, or access to what other threads change.                  *)

NotIo == <<mode, link, queue, main, started, eps, doomed, aux, shutdown, polling, control, killed>>
Flags == <<stop, transferring, cancel_req, cancel_mutex, inotify_mutex, db>>
Marks == <<packets, extra, owed, late, missed, stale, sending, swallowed>>

IoAt(place) == io.pc = place /\ ~(doomed /\ place \in CancelPoints)
Goto(place) == io' = [io EXCEPT !.pc = place]
Write(then) == io' = [io EXCEPT !.pc = "write", !.then = then]
Room(cost) == packets + control + 3 * extra + cost <= MaxInputs
Extra == extra < MaxExtra /\ Room(3) /\ extra' = extra + 1

\* io_thread: while(is_usb_up).
IoTop ==
    /\ IoAt("top")
    /\ io' = IF stop THEN Off ELSE [Off EXCEPT !.pc = "read"]
    /\ UNCHANGED <<kerr, Flags, Marks, NotIo>>

\* The host sends a command.  It gets no answer when the connection is at its end
\* and only the control endpoint does not know it yet.
Ending == stop \/ {"disable", "deconfigure"} \cap (Range(queue) \cup Range(main.batch)) # {}
HostSends(op) ==
    /\ Flows /\ ~polling
    /\ packets < MaxPackets /\ Room(1) /\ packets' = packets + 1
    /\ owed' = IF op.step = "await data" \/ Ending THEN NoPacket ELSE op
    /\ sending' = (op.step \in {"more", "read dataset"})

\* mtp_incoming_packet: read_usb returns a packet.
IoPacket(op) ==
    /\ IoAt("read") /\ eps = "open" /\ HostSends(op)
    /\ io' = [io EXCEPT !.pc = "dispatch", !.op = op, !.answer = TRUE]
    /\ swallowed' = FALSE
    /\ UNCHANGED <<kerr, Flags, extra, late, missed, stale, NotIo>>

IoReadError ==
    /\ IoAt("read")
    /\ kerr \/ eps # "open" \/ (~link /\ FailsWhenDown)
    /\ kerr' = FALSE
    /\ stop' = TRUE
    /\ Goto("top")
    /\ UNCHANGED <<transferring, cancel_req, cancel_mutex, inotify_mutex, db, Marks, NotIo>>

\* process_in_packet: the switch, and each operation up to its lock.  Without a
\* session most packets are refused, and so are a second OpenSession and one with
\* the number 0.  CloseSession frees the database here, OpenSession creates it
\* before it takes the lock.
Rejected == \/ ~db /\ io.op.session
            \/ db /\ io.op.step = "open"

process_in_packet ==
    /\ IoAt("dispatch")
    /\ \E rejected \in {Rejected} \cup {Rejected \/ io.op.step = "open"} :
         /\ Goto(IF rejected THEN "respond" ELSE IF io.op.lock THEN "lock" ELSE "held")
         /\ db' = IF rejected THEN db ELSE (db \/ io.op.step = "open") /\ io.op.step # "close"
    /\ UNCHANGED <<kerr, stop, transferring, cancel_req, cancel_mutex, inotify_mutex, Marks, NotIo>>

IoLock ==
    /\ IoAt("lock") /\ inotify_mutex = "free"
    /\ inotify_mutex' = "io"
    /\ Goto("held")
    /\ UNCHANGED <<kerr, stop, transferring, cancel_req, cancel_mutex, db, Marks, NotIo>>

\* Where an operation ends.
Done == IF io.op.lock THEN "unlock" ELSE "respond"

\* Mutant: the lock is kept when access is denied.
RefusedLocked ==
    /\ \E found \in Found : ~check_handle_access(found, io.op.access)
    /\ Goto("respond")
    /\ UNCHANGED <<transferring, missed, extra>>

\* The object is not there or may not be used: an error answer.
Refused ==
    /\ \E found \in Found : ~check_handle_access(found, io.op.access)
    /\ Goto(Done)
    /\ UNCHANGED <<transferring, missed, extra>>

\* Its file cannot be opened: an error answer, too.
OpenFails ==
    /\ Transfer(io.op)
    /\ Extra
    /\ Goto(Done)
    /\ UNCHANGED <<transferring, missed>>

Granted ==
    /\ \E found \in Found : check_handle_access(found, io.op.access)
    /\ transferring' = (transferring \/ Transfer(io.op))
    /\ missed' = (missed /\ ~Transfer(io.op))
    /\ io' = [io EXCEPT !.pc = IF io.op.step \in {"dataset", "read dataset", "load", "more"}
                               THEN io.op.step ELSE Done,
                        !.left = Blocks,
                        !.answer = io.op.step # "await data"]
    /\ UNCHANGED extra

IoHeld ==
    /\ IoAt("held")
    /\ Refused \/ OpenFails \/ Granted
    /\ UNCHANGED <<kerr, stop, cancel_req, cancel_mutex, inotify_mutex, db, packets, owed, late,
                   stale, sending, swallowed, NotIo>>

\* SendObjectInfo waits for its dataset with the lock held.
IoDatasetRead ==
    /\ IoAt("read dataset") /\ Flows /\ sending
    /\ Goto("unlock")
    /\ UNCHANGED <<kerr, Flags, Marks, NotIo>>

\* A failed call: the dataset is refused, the upload ends, a write is forgotten.
IoCallFails ==
    /\ io.pc \in InKernel \ {"read"} /\ IoAt(io.pc)
    /\ kerr \/ (~link /\ FailsWhenDown)
    /\ kerr' = FALSE
    /\ Goto(CASE io.pc = "read dataset" -> "unlock" [] io.pc = "read data" -> "received"
               [] io.pc = "writing" -> io.then)
    /\ UNCHANGED <<Flags, Marks, NotIo>>

\* A dataset goes out, with an empty packet behind it when its length asks for one.
IoDataset ==
    /\ IoAt("dataset")
    /\ Write("zlp") \/ Write(Done)
    /\ UNCHANGED <<kerr, Flags, Marks, NotIo>>

check_and_send_USB_ZLP ==
    /\ IoAt("zlp")
    /\ Write(Done)
    /\ UNCHANGED <<kerr, Flags, Marks, NotIo>>

\* Mutant: cancel_req is not looked at.
WriteRegardless ==
    /\ IoAt("write")
    /\ Goto(IF stop \/ eps # "open" THEN io.then ELSE "entering")
    /\ UNCHANGED <<kerr, Flags, Marks, NotIo>>

\* write_usb: refused while a cancel is pending or the gadget is stopping ...
write_usb ==
    /\ IoAt("write")
    /\ Goto(IF cancel_req # 0 \/ stop \/ eps # "open" THEN io.then ELSE "entering")
    /\ UNCHANGED <<kerr, Flags, Marks, NotIo>>

\* ... and otherwise calls write, which waits until the host takes the data.  A
\* signal that comes before the call interrupts nothing.
IoEnter ==
    /\ io.pc \in {"entering", "entering read"}
    /\ Goto(IF io.pc = "entering" THEN "writing" ELSE "read data")
    /\ UNCHANGED <<kerr, Flags, Marks, NotIo>>

\* A response that is taken answers the command it was written for, and no command
\* that was swallowed on the way.
IoTaken ==
    /\ IoAt("writing") /\ Flows
    /\ owed' = IF io.then = "top" /\ ~swallowed THEN NoPacket ELSE owed
    /\ late' = IF cancel_req # 0 THEN late + 1 ELSE 0
    /\ Goto(io.then)
    /\ UNCHANGED <<kerr, Flags, packets, extra, missed, stale, sending, swallowed, NotIo>>

-----------------------------------------------------------------------------
(* send_file_data: GetObject and GetPartialObject.                         *)

IoLoad ==
    /\ IoAt("load")
    /\ \/ Write("next") /\ UNCHANGED <<extra, stale>>
       \/ Extra /\ Goto("unlock") /\ stale' = TRUE   \* transferring_file_data stays set
    /\ UNCHANGED <<kerr, Flags, packets, owed, late, missed, sending, swallowed, NotIo>>

IoNext ==
    /\ IoAt("next")
    /\ IF io.left > 1 /\ cancel_req = 0
       THEN io' = [io EXCEPT !.pc = "load", !.left = @ - 1] /\ UNCHANGED transferring
       ELSE io' = [io EXCEPT !.pc = "settle", !.left = 0] /\ transferring' = FALSE
    /\ UNCHANGED <<kerr, stop, cancel_req, cancel_mutex, inotify_mutex, db, Marks, NotIo>>

\* Under cancel_mutex: a cancelled transfer is not answered, and the request is
\* cleared; otherwise the closing empty packet is written with the mutex held.
IoSettle ==
    /\ IoAt("settle") /\ cancel_mutex = "free"
    /\ cancel_req' = 0
    /\ IF cancel_req # 0 THEN io' = [io EXCEPT !.pc = "unlock", !.answer = FALSE] /\ UNCHANGED cancel_mutex
       ELSE \/ Goto("unlock") /\ UNCHANGED cancel_mutex
            \/ Write("settled") /\ cancel_mutex' = "io"
    /\ UNCHANGED <<kerr, stop, transferring, inotify_mutex, db, Marks, NotIo>>

IoSettled ==
    /\ IoAt("settled")
    /\ cancel_mutex' = "free"
    /\ Goto("unlock")
    /\ UNCHANGED <<kerr, stop, transferring, cancel_req, inotify_mutex, db, Marks, NotIo>>

-----------------------------------------------------------------------------
(* SendObject, data: blocks are read until a short one, a cancel, an error. *)

IoMore ==
    /\ IoAt("more")
    /\ \/ Goto(IF cancel_req # 0 THEN "received" ELSE "entering read")
       \/ Goto("received")
    /\ UNCHANGED <<kerr, Flags, Marks, NotIo>>

IoBlock ==
    /\ IoAt("read data") /\ Flows /\ sending
    /\ Goto("more")
    /\ UNCHANGED <<kerr, Flags, Marks, NotIo>>

\* The host has given the data phase up and sends its next command.  To a thread
\* that still waits for data it is a last, short block, or a bad dataset.
IoSwallow(op) ==
    /\ io.pc \in {"read data", "read dataset"} /\ IoAt(io.pc) /\ ~sending
    /\ HostSends(op)
    /\ Goto(IF io.pc = "read data" THEN "received" ELSE "unlock")
    /\ swallowed' = TRUE
    /\ UNCHANGED <<kerr, Flags, extra, late, missed, stale, NotIo>>

IoReceived ==
    /\ IoAt("received")
    /\ transferring' = FALSE
    /\ Goto("check")
    /\ UNCHANGED <<kerr, stop, cancel_req, cancel_mutex, inotify_mutex, db, Marks, NotIo>>

\* The cancel is looked for without cancel_mutex.
IoCheck ==
    /\ IoAt("check")
    /\ cancel_req' = 0
    /\ io' = [io EXCEPT !.pc = "unlock", !.answer = (cancel_req = 0)]
    /\ UNCHANGED <<kerr, stop, transferring, cancel_mutex, inotify_mutex, db, Marks, NotIo>>

-----------------------------------------------------------------------------
IoUnlock ==
    /\ IoAt("unlock")
    /\ inotify_mutex' = "free"
    /\ Goto("respond")
    /\ UNCHANGED <<kerr, stop, transferring, cancel_req, cancel_mutex, db, Marks, NotIo>>

\* process_in_packet, its end: the response, unless the code is NO_RESPONSE.
IoRespond ==
    /\ IoAt("respond")
    /\ IF io.answer THEN Write("top") ELSE Goto("top")
    /\ UNCHANGED <<kerr, Flags, Marks, NotIo>>

\* pthread_cancel takes effect at the next cancellation point; nothing is unlocked.
IoKilled ==
    /\ doomed /\ io.pc \in CancelPoints
    /\ io' = Off
    /\ doomed' = FALSE /\ killed' = TRUE
    /\ kerr' = FALSE
    /\ UNCHANGED <<mode, link, queue, main, started, eps, aux, shutdown, polling, control,
                   Flags, Marks>>

\* What the thread does by itself, and what it does when the host lets it.
IoSteps ==
    \/ IoTop \/ IoReadError \/ process_in_packet \/ IoLock \/ IoHeld \/ IoCallFails
    \/ IoDataset \/ check_and_send_USB_ZLP \/ write_usb \/ IoEnter
    \/ IoLoad \/ IoNext \/ IoSettle \/ IoSettled
    \/ IoMore \/ IoReceived \/ IoCheck \/ IoUnlock \/ IoRespond \/ IoKilled

IoHost == IoTaken \/ IoDatasetRead \/ IoBlock \/ \E op \in Packets : IoPacket(op) \/ IoSwallow(op)

-----------------------------------------------------------------------------
(* The main thread: the control endpoint and the loop around it.           *)

NotMain == <<mode, inotify_mutex, aux, packets, late, sending, swallowed>>
Main(place) == main' = [main EXCEPT !.pc = place]

\* init_usb_mtp_gadget: a new context; in mtp_usb mode the device is all three
\* endpoints, otherwise they are opened when the host connects.
init_usb_mtp_gadget ==
    /\ eps' = IF mode = "mtp_usb" THEN "open" ELSE eps
    /\ UNCHANGED <<extra, db>>

\* main_thread's choice: in mtp_usb mode it answers the packets itself.
FrontEnd ==
    /\ main' = [pc |-> IF mode = "mtp_usb" THEN "io" ELSE "select", batch |-> <<>>, timed |-> TRUE,
                after |-> "serve"]
    /\ io' = IF mode = "mtp_usb" THEN [Off EXCEPT !.pc = "top"] ELSE io
    /\ stop' = FALSE

\* The device cannot be opened, or does not take the descriptors.
InitFails ==
    /\ Extra
    /\ db' = FALSE
    /\ Main("leave")
    /\ UNCHANGED <<stop, eps, io>>

Setup ==
    /\ main.pc = "setup"
    /\ (init_usb_mtp_gadget /\ FrontEnd) \/ InitFails
    /\ UNCHANGED <<link, kerr, queue, started, doomed, transferring, cancel_req, cancel_mutex, shutdown,
                   polling, control, owed, missed, killed, stale, NotMain>>

IoReturns ==
    /\ main.pc = "io" /\ io.pc = "off"
    /\ Main("deinit")
    /\ UNCHANGED <<link, kerr, queue, started, eps, io, doomed, Flags, shutdown, polling, control,
                   Marks, killed, mode, aux>>

\* The loop's head: the events read are one in FunctionFS, all in GadgetFS.  With
\* no event before the timeout the loop is left, unless it waits for a connection,
\* and so it is when the events cannot be read.
Select ==
    /\ main.pc = "select"
    /\ \/ stop /\ Main("deinit") /\ UNCHANGED <<queue, extra>>
       \/ ~stop /\ queue # <<>> /\ Extra /\ Main("deinit") /\ UNCHANGED queue
       \/ /\ ~stop /\ queue # <<>> /\ UNCHANGED extra
          /\ main' = [main EXCEPT !.pc = "serve", !.timed = FALSE,
                                  !.batch = IF mode = "ffs" THEN <<Head(queue)>> ELSE queue]
          /\ queue' = IF mode = "ffs" THEN Tail(queue) ELSE <<>>
       \/ ~stop /\ queue = <<>> /\ main.timed /\ ~WaitConnection /\ Main("deinit")
          /\ UNCHANGED <<queue, extra>>
    /\ UNCHANGED <<link, kerr, stop, started, eps, io, doomed, transferring, cancel_req, cancel_mutex, db,
                   shutdown, polling, control, owed, missed, killed, stale, NotMain>>

Serve(event) == main.pc = "serve" /\ main.batch # <<>> /\ Head(main.batch) = event
Served(place, after) == main' = [main EXCEPT !.pc = place, !.batch = Tail(@), !.after = after]

ServedAll ==
    /\ main.pc = "serve" /\ main.batch = <<>>
    /\ Main("select")
    /\ UNCHANGED <<link, kerr, queue, started, eps, io, doomed, Flags, shutdown, polling, control,
                   Marks, killed, mode, aux>>

\* init_eps opens three endpoints and leaves those it has opened.
init_eps(ok) ==
    IF ok THEN eps' = IF eps = "closed" THEN "open" ELSE eps
          ELSE eps = "closed" /\ eps' \in {"closed", "partly"}

\* pthread_create, unless there is a thread; it can fail.
StartThread ==
    \/ started /\ UNCHANGED <<started, io, extra>>
    \/ ~started /\ started' = TRUE /\ io' = [Off EXCEPT !.pc = "top"] /\ UNCHANGED extra
    \/ ~started /\ Extra /\ UNCHANGED <<started, io>>

\* FUNCTIONFS_ENABLE, or SET_CONFIGURATION 1.
Enable ==
    /\ Serve("enable")
    /\ \/ init_eps(FALSE) /\ Extra /\ UNCHANGED <<stop, started, io>>
       \/ init_eps(TRUE) /\ stop' = FALSE /\ StartThread
    /\ Served("serve", "serve")
    /\ UNCHANGED <<link, kerr, queue, doomed, transferring, cancel_req, cancel_mutex, db, shutdown,
                   polling, control, owed, missed, killed, stale, NotMain>>

\* FUNCTIONFS_DISABLE raises a cancel and waits for the thread; GADGETFS_DISCONNECT
\* calls pthread_cancel.
Disable ==
    /\ Serve("disable")
    /\ stop' = TRUE
    /\ IF mode = "ffs"
       THEN /\ Served(IF ~started THEN "joined" ELSE IF transferring THEN "disable" ELSE "join", "joined")
            /\ UNCHANGED doomed
       ELSE /\ doomed' = (started /\ io.pc # "off")
            /\ main' = [main EXCEPT !.pc = IF started THEN "join" ELSE "serve", !.batch = Tail(@),
                                    !.after = "serve", !.timed = TRUE]
    /\ UNCHANGED <<link, kerr, queue, started, eps, io, transferring, cancel_req, cancel_mutex, db,
                   shutdown, polling, control, extra, owed, missed, killed, stale, NotMain>>

\* SET_CONFIGURATION 0.
Deconfigure ==
    /\ Serve("deconfigure")
    /\ stop' = TRUE
    /\ Served("serve", "serve")
    /\ UNCHANGED <<link, kerr, queue, started, eps, io, doomed, transferring, cancel_req, cancel_mutex,
                   db, shutdown, polling, control, extra, owed, missed, killed, stale, NotMain>>

\* MTP_REQ_CANCEL, and a suspend that finds a transfer under way: take cancel_mutex.
Cancel ==
    /\ Serve("cancel") \/ Serve("suspend")
    /\ IF Head(main.batch) = "suspend" /\ ~transferring THEN Served("serve", "serve")
       ELSE Served("cancel", IF Head(main.batch) = "cancel" THEN "serve" ELSE "wait")
    /\ UNCHANGED <<link, kerr, queue, started, eps, io, doomed, Flags, shutdown, polling, control,
                   Marks, killed, mode, aux>>

\* With the mutex: cancel the transfer, or, if there is none, forget a cancel.
\* FUNCTIONFS_DISABLE does not look again whether a transfer is under way.
CancelLock ==
    /\ main.pc \in {"cancel", "disable"} /\ cancel_mutex = "free"
    /\ IF transferring \/ main.pc = "disable"
       THEN cancel_mutex' = "ep0" /\ Main("raise") /\ UNCHANGED cancel_req
       ELSE cancel_req' = 0 /\ Main(main.after) /\ UNCHANGED cancel_mutex
    /\ UNCHANGED <<link, kerr, queue, stop, started, eps, io, doomed, transferring, db, shutdown,
                   polling, control, extra, owed, missed, killed, stale, NotMain>>

\* pthread_kill: the signal ends an endpoint call in progress, and nothing else.
Interrupt ==
    /\ kerr' = (kerr \/ io.pc \in InKernel)
    /\ missed' = (missed \/ io.pc \notin InKernel)

\* What the host still waits for when the transfer it waits for is cancelled.
Uncancelled == IF Transfer(owed) THEN NoPacket ELSE owed

\* Mutants: the thread is not interrupted; the mutex is kept.
RaiseQuietly ==
    /\ main.pc = "raise"
    /\ cancel_req' = 2 /\ cancel_mutex' = "free"
    /\ late' = 0
    /\ stale' = (stale \/ (~transferring /\ main.after # "serve"))
    /\ owed' = IF main.after = "wait" THEN Uncancelled ELSE owed
    /\ Main(IF main.after = "joined" THEN "join" ELSE main.after)
    /\ UNCHANGED <<link, queue, stop, started, eps, io, doomed, transferring, db, shutdown, polling,
                   control, extra, killed, mode, inotify_mutex, aux, packets, kerr, missed, sending, swallowed>>
RaiseLocked ==
    /\ main.pc = "raise"
    /\ cancel_req' = 2 /\ cancel_mutex' = "ep0"
    /\ Interrupt
    /\ late' = 0
    /\ stale' = (stale \/ (~transferring /\ main.after # "serve"))
    /\ owed' = IF main.after = "wait" THEN Uncancelled ELSE owed
    /\ Main(IF main.after = "joined" THEN "join" ELSE main.after)
    /\ UNCHANGED <<link, queue, stop, started, eps, io, doomed, transferring, db, shutdown, polling,
                   control, extra, killed, mode, inotify_mutex, aux, packets, sending, swallowed>>

Raise ==
    /\ main.pc = "raise"
    /\ cancel_req' = 2 /\ cancel_mutex' = "free"
    /\ Interrupt
    /\ late' = 0
    /\ stale' = (stale \/ (~transferring /\ main.after # "serve"))
    /\ owed' = IF main.after = "wait" THEN Uncancelled ELSE owed
    /\ Main(IF main.after = "joined" THEN "join" ELSE main.after)
    /\ UNCHANGED <<link, queue, stop, started, eps, io, doomed, transferring, db, shutdown, polling,
                   control, extra, killed, mode, inotify_mutex, aux, packets, sending, swallowed>>

\* GADGETFS_SUSPEND waits for the transfer to end, a quarter of a second at most,
\* and then interrupts it again.
SuspendWait ==
    /\ main.pc = "wait"
    /\ Main("serve")
    /\ IF cancel_req = 0 THEN UNCHANGED <<kerr, missed>> ELSE Interrupt
    /\ UNCHANGED <<link, queue, started, eps, io, doomed, Flags, shutdown, polling, control, mode, aux,
                   packets, extra, owed, late, killed, stale, sending, swallowed>>

\* Mutant: the request is not cleared.
StatusKeepsCancel ==
    /\ Serve("status")
    /\ cancel_req # 2 \/ cancel_mutex = "free"
    /\ polling' = (cancel_req = 2)
    /\ cancel_req' = IF cancel_req = 2 THEN 1 ELSE cancel_req
    /\ Served("serve", "serve")
    /\ UNCHANGED <<link, kerr, queue, stop, started, eps, io, doomed, transferring, cancel_mutex, db,
                   shutdown, control, extra, owed, missed, killed, stale, NotMain>>

\* MTP_REQ_GET_DEVICE_STATUS: busy once after a cancel, then OK, which also drops
\* a request that no transfer will drop.
GetDeviceStatus ==
    /\ Serve("status")
    /\ cancel_req # 2 \/ cancel_mutex = "free"
    /\ polling' = (cancel_req = 2)
    /\ cancel_req' = IF cancel_req = 2 THEN 1 ELSE IF transferring THEN cancel_req ELSE 0
    /\ Served("serve", "serve")
    /\ UNCHANGED <<link, kerr, queue, stop, started, eps, io, doomed, transferring, cancel_mutex, db,
                   shutdown, control, extra, owed, missed, killed, stale, NotMain>>

\* The other control requests answer and change nothing.
OtherRequest ==
    /\ Serve("other")
    /\ Served("serve", "serve")
    /\ UNCHANGED <<link, kerr, queue, started, eps, io, doomed, Flags, shutdown, polling, control,
                   Marks, killed, mode, aux>>

\* pthread_join.
Join ==
    /\ main.pc = "join" /\ io.pc = "off"
    /\ started' = FALSE
    /\ doomed' = FALSE
    /\ Main(main.after)
    /\ UNCHANGED <<link, kerr, queue, eps, io, Flags, shutdown, polling, control, Marks, killed,
                   mode, aux>>

\* Mutant: the database is dropped without waiting for the thread.
DropUnjoined ==
    /\ main.pc \in {"join", "joined"} /\ inotify_mutex = "free"
    /\ stop' = FALSE
    /\ db' = FALSE
    /\ Main("serve")
    /\ UNCHANGED <<link, kerr, queue, started, eps, io, doomed, transferring, cancel_req, cancel_mutex,
                   shutdown, polling, control, extra, owed, missed, killed, stale, NotMain>>

\* FUNCTIONFS_DISABLE, its end: go on, and drop the database under the lock.
DropDb ==
    /\ main.pc = "joined" /\ inotify_mutex = "free"
    /\ stop' = FALSE
    /\ db' = FALSE
    /\ Main("serve")
    /\ UNCHANGED <<link, kerr, queue, started, eps, io, doomed, transferring, cancel_req, cancel_mutex,
                   shutdown, polling, control, extra, owed, missed, killed, stale, NotMain>>

\* deinit_usb_mtp_gadget: close everything, end the thread.  The host's transfers fail.
Deinit ==
    /\ main.pc = "deinit"
    /\ stop' = TRUE
    /\ eps' = "closed"
    /\ link' = (link /\ mode = "mtp_usb")
    /\ queue' = <<>>
    /\ doomed' = (started /\ io.pc # "off")
    /\ main' = [main EXCEPT !.pc = IF started THEN "join" ELSE "close", !.after = "close", !.batch = <<>>]
    /\ owed' = NoPacket
    /\ UNCHANGED <<kerr, started, io, transferring, cancel_req, cancel_mutex, db, shutdown, polling,
                   control, extra, missed, killed, stale, NotMain>>

\* main_thread: the database is dropped, without the lock, and the loop goes round.
CloseDb ==
    /\ main.pc = "close"
    /\ db' = FALSE
    /\ Main(IF LoopOnDisconnect /\ ~shutdown THEN "setup" ELSE "leave")
    /\ UNCHANGED <<link, kerr, queue, stop, started, eps, io, doomed, transferring, cancel_req,
                   cancel_mutex, shutdown, polling, control, extra, owed, missed, killed, stale, NotMain>>

\* mtp_deinit_responder waits for the other threads.
Leave ==
    /\ main.pc = "leave" /\ aux = "idle"
    /\ Main("exit")
    /\ UNCHANGED <<link, kerr, queue, started, eps, io, doomed, Flags, shutdown, polling, control,
                   Marks, killed, mode, aux>>

MainSteps ==
    \/ Setup \/ IoReturns \/ Select \/ ServedAll \/ Enable \/ Disable \/ Deconfigure
    \/ Cancel \/ CancelLock \/ Raise \/ SuspendWait \/ GetDeviceStatus \/ OtherRequest
    \/ Join \/ DropDb \/ Deinit \/ CloseDb \/ Leave

-----------------------------------------------------------------------------
(* The inotify and message queue threads: mtp_push_event.                  *)

NotAux == <<mode, link, kerr, queue, main, started, eps, io, doomed, stop, transferring, cancel_req,
            cancel_mutex, db, shutdown, polling, control, killed, packets, owed, late, missed, stale,
            sending, swallowed>>

\* Something happened on a storage, or a storage command came in.
AuxEvent ==
    /\ aux = "idle" /\ Extra /\ main.pc \notin {"leave", "exit"}
    /\ aux' = "lock"
    /\ UNCHANGED <<inotify_mutex, NotAux>>

\* The database is changed under the lock.  The inotify thread then pushes its
\* event without, the message queue thread with the lock.
AuxChange ==
    /\ aux = "lock" /\ inotify_mutex = "free"
    /\ IF cancel_req # 0 \/ stop \/ eps # "open" THEN aux' = "idle" /\ UNCHANGED inotify_mutex
       ELSE \/ aux' = "push" /\ UNCHANGED inotify_mutex
            \/ aux' = "push locked" /\ inotify_mutex' = "aux"
    /\ UNCHANGED <<extra, NotAux>>

\* The host takes the event, or the endpoint goes away.  In FunctionFS a push that
\* begins on a disabled endpoint waits for it; one the cable cuts fails.
Pushing == {"push", "push locked"}
Cut == IF aux = "push" THEN "cut" ELSE IF aux = "push locked" THEN "cut locked" ELSE aux
AuxDone ==
    /\ aux' = "idle"
    /\ inotify_mutex' = IF aux \in {"push locked", "cut locked"} THEN "free" ELSE inotify_mutex
    /\ UNCHANGED <<extra, NotAux>>
AuxTaken == aux \in Pushing /\ link /\ AuxDone
AuxFails ==
    /\ \/ aux \in {"cut", "cut locked"}
       \/ aux \in Pushing /\ (eps # "open" \/ main.pc = "leave" \/ (~link /\ mode # "ffs"))
    /\ AuxDone

-----------------------------------------------------------------------------
(* The host, the cable, and the signal that ends umtprd.                   *)

NotHost == <<mode, main, started, eps, io, doomed, Flags, packets, extra, late, missed, killed,
             swallowed>>

Control == control < MaxControl /\ Room(1) /\ control' = control + 1
Notify(event) == queue' = IF mode = "mtp_usb" THEN queue ELSE Append(queue, event)
\* The gadget shows on the bus from Setup to Deinit; the kernel's MTP function always.
Listening == \/ mode = "mtp_usb"
             \/ /\ main.pc \notin {"setup", "deinit", "close", "leave", "exit"}
                /\ ~(main.pc = "join" /\ main.after = "close")

\* The host has one control request under way at a time.
Answering == queue = <<>> /\ main.batch = <<>>

HostConnects ==
    /\ Control /\ ~link /\ Listening
    /\ link' = TRUE
    /\ Notify("enable")
    /\ polling' = FALSE /\ owed' = NoPacket /\ sending' = FALSE
    /\ stale' = (stale \/ polling \/ cancel_req # 0)
    /\ UNCHANGED <<kerr, aux, shutdown, NotHost>>

\* The calls in progress fail.
HostDisconnects ==
    /\ Control /\ link
    /\ link' = FALSE
    /\ kerr' = (kerr \/ io.pc \in InKernel)
    /\ aux' = Cut
    /\ Notify("disable")
    /\ polling' = FALSE /\ owed' = NoPacket /\ sending' = FALSE
    /\ stale' = (stale \/ polling)
    /\ UNCHANGED <<shutdown, NotHost>>

\* The host gives its transfer up.  The kernel's MTP function turns a cancel into one
\* failing call, whatever the call is for.
HostCancels ==
    /\ Control /\ link /\ ~polling /\ Answering
    /\ Notify("cancel")
    /\ polling' = (mode # "mtp_usb")
    /\ kerr' = (kerr \/ mode = "mtp_usb")
    /\ owed' = IF mode = "mtp_usb" THEN NoPacket ELSE Uncancelled
    /\ sending' = FALSE
    /\ UNCHANGED <<link, aux, shutdown, stale, NotHost>>

\* A host that has cancelled asks until the answer is OK.  One that takes the
\* configuration away waits for nothing more; one that suspends the bus may go on
\* with its data afterwards or not.
HostAsks(request) ==
    /\ Control /\ link /\ mode # "mtp_usb" /\ Answering
    /\ request = "status" => polling
    /\ request \in {"suspend", "deconfigure"} => mode = "gadgetfs"
    /\ Notify(request)
    /\ owed' = IF request = "deconfigure" THEN NoPacket ELSE owed
    /\ \E ends \in {{"deconfigure"}, {"suspend", "deconfigure"}} : sending' = (sending /\ request \notin ends)
    /\ UNCHANGED <<link, kerr, aux, polling, shutdown, stale, NotHost>>

\* SIGTERM: shutdown_requested is set by the main thread, whose call in the
\* kernel, if it is in one, is interrupted.  (At "select" it may still be ahead of
\* the call.)
Sigterm ==
    /\ ~shutdown /\ main.pc # "exit" /\ Extra
    /\ shutdown' = TRUE
    /\ IF main.pc = "io" /\ io.pc \in InKernel THEN kerr' = TRUE /\ owed' = NoPacket /\ UNCHANGED <<stop, main>>
       ELSE /\ UNCHANGED <<kerr, owed>>
            /\ \/ UNCHANGED <<stop, main>>
               \/ main.pc = "select" /\ ~stop /\ stop' = TRUE /\ Main("deinit")
    /\ UNCHANGED <<mode, link, queue, started, eps, io, doomed, transferring, cancel_req, cancel_mutex,
                   inotify_mutex, db, aux, polling, control, killed, packets, late, missed, stale, sending,
                   swallowed>>

Host ==
    \/ HostConnects \/ HostDisconnects \/ HostCancels
    \/ \E r \in {"status", "suspend", "deconfigure", "other"} : HostAsks(r)

Next == \/ IoSteps \/ IoHost \/ MainSteps \/ AuxEvent \/ AuxChange \/ AuxTaken \/ AuxFails
        \/ Host \/ Sigterm

\* Every thread runs when it can; the host and the cable owe nothing.
Spec == /\ Init /\ [][Next]_vars
        /\ WF_vars(IoSteps) /\ WF_vars(MainSteps) /\ WF_vars(AuxChange \/ AuxFails)

-----------------------------------------------------------------------------
\* Every variable has its type.
Events == {"enable", "disable", "cancel", "suspend", "status", "deconfigure", "other"}
IoPlaces == {"off", "top", "read", "dispatch", "lock", "held", "read dataset", "dataset", "zlp", "write",
             "entering", "writing", "load", "next", "settle", "settled", "more", "entering read",
             "read data", "received", "check", "unlock", "respond"}
MainPlaces == {"setup", "io", "select", "serve", "disable", "cancel", "raise", "wait", "join", "joined",
               "deinit", "close", "leave", "exit"}
IoTyped == io \in [pc : IoPlaces, op : Packets \cup {NoPacket}, left : 0..Blocks, answer : BOOLEAN,
                   then : {"top", "zlp", "next", "settled", "unlock", "respond"}]
MainTyped == main \in [pc : MainPlaces, batch : Seq(Events), timed : BOOLEAN,
                       after : {"serve", "wait", "joined", "close"}]
FlagsTyped ==
    /\ link \in BOOLEAN /\ kerr \in BOOLEAN /\ stop \in BOOLEAN /\ started \in BOOLEAN
    /\ doomed \in BOOLEAN /\ transferring \in BOOLEAN /\ db \in BOOLEAN /\ shutdown \in BOOLEAN
    /\ polling \in BOOLEAN /\ missed \in BOOLEAN /\ killed \in BOOLEAN /\ stale \in BOOLEAN
HostTyped == sending \in BOOLEAN /\ swallowed \in BOOLEAN
ValuesTyped ==
    /\ mode \in Modes /\ queue \in Seq(Events)
    /\ eps \in {"closed", "partly", "open"}
    /\ cancel_mutex \in {"free", "io", "ep0"} /\ inotify_mutex \in {"free", "io", "aux"}
    /\ aux \in {"idle", "lock", "push", "push locked", "cut", "cut locked"}
    /\ owed \in Packets \cup {NoPacket}
CountsTyped ==
    /\ cancel_req \in 0..2 /\ late \in Nat
    /\ packets \in 0..MaxPackets /\ control \in 0..MaxControl /\ extra \in 0..MaxExtra
TypeOK == IoTyped /\ MainTyped /\ FlagsTyped /\ HostTyped /\ ValuesTyped /\ CountsTyped

\* The io thread is inside the section an operation runs under inotify_mutex.
InSection ==
    /\ io.op.lock /\ io.pc \notin {"dispatch", "lock", "respond", "top"}
    /\ ~(io.pc \in {"write", "entering", "writing"} /\ io.then = "top")

\* Whatever an operation runs into (a refusal, a file that does not open, a cancel,
\* a dead endpoint), inotify_mutex is free again once it has answered, and so is
\* cancel_mutex; only pthread_cancel (GADGETFS_DISCONNECT, deinit_usb_mtp_gadget)
\* can leave one locked behind.
LocksReturned ==
    ~killed => /\ inotify_mutex = "io" => InSection
               /\ cancel_mutex = "io" => io.then = "settled" \/ io.pc = "settled"
               /\ aux = "idle" => inotify_mutex # "aux"

\* A host that keeps to the cancel handshake (CANCEL, then GET_DEVICE_STATUS until
\* OK) has taken the response to every command before the next packet is read, but
\* for the transfers it or a suspend has cancelled: no cancel, and no signal sent
\* for one, silences another operation.  Left out are the commands read while the
\* end of their connection waits to be served (Ending), and what the code does lose:
\* a command that an upload's read_usb takes for data after the host has cancelled,
\* suspended or been unplugged (swallowed: its SIGUSR1 came too early, or
\* SendObjectInfo got none); every command after a cancel_req left behind (stale): a
\* file could not be read in mid-transfer, a transfer ended while FUNCTIONFS_DISABLE
\* or a suspend was cancelling it, the connection ended in mid-handshake; and those of
\* a thread ended by pthread_cancel (killed).
OneResponse ==
    (io.pc = "read" /\ ~swallowed /\ ~stale /\ ~killed) => owed = NoPacket

\* After a cancel the host gets at most the one block that was already on its way
\* (send_file_data, write_usb).
CancelStops == late <= 1

\* The database is never freed under an operation: neither FUNCTIONFS_DISABLE nor
\* the main loop drops it while the io thread is working on a packet.
DropsIdleDb ==
    [][(db /\ ~db') => \/ io.pc \in {"off", "top", "read"}
                        \/ io.op.step = "close"]_vars

\* The io thread sits in a call that only the host or the cable can end.
LeftToHost == io.pc \in InKernel /\ ~kerr

\* A cancelled transfer ends although the host neither reads nor sends any more,
\* unless SIGUSR1 came before the thread was inside the call (MTP_REQ_CANCEL,
\* GADGETFS_SUSPEND, FUNCTIONFS_DISABLE).
CancelSettles ==
    (transferring /\ cancel_req # 0)
      ~> (~transferring \/ killed \/ stale \/ (missed /\ LeftToHost))

\* The control endpoint is not lost to a disconnection: the pthread_join in
\* FUNCTIONFS_DISABLE, GADGETFS_DISCONNECT and deinit_usb_mtp_gadget returns, unless
\* the io thread waits in the kernel for an endpoint that is down or a mutex
\* that a killed thread or a pushed event holds.
JoinReturns ==
    (main.pc = "join") ~> (main.pc # "join" \/ LeftToHost \/ killed \/ aux = "push locked")

\* "Received shutdown signal, initiating graceful shutdown" (shutdown_signal_handler):
\* after SIGTERM the process comes to its end.
ShutdownEnds == shutdown ~> (main.pc = "exit")
=============================================================================
