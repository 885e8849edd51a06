----------------------------- MODULE MtpHandles -----------------------------
(***************************************************************************)
(* umtprd's object handle database (fs_handles_db.c, hash_utils.c), the    *)
(* MTP operations that change it (mtp_operations/*.c, mtp.c), the thread   *)
(* that keeps it in step with the disk (inotify.c) and the thread that     *)
(* takes storage commands (msgqueue.c).                                    *)
(*                                                                         *)
(* Four actors interleave: the responder thread that runs MTP operations,  *)
(* the inotify thread, the message queue thread, and everybody else who    *)
(* creates and removes files.  inotify_mutex makes most sections of the    *)
(* first three atomic; the model splits an operation wherever the disk, or *)
(* code that does not take the mutex, can come in between.                 *)
(*                                                                         *)
(* A file is named by its path: <<store>> is the root of a storage,        *)
(* <<store, name>> an object of the root, <<store, folder, name>> one of a *)
(* folder.  A name in DirNames is always a folder, any other a file.       *)
(***************************************************************************)
EXTENDS Integers, Sequences, FiniteSets, SequencesExt

CONSTANTS
    Slots,          \* ctx->storages[]: storage slots, 1..Slots; a storage's id is its slot
    DirNames,       \* names that are folders
    Paths,          \* the objects that may exist on the storages
    InitialDisk,    \* the ones that exist at the start
    Hash(_),        \* hash_function_name: the bucket of a name
    MaxEntries,     \* bound: entries allocated in one session
    MaxPending,     \* bound: events waiting in the kernel's inotify queue
    MaxChanges,     \* bound: operations that change what is on the disk
    MaxStoreCmds,   \* bound: storage commands received
    MaxActs,        \* bound: both together
    MaxSessions     \* bound: sessions opened

Stores == 1..Slots
Names  == {Last(p) : p \in Paths}
Ghost  == "ghost"       \* the empty file name
RootName == "/"

ASSUME PathsAssumption ==
    /\ Slots \in Nat \ {0}
    /\ IsFiniteSet(Paths)
    /\ InitialDisk \subseteq Paths
    /\ \A p \in InitialDisk : Len(p) = 3 => Front(p) \in InitialDisk
    /\ Names \cap {Ghost, RootName} = {}     \* no file name is empty or has a slash
    /\ \A p \in Paths :
         /\ p[1] \in Stores
         /\ \/ p = <<p[1], p[2]>>
            \/ /\ p = <<p[1], p[2], p[3]>>
               /\ <<p[1], p[2]>> \in Paths /\ p[2] \in DirNames /\ p[3] \notin DirNames
ASSUME HashAssumption == \A n \in Names \cup {Ghost, RootName} : Hash(n) \in Nat
ASSUME BoundsAssumption ==
    {MaxEntries, MaxPending, MaxChanges, MaxStoreCmds, MaxActs, MaxSessions} \subseteq Nat

VARIABLES
    disk,       \* the objects that exist
    roots,      \* the storages whose root folder exists
    inode,      \* the folder last at each path: where and when it was made
    watches,    \* the kernel's inotify watches
    pending,    \* inotify events not yet read, oldest first
    open,       \* ctx->fs_db # NULL
    entries,    \* the fs_entry records in order of allocation
    stores,     \* ctx->storages[]: root_path set, and its flags
    op,         \* the responder thread's operation in progress
    ino,        \* the inotify thread: the event it works on, its kept entry pointer
    sendHandle, \* ctx->SendObjInfoHandle
    crashed,    \* "no", or the read through a bad pointer that ended the process
    \* What the bounds count, and what the properties remember:
    changes, storeCmds, sessions,
    announced,  \* the path the last SendObjectInfo answered OK was about
    blind,      \* folders changed while unwatched, since their last scan
    steady      \* storages whose root entry nobody took away since the session began

vars == <<disk, roots, inode, watches, pending, open, entries, stores, op, ino, sendHandle, crashed,
          changes, storeCmds, sessions, announced, blind, steady>>

NoPath == <<>>
Unplaced == <<"unplaced">>  \* answered OK, yet SendObjInfoHandle may name another object
NoWd   == <<>>          \* watch_descriptor = -1
LostWd == <<"lost">>    \* a descriptor the kernel has taken back
NoEntry == 0            \* a NULL fs_entry pointer
Dangling == -1          \* a pointer into a database that has been freed

Roots   == {<<s>> : s \in Stores}
Folders == Roots \cup {p \in Paths : Last(p) \in DirNames}

-----------------------------------------------------------------------------
(* The disk and the kernel's inotify queue.                                *)

ExistsIn(d, p) == IF Len(p) = 1 THEN p[1] \in roots ELSE p \in d
Exists(p) == ExistsIn(disk, p)
Under(p) == {c \in disk : Len(c) > Len(p) /\ IsPrefix(p, c)}

\* The order in which a tree is removed: what is in a folder before the folder.
Deepest(S) == SetToSeq({p \in S : Len(p) = 3}) \o SetToSeq({p \in S : Len(p) = 2})

\* The kernel's watch descriptor of the folder now at path p: one per inode.
Wd(p) == inode[p]

Event(p, mask) == [wd |-> Wd(Front(p)), mask |-> mask, name |-> Last(p)]

\* The events of touching the paths of S, for the folders watched.
Notified(S, mask) ==
    LET ps == Deepest({p \in S : Wd(Front(p)) \in watches})
    IN  [k \in DOMAIN ps |-> Event(ps[k], mask)]

\* inotify_rm_watch: no entry carries the descriptor any more, so what is still
\* queued for it will match nothing.
LostEvent == [wd |-> LostWd, mask |-> "none", name |-> Ghost]
Without(queue, wds) == [k \in DOMAIN queue |-> IF queue[k].wd \in wds THEN LostEvent ELSE queue[k]]

Blinded(S) == blind \cup {f \in {Front(p) : p \in S} : Wd(f) \notin watches}

-----------------------------------------------------------------------------
(* The database.                                                           *)

Live(es, i) == ~es[i].deleted
IsFolder(es, i) == i # NoEntry /\ es[i].dir
First(S) == CHOOSE i \in S : \A j \in S : i <= j
Newest(S) == IF S = {} THEN NoEntry ELSE CHOOSE i \in S : \A j \in S : j <= i

\* Mutant: a file of the same name in another folder is taken for this one.
FindInAnyFolder(es, name, parent, store) ==
    LET S == {i \in DOMAIN es : Live(es, i) /\ es[i].name = name /\ es[i].store = store}
    IN  IF S = {} THEN NoEntry ELSE First(S)

\* find_entry: the first live entry of that name in the name's hash bucket.  An entry
\* that was renamed has moved to the end of a bucket; one that bears a new name only
\* for a moment is still in the bucket of its old one.
find_entry(es, name, parent, store) ==
    LET S == {i \in DOMAIN es : /\ Live(es, i) /\ es[i].bucket = Hash(name) /\ es[i].name = name
                                /\ es[i].parent = parent /\ es[i].store = store}
        F == {i \in S : \A j \in S : es[i].moved <= es[j].moved}
    IN  IF S = {} THEN NoEntry ELSE First(F)

get_entry_by_handle(es, h) ==
    LET S == {i \in DOMAIN es : Live(es, i) /\ es[i].handle = h /\ stores[es[i].store].root}
    IN  IF S = {} THEN NoEntry ELSE First(S)

get_entry_by_handle_and_storageid(es, h, store) ==
    Newest({i \in DOMAIN es : Live(es, i) /\ es[i].handle = h /\ es[i].store = store})

\* From the kept pointer on, towards the older entries.
get_entry_by_wd(es, wd, from) ==
    Newest({i \in 1..from : Live(es, i) /\ es[i].wd = wd})

get_entry_by_storageid(es, store) == {i \in DOMAIN es : Live(es, i) /\ es[i].store = store}

children_of(es, parent, store) ==
    {i \in DOMAIN es : /\ Live(es, i) /\ es[i].parent = parent /\ es[i].store = store
                       /\ es[i].handle # es[i].parent}

\* Mutant: the handle of a deleted object is given out again.
FreeHandle(es) ==
    CHOOSE h \in 1..(Len(es) + 1) : \A i \in DOMAIN es : Live(es, i) => es[i].handle # h

\* db->next_handle: every entry but a root has taken one.
NextHandle(es) == 1 + Cardinality({i \in DOMAIN es : es[i].handle # 0})

NewEntry(handle, name, isdir, parent, store) ==
    [handle |-> handle, name |-> name, parent |-> parent, store |-> store,
     dir |-> isdir, deleted |-> FALSE, wd |-> NoWd, bucket |-> Hash(name), moved |-> 0, tried |-> FALSE]

alloc_entry(es, name, isdir, parent, store) ==
    Append(es, NewEntry(NextHandle(es), name, isdir, parent, store))

alloc_root_entry(es, store) == Append(es, NewEntry(0, RootName, TRUE, 0, store))

\* Mutant: the entry is not looked for first.
AddUnchecked(es, name, isdir, parent, store) == alloc_entry(es, name, isdir, parent, store)

add_entry(es, name, isdir, parent, store) ==
    IF find_entry(es, name, parent, store) # NoEntry THEN es
    ELSE alloc_entry(es, name, isdir, parent, store)

\* ENTRY_IS_DELETED, and the entry's watch is given up.
Discard(es, S) ==
    [i \in DOMAIN es |-> IF i \in S THEN [es[i] EXCEPT !.deleted = TRUE, !.wd = NoWd] ELSE es[i]]
WdsOf(es, S) == {es[i].wd : i \in S} \ {NoWd}

\* setObjectPropValue sets an entry's name, and links the entry into a bucket.
SetName(es, i, name, bucket, moved) ==
    [es EXCEPT ![i] = [@ EXCEPT !.name = name, !.bucket = bucket, !.moved = moved, !.tried = TRUE]]

\* build_full_path walks the parents that get_entry_by_handle still finds: below
\* a parent that is deleted the walk stops and the rest hangs off the root.
ParentOf(es, i) ==
    IF es[i].parent = 0 THEN NoEntry ELSE get_entry_by_handle(es, es[i].parent)
Named(es, p) == IF p = NoEntry THEN <<>> ELSE IF es[p].name = Ghost THEN <<>> ELSE <<es[p].name>>
Base(es, i) ==
    LET p == ParentOf(es, i)
    IN  IF p = NoEntry THEN <<es[i].store>>
        ELSE <<es[i].store>> \o Named(es, ParentOf(es, p)) \o Named(es, p)
build_full_path(es, i) ==
    IF es[i].name \in {Ghost, RootName} THEN Base(es, i) ELSE Append(Base(es, i), es[i].name)

\* Neither the object nor its folder exists: realpath() gave NULL twice and the
\* NULL is compared with the root path.
PathIsNull(es, i) == ~Exists(Base(es, i))

\* The names readdir finds are distinct: each is looked for in the database as it was
\* before, and those it lacks are added one after the other (add_entry).
AddFound(d, es, path, parent, store) ==
    LET found == {Last(c) : c \in {c \in d : Front(c) = path}}
        new == SetToSeq({n \in found : find_entry(es, n, parent, store) = NoEntry})
    IN  es \o [k \in DOMAIN new |-> NewEntry(NextHandle(es) + k - 1, new[k], new[k] \in DirNames,
                                             parent, store)]

\* Mutant: objects that are gone from the disk are not looked for.
ScanAddsOnly(d, es, path, parent, store) ==
    [null |-> FALSE, entries |-> AddFound(d, es, path, parent, store), wds |-> {}]

\* scan_and_add_folder: add what readdir finds, then stat every child and
\* discard those that are gone.
Scan(d, es, path, parent, store) ==
    LET added == AddFound(d, es, path, parent, store)
        kids  == children_of(added, parent, store)
        gone  == {i \in kids : ~ExistsIn(d, build_full_path(added, i))}
    IN  [null    |-> \E i \in kids : ~ExistsIn(d, Base(added, i)),
         entries |-> Discard(added, gone),
         wds     |-> WdsOf(added, gone)]

\* The process dies: what it would have done next no longer happens.
Crash(cause) ==
    /\ crashed' = cause
    /\ UNCHANGED <<disk, roots, inode, watches, pending, open, entries, stores, op, ino, sendHandle,
                   changes, storeCmds, sessions, announced, blind, steady>>

unwatch(wds) ==
    /\ watches' = watches \ wds
    /\ pending' = Without(pending, wds)

\* The ino thread's kept event cannot match a descriptor that was given up.
InoWithout(wds) == IF ino.ev.wd \in wds THEN [ino EXCEPT !.ev.wd = LostWd] ELSE ino

NoEvent == [wd |-> NoWd, mask |-> "none", name |-> Ghost]
InoIdle == [at |-> NoEntry, ev |-> NoEvent]
Idle    == [pc |-> "idle"]

\* inotify_mutex: held by the responder thread between the scan of a folder and
\* its watch; every other section under it is one step of the model.
MutexFree == op.pc # "watch"

-----------------------------------------------------------------------------
Init ==
    /\ disk = InitialDisk
    /\ roots = Stores
    /\ inode = [f \in Folders |-> <<f, 0>>]
    /\ watches = {}
    /\ pending = <<>>
    /\ open = FALSE
    /\ entries = <<>>
    /\ stores \in [Stores -> [root : {TRUE}, notmounted : BOOLEAN, locked : {FALSE}]]
    /\ op = Idle
    /\ ino = InoIdle
    /\ sendHandle = 0
    /\ crashed = "no"
    /\ changes = 0 /\ storeCmds = 0 /\ sessions = 0
    /\ announced = NoPath
    /\ blind = Folders
    /\ steady = {}

-----------------------------------------------------------------------------
(* The responder thread.                                                   *)

Alive == crashed = "no"
Ready == Alive /\ op.pc = "idle"

\* OpenSession creates the database, then takes the mutex once per storage to
\* allocate its root; the loop ends at the first empty slot.
OpenSession ==
    /\ Ready /\ ~open /\ sessions < MaxSessions
    /\ sessions' = sessions + 1
    /\ open' = TRUE
    /\ entries' = <<>>
    /\ op' = [pc |-> "opening", slot |-> 1]
    /\ steady' = {s \in Stores : \A t \in 1..s : stores[t].root}
    /\ UNCHANGED <<disk, roots, inode, watches, pending, stores, ino, sendHandle, crashed, changes,
                   storeCmds, announced, blind>>

OpenStore ==
    /\ Alive /\ op.pc = "opening"
    /\ IF op.slot \in Stores /\ stores[op.slot].root
       THEN /\ entries' = alloc_root_entry(entries, op.slot)
            /\ op' = [op EXCEPT !.slot = @ + 1]
       ELSE op' = Idle /\ UNCHANGED entries
    /\ UNCHANGED <<disk, roots, inode, watches, pending, open, stores, ino, sendHandle, crashed, changes,
                   storeCmds, sessions, announced, blind, steady>>

\* CloseSession frees the database without the mutex.  A pointer the inotify
\* thread keeps between two rounds of its loop now dangles.
CloseSession ==
    /\ Ready /\ open
    /\ open' = FALSE
    /\ entries' = <<>>
    /\ LET wds == WdsOf(entries, DOMAIN entries)
       IN  /\ unwatch(wds)
           /\ ino' = IF ino.at = NoEntry THEN ino ELSE [InoWithout(wds) EXCEPT !.at = Dangling]
    /\ announced' = NoPath
    /\ UNCHANGED <<disk, roots, inode, stores, op, sendHandle, crashed, changes, storeCmds, sessions,
                   blind, steady>>

\* GetObjectHandles, up to the scan: handle 0 lists the root of storage s.
ListScan(s, h) ==
    /\ Ready /\ open /\ stores[s].root
    /\ LET i == IF h = 0 THEN get_entry_by_handle_and_storageid(entries, 0, s)
                ELSE get_entry_by_handle(entries, h)
           path == IF h = 0 THEN <<s>> ELSE build_full_path(entries, i)
           scan == Scan(disk, entries, path, h, s)
       IN  /\ h # 0 => IsFolder(entries, i) /\ entries[i].name # Ghost
           /\ Len(scan.entries) <= MaxEntries
           /\ \/ scan.null /\ Crash("null path")
              \/ /\ ~scan.null
                 /\ entries' = scan.entries
                 /\ unwatch(scan.wds)
                 /\ ino' = InoWithout(scan.wds)
                 /\ blind' = blind \ (IF Exists(path) THEN {path} ELSE {})
                 /\ op' = IF Exists(path) THEN [pc |-> "watch", path |-> path, at |-> i] ELSE Idle
                 /\ UNCHANGED <<disk, roots, inode, open, stores, sendHandle, crashed, changes, storeCmds,
                                sessions, announced, steady>>

\* GetObjectHandles, after the scan: put a watch on the folder, send the list.
\* The folder may have gone since; the path string of a root may have been freed
\* by a storage command, and then names nothing or still names the folder.
ListWatch ==
    /\ Alive /\ op.pc = "watch"
    /\ op' = Idle
    /\ \/ /\ op.at = NoEntry
          /\ UNCHANGED <<entries, watches>>
       \/ /\ op.at # NoEntry
          /\ Exists(op.path)
          /\ entries' = [entries EXCEPT ![op.at].wd = Wd(op.path)]
          /\ watches' = watches \cup {Wd(op.path)}
       \/ /\ op.at # NoEntry
          /\ ~Exists(op.path) \/ ~stores[op.path[1]].root
          /\ entries' = [entries EXCEPT ![op.at].wd = NoWd]
          /\ UNCHANGED watches
    /\ UNCHANGED <<disk, roots, inode, pending, open, stores, ino, sendHandle, crashed, changes, storeCmds,
                   sessions, announced, blind, steady>>

MayChange == changes < MaxChanges /\ changes + storeCmds < MaxActs
Change == MayChange /\ changes' = changes + 1

\* Creating path p, or truncating it when it is already there.
Created(p) ==
    /\ Change
    /\ Len(pending) < MaxPending
    /\ disk' = disk \cup {p}
    /\ inode' = IF p \in Folders /\ p \notin disk THEN [inode EXCEPT ![p] = <<p, changes'>>] ELSE inode
    /\ pending' = pending \o Notified({p}, IF p \in disk THEN "modify" ELSE "create")
    /\ blind' = IF p \in disk THEN blind ELSE Blinded({p}) \cup ({p} \cap Folders)
    /\ UNCHANGED roots

\* SendObjectInfo and its dataset.  The answer is OK even when the parent is not
\* there, or no folder: then nothing is created and SendObjInfoHandle stays.
SendInfoUnplaced(s, parent, name) ==
    /\ Ready /\ open /\ stores[s].root
    /\ ~IsFolder(entries, get_entry_by_handle_and_storageid(entries, parent, s))
    /\ announced' = IF name \in DirNames THEN NoPath ELSE Unplaced
    /\ UNCHANGED <<disk, roots, inode, watches, pending, open, entries, stores, op, ino, sendHandle, crashed,
                   changes, storeCmds, sessions, blind, steady>>

\* mkdir and a handle for the folder; denied when it exists or its parent is gone.
SendFolderInfo(s, parent, name) ==
    /\ Ready /\ open /\ stores[s].root /\ name \in DirNames
    /\ announced' = NoPath
    /\ LET i == get_entry_by_handle_and_storageid(entries, parent, s)
           p == Append(build_full_path(entries, i), name)
           new == add_entry(entries, name, TRUE, parent, s)
       IN  /\ IsFolder(entries, i) /\ p \in Paths
           /\ IF p \in disk \/ ~Exists(Front(p))
              THEN UNCHANGED <<disk, roots, inode, pending, blind, entries, changes>>
              ELSE /\ Len(new) <= MaxEntries
                   /\ Created(p)
                   /\ entries' = new
    /\ UNCHANGED <<watches, open, stores, op, ino, sendHandle, crashed, storeCmds, sessions, steady>>

\* The file is created empty, or emptied, and becomes the one SendObject writes.
SendFileInfo(s, parent, name) ==
    /\ Ready /\ open /\ stores[s].root /\ name \notin DirNames
    /\ LET i == get_entry_by_handle_and_storageid(entries, parent, s)
           p == Append(build_full_path(entries, i), name)
           new == add_entry(entries, name, FALSE, parent, s)
       IN  /\ IsFolder(entries, i) /\ entries[i].name # Ghost /\ p \in Paths
           /\ IF ~Exists(Front(p))
              THEN /\ announced' = NoPath
                   /\ UNCHANGED <<disk, roots, inode, pending, blind, entries, sendHandle, changes>>
              ELSE /\ Len(new) <= MaxEntries
                   /\ Created(p)
                   /\ entries' = new
                   /\ announced' = p
                   /\ sendHandle' = new[find_entry(new, name, parent, s)].handle
    /\ UNCHANGED <<watches, open, stores, op, ino, crashed, storeCmds, sessions, steady>>

\* SendObject's data phase, from a host that only sends what was answered OK:
\* the file of SendObjInfoHandle is opened, created if missing, and overwritten.
SendObject ==
    /\ Ready /\ open /\ announced # NoPath
    /\ LET i == get_entry_by_handle(entries, sendHandle)
           p == build_full_path(entries, i)
       IN  /\ i # NoEntry
           /\ ~stores[entries[i].store].locked
           /\ \/ PathIsNull(entries, i) /\ Crash("null path")
              \/ /\ ~PathIsNull(entries, i)
                 /\ p \in Paths \ Folders                   \* else open fails: a folder
                 /\ Created(p)
                 /\ announced' = NoPath
                 /\ UNCHANGED <<watches, open, entries, stores, op, ino, sendHandle, crashed,
                                storeCmds, sessions, steady>>

\* A later operation may have made SendObjInfoHandle another object's.
Overtaken == IF announced = NoPath THEN NoPath ELSE Unplaced

\* SendPartialObject's command: the handle is kept before it is looked up, and the
\* data follow unless it means nothing.
SendPartialObject(h) ==
    /\ Ready /\ open
    /\ sendHandle' = h
    /\ announced' = Overtaken
    /\ LET i == get_entry_by_handle(entries, h)
       IN  op' = IF i # NoEntry /\ ~stores[entries[i].store].locked THEN [pc |-> "partial"] ELSE Idle
    /\ UNCHANGED <<disk, roots, inode, watches, pending, open, entries, stores, ino, crashed, changes,
                   storeCmds, sessions, blind, steady>>

\* Its data: a file that exists is written to, nothing is created.
SendPartialData ==
    /\ Alive /\ op.pc = "partial"
    /\ LET i == get_entry_by_handle(entries, sendHandle)
           p == build_full_path(entries, i)
           granted == i # NoEntry /\ ~stores[entries[i].store].locked
       IN  \/ granted /\ PathIsNull(entries, i) /\ Crash("null path")
           \/ /\ granted => ~PathIsNull(entries, i)
              /\ op' = Idle
              /\ IF granted /\ p \in disk \ Folders THEN Created(p)
                 ELSE UNCHANGED <<disk, roots, inode, pending, blind, changes>>
              /\ UNCHANGED <<watches, open, entries, stores, ino, sendHandle, crashed, storeCmds,
                             sessions, announced, steady>>

\* DeleteObject: delete_tree, of the first storage's root too (handle 0).  A folder is
\* removed file by file; when something of it or the folder itself, say a mount point,
\* cannot be removed the rest is scanned again.
DeleteObject(h) ==
    /\ Ready /\ open
    /\ LET i == get_entry_by_handle(entries, h)
           p == build_full_path(entries, i)
           Removed(S, dead, es) ==
               /\ Change
               /\ Len(pending) + Cardinality(S) <= MaxPending
               /\ disk' = disk \ S
               /\ roots' = {s \in roots : <<s>> \notin S}
               /\ LET wds == dead \cup {Wd(q) : q \in S \cap Folders}
                  IN  /\ watches' = watches \ wds
                      /\ pending' = Without(pending \o Notified(S \cap Paths, "delete"), dead)
                      /\ ino' = InoWithout(dead)
               /\ entries' = es
               /\ blind' = Blinded(S \cap Paths)
               /\ steady' = {s \in steady : <<s>> \notin S}
               /\ UNCHANGED <<inode, open, stores, op, sendHandle, crashed, storeCmds, sessions,
                              announced>>
       IN  /\ i # NoEntry
           /\ ~stores[entries[i].store].locked
           /\ \/ PathIsNull(entries, i) /\ Crash("null path")
              \/ /\ ~PathIsNull(entries, i) /\ Exists(p)
                 /\ entries[i].dir \/ Under(p) = {}
                 /\ Removed(Under(p) \cup {p}, WdsOf(entries, {i}), Discard(entries, {i}))
              \/ /\ ~PathIsNull(entries, i) /\ entries[i].dir
                 /\ \E gone \in SUBSET Under(p) :
                      /\ \A q \in gone : Under(q) \subseteq gone
                      /\ LET scan == Scan(disk \ gone, entries, p, h, entries[i].store)
                         IN  /\ Len(scan.entries) <= MaxEntries
                             /\ \/ scan.null /\ Crash("null path")
                                \/ ~scan.null /\ Removed(gone, scan.wds, scan.entries)

\* setObjectPropValue, file name, all of it without the mutex.  The path of the object
\* is built, then its entry is given the new name, of the same kind ...
RenameFile(h, name) ==
    /\ Ready /\ open
    /\ LET i == get_entry_by_handle(entries, h)
       IN  /\ i # NoEntry /\ (name \in DirNames <=> entries[i].dir)
           /\ ~stores[entries[i].store].locked
           /\ \/ PathIsNull(entries, i) /\ Crash("null path")
              \/ /\ ~PathIsNull(entries, i)
                 /\ Change
                 /\ entries' = SetName(entries, i, name, entries[i].bucket, entries[i].moved)
                 /\ op' = [pc |-> "naming", at |-> i, name |-> name, old |-> entries[i].name,
                           from |-> build_full_path(entries, i)]
                 /\ announced' = Overtaken
                 /\ steady' = steady \ (IF h = 0 THEN {entries[i].store} ELSE {})
                 /\ UNCHANGED <<disk, roots, inode, watches, pending, open, stores, ino, sendHandle,
                                crashed, storeCmds, sessions, blind>>

\* ... to build its new path, and the old name again ...
RenameRestore ==
    /\ Alive /\ op.pc = "naming"
    /\ \/ PathIsNull(entries, op.at) /\ Crash("null path")
       \/ /\ ~PathIsNull(entries, op.at)
          /\ entries' = SetName(entries, op.at, op.old, entries[op.at].bucket, entries[op.at].moved)
          /\ op' = [pc |-> "renaming", at |-> op.at, name |-> op.name, from |-> op.from,
                    to |-> build_full_path(entries, op.at)]
          /\ UNCHANGED <<disk, roots, inode, watches, pending, open, stores, ino, sendHandle, crashed,
                         changes, storeCmds, sessions, announced, blind, steady>>

\* ... rename() moves the object with all it holds, over a file or an empty folder; the
\* folder stays the one it was, with its watch ...
RenameOnDisk ==
    /\ Alive /\ op.pc = "renaming"
    /\ op.from \in disk /\ op.to \in Paths /\ Exists(Front(op.to))
    /\ op.from \in Folders <=> op.to \in Folders
    /\ op' = [pc |-> "renamed", at |-> op.at, name |-> op.name]
    /\ LET S == {op.from} \cup Under(op.from)
           Moved(c) == op.to \o SubSeq(c, Len(op.from) + 1, Len(c))
           unseen == Blinded({op.from, op.to})
       IN  IF op.to = op.from THEN UNCHANGED <<disk, inode, watches, pending, blind>>
           ELSE /\ Under(op.to) = {}
                /\ {Moved(c) : c \in S} \subseteq Paths
                /\ Len(pending) + 2 <= MaxPending
                /\ disk' = (disk \ S) \cup {Moved(c) : c \in S}
                /\ inode' = IF op.to \in Folders THEN [inode EXCEPT ![op.to] = Wd(op.from)] ELSE inode
                /\ watches' = watches \ {Wd(q) : q \in {op.to} \cap disk \cap Folders}
                /\ pending' = pending \o Notified({op.from}, "delete") \o Notified({op.to}, "create")
                /\ blind' = (unseen \ {op.to}) \cup (IF op.from \in unseen THEN {op.to} \cap Folders ELSE {})
    /\ UNCHANGED <<roots, open, entries, stores, ino, sendHandle, crashed, changes, storeCmds,
                   sessions, announced, steady>>

\* ... or fails, as it always does for a root ...
RenameFails ==
    /\ Alive /\ op.pc = "renaming"
    /\ op' = Idle
    /\ UNCHANGED <<disk, roots, inode, watches, pending, open, entries, stores, ino, sendHandle, crashed,
                   changes, storeCmds, sessions, announced, blind, steady>>

\* ... and the entry moves to the end of the bucket of its new name.
RenameEntry ==
    /\ Alive /\ op.pc = "renamed"
    /\ entries' = SetName(entries, op.at, op.name, Hash(op.name), changes)
    /\ op' = Idle
    /\ UNCHANGED <<disk, roots, inode, watches, pending, open, stores, ino, sendHandle, crashed, changes,
                   storeCmds, sessions, announced, blind, steady>>

\* The handles the host was given.
Given == {entries[i].handle : i \in DOMAIN entries}

\* Bound: the operations that change the disk, or say which object will be changed, are
\* called only while it may still be changed.
Responder ==
    \/ OpenSession \/ OpenStore \/ CloseSession
    \/ \E s \in Stores, h \in 0..MaxEntries : ListScan(s, h)
    \/ ListWatch
    \/ /\ MayChange
       /\ \/ \E s \in Stores, h \in 0..MaxEntries, n \in Names :
               SendInfoUnplaced(s, h, n) \/ SendFolderInfo(s, h, n) \/ SendFileInfo(s, h, n)
          \/ SendObject
          \/ \E h \in Given : SendPartialObject(h) \/ DeleteObject(h) \/ \E n \in Names : RenameFile(h, n)
    \/ SendPartialData
    \/ RenameRestore \/ RenameOnDisk \/ RenameFails \/ RenameEntry

-----------------------------------------------------------------------------
(* The inotify thread: one event, applied to every folder entry that carries *)
(* its watch descriptor, one each time the mutex is taken.                 *)

\* get_file_info of a created object: one that is gone again has no name, and
\* whether it is a folder is what the last event left in fileinfo.
on_create(i, name) ==
    LET found == Exists(Append(build_full_path(entries, i), name))
    IN  \E isdir \in BOOLEAN :
          /\ found => isdir = (name \in DirNames)
          /\ entries' = add_entry(entries, IF found THEN name ELSE Ghost, isdir,
                                  entries[i].handle, entries[i].store)
          /\ Len(entries') <= MaxEntries

DeletedBy(i, name) == {find_entry(entries, name, entries[i].handle, entries[i].store)} \ {NoEntry}

\* One round of the thread's loop for event ev; queue is what then waits.
InotifyRound(ev, from, queue) ==
    LET i == get_entry_by_wd(entries, ev.wd, from)
        D == IF i # NoEntry /\ ev.mask = "delete" THEN DeletedBy(i, ev.name) ELSE {}
        wds == WdsOf(entries, D)
    IN  \/ i # NoEntry /\ PathIsNull(entries, i) /\ Crash("null path")
        \/ /\ i # NoEntry => ~PathIsNull(entries, i)
           /\ IF i # NoEntry /\ ev.mask = "create" THEN on_create(i, ev.name)
              ELSE entries' = Discard(entries, D)
           /\ watches' = watches \ wds
           /\ pending' = Without(queue, wds)
           /\ ino' = IF i <= 1 THEN InoIdle     \* no match, or entry->next is NULL
                     ELSE [at |-> i - 1, ev |-> ev]
           /\ UNCHANGED <<disk, roots, inode, open, stores, op, sendHandle, crashed, changes, storeCmds,
                          sessions, announced, blind, steady>>

InotifyEvent ==
    /\ Alive /\ MutexFree /\ ino.at = NoEntry /\ pending # <<>>
    /\ InotifyRound(Head(pending), Len(entries), Tail(pending))

InotifyNext ==
    /\ Alive /\ MutexFree /\ ino.at > 0
    /\ InotifyRound(ino.ev, ino.at, pending)

\* The kept pointer leads into freed memory: the walk finds nothing, or faults.
InotifyDangling ==
    /\ Alive /\ MutexFree /\ ino.at = Dangling
    /\ \/ Crash("freed entry")
       \/ /\ ino' = InoIdle
          /\ UNCHANGED <<disk, roots, inode, watches, pending, open, entries, stores, op, sendHandle, crashed,
                         changes, storeCmds, sessions, announced, blind, steady>>

-----------------------------------------------------------------------------
(* The message queue thread.                                               *)

Command ==
    /\ Alive /\ storeCmds < MaxStoreCmds /\ changes + storeCmds < MaxActs
    /\ storeCmds' = storeCmds + 1

\* Mutant: the flag is read the wrong way round.
MountIfMounted(s) ==
    entries' = IF open /\ ~stores[s].notmounted THEN alloc_root_entry(entries, s) ELSE entries

mount_store(s) ==
    entries' = IF open /\ stores[s].notmounted THEN alloc_root_entry(entries, s) ELSE entries

umount_store(s) ==
    LET S == get_entry_by_storageid(entries, s)
        wds == WdsOf(entries, S)
    IN  /\ entries' = Discard(entries, S)
        /\ unwatch(wds)
        /\ ino' = InoWithout(wds)

MountCmd(s) ==
    /\ Command /\ MutexFree /\ stores[s].root /\ Len(entries) < MaxEntries
    /\ mount_store(s)
    /\ stores' = [stores EXCEPT ![s].notmounted = FALSE]
    /\ UNCHANGED <<disk, roots, inode, watches, pending, open, op, ino, sendHandle, crashed, changes,
                   sessions, announced, blind, steady>>

UnmountCmd(s) ==
    /\ Command /\ MutexFree /\ stores[s].root
    /\ umount_store(s)
    /\ stores' = [stores EXCEPT ![s].notmounted = TRUE]
    /\ UNCHANGED <<disk, roots, inode, open, op, sendHandle, crashed, changes, sessions, announced, blind,
                   steady>>

LockCmd(s) ==
    /\ Command /\ MutexFree /\ stores[s].root /\ ~stores[s].locked
    /\ umount_store(s)
    /\ stores' = [stores EXCEPT ![s].locked = TRUE]
    /\ steady' = steady \ {s}
    /\ UNCHANGED <<disk, roots, inode, open, op, sendHandle, crashed, changes, sessions, announced, blind>>

UnlockCmd(s) ==
    /\ Command /\ MutexFree /\ stores[s].root /\ stores[s].locked /\ Len(entries) < MaxEntries
    /\ mount_store(s)
    /\ stores' = [stores EXCEPT ![s].locked = FALSE]
    /\ UNCHANGED <<disk, roots, inode, watches, pending, open, op, ino, sendHandle, crashed, changes,
                   sessions, announced, blind, steady>>

\* addstorage and rmstorage take no mutex and leave the database alone: the
\* entries of a removed storage come back to life when its slot is filled again.
AddStorageCmd(s) ==
    /\ Command
    /\ ~stores[s].root /\ \A t \in 1..(s - 1) : stores[t].root      \* the first free slot
    /\ \E f \in BOOLEAN : stores' = [stores EXCEPT ![s] = [root |-> TRUE, notmounted |-> f, locked |-> FALSE]]
    /\ UNCHANGED <<disk, roots, inode, watches, pending, open, entries, op, ino, sendHandle, crashed,
                   changes, sessions, announced, blind, steady>>

RemoveStorageCmd(s) ==
    /\ Command /\ stores[s].root
    /\ stores' = [stores EXCEPT ![s] = [root |-> FALSE, notmounted |-> FALSE, locked |-> FALSE]]
    /\ steady' = {t \in steady : t < s}
    /\ UNCHANGED <<disk, roots, inode, watches, pending, open, entries, op, ino, sendHandle, crashed,
                   changes, sessions, announced, blind>>

MessageQueue ==
    \E s \in Stores : \/ MountCmd(s) \/ UnmountCmd(s) \/ LockCmd(s) \/ UnlockCmd(s)
                      \/ AddStorageCmd(s) \/ RemoveStorageCmd(s)

-----------------------------------------------------------------------------
(* Everybody else who uses the storages: no lock of umtprd holds them off. *)

OtherCreates(p) ==
    /\ Alive /\ (p \in disk => p \notin Folders)
    /\ Exists(Front(p))
    /\ Created(p)
    /\ UNCHANGED <<watches, open, entries, stores, op, ino, sendHandle, crashed, storeCmds,
                   sessions, announced, steady>>

OtherRemoves(p) ==
    /\ Alive /\ p \in disk /\ Under(p) = {}
    /\ Change
    /\ Len(pending) < MaxPending
    /\ disk' = disk \ {p}
    /\ pending' = pending \o Notified({p}, "delete")
    /\ watches' = watches \ (IF p \in Folders THEN {Wd(p)} ELSE {})
    /\ blind' = Blinded({p})
    /\ UNCHANGED <<roots, inode, open, entries, stores, op, ino, sendHandle, crashed, storeCmds,
                   sessions, announced, steady>>

Next ==
    \/ Responder
    \/ InotifyEvent \/ InotifyNext \/ InotifyDangling
    \/ MessageQueue
    \/ \E p \in Paths : OtherCreates(p) \/ OtherRemoves(p)

Spec == Init /\ [][Next]_vars

-----------------------------------------------------------------------------
Entry == [handle : Nat, name : Names \cup {Ghost, RootName}, parent : Nat, store : Stores,
          dir : BOOLEAN, deleted : BOOLEAN, wd : {NoWd} \cup (Folders \X Nat), bucket : Nat,
          moved : Nat, tried : BOOLEAN]

\* Every variable has its type, a database that was freed (CloseSession) holds no
\* entries, an entry of a folder has the name of a folder or none (fs_entry flags), and
\* what is watched is a folder (inotify_handler_addwatch).
TypeOK ==
    /\ disk \subseteq Paths /\ roots \subseteq Stores /\ blind \subseteq Folders /\ steady \subseteq Stores
    /\ inode \in [Folders -> Folders \X Nat] /\ watches \subseteq Folders \X Nat
    /\ open \in BOOLEAN /\ (~open => entries = <<>>)
    /\ entries \in Seq(Entry)
    /\ \A i \in DOMAIN entries : entries[i].dir => entries[i].name \in DirNames \cup {Ghost, RootName}
    /\ stores \in [Stores -> [root : BOOLEAN, notmounted : BOOLEAN, locked : BOOLEAN]]
    /\ op.pc \in {"idle", "opening", "watch", "partial", "naming", "renaming", "renamed"}
    /\ op.pc = "watch" => op.path \in Folders
    /\ ino.at \in Int /\ Dangling <= ino.at /\ ino.at <= Len(entries)
    /\ sendHandle \in Nat /\ changes \in Nat
    /\ crashed \in {"no", "null path", "freed entry"}

\* No event waits, the inotify thread is at its read() and the responder at its own.
Quiet == Alive /\ op.pc = "idle" /\ pending = <<>> /\ ino.at = NoEntry

\* The host is shown what is on the disk: once the inotify thread has caught up, the
\* live entries under a watched folder are exactly the objects in it, whatever the
\* host's operations, other programs and storage commands did in between
\* (scan_and_add_folder, inotify_thread, delete_tree).  It does not hold of a folder
\* that changed between its scan and its watch (blind); of one that the host tried to
\* rename, or something in it, with or without success: an event handled while the
\* entry bears the new name misses it (setObjectPropValue); of one the host lists under
\* the id of another storage (its children are looked for there, the watch is its own),
\* so it is a property of one storage; and it holds up to the nameless entry left by a
\* file that was gone before its event was read.
InSync ==
    Quiet =>
      \A i \in DOMAIN entries :
        LET path == build_full_path(entries, i)
            kids == children_of(entries, entries[i].handle, entries[i].store)
        IN  ( /\ Live(entries, i) /\ entries[i].wd \in watches /\ path \notin blind
              /\ \A k \in DOMAIN entries :
                   k = i \/ ( /\ entries[k].parent = entries[i].handle
                            /\ entries[k].store = entries[i].store ) => ~entries[k].tried )
            => {entries[k].name : k \in kids} \ {Ghost} = {Last(c) : c \in {c \in disk : Front(c) = path}}

\* An object has one handle: two live entries never stand for the same name in the
\* same folder, although three threads add entries (add_entry, search_entry).  Only
\* setObjectPropValue can break this, of the entry it is called for: by a rename over an
\* existing file, or when the inotify thread looks for the old name, which the rename
\* may keep after all, while the entry bears the new one.
NoDuplicate ==
    \A i, j \in DOMAIN entries :
      ( /\ i # j /\ Live(entries, i) /\ Live(entries, j)
        /\ entries[i].handle # 0 /\ entries[j].handle # 0
        /\ ~entries[i].tried /\ ~entries[j].tried )
      => <<entries[i].name, entries[i].parent, entries[i].store>>
           # <<entries[j].name, entries[j].parent, entries[j].store>>

\* A handle is never given out twice in a session, so a handle the host still holds
\* after the object was deleted cannot mean another one (alloc_entry).
HandleUnique ==
    \A i, j \in DOMAIN entries :
      (i # j /\ entries[i].handle # 0) => entries[i].handle # entries[j].handle

\* Folder k is in the root of its storage, or never was anything on its path renamed.
Unmoved(es, k) ==
    \/ es[k].parent = 0
    \/ \A q \in DOMAIN es : (q = k \/ es[q].handle = es[k].parent) => ~es[q].tried

\* The data of SendObject goes into the file the preceding SendObjectInfo created:
\* SendObjInfoHandle either no longer resolves or resolves to the announced path,
\* as long as the folder it was created in has not been deleted meanwhile, and the host
\* has neither renamed anything nor called SendPartialObject, which takes the handle over.
\* A folder renamed while the one it is in was out of sight (its storage removed, to be
\* added again) does not count: build_full_path left that one out of the announced path.
WrittenAsAnnounced ==
    LET i == get_entry_by_handle(entries, sendHandle)
        k == get_entry_by_handle(entries, entries[i].parent)
    IN  (open /\ announced \in Paths /\ i # NoEntry
         /\ (entries[i].parent # 0 => k # NoEntry /\ Unmoved(entries, k)))
        => build_full_path(entries, i) = announced

\* A mounted storage can be listed and watched: through every sequence of mount and
\* unmount commands, deletions, events and sessions it has a live root entry
\* (mount_store, OpenSession).  Not so once it was locked or its slot emptied, for
\* unlocking never restores the root; nor once the host has deleted the root folder
\* (DeleteObject takes handle 0) or tried to rename it.
RootPresent ==
    (open /\ op.pc # "opening") =>
      \A s \in steady : ~stores[s].notmounted
         => get_entry_by_handle_and_storageid(entries, 0, s) # NoEntry
=============================================================================
