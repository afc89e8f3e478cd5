----------------------------- MODULE FileSystem -----------------------------
(***************************************************************************)
(* The file system that the interpreter offers to programs under test:     *)
(* open, creat, close, link, unlink, rename, truncate, read, pread, write, *)
(* pwrite, lseek, fsync, sync and the persistency barrier, as they are     *)
(* executed by Interpreter::call...FS in Execution.cpp.                    *)
(*                                                                         *)
(* The file system is a structure in the checked program's memory: a       *)
(* directory inode that maps names to inodes, inodes (lock, size, size on  *)
(* disk, transaction flag, data) and file descriptions (inode, flags,      *)
(* position lock, offset, count).  A call is a sequence of events on that  *)
(* structure, so calls of two threads interleave event by event; a thread  *)
(* that finds a lock taken is rolled back to the start of the call and     *)
(* waits, which is here the guard of the locking step.  A thread that      *)
(* reads a transaction flag that is up is blocked for the rest of the      *)
(* execution (BlockageType::Cons); the exploration visits the executions   *)
(* in which it reads the flag down as executions of their own.             *)
(*                                                                         *)
(* Every write to a directory entry, a transaction flag, a byte, a size in *)
(* memory, a size on disk or a lock of a file that already has a name is a *)
(* step of its own.  What is merged into one step: the loads of a call     *)
(* with the write or the lock that follows them; the creation of an inode  *)
(* with the entry that names it, and of a file description, which nobody   *)
(* else reaches before; the offset of a description with the unlock that   *)
(* follows, both under the position lock; the unlock of the directory with *)
(* the change before it; an fsync with the write before it.                *)
(***************************************************************************)
EXTENDS Integers, Sequences, FiniteSets, FiniteSetsExt

CONSTANTS Threads,      \* threads of the program under test
          Names,        \* file names the program uses
          Inodes,       \* inode numbers, 1 is the file "f" made by main
          BlockSize,    \* FsInfo::blockSize
          MaxFileSize,  \* FsInfo::maxFileSize
          LockFailed,   \* what executeWriteFS returns for a failed lock: 42
          Modes,        \* mount options: [journal, delalloc, stop]
          Programs      \* the programs: the calls of each thread

Free == "free"
Fresh == -1                       \* a byte of a new inode nobody has written
Offsets == 0 .. MaxFileSize - 1

(* The calls of the interface with their arguments.                        *)
CallType ==
         [op : {"open"}, name : Names, acc : 0 .. 3, flags : SUBSET STRING]
    \cup [op : {"creat", "unlink"}, name : Names]
    \cup [op : {"link", "rename"}, name : Names, to : Names]
    \cup [op : {"truncate"}, name : Names, len : Int]
    \cup [op : {"close", "fsync"}, fd : Nat]
    \cup [op : {"read"}, fd : Nat, count : Nat]
    \cup [op : {"pread"}, fd : Nat, count : Nat, off : Int]
    \cup [op : {"write"}, fd : Nat, bytes : Seq(Nat)]
    \cup [op : {"pwrite"}, fd : Nat, bytes : Seq(Nat), off : Int]
    \cup [op : {"lseek"}, fd : Nat, off : Int, whence : STRING]
    \cup [op : {"sync", "barrier"}]

ASSUME FSAssumption == /\ BlockSize \in Nat \ {0}
                       /\ MaxFileSize \in Nat \ {0}
                       /\ LockFailed \in Nat
                       /\ 1 \in Inodes /\ Inodes \subseteq Nat \ {0}
                       /\ Free \notin Threads
                       /\ Programs \subseteq [Threads -> Seq(CallType)]

VARIABLES mode,     \* the options of this mount, fixed
          dir,      \* directory inode's data: name -> inode or 0
          dirLock,  \* directory inode's lock, 0 or the holder
          dirTrans, \* directory inode's i_transaction
          inode,    \* inode number -> [made, lock, isize, dsize, trans, data]
          file,     \* descriptor -> file description (fdToFile and its target)
          th,       \* thread -> its call in progress and what it has returned
          errno,    \* the checked program's errno
          error,    \* the error reported by the driver, or "none"
          want,     \* history: contents POSIX prescribes for each inode
          moved,    \* history: bytes each description has moved over
          ver,      \* history: blocks and truncations each inode has seen
          synced,   \* history: ver at the last fsync of the inode
          mdwrite   \* history: the last update of a size on disk

vars == <<mode, dir, dirLock, dirTrans, inode, file, th, errno, error,
          want, moved, ver, synced, mdwrite>>
history == <<want, moved, ver, synced, mdwrite>>

-----------------------------------------------------------------------------
(* Flags.  The access mode is kept apart from the other flags.             *)
FMode(acc) == (acc + 1) % 4
Readable(acc) == FMode(acc) \in {1, 3}
Writable(acc) == FMode(acc) \in {2, 3}
checkOpenFlagsFS(flags) == flags \subseteq {"CREAT", "TRUNC", "APPEND", "SYNC", "DSYNC"}

getFreshFd == Min({n \in 0 .. Cardinality(DOMAIN file) : n \notin DOMAIN file})

handleDskOpen == getFreshFd

-----------------------------------------------------------------------------
(* Calls and threads.                                                      *)
Call(t) == Head(th[t].todo)
At(t, pc) == error = "none" /\ th[t].pc = pc
Calls(t, ops) == At(t, "call") /\ th[t].todo # <<>> /\ Call(t).op \in ops
Merge(new, old) == [x \in DOMAIN new \cup DOMAIN old |->
                      IF x \in DOMAIN new THEN new[x] ELSE old[x]]
Set(t, fields) == th' = [th EXCEPT ![t] = Merge(fields, @)]

Returned(t, v) == [pc |-> "call", todo |-> Tail(th[t].todo),
                   rets |-> Append(th[t].rets, v)]
Return(t, v) == Set(t, Returned(t, v))

\* Descriptor the call names: 0 is the one main opened, 1 the thread's own.
Fd(t) == IF Call(t).fd = 1 /\ th[t].fd # 0 THEN th[t].fd ELSE Call(t).fd
HasFile(t) == Fd(t) \in DOMAIN file
Desc(t) == file[Fd(t)]
Ino(t) == inode[th[t].ino]

handleSystemError(code) == IF mode.stop THEN error' = "VE_SystemError" /\ UNCHANGED errno
                                        ELSE errno' = code /\ UNCHANGED error
Fine == UNCHANGED <<errno, error>>

-----------------------------------------------------------------------------
(* Inode updates.                                                          *)
executeFsyncFS(i) == synced' = [synced EXCEPT ![i] = ver'[i]]

\* Without delayed allocation, data=ordered waits for the write.
updateInodeDisksizeFS(i, new, begin, end) ==
    /\ mdwrite' = [inode |-> i, old |-> inode[i].dsize, new |-> new,
                   begin |-> IF mode.journal = "ordered" THEN begin ELSE 0,
                   end |-> IF mode.journal = "ordered" THEN end ELSE 0]
    /\ IF mode.journal = "ordered" /\ ~mode.delalloc THEN executeFsyncFS(i)
                                                      ELSE UNCHANGED synced

\* One byte of the range k .. to - 1, then the next one or the step after it.
zeroDskRangeFS(t, to, next) ==
    /\ inode' = [inode EXCEPT ![th[t].ino].data[th[t].k] = 0]
    /\ Set(t, [k |-> th[t].k + 1, pc |-> IF th[t].k + 1 = to THEN next ELSE th[t].pc])
    /\ UNCHANGED <<mode, dir, dirLock, dirTrans, file, errno, error, history>>

shouldUpdateInodeDisksizeFS(size, offset, count) ==
    LET bi == size % BlockSize
        be == size + (BlockSize - bi)
    IN  /\ \/ offset <= size /\ size < offset + count
           \/ offset < be /\ be <= offset + count
           \/ size <= offset /\ offset + count <= be
        /\ bi > 0
newDisksize(size, offset, count) ==
    Min({size + (BlockSize - (size % BlockSize)), offset + count})

readInodeSizeFS(i) == inode[i].isize
updateInodeSizeFS(i, size) == inode' = [inode EXCEPT ![i].isize = size]

\* The bytes of an inode up to its size.
Content(i) == [k \in 1 .. inode[i].isize |-> inode[i].data[k - 1]]

\* What POSIX prescribes: bytes laid over the old contents, holes are zero.
PosixWrite(old, offset, bytes) ==
    [k \in 1 .. Max({Len(old), offset + Len(bytes)}) |->
        IF k > offset /\ k <= offset + Len(bytes) THEN bytes[k - offset]
        ELSE IF k <= Len(old) THEN old[k] ELSE 0]
PosixTruncate(old, length) == [k \in 1 .. length |-> IF k <= Len(old) THEN old[k] ELSE 0]

-----------------------------------------------------------------------------
\* Seeded fault: the lookup does not look at the directory's transaction flag.
FaultLookupTrans(t) ==
    /\ At(t, "lookup")
    /\ Set(t, [pc |-> "entry"])
    /\ UNCHANGED <<mode, dir, dirLock, dirTrans, inode, file, errno, error, history>>

(* Name lookup without the directory lock: the flag, then the entry.       *)
LookupTrans(t) ==
    /\ At(t, "lookup")
    /\ Set(t, [pc |-> IF dirTrans = 1 THEN "blocked" ELSE "entry"])
    /\ UNCHANGED <<mode, dir, dirLock, dirTrans, inode, file, errno, error, history>>

LookupEntry(t) ==
    /\ At(t, "entry")
    /\ LET i == dir[Call(t).name]
       IN  IF i = 0 THEN Return(t, -1) /\ handleSystemError("ENOENT")
           ELSE /\ Set(t, [pc |-> "open", ino |-> i,
                           seen |-> Append(th[t].seen, <<Call(t).name, i>>)])
                /\ Fine
    /\ UNCHANGED <<mode, dir, dirLock, dirTrans, inode, file, history>>

-----------------------------------------------------------------------------
(* open() and creat().                                                     *)
CallFlags(t) == IF Call(t).op = "creat" THEN {"CREAT", "TRUNC"} ELSE Call(t).flags
CallAcc(t) == IF Call(t).op = "creat" THEN 1 ELSE Call(t).acc

CallOpen(t) ==
    /\ Calls(t, {"open", "creat"})
    /\ IF ~checkOpenFlagsFS(CallFlags(t)) THEN Return(t, -1) /\ handleSystemError("EINVAL")
       ELSE /\ Set(t, [pc |-> IF "CREAT" \in CallFlags(t) THEN "lockdir" ELSE "lookup",
                       flags |-> CallFlags(t)])
            /\ Fine
    /\ UNCHANGED <<mode, dir, dirLock, dirTrans, inode, file, history>>

\* Every operation on the directory but a plain lookup takes its lock first.
LockDir(t) ==
    /\ dirLock = Free
    /\ \/ At(t, "lockdir")
       \/ Calls(t, {"link", "unlink", "rename", "truncate"})
    /\ dirLock' = t
    /\ Set(t, [pc |-> "dir"])
    /\ UNCHANGED <<mode, dir, dirTrans, inode, file, errno, error, history>>

FreshInodes == {i \in Inodes : ~inode[i].made}
NewInode == [made |-> TRUE, lock |-> Free, isize |-> 0, dsize |-> 0, trans |-> 0,
             data |-> [k \in Offsets |-> Fresh]]

\* executeInodeCreateFS: the fields are written before the name is.
executeInodeCreateFS(name, i) ==
    /\ inode' = [inode EXCEPT ![i] = NewInode]
    /\ dir' = [dir EXCEPT ![name] = i]
    /\ ver' = [ver EXCEPT ![i] = @ + 1]
    /\ updateInodeDisksizeFS(i, 0, 0, 0)

LookupOrCreate(t) ==
    /\ At(t, "dir") /\ Call(t).op \in {"open", "creat"}
    /\ LET name == Call(t).name
           found == dir[name]
       IN  IF dirTrans = 1
           THEN Set(t, [pc |-> "blocked"]) /\ UNCHANGED <<dir, dirLock, inode, mdwrite, ver, synced>>
           ELSE /\ dirLock' = Free
                /\ IF found # 0
                   THEN /\ Set(t, [pc |-> "open", ino |-> found,
                                   seen |-> Append(th[t].seen, <<name, found>>)])
                        /\ UNCHANGED <<dir, inode, mdwrite, ver, synced>>
                   ELSE \E i \in FreshInodes :
                           /\ \A j \in FreshInodes : i <= j
                           /\ executeInodeCreateFS(name, i)
                           /\ Set(t, [pc |-> "open", ino |-> i,
                                      flags |-> th[t].flags \ {"TRUNC"}])
    /\ UNCHANGED <<mode, dirTrans, file, errno, error, want, moved>>

\* executeOpenFS: a new descriptor and description, and the O_TRUNC rules.
OpenFile(t) ==
    /\ At(t, "open")
    /\ LET fd == handleDskOpen
           flags == th[t].flags
           opened == [fd |-> fd, ino |-> th[t].ino]
       IN  /\ file' = Merge(file, [f \in {fd} |->
                        [inode |-> th[t].ino, count |-> 1, acc |-> CallAcc(t),
                         flags |-> flags, lock |-> Free, offset |-> 0]])
           /\ moved' = Merge(moved, [f \in {fd} |-> 0])
           /\ \/ /\ "TRUNC" \notin flags
                 /\ Set(t, Merge(opened, Returned(t, fd))) /\ Fine
              \/ /\ "TRUNC" \in flags /\ Writable(CallAcc(t))
                 /\ Set(t, Merge(opened, [pc |-> "locktrunc"])) /\ Fine
              \/ /\ "TRUNC" \in flags /\ ~Writable(CallAcc(t))
                 /\ Set(t, Merge(opened, Returned(t, -1)))
                 /\ error' = "VE_InvalidTruncate" /\ UNCHANGED errno
    /\ UNCHANGED <<mode, dir, dirLock, dirTrans, inode, want, ver, synced, mdwrite>>

-----------------------------------------------------------------------------
(* truncate(), and the truncation of open(O_TRUNC).                        *)
LookupTruncate(t) ==
    /\ At(t, "dir") /\ Call(t).op = "truncate"
    /\ LET i == dir[Call(t).name]
       IN  IF dirTrans = 1 THEN Set(t, [pc |-> "blocked"]) /\ Fine /\ UNCHANGED dirLock
           ELSE /\ dirLock' = Free
                /\ \/ i = 0 /\ Return(t, -1) /\ handleSystemError("ENOENT")
                   \/ i # 0 /\ Set(t, [pc |-> "locktrunc", ino |-> i]) /\ Fine
    /\ UNCHANGED <<mode, dir, dirTrans, inode, file, history>>

Length(t) == IF Call(t).op = "truncate" THEN Call(t).len ELSE 0
TruncRet(t, ret) == IF ret = -1 \/ Call(t).op = "truncate" THEN ret ELSE th[t].fd

TruncateLock(t) ==
    /\ At(t, "locktrunc")
    /\ \/ /\ Length(t) < 0
          /\ Return(t, -1) /\ handleSystemError("EINVAL") /\ UNCHANGED inode
       \/ /\ Length(t) >= 0 /\ Ino(t).lock = Free
          /\ inode' = [inode EXCEPT ![th[t].ino].lock = t]
          /\ Set(t, [pc |-> "trunc"]) /\ Fine
    /\ UNCHANGED <<mode, dir, dirLock, dirTrans, file, history>>

\* The old size decides whether the file is extended.
executeTruncateFS(t) ==
    /\ At(t, "trunc")
    /\ LET old == readInodeSizeFS(th[t].ino)
           len == Length(t)
       IN  \/ /\ len > old /\ len >= MaxFileSize
              /\ Set(t, [pc |-> "tunlock", ret |-> -1]) /\ handleSystemError("EFBIG")
           \/ /\ len > old /\ len < MaxFileSize
              /\ Set(t, [pc |-> "tzero", k |-> old]) /\ Fine
           \/ /\ len <= old
              /\ Set(t, [pc |-> "tdisk"]) /\ Fine
    /\ UNCHANGED <<mode, dir, dirLock, dirTrans, inode, file, history>>

TruncateZero(t) == At(t, "tzero") /\ zeroDskRangeFS(t, Length(t), "tdisk")

TruncateDisk(t) ==
    /\ At(t, "tdisk")
    /\ LET i == th[t].ino
           len == Length(t)
           extends == len > readInodeSizeFS(i)
       IN  /\ inode' = [inode EXCEPT ![i].dsize = len]
           /\ UNCHANGED ver
           /\ updateInodeDisksizeFS(i, len, IF extends THEN readInodeSizeFS(i) ELSE 0,
                                            IF extends THEN len ELSE 0)
    /\ Set(t, [pc |-> "tsize"])
    /\ UNCHANGED <<mode, dir, dirLock, dirTrans, file, errno, error, want, moved>>

TruncateSize(t) ==
    /\ At(t, "tsize")
    /\ LET i == th[t].ino
       IN  /\ updateInodeSizeFS(i, Length(t))
           /\ want' = [want EXCEPT ![i] = PosixTruncate(@, Length(t))]
           /\ ver' = [ver EXCEPT ![i] = @ + 1]
           /\ IF mode.journal \in {"ordered", "journal"} THEN executeFsyncFS(i)
                                                         ELSE UNCHANGED synced
    /\ Set(t, [pc |-> "tunlock", ret |-> 0])
    /\ UNCHANGED <<mode, dir, dirLock, dirTrans, file, errno, error, moved, mdwrite>>

TruncateUnlock(t) ==
    /\ At(t, "tunlock")
    /\ inode' = [inode EXCEPT ![th[t].ino].lock = Free]
    /\ Return(t, TruncRet(t, th[t].ret))
    /\ UNCHANGED <<mode, dir, dirLock, dirTrans, file, errno, error, history>>

-----------------------------------------------------------------------------
(* close(): the descriptor stays in fdToFile, the description is freed.    *)
CallClose(t) ==
    /\ Calls(t, {"close"})
    /\ IF ~HasFile(t) THEN Return(t, -1) /\ handleSystemError("EBADF") /\ UNCHANGED file
       ELSE /\ Desc(t).count > 0
            /\ file' = [file EXCEPT ![Fd(t)].count = @ - 1]
            /\ Return(t, 0) /\ Fine
    /\ UNCHANGED <<mode, dir, dirLock, dirTrans, inode, history>>

\* callWriteFS takes a write of LockFailed bytes for a failed lock: it leaves
\* the offset and the position lock as they are and returns no value.
LostWrite(t) == th[t].pc = "wdone" /\ Call(t).op = "write" /\ th[t].ret = LockFailed

\* Calls that use the description at this point.
Positional(t) == Call(t).op \in {"pread", "pwrite"}
UsesDesc(t) ==
    \/ Calls(t, {"close", "read", "pread", "write", "pwrite", "lseek", "fsync"})
    \/ At(t, "rsize") \/ At(t, "wflags") \/ At(t, "lseek")
    \/ (At(t, "rdone") \/ At(t, "wdone")) /\ ~Positional(t) /\ ~LostWrite(t)

\* An access to a freed description is an error of the checked program.
UseFreed(t) ==
    /\ UsesDesc(t) /\ HasFile(t) /\ Desc(t).count = 0
    /\ error' = "VE_AccessFreed"
    /\ UNCHANGED <<mode, dir, dirLock, dirTrans, inode, file, th, errno, history>>
Alive(t) == HasFile(t) /\ Desc(t).count > 0

-----------------------------------------------------------------------------
(* link(), unlink(), rename(), under the directory lock.                   *)
updateDirNameInode(name, i) == dir' = [dir EXCEPT ![name] = i]

CallLink(t) ==
    /\ At(t, "dir") /\ Call(t).op = "link" /\ dirTrans = 0
    /\ LET source == dir[Call(t).name]
       IN  /\ dirLock' = Free
           /\ \/ /\ source = 0
                 /\ Return(t, -1) /\ handleSystemError("ENOENT") /\ UNCHANGED dir
              \/ /\ source # 0 /\ dir[Call(t).to] # 0
                 /\ Return(t, -1) /\ handleSystemError("EEXIST") /\ UNCHANGED dir
              \/ /\ source # 0 /\ dir[Call(t).to] = 0
                 /\ updateDirNameInode(Call(t).to, source)
                 /\ Return(t, 0) /\ Fine
    /\ UNCHANGED <<mode, dirTrans, inode, file, history>>

CallUnlink(t) ==
    /\ At(t, "dir") /\ Call(t).op = "unlink" /\ dirTrans = 0
    /\ dirLock' = Free
    /\ IF dir[Call(t).name] = 0
       THEN Return(t, -1) /\ handleSystemError("ENOENT") /\ UNCHANGED dir
       ELSE Return(t, 0) /\ updateDirNameInode(Call(t).name, 0) /\ Fine
    /\ UNCHANGED <<mode, dirTrans, inode, file, history>>

CallRename(t) ==
    /\ At(t, "dir") /\ Call(t).op = "rename" /\ dirTrans = 0
    /\ LET source == dir[Call(t).name]
       IN  \/ /\ source = 0 /\ dirLock' = Free
              /\ Return(t, -1) /\ handleSystemError("ENOENT") /\ UNCHANGED dirTrans
           \/ /\ source # 0 /\ source = dir[Call(t).to] /\ dirLock' = Free
              /\ Return(t, 0) /\ Fine /\ UNCHANGED dirTrans
           \/ /\ source # 0 /\ source # dir[Call(t).to]
              /\ dirTrans' = 1 /\ UNCHANGED dirLock
              /\ Set(t, [pc |-> "rlink", ino |-> source]) /\ Fine
    /\ UNCHANGED <<mode, dir, inode, file, history>>

RenameLink(t) ==
    /\ At(t, "rlink")
    /\ updateDirNameInode(Call(t).to, th[t].ino)
    /\ Set(t, [pc |-> "runlink"])
    /\ UNCHANGED <<mode, dirLock, dirTrans, inode, file, errno, error, history>>

RenameUnlink(t) ==
    /\ At(t, "runlink")
    /\ updateDirNameInode(Call(t).name, 0)
    /\ Set(t, [pc |-> "rend"])
    /\ UNCHANGED <<mode, dirLock, dirTrans, inode, file, errno, error, history>>

RenameEnd(t) ==
    /\ At(t, "rend")
    /\ dirTrans' = 0 /\ dirLock' = Free
    /\ Return(t, 0)
    /\ UNCHANGED <<mode, dir, inode, file, errno, error, history>>

-----------------------------------------------------------------------------
(* read(), pread(): no inode lock, so a write may fall between two bytes.  *)
BadDescriptor(t) ==
    /\ Calls(t, {"read", "pread", "write", "pwrite", "lseek", "fsync"})
    /\ \/ /\ Positional(t) /\ Call(t).off < 0
          /\ handleSystemError("EINVAL")
       \/ /\ ~(Positional(t) /\ Call(t).off < 0) /\ ~HasFile(t)
          /\ handleSystemError("EBADF")
    /\ Return(t, -1)
    /\ UNCHANGED <<mode, dir, dirLock, dirTrans, inode, file, history>>

\* read, write and lseek take the position lock, then load the offset.
LockPos(t, pc) ==
    /\ Alive(t) /\ Desc(t).lock = Free
    /\ file' = [file EXCEPT ![Fd(t)].lock = t]
    /\ Set(t, [pc |-> pc, pos |-> Desc(t).offset])
    /\ UNCHANGED <<mode, dir, dirLock, dirTrans, inode, errno, error, history>>

\* pread and pwrite use their own offset and leave the lock alone.
AtOffset(t, pc) ==
    /\ Alive(t) /\ Call(t).off >= 0
    /\ Set(t, [pc |-> pc, pos |-> Call(t).off])
    /\ UNCHANGED <<mode, dir, dirLock, dirTrans, inode, file, errno, error, history>>

CallRead(t) == Calls(t, {"read"}) /\ LockPos(t, "rsize")
CallWrite(t) == Calls(t, {"write"}) /\ LockPos(t, "wflags")
CallLseek(t) == Calls(t, {"lseek"}) /\ LockPos(t, "lseek")
CallPread(t) == Calls(t, {"pread"}) /\ AtOffset(t, "rsize")
CallPwrite(t) == Calls(t, {"pwrite"}) /\ AtOffset(t, "wflags")

ReadSize(t) ==
    /\ At(t, "rsize") /\ Alive(t)
    /\ LET i == Desc(t).inode
           nr == Min({Call(t).count, readInodeSizeFS(i) - th[t].pos})
       IN  \/ /\ ~Readable(Desc(t).acc)
              /\ Set(t, [pc |-> "rdone", ino |-> i, ret |-> -1]) /\ handleSystemError("EBADF")
           \/ /\ Readable(Desc(t).acc) /\ th[t].pos >= readInodeSizeFS(i)
              /\ Set(t, [pc |-> "rdone", ino |-> i, ret |-> 0]) /\ Fine
           \/ /\ Readable(Desc(t).acc) /\ th[t].pos < readInodeSizeFS(i)
              /\ Set(t, [pc |-> "rbytes", ino |-> i, ret |-> nr, buf |-> <<>>, ver |-> ver[i]])
              /\ Fine
    /\ UNCHANGED <<mode, dir, dirLock, dirTrans, inode, file, history>>

\* Seeded fault: a read that got fewer bytes than it asked for starts again.
FaultReadByte(t) ==
    /\ At(t, "rbytes")
    /\ LET k == Len(th[t].buf)
       IN  \/ /\ k < th[t].ret
              /\ Set(t, [buf |-> Append(th[t].buf, Ino(t).data[th[t].pos + k])])
           \/ /\ k = th[t].ret
              /\ Set(t, [pc |-> IF k < Call(t).count THEN "rsize" ELSE "rdone"])
    /\ UNCHANGED <<mode, dir, dirLock, dirTrans, inode, file, errno, error, history>>

\* readDataFromDisk, one byte; then the transaction flag in journal mode.
ReadByte(t) ==
    /\ At(t, "rbytes")
    /\ LET k == Len(th[t].buf)
       IN  \/ /\ k < th[t].ret
              /\ Set(t, [buf |-> Append(th[t].buf, Ino(t).data[th[t].pos + k])])
           \/ /\ k = th[t].ret
              /\ Set(t, [pc |-> IF mode.journal = "journal" /\ Ino(t).trans = 1
                                THEN "blocked" ELSE "rdone"])
    /\ UNCHANGED <<mode, dir, dirLock, dirTrans, inode, file, errno, error, history>>

\* The offset moves over what was read or written; then the unlock.
MoveOffset(t) ==
    /\ Alive(t) /\ ~Positional(t)
    /\ file' = [file EXCEPT ![Fd(t)].lock = Free,
                            ![Fd(t)].offset = IF th[t].ret >= 0 THEN th[t].pos + th[t].ret ELSE @]
    /\ moved' = [moved EXCEPT ![Fd(t)] = IF th[t].ret >= 0 THEN @ + th[t].ret ELSE @]
    /\ Return(t, th[t].ret)

KeepOffset(t) == Positional(t) /\ Return(t, th[t].ret) /\ UNCHANGED <<file, moved>>

ReadDone(t) ==
    /\ At(t, "rdone")
    /\ MoveOffset(t) \/ KeepOffset(t)
    /\ UNCHANGED <<mode, dir, dirLock, dirTrans, inode, errno, error, want, ver, synced, mdwrite>>

-----------------------------------------------------------------------------
\* Seeded fault: the inode lock is taken without waiting for it.
FaultWriteFlags(t) ==
    /\ At(t, "wflags") /\ Alive(t)
    /\ LET i == Desc(t).inode
       IN  /\ inode' = [inode EXCEPT ![i].lock = t]
           /\ Set(t, [pc |-> "wchecks", ino |-> i, acc |-> Desc(t).flags]) /\ Fine
    /\ UNCHANGED <<mode, dir, dirLock, dirTrans, file, history>>

(* write(), pwrite(): under the inode lock, block by block.                *)
WriteFlags(t) ==
    /\ At(t, "wflags") /\ Alive(t)
    /\ LET i == Desc(t).inode
       IN  \/ /\ ~Writable(Desc(t).acc)
              /\ Set(t, [pc |-> "wdone", ret |-> -1]) /\ handleSystemError("EBADF")
              /\ UNCHANGED inode
           \/ /\ Writable(Desc(t).acc) /\ inode[i].lock = Free
              /\ inode' = [inode EXCEPT ![i].lock = t]
              /\ Set(t, [pc |-> "wchecks", ino |-> i, acc |-> Desc(t).flags]) /\ Fine
    /\ UNCHANGED <<mode, dir, dirLock, dirTrans, file, history>>

\* Seeded fault: an appending write goes to the offset of the description.
FaultWriteChecks(t) ==
    LET at == th[t].pos
        count == Len(Call(t).bytes)
    IN  [off |-> at, big |-> count > 0 /\ at >= MaxFileSize,
         n |-> IF count = 0 \/ at >= MaxFileSize THEN 0 ELSE Min({count, MaxFileSize - at})]

executeWriteChecksFS(t) ==
    LET at == IF "APPEND" \in th[t].acc THEN readInodeSizeFS(th[t].ino) ELSE th[t].pos
        count == Len(Call(t).bytes)
    IN  [off |-> at, big |-> count > 0 /\ at >= MaxFileSize,
         n |-> IF count = 0 \/ at >= MaxFileSize THEN 0 ELSE Min({count, MaxFileSize - at})]

\* Does this write raise the size on disk before its data, and to what?
Early(i, at, n) == mode.delalloc /\ shouldUpdateInodeDisksizeFS(inode[i].isize, at, n)
EarlySize(t) == newDisksize(readInodeSizeFS(th[t].ino), th[t].woff, th[t].ret)

\* A write past the end of the file zeroes the bytes in between.
HolePc(i, at) == IF at > readInodeSizeFS(i) THEN "whole" ELSE "wopen"

WriteChecks(t) ==
    /\ At(t, "wchecks")
    /\ LET c == executeWriteChecksFS(t)
           i == th[t].ino
       IN  \/ /\ c.n = 0
              /\ Set(t, [pc |-> "wunlock", ret |-> 0])
              /\ IF c.big THEN handleSystemError("EFBIG") ELSE Fine
              /\ UNCHANGED want
           \/ /\ c.n > 0
              /\ want' = [want EXCEPT ![i] =
                     LET at == IF "APPEND" \in th[t].acc THEN Len(@) ELSE th[t].pos
                     IN  PosixWrite(@, at, SubSeq(Call(t).bytes, 1, Min({Len(Call(t).bytes), MaxFileSize - at})))]
              /\ Set(t, [pc |-> IF Early(i, c.off, c.n) THEN "wearly" ELSE HolePc(i, c.off),
                         ret |-> c.n, woff |-> c.off, done |-> 0, obeg |-> 0,
                         k |-> readInodeSizeFS(i)])
              /\ Fine
    /\ UNCHANGED <<mode, dir, dirLock, dirTrans, inode, file, moved, ver, synced, mdwrite>>

\* Seeded fault: the range that the early size exposes is not zeroed.
FaultZeroEarly(t) ==
    /\ At(t, "wearly")
    /\ Set(t, [pc |-> "wraise"])
    /\ UNCHANGED <<mode, dir, dirLock, dirTrans, inode, file, errno, error, history>>

ZeroEarly(t) == At(t, "wearly") /\ zeroDskRangeFS(t, EarlySize(t), "wraise")

RaiseEarly(t) ==
    /\ At(t, "wraise")
    /\ LET i == th[t].ino
       IN  /\ inode' = [inode EXCEPT ![i].dsize = EarlySize(t)]
           /\ UNCHANGED ver
           /\ updateInodeDisksizeFS(i, EarlySize(t), readInodeSizeFS(i), EarlySize(t))
           /\ Set(t, [pc |-> HolePc(i, th[t].woff), k |-> readInodeSizeFS(i)])
    /\ UNCHANGED <<mode, dir, dirLock, dirTrans, file, errno, error, want, moved>>

ZeroHole(t) == At(t, "whole") /\ zeroDskRangeFS(t, th[t].woff, "wopen")

Chunk(at, left) ==
    LET bytes == Min({BlockSize, left})
        index == at % BlockSize
    IN  IF index # 0 /\ bytes > BlockSize - index THEN BlockSize - index ELSE bytes

\* Next block: raise the transaction flag in journal mode.
BlockOpen(t) ==
    /\ At(t, "wopen")
    /\ inode' = [inode EXCEPT ![th[t].ino].trans = IF mode.journal = "journal" THEN 1 ELSE @]
    /\ Set(t, [pc |-> "wbytes", blk |-> Chunk(th[t].woff + th[t].done, th[t].ret - th[t].done), k |-> 0])
    /\ UNCHANGED <<mode, dir, dirLock, dirTrans, file, errno, error, history>>

WriteByte(t) ==
    /\ At(t, "wbytes") /\ th[t].k < th[t].blk
    /\ LET at == th[t].woff + th[t].done + th[t].k
       IN  inode' = [inode EXCEPT ![th[t].ino].data[at] = Call(t).bytes[th[t].done + th[t].k + 1]]
    /\ Set(t, [k |-> th[t].k + 1])
    /\ UNCHANGED <<mode, dir, dirLock, dirTrans, file, errno, error, history>>

\* The block's bytes are written; does it end past the size of the file?
newSize(t) == th[t].woff + th[t].done + th[t].blk
BlockWritten(t) == At(t, "wbytes") /\ th[t].k = th[t].blk
Grows(t) == newSize(t) > readInodeSizeFS(th[t].ino)

BlockDisksize(t) ==
    /\ BlockWritten(t) /\ Grows(t)
    /\ inode' = [inode EXCEPT ![th[t].ino].dsize = newSize(t)]
    /\ UNCHANGED ver
    /\ updateInodeDisksizeFS(th[t].ino, newSize(t), th[t].obeg, newSize(t))
    /\ Set(t, [pc |-> "wsize"])
    /\ UNCHANGED <<mode, dir, dirLock, dirTrans, file, errno, error, want, moved>>

BlockSizeUp(t) ==
    /\ At(t, "wsize")
    /\ updateInodeSizeFS(th[t].ino, newSize(t))
    /\ Set(t, [pc |-> "wclose", obeg |-> newSize(t)])
    /\ UNCHANGED <<mode, dir, dirLock, dirTrans, file, errno, error, history>>

\* The flag goes down; then the next block, or the unlock.
BlockClose(t) ==
    /\ At(t, "wclose") \/ (BlockWritten(t) /\ ~Grows(t))
    /\ LET i == th[t].ino
           done == th[t].done + th[t].blk
       IN  /\ inode' = [inode EXCEPT ![i].trans = IF mode.journal = "journal" THEN 0 ELSE @]
           /\ ver' = [ver EXCEPT ![i] = @ + 1]
           /\ IF mode.journal = "journal" THEN executeFsyncFS(i) ELSE UNCHANGED synced
           /\ Set(t, [pc |-> IF done = th[t].ret THEN "wunlock" ELSE "wopen", done |-> done,
                      ver |-> ver[i] + 1])
    /\ UNCHANGED <<mode, dir, dirLock, dirTrans, file, errno, error, want, moved, mdwrite>>

WriteUnlock(t) ==
    /\ At(t, "wunlock")
    /\ inode' = [inode EXCEPT ![th[t].ino].lock = Free]
    /\ Set(t, [pc |-> "wsync"])
    /\ UNCHANGED <<mode, dir, dirLock, dirTrans, file, errno, error, history>>

WriteSync(t) ==
    /\ At(t, "wsync")
    /\ IF th[t].ret > 0 /\ th[t].acc \cap {"SYNC", "DSYNC"} # {}
       THEN synced' = [synced EXCEPT ![th[t].ino] = ver[th[t].ino]] ELSE UNCHANGED synced
    /\ Set(t, [pc |-> "wdone"])
    /\ UNCHANGED <<mode, dir, dirLock, dirTrans, inode, file, errno, error, want, moved, ver, mdwrite>>

WriteDone(t) ==
    /\ At(t, "wdone")
    /\ \/ ~LostWrite(t) /\ (MoveOffset(t) \/ KeepOffset(t))
       \/ /\ LostWrite(t)
          /\ Set(t, Merge([lost |-> th[t].lost \cup {Fd(t)}], Returned(t, 0)))
          /\ moved' = [moved EXCEPT ![Fd(t)] = @ + th[t].ret] /\ UNCHANGED file
    /\ UNCHANGED <<mode, dir, dirLock, dirTrans, inode, errno, error, want, ver, synced, mdwrite>>

-----------------------------------------------------------------------------
(* lseek(), fsync(), sync(), the persistency barrier.                      *)
executeLseekFS(t) ==
    /\ At(t, "lseek") /\ Alive(t)
    /\ LET whence == Call(t).whence
           new == CASE whence = "SET" -> Call(t).off
                    [] whence = "END" -> Call(t).off + readInodeSizeFS(Desc(t).inode)
                    [] whence = "CUR" -> th[t].pos + Call(t).off
                    [] OTHER -> -1
           valid == whence \in {"SET", "END", "CUR"}
       IN  /\ file' = [file EXCEPT ![Fd(t)].lock = Free,
                                   ![Fd(t)].offset = IF valid THEN new ELSE @]
           /\ moved' = [moved EXCEPT ![Fd(t)] = IF valid THEN new ELSE @]
           /\ Return(t, new)
           /\ IF valid THEN Fine ELSE handleSystemError("EINVAL")
    /\ UNCHANGED <<mode, dir, dirLock, dirTrans, inode, want, ver, synced, mdwrite>>

CallFsync(t) ==
    /\ Calls(t, {"fsync"}) /\ Alive(t)
    /\ synced' = [synced EXCEPT ![Desc(t).inode] = ver[Desc(t).inode]]
    /\ Return(t, 0)
    /\ UNCHANGED <<mode, dir, dirLock, dirTrans, inode, file, errno, error, want, moved, ver, mdwrite>>

CallSync(t) ==
    /\ Calls(t, {"sync", "barrier"})
    /\ IF Call(t).op = "sync" THEN synced' = ver ELSE UNCHANGED synced
    /\ Return(t, 0)
    /\ UNCHANGED <<mode, dir, dirLock, dirTrans, inode, file, errno, error, want, moved, ver, mdwrite>>

-----------------------------------------------------------------------------
\* main has run creat("f"), write(fd, one byte), and spawned the threads.
Init ==
    /\ mode \in Modes
    /\ dir = [n \in Names |-> IF n = "f" THEN 1 ELSE 0]
    /\ dirLock = Free /\ dirTrans = 0
    /\ inode = [i \in Inodes |->
                  IF i = 1 THEN [NewInode EXCEPT !.isize = 1, !.dsize = 1, !.data[0] = 7]
                           ELSE [NewInode EXCEPT !.made = FALSE]]
    /\ file = [f \in {0} |-> [inode |-> 1, count |-> 1, acc |-> 2, flags |-> {}, lock |-> Free,
                              offset |-> 0]]
    /\ \E p \in Programs :
         th = [t \in Threads |->
                 [todo |-> p[t], pc |-> "call", rets |-> <<>>, seen |-> <<>>, ino |-> 1, fd |-> 0,
                  flags |-> {}, acc |-> {}, pos |-> 0, ret |-> 0, buf |-> <<>>, woff |-> 0,
                  done |-> 0, blk |-> 0, k |-> 0, obeg |-> 0, ver |-> 0, lost |-> {}]]
    /\ errno = "none" /\ error = "none"
    /\ want = [i \in Inodes |-> IF i = 1 THEN <<7>> ELSE <<>>]
    /\ moved = [f \in {0} |-> 0]
    /\ ver = [i \in Inodes |-> 0] /\ synced = [i \in Inodes |-> 0]
    /\ mdwrite = [inode |-> 1, old |-> 0, new |-> 0, begin |-> 0, end |-> 0]

Step(t) ==
    \/ CallOpen(t) \/ LookupTrans(t) \/ LookupEntry(t) \/ LockDir(t) \/ LookupOrCreate(t)
    \/ OpenFile(t) \/ LookupTruncate(t) \/ TruncateLock(t) \/ executeTruncateFS(t)
    \/ TruncateZero(t) \/ TruncateDisk(t) \/ TruncateSize(t) \/ TruncateUnlock(t)
    \/ CallClose(t) \/ UseFreed(t) \/ CallLink(t) \/ CallUnlink(t) \/ CallRename(t)
    \/ RenameLink(t) \/ RenameUnlink(t) \/ RenameEnd(t)
    \/ BadDescriptor(t) \/ CallRead(t) \/ CallWrite(t) \/ CallLseek(t)
    \/ CallPread(t) \/ CallPwrite(t) \/ ReadSize(t) \/ ReadByte(t) \/ ReadDone(t)
    \/ WriteFlags(t) \/ WriteChecks(t) \/ ZeroEarly(t) \/ RaiseEarly(t) \/ ZeroHole(t)
    \/ BlockOpen(t) \/ WriteByte(t) \/ BlockDisksize(t) \/ BlockSizeUp(t) \/ BlockClose(t)
    \/ WriteUnlock(t) \/ WriteSync(t) \/ WriteDone(t) \/ executeLseekFS(t) \/ CallFsync(t) \/ CallSync(t)

\* A call on a description whose position lock a lost write has kept.
WaitsForLost(t) ==
    /\ Calls(t, {"read", "write", "lseek"})
    /\ \E u \in Threads : Fd(t) \in th[u].lost
AllReturned == \A t \in Threads : th[t].pc = "call" /\ (th[t].todo = <<>> \/ WaitsForLost(t))
\* An execution is over when every call has returned or waits for such a
\* lock, when an error has been reported, or when a thread read a raised
\* transaction flag.
Over == AllReturned \/ error # "none" \/ \E t \in Threads : th[t].pc = "blocked"
Done == Over /\ UNCHANGED vars

Next == (\E t \in Threads : Step(t)) \/ Done

Spec == Init /\ [][Next]_vars /\ \A t \in Threads : WF_vars(Step(t))

-----------------------------------------------------------------------------
TypeOK ==
    /\ mode \in Modes
    /\ dir \in [Names -> Inodes \cup {0}]
    /\ dirLock \in Threads \cup {Free} /\ dirTrans \in {0, 1}
    /\ \A i \in Inodes : /\ inode[i].isize \in 0 .. MaxFileSize
                         /\ inode[i].dsize \in 0 .. MaxFileSize
                         /\ DOMAIN inode[i].data = Offsets
    /\ \A f \in DOMAIN file : file[f].offset \in Int /\ file[f].inode \in Inodes
    /\ \A t \in Threads : th[t].ino \in Inodes
    /\ error \in {"none", "VE_SystemError", "VE_InvalidTruncate", "VE_AccessFreed"}

(* Between writers, a file holds what POSIX prescribes for the sequence of *)
(* writes, appends and truncations made to it: the block-wise, lazily      *)
(* zeroing write loses no append and exposes no old byte in a hole.        *)
ContentAsPosix == \A i \in Inodes : inode[i].lock = Free => Content(i) = want[i]

(* The size on disk agrees with the size in memory whenever nobody holds   *)
(* the inode, so a recovery finds the file its last writer left.           *)
SizesAgree == \A i \in Inodes : inode[i].lock = Free => inode[i].dsize = inode[i].isize

(* The size on disk never covers a byte nobody has written: not even in    *)
(* the middle of a write that raised it early for delayed allocation.      *)
NothingUninitialised ==
    \A i \in Inodes : \A k \in Offsets : k < inode[i].dsize => inode[i].data[k] # Fresh

(* In data=ordered mode, an update that raises the size on disk names a    *)
(* range of data that must reach the disk first; the range covers every    *)
(* byte the new size exposes (updateInodeDisksizeFS).                      *)
OrderedDataCovers ==
    mode.journal = "ordered" /\ mdwrite.new > mdwrite.old
      => mdwrite.begin <= mdwrite.old /\ mdwrite.new <= mdwrite.end

(* A write never lowers the size on disk, although it may have raised it   *)
(* early: only truncation does.                                            *)
DisksizeOnlyGrows ==
    \A i \in Inodes : inode[i].dsize > inode'[i].dsize
        => \E t \in Threads : th[t].pc = "tdisk" /\ th[t].ino = i

(* Disk writes are ordered by a lock, which handleDskWrite relies on when  *)
(* it adds a write at the end of the modification order: a thread that     *)
(* changes an inode on disk, or the directory, holds the lock over it.     *)
DiskWritesOrdered ==
    \A t \in Threads : th[t] # th'[t] =>
        /\ \A i \in Inodes :
              /\ inode[i].made
              /\ \/ inode[i].data # inode'[i].data
                 \/ inode[i].dsize # inode'[i].dsize
                 \/ inode[i].trans # inode'[i].trans
              => inode[i].lock = t
        /\ dir # dir' => dirLock = t

(* rename() is atomic to lookups: a thread that has found an inode under   *)
(* the new name does not find it under the old name afterwards, as long as *)
(* nothing gives the file its old name back.                               *)
RenameAtomic ==
    \A t \in Threads : \A k, l \in 1 .. Len(th[t].seen) :
        k < l /\ th[t].seen[k][1] = "g" /\ th[t].seen[l][1] = "f"
          => th[t].seen[k][2] # th[t].seen[l][2]

(* A thread outside a call holds neither the directory's lock nor one of   *)
(* an inode or a description, whichever way its last call returned; the    *)
(* one exception are the descriptions whose lock a lost write has kept.    *)
LocksReleased ==
    \A t \in Threads : th[t].pc = "call" =>
        /\ dirLock # t
        /\ \A i \in Inodes : inode[i].lock # t
        /\ \A f \in DOMAIN file : file[f].lock = t => f \in th[t].lost

(* read() takes no inode lock, yet it returns no byte that nobody wrote,   *)
(* and if no block was written and no truncation finished between its load *)
(* of the size and its last byte, and nobody holds the inode, it returns   *)
(* what POSIX prescribes for the file at this place.                       *)
ReadsAsWritten ==
    \A t \in Threads : th[t].pc = "rdone" /\ th[t].ret > 0 /\ th[t].pos >= 0 =>
        /\ \A k \in 1 .. th[t].ret : th[t].buf[k] # Fresh
        /\ inode[th[t].ino].lock = Free /\ ver[th[t].ino] = th[t].ver
             => th[t].buf = SubSeq(want[th[t].ino], th[t].pos + 1, th[t].pos + th[t].ret)

(* Calls that share a description move its offset one after another: when  *)
(* nobody holds the position lock, the offset is what they moved it by.    *)
OffsetExact == \A f \in DOMAIN file : file[f].lock = Free => file[f].offset = moved[f]

(* When a write on an O_SYNC descriptor has finished, an fsync follows its *)
(* last block.                                                             *)
SyncWritesDurable ==
    \A t \in Threads : th[t].pc = "wdone" /\ th[t].ret > 0 /\ "SYNC" \in th[t].acc
        => synced[th[t].ino] >= th[t].ver

(* Every call returns: no order of the directory, inode and position locks *)
(* leaves threads waiting for each other; only a description whose lock a  *)
(* lost write has kept is waited for in vain.                              *)
EveryCallReturns == <>Over

(* What a program sees of its files is what POSIX says: contents after     *)
(* writes, appends and truncations, what an unlocked read returns, shared  *)
(* offsets, and no lock left behind but by a lost write.                   *)
FilesAsPosix == TypeOK /\ ContentAsPosix /\ ReadsAsWritten /\ OffsetExact /\ LocksReleased

(* What a crash could leave on disk is a file of the program: sizes agree, *)
(* nothing uninitialised is exposed, ordered data and synchronous writes   *)
(* reach the disk in time.                                                 *)
DiskConsistent ==
    SizesAgree /\ NothingUninitialised /\ OrderedDataCovers /\ SyncWritesDurable

(* Steps on disk: a lock orders them, and only truncation shrinks a file.  *)
DiskOrder == [][DisksizeOnlyGrows /\ DiskWritesOrdered]_vars
=============================================================================
