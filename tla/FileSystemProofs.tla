-------------------------- MODULE FileSystemProofs --------------------------
(***************************************************************************)
(* Theorems about the file system, for any threads, names, inodes, block   *)
(* size, size limit, mount options and programs.                           *)
(***************************************************************************)
EXTENDS FileSystem, SequenceTheorems, TLAPS

ThreadFields == {"todo", "pc", "rets", "seen", "ino", "fd", "flags", "acc", "pos", "ret",
                 "buf", "woff", "done", "blk", "k", "obeg", "ver", "lost"}
FileFields == {"inode", "count", "acc", "flags", "lock", "offset"}
InodeType == [made : BOOLEAN, lock : Threads \cup {Free}, isize : Int, dsize : Int,
              trans : {0, 1}, data : [Offsets -> Int]]

(* Where a thread holds the directory's lock, an inode's, a description's. *)
TransPc == {"rlink", "runlink", "rend"}
DirPc == {"dir"} \cup TransPc
ZeroPc == {"wearly", "wraise", "whole"}
BlockPc == {"wbytes", "wsize", "wclose"}
WritePc == {"wearly", "wraise", "whole", "wopen", "wbytes", "wsize", "wclose"}
TruncPc == {"tzero", "tdisk", "tsize"}
InoPc == {"trunc", "tzero", "tdisk", "tsize", "tunlock", "wchecks", "wearly", "wraise", "whole",
          "wopen", "wbytes", "wsize", "wclose", "wunlock"}
PosPc == {"rsize", "rbytes", "rdone", "wflags", "wchecks", "wearly", "wraise", "whole", "wopen",
          "wbytes", "wsize", "wclose", "wunlock", "wsync", "wdone", "lseek"}

-----------------------------------------------------------------------------
(* The shapes of the variables; sizes are bounded by Contents below.       *)
ShapesOK ==
    /\ mode \in Modes
    /\ DOMAIN th = Threads /\ \A t \in Threads : DOMAIN th[t] = ThreadFields
    /\ inode \in [Inodes -> InodeType]
    /\ dir \in [Names -> Inodes \cup {0}]
    /\ dirLock \in Threads \cup {Free} /\ dirTrans \in {0, 1}
    /\ \A f \in DOMAIN file : /\ DOMAIN file[f] = FileFields
                              /\ file[f].inode \in Inodes
                              /\ file[f].lock \in Threads \cup {Free}
                              /\ file[f].offset \in Int
    /\ DOMAIN moved = DOMAIN file
    /\ ver \in [Inodes -> Nat] /\ synced \in [Inodes -> Nat]
    /\ error \in {"none", "VE_SystemError", "VE_InvalidTruncate", "VE_AccessFreed"}

(* The call a thread is in is the one its program counter belongs to.      *)
OpAgrees(t) ==
    /\ th[t].pc \in {"lookup", "entry", "open", "lockdir"} => Call(t).op \in {"open", "creat"}
    /\ th[t].pc = "dir" => Call(t).op \in {"open", "creat", "link", "unlink", "rename", "truncate"}
    /\ th[t].pc \in TransPc => Call(t).op = "rename"
    /\ th[t].pc \in {"locktrunc", "trunc", "tzero", "tdisk", "tsize", "tunlock"} =>
          Call(t).op \in {"open", "creat", "truncate"}
    /\ th[t].pc \in {"rsize", "rbytes", "rdone"} => Call(t).op \in {"read", "pread"}
    /\ th[t].pc \in {"wflags", "wchecks", "wearly", "wraise", "whole", "wopen", "wbytes",
                     "wsize", "wclose", "wunlock", "wsync", "wdone"} =>
          Call(t).op \in {"write", "pwrite"}
    /\ th[t].pc = "lseek" => Call(t).op = "lseek"
    /\ th[t].pc \in {"trunc", "tzero", "tdisk", "tsize"} => Length(t) >= 0

ThreadOK(t) ==
    /\ th[t].todo \in Seq(CallType)
    /\ th[t].pc # "call" => th[t].todo # <<>>
    /\ OpAgrees(t)
    /\ th[t].ino \in Inodes
    /\ th[t].pos \in Int /\ th[t].ret \in Int /\ th[t].woff \in Int /\ th[t].obeg \in Int
    /\ th[t].done \in Int /\ th[t].blk \in Int /\ th[t].k \in Int /\ th[t].ver \in Nat

(* Only inodes that were made are referred to.                             *)
ReferencesMade ==
    /\ \A t \in Threads : inode[th[t].ino].made
    /\ \A n \in Names : dir[n] # 0 => inode[dir[n]].made
    /\ \A f \in DOMAIN file : inode[file[f].inode].made

Typed == ShapesOK /\ (\A t \in Threads : ThreadOK(t)) /\ ReferencesMade

-----------------------------------------------------------------------------
(* Who holds a lock is at a place where it is held, and conversely.        *)
DirLockHeld == \A t \in Threads : dirLock = t <=> th[t].pc \in DirPc

TransHeld == dirTrans = 1 => \E t \in Threads : dirLock = t /\ th[t].pc \in TransPc

InodeLocksHeld ==
    \A t \in Threads, i \in Inodes :
        inode[i].lock = t <=> th[t].pc \in InoPc /\ th[t].ino = i

InPos(t) == th[t].pc \in PosPc /\ ~Positional(t)

PosLocksHeld ==
    \A t \in Threads :
        /\ InPos(t) => Fd(t) \in DOMAIN file /\ file[Fd(t)].lock = t
        /\ \A f \in DOMAIN file : file[f].lock = t =>
              \/ f \in th[t].lost
              \/ th[t].pc \in PosPc \cup {"blocked"} /\ ~Positional(t) /\ f = Fd(t)

Locked == DirLockHeld /\ TransHeld /\ InodeLocksHeld /\ PosLocksHeld

-----------------------------------------------------------------------------
(* The offset of a description in use is the one its user has loaded.      *)
OffsetLoaded ==
    \A t \in Threads : InPos(t) => /\ th[t].pos = file[Fd(t)].offset
                                   /\ th[t].pos = moved[Fd(t)]

-----------------------------------------------------------------------------
(* The contents of an inode, in the middle of a write too.                 *)
BlockEnd(size) == size + (BlockSize - (size % BlockSize))

(* How far the writer t has come, from woff on, and how far it will.       *)
Upto(t) == th[t].done + (IF th[t].pc \in BlockPc THEN th[t].k ELSE 0)
Pending(t, p) == th[t].woff + Upto(t) <= p /\ p < th[t].woff + th[t].ret

(* A byte between the end of the file and the write that is still to be    *)
(* zeroed.                                                                 *)
Hollow(t, p) == /\ th[t].pc \in ZeroPc
                /\ inode[th[t].ino].isize <= p /\ p < th[t].woff
                /\ th[t].pc = "whole" => th[t].k <= p

(* A range of an inode that has been zeroed.                               *)
Zeroed(i, from, to) == \A p \in Offsets : from <= p /\ p < to => inode[i].data[p] = 0

(* A write's progress: blocks end where the file's blocks end.             *)
Progress(t) ==
    /\ 0 <= th[t].done /\ th[t].done <= th[t].ret
    /\ th[t].ret <= Len(Call(t).bytes)
    /\ th[t].woff + th[t].ret <= MaxFileSize
    /\ th[t].pc \in ZeroPc => th[t].done = 0 /\ th[t].obeg = 0
    /\ th[t].pc \in BlockPc =>
          /\ 0 <= th[t].k /\ th[t].k <= th[t].blk
          /\ th[t].done + th[t].blk <= th[t].ret
          /\ \/ th[t].done + th[t].blk = th[t].ret
             \/ (th[t].woff + th[t].done + th[t].blk) % BlockSize = 0
          /\ th[t].pc # "wbytes" => th[t].k = th[t].blk

(* Its data: what is behind it and beside it is what POSIX prescribes, and *)
(* what is still to come is in the call's buffer.                          *)
DataOnTheWay(t) ==
    LET i == th[t].ino
    IN  /\ Len(want[i]) = IF inode[i].isize >= th[t].woff + th[t].ret
                          THEN inode[i].isize ELSE th[t].woff + th[t].ret
        /\ \A p \in Offsets :
              /\ p < Len(want[i]) /\ ~Pending(t, p) /\ ~Hollow(t, p)
                    => inode[i].data[p] = want[i][p + 1]
              /\ Pending(t, p) => want[i][p + 1] = Call(t).bytes[p - th[t].woff + 1]
              /\ Hollow(t, p) => want[i][p + 1] = 0

(* The preparation of a write: the range that the early size exposes is    *)
(* zeroed before the size is raised, and the hole before the first block.  *)
ZeroesOnTheWay(t) ==
    LET i == th[t].ino
    IN  /\ th[t].pc \in {"wearly", "wraise"} =>
              /\ inode[i].dsize = inode[i].isize
              /\ inode[i].isize < EarlySize(t)
              /\ EarlySize(t) <= th[t].woff + th[t].ret
              /\ EarlySize(t) <= BlockEnd(inode[i].isize)
        /\ th[t].pc = "wearly" =>
              /\ inode[i].isize <= th[t].k /\ th[t].k < EarlySize(t)
              /\ Zeroed(i, inode[i].isize, th[t].k)
        /\ th[t].pc = "wraise" => Zeroed(i, inode[i].isize, EarlySize(t))
        /\ th[t].pc = "whole" => inode[i].isize <= th[t].k /\ th[t].k < th[t].woff

(* Its sizes: the size on disk is ahead by no more than the rest of the    *)
(* block the file ended in, but for the moment before the size in memory   *)
(* follows.                                                                *)
SizeOnTheWay(t) ==
    LET i == th[t].ino
    IN  /\ inode[i].isize <= inode[i].dsize
        /\ th[t].pc # "wsize" /\ inode[i].dsize > inode[i].isize =>
              /\ inode[i].dsize <= th[t].woff + th[t].ret
              /\ inode[i].dsize <= BlockEnd(inode[i].isize)
        /\ th[t].pc = "wsize" => inode[i].dsize = newSize(t) /\ inode[i].isize < newSize(t)
        /\ th[t].pc = "wclose" => newSize(t) <= inode[i].isize
        /\ th[t].obeg <= inode[i].dsize

WritesOnTheWay ==
    \A t \in Threads : th[t].pc \in WritePc =>
        Progress(t) /\ DataOnTheWay(t) /\ ZeroesOnTheWay(t) /\ SizeOnTheWay(t)

(* The contents in memory are the ones POSIX prescribes.                   *)
Kept(i) ==
    /\ Len(want[i]) = inode[i].isize
    /\ \A p \in Offsets : p < inode[i].isize => inode[i].data[p] = want[i][p + 1]

(* A truncation: the range by which it extends the file is zeroed, then    *)
(* the size on disk changes, then the one in memory.                       *)
TruncOnTheWay(t) ==
    LET i == th[t].ino
        len == Length(t)
    IN  /\ len <= MaxFileSize
        /\ th[t].pc = "tzero" => /\ inode[i].isize <= th[t].k /\ th[t].k < len
                                 /\ Zeroed(i, inode[i].isize, th[t].k)
        /\ th[t].pc # "tzero" => Zeroed(i, inode[i].isize, len)
        /\ th[t].pc = "tsize" => inode[i].dsize = len /\ Kept(i)

TruncsOnTheWay == \A t \in Threads : th[t].pc \in TruncPc => TruncOnTheWay(t)

Quiet(i) == inode[i].lock = Free \/ th[inode[i].lock].pc \notin WritePc \cup {"tsize"}

Settled(i) == Content(i) = want[i] /\ inode[i].dsize = inode[i].isize

Contents ==
    /\ want \in [Inodes -> Seq(Nat)]
    /\ \A i \in Inodes : /\ inode[i].isize \in 0 .. MaxFileSize
                         /\ inode[i].dsize \in 0 .. MaxFileSize
                         /\ Quiet(i) => Settled(i)
                         /\ ~inode[i].made => inode[i].isize = 0
    /\ WritesOnTheWay
    /\ TruncsOnTheWay
    /\ NothingUninitialised
    /\ OrderedDataCovers

-----------------------------------------------------------------------------
(* What a read in progress has collected: bytes somebody wrote, and those  *)
(* of the inode as long as nobody has changed it since the size was        *)
(* loaded.                                                                 *)
Clean(i) == inode[i].lock = Free \/ th[inode[i].lock].pc \notin WritePc \cup TruncPc

Undisturbed(t) == Clean(th[t].ino) /\ ver[th[t].ino] = th[t].ver

ReadOnTheWay(t) ==
    LET i == th[t].ino
    IN  /\ th[t].buf \in Seq(Int) /\ Len(th[t].buf) <= th[t].ret
        /\ th[t].pc = "rdone" => Len(th[t].buf) = th[t].ret
        /\ th[t].pos + th[t].ret <= MaxFileSize
        /\ th[t].ver <= ver[i]
        /\ \A p \in Offsets : th[t].pos <= p /\ p < th[t].pos + th[t].ret => inode[i].data[p] # Fresh
        /\ \A k \in 1 .. Len(th[t].buf) : th[t].buf[k] # Fresh
        /\ Undisturbed(t) =>
              /\ th[t].pos + th[t].ret <= inode[i].isize
              /\ \A k \in 1 .. Len(th[t].buf) : th[t].buf[k] = inode[i].data[th[t].pos + k - 1]

Reading(t) == /\ th[t].pos >= 0
              /\ th[t].pc = "rbytes" \/ (th[t].pc = "rdone" /\ th[t].ret > 0)

Reads == \A t \in Threads : Reading(t) => ReadOnTheWay(t)

-----------------------------------------------------------------------------
(* The versions an fsync has covered.                                      *)
Versions ==
    /\ \A i \in Inodes : synced[i] <= ver[i]
    /\ \A t \in Threads : /\ th[t].pc \in {"wunlock", "wsync", "wdone"} /\ th[t].ret > 0
                          => th[t].ver <= ver[th[t].ino]
    /\ SyncWritesDurable

FSInv == Typed /\ Locked /\ OffsetLoaded /\ OffsetExact /\ Contents /\ Versions /\ Reads

-----------------------------------------------------------------------------
(* The least and the greatest of two numbers.                              *)
LEMMA MinOfTwo ==
    ASSUME NEW a \in Int, NEW b \in Int PROVE Min({a, b}) = IF a <= b THEN a ELSE b
BY DEF Min

LEMMA MaxOfTwo ==
    ASSUME NEW a \in Int, NEW b \in Int PROVE Max({a, b}) = IF a >= b THEN a ELSE b
BY DEF Max

(* The arguments of a call have their types.                               *)
LEMMA Arguments ==
    ASSUME NEW c \in CallType
    PROVE  /\ c.op \in {"open", "creat", "unlink", "link", "rename", "truncate"} => c.name \in Names
           /\ c.op \in {"link", "rename"} => c.to \in Names
           /\ c.op = "truncate" => c.len \in Int
           /\ c.op \in {"write", "pwrite"} => c.bytes \in Seq(Nat)
           /\ c.op \in {"read", "pread"} => c.count \in Nat
           /\ c.op \in {"pread", "pwrite", "lseek"} => c.off \in Int
BY DEF CallType

(* What Set does to the threads' records.                                  *)
LEMMA Setting ==
    ASSUME ShapesOK, NEW t \in Threads, NEW fields,
           DOMAIN fields \subseteq ThreadFields, Set(t, fields)
    PROVE  /\ DOMAIN th' = Threads
           /\ \A u \in Threads : DOMAIN th'[u] = ThreadFields /\ (u # t => th'[u] = th[u])
           /\ \A x \in ThreadFields :
                 th'[t][x] = IF x \in DOMAIN fields THEN fields[x] ELSE th[t][x]
<1>1. th'[t] = Merge(fields, th[t]) /\ DOMAIN th' = Threads
  BY DEF Set, ShapesOK
<1>2. \A u \in Threads : u # t => th'[u] = th[u]
  BY DEF Set, ShapesOK
<1>3. DOMAIN th'[t] = ThreadFields
  BY <1>1 DEF Merge, ShapesOK
<1> QED BY <1>1, <1>2, <1>3 DEF Merge, ShapesOK

(* A thread's type is a matter of its own record.                          *)
LEMMA SameThread ==
    ASSUME NEW u \in Threads, ThreadOK(u), th'[u] = th[u]
    PROVE  ThreadOK(u)'
BY DEF ThreadOK, OpAgrees, Call, Length

(* A call that returns leaves its thread between two calls.                *)
LEMMA Returning ==
    ASSUME Typed, NEW t \in Threads, NEW v, th[t].todo # <<>>, Return(t, v)
    PROVE  /\ DOMAIN th' = Threads
           /\ \A u \in Threads : /\ DOMAIN th'[u] = ThreadFields
                                 /\ u # t => th'[u] = th[u]
                                 /\ ThreadOK(u)'
           /\ th'[t].pc = "call"
           /\ \A x \in ThreadFields \ {"pc", "todo", "rets"} : th'[t][x] = th[t][x]
<1>1. DOMAIN Returned(t, v) = {"pc", "todo", "rets"}
      /\ Returned(t, v).pc = "call" /\ Returned(t, v).todo = Tail(th[t].todo)
  BY DEF Returned
<1>2. ShapesOK /\ Set(t, Returned(t, v)) /\ DOMAIN Returned(t, v) \subseteq ThreadFields
  BY <1>1 DEF Typed, Return, ThreadFields
<1>3. /\ DOMAIN th' = Threads
      /\ \A u \in Threads : DOMAIN th'[u] = ThreadFields /\ (u # t => th'[u] = th[u])
      /\ \A x \in ThreadFields :
           th'[t][x] = IF x \in DOMAIN Returned(t, v) THEN Returned(t, v)[x] ELSE th[t][x]
  BY <1>2, Setting
<1>4. th'[t].pc = "call" /\ th'[t].todo = Tail(th[t].todo)
  BY <1>1, <1>3 DEF ThreadFields
<1>5. \A x \in ThreadFields \ {"pc", "todo", "rets"} : th'[t][x] = th[t][x]
  BY <1>1, <1>3
<1>6. ThreadOK(t)
  BY DEF Typed
<1>7. Tail(th[t].todo) \in Seq(CallType)
  BY <1>6 DEF ThreadOK
<1>8. ThreadOK(t)'
  BY <1>4, <1>5, <1>6, <1>7 DEF ThreadOK, OpAgrees, TransPc, ThreadFields
<1>9. \A u \in Threads : u # t => ThreadOK(u)'
  BY <1>3, SameThread DEF Typed
<1> QED BY <1>3, <1>4, <1>5, <1>8, <1>9

(* A step of thread t leaves the other threads alone and every thread well *)
(* typed.                                                                  *)
LostKept(t) == th[t].lost \subseteq th'[t].lost

OneMoved(t) ==
    /\ LostKept(t) /\ DOMAIN th' = Threads
    /\ \A u \in Threads : /\ DOMAIN th'[u] = ThreadFields
                          /\ u # t => th'[u] = th[u]
                          /\ ThreadOK(u)'

(* Inside a call only the fields named change, and the call stays.         *)
LEMMA Moving ==
    ASSUME Typed, NEW t \in Threads, NEW fields,
           DOMAIN fields \subseteq ThreadFields \ {"todo", "lost"}, Set(t, fields)
    PROVE  /\ th'[t].todo = th[t].todo /\ Call(t)' = Call(t) /\ LostKept(t)
           /\ \A x \in ThreadFields :
                 th'[t][x] = IF x \in DOMAIN fields THEN fields[x] ELSE th[t][x]
           /\ \A u \in Threads : u # t => th'[u] = th[u]
           /\ ThreadOK(t)' => OneMoved(t)
<1>1. ShapesOK
  BY DEF Typed
<1>2. /\ DOMAIN th' = Threads
      /\ \A u \in Threads : DOMAIN th'[u] = ThreadFields /\ (u # t => th'[u] = th[u])
      /\ \A x \in ThreadFields :
           th'[t][x] = IF x \in DOMAIN fields THEN fields[x] ELSE th[t][x]
  BY <1>1, Setting
<1>3. th'[t].todo = th[t].todo
  BY <1>2 DEF ThreadFields
<1>4. \A u \in Threads : u # t => ThreadOK(u)'
  BY <1>2, SameThread DEF Typed
<1>5. LostKept(t)
  BY <1>2 DEF LostKept, ThreadFields
<1> QED BY <1>2, <1>3, <1>4, <1>5 DEF OneMoved, Call

LEMMA Returned1 ==
    ASSUME Typed, NEW t \in Threads, NEW v, th[t].todo # <<>>, Return(t, v)
    PROVE  OneMoved(t) /\ th'[t].pc = "call" /\ th'[t].ino = th[t].ino
BY Returning DEF OneMoved, LostKept, ThreadFields

(* A lost write returns too.                                               *)
Lost(t) == Set(t, Merge([lost |-> th[t].lost \cup {Fd(t)}], Returned(t, 0)))

LEMMA Losing ==
    ASSUME Typed, NEW t \in Threads, th[t].todo # <<>>, Lost(t)
    PROVE  /\ OneMoved(t) /\ th'[t].pc = "call" /\ th'[t].lost = th[t].lost \cup {Fd(t)}
           /\ \A x \in ThreadFields \ {"pc", "todo", "rets", "lost"} : th'[t][x] = th[t][x]
<1> DEFINE l == th[t].lost \cup {Fd(t)}
           fields == Merge([lost |-> l], Returned(t, 0))
<1>1. /\ DOMAIN fields = {"pc", "todo", "rets", "lost"} /\ fields.pc = "call"
      /\ fields.todo = Tail(th[t].todo) /\ fields.lost = l
  BY DEF Returned, Merge
<1>2. ShapesOK /\ Set(t, fields) /\ DOMAIN fields \subseteq ThreadFields
  BY <1>1 DEF Typed, Lost, ThreadFields
<1> HIDE DEF fields, l
<1>3. /\ DOMAIN th' = Threads
      /\ \A u \in Threads : DOMAIN th'[u] = ThreadFields /\ (u # t => th'[u] = th[u])
      /\ \A x \in ThreadFields :
           th'[t][x] = IF x \in DOMAIN fields THEN fields[x] ELSE th[t][x]
  BY <1>2, Setting
<1>4. th'[t].pc = "call" /\ th'[t].todo = Tail(th[t].todo) /\ th'[t].lost = l
  BY <1>1, <1>3 DEF ThreadFields
<1>5. \A x \in ThreadFields \ {"pc", "todo", "rets", "lost"} : th'[t][x] = th[t][x]
  BY <1>1, <1>3
<1>6. ThreadOK(t)
  BY DEF Typed
<1>7. Tail(th[t].todo) \in Seq(CallType)
  BY <1>6 DEF ThreadOK
<1>8. ThreadOK(t)'
  BY <1>4, <1>5, <1>6, <1>7 DEF ThreadOK, OpAgrees, TransPc, ThreadFields
<1>9. \A u \in Threads : u # t => ThreadOK(u)'
  BY <1>3, SameThread DEF Typed
<1> QED BY <1>3, <1>4, <1>5, <1>8, <1>9 DEF OneMoved, LostKept, l

(* How a read or a write ends.                                             *)
LEMMA Ends ==
    ASSUME NEW t \in Threads, ReadDone(t) \/ WriteDone(t)
    PROVE  /\ error = "none" /\ th[t].pc \in {"rdone", "wdone"}
           /\ UNCHANGED <<mode, dir, dirLock, dirTrans, inode, errno, error, want, ver, synced,
                          mdwrite>>
           /\ \/ MoveOffset(t) \/ KeepOffset(t)
              \/ /\ Lost(t) /\ UNCHANGED file
                 /\ th[t].pc = "wdone" /\ Call(t).op = "write"
                 /\ moved' = [moved EXCEPT ![Fd(t)] = @ + th[t].ret]
BY DEF ReadDone, WriteDone, LostWrite, Lost, At

(* The parts of a typed state, put together after a step.                  *)
LEMMA TypedStep ==
    ASSUME Typed, NEW t \in Threads, OneMoved(t), mode' = mode,
           inode' \in [Inodes -> InodeType],
           \A i \in Inodes : inode[i].made => inode'[i].made,
           inode'[th'[t].ino].made,
           dir' \in [Names -> Inodes \cup {0}],
           \A n \in Names : dir'[n] # 0 => inode'[dir'[n]].made,
           dirLock' \in Threads \cup {Free}, dirTrans' \in {0, 1},
           \A f \in DOMAIN file' : /\ DOMAIN file'[f] = FileFields
                                   /\ file'[f].inode \in Inodes
                                   /\ file'[f].lock \in Threads \cup {Free}
                                   /\ file'[f].offset \in Int
                                   /\ inode'[file'[f].inode].made,
           DOMAIN moved' = DOMAIN file',
           ver' \in [Inodes -> Nat], synced' \in [Inodes -> Nat],
           error' \in {"none", "VE_SystemError", "VE_InvalidTruncate", "VE_AccessFreed"}
    PROVE  Typed'
<1>1. ShapesOK'
  BY DEF ShapesOK, OneMoved, Typed
<1>2. \A u \in Threads : ThreadOK(u)'
  BY DEF OneMoved
<1>3. \A u \in Threads : inode'[th'[u].ino].made
  BY DEF OneMoved, Typed, ReferencesMade, ThreadOK
<1>4. ReferencesMade'
  BY <1>3 DEF ReferencesMade
<1> QED BY <1>1, <1>2, <1>4 DEF Typed

(* Most steps leave the inodes and the directory alone.                    *)
LEMMA TypedQuietStep ==
    ASSUME Typed, NEW t \in Threads, OneMoved(t),
           UNCHANGED <<mode, inode, dir, file, moved, ver>>,
           inode[th'[t].ino].made,
           dirLock' \in Threads \cup {Free}, dirTrans' \in {0, 1},
           synced' \in [Inodes -> Nat],
           error' \in {"none", "VE_SystemError", "VE_InvalidTruncate", "VE_AccessFreed"}
    PROVE  Typed'
<1>1. ShapesOK /\ ReferencesMade
  BY DEF Typed
<1>2. /\ inode' \in [Inodes -> InodeType]
      /\ \A i \in Inodes : inode[i].made => inode'[i].made
      /\ dir' \in [Names -> Inodes \cup {0}]
      /\ \A n \in Names : dir'[n] # 0 => inode'[dir'[n]].made
      /\ ver' \in [Inodes -> Nat]
  BY <1>1 DEF ShapesOK, ReferencesMade
<1>3. /\ \A f \in DOMAIN file' : /\ DOMAIN file'[f] = FileFields
                                 /\ file'[f].inode \in Inodes
                                 /\ file'[f].lock \in Threads \cup {Free}
                                 /\ file'[f].offset \in Int
                                 /\ inode'[file'[f].inode].made
      /\ DOMAIN moved' = DOMAIN file'
  BY <1>1 DEF ShapesOK, ReferencesMade
<1> QED BY <1>2, <1>3, TypedStep

LEMMA ErrorTyped ==
    ASSUME ShapesOK, NEW c, handleSystemError(c) \/ Fine
    PROVE  error' \in {"none", "VE_SystemError", "VE_InvalidTruncate", "VE_AccessFreed"}
BY DEF ShapesOK, handleSystemError, Fine

(* The steps on names that make no inode and open no file.                 *)
LEMMA TypedNames ==
    ASSUME Typed, NEW t \in Threads,
           \/ CallOpen(t) \/ LookupTrans(t) \/ LookupEntry(t) \/ LockDir(t)
           \/ LookupTruncate(t)
    PROVE  Typed'
<1> USE DEF history
<1>0. ShapesOK /\ ReferencesMade /\ ThreadOK(t) /\ inode[th[t].ino].made
  BY DEF Typed, ReferencesMade
<1>1. CASE CallOpen(t)
  <2>1. th[t].todo # <<>> /\ Call(t).op \in {"open", "creat"}
    BY <1>1 DEF CallOpen, Calls, At
  <2>2. OneMoved(t) /\ th'[t].ino = th[t].ino
    <3>1. CASE Return(t, -1)
      BY <2>1, <3>1, Returned1
    <3>2. CASE ~Return(t, -1)
      <4>1. Set(t, [pc |-> IF "CREAT" \in CallFlags(t) THEN "lockdir" ELSE "lookup",
                    flags |-> CallFlags(t)])
        BY <1>1, <3>2 DEF CallOpen
      <4>2. /\ th'[t].pc \in {"lockdir", "lookup"} /\ Call(t)' = Call(t)
            /\ th'[t].todo = th[t].todo
            /\ \A x \in ThreadFields \ {"pc", "flags"} : th'[t][x] = th[t][x]
            /\ ThreadOK(t)' => OneMoved(t)
        BY <4>1, Moving DEF ThreadFields
      <4>3. ThreadOK(t)'
        BY <1>0, <2>1, <4>2 DEF ThreadOK, OpAgrees, TransPc, ThreadFields
      <4> QED BY <4>2, <4>3 DEF ThreadFields
    <3> QED BY <3>1, <3>2
  <2>3. error' \in {"none", "VE_SystemError", "VE_InvalidTruncate", "VE_AccessFreed"}
    BY <1>0, <1>1, ErrorTyped DEF CallOpen
  <2> QED BY <1>0, <1>1, <2>2, <2>3, TypedQuietStep DEF CallOpen, ShapesOK
<1>2. CASE LookupTrans(t)
  <2>1. th[t].todo # <<>> /\ Call(t).op \in {"open", "creat"}
    BY <1>0, <1>2 DEF LookupTrans, At, ThreadOK, OpAgrees
  <2>2. /\ th'[t].pc \in {"blocked", "entry"} /\ Call(t)' = Call(t)
        /\ \A x \in ThreadFields \ {"pc"} : th'[t][x] = th[t][x]
        /\ ThreadOK(t)' => OneMoved(t)
    BY <1>2, Moving DEF LookupTrans, ThreadFields
  <2>3. ThreadOK(t)'
    BY <1>0, <2>1, <2>2 DEF ThreadOK, OpAgrees, TransPc, ThreadFields
  <2> QED BY <1>0, <1>2, <2>2, <2>3, TypedQuietStep DEF LookupTrans, ShapesOK, ThreadFields
<1>3. CASE LookupEntry(t)
  <2>1. th[t].todo # <<>> /\ Call(t).op \in {"open", "creat"}
    BY <1>0, <1>3 DEF LookupEntry, At, ThreadOK, OpAgrees
  <2>2. Call(t) \in CallType
    BY <1>0, <2>1 DEF ThreadOK, Call
  <2>3. dir[Call(t).name] \in Inodes \cup {0}
    BY <1>0, <2>1, <2>2, Arguments DEF ShapesOK
  <2>4. OneMoved(t) /\ inode[th'[t].ino].made
    <3>1. CASE dir[Call(t).name] = 0
      BY <1>0, <1>3, <2>1, <3>1, Returned1 DEF LookupEntry
    <3>2. CASE dir[Call(t).name] # 0
      <4>1. Set(t, [pc |-> "open", ino |-> dir[Call(t).name],
                    seen |-> Append(th[t].seen, <<Call(t).name, dir[Call(t).name]>>)])
        BY <1>3, <3>2 DEF LookupEntry
      <4>2. /\ th'[t].pc = "open" /\ th'[t].ino = dir[Call(t).name] /\ Call(t)' = Call(t)
            /\ \A x \in ThreadFields \ {"pc", "ino", "seen"} : th'[t][x] = th[t][x]
            /\ ThreadOK(t)' => OneMoved(t)
        BY <4>1, Moving DEF ThreadFields
      <4>3. ThreadOK(t)'
        BY <1>0, <2>1, <2>3, <3>2, <4>2 DEF ThreadOK, OpAgrees, TransPc, ThreadFields
      <4>4. inode[dir[Call(t).name]].made
        BY <1>0, <2>1, <2>2, <3>2, Arguments DEF ReferencesMade
      <4> QED BY <4>2, <4>3, <4>4
    <3> QED BY <3>1, <3>2
  <2>5. error' \in {"none", "VE_SystemError", "VE_InvalidTruncate", "VE_AccessFreed"}
    BY <1>0, <1>3, ErrorTyped DEF LookupEntry
  <2> QED BY <1>0, <1>3, <2>4, <2>5, TypedQuietStep DEF LookupEntry, ShapesOK
<1>4. CASE LockDir(t)
  <2>1. th[t].todo # <<>>
        /\ Call(t).op \in {"open", "creat", "link", "unlink", "rename", "truncate"}
    BY <1>0, <1>4 DEF LockDir, At, Calls, ThreadOK, OpAgrees
  <2>2. /\ th'[t].pc = "dir" /\ Call(t)' = Call(t)
        /\ \A x \in ThreadFields \ {"pc"} : th'[t][x] = th[t][x]
        /\ ThreadOK(t)' => OneMoved(t)
    BY <1>4, Moving DEF LockDir, ThreadFields
  <2>3. ThreadOK(t)'
    BY <1>0, <2>1, <2>2 DEF ThreadOK, OpAgrees, TransPc, ThreadFields
  <2> QED BY <1>0, <1>4, <2>2, <2>3, TypedQuietStep DEF LockDir, ShapesOK, ThreadFields
<1>5. CASE LookupTruncate(t)
  <2>1. th[t].todo # <<>> /\ Call(t).op = "truncate"
    BY <1>0, <1>5 DEF LookupTruncate, At, ThreadOK
  <2>2. Call(t) \in CallType
    BY <1>0, <2>1 DEF ThreadOK, Call
  <2>3. dir[Call(t).name] \in Inodes \cup {0}
    BY <1>0, <2>1, <2>2, Arguments DEF ShapesOK
  <2>4. OneMoved(t) /\ inode[th'[t].ino].made
    <3>1. CASE Return(t, -1)
      BY <1>0, <2>1, <3>1, Returned1
    <3>2. CASE Set(t, [pc |-> "blocked"])
      <4>1. /\ th'[t].pc = "blocked" /\ Call(t)' = Call(t)
            /\ \A x \in ThreadFields \ {"pc"} : th'[t][x] = th[t][x]
            /\ ThreadOK(t)' => OneMoved(t)
        BY <3>2, Moving DEF ThreadFields
      <4>2. ThreadOK(t)'
        BY <1>0, <2>1, <4>1 DEF ThreadOK, OpAgrees, TransPc, ThreadFields
      <4> QED BY <1>0, <4>1, <4>2 DEF ThreadFields
    <3>3. CASE Set(t, [pc |-> "locktrunc", ino |-> dir[Call(t).name]]) /\ dir[Call(t).name] # 0
      <4>1. /\ th'[t].pc = "locktrunc" /\ th'[t].ino = dir[Call(t).name] /\ Call(t)' = Call(t)
            /\ \A x \in ThreadFields \ {"pc", "ino"} : th'[t][x] = th[t][x]
            /\ ThreadOK(t)' => OneMoved(t)
        BY <3>3, Moving DEF ThreadFields
      <4>2. ThreadOK(t)'
        BY <1>0, <2>1, <2>3, <3>3, <4>1 DEF ThreadOK, OpAgrees, TransPc, ThreadFields
      <4>3. inode[dir[Call(t).name]].made
        BY <1>0, <2>1, <2>2, <3>3, Arguments DEF ReferencesMade
      <4> QED BY <4>1, <4>2, <4>3
    <3> QED BY <1>5, <3>1, <3>2, <3>3 DEF LookupTruncate
  <2>5. error' \in {"none", "VE_SystemError", "VE_InvalidTruncate", "VE_AccessFreed"}
    BY <1>0, <1>5, ErrorTyped DEF LookupTruncate
  <2>6. dirLock' \in Threads \cup {Free}
    BY <1>0, <1>5 DEF LookupTruncate, ShapesOK
  <2> QED BY <1>0, <1>5, <2>4, <2>5, <2>6, TypedQuietStep DEF LookupTruncate, ShapesOK
<1> QED BY <1>1, <1>2, <1>3, <1>4, <1>5

(* The steps that change the directory, and rename().                      *)
LEMMA TypedDirectory ==
    ASSUME Typed, NEW t \in Threads,
           \/ CallLink(t) \/ CallUnlink(t) \/ CallRename(t)
           \/ RenameLink(t) \/ RenameUnlink(t) \/ RenameEnd(t)
    PROVE  Typed'
<1> USE DEF history
<1>0. ShapesOK /\ ReferencesMade /\ ThreadOK(t) /\ inode[th[t].ino].made
  BY DEF Typed, ReferencesMade
<1>1. th[t].todo # <<>> /\ Call(t) \in CallType
      /\ Call(t).op \in {"link", "unlink", "rename"}
  BY <1>0 DEF CallLink, CallUnlink, CallRename, RenameLink, RenameUnlink, RenameEnd, At,
              ThreadOK, OpAgrees, TransPc, Call
<1>2. Call(t).name \in Names /\ (Call(t).op # "unlink" => Call(t).to \in Names)
  BY <1>1, Arguments
<1>3. OneMoved(t) /\ inode[th'[t].ino].made
  <2>1. CASE \E v : Return(t, v)
    BY <1>0, <1>1, <2>1, Returned1
  <2>2. CASE \E pc \in {"runlink", "rend"} : Set(t, [pc |-> pc]) /\ Call(t).op = "rename"
    <3>1. /\ th'[t].pc \in {"runlink", "rend"} /\ Call(t)' = Call(t)
          /\ \A x \in ThreadFields \ {"pc"} : th'[t][x] = th[t][x]
          /\ ThreadOK(t)' => OneMoved(t)
      BY <2>2, Moving DEF ThreadFields
    <3>2. ThreadOK(t)'
      BY <1>0, <1>1, <2>2, <3>1 DEF ThreadOK, OpAgrees, TransPc, ThreadFields
    <3> QED BY <1>0, <3>1, <3>2 DEF ThreadFields
  <2>3. CASE /\ Set(t, [pc |-> "rlink", ino |-> dir[Call(t).name]]) /\ dir[Call(t).name] # 0
             /\ Call(t).op = "rename"
    <3>1. /\ th'[t].pc = "rlink" /\ th'[t].ino = dir[Call(t).name] /\ Call(t)' = Call(t)
          /\ \A x \in ThreadFields \ {"pc", "ino"} : th'[t][x] = th[t][x]
          /\ ThreadOK(t)' => OneMoved(t)
      BY <2>3, Moving DEF ThreadFields
    <3>2. dir[Call(t).name] \in Inodes
      BY <1>0, <1>2, <2>3 DEF ShapesOK
    <3>3. ThreadOK(t)'
      BY <1>0, <1>1, <2>3, <3>1, <3>2 DEF ThreadOK, OpAgrees, TransPc, ThreadFields
    <3> QED BY <1>0, <1>2, <2>3, <3>1, <3>3 DEF ReferencesMade
  <2>4. CASE RenameLink(t) \/ RenameUnlink(t)
    <3>1. Call(t).op = "rename"
      BY <1>0, <2>4 DEF RenameLink, RenameUnlink, At, ThreadOK, OpAgrees, TransPc
    <3> QED BY <2>2, <2>4, <3>1 DEF RenameLink, RenameUnlink
  <2> QED BY <2>1, <2>3, <2>4 DEF CallLink, CallUnlink, CallRename, RenameEnd
<1>4. /\ dir' \in [Names -> Inodes \cup {0}]
      /\ \A n \in Names : dir'[n] # 0 => inode[dir'[n]].made
  <2>1. dir' = dir \/ \E n \in Names, i \in Inodes \cup {0} :
                         /\ dir' = [dir EXCEPT ![n] = i]
                         /\ i # 0 => inode[i].made
    <3>1. CASE CallLink(t)
      BY <1>0, <1>2, <3>1 DEF CallLink, updateDirNameInode, ShapesOK, ReferencesMade
    <3>2. CASE CallUnlink(t)
      BY <1>2, <3>2 DEF CallUnlink, updateDirNameInode
    <3>3. CASE RenameLink(t)
      <4>1. Call(t).op = "rename"
        BY <1>0, <3>3 DEF RenameLink, At, ThreadOK, OpAgrees, TransPc
      <4> QED BY <1>0, <1>2, <3>3, <4>1 DEF RenameLink, updateDirNameInode, ThreadOK
    <3>4. CASE RenameUnlink(t)
      BY <1>2, <3>4 DEF RenameUnlink, updateDirNameInode
    <3>5. CASE CallRename(t) \/ RenameEnd(t)
      BY <3>5 DEF CallRename, RenameEnd
    <3> QED BY <3>1, <3>2, <3>3, <3>4, <3>5
  <2> QED BY <1>0, <2>1 DEF ShapesOK, ReferencesMade
<1>5. /\ UNCHANGED <<mode, inode, file, moved, ver, synced>>
      /\ dirLock' \in Threads \cup {Free} /\ dirTrans' \in {0, 1}
      /\ error' \in {"none", "VE_SystemError", "VE_InvalidTruncate", "VE_AccessFreed"}
  BY <1>0, ErrorTyped
     DEF CallLink, CallUnlink, CallRename, RenameLink, RenameUnlink, RenameEnd, ShapesOK
<1>6. /\ \A f \in DOMAIN file' : /\ DOMAIN file'[f] = FileFields
                                 /\ file'[f].inode \in Inodes
                                 /\ file'[f].lock \in Threads \cup {Free}
                                 /\ file'[f].offset \in Int
                                 /\ inode'[file'[f].inode].made
      /\ DOMAIN moved' = DOMAIN file'
  BY <1>0, <1>5 DEF ShapesOK, ReferencesMade
<1>7. inode' \in [Inodes -> InodeType] /\ ver' \in [Inodes -> Nat] /\ synced' \in [Inodes -> Nat]
  BY <1>0, <1>5 DEF ShapesOK
<1> QED BY <1>3, <1>4, <1>5, <1>6, <1>7, TypedStep

(* open(O_CREAT): a new inode gets a name.                                 *)
LEMMA TypedCreate ==
    ASSUME Typed, NEW t \in Threads, LookupOrCreate(t)
    PROVE  Typed'
<1> USE DEF history
<1>0. ShapesOK /\ ReferencesMade /\ ThreadOK(t) /\ inode[th[t].ino].made
  BY DEF Typed, ReferencesMade
<1>1. th[t].todo # <<>> /\ Call(t) \in CallType /\ Call(t).op \in {"open", "creat"}
  BY <1>0 DEF LookupOrCreate, At, ThreadOK, Call
<1>2. Call(t).name \in Names
  BY <1>1, Arguments
<1>3. CASE dirTrans = 1 \/ dir[Call(t).name] # 0
  <2>1. UNCHANGED <<mode, dir, inode, file, moved, ver, synced, error, dirTrans>>
    BY <1>3 DEF LookupOrCreate
  <2>2. \/ Set(t, [pc |-> "blocked"])
        \/ /\ dir[Call(t).name] # 0
           /\ Set(t, [pc |-> "open", ino |-> dir[Call(t).name],
                      seen |-> Append(th[t].seen, <<Call(t).name, dir[Call(t).name]>>)])
    BY <1>3 DEF LookupOrCreate
  <2>3. CASE Set(t, [pc |-> "blocked"])
    <3>1. /\ th'[t].pc = "blocked" /\ Call(t)' = Call(t)
          /\ \A x \in ThreadFields \ {"pc"} : th'[t][x] = th[t][x]
          /\ ThreadOK(t)' => OneMoved(t)
      BY <2>3, Moving DEF ThreadFields
    <3>2. ThreadOK(t)'
      BY <1>0, <1>1, <3>1 DEF ThreadOK, OpAgrees, TransPc, ThreadFields
    <3>3. inode[th'[t].ino].made
      BY <1>0, <3>1 DEF ThreadFields
    <3>4. dirLock' \in Threads \cup {Free}
      BY <1>0 DEF LookupOrCreate, ShapesOK
    <3> QED BY <1>0, <2>1, <3>1, <3>2, <3>3, <3>4, TypedQuietStep DEF ShapesOK
  <2>4. CASE /\ dir[Call(t).name] # 0
             /\ Set(t, [pc |-> "open", ino |-> dir[Call(t).name],
                        seen |-> Append(th[t].seen, <<Call(t).name, dir[Call(t).name]>>)])
    <3>1. /\ th'[t].pc = "open" /\ th'[t].ino = dir[Call(t).name] /\ Call(t)' = Call(t)
          /\ \A x \in ThreadFields \ {"pc", "ino", "seen"} : th'[t][x] = th[t][x]
          /\ ThreadOK(t)' => OneMoved(t)
      BY <2>4, Moving DEF ThreadFields
    <3>2. dir[Call(t).name] \in Inodes /\ inode[dir[Call(t).name]].made
      BY <1>0, <1>2, <2>4 DEF ShapesOK, ReferencesMade
    <3>3. ThreadOK(t)'
      BY <1>0, <1>1, <3>1, <3>2 DEF ThreadOK, OpAgrees, TransPc, ThreadFields
    <3>4. dirLock' \in Threads \cup {Free}
      BY <1>0 DEF LookupOrCreate, ShapesOK
    <3> QED BY <1>0, <2>1, <3>1, <3>2, <3>3, <3>4, TypedQuietStep DEF ShapesOK
  <2> QED BY <2>2, <2>3, <2>4
<1>4. CASE ~(dirTrans = 1 \/ dir[Call(t).name] # 0)
  <2>1. PICK i \in FreshInodes :
           /\ executeInodeCreateFS(Call(t).name, i)
           /\ Set(t, [pc |-> "open", ino |-> i, flags |-> th[t].flags \ {"TRUNC"}])
    BY <1>4 DEF LookupOrCreate
  <2>2. i \in Inodes
    BY DEF FreshInodes
  <2>3. /\ th'[t].pc = "open" /\ th'[t].ino = i /\ Call(t)' = Call(t)
        /\ \A x \in ThreadFields \ {"pc", "ino", "flags"} : th'[t][x] = th[t][x]
        /\ ThreadOK(t)' => OneMoved(t)
    BY <2>1, Moving DEF ThreadFields
  <2>4. ThreadOK(t)'
    BY <1>0, <1>1, <2>2, <2>3 DEF ThreadOK, OpAgrees, TransPc, ThreadFields
  <2>5. NewInode \in InodeType /\ NewInode.made
    BY DEF NewInode, InodeType, Fresh
  <2>6. /\ inode' = [inode EXCEPT ![i] = NewInode]
        /\ dir' = [dir EXCEPT ![Call(t).name] = i]
        /\ ver' = [ver EXCEPT ![i] = @ + 1]
    BY <2>1 DEF executeInodeCreateFS
  <2>7. /\ inode' \in [Inodes -> InodeType]
        /\ \A j \in Inodes : inode[j].made => inode'[j].made
        /\ inode'[i].made
        /\ ver' \in [Inodes -> Nat]
    BY <1>0, <2>2, <2>5, <2>6 DEF ShapesOK
  <2>8. /\ dir' \in [Names -> Inodes \cup {0}]
        /\ \A n \in Names : dir'[n] # 0 => inode'[dir'[n]].made
    BY <1>0, <1>2, <2>2, <2>6, <2>7 DEF ShapesOK, ReferencesMade
  <2>9. /\ UNCHANGED <<mode, file, moved, error, dirTrans>>
        /\ dirLock' \in Threads \cup {Free} /\ synced' \in [Inodes -> Nat]
    <3>1. executeFsyncFS(i) \/ UNCHANGED synced
      BY <2>1 DEF executeInodeCreateFS, updateInodeDisksizeFS
    <3> QED BY <1>0, <1>4, <2>2, <2>7, <3>1 DEF LookupOrCreate, executeFsyncFS, ShapesOK
  <2>10. /\ \A f \in DOMAIN file' : /\ DOMAIN file'[f] = FileFields
                                    /\ file'[f].inode \in Inodes
                                    /\ file'[f].lock \in Threads \cup {Free}
                                    /\ file'[f].offset \in Int
                                    /\ inode'[file'[f].inode].made
         /\ DOMAIN moved' = DOMAIN file'
    BY <1>0, <2>7, <2>9 DEF ShapesOK, ReferencesMade
  <2>11. inode'[th'[t].ino].made
    BY <2>3, <2>7
  <2> QED BY <1>0, <2>3, <2>4, <2>7, <2>8, <2>9, <2>10, <2>11, TypedStep DEF ShapesOK
<1> QED BY <1>3, <1>4

(* A description changes in its count, lock or offset only.                *)
FilesOK ==
    /\ \A f \in DOMAIN file : /\ DOMAIN file[f] = FileFields
                              /\ file[f].inode \in Inodes
                              /\ file[f].lock \in Threads \cup {Free}
                              /\ file[f].offset \in Int
                              /\ inode[file[f].inode].made
    /\ DOMAIN moved = DOMAIN file

(* A step that touches descriptions, but no inode and no name.             *)
LEMMA TypedFileStep ==
    ASSUME Typed, NEW t \in Threads, OneMoved(t), FilesOK',
           UNCHANGED <<mode, inode, dir, dirLock, dirTrans, ver, synced>>,
           inode[th'[t].ino].made,
           error' \in {"none", "VE_SystemError", "VE_InvalidTruncate", "VE_AccessFreed"}
    PROVE  Typed'
<1>1. ShapesOK /\ ReferencesMade
  BY DEF Typed
<1>2. /\ inode' \in [Inodes -> InodeType] /\ dir' \in [Names -> Inodes \cup {0}]
      /\ \A i \in Inodes : inode[i].made => inode'[i].made
      /\ \A n \in Names : dir'[n] # 0 => inode'[dir'[n]].made
      /\ ver' \in [Inodes -> Nat] /\ synced' \in [Inodes -> Nat]
      /\ dirLock' \in Threads \cup {Free} /\ dirTrans' \in {0, 1}
  BY <1>1 DEF ShapesOK, ReferencesMade
<1> QED BY <1>2, TypedStep DEF FilesOK

LEMMA FilesTyped == ASSUME Typed PROVE FilesOK
BY DEF Typed, ShapesOK, ReferencesMade, FilesOK

(* open() proper, and close().                                             *)
LEMMA TypedOpen ==
    ASSUME Typed, NEW t \in Threads, OpenFile(t) \/ CallClose(t)
    PROVE  Typed'
<1> USE DEF history
<1>0. ShapesOK /\ ReferencesMade /\ ThreadOK(t) /\ inode[th[t].ino].made
  BY DEF Typed, ReferencesMade
<1>1. th[t].todo # <<>> /\ Call(t) \in CallType
  BY <1>0 DEF OpenFile, CallClose, Calls, At, ThreadOK, Call
<1>2. CASE OpenFile(t)
  <2> DEFINE fd == handleDskOpen
             opened == [fd |-> fd, ino |-> th[t].ino]
             new == [inode |-> th[t].ino, count |-> 1, acc |-> CallAcc(t),
                     flags |-> th[t].flags, lock |-> Free, offset |-> 0]
  <2>1. Call(t).op \in {"open", "creat"}
    BY <1>0, <1>2 DEF OpenFile, At, ThreadOK, OpAgrees
  <2>2. file' = Merge(file, [f \in {fd} |-> new]) /\ moved' = Merge(moved, [f \in {fd} |-> 0])
    BY <1>2 DEF OpenFile
  <2> HIDE DEF fd
  <2>3. DOMAIN new = FileFields /\ new.inode = th[t].ino /\ new.lock = Free /\ new.offset = 0
    BY DEF FileFields
  <2>4. DOMAIN file' = DOMAIN file \cup {fd} /\ DOMAIN moved' = DOMAIN moved \cup {fd}
        /\ \A f \in DOMAIN file' : (f \in DOMAIN file /\ file'[f] = file[f]) \/ file'[f] = new
    BY <2>2 DEF Merge
  <2>5. FilesOK'
    <3>1. inode' = inode
      BY <1>2 DEF OpenFile
    <3>2. th[t].ino \in Inodes
      BY <1>0 DEF ThreadOK
    <3>3. FilesOK
      BY FilesTyped
    <3>4. DOMAIN moved' = DOMAIN file'
      BY <2>4, <3>3 DEF FilesOK
    <3> HIDE DEF new
    <3>5. ASSUME NEW f \in DOMAIN file'
          PROVE  /\ DOMAIN file'[f] = FileFields
                 /\ file'[f].inode \in Inodes
                 /\ file'[f].lock \in Threads \cup {Free}
                 /\ file'[f].offset \in Int
                 /\ inode[file'[f].inode].made
      <4>1. CASE f \in DOMAIN file /\ file'[f] = file[f]
        BY <3>3, <4>1 DEF FilesOK
      <4>2. CASE file'[f] = new
        BY <1>0, <2>3, <3>2, <4>2
      <4> QED BY <2>4, <4>1, <4>2
    <3> QED BY <3>1, <3>4, <3>5 DEF FilesOK
  <2>6. OneMoved(t) /\ th'[t].ino = th[t].ino
    <3>1. CASE \E v : Set(t, Merge(opened, Returned(t, v)))
      <4>1. PICK v : Set(t, Merge(opened, Returned(t, v)))
        BY <3>1
      <4> DEFINE fields == Merge(opened, Returned(t, v))
      <4>2. /\ DOMAIN fields = {"fd", "ino", "pc", "todo", "rets"}
            /\ fields.ino = th[t].ino /\ fields.pc = "call" /\ fields.todo = Tail(th[t].todo)
        BY DEF Merge, Returned
      <4> HIDE DEF fields
      <4>3. Set(t, fields)
        BY <4>1 DEF fields
      <4>4. /\ DOMAIN th' = Threads
            /\ \A u \in Threads : DOMAIN th'[u] = ThreadFields /\ (u # t => th'[u] = th[u])
            /\ \A x \in ThreadFields :
                 th'[t][x] = IF x \in DOMAIN fields THEN fields[x] ELSE th[t][x]
        BY <1>0, <4>2, <4>3, Setting DEF ThreadFields
      <4>5. /\ th'[t].ino = th[t].ino /\ th'[t].pc = "call"
            /\ th'[t].todo = Tail(th[t].todo)
            /\ \A x \in ThreadFields \ {"fd", "pc", "todo", "rets"} : th'[t][x] = th[t][x]
        BY <4>2, <4>4 DEF ThreadFields
      <4>6. Tail(th[t].todo) \in Seq(CallType)
        BY <1>0, <1>1 DEF ThreadOK
      <4>7. ThreadOK(t)'
        BY <1>0, <4>5, <4>6 DEF ThreadOK, OpAgrees, TransPc, ThreadFields
      <4>8. \A u \in Threads : u # t => ThreadOK(u)'
        BY <4>4, SameThread DEF Typed
      <4> QED BY <4>4, <4>5, <4>7, <4>8 DEF OneMoved, LostKept, ThreadFields
    <3>2. CASE Set(t, Merge(opened, [pc |-> "locktrunc"]))
      <4> DEFINE fields == Merge(opened, [pc |-> "locktrunc"])
      <4>1. /\ DOMAIN fields = {"fd", "ino", "pc"}
            /\ fields.ino = th[t].ino /\ fields.pc = "locktrunc"
        BY DEF Merge
      <4> HIDE DEF fields
      <4>2. Set(t, fields)
        BY <3>2 DEF fields
      <4>3. /\ th'[t].pc = "locktrunc" /\ th'[t].ino = th[t].ino /\ Call(t)' = Call(t)
            /\ \A x \in ThreadFields \ {"pc", "fd"} : th'[t][x] = th[t][x]
            /\ ThreadOK(t)' => OneMoved(t)
        BY <4>1, <4>2, Moving DEF ThreadFields
      <4>4. ThreadOK(t)'
        BY <1>0, <1>1, <2>1, <4>3 DEF ThreadOK, OpAgrees, TransPc, ThreadFields
      <4> QED BY <4>3, <4>4
    <3> QED BY <1>2, <3>1, <3>2 DEF OpenFile, fd
  <2>7. error' \in {"none", "VE_SystemError", "VE_InvalidTruncate", "VE_AccessFreed"}
    BY <1>0, <1>2 DEF OpenFile, ShapesOK, Fine
  <2> QED BY <1>0, <1>2, <2>5, <2>6, <2>7, TypedFileStep DEF OpenFile
<1>3. CASE CallClose(t)
  <2>1. OneMoved(t) /\ th'[t].ino = th[t].ino
    BY <1>1, <1>3, Returned1 DEF CallClose
  <2>2. FilesOK'
    <3>1. file' = file \/ (HasFile(t) /\ file' = [file EXCEPT ![Fd(t)].count = @ - 1])
      BY <1>3 DEF CallClose
    <3>2. /\ DOMAIN file' = DOMAIN file
          /\ \A f \in DOMAIN file : /\ DOMAIN file'[f] = DOMAIN file[f]
                                    /\ file'[f].inode = file[f].inode
                                    /\ file'[f].lock = file[f].lock
                                    /\ file'[f].offset = file[f].offset
      BY <3>1, FilesTyped DEF FilesOK, FileFields
    <3>3. moved' = moved /\ inode' = inode
      BY <1>3 DEF CallClose
    <3> QED BY <3>2, <3>3, FilesTyped DEF FilesOK
  <2>3. error' \in {"none", "VE_SystemError", "VE_InvalidTruncate", "VE_AccessFreed"}
    BY <1>0, <1>3, ErrorTyped DEF CallClose
  <2> QED BY <1>0, <1>3, <2>1, <2>2, <2>3, TypedFileStep DEF CallClose
<1> QED BY <1>2, <1>3

(* Reads, seeks, and the beginning and the end of writes.                  *)
LEMMA TypedPosition ==
    ASSUME Typed, NEW t \in Threads,
           \/ CallRead(t) \/ CallWrite(t) \/ CallLseek(t)
           \/ ReadDone(t) \/ WriteDone(t) \/ executeLseekFS(t)
    PROVE  Typed'
<1> USE DEF history
<1>0. ShapesOK /\ ReferencesMade /\ ThreadOK(t) /\ inode[th[t].ino].made /\ FilesOK
  BY FilesTyped DEF Typed, ReferencesMade
<1>1. th[t].todo # <<>> /\ Call(t) \in CallType
  BY <1>0 DEF CallRead, CallWrite, CallLseek, ReadDone, WriteDone, executeLseekFS, Calls, At,
              ThreadOK, Call
<1>2. CASE CallRead(t) \/ CallWrite(t) \/ CallLseek(t)
  <2>1. PICK pc \in {"rsize", "wflags", "lseek"} :
           /\ LockPos(t, pc)
           /\ pc = "rsize" => Call(t).op = "read"
           /\ pc = "wflags" => Call(t).op = "write"
           /\ pc = "lseek" => Call(t).op = "lseek"
    BY <1>2 DEF CallRead, CallWrite, CallLseek, Calls
  <2>2. HasFile(t) /\ file' = [file EXCEPT ![Fd(t)].lock = t]
        /\ Set(t, [pc |-> pc, pos |-> Desc(t).offset])
    BY <2>1 DEF LockPos, Alive
  <2>3. Desc(t).offset \in Int
    BY <1>0, <2>2 DEF FilesOK, HasFile, Desc
  <2>4. /\ th'[t].pc = pc /\ th'[t].pos = Desc(t).offset /\ Call(t)' = Call(t)
        /\ \A x \in ThreadFields \ {"pc", "pos"} : th'[t][x] = th[t][x]
        /\ ThreadOK(t)' => OneMoved(t)
    BY <2>2, Moving DEF ThreadFields
  <2>5. ThreadOK(t)'
    BY <1>0, <1>1, <2>1, <2>3, <2>4 DEF ThreadOK, OpAgrees, TransPc, ThreadFields
  <2>6. FilesOK'
    <3>1. /\ DOMAIN file' = DOMAIN file
          /\ \A f \in DOMAIN file : /\ DOMAIN file'[f] = DOMAIN file[f]
                                    /\ file'[f].inode = file[f].inode
                                    /\ file'[f].lock \in {t, file[f].lock}
                                    /\ file'[f].offset = file[f].offset
      BY <1>0, <2>2 DEF FilesOK, FileFields
    <3>2. moved' = moved /\ inode' = inode
      BY <2>1 DEF LockPos
    <3> QED BY <1>0, <3>1, <3>2 DEF FilesOK
  <2>7. inode[th'[t].ino].made
    BY <1>0, <2>4 DEF ThreadFields
  <2> QED BY <1>0, <2>1, <2>4, <2>5, <2>6, <2>7, TypedFileStep DEF LockPos, ShapesOK
<1>3. CASE ReadDone(t) \/ WriteDone(t) \/ executeLseekFS(t)
  <2>1. OneMoved(t) /\ th'[t].ino = th[t].ino
    <3>1. (\E v : Return(t, v)) \/ Lost(t)
      BY <1>3, Ends DEF MoveOffset, KeepOffset, executeLseekFS
    <3> QED BY <1>1, <3>1, Returned1, Losing DEF ThreadFields
  <2>2. \/ file' = file /\ (moved' = moved \/ \E e : moved' = [moved EXCEPT ![Fd(t)] = e])
        \/ /\ \E e \in Int : file' = [file EXCEPT ![Fd(t)].lock = Free, ![Fd(t)].offset = e]
           /\ \E e : moved' = [moved EXCEPT ![Fd(t)] = e]
    <3>2. CASE ReadDone(t) \/ WriteDone(t)
      <4>1. CASE MoveOffset(t)
        <5>1. Fd(t) \in DOMAIN file /\ file[Fd(t)].offset \in Int
          BY <1>0, <4>1 DEF MoveOffset, Alive, HasFile, FilesOK
        <5> DEFINE e == IF th[t].ret >= 0 THEN th[t].pos + th[t].ret ELSE file[Fd(t)].offset
        <5>2. e \in Int
          BY <1>0, <5>1 DEF ThreadOK
        <5>3. /\ file' = [file EXCEPT ![Fd(t)].lock = Free, ![Fd(t)].offset = e]
              /\ \E m : moved' = [moved EXCEPT ![Fd(t)] = m]
          BY <4>1, <5>1 DEF MoveOffset
        <5> QED BY <5>2, <5>3
      <4>2. CASE ~MoveOffset(t)
        BY <3>2, <4>2, Ends DEF KeepOffset
      <4> QED BY <4>1, <4>2
    <3>3. CASE executeLseekFS(t)
      <4>0. Fd(t) \in DOMAIN file /\ file[Fd(t)].offset \in Int
        BY <1>0, <3>3 DEF executeLseekFS, Alive, HasFile, FilesOK
      <4>1. Call(t).op = "lseek"
        BY <1>0, <3>3 DEF executeLseekFS, At, ThreadOK, OpAgrees
      <4>2. Call(t).off \in Int
        BY <1>1, <4>1, Arguments
      <4>3. readInodeSizeFS(Desc(t).inode) \in Int
        BY <1>0, <4>0 DEF readInodeSizeFS, Desc, FilesOK, ShapesOK, InodeType
      <4> DEFINE new == CASE Call(t).whence = "SET" -> Call(t).off
                    [] Call(t).whence = "END" -> Call(t).off + readInodeSizeFS(Desc(t).inode)
                    [] Call(t).whence = "CUR" -> th[t].pos + Call(t).off
                    [] OTHER -> -1
                 valid == Call(t).whence \in {"SET", "END", "CUR"}
      <4>4. valid => new \in Int
        BY <1>0, <4>2, <4>3 DEF ThreadOK
      <4>5. /\ file' = [file EXCEPT ![Fd(t)].lock = Free,
                                    ![Fd(t)].offset = IF valid THEN new ELSE @]
            /\ moved' = [moved EXCEPT ![Fd(t)] = IF valid THEN new ELSE @]
        BY <3>3 DEF executeLseekFS
      <4> HIDE DEF new, valid
      <4> DEFINE e == IF valid THEN new ELSE file[Fd(t)].offset
      <4>6. e \in Int
        BY <4>0, <4>4
      <4>7. file' = [file EXCEPT ![Fd(t)].lock = Free, ![Fd(t)].offset = e]
        BY <4>5, <4>0
      <4>8. \E m : moved' = [moved EXCEPT ![Fd(t)] = m]
        BY <4>5
      <4> QED BY <4>6, <4>7, <4>8
    <3> QED BY <1>3, <3>2, <3>3
  <2>3. /\ DOMAIN file' = DOMAIN file /\ DOMAIN moved' = DOMAIN moved
        /\ \A f \in DOMAIN file : /\ DOMAIN file'[f] = DOMAIN file[f]
                                  /\ file'[f].inode = file[f].inode
                                  /\ file'[f].lock \in {Free, file[f].lock}
                                  /\ file'[f].offset \in Int
    BY <1>0, <2>2 DEF FilesOK, FileFields
  <2>4. inode' = inode
    BY <1>3 DEF ReadDone, WriteDone, executeLseekFS
  <2>5. FilesOK'
    BY <1>0, <2>3, <2>4 DEF FilesOK
  <2>6. error' \in {"none", "VE_SystemError", "VE_InvalidTruncate", "VE_AccessFreed"}
    BY <1>0, <1>3, ErrorTyped DEF ReadDone, WriteDone, executeLseekFS, ShapesOK
  <2>7. /\ inode[th'[t].ino].made
        /\ UNCHANGED <<mode, inode, dir, dirLock, dirTrans, ver, synced>>
    BY <1>0, <1>3, <2>1 DEF ReadDone, WriteDone, executeLseekFS
  <2> QED BY <2>1, <2>5, <2>6, <2>7, TypedFileStep
<1> QED BY <1>2, <1>3

(* A read, an fsync, or a call that fails or ends: no inode changes.       *)
LEMMA TypedReads ==
    ASSUME Typed, NEW t \in Threads,
           \/ BadDescriptor(t) \/ CallPread(t) \/ CallPwrite(t) \/ ReadSize(t) \/ ReadByte(t)
           \/ WriteSync(t) \/ CallFsync(t) \/ CallSync(t) \/ UseFreed(t)
    PROVE  Typed'
<1> USE DEF history
<1>0. ShapesOK /\ ReferencesMade /\ ThreadOK(t) /\ inode[th[t].ino].made /\ FilesOK
  BY FilesTyped DEF Typed, ReferencesMade
<1>1. UNCHANGED <<mode, inode, dir, file, moved, ver, dirLock, dirTrans>>
  BY DEF BadDescriptor, CallPread, CallPwrite, AtOffset, ReadSize, ReadByte, WriteSync,
         CallFsync, CallSync, UseFreed
<1>2. dirLock' \in Threads \cup {Free} /\ dirTrans' \in {0, 1}
  BY <1>0, <1>1 DEF ShapesOK
<1>3. error' \in {"none", "VE_SystemError", "VE_InvalidTruncate", "VE_AccessFreed"}
  BY <1>0, ErrorTyped
     DEF BadDescriptor, CallPread, CallPwrite, AtOffset, ReadSize, ReadByte, WriteSync,
         CallFsync, CallSync, UseFreed, ShapesOK
<1>4. synced' \in [Inodes -> Nat]
  <2>1. CASE CallFsync(t)
    <3>1. Desc(t).inode \in Inodes
      BY <1>0, <2>1 DEF CallFsync, Alive, HasFile, Desc, FilesOK
    <3> QED BY <1>0, <2>1, <3>1 DEF CallFsync, ShapesOK
  <2>2. CASE CallSync(t)
    BY <1>0, <2>2 DEF CallSync, ShapesOK
  <2>3. CASE WriteSync(t)
    BY <1>0, <2>3 DEF WriteSync, ShapesOK, ThreadOK
  <2>4. CASE UNCHANGED synced
    BY <1>0, <2>4 DEF ShapesOK
  <2> QED BY <2>1, <2>2, <2>3, <2>4
          DEF BadDescriptor, CallPread, CallPwrite, AtOffset, ReadSize, ReadByte, UseFreed
<1>5. OneMoved(t) /\ inode[th'[t].ino].made
  <2>1. CASE BadDescriptor(t) \/ CallFsync(t) \/ CallSync(t)
    <3>1. th[t].todo # <<>> /\ \E v : Return(t, v)
      BY <2>1 DEF BadDescriptor, CallFsync, CallSync, Calls
    <3> QED BY <1>0, <3>1, Returned1
  <2>2. CASE UseFreed(t)
    <3>1. th' = th
      BY <2>2 DEF UseFreed
    <3>2. \A u \in Threads : ThreadOK(u)'
      BY <3>1, SameThread DEF Typed
    <3> QED BY <1>0, <3>1, <3>2 DEF OneMoved, LostKept, ShapesOK
  <2>3. CASE CallPread(t) \/ CallPwrite(t)
    <3>1. PICK pc \in {"rsize", "wflags"} :
             /\ Set(t, [pc |-> pc, pos |-> Call(t).off])
             /\ pc = "rsize" => Call(t).op = "pread"
             /\ pc = "wflags" => Call(t).op = "pwrite"
      BY <2>3 DEF CallPread, CallPwrite, Calls, AtOffset
    <3>2. th[t].todo # <<>> /\ Call(t).op \in {"pread", "pwrite"}
      BY <2>3 DEF CallPread, CallPwrite, Calls
    <3>3. Call(t).off \in Int
      BY <1>0, <3>2, Arguments DEF ThreadOK, Call
    <3>4. /\ th'[t].pc = pc /\ th'[t].pos = Call(t).off /\ Call(t)' = Call(t)
          /\ \A x \in ThreadFields \ {"pc", "pos"} : th'[t][x] = th[t][x]
          /\ ThreadOK(t)' => OneMoved(t)
      BY <3>1, Moving DEF ThreadFields
    <3>5. ThreadOK(t)'
      BY <1>0, <3>1, <3>2, <3>3, <3>4 DEF ThreadOK, OpAgrees, TransPc, ThreadFields
    <3> QED BY <1>0, <3>4, <3>5 DEF ThreadFields
  <2>4. CASE ReadSize(t)
    <3>1. Desc(t).inode \in Inodes /\ inode[Desc(t).inode].made
      BY <1>0, <2>4 DEF ReadSize, Alive, HasFile, Desc, FilesOK
    <3>2. th[t].todo # <<>> /\ Call(t).op \in {"read", "pread"}
      BY <1>0, <2>4 DEF ReadSize, At, ThreadOK, OpAgrees
    <3>3. Call(t).count \in Nat
      BY <1>0, <3>2, Arguments DEF ThreadOK, Call
    <3>4. readInodeSizeFS(Desc(t).inode) - th[t].pos \in Int
      BY <1>0, <3>1, SMTT(40) DEF readInodeSizeFS, ShapesOK, InodeType, ThreadOK
    <3> DEFINE nr == Min({Call(t).count, readInodeSizeFS(Desc(t).inode) - th[t].pos})
    <3>5. nr \in Int
      BY <3>3, <3>4, MinOfTwo, SMTT(40)
    <3>6. \/ Set(t, [pc |-> "rdone", ino |-> Desc(t).inode, ret |-> -1])
          \/ Set(t, [pc |-> "rdone", ino |-> Desc(t).inode, ret |-> 0])
          \/ Set(t, [pc |-> "rbytes", ino |-> Desc(t).inode, ret |-> nr, buf |-> <<>>,
                     ver |-> ver[Desc(t).inode]])
      BY <2>4 DEF ReadSize
    <3> HIDE DEF nr
    <3>7. /\ th'[t].pc \in {"rdone", "rbytes"} /\ Call(t)' = Call(t)
          /\ th'[t].ino = Desc(t).inode /\ th'[t].ret \in {-1, 0, nr}
          /\ th'[t].ver \in {th[t].ver, ver[Desc(t).inode]}
          /\ \A x \in ThreadFields \ {"pc", "ino", "ret", "buf", "ver"} : th'[t][x] = th[t][x]
          /\ ThreadOK(t)' => OneMoved(t)
      BY <3>6, Moving DEF ThreadFields
    <3>8. th'[t].ret \in Int /\ th'[t].ver \in Nat
      BY <1>0, <3>1, <3>5, <3>7 DEF ThreadOK, ShapesOK
    <3>9. ThreadOK(t)'
      BY <1>0, <3>1, <3>2, <3>7, <3>8 DEF ThreadOK, OpAgrees, TransPc, ThreadFields
    <3> QED BY <3>1, <3>7, <3>9
  <2>5. CASE ReadByte(t)
    <3>1. th[t].todo # <<>> /\ Call(t).op \in {"read", "pread"} /\ th[t].pc = "rbytes"
      BY <1>0, <2>5 DEF ReadByte, At, ThreadOK, OpAgrees
    <3>2. \/ \E pc \in {"blocked", "rdone"} : Set(t, [pc |-> pc])
          \/ \E b : Set(t, [buf |-> b])
      BY <2>5 DEF ReadByte
    <3>3. /\ th'[t].pc \in {"rdone", "rbytes", "blocked"} /\ Call(t)' = Call(t)
          /\ \A x \in ThreadFields \ {"pc", "buf"} : th'[t][x] = th[t][x]
          /\ ThreadOK(t)' => OneMoved(t)
      <4>1. CASE \E pc \in {"blocked", "rdone"} : Set(t, [pc |-> pc])
        BY <4>1, Moving DEF ThreadFields
      <4>2. CASE \E b : Set(t, [buf |-> b])
        BY <3>1, <4>2, Moving DEF ThreadFields
      <4> QED BY <3>2, <4>1, <4>2
    <3>4. ThreadOK(t)'
      BY <1>0, <3>1, <3>3 DEF ThreadOK, OpAgrees, TransPc, ThreadFields
    <3> QED BY <1>0, <3>3, <3>4 DEF ThreadFields
  <2>6. CASE WriteSync(t)
    <3>1. th[t].todo # <<>> /\ Call(t).op \in {"write", "pwrite"}
      BY <1>0, <2>6 DEF WriteSync, At, ThreadOK, OpAgrees
    <3>2. /\ th'[t].pc = "wdone" /\ Call(t)' = Call(t)
          /\ \A x \in ThreadFields \ {"pc"} : th'[t][x] = th[t][x]
          /\ ThreadOK(t)' => OneMoved(t)
      BY <2>6, Moving DEF WriteSync, ThreadFields
    <3>3. ThreadOK(t)'
      BY <1>0, <3>1, <3>2 DEF ThreadOK, OpAgrees, TransPc, ThreadFields
    <3> QED BY <1>0, <3>2, <3>3 DEF ThreadFields
  <2> QED BY <2>1, <2>2, <2>3, <2>4, <2>5, <2>6
<1> QED BY <1>1, <1>2, <1>3, <1>4, <1>5, TypedQuietStep

-----------------------------------------------------------------------------
(* Only inode i changes, and of it only the fields in S.                   *)
InodeFields == {"made", "lock", "isize", "dsize", "trans", "data"}
Touched(i, S) ==
    /\ inode' \in [Inodes -> InodeType]
    /\ \A j \in Inodes \ {i} : inode'[j] = inode[j]
    /\ \A x \in InodeFields \ S : inode'[i][x] = inode[i][x]

LEMMA TypedInodeStep ==
    ASSUME Typed, NEW t \in Threads, OneMoved(t), NEW i \in Inodes,
           NEW S \in SUBSET (InodeFields \ {"made"}), Touched(i, S),
           UNCHANGED <<mode, dir, dirLock, dirTrans, file, moved>>,
           inode[th'[t].ino].made,
           ver' \in [Inodes -> Nat], synced' \in [Inodes -> Nat],
           error' \in {"none", "VE_SystemError", "VE_InvalidTruncate", "VE_AccessFreed"}
    PROVE  Typed'
<1>1. ShapesOK /\ ReferencesMade
  BY DEF Typed
<1>2. inode'[i].made = inode[i].made
  BY DEF Touched, InodeFields
<1>3. \A j \in Inodes : inode'[j].made = inode[j].made
  BY <1>2 DEF Touched
<1>4. th'[t].ino \in Inodes
  BY DEF OneMoved, ThreadOK
<1>5. /\ dir' \in [Names -> Inodes \cup {0}]
      /\ \A n \in Names : dir'[n] # 0 => inode'[dir'[n]].made
      /\ dirLock' \in Threads \cup {Free} /\ dirTrans' \in {0, 1}
  BY <1>1, <1>3 DEF ShapesOK, ReferencesMade
<1>6. /\ \A f \in DOMAIN file' : /\ DOMAIN file'[f] = FileFields
                                 /\ file'[f].inode \in Inodes
                                 /\ file'[f].lock \in Threads \cup {Free}
                                 /\ file'[f].offset \in Int
                                 /\ inode'[file'[f].inode].made
      /\ DOMAIN moved' = DOMAIN file'
  BY <1>1, <1>3 DEF ShapesOK, ReferencesMade
<1> QED BY <1>3, <1>4, <1>5, <1>6, TypedStep DEF Touched

(* A lock of an inode changes hands.                                       *)
LEMMA Relocking ==
    ASSUME ShapesOK, NEW i \in Inodes, NEW l \in Threads \cup {Free},
           inode' = [inode EXCEPT ![i].lock = l]
    PROVE  Touched(i, {"lock"}) /\ inode'[i].lock = l
<1>1. inode[i] \in InodeType
  BY DEF ShapesOK
<1>2. [inode[i] EXCEPT !.lock = l] \in InodeType
  BY <1>1 DEF InodeType
<1>3. inode'[i] = [inode[i] EXCEPT !.lock = l] /\ \A j \in Inodes \ {i} : inode'[j] = inode[j]
  BY DEF ShapesOK
<1>4. inode' \in [Inodes -> InodeType]
  BY <1>2 DEF ShapesOK
<1>5. inode'[i].lock = l /\ \A x \in InodeFields \ {"lock"} : inode'[i][x] = inode[i][x]
  BY <1>1, <1>3 DEF InodeType, InodeFields
<1> QED BY <1>3, <1>4, <1>5 DEF Touched

LEMMA Resizing ==
    ASSUME ShapesOK, NEW i \in Inodes, NEW n \in Int, inode' = [inode EXCEPT ![i].isize = n]
    PROVE  Touched(i, {"isize"}) /\ inode'[i].isize = n
<1>1. inode[i] \in InodeType
  BY DEF ShapesOK
<1>2. [inode[i] EXCEPT !.isize = n] \in InodeType
  BY <1>1 DEF InodeType
<1>3. inode'[i] = [inode[i] EXCEPT !.isize = n] /\ \A j \in Inodes \ {i} : inode'[j] = inode[j]
  BY DEF ShapesOK
<1>4. inode' \in [Inodes -> InodeType]
  BY <1>2 DEF ShapesOK
<1>5. inode'[i].isize = n /\ \A x \in InodeFields \ {"isize"} : inode'[i][x] = inode[i][x]
  BY <1>1, <1>3 DEF InodeType, InodeFields
<1> QED BY <1>3, <1>4, <1>5 DEF Touched

LEMMA DiskResizing ==
    ASSUME ShapesOK, NEW i \in Inodes, NEW n \in Int, inode' = [inode EXCEPT ![i].dsize = n]
    PROVE  Touched(i, {"dsize"}) /\ inode'[i].dsize = n
<1>1. inode[i] \in InodeType
  BY DEF ShapesOK
<1>2. [inode[i] EXCEPT !.dsize = n] \in InodeType
  BY <1>1 DEF InodeType
<1>3. inode'[i] = [inode[i] EXCEPT !.dsize = n] /\ \A j \in Inodes \ {i} : inode'[j] = inode[j]
  BY DEF ShapesOK
<1>4. inode' \in [Inodes -> InodeType]
  BY <1>2 DEF ShapesOK
<1>5. inode'[i].dsize = n /\ \A x \in InodeFields \ {"dsize"} : inode'[i][x] = inode[i][x]
  BY <1>1, <1>3 DEF InodeType, InodeFields
<1> QED BY <1>3, <1>4, <1>5 DEF Touched

LEMMA Flagging ==
    ASSUME ShapesOK, NEW i \in Inodes, NEW v \in {0, 1}, inode' = [inode EXCEPT ![i].trans = v]
    PROVE  Touched(i, {"trans"})
<1>1. inode[i] \in InodeType
  BY DEF ShapesOK
<1>2. [inode[i] EXCEPT !.trans = v] \in InodeType
  BY <1>1 DEF InodeType
<1>3. inode'[i] = [inode[i] EXCEPT !.trans = v] /\ \A j \in Inodes \ {i} : inode'[j] = inode[j]
  BY DEF ShapesOK
<1>4. inode' \in [Inodes -> InodeType]
  BY <1>2 DEF ShapesOK
<1>5. \A x \in InodeFields \ {"trans"} : inode'[i][x] = inode[i][x]
  BY <1>1, <1>3 DEF InodeType, InodeFields
<1> QED BY <1>3, <1>4, <1>5 DEF Touched

LEMMA ByteSetting ==
    ASSUME ShapesOK, NEW i \in Inodes, NEW at \in Int, NEW b \in Int,
           inode' = [inode EXCEPT ![i].data[at] = b]
    PROVE  Touched(i, {"data"}) /\ inode'[i].data = [inode[i].data EXCEPT ![at] = b]
<1>1. inode[i] \in InodeType /\ inode[i].data \in [Offsets -> Int]
  BY DEF ShapesOK, InodeType
<1>2. PICK d \in [Offsets -> Int] : d = [inode[i].data EXCEPT ![at] = b]
  <2>1. PICK a \in [Offsets -> Int] : a = inode[i].data
    BY <1>1
  <2>2. \A x \in Offsets : [a EXCEPT ![at] = b][x] \in Int
    OBVIOUS
  <2>3. [a EXCEPT ![at] = b] \in [Offsets -> Int]
    BY <2>2
  <2> QED BY <2>1, <2>3
<1>3. inode' = [inode EXCEPT ![i].data = d]
  BY <1>1, <1>2 DEF ShapesOK, InodeType
<1>4. inode'[i] = [inode[i] EXCEPT !.data = d] /\ \A j \in Inodes \ {i} : inode'[j] = inode[j]
  BY <1>3 DEF ShapesOK
<1>5. [inode[i] EXCEPT !.data = d] \in InodeType
  BY <1>1 DEF InodeType
<1>6. inode' \in [Inodes -> InodeType]
  BY <1>3, <1>5 DEF ShapesOK
<1>7. inode'[i].data = d /\ \A x \in InodeFields \ {"data"} : inode'[i][x] = inode[i][x]
  BY <1>1, <1>4 DEF InodeType, InodeFields
<1> QED BY <1>2, <1>4, <1>6, <1>7 DEF Touched

(* What a truncation cuts the file to is a size.                           *)
LEMMA LengthTyped ==
    ASSUME Typed, NEW t \in Threads, th[t].pc \in {"trunc", "tzero", "tdisk", "tsize"}
    PROVE  Length(t) \in Nat /\ Call(t).op \in {"open", "creat", "truncate"}
<1>0. ThreadOK(t) /\ th[t].todo # <<>>
  BY DEF Typed, ThreadOK
<1>1. Call(t).op = "truncate" => Call(t).len \in Int
  BY <1>0, Arguments DEF ThreadOK, Call
<1>2. Length(t) >= 0 /\ Length(t) \in Int
  BY <1>0, <1>1 DEF ThreadOK, OpAgrees, Length
<1> QED BY <1>0, <1>2 DEF ThreadOK, OpAgrees

(* Taking an inode's lock to truncate.                                     *)
LEMMA TruncateLockEffect ==
    ASSUME Typed, NEW t \in Threads, TruncateLock(t)
    PROVE  /\ OneMoved(t) /\ th'[t].ino = th[t].ino /\ th[t].pc = "locktrunc"
           /\ \/ th'[t].pc = "call" /\ inode' = inode
              \/ /\ th'[t].pc = "trunc" /\ Call(t)' = Call(t) /\ th'[t].fd = th[t].fd
                 /\ inode[th[t].ino].lock = Free
                 /\ Touched(th[t].ino, {"lock"}) /\ inode'[th[t].ino].lock = t
<1>0. ShapesOK /\ ThreadOK(t) /\ th[t].pc = "locktrunc" /\ th[t].todo # <<>>
  BY DEF Typed, TruncateLock, At, ThreadOK
<1>1. CASE Return(t, -1) /\ UNCHANGED inode
  BY <1>0, <1>1, Returned1
<1>2. CASE /\ Length(t) >= 0 /\ Ino(t).lock = Free
           /\ inode' = [inode EXCEPT ![th[t].ino].lock = t] /\ Set(t, [pc |-> "trunc"])
  <2>1. /\ th'[t].pc = "trunc" /\ Call(t)' = Call(t)
        /\ \A x \in ThreadFields \ {"pc"} : th'[t][x] = th[t][x]
        /\ ThreadOK(t)' => OneMoved(t)
    BY <1>2, Moving DEF ThreadFields
  <2>2. Call(t).op \in {"open", "creat", "truncate"}
    BY <1>0 DEF ThreadOK, OpAgrees
  <2>3. Length(t)' = Length(t)
    BY <2>1 DEF Length
  <2>4. ThreadOK(t)'
    BY <1>0, <1>2, <2>1, <2>2, <2>3 DEF ThreadOK, OpAgrees, TransPc, ThreadFields
  <2>5. Touched(th[t].ino, {"lock"}) /\ inode'[th[t].ino].lock = t
    BY <1>0, <1>2, Relocking DEF ThreadOK
  <2> QED BY <1>0, <1>2, <2>1, <2>4, <2>5 DEF ThreadFields, Ino
<1> QED BY <1>1, <1>2 DEF TruncateLock

(* A truncation looks at the size of the file.                             *)
LEMMA TruncateEffect ==
    ASSUME Typed, NEW t \in Threads, executeTruncateFS(t)
    PROVE  /\ OneMoved(t) /\ Call(t)' = Call(t) /\ th[t].pc = "trunc"
           /\ \A x \in ThreadFields \ {"pc", "ret", "k"} : th'[t][x] = th[t][x]
           /\ Length(t) \in Nat /\ Length(t)' = Length(t)
           /\ \/ th'[t].pc = "tunlock"
              \/ /\ th'[t].pc = "tzero" /\ th'[t].k = inode[th[t].ino].isize
                 /\ Length(t) > inode[th[t].ino].isize /\ Length(t) < MaxFileSize
              \/ th'[t].pc = "tdisk" /\ Length(t) <= inode[th[t].ino].isize
<1> DEFINE old == inode[th[t].ino].isize
<1>0. /\ ShapesOK /\ ThreadOK(t) /\ th[t].pc = "trunc" /\ th[t].todo # <<>> /\ old \in Int
      /\ Length(t) \in Nat /\ Call(t).op \in {"open", "creat", "truncate"}
  BY LengthTyped DEF Typed, executeTruncateFS, At, ThreadOK, ShapesOK, InodeType
<1>1. \/ Set(t, [pc |-> "tunlock", ret |-> -1])
      \/ /\ Length(t) > old /\ Length(t) < MaxFileSize
         /\ Set(t, [pc |-> "tzero", k |-> old])
      \/ Length(t) <= old /\ Set(t, [pc |-> "tdisk"])
  BY DEF executeTruncateFS, readInodeSizeFS
<1> HIDE DEF old
<1>2. /\ Call(t)' = Call(t) /\ th'[t].ret \in Int /\ th'[t].k \in Int
      /\ \A x \in ThreadFields \ {"pc", "ret", "k"} : th'[t][x] = th[t][x]
      /\ th'[t].pc \in {"tunlock", "tzero", "tdisk"}
      /\ ThreadOK(t)' => OneMoved(t)
      /\ \/ th'[t].pc = "tunlock"
         \/ /\ th'[t].pc = "tzero" /\ th'[t].k = old
            /\ Length(t) > old /\ Length(t) < MaxFileSize
         \/ th'[t].pc = "tdisk" /\ Length(t) <= old
  <2>0. th[t].ret \in Int /\ th[t].k \in Int
    BY <1>0 DEF ThreadOK
  <2>1. CASE Set(t, [pc |-> "tunlock", ret |-> -1])
    <3>1. /\ th'[t].pc = "tunlock" /\ th'[t].ret = -1 /\ Call(t)' = Call(t)
          /\ \A x \in ThreadFields \ {"pc", "ret"} : th'[t][x] = th[t][x]
          /\ ThreadOK(t)' => OneMoved(t)
      BY <2>1, Moving DEF ThreadFields
    <3> QED BY <2>0, <3>1 DEF ThreadFields
  <2>2. CASE /\ Length(t) > old /\ Length(t) < MaxFileSize
             /\ Set(t, [pc |-> "tzero", k |-> old])
    <3>1. /\ th'[t].pc = "tzero" /\ th'[t].k = old /\ Call(t)' = Call(t)
          /\ \A x \in ThreadFields \ {"pc", "k"} : th'[t][x] = th[t][x]
          /\ ThreadOK(t)' => OneMoved(t)
      BY <2>2, Moving DEF ThreadFields
    <3> QED BY <1>0, <2>0, <2>2, <3>1 DEF ThreadFields
  <2>3. CASE Length(t) <= old /\ Set(t, [pc |-> "tdisk"])
    <3>1. /\ th'[t].pc = "tdisk" /\ Call(t)' = Call(t)
          /\ \A x \in ThreadFields \ {"pc"} : th'[t][x] = th[t][x]
          /\ ThreadOK(t)' => OneMoved(t)
      BY <2>3, Moving DEF ThreadFields
    <3> QED BY <2>0, <2>3, <3>1 DEF ThreadFields
  <2> QED BY <1>1, <2>1, <2>2, <2>3
<1>3. Length(t)' = Length(t)
  BY <1>2 DEF Length
<1>4. ThreadOK(t)'
  BY <1>0, <1>2, <1>3 DEF ThreadOK, OpAgrees, TransPc, ThreadFields
<1> QED BY <1>0, <1>2, <1>3, <1>4 DEF old

(* One byte of a range is zeroed.                                          *)
LEMMA ZeroEffect ==
    ASSUME Typed, NEW t \in Threads, NEW to, NEW next, zeroDskRangeFS(t, to, next),
           \/ th[t].pc = "tzero" /\ next = "tdisk"
           \/ th[t].pc = "wearly" /\ next = "wraise"
           \/ th[t].pc = "whole" /\ next = "wopen"
    PROVE  /\ OneMoved(t) /\ Call(t)' = Call(t) /\ th'[t].k = th[t].k + 1
           /\ \A x \in ThreadFields \ {"pc", "k"} : th'[t][x] = th[t][x]
           /\ th'[t].pc = IF th[t].k + 1 = to THEN next ELSE th[t].pc
           /\ Touched(th[t].ino, {"data"})
           /\ inode'[th[t].ino].data = [inode[th[t].ino].data EXCEPT ![th[t].k] = 0]
           /\ Length(t)' = Length(t)
<1> DEFINE pc == IF th[t].k + 1 = to THEN next ELSE th[t].pc
<1>0. /\ ShapesOK /\ ThreadOK(t) /\ th[t].todo # <<>> /\ th[t].ino \in Inodes /\ th[t].k \in Int
      /\ pc \in {th[t].pc, next}
  BY DEF Typed, ThreadOK
<1>1. Set(t, [k |-> th[t].k + 1, pc |-> pc])
  BY DEF zeroDskRangeFS
<1>2. Touched(th[t].ino, {"data"})
      /\ inode'[th[t].ino].data = [inode[th[t].ino].data EXCEPT ![th[t].k] = 0]
  <2>1. inode' = [inode EXCEPT ![th[t].ino].data[th[t].k] = 0]
    BY DEF zeroDskRangeFS
  <2>2. PICK i \in Inodes, at \in Int, b \in Int : i = th[t].ino /\ at = th[t].k /\ b = 0
    BY <1>0
  <2>3. inode' = [inode EXCEPT ![i].data[at] = b] /\ ShapesOK
    BY <1>0, <2>1, <2>2
  <2>4. Touched(i, {"data"}) /\ inode'[i].data = [inode[i].data EXCEPT ![at] = b]
    BY ONLY <2>3, i \in Inodes, at \in Int, b \in Int, ByteSetting, Zenon
  <2> QED BY <2>2, <2>4
<1> HIDE DEF pc
<1>3. /\ th'[t].k = th[t].k + 1 /\ th'[t].pc = pc /\ Call(t)' = Call(t)
      /\ \A x \in ThreadFields \ {"pc", "k"} : th'[t][x] = th[t][x]
      /\ ThreadOK(t)' => OneMoved(t)
  BY <1>1, Moving DEF ThreadFields
<1>4. Length(t)' = Length(t)
  BY <1>3 DEF Length
<1>5. ThreadOK(t)'
  <2>1. th'[t].k \in Int
    BY <1>0, <1>3
  <2>2. \/ /\ pc \in {"tzero", "tdisk"} /\ Call(t).op \in {"open", "creat", "truncate"}
           /\ Length(t) >= 0
        \/ pc \in {"wearly", "wraise", "whole", "wopen"} /\ Call(t).op \in {"write", "pwrite"}
    BY <1>0 DEF ThreadOK, OpAgrees
  <2> QED BY <1>0, <1>3, <1>4, <2>1, <2>2 DEF ThreadOK, OpAgrees, TransPc, ThreadFields
<1> QED BY <1>2, <1>3, <1>4, <1>5 DEF pc

LEMMA TruncateDiskEffect ==
    ASSUME Typed, NEW t \in Threads, TruncateDisk(t)
    PROVE  LET i == th[t].ino
               old == inode[i].isize
               len == Length(t)
           IN  /\ OneMoved(t) /\ Call(t)' = Call(t) /\ th[t].pc = "tdisk" /\ th'[t].pc = "tsize"
               /\ \A x \in ThreadFields \ {"pc"} : th'[t][x] = th[t][x]
               /\ len \in Nat /\ Length(t)' = len
               /\ Touched(i, {"dsize"}) /\ inode'[i].dsize = len
               /\ ver' = ver
               /\ \/ len > old /\ updateInodeDisksizeFS(i, len, old, len)
                  \/ len <= old /\ updateInodeDisksizeFS(i, len, 0, 0)
<1> DEFINE i == th[t].ino
           old == inode[i].isize
           len == Length(t)
<1>0. /\ ShapesOK /\ ThreadOK(t) /\ th[t].pc = "tdisk" /\ th[t].todo # <<>> /\ i \in Inodes
      /\ len \in Nat /\ Call(t).op \in {"open", "creat", "truncate"} /\ old \in Int
  BY LengthTyped DEF Typed, TruncateDisk, At, ThreadOK, ShapesOK, InodeType
<1>1. Set(t, [pc |-> "tsize"]) /\ inode' = [inode EXCEPT ![i].dsize = len] /\ ver' = ver
  BY DEF TruncateDisk
<1>2. \/ len > old /\ updateInodeDisksizeFS(i, len, old, len)
      \/ len <= old /\ updateInodeDisksizeFS(i, len, 0, 0)
  <2>1. CASE len > old
    BY <2>1 DEF TruncateDisk, readInodeSizeFS
  <2>2. CASE ~(len > old)
    <3>1. updateInodeDisksizeFS(i, len, 0, 0)
      BY <2>2 DEF TruncateDisk, readInodeSizeFS
    <3>2. len <= old
      BY <1>0, <2>2
    <3> QED BY <3>1, <3>2
  <2> QED BY <2>1, <2>2
<1>3. Touched(i, {"dsize"}) /\ inode'[i].dsize = len
  <2>1. PICK j \in Inodes, n \in Int : j = i /\ n = len
    BY <1>0
  <2>2. Touched(j, {"dsize"}) /\ inode'[j].dsize = n
    <3>1. inode' = [inode EXCEPT ![j].dsize = n]
      BY <1>1, <2>1
    <3> QED BY <1>0, <3>1, DiskResizing
  <2> QED BY <2>1, <2>2
<1>4. /\ th'[t].pc = "tsize" /\ Call(t)' = Call(t)
      /\ \A x \in ThreadFields \ {"pc"} : th'[t][x] = th[t][x]
      /\ ThreadOK(t)' => OneMoved(t)
  BY <1>1, Moving DEF ThreadFields
<1>5. Length(t)' = Length(t)
  BY <1>4 DEF Length
<1>6. ThreadOK(t)'
  BY <1>0, <1>4, <1>5 DEF ThreadOK, OpAgrees, TransPc, ThreadFields
<1> QED BY <1>0, <1>1, <1>2, <1>3, <1>4, <1>5, <1>6

LEMMA TruncateSizeEffect ==
    ASSUME Typed, NEW t \in Threads, TruncateSize(t)
    PROVE  LET i == th[t].ino
               len == Length(t)
           IN  /\ OneMoved(t) /\ Call(t)' = Call(t) /\ th[t].pc = "tsize" /\ th'[t].pc = "tunlock"
               /\ \A x \in ThreadFields \ {"pc", "ret"} : th'[t][x] = th[t][x]
               /\ len \in Nat
               /\ Touched(i, {"isize"}) /\ inode'[i].isize = len
               /\ want' = [want EXCEPT ![i] = PosixTruncate(@, len)]
               /\ ver' = [ver EXCEPT ![i] = @ + 1] /\ mdwrite' = mdwrite
               /\ executeFsyncFS(i) \/ UNCHANGED synced
<1> DEFINE i == th[t].ino
           len == Length(t)
<1>0. /\ ShapesOK /\ ThreadOK(t) /\ th[t].pc = "tsize" /\ th[t].todo # <<>> /\ i \in Inodes
      /\ len \in Nat /\ Call(t).op \in {"open", "creat", "truncate"}
  BY LengthTyped DEF Typed, TruncateSize, At, ThreadOK
<1>1. /\ Set(t, [pc |-> "tunlock", ret |-> 0]) /\ inode' = [inode EXCEPT ![i].isize = len]
      /\ want' = [want EXCEPT ![i] = PosixTruncate(@, len)]
      /\ ver' = [ver EXCEPT ![i] = @ + 1] /\ mdwrite' = mdwrite
      /\ executeFsyncFS(i) \/ UNCHANGED synced
  BY DEF TruncateSize, updateInodeSizeFS
<1>2. Touched(i, {"isize"}) /\ inode'[i].isize = len
  <2>1. PICK j \in Inodes, n \in Int : j = i /\ n = len
    BY <1>0
  <2>2. Touched(j, {"isize"}) /\ inode'[j].isize = n
    <3>1. inode' = [inode EXCEPT ![j].isize = n]
      BY <1>1, <2>1
    <3> QED BY <1>0, <3>1, Resizing
  <2> QED BY <2>1, <2>2
<1>3. /\ th'[t].pc = "tunlock" /\ th'[t].ret = 0 /\ Call(t)' = Call(t)
      /\ \A x \in ThreadFields \ {"pc", "ret"} : th'[t][x] = th[t][x]
      /\ ThreadOK(t)' => OneMoved(t)
  BY <1>1, Moving DEF ThreadFields
<1>4. ThreadOK(t)'
  <2>1. th'[t].ret \in Int
    BY <1>3
  <2> QED BY <1>0, <1>3, <2>1 DEF ThreadOK, OpAgrees, TransPc, ThreadFields
<1> QED BY <1>0, <1>1, <1>2, <1>3, <1>4

LEMMA TruncateUnlockEffect ==
    ASSUME Typed, NEW t \in Threads, TruncateUnlock(t)
    PROVE  /\ OneMoved(t) /\ th'[t].pc = "call" /\ th'[t].ino = th[t].ino /\ th[t].pc = "tunlock"
           /\ Touched(th[t].ino, {"lock"}) /\ inode'[th[t].ino].lock = Free
<1>0. ShapesOK /\ ThreadOK(t) /\ th[t].pc = "tunlock" /\ th[t].todo # <<>> /\ th[t].ino \in Inodes
  BY DEF Typed, TruncateUnlock, At, ThreadOK
<1>1. OneMoved(t) /\ th'[t].pc = "call" /\ th'[t].ino = th[t].ino
  <2>1. \E v : Return(t, v)
    BY DEF TruncateUnlock
  <2> QED BY <1>0, <2>1, Returned1
<1>2. Touched(th[t].ino, {"lock"}) /\ inode'[th[t].ino].lock = Free
  BY <1>0, Relocking DEF TruncateUnlock
<1> QED BY <1>0, <1>1, <1>2

(* Where a write begins: it looks at the flags and takes the inode's lock. *)
LEMMA WriteFlagsEffect ==
    ASSUME Typed, NEW t \in Threads, WriteFlags(t)
    PROVE  /\ OneMoved(t) /\ Call(t)' = Call(t) /\ th'[t].fd = th[t].fd /\ th'[t].pos = th[t].pos
           /\ th[t].pc = "wflags" /\ HasFile(t)
           /\ Desc(t).inode \in Inodes /\ inode[Desc(t).inode].made
           /\ \/ /\ th'[t].pc = "wdone" /\ th'[t].ino = th[t].ino /\ th'[t].ret = -1
                 /\ inode' = inode
              \/ /\ th'[t].pc = "wchecks" /\ th'[t].ino = Desc(t).inode
                 /\ inode[Desc(t).inode].lock = Free
                 /\ Touched(Desc(t).inode, {"lock"}) /\ inode'[Desc(t).inode].lock = t
<1>0. /\ ShapesOK /\ ThreadOK(t) /\ th[t].pc = "wflags" /\ th[t].todo # <<>>
      /\ Call(t).op \in {"write", "pwrite"} /\ HasFile(t)
  BY DEF Typed, WriteFlags, At, ThreadOK, OpAgrees, Alive
<1>1. Desc(t).inode \in Inodes /\ inode[Desc(t).inode].made
  BY <1>0, FilesTyped DEF FilesOK, HasFile, Desc
<1>2. CASE Set(t, [pc |-> "wdone", ret |-> -1]) /\ UNCHANGED inode
  <2>1. /\ th'[t].pc = "wdone" /\ th'[t].ret = -1 /\ Call(t)' = Call(t)
        /\ \A x \in ThreadFields \ {"pc", "ret"} : th'[t][x] = th[t][x]
        /\ ThreadOK(t)' => OneMoved(t)
    BY <1>2, Moving DEF ThreadFields
  <2>2. ThreadOK(t)'
    BY <1>0, <2>1, SMTT(40) DEF ThreadOK, OpAgrees, TransPc, ThreadFields
  <2> QED BY <1>0, <1>1, <1>2, <2>1, <2>2 DEF ThreadFields
<1>3. CASE /\ inode[Desc(t).inode].lock = Free
           /\ inode' = [inode EXCEPT ![Desc(t).inode].lock = t]
           /\ Set(t, [pc |-> "wchecks", ino |-> Desc(t).inode, acc |-> Desc(t).flags])
  <2>1. /\ th'[t].pc = "wchecks" /\ th'[t].ino = Desc(t).inode /\ Call(t)' = Call(t)
        /\ \A x \in ThreadFields \ {"pc", "ino", "acc"} : th'[t][x] = th[t][x]
        /\ ThreadOK(t)' => OneMoved(t)
    BY <1>3, Moving DEF ThreadFields
  <2>2. ThreadOK(t)'
    BY <1>0, <1>1, <2>1 DEF ThreadOK, OpAgrees, TransPc, ThreadFields
  <2>3. Touched(Desc(t).inode, {"lock"}) /\ inode'[Desc(t).inode].lock = t
    <3>1. PICK j \in Inodes : j = Desc(t).inode
      BY <1>1
    <3>2. inode' = [inode EXCEPT ![j].lock = t]
      BY <1>3, <3>1
    <3>3. Touched(j, {"lock"}) /\ inode'[j].lock = t
      BY <1>0, <3>2, Relocking
    <3> QED BY <3>1, <3>3
  <2> QED BY <1>0, <1>1, <1>3, <2>1, <2>2, <2>3 DEF ThreadFields
<1> QED BY <1>2, <1>3 DEF WriteFlags

(* The checks of a write give an offset and a number of bytes.             *)
LEMMA WriteChecksRange ==
    ASSUME Typed, NEW t \in Threads, At(t, "wchecks")
    PROVE  LET c == executeWriteChecksFS(t)
               i == th[t].ino
           IN  /\ c.off = IF "APPEND" \in th[t].acc THEN inode[i].isize ELSE th[t].pos
               /\ c.off \in Int /\ c.n \in Int
               /\ Call(t).bytes \in Seq(Nat)
               /\ c.n > 0 => /\ c.n <= Len(Call(t).bytes) /\ c.off + c.n <= MaxFileSize
                             /\ c.n = Min({Len(Call(t).bytes), MaxFileSize - c.off})
<1> DEFINE c == executeWriteChecksFS(t)
           i == th[t].ino
           at == IF "APPEND" \in th[t].acc THEN inode[i].isize ELSE th[t].pos
           count == Len(Call(t).bytes)
<1>0. /\ ShapesOK /\ ThreadOK(t) /\ th[t].todo # <<>>
      /\ Call(t).op \in {"write", "pwrite"} /\ i \in Inodes
  BY DEF Typed, At, ThreadOK, OpAgrees
<1>1. Call(t).bytes \in Seq(Nat)
  BY <1>0, Arguments DEF ThreadOK, Call
<1>2. inode[i].isize \in Int /\ at \in Int /\ count \in Nat
  BY <1>0, <1>1, SMTT(40) DEF ShapesOK, InodeType, ThreadOK
<1>3. c.off = at /\ c.n = IF count = 0 \/ at >= MaxFileSize THEN 0
                          ELSE Min({count, MaxFileSize - at})
  BY DEF executeWriteChecksFS, readInodeSizeFS
<1> HIDE DEF c, at, count
<1>4. MaxFileSize \in Nat
  BY FSAssumption
<1>5. Min({count, MaxFileSize - at}) = IF count <= MaxFileSize - at THEN count
                                       ELSE MaxFileSize - at
  BY <1>2, <1>4, MinOfTwo
<1>6. c.n \in Int /\ (c.n > 0 => c.n <= count /\ at + c.n <= MaxFileSize
                                 /\ c.n = Min({count, MaxFileSize - at}))
  BY <1>2, <1>3, <1>4, <1>5
<1> QED BY <1>1, <1>2, <1>3, <1>6 DEF c, at, count

(* How far the early size update goes.                                     *)
LEMMA NewDisksize ==
    ASSUME NEW size \in Int, NEW at \in Int, NEW n \in Int
    PROVE  /\ newDisksize(size, at, n) \in Int
           /\ newDisksize(size, at, n) = IF BlockEnd(size) <= at + n THEN BlockEnd(size) ELSE at + n
           /\ BlockEnd(size) \in Int /\ size < BlockEnd(size)
           /\ size % BlockSize \in 0 .. BlockSize - 1
<1>1. BlockSize \in Nat \ {0}
  BY FSAssumption
<1>2. size % BlockSize \in 0 .. BlockSize - 1
  BY <1>1
<1>3. BlockEnd(size) \in Int /\ size < BlockEnd(size)
  BY <1>1, <1>2 DEF BlockEnd
<1>4. newDisksize(size, at, n) = IF BlockEnd(size) <= at + n THEN BlockEnd(size) ELSE at + n
  BY <1>1, <1>2, <1>3, MinOfTwo DEF newDisksize, BlockEnd
<1> QED BY <1>2, <1>3, <1>4

(* After its checks a write has nothing to do, or gets ready to write.     *)
LEMMA WriteChecksEffect ==
    ASSUME Typed, NEW t \in Threads, WriteChecks(t)
    PROVE  LET c == executeWriteChecksFS(t)
               i == th[t].ino
           IN  /\ OneMoved(t) /\ Call(t)' = Call(t) /\ At(t, "wchecks") /\ inode' = inode
               /\ \A x \in ThreadFields \ {"pc", "ret", "woff", "done", "obeg", "k"} :
                     th'[t][x] = th[t][x]
               /\ \/ th'[t].pc = "wunlock" /\ th'[t].ret = 0 /\ want' = want
                  \/ /\ th'[t].pc = IF Early(i, c.off, c.n) THEN "wearly" ELSE HolePc(i, c.off)
                     /\ c.n > 0 /\ th'[t].ret = c.n /\ th'[t].woff = c.off
                     /\ th'[t].done = 0 /\ th'[t].obeg = 0 /\ th'[t].k = inode[i].isize
                     /\ want' = [want EXCEPT ![i] =
                            LET at == IF "APPEND" \in th[t].acc THEN Len(@) ELSE th[t].pos
                            IN  PosixWrite(@, at, SubSeq(Call(t).bytes, 1,
                                                  Min({Len(Call(t).bytes), MaxFileSize - at})))]
<1> DEFINE c == executeWriteChecksFS(t)
           i == th[t].ino
           pc == IF Early(i, c.off, c.n) THEN "wearly" ELSE HolePc(i, c.off)
<1>0. /\ ShapesOK /\ ThreadOK(t) /\ th[t].todo # <<>> /\ th[t].pc = "wchecks"
      /\ Call(t).op \in {"write", "pwrite"} /\ i \in Inodes /\ inode[i].isize \in Int
  BY DEF Typed, WriteChecks, At, ThreadOK, OpAgrees, ShapesOK, InodeType
<1>a. At(t, "wchecks") /\ inode' = inode
  BY DEF WriteChecks
<1>1. c.off \in Int /\ c.n \in Int
  BY <1>a, WriteChecksRange
<1>2. CASE Set(t, [pc |-> "wunlock", ret |-> 0]) /\ UNCHANGED want
  <2>1. /\ th'[t].pc = "wunlock" /\ th'[t].ret = 0 /\ Call(t)' = Call(t)
        /\ \A x \in ThreadFields \ {"pc", "ret"} : th'[t][x] = th[t][x]
        /\ ThreadOK(t)' => OneMoved(t)
    BY <1>2, Moving DEF ThreadFields
  <2>2. ThreadOK(t)'
    BY <1>0, <2>1, SMTT(40) DEF ThreadOK, OpAgrees, TransPc, ThreadFields
  <2> QED BY <1>a, <1>2, <2>1, <2>2
<1>3. CASE /\ c.n > 0
           /\ Set(t, [pc |-> pc, ret |-> c.n, woff |-> c.off, done |-> 0, obeg |-> 0,
                      k |-> inode[i].isize])
           /\ want' = [want EXCEPT ![i] =
                  LET at == IF "APPEND" \in th[t].acc THEN Len(@) ELSE th[t].pos
                  IN  PosixWrite(@, at, SubSeq(Call(t).bytes, 1,
                                        Min({Len(Call(t).bytes), MaxFileSize - at})))]
  <2>0. pc \in {"wearly", "whole", "wopen"}
    BY DEF HolePc
  <2> HIDE DEF c, pc
  <2>1. /\ th'[t].pc = pc /\ th'[t].ret = c.n /\ th'[t].woff = c.off
        /\ th'[t].done = 0 /\ th'[t].obeg = 0 /\ th'[t].k = inode[i].isize /\ Call(t)' = Call(t)
        /\ \A x \in ThreadFields \ {"pc", "ret", "woff", "done", "obeg", "k"} :
              th'[t][x] = th[t][x]
        /\ ThreadOK(t)' => OneMoved(t)
    BY <1>3, Moving DEF ThreadFields
  <2>2. ThreadOK(t)'
    <3>1. /\ th'[t].ret \in Int /\ th'[t].woff \in Int /\ th'[t].done \in Int
          /\ th'[t].obeg \in Int /\ th'[t].k \in Int
      BY <1>0, <1>1, <2>1
    <3> QED BY <1>0, <2>0, <2>1, <3>1 DEF ThreadOK, OpAgrees, TransPc, ThreadFields
  <2>3. OneMoved(t) /\ c.n > 0
    BY <1>3, <2>1, <2>2
  <2> QED BY <1>a, <1>3, <2>1, <2>3 DEF c, pc
<1> QED BY <1>2, <1>3 DEF WriteChecks, readInodeSizeFS

(* The size on disk is raised before the data are written.                 *)
LEMMA RaiseEarlyEffect ==
    ASSUME Typed, NEW t \in Threads, RaiseEarly(t)
    PROVE  LET i == th[t].ino
           IN  /\ OneMoved(t) /\ Call(t)' = Call(t) /\ th[t].pc = "wraise"
               /\ th'[t].pc = HolePc(i, th[t].woff) /\ th'[t].k = inode[i].isize
               /\ \A x \in ThreadFields \ {"pc", "k"} : th'[t][x] = th[t][x]
               /\ EarlySize(t) \in Int
               /\ Touched(i, {"dsize"}) /\ inode'[i].dsize = EarlySize(t)
               /\ ver' = ver
               /\ updateInodeDisksizeFS(i, EarlySize(t), inode[i].isize, EarlySize(t))
<1> DEFINE i == th[t].ino
           pc == HolePc(i, th[t].woff)
           n == EarlySize(t)
<1>0. /\ ShapesOK /\ ThreadOK(t) /\ th[t].todo # <<>> /\ th[t].pc = "wraise"
      /\ Call(t).op \in {"write", "pwrite"} /\ i \in Inodes /\ inode[i].isize \in Int
      /\ th[t].woff \in Int /\ th[t].ret \in Int
  BY DEF Typed, RaiseEarly, At, ThreadOK, OpAgrees, ShapesOK, InodeType
<1>1. n \in Int
  BY <1>0, NewDisksize DEF EarlySize, readInodeSizeFS
<1>2. /\ Set(t, [pc |-> pc, k |-> inode[i].isize]) /\ inode' = [inode EXCEPT ![i].dsize = n]
      /\ ver' = ver /\ updateInodeDisksizeFS(i, n, inode[i].isize, n)
  BY DEF RaiseEarly, readInodeSizeFS
<1>3. pc \in {"whole", "wopen"}
  BY DEF HolePc
<1> HIDE DEF pc, n
<1>4. Touched(i, {"dsize"}) /\ inode'[i].dsize = n
  BY <1>0, <1>1, <1>2, DiskResizing
<1>5. /\ th'[t].pc = pc /\ th'[t].k = inode[i].isize /\ Call(t)' = Call(t)
      /\ \A x \in ThreadFields \ {"pc", "k"} : th'[t][x] = th[t][x]
      /\ ThreadOK(t)' => OneMoved(t)
  BY <1>2, Moving DEF ThreadFields
<1>6. ThreadOK(t)'
  BY <1>0, <1>3, <1>5 DEF ThreadOK, OpAgrees, TransPc, ThreadFields
<1> QED BY <1>0, <1>1, <1>2, <1>4, <1>5, <1>6 DEF pc, n

LEMMA ChunkBounds ==
    ASSUME NEW at \in Int, NEW left \in Int
    PROVE  /\ Chunk(at, left) \in Int
           /\ left >= 0 => /\ 0 <= Chunk(at, left) /\ Chunk(at, left) <= left
                           /\ Chunk(at, left) = left \/ (at + Chunk(at, left)) % BlockSize = 0
<1>1. BlockSize \in Nat \ {0} /\ at % BlockSize \in 0 .. BlockSize - 1
  BY FSAssumption
<1>2. Min({BlockSize, left}) = IF BlockSize <= left THEN BlockSize ELSE left
  BY <1>1, MinOfTwo
<1>3. Chunk(at, left) \in Int
  BY <1>1, <1>2 DEF Chunk
<1>4. ASSUME left >= 0
      PROVE  /\ 0 <= Chunk(at, left) /\ Chunk(at, left) <= left
             /\ \/ Chunk(at, left) = left
                \/ /\ Chunk(at, left) = BlockSize - (at % BlockSize)
  BY <1>1, <1>2, <1>4 DEF Chunk
<1>5. (at + (BlockSize - (at % BlockSize))) % BlockSize = 0
  <2>1. at = BlockSize * (at \div BlockSize) + (at % BlockSize) /\ at \div BlockSize \in Int
    BY <1>1
  <2>2. PICK q \in Int : q = at \div BlockSize
    BY <2>1
  <2>3. at + (BlockSize - (at % BlockSize)) = BlockSize * (q + 1)
    BY <1>1, <2>1, <2>2
  <2>4. (BlockSize * (q + 1)) % BlockSize = 0
    BY <1>1
  <2> QED BY <2>3, <2>4
<1> QED BY <1>3, <1>4, <1>5

(* The next block is opened.                                               *)
LEMMA BlockOpenEffect ==
    ASSUME Typed, NEW t \in Threads, BlockOpen(t)
    PROVE  /\ OneMoved(t) /\ Call(t)' = Call(t) /\ th[t].pc = "wopen" /\ th'[t].pc = "wbytes"
           /\ th'[t].blk = Chunk(th[t].woff + th[t].done, th[t].ret - th[t].done) /\ th'[t].k = 0
           /\ \A x \in ThreadFields \ {"pc", "blk", "k"} : th'[t][x] = th[t][x]
           /\ Touched(th[t].ino, {"trans"})
<1> DEFINE b == Chunk(th[t].woff + th[t].done, th[t].ret - th[t].done)
           i == th[t].ino
<1>0. /\ ShapesOK /\ ThreadOK(t) /\ th[t].todo # <<>> /\ th[t].pc = "wopen"
      /\ Call(t).op \in {"write", "pwrite"} /\ i \in Inodes
  BY DEF Typed, BlockOpen, At, ThreadOK, OpAgrees
<1>1. b \in Int
  <2>1. th[t].woff + th[t].done \in Int /\ th[t].ret - th[t].done \in Int
    BY <1>0 DEF ThreadOK
  <2> QED BY <2>1, ChunkBounds
<1>2. Set(t, [pc |-> "wbytes", blk |-> b, k |-> 0])
  BY DEF BlockOpen
<1> HIDE DEF b
<1>3. /\ th'[t].pc = "wbytes" /\ th'[t].blk = b /\ th'[t].k = 0 /\ Call(t)' = Call(t)
      /\ \A x \in ThreadFields \ {"pc", "blk", "k"} : th'[t][x] = th[t][x]
      /\ ThreadOK(t)' => OneMoved(t)
  BY <1>2, Moving DEF ThreadFields
<1>4. ThreadOK(t)'
  BY <1>0, <1>1, <1>3 DEF ThreadOK, OpAgrees, TransPc, ThreadFields
<1>5. inode[i] \in InodeType
  BY <1>0 DEF ShapesOK
<1>6. PICK v \in {0, 1} : inode' = [inode EXCEPT ![i].trans = v]
  <2>1. inode' = [inode EXCEPT ![i].trans = IF mode.journal = "journal" THEN 1 ELSE inode[i].trans]
    BY DEF BlockOpen
  <2>2. inode[i].trans \in {0, 1}
    BY <1>5 DEF InodeType
  <2> QED BY <2>1, <2>2
<1>7. Touched(i, {"trans"})
  BY <1>0, <1>6, Flagging
<1> QED BY <1>0, <1>3, <1>4, <1>7 DEF b

(* One byte is written.                                                    *)
LEMMA WriteByteEffect ==
    ASSUME Typed, WritesOnTheWay, NEW t \in Threads, WriteByte(t)
    PROVE  LET at == th[t].woff + th[t].done + th[t].k
               n == th[t].done + th[t].k + 1
           IN  /\ OneMoved(t) /\ Call(t)' = Call(t) /\ th[t].pc = "wbytes"
               /\ th[t].k < th[t].blk /\ th'[t].k = th[t].k + 1
               /\ \A x \in ThreadFields \ {"k"} : th'[t][x] = th[t][x]
               /\ Touched(th[t].ino, {"data"})
               /\ n \in 1 .. Len(Call(t).bytes)
               /\ inode'[th[t].ino].data = [inode[th[t].ino].data EXCEPT ![at] = Call(t).bytes[n]]
<1> DEFINE i == th[t].ino
           at == th[t].woff + th[t].done + th[t].k
           n == th[t].done + th[t].k + 1
<1>0. /\ ShapesOK /\ ThreadOK(t) /\ th[t].todo # <<>> /\ th[t].pc = "wbytes"
      /\ Call(t).op \in {"write", "pwrite"} /\ i \in Inodes /\ th[t].k < th[t].blk
  BY DEF Typed, WriteByte, At, ThreadOK, OpAgrees
<1>1. Call(t).bytes \in Seq(Nat)
  BY <1>0, Arguments DEF ThreadOK, Call
<1>2. n \in 1 .. Len(Call(t).bytes)
  <2>1. Progress(t)
    BY <1>0 DEF WritesOnTheWay, WritePc
  <2>2. Len(Call(t).bytes) \in Nat
    BY <1>1
  <2>3. /\ 0 <= th[t].done /\ th[t].ret <= Len(Call(t).bytes)
        /\ 0 <= th[t].k /\ th[t].done + th[t].blk <= th[t].ret
    BY <1>0, <2>1 DEF Progress, BlockPc
  <2>4. th[t].done \in Int /\ th[t].k \in Int /\ th[t].blk \in Int /\ th[t].ret \in Int
    BY <1>0 DEF ThreadOK
  <2> QED BY <1>0, <2>2, <2>3, <2>4
<1>3. PICK b \in Int : b = Call(t).bytes[n]
  BY <1>1, <1>2
<1>4. Set(t, [k |-> th[t].k + 1])
  BY DEF WriteByte
<1>5. /\ th'[t].k = th[t].k + 1 /\ Call(t)' = Call(t)
      /\ \A x \in ThreadFields \ {"k"} : th'[t][x] = th[t][x]
      /\ ThreadOK(t)' => OneMoved(t)
  BY <1>4, Moving DEF ThreadFields
<1>6. ThreadOK(t)'
  <2>1. th'[t].k \in Int
    BY <1>0, <1>5 DEF ThreadOK
  <2> QED BY <1>0, <1>5, <2>1 DEF ThreadOK, OpAgrees, TransPc, ThreadFields
<1>7. Touched(i, {"data"}) /\ inode'[i].data = [inode[i].data EXCEPT ![at] = b]
  <2>1. inode' = [inode EXCEPT ![i].data[at] = b]
    BY <1>3 DEF WriteByte
  <2>2. PICK a \in Int : a = at
    BY <1>0 DEF ThreadOK
  <2>3. inode' = [inode EXCEPT ![i].data[a] = b]
    BY <2>1, <2>2
  <2>4. Touched(i, {"data"}) /\ inode'[i].data = [inode[i].data EXCEPT ![a] = b]
    BY <1>0, <2>3, ByteSetting, ZenonT(60)
  <2> QED BY <2>2, <2>4
<1> QED BY <1>0, <1>2, <1>3, <1>5, <1>6, <1>7

(* A block that ends past the end of the file: the size on disk ...        *)
LEMMA BlockDisksizeEffect ==
    ASSUME Typed, NEW t \in Threads, BlockDisksize(t)
    PROVE  LET i == th[t].ino
           IN  /\ OneMoved(t) /\ Call(t)' = Call(t) /\ th[t].pc = "wbytes" /\ th'[t].pc = "wsize"
               /\ th[t].k = th[t].blk /\ newSize(t) \in Int /\ newSize(t) > inode[i].isize
               /\ \A x \in ThreadFields \ {"pc"} : th'[t][x] = th[t][x]
               /\ Touched(i, {"dsize"}) /\ inode'[i].dsize = newSize(t)
               /\ ver' = ver
               /\ updateInodeDisksizeFS(i, newSize(t), th[t].obeg, newSize(t))
<1> DEFINE i == th[t].ino
           n == newSize(t)
<1>0. /\ ShapesOK /\ ThreadOK(t) /\ th[t].todo # <<>> /\ th[t].pc = "wbytes"
      /\ Call(t).op \in {"write", "pwrite"} /\ i \in Inodes /\ th[t].k = th[t].blk
      /\ n > inode[i].isize
  BY DEF Typed, BlockDisksize, BlockWritten, Grows, readInodeSizeFS, At, ThreadOK, OpAgrees
<1>1. n \in Int
  BY <1>0 DEF newSize, ThreadOK
<1>2. /\ Set(t, [pc |-> "wsize"]) /\ inode' = [inode EXCEPT ![i].dsize = n]
      /\ ver' = ver /\ updateInodeDisksizeFS(i, n, th[t].obeg, n)
  BY DEF BlockDisksize
<1> HIDE DEF n
<1>3. Touched(i, {"dsize"}) /\ inode'[i].dsize = n
  BY <1>0, <1>1, <1>2, DiskResizing
<1>4. /\ th'[t].pc = "wsize" /\ Call(t)' = Call(t)
      /\ \A x \in ThreadFields \ {"pc"} : th'[t][x] = th[t][x]
      /\ ThreadOK(t)' => OneMoved(t)
  BY <1>2, Moving DEF ThreadFields
<1>5. ThreadOK(t)'
  BY <1>0, <1>4 DEF ThreadOK, OpAgrees, TransPc, ThreadFields
<1> QED BY <1>0, <1>1, <1>2, <1>3, <1>4, <1>5 DEF n

(* ... then the size in memory.                                            *)
LEMMA BlockSizeUpEffect ==
    ASSUME Typed, NEW t \in Threads, BlockSizeUp(t)
    PROVE  LET i == th[t].ino
           IN  /\ OneMoved(t) /\ Call(t)' = Call(t) /\ th[t].pc = "wsize" /\ th'[t].pc = "wclose"
               /\ newSize(t) \in Int /\ th'[t].obeg = newSize(t)
               /\ \A x \in ThreadFields \ {"pc", "obeg"} : th'[t][x] = th[t][x]
               /\ Touched(i, {"isize"}) /\ inode'[i].isize = newSize(t)
<1> DEFINE i == th[t].ino
           n == newSize(t)
<1>0. /\ ShapesOK /\ ThreadOK(t) /\ th[t].todo # <<>> /\ th[t].pc = "wsize"
      /\ Call(t).op \in {"write", "pwrite"} /\ i \in Inodes
  BY DEF Typed, BlockSizeUp, At, ThreadOK, OpAgrees
<1>1. n \in Int
  BY <1>0 DEF newSize, ThreadOK
<1>2. Set(t, [pc |-> "wclose", obeg |-> n]) /\ inode' = [inode EXCEPT ![i].isize = n]
  BY DEF BlockSizeUp, updateInodeSizeFS
<1> HIDE DEF n
<1>3. Touched(i, {"isize"}) /\ inode'[i].isize = n
  BY <1>0, <1>1, <1>2, Resizing
<1>4. /\ th'[t].pc = "wclose" /\ th'[t].obeg = n /\ Call(t)' = Call(t)
      /\ \A x \in ThreadFields \ {"pc", "obeg"} : th'[t][x] = th[t][x]
      /\ ThreadOK(t)' => OneMoved(t)
  BY <1>2, Moving DEF ThreadFields
<1>5. ThreadOK(t)'
  BY <1>0, <1>1, <1>4 DEF ThreadOK, OpAgrees, TransPc, ThreadFields
<1> QED BY <1>0, <1>1, <1>3, <1>4, <1>5 DEF n

(* A block is closed: the flag goes down.                                  *)
LEMMA BlockCloseEffect ==
    ASSUME Typed, NEW t \in Threads, BlockClose(t)
    PROVE  LET i == th[t].ino
               done == th[t].done + th[t].blk
           IN  /\ OneMoved(t) /\ Call(t)' = Call(t)
               /\ \/ th[t].pc = "wclose"
                  \/ th[t].pc = "wbytes" /\ th[t].k = th[t].blk /\ newSize(t) <= inode[i].isize
               /\ \A x \in ThreadFields \ {"pc", "done", "ver"} : th'[t][x] = th[t][x]
               /\ th'[t].pc = IF done = th[t].ret THEN "wunlock" ELSE "wopen"
               /\ th'[t].done = done
               /\ th'[t].ver = ver[i] + 1
               /\ ver' = [ver EXCEPT ![i] = @ + 1]
               /\ executeFsyncFS(i) \/ UNCHANGED synced
               /\ Touched(i, {"trans"})
<1> DEFINE i == th[t].ino
           done == th[t].done + th[t].blk
           pc == IF done = th[t].ret THEN "wunlock" ELSE "wopen"
<1>0. /\ ShapesOK /\ ThreadOK(t) /\ th[t].todo # <<>> /\ th[t].pc \in {"wclose", "wbytes"}
      /\ Call(t).op \in {"write", "pwrite"} /\ i \in Inodes
  BY DEF Typed, BlockClose, BlockWritten, At, ThreadOK, OpAgrees
<1>1. done \in Int /\ ver[i] + 1 \in Nat /\ pc \in {"wunlock", "wopen"}
  BY <1>0, SMTT(40) DEF ThreadOK, ShapesOK
<1>2. \/ th[t].pc = "wclose"
      \/ th[t].pc = "wbytes" /\ th[t].k = th[t].blk /\ newSize(t) <= inode[i].isize
  <2>1. newSize(t) \in Int /\ inode[i].isize \in Int
    BY <1>0, SMTT(40) DEF newSize, ThreadOK, ShapesOK, InodeType
  <2> QED BY <2>1 DEF BlockClose, BlockWritten, At, Grows, readInodeSizeFS
<1>3. /\ Set(t, [pc |-> pc, done |-> done, ver |-> ver[i] + 1])
      /\ ver' = [ver EXCEPT ![i] = @ + 1]
      /\ executeFsyncFS(i) \/ UNCHANGED synced
  BY DEF BlockClose
<1>4. Touched(i, {"trans"})
  <2>1. inode' = [inode EXCEPT ![i].trans = IF mode.journal = "journal" THEN 0 ELSE inode[i].trans]
    BY DEF BlockClose
  <2>2. inode[i].trans \in {0, 1}
    BY <1>0 DEF ShapesOK, InodeType
  <2>3. PICK v \in {0, 1} : inode' = [inode EXCEPT ![i].trans = v]
    BY <2>1, <2>2
  <2> QED BY <1>0, <2>3, Flagging
<1> HIDE DEF pc, done
<1>5. /\ th'[t].pc = pc /\ th'[t].done = done /\ th'[t].ver = ver[i] + 1 /\ Call(t)' = Call(t)
      /\ \A x \in ThreadFields \ {"pc", "done", "ver"} : th'[t][x] = th[t][x]
      /\ ThreadOK(t)' => OneMoved(t)
  BY <1>3, Moving DEF ThreadFields
<1>6. ThreadOK(t)'
  BY <1>0, <1>1, <1>5 DEF ThreadOK, OpAgrees, TransPc, ThreadFields
<1> QED BY <1>2, <1>3, <1>4, <1>5, <1>6 DEF pc, done

LEMMA WriteUnlockEffect ==
    ASSUME Typed, NEW t \in Threads, WriteUnlock(t)
    PROVE  /\ OneMoved(t) /\ Call(t)' = Call(t) /\ th[t].pc = "wunlock" /\ th'[t].pc = "wsync"
           /\ \A x \in ThreadFields \ {"pc"} : th'[t][x] = th[t][x]
           /\ Touched(th[t].ino, {"lock"}) /\ inode'[th[t].ino].lock = Free
<1>0. /\ ShapesOK /\ ThreadOK(t) /\ th[t].todo # <<>> /\ th[t].pc = "wunlock"
      /\ Call(t).op \in {"write", "pwrite"} /\ th[t].ino \in Inodes
  BY DEF Typed, WriteUnlock, At, ThreadOK, OpAgrees
<1>1. Set(t, [pc |-> "wsync"]) /\ inode' = [inode EXCEPT ![th[t].ino].lock = Free]
  BY DEF WriteUnlock
<1>2. Touched(th[t].ino, {"lock"}) /\ inode'[th[t].ino].lock = Free
  BY <1>0, <1>1, Relocking
<1>3. /\ th'[t].pc = "wsync" /\ Call(t)' = Call(t)
      /\ \A x \in ThreadFields \ {"pc"} : th'[t][x] = th[t][x]
      /\ ThreadOK(t)' => OneMoved(t)
  BY <1>1, Moving DEF ThreadFields
<1>4. ThreadOK(t)'
  BY <1>0, <1>3 DEF ThreadOK, OpAgrees, TransPc, ThreadFields
<1> QED BY <1>0, <1>2, <1>3, <1>4

(* The steps that change an inode.                                         *)
LEMMA TypedWrites ==
    ASSUME Typed, WritesOnTheWay, NEW t \in Threads,
           \/ TruncateLock(t) \/ executeTruncateFS(t) \/ TruncateZero(t) \/ TruncateDisk(t)
           \/ TruncateSize(t) \/ TruncateUnlock(t) \/ WriteFlags(t) \/ WriteChecks(t)
           \/ ZeroEarly(t) \/ RaiseEarly(t) \/ ZeroHole(t) \/ BlockOpen(t) \/ WriteByte(t)
           \/ BlockDisksize(t) \/ BlockSizeUp(t) \/ BlockClose(t) \/ WriteUnlock(t)
    PROVE  Typed'
<1> USE DEF history
<1>0. ShapesOK /\ ThreadOK(t) /\ inode[th[t].ino].made /\ th[t].ino \in Inodes
  BY DEF Typed, ReferencesMade, ThreadOK
<1>1. UNCHANGED <<mode, dir, dirLock, dirTrans, file, moved>>
  BY DEF TruncateLock, executeTruncateFS, TruncateZero, TruncateDisk, TruncateSize,
         TruncateUnlock, WriteFlags, WriteChecks, ZeroEarly, RaiseEarly, ZeroHole, zeroDskRangeFS,
         BlockOpen, WriteByte, BlockDisksize, BlockSizeUp, BlockClose, WriteUnlock
<1>2. error' \in {"none", "VE_SystemError", "VE_InvalidTruncate", "VE_AccessFreed"}
  <2>1. CASE \/ TruncateLock(t) \/ executeTruncateFS(t) \/ WriteFlags(t) \/ WriteChecks(t)
    BY <1>0, <2>1, ErrorTyped DEF TruncateLock, executeTruncateFS, WriteFlags, WriteChecks
  <2>2. CASE UNCHANGED error
    BY <1>0, <2>2, SMTT(40) DEF ShapesOK
  <2> QED BY <2>1, <2>2
          DEF TruncateZero, TruncateDisk, TruncateSize, TruncateUnlock, ZeroEarly, RaiseEarly,
              ZeroHole, zeroDskRangeFS, BlockOpen, WriteByte, BlockDisksize, BlockSizeUp,
              BlockClose, WriteUnlock
<1>3. ver' \in [Inodes -> Nat] /\ synced' \in [Inodes -> Nat]
  <2>1. CASE \/ ver' = ver \/ ver' = [ver EXCEPT ![th[t].ino] = @ + 1]
    <3>1. ver' \in [Inodes -> Nat]
      BY <1>0, <2>1 DEF ShapesOK
    <3>2. executeFsyncFS(th[t].ino) \/ UNCHANGED synced
      BY DEF TruncateLock, executeTruncateFS, TruncateZero, TruncateDisk, TruncateSize,
             TruncateUnlock, WriteFlags, WriteChecks, ZeroEarly, RaiseEarly, ZeroHole,
             zeroDskRangeFS, BlockOpen, WriteByte, BlockDisksize, BlockSizeUp, BlockClose,
             WriteUnlock, updateInodeDisksizeFS
    <3> QED BY <1>0, <3>1, <3>2 DEF ShapesOK, executeFsyncFS
  <2> QED BY SMTT(40), <2>1
          DEF TruncateLock, executeTruncateFS, TruncateZero, TruncateDisk, TruncateSize,
              TruncateUnlock, WriteFlags, WriteChecks, ZeroEarly, RaiseEarly, ZeroHole,
              zeroDskRangeFS, BlockOpen, WriteByte, BlockDisksize, BlockSizeUp, BlockClose,
              WriteUnlock
<1>4. PICK i \in Inodes, S \in SUBSET (InodeFields \ {"made"}) :
         OneMoved(t) /\ Touched(i, S) /\ inode[th'[t].ino].made
  <2>0. inode' = inode => Touched(th[t].ino, {"lock"})
    BY <1>0 DEF Touched, ShapesOK
  <2>1. CASE TruncateLock(t)
    BY <1>0, <2>0, <2>1, TruncateLockEffect DEF InodeFields
  <2>2. CASE executeTruncateFS(t)
    <3>1. inode' = inode
      BY <2>2 DEF executeTruncateFS
    <3> QED BY <1>0, <2>0, <2>2, <3>1, TruncateEffect DEF InodeFields, ThreadFields
  <2>3. CASE WriteFlags(t)
    BY <1>0, <2>0, <2>3, WriteFlagsEffect DEF InodeFields
  <2>4. CASE WriteChecks(t)
    <3>1. /\ OneMoved(t) /\ inode' = inode
          /\ \A x \in ThreadFields \ {"pc", "ret", "woff", "done", "obeg", "k"} :
                th'[t][x] = th[t][x]
      BY <2>4, WriteChecksEffect, Zenon
    <3> QED BY <1>0, <2>0, <3>1 DEF InodeFields, ThreadFields
  <2>5. CASE BlockOpen(t)
    BY <1>0, <2>5, BlockOpenEffect DEF InodeFields, ThreadFields
  <2>6. CASE WriteByte(t)
    BY <1>0, <2>6, WriteByteEffect DEF InodeFields, ThreadFields
  <2>7. CASE BlockClose(t)
    BY <1>0, <2>7, BlockCloseEffect DEF InodeFields, ThreadFields
  <2>8. CASE TruncateZero(t) \/ ZeroEarly(t) \/ ZeroHole(t)
    BY <1>0, <2>8, ZeroEffect, ZenonT(60) DEF TruncateZero, ZeroEarly, ZeroHole, At, InodeFields, ThreadFields
  <2>9. CASE TruncateDisk(t)
    BY <1>0, <2>9, TruncateDiskEffect DEF InodeFields, ThreadFields
  <2>10. CASE TruncateSize(t)
    BY <1>0, <2>10, TruncateSizeEffect DEF InodeFields, ThreadFields
  <2>11. CASE TruncateUnlock(t)
    BY <1>0, <2>11, TruncateUnlockEffect DEF InodeFields
  <2>12. CASE RaiseEarly(t)
    BY <1>0, <2>12, RaiseEarlyEffect DEF InodeFields, ThreadFields
  <2>13. CASE BlockDisksize(t)
    BY <1>0, <2>13, BlockDisksizeEffect DEF InodeFields, ThreadFields
  <2>14. CASE BlockSizeUp(t)
    BY <1>0, <2>14, BlockSizeUpEffect DEF InodeFields, ThreadFields
  <2>15. CASE WriteUnlock(t)
    BY <1>0, <2>15, WriteUnlockEffect DEF InodeFields, ThreadFields
  <2> QED BY <2>1, <2>2, <2>3, <2>4, <2>5, <2>6, <2>7, <2>8, <2>9, <2>10, <2>11, <2>12, <2>13,
             <2>14, <2>15
<1> QED BY <1>1, <1>2, <1>3, <1>4, TypedInodeStep

-----------------------------------------------------------------------------
(* Locks.  Where thread t goes in a step, seen by the directory's lock ... *)
DirClass(t) ==
    \/ /\ th[t].pc \notin DirPc /\ th'[t].pc \notin DirPc
       /\ UNCHANGED <<dirLock, dirTrans>>
    \/ /\ dirLock = Free /\ dirLock' = t /\ th'[t].pc \in DirPc
       /\ UNCHANGED dirTrans
    \/ /\ th[t].pc \in DirPc /\ th'[t].pc \notin DirPc
       /\ dirLock' = Free /\ dirTrans' = 0
    \/ /\ th[t].pc \in DirPc /\ th'[t].pc \in TransPc
       /\ UNCHANGED dirLock

(* ... by the inodes' locks ...                                            *)
SameInodeLocks == \A i \in Inodes : inode'[i].lock = inode[i].lock
Relocked(i, l) ==
    /\ i \in Inodes /\ inode'[i].lock = l
    /\ \A j \in Inodes \ {i} : inode'[j].lock = inode[j].lock
InoClass(t) ==
    \/ /\ th[t].pc \notin InoPc /\ th'[t].pc \notin InoPc
       /\ SameInodeLocks
    \/ /\ th[t].pc \in InoPc /\ th'[t].pc \in InoPc /\ th'[t].ino = th[t].ino
       /\ SameInodeLocks
    \/ /\ th[t].pc \notin InoPc /\ th'[t].pc \in InoPc
       /\ inode[th'[t].ino].lock = Free /\ Relocked(th'[t].ino, t)
    \/ /\ th[t].pc \in InoPc /\ th'[t].pc \notin InoPc
       /\ Relocked(th[t].ino, Free)

(* ... and by the position locks of the descriptions.                      *)
SameFileLocks == DOMAIN file' = DOMAIN file
                 /\ \A f \in DOMAIN file : file'[f].lock = file[f].lock
SameCall(t) == Call(t)' = Call(t) /\ th'[t].fd = th[t].fd
FileRelocked(f, l) ==
    /\ DOMAIN file' = DOMAIN file /\ f \in DOMAIN file /\ file'[f].lock = l
    /\ \A g \in DOMAIN file \ {f} : file'[g].lock = file[g].lock
PosClass(t) ==
    \/ /\ th[t].pc \notin PosPc \cup {"blocked"} /\ th'[t].pc \notin PosPc
       /\ \A f \in DOMAIN file' : \/ f \in DOMAIN file /\ file'[f].lock = file[f].lock
                                  \/ file'[f].lock = Free
       /\ \A f \in DOMAIN file : f \in DOMAIN file' /\ file'[f].lock = file[f].lock
    \/ /\ th[t].pc \in PosPc /\ th'[t].pc \in PosPc \cup {"blocked"}
       /\ SameCall(t) /\ SameFileLocks
    \/ /\ th[t].pc \notin PosPc \cup {"blocked"} /\ Positional(t) /\ SameCall(t) /\ SameFileLocks
    \/ /\ th[t].pc \in PosPc /\ Positional(t) /\ th'[t].pc = "call" /\ SameFileLocks
    \/ /\ th[t].pc \notin PosPc \cup {"blocked"} /\ th'[t].pc \in PosPc
       /\ ~Positional(t) /\ SameCall(t)
       /\ Fd(t) \in DOMAIN file /\ file[Fd(t)].lock = Free /\ FileRelocked(Fd(t), t)
    \/ /\ th[t].pc \in PosPc /\ ~Positional(t) /\ th'[t].pc = "call"
       /\ \/ FileRelocked(Fd(t), Free)
          \/ SameFileLocks /\ Fd(t) \in th'[t].lost

OthersSame(t) == LostKept(t) /\ \A u \in Threads : u # t => th'[u] = th[u]

LEMMA LockedDir ==
    ASSUME Typed, Locked, NEW t \in Threads, OthersSame(t), DirClass(t)
    PROVE  (DirLockHeld /\ TransHeld)'
<1>0. DirLockHeld /\ TransHeld /\ Free \notin Threads /\ dirLock \in Threads \cup {Free}
      /\ dirTrans \in {0, 1}
  BY FSAssumption DEF Locked, Typed, ShapesOK
<1>1. \A u \in Threads : u # t => th'[u].pc = th[u].pc
  BY DEF OthersSame
<1>2. dirLock = t <=> th[t].pc \in DirPc
  BY <1>0 DEF DirLockHeld
<1>3. CASE /\ th[t].pc \notin DirPc /\ th'[t].pc \notin DirPc
           /\ UNCHANGED <<dirLock, dirTrans>>
  <2>1. dirLock # t
    BY <1>2, <1>3
  <2> QED BY <1>0, <1>1, <1>3, <2>1 DEF DirLockHeld, TransHeld
<1>4. CASE dirLock = Free /\ dirLock' = t /\ th'[t].pc \in DirPc /\ UNCHANGED dirTrans
  <2>1. \A u \in Threads : th[u].pc \notin DirPc
    BY <1>0, <1>4 DEF DirLockHeld
  <2>2. dirTrans # 1
    BY <1>0, <1>4 DEF TransHeld
  <2> QED BY <1>1, <1>4, <2>1, <2>2 DEF DirLockHeld, TransHeld
<1>5. CASE /\ th[t].pc \in DirPc /\ th'[t].pc \notin DirPc
           /\ dirLock' = Free /\ dirTrans' = 0
  <2>1. \A u \in Threads : u # t => th[u].pc \notin DirPc
    BY <1>0, <1>2, <1>5 DEF DirLockHeld
  <2> QED BY <1>0, <1>1, <1>5, <2>1 DEF DirLockHeld, TransHeld
<1>6. CASE /\ th[t].pc \in DirPc /\ th'[t].pc \in TransPc
           /\ UNCHANGED dirLock
  <2>1. th'[t].pc \in DirPc /\ dirLock' = t
    BY <1>2, <1>6 DEF DirPc
  <2> QED BY <1>0, <1>1, <1>2, <1>6, <2>1 DEF DirLockHeld, TransHeld
<1> QED BY <1>3, <1>4, <1>5, <1>6 DEF DirClass

LEMMA LockedInodes ==
    ASSUME Typed, Locked, NEW t \in Threads, OthersSame(t), InoClass(t)
    PROVE  InodeLocksHeld'
<1>0. InodeLocksHeld /\ Free \notin Threads
  BY FSAssumption DEF Locked
<1>1. \A u \in Threads : u # t => th'[u].pc = th[u].pc /\ th'[u].ino = th[u].ino
  BY DEF OthersSame
<1>2. SUFFICES ASSUME NEW u \in Threads, NEW i \in Inodes
               PROVE  inode'[i].lock = u <=> th'[u].pc \in InoPc /\ th'[u].ino = i
  BY DEF InodeLocksHeld
<1>3. inode[i].lock = u <=> th[u].pc \in InoPc /\ th[u].ino = i
  BY <1>0 DEF InodeLocksHeld
<1>4. inode[i].lock = t <=> th[t].pc \in InoPc /\ th[t].ino = i
  BY <1>0 DEF InodeLocksHeld
<1>5. CASE u = t
  BY <1>0, <1>3, <1>5 DEF InoClass, SameInodeLocks, Relocked
<1>6. CASE u # t
  BY <1>0, <1>1, <1>3, <1>4, <1>6 DEF InoClass, SameInodeLocks, Relocked
<1> QED BY <1>5, <1>6

LEMMA LockedFiles ==
    ASSUME Typed, Locked, NEW t \in Threads, OthersSame(t), PosClass(t)
    PROVE  PosLocksHeld'
<1>0. PosLocksHeld /\ Free \notin Threads
  BY FSAssumption DEF Locked
<1>1. \A u \in Threads : u # t => /\ th'[u].pc = th[u].pc /\ Fd(u)' = Fd(u)
                                  /\ th'[u].lost = th[u].lost
                                  /\ Positional(u)' = Positional(u)
  BY DEF OthersSame, Fd, Positional, Call
<1>2. SameCall(t) => Fd(t)' = Fd(t) /\ Positional(t)' = Positional(t)
  BY DEF SameCall, Fd, Positional
<1>3. SUFFICES ASSUME NEW u \in Threads
               PROVE  /\ InPos(u)' => Fd(u)' \in DOMAIN file' /\ file'[Fd(u)'].lock = u
                      /\ \A f \in DOMAIN file' : file'[f].lock = u =>
                            \/ f \in th'[u].lost
                            \/ /\ th'[u].pc \in PosPc \cup {"blocked"}
                               /\ ~Positional(u)' /\ f = Fd(u)'
  BY DEF PosLocksHeld
<1>4. \A v \in Threads :
         /\ InPos(v) => Fd(v) \in DOMAIN file /\ file[Fd(v)].lock = v
         /\ \A f \in DOMAIN file : file[f].lock = v =>
               \/ f \in th[v].lost
               \/ /\ th[v].pc \in PosPc \cup {"blocked"}
                  /\ ~Positional(v) /\ f = Fd(v)
  BY <1>0 DEF PosLocksHeld
<1>5. "call" \notin PosPc \cup {"blocked"}
  BY DEF PosPc
<1>6. CASE u = t
  <2>1. \A f : f \in th[t].lost => f \in th'[t].lost
    BY DEF OthersSame, LostKept
  <2> QED BY <1>0, <1>2, <1>4, <1>5, <1>6, <2>1 DEF PosClass, InPos, SameFileLocks, FileRelocked
<1>7. CASE u # t
  <2>1. /\ InPos(u) => Fd(u) \in DOMAIN file /\ file[Fd(u)].lock = u
        /\ \A f \in DOMAIN file : file[f].lock = u =>
               \/ f \in th[u].lost
               \/ /\ th[u].pc \in PosPc \cup {"blocked"}
                  /\ ~Positional(u) /\ f = Fd(u)
    BY <1>4
  <2>2. InPos(u)' <=> InPos(u)
    BY <1>1, <1>7 DEF InPos
  <2>3. /\ \A f \in DOMAIN file : file[f].lock = u => f \in DOMAIN file' /\ file'[f].lock = u
        /\ \A f \in DOMAIN file' : file'[f].lock = u => f \in DOMAIN file /\ file[f].lock = u
    <3>1. CASE ~InPos(t) \/ th'[t].pc # "call"
      BY <1>0, <1>7, <3>1 DEF PosClass, SameFileLocks, FileRelocked, InPos
    <3>2. CASE InPos(t) /\ th'[t].pc = "call"
      <4>1. file[Fd(t)].lock = t
        BY <1>4, <3>2
      <4> QED BY <1>0, <1>5, <1>7, <3>2, <4>1 DEF PosClass, SameFileLocks, FileRelocked, InPos
    <3> QED BY <3>1, <3>2
  <2> QED BY <1>1, <1>7, <2>1, <2>2, <2>3
<1> QED BY <1>6, <1>7

LEMMA OneThread ==
    ASSUME Typed, NEW t \in Threads, NEW fields, Set(t, fields),
           DOMAIN fields \subseteq ThreadFields \ {"lost"}
    PROVE  OthersSame(t)
<1>1. ShapesOK
  BY DEF Typed
<1> QED BY <1>1, Setting DEF OthersSame, LostKept, ThreadFields

LEMMA LockedStep ==
    ASSUME Typed, Locked, NEW t \in Threads, OthersSame(t), DirClass(t), InoClass(t), PosClass(t)
    PROVE  Locked'
BY LockedDir, LockedInodes, LockedFiles DEF Locked

(* A step that sets a program counter.                                     *)
LEMMA PcSet ==
    ASSUME Typed, NEW t \in Threads, NEW fields,
           "pc" \in DOMAIN fields, DOMAIN fields \subseteq ThreadFields, Set(t, fields)
    PROVE  th'[t].pc = fields["pc"]
<1>1. ShapesOK
  BY DEF Typed
<1>2. th'[t]["pc"] = fields["pc"]
  BY <1>1, Setting DEF ThreadFields
<1> QED BY <1>2

LEMMA PcReturned ==
    ASSUME Typed, NEW t \in Threads, NEW v, Return(t, v)
    PROVE  th'[t].pc = "call" /\ OthersSame(t)
<1>1. DOMAIN Returned(t, v) = {"pc", "todo", "rets"} /\ Returned(t, v)["pc"] = "call"
  BY DEF Returned
<1>2. Set(t, Returned(t, v))
  BY DEF Return
<1>3. th'[t].pc = Returned(t, v)["pc"]
  BY <1>1, <1>2, PcSet DEF ThreadFields
<1> QED BY <1>1, <1>2, <1>3, OneThread DEF ThreadFields

(* Calls that take no lock.                                                *)
LEMMA LockedOutside ==
    ASSUME Typed, Locked, NEW t \in Threads,
           \/ CallOpen(t) \/ LookupTrans(t) \/ LookupEntry(t) \/ OpenFile(t) \/ CallClose(t)
           \/ BadDescriptor(t) \/ CallFsync(t) \/ CallSync(t)
    PROVE  /\ Locked' /\ OthersSame(t)
           /\ th[t].pc \notin InoPc \cup PosPc /\ th'[t].pc \notin InoPc \cup PosPc
<1> USE DEF history
<1>1. th[t].pc \in {"call", "lookup", "entry", "open"}
      /\ UNCHANGED <<dirLock, dirTrans, inode>>
  BY DEF CallOpen, LookupTrans, LookupEntry, OpenFile, CallClose, BadDescriptor, CallFsync,
         CallSync, Calls, At
<1>2. /\ th'[t].pc \in {"call", "lockdir", "lookup", "blocked", "entry", "open", "locktrunc"}
      /\ OthersSame(t)
  <2>1. CASE \E v : Return(t, v)
    BY <2>1, PcReturned
  <2>2. CASE CallOpen(t) /\ ~\E v : Return(t, v)
    <3>1. PICK pc \in {"lockdir", "lookup"} : Set(t, [pc |-> pc, flags |-> CallFlags(t)])
      BY <2>2 DEF CallOpen
    <3> QED BY <3>1, PcSet, OneThread DEF ThreadFields
  <2>3. CASE LookupTrans(t)
    <3>1. PICK pc \in {"blocked", "entry"} : Set(t, [pc |-> pc])
      BY <2>3 DEF LookupTrans
    <3> QED BY <3>1, PcSet, OneThread DEF ThreadFields
  <2>4. CASE LookupEntry(t) /\ ~\E v : Return(t, v)
    <3>1. PICK i, s : Set(t, [pc |-> "open", ino |-> i, seen |-> s])
      BY <2>4 DEF LookupEntry
    <3> QED BY <3>1, PcSet, OneThread DEF ThreadFields
  <2>5. CASE OpenFile(t)
    <3> DEFINE opened == [fd |-> handleDskOpen, ino |-> th[t].ino]
    <3>1. CASE \E v : Set(t, Merge(opened, Returned(t, v)))
      <4>1. PICK v : Set(t, Merge(opened, Returned(t, v)))
        BY <3>1
      <4> DEFINE fields == Merge(opened, Returned(t, v))
      <4>2. DOMAIN fields = {"fd", "ino", "pc", "todo", "rets"} /\ fields["pc"] = "call"
        BY DEF Merge, Returned
      <4> HIDE DEF fields
      <4>3. Set(t, fields)
        BY <4>1 DEF fields
      <4> QED BY <4>2, <4>3, PcSet, OneThread DEF ThreadFields
    <3>2. CASE Set(t, Merge(opened, [pc |-> "locktrunc"]))
      <4> DEFINE fields == Merge(opened, [pc |-> "locktrunc"])
      <4>1. DOMAIN fields = {"fd", "ino", "pc"} /\ fields["pc"] = "locktrunc"
        BY DEF Merge
      <4> HIDE DEF fields
      <4>2. Set(t, fields)
        BY <3>2 DEF fields
      <4> QED BY <4>1, <4>2, PcSet, OneThread DEF ThreadFields
    <3> QED BY <2>5, <3>1, <3>2 DEF OpenFile
  <2> QED BY <2>1, <2>2, <2>3, <2>4, <2>5 DEF CallClose, BadDescriptor, CallFsync, CallSync
<1>3. DirClass(t)
  BY <1>1, <1>2 DEF DirClass, DirPc, TransPc
<1>4. InoClass(t)
  BY <1>1, <1>2 DEF InoClass, InoPc, WritePc, SameInodeLocks
<1>5. /\ \A f \in DOMAIN file' : \/ f \in DOMAIN file /\ file'[f].lock = file[f].lock
                                 \/ file'[f].lock = Free
      /\ \A f \in DOMAIN file : f \in DOMAIN file' /\ file'[f].lock = file[f].lock
  <2>1. CASE OpenFile(t)
    <3> DEFINE fd == handleDskOpen
               new == [inode |-> th[t].ino, count |-> 1, acc |-> CallAcc(t),
                       flags |-> th[t].flags, lock |-> Free, offset |-> 0]
    <3>1. file' = Merge(file, [f \in {fd} |-> new]) /\ new.lock = Free
      BY <2>1 DEF OpenFile
    <3> HIDE DEF fd, new
    <3> QED BY <3>1 DEF Merge
  <2>2. CASE CallClose(t)
    <3>1. file' = file \/ (HasFile(t) /\ file' = [file EXCEPT ![Fd(t)].count = @ - 1])
      BY <2>2 DEF CallClose
    <3> QED BY <3>1, FilesTyped DEF FilesOK, FileFields
  <2>3. CASE file' = file
    BY <2>3
  <2> QED BY <2>1, <2>2, <2>3
          DEF CallOpen, LookupTrans, LookupEntry, BadDescriptor, CallFsync, CallSync
<1>6. PosClass(t)
  BY <1>1, <1>2, <1>5 DEF PosClass, PosPc
<1>7. th[t].pc \notin InoPc \cup PosPc /\ th'[t].pc \notin InoPc \cup PosPc
  BY <1>1, <1>2 DEF InoPc, WritePc, PosPc
<1> QED BY <1>2, <1>3, <1>4, <1>6, <1>7, LockedStep

(* An inode nobody refers to is not locked.                                *)
LEMMA FreshUnlocked ==
    ASSUME Typed, Locked, NEW i \in FreshInodes
    PROVE  i \in Inodes /\ inode[i].lock = Free
<1>1. i \in Inodes /\ ~inode[i].made
  BY DEF FreshInodes
<1>2. inode[i].lock \in Threads \cup {Free}
  BY <1>1 DEF Typed, ShapesOK, InodeType
<1>3. \A u \in Threads : inode[i].lock # u
  BY <1>1 DEF Locked, InodeLocksHeld, Typed, ReferencesMade
<1> QED BY <1>1, <1>2, <1>3

(* A thread at the directory finds no transaction of another one.          *)
LEMMA NoTransaction ==
    ASSUME Typed, Locked, NEW t \in Threads, th[t].pc = "dir"
    PROVE  dirTrans = 0
<1>1. dirTrans \in {0, 1} /\ dirLock = t
  BY DEF Typed, ShapesOK, Locked, DirLockHeld, DirPc
<1> QED BY <1>1 DEF Locked, TransHeld, TransPc

(* The operations under the directory's lock.                              *)
LEMMA LockedDirectory ==
    ASSUME Typed, Locked, NEW t \in Threads,
           \/ LockDir(t) \/ LookupOrCreate(t) \/ LookupTruncate(t)
           \/ CallLink(t) \/ CallUnlink(t) \/ CallRename(t)
           \/ RenameLink(t) \/ RenameUnlink(t) \/ RenameEnd(t)
    PROVE  /\ Locked' /\ OthersSame(t)
           /\ th[t].pc \notin InoPc \cup PosPc /\ th'[t].pc \notin InoPc \cup PosPc
<1> USE DEF history
<1>0. th[t].pc = "dir" => dirTrans = 0
  BY NoTransaction
<1>1. file' = file
  BY DEF LockDir, LookupOrCreate, LookupTruncate, CallLink, CallUnlink, CallRename, RenameLink,
         RenameUnlink, RenameEnd
<1>2. th[t].pc \in {"call", "lockdir", "dir", "rlink", "runlink", "rend"}
  BY DEF LockDir, LookupOrCreate, LookupTruncate, CallLink, CallUnlink, CallRename, RenameLink,
         RenameUnlink, RenameEnd, At, Calls
<1>3. SameInodeLocks
  <2>1. CASE LookupOrCreate(t) /\ inode' # inode
    <3>1. PICK i \in FreshInodes : inode' = [inode EXCEPT ![i] = NewInode]
      BY <2>1 DEF LookupOrCreate, executeInodeCreateFS
    <3>2. i \in Inodes /\ inode[i].lock = Free /\ NewInode.lock = Free
      BY FreshUnlocked DEF NewInode
    <3> QED BY <3>1, <3>2 DEF SameInodeLocks, Typed, ShapesOK
  <2>2. CASE inode' = inode
    BY <2>2 DEF SameInodeLocks
  <2> QED BY <2>1, <2>2
          DEF LockDir, LookupTruncate, CallLink, CallUnlink, CallRename, RenameLink,
              RenameUnlink, RenameEnd
<1>4. /\ OthersSame(t) /\ DirClass(t)
      /\ th'[t].pc \in {"call", "dir", "open", "locktrunc", "rlink", "runlink", "rend"}
  <2>1. CASE LockDir(t)
    <3>1. th'[t].pc = "dir" /\ OthersSame(t)
      BY <2>1, PcSet, OneThread DEF LockDir, ThreadFields
    <3> QED BY <2>1, <3>1 DEF LockDir, DirClass, DirPc
  <2>2. CASE /\ dirLock' = Free /\ dirTrans' = 0 /\ th[t].pc \in DirPc
             /\ \/ \E v : Return(t, v)
                \/ \E i, s : Set(t, [pc |-> "open", ino |-> i, seen |-> s])
                \/ \E i, s : Set(t, [pc |-> "open", ino |-> i, flags |-> s])
                \/ \E i : Set(t, [pc |-> "locktrunc", ino |-> i])
    <3>1. th'[t].pc \in {"call", "open", "locktrunc"} /\ OthersSame(t)
      <4>1. CASE \E v : Return(t, v)
        BY <4>1, PcReturned
      <4>2. CASE \E i, s : Set(t, [pc |-> "open", ino |-> i, seen |-> s])
        BY <4>2, PcSet, OneThread DEF ThreadFields
      <4>3. CASE \E i, s : Set(t, [pc |-> "open", ino |-> i, flags |-> s])
        BY <4>3, PcSet, OneThread DEF ThreadFields
      <4>4. CASE \E i : Set(t, [pc |-> "locktrunc", ino |-> i])
        BY <4>4, PcSet, OneThread DEF ThreadFields
      <4> QED BY <2>2, <4>1, <4>2, <4>3, <4>4
    <3> QED BY <2>2, <3>1 DEF DirClass, DirPc, TransPc
  <2>3. CASE LookupOrCreate(t)
    <3>1. th[t].pc = "dir" /\ dirTrans = 0 /\ dirTrans' = dirTrans
      BY <1>0, <2>3 DEF LookupOrCreate, At
    <3>2. dirLock' = Free
      BY <2>3, <3>1 DEF LookupOrCreate
    <3>3. \/ \E i, s : Set(t, [pc |-> "open", ino |-> i, seen |-> s])
          \/ \E i, s : Set(t, [pc |-> "open", ino |-> i, flags |-> s])
      <4>1. CASE dir[Call(t).name] # 0
        <5>1. Set(t, [pc |-> "open", ino |-> dir[Call(t).name],
                      seen |-> Append(th[t].seen, <<Call(t).name, dir[Call(t).name]>>)])
          BY <2>3, <3>1, <4>1 DEF LookupOrCreate
        <5> QED BY <5>1
      <4>2. CASE dir[Call(t).name] = 0
        <5>1. PICK i \in FreshInodes :
                 Set(t, [pc |-> "open", ino |-> i, flags |-> th[t].flags \ {"TRUNC"}])
          BY <2>3, <3>1, <4>2 DEF LookupOrCreate
        <5> QED BY <5>1
      <4> QED BY <4>1, <4>2
    <3> QED BY <2>2, <3>1, <3>2, <3>3 DEF DirPc
  <2>4. CASE LookupTruncate(t)
    <3>1. th[t].pc = "dir" /\ dirTrans = 0 /\ dirTrans' = dirTrans
      BY <1>0, <2>4 DEF LookupTruncate, At
    <3>2. dirLock' = Free /\ \/ \E v : Return(t, v)
                             \/ \E i : Set(t, [pc |-> "locktrunc", ino |-> i])
      <4>1. /\ dirLock' = Free
            /\ Return(t, -1) \/ Set(t, [pc |-> "locktrunc", ino |-> dir[Call(t).name]])
        BY <2>4, <3>1 DEF LookupTruncate
      <4> QED BY <4>1
    <3> QED BY <2>2, <3>1, <3>2 DEF DirPc
  <2>5. CASE CallLink(t) \/ CallUnlink(t)
    <3>1. th[t].pc = "dir" /\ dirTrans' = 0 /\ dirLock' = Free /\ \E v : Return(t, v)
      BY <2>5 DEF CallLink, CallUnlink, At
    <3> QED BY <2>2, <3>1 DEF DirPc
  <2>6. CASE RenameEnd(t)
    <3>1. th[t].pc = "rend" /\ dirTrans' = 0 /\ dirLock' = Free /\ \E v : Return(t, v)
      BY <2>6 DEF RenameEnd, At
    <3> QED BY <2>2, <3>1 DEF DirPc, TransPc
  <2>7. CASE /\ th[t].pc \in DirPc /\ UNCHANGED dirLock
             /\ \/ \E pc \in {"runlink", "rend"} : Set(t, [pc |-> pc])
                \/ \E i : Set(t, [pc |-> "rlink", ino |-> i])
    <3>1. th'[t].pc \in {"rlink", "runlink", "rend"} /\ OthersSame(t)
      <4>1. CASE \E pc \in {"runlink", "rend"} : Set(t, [pc |-> pc])
        BY <4>1, PcSet, OneThread DEF ThreadFields
      <4>2. CASE \E i : Set(t, [pc |-> "rlink", ino |-> i])
        BY <4>2, PcSet, OneThread DEF ThreadFields
      <4> QED BY <2>7, <4>1, <4>2
    <3> QED BY <2>7, <3>1 DEF DirClass, TransPc
  <2>8. CASE RenameLink(t) \/ RenameUnlink(t)
    <3>1. th[t].pc \in DirPc
      BY <2>8 DEF RenameLink, RenameUnlink, At, DirPc, TransPc
    <3>2. \E pc \in {"runlink", "rend"} : Set(t, [pc |-> pc])
      BY <2>8 DEF RenameLink, RenameUnlink
    <3> QED BY <2>7, <2>8, <3>1, <3>2 DEF RenameLink, RenameUnlink
  <2>9. CASE CallRename(t)
    <3>1. th[t].pc = "dir" /\ dirTrans = 0
      BY <2>9 DEF CallRename, At
    <3>2. \/ dirLock' = Free /\ dirTrans' = dirTrans /\ \E v : Return(t, v)
          \/ dirLock' = dirLock /\ \E i : Set(t, [pc |-> "rlink", ino |-> i])
      BY <2>9 DEF CallRename
    <3> QED BY <2>2, <2>7, <3>1, <3>2 DEF DirPc
  <2> QED BY <2>1, <2>3, <2>4, <2>5, <2>6, <2>8, <2>9
<1>5. InoClass(t)
  BY <1>2, <1>3, <1>4 DEF InoClass, InoPc, WritePc
<1>6. PosClass(t)
  BY <1>1, <1>2, <1>4 DEF PosClass, PosPc
<1>7. th[t].pc \notin InoPc \cup PosPc /\ th'[t].pc \notin InoPc \cup PosPc
  BY <1>2, <1>4 DEF InoPc, WritePc, PosPc
<1> QED BY <1>4, <1>5, <1>6, <1>7, LockedStep

LEMMA MovedOthers ==
    ASSUME NEW t, OneMoved(t)
    PROVE  OthersSame(t)
BY DEF OneMoved, OthersSame

(* Locks under Touched.                                                    *)
LEMMA TouchedLocks ==
    ASSUME NEW i \in Inodes, NEW S \in SUBSET InodeFields, Touched(i, S)
    PROVE  /\ "lock" \notin S => SameInodeLocks
           /\ \A l : inode'[i].lock = l => Relocked(i, l)
           /\ inode'[i].lock = inode[i].lock => SameInodeLocks
<1>1. \A j \in Inodes \ {i} : inode'[j].lock = inode[j].lock
  BY DEF Touched
<1>2. "lock" \notin S => inode'[i].lock = inode[i].lock
  BY DEF Touched, InodeFields
<1> QED BY <1>1, <1>2 DEF SameInodeLocks, Relocked

(* Truncation and writing: the steps of whoever holds the inode's lock ... *)
TruncIn == {"trunc", "tzero", "tdisk", "tsize", "tunlock"}
WriteIn == {"wchecks", "wearly", "wraise", "whole", "wopen", "wbytes", "wsize", "wclose",
            "wunlock"}
Inside(t) ==
    \/ executeTruncateFS(t) \/ TruncateZero(t) \/ TruncateDisk(t) \/ TruncateSize(t)
    \/ WriteChecks(t) \/ ZeroEarly(t) \/ RaiseEarly(t) \/ ZeroHole(t)
    \/ BlockOpen(t) \/ WriteByte(t) \/ BlockDisksize(t) \/ BlockSizeUp(t) \/ BlockClose(t)

LEMMA InsideStep ==
    ASSUME Typed, WritesOnTheWay, NEW t \in Threads, Inside(t)
    PROVE  /\ OneMoved(t) /\ SameCall(t) /\ th'[t].ino = th[t].ino /\ th'[t].pos = th[t].pos
           /\ th'[t].buf = th[t].buf /\ th'[t].lost = th[t].lost
           /\ th'[t].todo = th[t].todo /\ th'[t].seen = th[t].seen
           /\ \A j \in Inodes : inode'[j].made = inode[j].made
           /\ SameInodeLocks /\ UNCHANGED <<dir, dirLock, dirTrans, file, moved>>
           /\ \/ th[t].pc \in TruncIn /\ th'[t].pc \in TruncIn
              \/ th[t].pc \in WriteIn /\ th'[t].pc \in WriteIn
<1> USE DEF history
<1>0. th[t].ino \in Inodes /\ UNCHANGED <<dir, dirLock, dirTrans, file, moved>>
  BY DEF Typed, ThreadOK, Inside, executeTruncateFS, TruncateZero, TruncateDisk, TruncateSize,
         WriteChecks, ZeroEarly, RaiseEarly, ZeroHole, zeroDskRangeFS, BlockOpen, WriteByte,
         BlockDisksize, BlockSizeUp, BlockClose
<1> DEFINE Same == /\ OneMoved(t) /\ SameCall(t) /\ th'[t].ino = th[t].ino
                   /\ th'[t].pos = th[t].pos /\ th'[t].buf = th[t].buf
                   /\ th'[t].lost = th[t].lost /\ th'[t].todo = th[t].todo
                   /\ th'[t].seen = th[t].seen /\ SameInodeLocks
                   /\ \A j \in Inodes : inode'[j].made = inode[j].made
           Places == \/ th[t].pc \in TruncIn /\ th'[t].pc \in TruncIn
                     \/ th[t].pc \in WriteIn /\ th'[t].pc \in WriteIn
<1>1. ASSUME NEW S \in SUBSET (InodeFields \ {"lock", "made"}), OneMoved(t), Call(t)' = Call(t),
             \A x \in {"ino", "pos", "buf", "fd", "lost", "todo", "seen"} : th'[t][x] = th[t][x],
             Touched(th[t].ino, S)
      PROVE  Same
  <2>1. SameInodeLocks
    BY <1>0, <1>1, TouchedLocks DEF InodeFields
  <2>2. \A j \in Inodes : inode'[j].made = inode[j].made
    BY <1>1 DEF Touched, InodeFields
  <2> QED BY <1>1, <2>1, <2>2 DEF SameCall
<1>2. inode' = inode => Touched(th[t].ino, {})
  BY <1>0 DEF Touched, Typed, ShapesOK
<1>3. CASE executeTruncateFS(t)
  <2>1. /\ OneMoved(t) /\ Call(t)' = Call(t) /\ th[t].pc = "trunc" /\ inode' = inode
        /\ \A x \in ThreadFields \ {"pc", "ret", "k"} : th'[t][x] = th[t][x]
        /\ th'[t].pc \in {"tunlock", "tzero", "tdisk"}
    BY <1>3, TruncateEffect DEF executeTruncateFS
  <2>2. Same
    BY <1>1, <1>2, <2>1 DEF ThreadFields
  <2> QED BY <1>0, <2>1, <2>2 DEF TruncIn
<1>4. CASE TruncateZero(t) \/ ZeroEarly(t) \/ ZeroHole(t)
  <2>1. /\ OneMoved(t) /\ Call(t)' = Call(t) /\ Touched(th[t].ino, {"data"})
        /\ \A x \in ThreadFields \ {"pc", "k"} : th'[t][x] = th[t][x]
        /\ \/ th[t].pc = "tzero" /\ th'[t].pc \in {"tzero", "tdisk"}
           \/ th[t].pc = "wearly" /\ th'[t].pc \in {"wearly", "wraise"}
           \/ th[t].pc = "whole" /\ th'[t].pc \in {"whole", "wopen"}
    BY <1>4, ZeroEffect, ZenonT(60) DEF TruncateZero, ZeroEarly, ZeroHole, At
  <2>2. Same
    BY <1>1, <2>1 DEF ThreadFields, InodeFields
  <2> QED BY <1>0, <2>1, <2>2 DEF TruncIn, WriteIn
<1>5. CASE TruncateDisk(t)
  <2>1. /\ OneMoved(t) /\ Call(t)' = Call(t) /\ Touched(th[t].ino, {"dsize"})
        /\ \A x \in ThreadFields \ {"pc"} : th'[t][x] = th[t][x]
        /\ th[t].pc = "tdisk" /\ th'[t].pc = "tsize"
    BY <1>5, TruncateDiskEffect
  <2>2. Same
    BY <1>1, <2>1 DEF ThreadFields, InodeFields
  <2> QED BY <1>0, <2>1, <2>2 DEF TruncIn
<1>6. CASE TruncateSize(t)
  <2>1. /\ OneMoved(t) /\ Call(t)' = Call(t) /\ Touched(th[t].ino, {"isize"})
        /\ \A x \in ThreadFields \ {"pc", "ret"} : th'[t][x] = th[t][x]
        /\ th[t].pc = "tsize" /\ th'[t].pc = "tunlock"
    BY <1>6, TruncateSizeEffect
  <2>2. Same
    BY <1>1, <2>1 DEF ThreadFields, InodeFields
  <2> QED BY <1>0, <2>1, <2>2 DEF TruncIn
<1>7. CASE WriteChecks(t)
  <2>1. /\ OneMoved(t) /\ Call(t)' = Call(t) /\ inode' = inode
        /\ \A x \in ThreadFields \ {"pc", "ret", "woff", "done", "obeg", "k"} :
              th'[t][x] = th[t][x]
        /\ th[t].pc = "wchecks" /\ th'[t].pc \in {"wunlock", "wearly", "whole", "wopen"}
    BY <1>7, WriteChecksEffect DEF At, HolePc
  <2>2. Same
    BY <1>1, <1>2, <2>1 DEF ThreadFields
  <2> QED BY <1>0, <2>1, <2>2 DEF WriteIn
<1>8. CASE RaiseEarly(t)
  <2>1. /\ OneMoved(t) /\ Call(t)' = Call(t) /\ Touched(th[t].ino, {"dsize"})
        /\ \A x \in ThreadFields \ {"pc", "k"} : th'[t][x] = th[t][x]
        /\ th[t].pc = "wraise" /\ th'[t].pc \in {"whole", "wopen"}
    BY <1>8, RaiseEarlyEffect DEF HolePc
  <2>2. Same
    BY <1>1, <2>1 DEF ThreadFields, InodeFields
  <2> QED BY <1>0, <2>1, <2>2 DEF WriteIn
<1>9. CASE BlockOpen(t)
  <2>1. /\ OneMoved(t) /\ Call(t)' = Call(t) /\ Touched(th[t].ino, {"trans"})
        /\ \A x \in ThreadFields \ {"pc", "blk", "k"} : th'[t][x] = th[t][x]
        /\ th[t].pc = "wopen" /\ th'[t].pc = "wbytes"
    BY <1>9, BlockOpenEffect
  <2>2. Same
    BY <1>1, <2>1 DEF ThreadFields, InodeFields
  <2> QED BY <1>0, <2>1, <2>2 DEF WriteIn
<1>10. CASE WriteByte(t)
  <2>1. /\ OneMoved(t) /\ Call(t)' = Call(t) /\ Touched(th[t].ino, {"data"})
        /\ \A x \in ThreadFields \ {"k"} : th'[t][x] = th[t][x]
        /\ th[t].pc = "wbytes"
    BY <1>10, WriteByteEffect
  <2>2. Same /\ th'[t].pc = "wbytes"
    BY <1>1, <2>1 DEF ThreadFields, InodeFields
  <2> QED BY <1>0, <2>1, <2>2 DEF WriteIn
<1>11. CASE BlockDisksize(t)
  <2>1. /\ OneMoved(t) /\ Call(t)' = Call(t) /\ Touched(th[t].ino, {"dsize"})
        /\ \A x \in ThreadFields \ {"pc"} : th'[t][x] = th[t][x]
        /\ th[t].pc = "wbytes" /\ th'[t].pc = "wsize"
    BY <1>11, BlockDisksizeEffect
  <2>2. Same
    BY <1>1, <2>1 DEF ThreadFields, InodeFields
  <2> QED BY <1>0, <2>1, <2>2 DEF WriteIn
<1>12. CASE BlockSizeUp(t)
  <2>1. /\ OneMoved(t) /\ Call(t)' = Call(t) /\ Touched(th[t].ino, {"isize"})
        /\ \A x \in ThreadFields \ {"pc", "obeg"} : th'[t][x] = th[t][x]
        /\ th[t].pc = "wsize" /\ th'[t].pc = "wclose"
    BY <1>12, BlockSizeUpEffect
  <2>2. Same
    BY <1>1, <2>1 DEF ThreadFields, InodeFields
  <2> QED BY <1>0, <2>1, <2>2 DEF WriteIn
<1>13. CASE BlockClose(t)
  <2>1. /\ OneMoved(t) /\ Call(t)' = Call(t) /\ Touched(th[t].ino, {"trans"})
        /\ \A x \in ThreadFields \ {"pc", "done", "ver"} : th'[t][x] = th[t][x]
        /\ th[t].pc \in {"wbytes", "wclose"} /\ th'[t].pc \in {"wunlock", "wopen"}
    BY <1>13, BlockCloseEffect
  <2>2. Same
    BY <1>1, <2>1 DEF ThreadFields, InodeFields
  <2> QED BY <1>0, <2>1, <2>2 DEF WriteIn
<1> QED BY <1>3, <1>4, <1>5, <1>6, <1>7, <1>8, <1>9, <1>10, <1>11, <1>12, <1>13 DEF Inside

(* ... and those that take and release it.                                 *)
LEMMA LockedWrites ==
    ASSUME Typed, Locked, WritesOnTheWay, NEW t \in Threads,
           \/ Inside(t) \/ TruncateLock(t) \/ TruncateUnlock(t) \/ WriteFlags(t) \/ WriteUnlock(t)
    PROVE  Locked'
<1> USE DEF history
<1>1. CASE TruncateLock(t)
  <2>0. th[t].ino \in Inodes /\ SameFileLocks /\ UNCHANGED <<dirLock, dirTrans, file>>
    BY <1>1 DEF Typed, ThreadOK, TruncateLock, SameFileLocks
  <2>1. /\ OneMoved(t) /\ th'[t].ino = th[t].ino /\ th[t].pc = "locktrunc"
        /\ \/ th'[t].pc = "call" /\ inode' = inode
           \/ /\ th'[t].pc = "trunc" /\ inode[th[t].ino].lock = Free
              /\ Touched(th[t].ino, {"lock"}) /\ inode'[th[t].ino].lock = t
    BY <1>1, TruncateLockEffect
  <2>2. \/ th'[t].pc = "call" /\ SameInodeLocks
        \/ th'[t].pc = "trunc" /\ Relocked(th[t].ino, t)
    BY <2>0, <2>1, TouchedLocks DEF InodeFields, SameInodeLocks
  <2>3. InoClass(t)
    BY <2>1, <2>2 DEF InoClass, InoPc
  <2>4. DirClass(t)
    BY <2>0, <2>1 DEF DirClass, DirPc, TransPc
  <2>5. PosClass(t)
    BY <2>0, <2>1 DEF PosClass, PosPc
  <2> QED BY <2>1, <2>3, <2>4, <2>5, MovedOthers, LockedStep
<1>2. CASE TruncateUnlock(t)
  <2>0. th[t].ino \in Inodes /\ SameFileLocks /\ UNCHANGED <<dirLock, dirTrans, file>>
    BY <1>2 DEF Typed, ThreadOK, TruncateUnlock, SameFileLocks
  <2>1. OneMoved(t) /\ th'[t].pc = "call" /\ th'[t].ino = th[t].ino /\ th[t].pc = "tunlock"
    BY <1>2, TruncateUnlockEffect
  <2>2. Relocked(th[t].ino, Free)
    BY <2>0, <1>2, TruncateUnlockEffect, TouchedLocks DEF InodeFields
  <2>3. InoClass(t)
    BY <2>1, <2>2 DEF InoClass, InoPc
  <2>4. DirClass(t)
    BY <2>0, <2>1 DEF DirClass, DirPc, TransPc
  <2>5. PosClass(t)
    BY <2>0, <2>1 DEF PosClass, PosPc
  <2> QED BY <2>1, <2>3, <2>4, <2>5, MovedOthers, LockedStep
<1>3. CASE WriteFlags(t)
  <2>0. SameFileLocks /\ UNCHANGED <<dirLock, dirTrans, file>>
    BY <1>3 DEF WriteFlags, SameFileLocks
  <2>1. /\ OneMoved(t) /\ SameCall(t) /\ th[t].pc = "wflags" /\ Desc(t).inode \in Inodes
        /\ \/ th'[t].pc = "wdone" /\ inode' = inode
           \/ /\ th'[t].pc = "wchecks" /\ th'[t].ino = Desc(t).inode
              /\ inode[Desc(t).inode].lock = Free
              /\ Touched(Desc(t).inode, {"lock"}) /\ inode'[Desc(t).inode].lock = t
    BY <1>3, WriteFlagsEffect DEF SameCall
  <2>2. \/ th'[t].pc = "wdone" /\ SameInodeLocks
        \/ th'[t].pc = "wchecks" /\ Relocked(Desc(t).inode, t)
    BY <2>1, TouchedLocks DEF InodeFields, SameInodeLocks
  <2>3. InoClass(t)
    BY <2>1, <2>2 DEF InoClass, InoPc
  <2>4. DirClass(t)
    BY <2>0, <2>1 DEF DirClass, DirPc, TransPc
  <2>5. PosClass(t)
    BY <2>0, <2>1 DEF PosClass, PosPc
  <2> QED BY <2>1, <2>3, <2>4, <2>5, MovedOthers, LockedStep
<1>4. CASE WriteUnlock(t)
  <2>0. th[t].ino \in Inodes /\ SameFileLocks /\ UNCHANGED <<dirLock, dirTrans, file>>
    BY <1>4 DEF Typed, ThreadOK, WriteUnlock, SameFileLocks
  <2>1. /\ OneMoved(t) /\ SameCall(t) /\ th[t].pc = "wunlock" /\ th'[t].pc = "wsync"
        /\ th'[t].ino = th[t].ino
        /\ Touched(th[t].ino, {"lock"}) /\ inode'[th[t].ino].lock = Free
    BY <1>4, WriteUnlockEffect DEF SameCall, ThreadFields
  <2>2. Relocked(th[t].ino, Free)
    BY <2>0, <2>1, TouchedLocks DEF InodeFields
  <2>3. InoClass(t)
    BY <2>1, <2>2 DEF InoClass, InoPc
  <2>4. DirClass(t)
    BY <2>0, <2>1 DEF DirClass, DirPc, TransPc
  <2>5. PosClass(t)
    BY <2>0, <2>1 DEF PosClass, PosPc
  <2> QED BY <2>1, <2>3, <2>4, <2>5, MovedOthers, LockedStep
<1>5. CASE Inside(t)
  <2>1. /\ OneMoved(t) /\ SameCall(t) /\ th'[t].ino = th[t].ino
        /\ SameInodeLocks /\ UNCHANGED <<dirLock, dirTrans, file>>
        /\ \/ th[t].pc \in TruncIn /\ th'[t].pc \in TruncIn
           \/ th[t].pc \in WriteIn /\ th'[t].pc \in WriteIn
    BY <1>5, InsideStep
  <2>2. InoClass(t)
    BY <2>1 DEF InoClass, InoPc, TruncIn, WriteIn
  <2>3. DirClass(t)
    BY <2>1 DEF DirClass, DirPc, TransPc, TruncIn, WriteIn
  <2>4. PosClass(t)
    BY <2>1 DEF PosClass, PosPc, TruncIn, WriteIn, SameFileLocks
  <2> QED BY <2>1, <2>2, <2>3, <2>4, MovedOthers, LockedStep
<1> QED BY <1>1, <1>2, <1>3, <1>4, <1>5

(* Reading, seeking, and the two ends of a write: the position lock.       *)
LEMMA LockedReads ==
    ASSUME Typed, Locked, NEW t \in Threads,
           \/ CallRead(t) \/ CallWrite(t) \/ CallLseek(t) \/ CallPread(t) \/ CallPwrite(t)
           \/ ReadSize(t) \/ ReadByte(t) \/ WriteSync(t)
           \/ ReadDone(t) \/ WriteDone(t) \/ executeLseekFS(t)
    PROVE  /\ Locked' /\ OthersSame(t)
           /\ th[t].pc \notin InoPc /\ th'[t].pc \notin InoPc
           /\ th'[t].pc \in {"wsync", "wdone"} => WriteSync(t)
           /\ th'[t].pc \in {"rbytes", "rdone"} => ReadSize(t) \/ ReadByte(t)
<1> USE DEF history
<1>0. ShapesOK /\ ThreadOK(t) /\ FilesOK
  BY FilesTyped DEF Typed
<1>1. UNCHANGED <<inode, dirLock, dirTrans>>
  BY DEF CallRead, CallWrite, CallLseek, LockPos, CallPread, CallPwrite, AtOffset, ReadSize,
         ReadByte, WriteSync, ReadDone, WriteDone, executeLseekFS
<1>2. th[t].pc \in {"call", "rsize", "rbytes", "wsync", "rdone", "wdone", "lseek"}
  BY DEF CallRead, CallWrite, CallLseek, LockPos, CallPread, CallPwrite, AtOffset, ReadSize,
         ReadByte, WriteSync, ReadDone, WriteDone, executeLseekFS, Calls, At
<1>3. /\ th'[t].pc \in {"call", "rsize", "rbytes", "wdone", "rdone", "wflags", "lseek", "blocked"}
      /\ OthersSame(t) /\ PosClass(t) /\ (th'[t].pc = "wdone" => WriteSync(t))
      /\ th'[t].pc \in {"rbytes", "rdone"} => ReadSize(t) \/ ReadByte(t)
  <2>1. CASE CallRead(t) \/ CallWrite(t) \/ CallLseek(t)
    <3>1. PICK pc \in {"rsize", "wflags", "lseek"} : LockPos(t, pc)
      BY <2>1 DEF CallRead, CallWrite, CallLseek
    <3>2. Fd(t) \in DOMAIN file /\ file' = [file EXCEPT ![Fd(t)].lock = t]
          /\ Set(t, [pc |-> pc, pos |-> Desc(t).offset]) /\ file[Fd(t)].lock = Free
      BY <3>1 DEF LockPos, Alive, HasFile, Desc
    <3>3. th'[t].pc = pc /\ SameCall(t) /\ OthersSame(t)
      BY <3>2, Moving DEF ThreadFields, SameCall, OthersSame
    <3>4. FileRelocked(Fd(t), t)
      BY <1>0, <3>2 DEF FileRelocked, FilesOK, FileFields
    <3>5. th[t].pc = "call" /\ ~Positional(t)
      BY <2>1 DEF CallRead, CallWrite, CallLseek, Calls, At, Positional
    <3>6. PosClass(t)
      BY <3>2, <3>3, <3>4, <3>5 DEF PosClass, PosPc
    <3> QED BY <3>3, <3>6
  <2>2. CASE CallPread(t) \/ CallPwrite(t)
    <3>1. PICK pc \in {"rsize", "wflags"} : Set(t, [pc |-> pc, pos |-> Call(t).off])
      BY <2>2 DEF CallPread, CallPwrite, AtOffset
    <3>2. th'[t].pc = pc /\ SameCall(t) /\ OthersSame(t)
      BY <3>1, Moving DEF ThreadFields, SameCall, OthersSame
    <3>3. th[t].pc = "call" /\ Positional(t) /\ file' = file
      BY <2>2 DEF CallPread, CallPwrite, Calls, At, Positional, AtOffset
    <3>4. PosClass(t)
      BY <3>2, <3>3 DEF PosClass, PosPc, SameFileLocks
    <3> QED BY <3>2, <3>4
  <2>3. CASE ReadSize(t) \/ ReadByte(t) \/ WriteSync(t)
    <3>1. file' = file /\ th[t].pc \in {"rsize", "rbytes", "wsync"}
      BY <2>3 DEF ReadSize, ReadByte, WriteSync, At
    <3>2. /\ th'[t].pc \in {"rbytes", "rdone", "wdone", "blocked"} /\ SameCall(t) /\ OthersSame(t)
          /\ th'[t].pc = "wdone" => WriteSync(t)
          /\ th'[t].pc \in {"rbytes", "rdone"} => ReadSize(t) \/ ReadByte(t)
      <4>1. CASE ReadSize(t)
        <5>1. \/ \E i, v : Set(t, [pc |-> "rdone", ino |-> i, ret |-> v])
              \/ \E i, v, w : Set(t, [pc |-> "rbytes", ino |-> i, ret |-> v, buf |-> <<>>, ver |-> w])
          <6> DEFINE nr == Min({Call(t).count, readInodeSizeFS(Desc(t).inode) - th[t].pos})
          <6>1. \/ Set(t, [pc |-> "rdone", ino |-> Desc(t).inode, ret |-> -1])
                \/ Set(t, [pc |-> "rdone", ino |-> Desc(t).inode, ret |-> 0])
                \/ Set(t, [pc |-> "rbytes", ino |-> Desc(t).inode, ret |-> nr, buf |-> <<>>,
                     ver |-> ver[Desc(t).inode]])
            BY <4>1 DEF ReadSize
          <6> QED BY <6>1
        <5>2. CASE \E i, v : Set(t, [pc |-> "rdone", ino |-> i, ret |-> v])
          BY <4>1, <5>2, Moving DEF ThreadFields, SameCall, OthersSame
        <5>3. CASE \E i, v, w :
                      Set(t, [pc |-> "rbytes", ino |-> i, ret |-> v, buf |-> <<>>, ver |-> w])
          BY <4>1, <5>3, Moving DEF ThreadFields, SameCall, OthersSame
        <5> QED BY <5>1, <5>2, <5>3
      <4>2. CASE ReadByte(t)
        <5>1. \/ \E pc \in {"blocked", "rdone"} : Set(t, [pc |-> pc])
              \/ \E b : Set(t, [buf |-> b])
          BY <4>2 DEF ReadByte
        <5>2. th[t].pc = "rbytes"
          BY <4>2 DEF ReadByte, At
        <5>3. CASE \E pc \in {"blocked", "rdone"} : Set(t, [pc |-> pc])
          BY <4>2, <5>3, Moving DEF ThreadFields, SameCall, OthersSame
        <5>4. CASE \E b : Set(t, [buf |-> b])
          BY <4>2, <5>2, <5>4, Moving DEF ThreadFields, SameCall, OthersSame
        <5> QED BY <5>1, <5>3, <5>4
      <4>3. CASE WriteSync(t)
        BY <4>3, Moving DEF WriteSync, ThreadFields, SameCall, OthersSame
      <4> QED BY <2>3, <4>1, <4>2, <4>3
    <3>3. PosClass(t)
      BY <3>1, <3>2 DEF PosClass, PosPc, SameFileLocks
    <3> QED BY <3>2, <3>3
  <2>4. CASE ReadDone(t) \/ WriteDone(t) \/ executeLseekFS(t)
    <3>0. th[t].pc \in {"rdone", "wdone", "lseek"}
      BY <2>4 DEF ReadDone, WriteDone, executeLseekFS, At
    <3>1. CASE KeepOffset(t)
      <4>1. th'[t].pc = "call" /\ OthersSame(t)
        BY <3>1, PcReturned DEF KeepOffset
      <4>2. Positional(t) /\ SameFileLocks
        BY <3>1 DEF KeepOffset, SameFileLocks
      <4> QED BY <3>0, <4>1, <4>2 DEF PosClass, PosPc
    <3>2. CASE MoveOffset(t) \/ executeLseekFS(t)
      <4>1. th'[t].pc = "call" /\ OthersSame(t)
        BY <3>2, PcReturned DEF MoveOffset, executeLseekFS
      <4>2. Fd(t) \in DOMAIN file
        BY <3>2 DEF MoveOffset, executeLseekFS, Alive, HasFile
      <4>3. ~Positional(t)
        BY <1>0, <3>2 DEF MoveOffset, executeLseekFS, At, ThreadOK, OpAgrees, Positional
      <4>4. \E e : file' = [file EXCEPT ![Fd(t)].lock = Free, ![Fd(t)].offset = e]
        BY <1>0, <3>2, <4>2 DEF MoveOffset, executeLseekFS
      <4>5. FileRelocked(Fd(t), Free)
        BY <1>0, <4>2, <4>4 DEF FileRelocked, FilesOK, FileFields
      <4> QED BY <3>0, <4>1, <4>3, <4>5 DEF PosClass, PosPc
    <3>3. CASE Lost(t) /\ UNCHANGED file /\ Call(t).op = "write"
      <4>1. th[t].todo # <<>>
        BY <1>0, <3>0 DEF ThreadOK
      <4>2. OneMoved(t) /\ th'[t].pc = "call" /\ Fd(t) \in th'[t].lost
        BY <3>3, <4>1, Losing
      <4>3. ~Positional(t) /\ SameFileLocks
        BY <3>3 DEF Positional, SameFileLocks
      <4> QED BY <3>0, <4>2, <4>3, MovedOthers DEF PosClass, PosPc
    <3> QED BY <2>4, <3>1, <3>2, <3>3, Ends
  <2> QED BY <2>1, <2>2, <2>3, <2>4
<1>4. DirClass(t)
  BY <1>1, <1>2, <1>3 DEF DirClass, DirPc, TransPc
<1>5. InoClass(t)
  BY <1>1, <1>2, <1>3 DEF InoClass, InoPc, WritePc, SameInodeLocks
<1>6. th[t].pc \notin InoPc /\ th'[t].pc \notin InoPc
  BY <1>2, <1>3 DEF InoPc, WritePc
<1> QED BY <1>3, <1>4, <1>5, <1>6, LockedStep

-----------------------------------------------------------------------------
(* Offsets.                                                                *)
OffsetsKept == OffsetLoaded /\ OffsetExact

(* A step that moves no offset.                                            *)
LEMMA OffsetsQuiet ==
    ASSUME Typed, Locked, OffsetsKept, NEW t \in Threads, OthersSame(t),
           \A f \in DOMAIN file : /\ f \in DOMAIN file' /\ file'[f].lock = file[f].lock
                                  /\ file'[f].offset = file[f].offset /\ moved'[f] = moved[f],
           \A f \in DOMAIN file' : f \notin DOMAIN file => file'[f].offset = moved'[f],
           InPos(t)' => InPos(t) /\ Fd(t)' = Fd(t) /\ th'[t].pos = th[t].pos
    PROVE  OffsetsKept'
<1>1. \A u \in Threads : u # t => /\ Fd(u)' = Fd(u) /\ th'[u].pos = th[u].pos
                                  /\ InPos(u)' <=> InPos(u)
  BY DEF OthersSame, Fd, InPos, Positional, Call
<1>2. \A u \in Threads : InPos(u)' => InPos(u) /\ Fd(u)' = Fd(u) /\ th'[u].pos = th[u].pos
  BY <1>1
<1>3. \A u \in Threads : InPos(u) => /\ Fd(u) \in DOMAIN file
                                     /\ th[u].pos = file[Fd(u)].offset
                                     /\ th[u].pos = moved[Fd(u)]
  BY DEF OffsetsKept, OffsetLoaded, Locked, PosLocksHeld
<1>4. OffsetLoaded'
  <2> SUFFICES ASSUME NEW u \in Threads, InPos(u)'
               PROVE  th'[u].pos = file'[Fd(u)'].offset /\ th'[u].pos = moved'[Fd(u)']
    BY DEF OffsetLoaded
  <2>1. InPos(u) /\ Fd(u)' = Fd(u) /\ th'[u].pos = th[u].pos
    BY <1>2
  <2>2. Fd(u) \in DOMAIN file /\ th[u].pos = file[Fd(u)].offset /\ th[u].pos = moved[Fd(u)]
    BY <1>3, <2>1
  <2> QED BY <2>1, <2>2
<1>5. OffsetExact'
  BY DEF OffsetsKept, OffsetExact
<1> QED BY <1>4, <1>5 DEF OffsetsKept

(* A step that takes a position lock and loads the offset.                 *)
LEMMA OffsetsLoad ==
    ASSUME Typed, Locked, OffsetsKept, NEW t \in Threads, OthersSame(t),
           NEW g \in DOMAIN file, file[g].lock = Free, Fd(t)' = g,
           DOMAIN file' = DOMAIN file, moved' = moved,
           \A f \in DOMAIN file : /\ f # g => file'[f].lock = file[f].lock
                                  /\ file'[f].offset = file[f].offset,
           file'[g].lock = t, th'[t].pos = file[g].offset
    PROVE  OffsetsKept'
<1>0. Free \notin Threads
  BY FSAssumption
<1>1. \A u \in Threads : u # t => /\ Fd(u)' = Fd(u) /\ th'[u].pos = th[u].pos
                                  /\ InPos(u)' <=> InPos(u)
  BY DEF OthersSame, Fd, InPos, Positional, Call
<1>2. file[g].offset = moved[g]
  BY DEF OffsetsKept, OffsetExact
<1>3. \A u \in Threads : InPos(u) => /\ Fd(u) \in DOMAIN file
                                     /\ th[u].pos = file[Fd(u)].offset
                                     /\ th[u].pos = moved[Fd(u)]
  BY DEF OffsetsKept, OffsetLoaded, Locked, PosLocksHeld
<1>4. OffsetLoaded'
  <2> SUFFICES ASSUME NEW u \in Threads, InPos(u)'
               PROVE  th'[u].pos = file'[Fd(u)'].offset /\ th'[u].pos = moved'[Fd(u)']
    BY DEF OffsetLoaded
  <2>1. CASE u = t
    BY <1>2, <2>1
  <2>2. CASE u # t
    BY <1>1, <1>3, <2>2
  <2> QED BY <2>1, <2>2
<1>5. OffsetExact'
  BY <1>0 DEF OffsetsKept, OffsetExact
<1> QED BY <1>4, <1>5 DEF OffsetsKept

(* A step that moves an offset and gives the lock back.                    *)
LEMMA OffsetsStore ==
    ASSUME Typed, Locked, OffsetsKept, NEW t \in Threads, OthersSame(t), InPos(t), ~InPos(t)',
           DOMAIN file' = DOMAIN file,
           \A f \in DOMAIN file \ {Fd(t)} : file'[f] = file[f] /\ moved'[f] = moved[f],
           file'[Fd(t)].lock = Free => file'[Fd(t)].offset = moved'[Fd(t)]
    PROVE  OffsetsKept'
<1>1. \A u \in Threads : u # t => /\ Fd(u)' = Fd(u) /\ th'[u].pos = th[u].pos
                                  /\ InPos(u)' <=> InPos(u)
  BY DEF OthersSame, Fd, InPos, Positional, Call
<1>2. \A u \in Threads : InPos(u) => /\ Fd(u) \in DOMAIN file /\ file[Fd(u)].lock = u
                                     /\ th[u].pos = file[Fd(u)].offset
                                     /\ th[u].pos = moved[Fd(u)]
  BY DEF OffsetsKept, OffsetLoaded, Locked, PosLocksHeld
<1>3. OffsetLoaded'
  <2> SUFFICES ASSUME NEW u \in Threads, InPos(u)'
               PROVE  th'[u].pos = file'[Fd(u)'].offset /\ th'[u].pos = moved'[Fd(u)']
    BY DEF OffsetLoaded
  <2>1. u # t
    OBVIOUS
  <2>2. InPos(u) /\ Fd(u)' = Fd(u) /\ th'[u].pos = th[u].pos
    BY <1>1, <2>1
  <2>3. Fd(u) # Fd(t)
    BY <1>2, <2>1, <2>2
  <2> QED BY <1>2, <2>2, <2>3
<1>4. OffsetExact'
  BY DEF OffsetsKept, OffsetExact
<1> QED BY <1>3, <1>4 DEF OffsetsKept

LEMMA OffsetsOutside ==
    ASSUME Typed, Locked, OffsetsKept, NEW t \in Threads,
           \/ CallOpen(t) \/ LookupTrans(t) \/ LookupEntry(t) \/ OpenFile(t) \/ CallClose(t)
           \/ BadDescriptor(t) \/ CallFsync(t) \/ CallSync(t)
           \/ LockDir(t) \/ LookupOrCreate(t) \/ LookupTruncate(t)
           \/ CallLink(t) \/ CallUnlink(t) \/ CallRename(t)
           \/ RenameLink(t) \/ RenameUnlink(t) \/ RenameEnd(t)
    PROVE  OffsetsKept'
<1> USE DEF history
<1>1. OthersSame(t) /\ th'[t].pc \notin PosPc
  BY LockedOutside, LockedDirectory
<1>2. ~InPos(t)'
  BY <1>1 DEF InPos
<1>3. DOMAIN moved = DOMAIN file
  BY DEF Typed, ShapesOK
<1>4. CASE OpenFile(t)
  <2> DEFINE fd == handleDskOpen
             new == [inode |-> th[t].ino, count |-> 1, acc |-> CallAcc(t),
                     flags |-> th[t].flags, lock |-> Free, offset |-> 0]
  <2>1. /\ file' = Merge(file, [f \in {fd} |-> new]) /\ moved' = Merge(moved, [f \in {fd} |-> 0])
        /\ new.offset = 0
    BY <1>4 DEF OpenFile
  <2> HIDE DEF fd, new
  <2>2. /\ \A f \in DOMAIN file : f \in DOMAIN file' /\ file'[f] = file[f] /\ moved'[f] = moved[f]
        /\ \A f \in DOMAIN file' : f \notin DOMAIN file => file'[f] = new /\ moved'[f] = 0
    BY <1>3, <2>1 DEF Merge
  <2> QED BY <1>1, <1>2, <2>1, <2>2, OffsetsQuiet
<1>5. CASE CallClose(t)
  <2>1. file' = file \/ (HasFile(t) /\ file' = [file EXCEPT ![Fd(t)].count = @ - 1])
    BY <1>5 DEF CallClose
  <2>2. \A f \in DOMAIN file : /\ f \in DOMAIN file' /\ file'[f].lock = file[f].lock
                               /\ file'[f].offset = file[f].offset
    BY <2>1, FilesTyped DEF FilesOK, FileFields
  <2>3. moved' = moved /\ DOMAIN file' = DOMAIN file
    BY <1>5, <2>1 DEF CallClose
  <2> QED BY <1>1, <1>2, <2>2, <2>3, OffsetsQuiet
<1>6. CASE UNCHANGED <<file, moved>>
  BY <1>1, <1>2, <1>6, OffsetsQuiet
<1> QED BY <1>4, <1>5, <1>6
        DEF CallOpen, LookupTrans, LookupEntry, BadDescriptor, CallFsync, CallSync, LockDir,
            LookupOrCreate, LookupTruncate, CallLink, CallUnlink, CallRename, RenameLink,
            RenameUnlink, RenameEnd

LEMMA OffsetsWrites ==
    ASSUME Typed, Locked, OffsetsKept, WritesOnTheWay, NEW t \in Threads,
           \/ Inside(t) \/ TruncateLock(t) \/ TruncateUnlock(t) \/ WriteFlags(t) \/ WriteUnlock(t)
    PROVE  OffsetsKept'
<1> USE DEF history
<1>1. CASE TruncateLock(t) \/ TruncateUnlock(t)
  <2>1. OneMoved(t) /\ th'[t].pc \in {"call", "trunc"}
    BY <1>1, TruncateLockEffect, TruncateUnlockEffect
  <2>2. ~InPos(t)'
    BY <2>1 DEF InPos, PosPc
  <2>3. UNCHANGED <<file, moved>>
    BY <1>1 DEF TruncateLock, TruncateUnlock
  <2> QED BY <2>1, <2>2, <2>3, MovedOthers, OffsetsQuiet
<1>2. CASE WriteFlags(t) \/ WriteUnlock(t)
  <2>1. OneMoved(t) /\ Call(t)' = Call(t) /\ th'[t].fd = th[t].fd /\ th'[t].pos = th[t].pos
        /\ th[t].pc \in {"wflags", "wunlock"}
    BY <1>2, WriteFlagsEffect, WriteUnlockEffect DEF ThreadFields
  <2>2. Fd(t)' = Fd(t) /\ (InPos(t)' => InPos(t))
    BY <2>1 DEF Fd, InPos, Positional, PosPc
  <2>3. UNCHANGED <<file, moved>>
    BY <1>2 DEF WriteFlags, WriteUnlock
  <2> QED BY <2>1, <2>2, <2>3, MovedOthers, OffsetsQuiet
<1>3. CASE Inside(t)
  <2>1. /\ OneMoved(t) /\ SameCall(t) /\ th'[t].pos = th[t].pos /\ UNCHANGED <<file, moved>>
        /\ \/ th[t].pc \in TruncIn /\ th'[t].pc \in TruncIn
           \/ th[t].pc \in WriteIn /\ th'[t].pc \in WriteIn
    BY <1>3, InsideStep
  <2>2. Fd(t)' = Fd(t) /\ (InPos(t)' => InPos(t))
    BY <2>1 DEF Fd, InPos, Positional, PosPc, SameCall, TruncIn, WriteIn
  <2> QED BY <2>1, <2>2, MovedOthers, OffsetsQuiet
<1> QED BY <1>1, <1>2, <1>3

LEMMA OffsetsReads ==
    ASSUME Typed, Locked, OffsetsKept, NEW t \in Threads,
           \/ CallRead(t) \/ CallWrite(t) \/ CallLseek(t) \/ CallPread(t) \/ CallPwrite(t)
           \/ ReadSize(t) \/ ReadByte(t) \/ WriteSync(t)
           \/ ReadDone(t) \/ WriteDone(t) \/ executeLseekFS(t)
    PROVE  OffsetsKept'
<1> USE DEF history
<1>0. ShapesOK /\ ThreadOK(t) /\ FilesOK /\ OthersSame(t)
  BY FilesTyped, LockedReads DEF Typed
<1>1. CASE CallRead(t) \/ CallWrite(t) \/ CallLseek(t)
  <2>1. PICK pc \in {"rsize", "wflags", "lseek"} : LockPos(t, pc)
    BY <1>1 DEF CallRead, CallWrite, CallLseek
  <2>2. Fd(t) \in DOMAIN file /\ file' = [file EXCEPT ![Fd(t)].lock = t] /\ moved' = moved
        /\ Set(t, [pc |-> pc, pos |-> file[Fd(t)].offset]) /\ file[Fd(t)].lock = Free
    BY <2>1 DEF LockPos, Alive, HasFile, Desc
  <2>3. th'[t].pos = file[Fd(t)].offset /\ SameCall(t)
    BY <2>2, Moving DEF ThreadFields, SameCall
  <2>4. Fd(t)' = Fd(t)
    BY <2>3 DEF SameCall, Fd
  <2>5. PICK g \in DOMAIN file : g = Fd(t)
    BY <2>2
  <2>6. /\ DOMAIN file' = DOMAIN file /\ file'[g].lock = t
        /\ \A f \in DOMAIN file : /\ f # g => file'[f].lock = file[f].lock
                                  /\ file'[f].offset = file[f].offset
    BY <1>0, <2>2, <2>5 DEF FilesOK, FileFields
  <2> QED BY <1>0, <2>2, <2>3, <2>4, <2>5, <2>6, OffsetsLoad
<1>2. CASE CallPread(t) \/ CallPwrite(t)
  <2>1. PICK pc \in {"rsize", "wflags"} : Set(t, [pc |-> pc, pos |-> Call(t).off])
    BY <1>2 DEF CallPread, CallPwrite, AtOffset
  <2>2. Positional(t)' = Positional(t)
    BY <2>1, Moving DEF ThreadFields, Positional
  <2>3. Positional(t) /\ UNCHANGED <<file, moved>>
    BY <1>2 DEF CallPread, CallPwrite, Calls, Positional, AtOffset
  <2>4. ~InPos(t)'
    BY <2>2, <2>3 DEF InPos
  <2> QED BY <1>0, <2>3, <2>4, OffsetsQuiet
<1>3. CASE ReadSize(t) \/ ReadByte(t) \/ WriteSync(t)
  <2>1. UNCHANGED <<file, moved>> /\ th[t].pc \in PosPc
    BY <1>3 DEF ReadSize, ReadByte, WriteSync, At, PosPc
  <2>2. PICK fields : /\ Set(t, fields)
                      /\ DOMAIN fields \subseteq {"pc", "ino", "ret", "buf", "ver"}
    <3>1. CASE ReadSize(t)
      <4> DEFINE nr == Min({Call(t).count, readInodeSizeFS(Desc(t).inode) - th[t].pos})
      <4>1. \/ Set(t, [pc |-> "rdone", ino |-> Desc(t).inode, ret |-> -1])
            \/ Set(t, [pc |-> "rdone", ino |-> Desc(t).inode, ret |-> 0])
            \/ Set(t, [pc |-> "rbytes", ino |-> Desc(t).inode, ret |-> nr, buf |-> <<>>,
                     ver |-> ver[Desc(t).inode]])
        BY <3>1 DEF ReadSize
      <4> QED BY <4>1
    <3>2. CASE ReadByte(t)
      <4>1. \/ \E pc \in {"blocked", "rdone"} : Set(t, [pc |-> pc])
            \/ \E b : Set(t, [buf |-> b])
        BY <3>2 DEF ReadByte
      <4>2. CASE \E pc \in {"blocked", "rdone"} : Set(t, [pc |-> pc])
        BY <4>2
      <4>3. CASE \E b : Set(t, [buf |-> b])
        BY <4>3
      <4> QED BY <4>1, <4>2, <4>3
    <3>3. CASE WriteSync(t)
      <4>1. Set(t, [pc |-> "wdone"])
        BY <3>3 DEF WriteSync
      <4> QED BY <4>1
    <3> QED BY <1>3, <3>1, <3>2, <3>3
  <2>3. Call(t)' = Call(t) /\ th'[t].fd = th[t].fd /\ th'[t].pos = th[t].pos
    BY <2>2, Moving DEF ThreadFields
  <2>4. Fd(t)' = Fd(t) /\ (InPos(t)' => InPos(t))
    BY <2>1, <2>3 DEF Fd, InPos, Positional
  <2> QED BY <1>0, <2>1, <2>3, <2>4, OffsetsQuiet
<1>4. CASE ReadDone(t) \/ WriteDone(t) \/ executeLseekFS(t)
  <2>0. th[t].pc \in {"rdone", "wdone", "lseek"} /\ th[t].todo # <<>>
    BY <1>0, <1>4 DEF ReadDone, WriteDone, executeLseekFS, At, ThreadOK
  <2>1. th'[t].pc = "call"
    <3>1. (\E v : Return(t, v)) \/ Lost(t)
      BY <1>4, Ends DEF MoveOffset, KeepOffset, executeLseekFS
    <3> QED BY <2>0, <3>1, PcReturned, Losing
  <2>2. ~InPos(t)'
    BY <2>1 DEF InPos, PosPc
  <2>3. executeLseekFS(t) => ~Positional(t)
    BY <1>0 DEF executeLseekFS, At, ThreadOK, OpAgrees, Positional
  <2>4. CASE KeepOffset(t)
    BY <1>0, <2>2, <2>4, OffsetsQuiet DEF KeepOffset
  <2>5. CASE Lost(t) /\ file' = file /\ Call(t).op = "write"
             /\ moved' = [moved EXCEPT ![Fd(t)] = @ + th[t].ret]
    <3>1. InPos(t)
      BY <2>0, <2>5 DEF InPos, PosPc, Positional
    <3>2. file[Fd(t)].lock = t /\ Free \notin Threads
      BY <3>1, FSAssumption DEF Locked, PosLocksHeld
    <3>3. \A f \in DOMAIN file \ {Fd(t)} : file'[f] = file[f] /\ moved'[f] = moved[f]
      BY <1>0, <2>5 DEF FilesOK
    <3> QED BY <1>0, <2>2, <2>5, <3>1, <3>2, <3>3, OffsetsStore
  <2>6. CASE MoveOffset(t) \/ executeLseekFS(t)
    <3>0. Fd(t) \in DOMAIN file /\ ~Positional(t)
      BY <2>3, <2>6 DEF MoveOffset, executeLseekFS, Alive, HasFile
    <3>1. InPos(t)
      BY <2>0, <3>0 DEF InPos, PosPc
    <3>2. th[t].pos = file[Fd(t)].offset /\ th[t].pos = moved[Fd(t)]
      BY <3>1 DEF OffsetsKept, OffsetLoaded
    <3>3. DOMAIN moved = DOMAIN file
      BY <1>0 DEF FilesOK
    <3>4. \E e : /\ file' = [file EXCEPT ![Fd(t)].lock = Free, ![Fd(t)].offset = e]
                 /\ moved' = [moved EXCEPT ![Fd(t)] = e]
      <4>1. CASE MoveOffset(t)
        <5> DEFINE e == IF th[t].ret >= 0 THEN th[t].pos + th[t].ret ELSE th[t].pos
        <5>1. file' = [file EXCEPT ![Fd(t)].lock = Free, ![Fd(t)].offset = e]
          BY <1>0, <3>0, <3>2, <4>1 DEF MoveOffset, FilesOK, FileFields
        <5>2. moved' = [moved EXCEPT ![Fd(t)] = e]
          BY <3>0, <3>2, <3>3, <4>1 DEF MoveOffset
        <5> QED BY <5>1, <5>2
      <4>2. CASE executeLseekFS(t)
        <5> DEFINE new == CASE Call(t).whence = "SET" -> Call(t).off
                    [] Call(t).whence = "END" -> Call(t).off + readInodeSizeFS(Desc(t).inode)
                    [] Call(t).whence = "CUR" -> th[t].pos + Call(t).off
                    [] OTHER -> -1
                   valid == Call(t).whence \in {"SET", "END", "CUR"}
        <5>1. /\ file' = [file EXCEPT ![Fd(t)].lock = Free,
                                      ![Fd(t)].offset = IF valid THEN new ELSE @]
              /\ moved' = [moved EXCEPT ![Fd(t)] = IF valid THEN new ELSE @]
          BY <4>2 DEF executeLseekFS
        <5> HIDE DEF new, valid
        <5> DEFINE e == IF valid THEN new ELSE th[t].pos
        <5>2. file' = [file EXCEPT ![Fd(t)].lock = Free, ![Fd(t)].offset = e]
          BY <1>0, <3>0, <3>2, <5>1 DEF FilesOK, FileFields
        <5>3. moved' = [moved EXCEPT ![Fd(t)] = e]
          BY <3>0, <3>2, <3>3, <5>1
        <5> QED BY <5>2, <5>3
      <4> QED BY <2>6, <4>1, <4>2
    <3>5. /\ DOMAIN file' = DOMAIN file
          /\ \A f \in DOMAIN file \ {Fd(t)} : file'[f] = file[f] /\ moved'[f] = moved[f]
          /\ file'[Fd(t)].offset = moved'[Fd(t)]
      <4>1. PICK e : /\ file' = [file EXCEPT ![Fd(t)].lock = Free, ![Fd(t)].offset = e]
                     /\ moved' = [moved EXCEPT ![Fd(t)] = e]
        BY <3>4
      <4>2. file'[Fd(t)].offset = e /\ moved'[Fd(t)] = e
        BY <1>0, <3>0, <3>3, <4>1 DEF FilesOK, FileFields
      <4> QED BY <3>0, <3>3, <4>1, <4>2
    <3> QED BY <1>0, <2>2, <3>1, <3>5, OffsetsStore
  <2> QED BY <1>4, <2>4, <2>5, <2>6, Ends
<1> QED BY <1>1, <1>2, <1>3, <1>4
=============================================================================
