------------------------ MODULE FileSystemDiskProofs ------------------------
(***************************************************************************)
(* The contents of files, in memory and on disk: the rest of the           *)
(* invariant FSInv, and what follows from it; then the names of files and  *)
(* the atomicity of rename().                                              *)
(***************************************************************************)
EXTENDS FileSystemProofs

(* A sequence given by its elements.                                       *)
LEMMA SequenceIs ==
    ASSUME NEW n \in Nat, NEW d, NEW w \in Seq(Nat)
    PROVE  [k \in 1 .. n |-> d[k - 1]] = w
             <=> Len(w) = n /\ \A p \in 0 .. n - 1 : d[p] = w[p + 1]
<1> DEFINE s == [k \in 1 .. n |-> d[k - 1]]
<1>1. Len(w) \in Nat /\ DOMAIN w = 1 .. Len(w) /\ w = [k \in 1 .. Len(w) |-> w[k]]
  OBVIOUS
<1>2. ASSUME s = w
      PROVE  Len(w) = n /\ \A p \in 0 .. n - 1 : d[p] = w[p + 1]
  <2>1. 1 .. Len(w) = 1 .. n
    BY <1>1, <1>2
  <2>2. Len(w) = n
    <3>1. CASE Len(w) < n
      <4>1. n \in 1 .. n /\ n \notin 1 .. Len(w)
        BY <1>1, <3>1
      <4> QED BY <2>1, <4>1
    <3>2. CASE n < Len(w)
      <4>1. Len(w) \in 1 .. Len(w) /\ Len(w) \notin 1 .. n
        BY <1>1, <3>2
      <4> QED BY <2>1, <4>1
    <3> QED BY <1>1, <3>1, <3>2
  <2>3. ASSUME NEW p \in 0 .. n - 1 PROVE d[p] = w[p + 1]
    <3>1. p + 1 \in 1 .. n /\ (p + 1) - 1 = p
      OBVIOUS
    <3>2. s[p + 1] = d[(p + 1) - 1]
      BY <3>1
    <3> QED BY <1>2, <3>1, <3>2
  <2> QED BY <2>2, <2>3
<1>3. ASSUME Len(w) = n, \A p \in 0 .. n - 1 : d[p] = w[p + 1]
      PROVE  s = w
  <2>1. \A k \in 1 .. n : k - 1 \in 0 .. n - 1 /\ (k - 1) + 1 = k
    OBVIOUS
  <2>2. \A k \in 1 .. n : s[k] = w[k]
    BY <1>3, <2>1
  <2> QED BY <1>1, <1>3, <2>2
<1> QED BY <1>2, <1>3

-----------------------------------------------------------------------------
(* The contents of an inode at rest, byte by byte.                         *)
AtRest(i) == Kept(i) /\ inode[i].dsize = inode[i].isize

Bytes(n, d) == [k \in 1 .. n |-> d[k - 1]]
SameBytes(n, d, w) == Len(w) = n /\ \A p \in Offsets : p < n => d[p] = w[p + 1]

LEMMA SequenceAtRest ==
    ASSUME NEW n \in 0 .. MaxFileSize, NEW d, NEW w \in Seq(Nat)
    PROVE  Bytes(n, d) = w <=> SameBytes(n, d, w)
<1>1. n \in Nat /\ n <= MaxFileSize /\ MaxFileSize \in Nat
  BY FSAssumption
<1>2. [k \in 1 .. n |-> d[k - 1]] = w
        <=> Len(w) = n /\ \A p \in 0 .. n - 1 : d[p] = w[p + 1]
  BY <1>1, SequenceIs, SMTT(40)
<1>3. (\A p \in 0 .. n - 1 : d[p] = w[p + 1]) <=> \A p \in Offsets : p < n => d[p] = w[p + 1]
  BY <1>1 DEF Offsets
<1> QED BY <1>2, <1>3 DEF Bytes, SameBytes

LEMMA SettledAtRest ==
    ASSUME NEW i \in Inodes, inode[i].isize \in 0 .. MaxFileSize, want[i] \in Seq(Nat)
    PROVE  Settled(i) <=> AtRest(i)
<1> DEFINE n == inode[i].isize
           d == inode[i].data
           w == want[i]
<1>1. n \in 0 .. MaxFileSize /\ w \in Seq(Nat)
  OBVIOUS
<1>2. Content(i) = Bytes(n, d)
  BY DEF Content, Bytes
<1> HIDE DEF n, d, w
<1>3. Bytes(n, d) = w <=> SameBytes(n, d, w)
  BY <1>1, SequenceAtRest
<1>4. Content(i) = w <=> Len(w) = n /\ \A p \in Offsets : p < n => d[p] = w[p + 1]
  BY <1>2, <1>3 DEF SameBytes
<1> QED BY <1>4 DEF Settled, AtRest, Kept, n, d, w

LEMMA SettledAfter ==
    ASSUME NEW i \in Inodes, inode'[i].isize \in 0 .. MaxFileSize, want'[i] \in Seq(Nat),
           AtRest(i)'
    PROVE  Settled(i)'
<1> DEFINE n == inode'[i].isize
           d == inode'[i].data
           w == want'[i]
<1>1. n \in 0 .. MaxFileSize /\ w \in Seq(Nat)
  OBVIOUS
<1>2. Content(i)' = Bytes(n, d)
  BY DEF Content, Bytes
<1> HIDE DEF n, d, w
<1>3. Bytes(n, d) = w <=> SameBytes(n, d, w)
  BY <1>1, SequenceAtRest
<1>4. Content(i)' = w <=> Len(w) = n /\ \A p \in Offsets : p < n => d[p] = w[p + 1]
  BY <1>2, <1>3 DEF SameBytes
<1> QED BY <1>4 DEF Settled, AtRest, Kept, n, d, w

(* A write or a truncation in progress is a matter of its thread's record, *)
(* its inode and what POSIX prescribes for it.                             *)
LEMMA SameProgress ==
    ASSUME NEW u \in Threads, th'[u] = th[u], inode'[th[u].ino] = inode[th[u].ino],
           want'[th[u].ino] = want[th[u].ino]
    PROVE  /\ Progress(u) /\ DataOnTheWay(u) /\ ZeroesOnTheWay(u) /\ SizeOnTheWay(u)
              => (Progress(u) /\ DataOnTheWay(u) /\ ZeroesOnTheWay(u) /\ SizeOnTheWay(u))'
           /\ TruncOnTheWay(u) => TruncOnTheWay(u)'
<1>1. Call(u)' = Call(u) /\ Length(u)' = Length(u)
  BY DEF Call, Length
<1>2. EarlySize(u)' = EarlySize(u) /\ newSize(u)' = newSize(u) /\ Upto(u)' = Upto(u)
  BY DEF EarlySize, newSize, Upto, readInodeSizeFS
<1>3. \A p : (Pending(u, p)' <=> Pending(u, p)) /\ (Hollow(u, p)' <=> Hollow(u, p))
  BY <1>2 DEF Pending, Hollow
<1>4. Progress(u) => Progress(u)'
  BY <1>1 DEF Progress
<1>5. DataOnTheWay(u) => DataOnTheWay(u)'
  BY <1>1, <1>3 DEF DataOnTheWay
<1>6. ZeroesOnTheWay(u) => ZeroesOnTheWay(u)'
  BY <1>2 DEF ZeroesOnTheWay, Zeroed
<1>7. SizeOnTheWay(u) => SizeOnTheWay(u)'
  BY <1>2 DEF SizeOnTheWay
<1>8. TruncOnTheWay(u) => TruncOnTheWay(u)'
  BY <1>1 DEF TruncOnTheWay, Zeroed, Kept
<1> QED BY <1>4, <1>5, <1>6, <1>7, <1>8

(* The contents after a step that changes one inode.                       *)
LEMMA ContentsStep ==
    ASSUME Typed, Locked, Contents, NEW t \in Threads, OthersSame(t), NEW j \in Inodes,
           \A i \in Inodes \ {j} : inode'[i] = inode[i] /\ want'[i] = want[i],
           inode[j].lock \in {t, Free}, th[t].pc \in InoPc => th[t].ino = j,
           want' \in [Inodes -> Seq(Nat)],
           inode'[j].isize \in 0 .. MaxFileSize, inode'[j].dsize \in 0 .. MaxFileSize,
           Quiet(j)' => AtRest(j)', ~inode'[j].made => inode'[j].isize = 0,
           th'[t].pc \in WritePc =>
              (Progress(t) /\ DataOnTheWay(t) /\ ZeroesOnTheWay(t) /\ SizeOnTheWay(t))',
           th'[t].pc \in TruncPc => TruncOnTheWay(t)',
           \A k \in Offsets : k < inode'[j].dsize => inode'[j].data[k] # Fresh,
           OrderedDataCovers'
    PROVE  Contents'
<1>0. InodeLocksHeld /\ Free \notin Threads /\ \A i \in Inodes : inode[i].lock \in Threads \cup {Free}
  BY FSAssumption DEF Locked, Typed, ShapesOK, InodeType
<1>1. /\ \A i \in Inodes : /\ inode[i].isize \in 0 .. MaxFileSize
                           /\ inode[i].dsize \in 0 .. MaxFileSize
                           /\ Quiet(i) => Settled(i)
                           /\ ~inode[i].made => inode[i].isize = 0
      /\ WritesOnTheWay /\ TruncsOnTheWay /\ NothingUninitialised
  BY DEF Contents
<1>2. ASSUME NEW i \in Inodes, i # j, Quiet(i)' PROVE Settled(i)'
  <2>1. inode'[i] = inode[i] /\ want'[i] = want[i]
    BY <1>2
  <2>2. Quiet(i)
    <3>1. CASE inode[i].lock = t
      BY <1>0, <1>2, <3>1 DEF InodeLocksHeld
    <3>2. CASE inode[i].lock # t
      BY <1>0, <1>2, <2>1, <3>2 DEF Quiet, OthersSame
    <3> QED BY <3>1, <3>2
  <2> QED BY <1>1, <2>1, <2>2 DEF Settled, Content
<1>3. ASSUME Quiet(j)' PROVE Settled(j)'
  <2>1. AtRest(j)'
    BY <1>3
  <2>2. want'[j] \in Seq(Nat)
    OBVIOUS
  <2> QED BY <2>1, <2>2, SettledAfter
<1>4. ASSUME NEW u \in Threads, u # t, th'[u].pc \in WritePc \cup TruncPc
      PROVE  th'[u] = th[u] /\ inode'[th[u].ino] = inode[th[u].ino] /\ want'[th[u].ino] = want[th[u].ino]
  <2>1. th'[u] = th[u] /\ th[u].pc \in InoPc
    BY <1>4 DEF OthersSame, InoPc, WritePc, TruncPc
  <2>2. th[u].ino \in Inodes /\ inode[th[u].ino].lock = u
    BY <1>0, <2>1 DEF InodeLocksHeld, Typed, ThreadOK
  <2>3. th[u].ino # j
    BY <1>0, <1>4, <2>2
  <2> QED BY <2>1, <2>2, <2>3
<1>6. WritesOnTheWay'
  <2> SUFFICES ASSUME NEW u \in Threads, u # t, th'[u].pc \in WritePc
               PROVE  (Progress(u) /\ DataOnTheWay(u) /\ ZeroesOnTheWay(u) /\ SizeOnTheWay(u))'
    BY DEF WritesOnTheWay
  <2>1. Progress(u) /\ DataOnTheWay(u) /\ ZeroesOnTheWay(u) /\ SizeOnTheWay(u)
    BY <1>1, <1>4 DEF WritesOnTheWay
  <2> QED BY <1>4, <2>1, SameProgress
<1>7. TruncsOnTheWay'
  <2> SUFFICES ASSUME NEW u \in Threads, u # t, th'[u].pc \in TruncPc PROVE TruncOnTheWay(u)'
    BY DEF TruncsOnTheWay
  <2>1. TruncOnTheWay(u)
    BY <1>1, <1>4 DEF TruncsOnTheWay
  <2> QED BY <1>4, <2>1, SameProgress
<1>5. NothingUninitialised'
  BY <1>1 DEF NothingUninitialised
<1> QED BY <1>1, <1>2, <1>3, <1>5, <1>6, <1>7 DEF Contents

(* The contents after a step that changes none.                            *)
LEMMA ContentsQuiet ==
    ASSUME Typed, Locked, Contents, NEW t \in Threads, OthersSame(t),
           UNCHANGED <<inode, want, mdwrite, mode>>,
           th[t].pc \notin InoPc, th'[t].pc \notin InoPc
    PROVE  Contents'
<1>0. InodeLocksHeld /\ Free \notin Threads /\ \A i \in Inodes : inode[i].lock \in Threads \cup {Free}
  BY FSAssumption DEF Locked, Typed, ShapesOK, InodeType
<1>1. ASSUME NEW i \in Inodes, Quiet(i)' PROVE Settled(i)'
  <2>1. inode[i].lock # t
    BY <1>0 DEF InodeLocksHeld
  <2>2. Quiet(i)
    BY <1>0, <1>1, <2>1 DEF Quiet, OthersSame
  <2> QED BY <2>2 DEF Contents, Settled, Content
<1>2. ASSUME NEW u \in Threads, th'[u].pc \in WritePc \cup TruncPc
      PROVE  th'[u] = th[u] /\ inode'[th[u].ino] = inode[th[u].ino] /\ want'[th[u].ino] = want[th[u].ino]
  BY <1>2 DEF OthersSame, InoPc, WritePc, TruncPc
<1>4. WritesOnTheWay'
  <2> SUFFICES ASSUME NEW u \in Threads, th'[u].pc \in WritePc
               PROVE  (Progress(u) /\ DataOnTheWay(u) /\ ZeroesOnTheWay(u) /\ SizeOnTheWay(u))'
    BY DEF WritesOnTheWay
  <2>1. Progress(u) /\ DataOnTheWay(u) /\ ZeroesOnTheWay(u) /\ SizeOnTheWay(u)
    BY <1>2 DEF WritesOnTheWay, Contents
  <2> QED BY <1>2, <2>1, SameProgress
<1>5. TruncsOnTheWay'
  <2> SUFFICES ASSUME NEW u \in Threads, th'[u].pc \in TruncPc PROVE TruncOnTheWay(u)'
    BY DEF TruncsOnTheWay
  <2>1. TruncOnTheWay(u)
    BY <1>2 DEF TruncsOnTheWay, Contents
  <2> QED BY <1>2, <2>1, SameProgress
<1>3. (NothingUninitialised /\ OrderedDataCovers)'
  BY DEF Contents, NothingUninitialised, OrderedDataCovers
<1> QED BY <1>1, <1>3, <1>4, <1>5 DEF Contents

(* Steps on names, descriptions and reads leave the contents alone, but    *)
(* for the making of an inode, which is empty and was.                     *)
LEMMA ContentsCreate ==
    ASSUME Typed, Locked, Contents, NEW t \in Threads, LookupOrCreate(t), inode' # inode
    PROVE  Contents'
<1>1. PICK i \in FreshInodes : executeInodeCreateFS(Call(t).name, i)
  BY DEF LookupOrCreate
<1>2. i \in Inodes /\ inode[i].lock = Free /\ ~inode[i].made
  BY FreshUnlocked DEF FreshInodes
<1>3. /\ inode' = [inode EXCEPT ![i] = NewInode] /\ want' = want /\ mode' = mode
      /\ updateInodeDisksizeFS(i, 0, 0, 0)
  BY <1>1 DEF executeInodeCreateFS, LookupOrCreate
<1>4. inode'[i] = NewInode /\ \A j \in Inodes \ {i} : inode'[j] = inode[j]
  BY <1>2, <1>3 DEF Typed, ShapesOK
<1>5. NewInode.made /\ NewInode.isize = 0 /\ NewInode.dsize = 0
  BY DEF NewInode
<1>6. AtRest(i)'
  <2>1. Quiet(i) /\ inode[i].isize = 0 /\ want[i] \in Seq(Nat) /\ inode[i].isize \in 0 .. MaxFileSize
    BY <1>2 DEF Quiet, Contents
  <2>2. AtRest(i)
    BY <1>2, <2>1, SettledAtRest DEF Contents
  <2>3. Len(want[i]) = 0
    BY <2>1, <2>2 DEF AtRest, Kept
  <2>4. \A p \in Offsets : ~(p < 0)
    BY FSAssumption DEF Offsets
  <2> QED BY <1>3, <1>4, <1>5, <2>3, <2>4 DEF AtRest, Kept
<1>7. OthersSame(t) /\ th[t].pc \notin InoPc /\ th'[t].pc \notin WritePc \cup TruncPc
  BY LockedDirectory DEF InoPc, WritePc, TruncPc
<1>8. 0 \in 0 .. MaxFileSize
  BY FSAssumption
<1>9. \A k \in Offsets : ~(k < 0)
  BY FSAssumption DEF Offsets
<1>10. OrderedDataCovers'
  <2>1. mdwrite'.new = 0 /\ mdwrite'.old = inode[i].dsize
    BY <1>3 DEF updateInodeDisksizeFS
  <2>2. inode[i].dsize \in 0 .. MaxFileSize
    BY <1>2 DEF Contents
  <2>3. ~(mdwrite'.new > mdwrite'.old)
    BY <2>1, <2>2, FSAssumption
  <2> QED BY <2>3 DEF OrderedDataCovers
<1>11. want' \in [Inodes -> Seq(Nat)]
  BY <1>3 DEF Contents
<1> QED BY <1>2, <1>3, <1>4, <1>5, <1>6, <1>7, <1>8, <1>9, <1>10, <1>11, ContentsStep

LEMMA ContentsOutside ==
    ASSUME Typed, Locked, Contents, NEW t \in Threads,
           \/ CallOpen(t) \/ LookupTrans(t) \/ LookupEntry(t) \/ OpenFile(t) \/ CallClose(t)
           \/ BadDescriptor(t) \/ CallFsync(t) \/ CallSync(t)
           \/ LockDir(t) \/ LookupOrCreate(t) \/ LookupTruncate(t)
           \/ CallLink(t) \/ CallUnlink(t) \/ CallRename(t)
           \/ RenameLink(t) \/ RenameUnlink(t) \/ RenameEnd(t)
           \/ CallRead(t) \/ CallWrite(t) \/ CallLseek(t) \/ CallPread(t) \/ CallPwrite(t)
           \/ ReadSize(t) \/ ReadByte(t) \/ WriteSync(t)
           \/ ReadDone(t) \/ WriteDone(t) \/ executeLseekFS(t)
    PROVE  Contents'
<1> USE DEF history
<1>1. OthersSame(t) /\ th[t].pc \notin InoPc /\ th'[t].pc \notin InoPc
  BY LockedOutside, LockedDirectory, LockedReads
<1>2. CASE UNCHANGED <<inode, want, mdwrite, mode>>
  BY <1>1, <1>2, ContentsQuiet
<1>3. CASE LookupOrCreate(t)
  <2>1. CASE inode' # inode
    BY <1>3, <2>1, ContentsCreate
  <2>2. CASE inode' = inode
    <3>1. want' = want /\ mode' = mode
      BY <1>3 DEF LookupOrCreate
    <3>2. mdwrite' = mdwrite
      <4>1. CASE \E i \in FreshInodes : executeInodeCreateFS(Call(t).name, i)
        <5>1. PICK i \in FreshInodes : inode' = [inode EXCEPT ![i] = NewInode]
          BY <4>1 DEF executeInodeCreateFS
        <5>2. i \in Inodes /\ ~inode[i].made
          BY DEF FreshInodes
        <5>3. inode'[i] = NewInode /\ NewInode.made
          BY <5>1, <5>2 DEF Typed, ShapesOK, NewInode
        <5> QED BY <2>2, <5>2, <5>3
      <4>2. CASE ~\E i \in FreshInodes : executeInodeCreateFS(Call(t).name, i)
        BY <1>3, <4>2 DEF LookupOrCreate
      <4> QED BY <4>1, <4>2
    <3> QED BY <1>2, <2>2, <3>1, <3>2
  <2> QED BY <2>1, <2>2
<1>4. CASE \/ CallOpen(t) \/ LookupTrans(t) \/ LookupEntry(t) \/ OpenFile(t) \/ CallClose(t)
           \/ BadDescriptor(t) \/ CallFsync(t) \/ CallSync(t)
  BY <1>2, <1>4 DEF CallOpen, LookupTrans, LookupEntry, OpenFile, CallClose, BadDescriptor,
                    CallFsync, CallSync
<1>5. CASE \/ LockDir(t) \/ LookupTruncate(t) \/ CallLink(t) \/ CallUnlink(t) \/ CallRename(t)
           \/ RenameLink(t) \/ RenameUnlink(t) \/ RenameEnd(t)
  BY <1>2, <1>5 DEF LockDir, LookupTruncate, CallLink, CallUnlink, CallRename, RenameLink,
                    RenameUnlink, RenameEnd
<1>6. CASE \/ CallRead(t) \/ CallWrite(t) \/ CallLseek(t) \/ CallPread(t) \/ CallPwrite(t)
           \/ ReadSize(t) \/ ReadByte(t) \/ WriteSync(t)
           \/ ReadDone(t) \/ WriteDone(t) \/ executeLseekFS(t)
  BY <1>2, <1>6 DEF CallRead, CallWrite, CallLseek, LockPos, CallPread, CallPwrite, AtOffset,
                    ReadSize, ReadByte, WriteSync, ReadDone, WriteDone, executeLseekFS
<1> QED BY <1>3, <1>4, <1>5, <1>6

(* An inode's lock changes hands between writes.                           *)
LEMMA ContentsRelock ==
    ASSUME Typed, Locked, Contents, NEW t \in Threads, OthersSame(t), NEW j \in Inodes,
           Touched(j, {"lock"}), inode[j].lock \in {t, Free},
           th[t].pc \in InoPc => th[t].ino = j /\ th[t].pc \notin WritePc \cup {"tsize"},
           th'[t].pc \notin WritePc \cup TruncPc, UNCHANGED <<want, mdwrite, mode>>
    PROVE  Contents'
<1>1. /\ \A i \in Inodes \ {j} : inode'[i] = inode[i]
      /\ inode'[j].made = inode[j].made /\ inode'[j].isize = inode[j].isize
      /\ inode'[j].dsize = inode[j].dsize /\ inode'[j].data = inode[j].data
  BY DEF Touched, InodeFields
<1>2. Quiet(j)
  <2>1. CASE inode[j].lock = t
    BY <2>1 DEF Quiet, InoPc, WritePc
  <2>2. CASE inode[j].lock = Free
    BY <2>2 DEF Quiet
  <2> QED BY <2>1, <2>2
<1>3. AtRest(j)
  BY <1>2, SettledAtRest DEF Contents
<1>4. AtRest(j)'
  BY <1>1, <1>3 DEF AtRest, Kept
<1>5. /\ \A k \in Offsets : k < inode'[j].dsize => inode'[j].data[k] # Fresh
      /\ inode'[j].isize \in 0 .. MaxFileSize /\ inode'[j].dsize \in 0 .. MaxFileSize
      /\ ~inode'[j].made => inode'[j].isize = 0
      /\ want' \in [Inodes -> Seq(Nat)]
  BY <1>1 DEF Contents, NothingUninitialised
<1>6. OrderedDataCovers'
  BY DEF Contents, OrderedDataCovers
<1> QED BY <1>1, <1>4, <1>5, <1>6, ContentsStep

(* What the holder of an inode's lock finds in it.                         *)
LEMMA Holder ==
    ASSUME Typed, Locked, Contents, NEW t \in Threads, th[t].pc \in InoPc
    PROVE  /\ th[t].ino \in Inodes /\ inode[th[t].ino].lock = t
           /\ inode[th[t].ino] \in InodeType /\ inode[th[t].ino].made
           /\ want[th[t].ino] \in Seq(Nat)
           /\ inode[th[t].ino].isize \in 0 .. MaxFileSize
           /\ inode[th[t].ino].dsize \in 0 .. MaxFileSize
           /\ th[t].pc \notin WritePc \cup {"tsize"} => AtRest(th[t].ino)
           /\ \A k \in Offsets : k < inode[th[t].ino].dsize => inode[th[t].ino].data[k] # Fresh
<1>1. th[t].ino \in Inodes /\ inode[th[t].ino].lock = t /\ inode[th[t].ino].made
      /\ inode[th[t].ino] \in InodeType
  BY DEF Typed, ThreadOK, ReferencesMade, ShapesOK, Locked, InodeLocksHeld
<1>2. /\ want[th[t].ino] \in Seq(Nat)
      /\ inode[th[t].ino].isize \in 0 .. MaxFileSize
      /\ inode[th[t].ino].dsize \in 0 .. MaxFileSize
      /\ \A k \in Offsets : k < inode[th[t].ino].dsize => inode[th[t].ino].data[k] # Fresh
  BY <1>1 DEF Contents, NothingUninitialised
<1>3. ASSUME th[t].pc \notin WritePc \cup {"tsize"} PROVE AtRest(th[t].ino)
  <2>1. Quiet(th[t].ino)
    BY <1>1, <1>3 DEF Quiet
  <2> QED BY <1>1, <1>2, <2>1, SettledAtRest DEF Contents
<1> QED BY <1>1, <1>2, <1>3

(* The contents after a step of the holder of an inode's lock.             *)
LEMMA ContentsInside ==
    ASSUME Typed, Locked, Contents, NEW t \in Threads, OneMoved(t), th[t].pc \in InoPc,
           NEW i \in Inodes, i = th[t].ino,
           NEW S \in SUBSET {"isize", "dsize", "trans", "data"}, Touched(i, S),
           want' \in [Inodes -> Seq(Nat)], \A j \in Inodes \ {i} : want'[j] = want[j],
           inode'[i].isize \in 0 .. MaxFileSize, inode'[i].dsize \in 0 .. MaxFileSize,
           th'[t].pc \notin WritePc \cup {"tsize"} => AtRest(i)',
           th'[t].pc \in WritePc =>
              (Progress(t) /\ DataOnTheWay(t) /\ ZeroesOnTheWay(t) /\ SizeOnTheWay(t))',
           th'[t].pc \in TruncPc => TruncOnTheWay(t)',
           \A k \in Offsets : k < inode'[i].dsize => inode'[i].data[k] # Fresh,
           OrderedDataCovers'
    PROVE  Contents'
<1>1. OthersSame(t)
  BY MovedOthers
<1>2. inode[i].lock = t /\ inode[i].made
  BY Holder
<1>3. /\ inode'[i].lock = t /\ inode'[i].made
      /\ \A j \in Inodes \ {i} : inode'[j] = inode[j]
  BY <1>2 DEF Touched, InodeFields
<1>4. Quiet(i)' => AtRest(i)'
  BY <1>3, FSAssumption DEF Quiet
<1> QED BY <1>1, <1>2, <1>3, <1>4, ContentsStep

LEMMA ContentsLocks ==
    ASSUME Typed, Locked, Contents, NEW t \in Threads,
           TruncateLock(t) \/ WriteFlags(t) \/ TruncateUnlock(t) \/ WriteUnlock(t)
    PROVE  Contents'
<1> USE DEF history
<1>1. UNCHANGED <<want, mdwrite, mode>>
  BY DEF TruncateLock, WriteFlags, TruncateUnlock, WriteUnlock
<1>2. OneMoved(t) /\ th[t].pc \in {"locktrunc", "wflags", "tunlock", "wunlock"}
      /\ th'[t].pc \in {"call", "trunc", "wdone", "wchecks", "wsync"}
  BY TruncateLockEffect, WriteFlagsEffect, TruncateUnlockEffect, WriteUnlockEffect
<1>3. OthersSame(t) /\ th'[t].pc \notin WritePc \cup TruncPc /\ th[t].pc \notin WritePc \cup {"tsize"}
  BY <1>2, MovedOthers DEF TruncPc, WritePc
<1>4. CASE inode' = inode /\ (TruncateLock(t) \/ WriteFlags(t))
  <2>1. th[t].pc \notin InoPc /\ th'[t].pc \notin InoPc
    <3>1. CASE TruncateLock(t)
      BY <1>4, <3>1, TruncateLockEffect, FSAssumption DEF InoPc
    <3>2. CASE WriteFlags(t)
      BY <1>4, <3>2, WriteFlagsEffect, FSAssumption DEF InoPc
    <3> QED BY <1>4, <3>1, <3>2
  <2> QED BY <1>1, <1>3, <1>4, <2>1, ContentsQuiet
<1>5. CASE inode' # inode /\ (TruncateLock(t) \/ WriteFlags(t))
  <2>1. PICK j \in Inodes : Touched(j, {"lock"}) /\ inode[j].lock = Free
    <3>1. CASE TruncateLock(t)
      BY <1>5, <3>1, TruncateLockEffect DEF Typed, ThreadOK
    <3>2. CASE WriteFlags(t)
      BY <1>5, <3>2, WriteFlagsEffect
    <3> QED BY <1>5, <3>1, <3>2
  <2>2. th[t].pc \notin InoPc
    BY <1>5, TruncateLockEffect, WriteFlagsEffect DEF InoPc
  <2> QED BY <1>1, <1>3, <2>1, <2>2, ContentsRelock
<1>6. CASE TruncateUnlock(t) \/ WriteUnlock(t)
  <2>1. Touched(th[t].ino, {"lock"}) /\ th[t].pc \in InoPc
    BY <1>6, TruncateUnlockEffect, WriteUnlockEffect DEF InoPc
  <2>2. th[t].ino \in Inodes /\ inode[th[t].ino].lock = t
    BY <2>1, Holder
  <2> QED BY <1>1, <1>3, <2>1, <2>2, ContentsRelock
<1> QED BY <1>4, <1>5, <1>6

-----------------------------------------------------------------------------
(* Truncation.                                                             *)
LEMMA OrderKept == ASSUME Contents, mdwrite' = mdwrite, mode' = mode PROVE OrderedDataCovers'
BY DEF Contents, OrderedDataCovers

LEMMA OrderedUpdate ==
    ASSUME NEW i \in Inodes, NEW new \in Int, NEW begin, NEW end \in Int,
           updateInodeDisksizeFS(i, new, begin, end), mode' = mode, inode[i].dsize \in Int,
           new > inode[i].dsize => begin <= inode[i].dsize /\ new <= end
    PROVE  OrderedDataCovers'
<1>1. /\ mdwrite'.old = inode[i].dsize /\ mdwrite'.new = new
      /\ mode.journal = "ordered" => mdwrite'.begin = begin /\ mdwrite'.end = end
  BY DEF updateInodeDisksizeFS
<1> QED BY <1>1 DEF OrderedDataCovers

LEMMA OffsetsNat == \A p \in Offsets : p \in Nat /\ p < MaxFileSize
BY FSAssumption DEF Offsets

LEMMA ContentsTruncate ==
    ASSUME Typed, Locked, Contents, NEW t \in Threads, executeTruncateFS(t)
    PROVE  Contents'
<1>i. PICK i \in Inodes : i = th[t].ino
  BY DEF Typed, ThreadOK
<1>1. /\ inode' = inode /\ want' = want /\ mdwrite' = mdwrite /\ mode' = mode
  BY DEF executeTruncateFS, history
<1>2. /\ OneMoved(t) /\ th[t].pc = "trunc" /\ th'[t].ino = i
      /\ Length(t) \in Nat /\ Length(t)' = Length(t)
      /\ \/ th'[t].pc = "tunlock"
         \/ /\ th'[t].pc = "tzero" /\ th'[t].k = inode[i].isize
            /\ Length(t) > inode[i].isize /\ Length(t) < MaxFileSize
         \/ th'[t].pc = "tdisk" /\ Length(t) <= inode[i].isize
  BY <1>i, TruncateEffect DEF ThreadFields
<1>3. th[t].pc \in InoPc /\ th[t].pc \notin WritePc \cup {"tsize"} /\ th'[t].pc \notin WritePc \cup {"tsize"}
  BY <1>2 DEF InoPc, WritePc
<1>4. /\ inode[i].isize \in 0 .. MaxFileSize /\ inode[i].dsize \in 0 .. MaxFileSize /\ AtRest(i)
      /\ \A k \in Offsets : k < inode[i].dsize => inode[i].data[k] # Fresh
  BY <1>i, <1>3, Holder
<1>5. AtRest(i)'
  BY <1>1, <1>4 DEF AtRest, Kept
<1>6. ASSUME th'[t].pc \in TruncPc PROVE TruncOnTheWay(t)'
  <2>1. inode[i].isize \in Nat /\ inode[i].isize <= MaxFileSize /\ MaxFileSize \in Nat
    BY <1>4, FSAssumption
  <2>2. CASE th'[t].pc = "tzero"
    <3>1. Zeroed(i, inode[i].isize, inode[i].isize)'
      BY <1>1, <2>1, OffsetsNat DEF Zeroed
    <3> QED BY <1>1, <1>2, <2>1, <2>2, <3>1 DEF TruncOnTheWay
  <2>3. CASE th'[t].pc = "tdisk"
    <3>1. Length(t) <= inode[i].isize
      BY <1>2, <2>3
    <3>2. Zeroed(i, inode[i].isize, Length(t))'
      BY <1>1, <1>2, <2>1, <3>1, OffsetsNat DEF Zeroed
    <3> QED BY <1>1, <1>2, <2>1, <2>3, <3>1, <3>2 DEF TruncOnTheWay
  <2> QED BY <1>2, <1>6, <2>2, <2>3 DEF TruncPc
<1>7. OrderedDataCovers'
  BY <1>1, OrderKept
<1>8. Touched(i, {}) /\ want' \in [Inodes -> Seq(Nat)]
  BY <1>1 DEF Touched, Typed, ShapesOK, Contents
<1> QED BY <1>i, <1>1, <1>2, <1>3, <1>4, <1>5, <1>6, <1>7, <1>8, ContentsInside

LEMMA ContentsTruncateZero ==
    ASSUME Typed, Locked, Contents, NEW t \in Threads, TruncateZero(t)
    PROVE  Contents'
<1>i. PICK i \in Inodes : i = th[t].ino
  BY DEF Typed, ThreadOK
<1>0. th[t].pc = "tzero" /\ zeroDskRangeFS(t, Length(t), "tdisk")
  BY DEF TruncateZero, At
<1>1. want' = want /\ mdwrite' = mdwrite /\ mode' = mode
  BY <1>0 DEF zeroDskRangeFS, history
<1>2. /\ OneMoved(t) /\ th'[t].ino = i /\ th'[t].k = th[t].k + 1 /\ Length(t)' = Length(t)
      /\ th'[t].pc = IF th[t].k + 1 = Length(t) THEN "tdisk" ELSE "tzero"
      /\ Touched(i, {"data"}) /\ inode'[i].data = [inode[i].data EXCEPT ![th[t].k] = 0]
  BY <1>i, <1>0, ZeroEffect DEF ThreadFields
<1>3. th[t].pc \in InoPc /\ th[t].pc \notin WritePc \cup {"tsize"} /\ th[t].pc \in TruncPc
      /\ th'[t].pc \notin WritePc \cup {"tsize"}
  BY <1>0, <1>2 DEF InoPc, WritePc, TruncPc
<1>4. /\ inode[i].isize \in 0 .. MaxFileSize /\ inode[i].dsize \in 0 .. MaxFileSize /\ AtRest(i)
      /\ \A k \in Offsets : k < inode[i].dsize => inode[i].data[k] # Fresh
  BY <1>i, <1>3, Holder
<1>5. /\ Length(t) <= MaxFileSize /\ inode[i].isize <= th[t].k /\ th[t].k < Length(t)
      /\ Zeroed(i, inode[i].isize, th[t].k)
  BY <1>i, <1>0, <1>3 DEF Contents, TruncsOnTheWay, TruncOnTheWay
<1>6. PICK k \in Int, len \in Nat, old \in Nat : k = th[t].k /\ len = Length(t) /\ old = inode[i].isize
  <2>1. Length(t) \in Nat /\ th[t].k \in Int
    BY <1>0, LengthTyped DEF Typed, ThreadOK
  <2> QED BY <1>4, <2>1, FSAssumption
<1>7. /\ \A p \in Offsets : inode'[i].data[p] = IF p = k THEN 0 ELSE inode[i].data[p]
      /\ inode'[i].isize = old /\ inode'[i].dsize = inode[i].dsize
  <2>1. inode'[i].data = [inode[i].data EXCEPT ![k] = 0] /\ inode[i].data \in [Offsets -> Int]
    BY <1>2, <1>6 DEF Typed, ShapesOK, InodeType
  <2>2. \A p \in Offsets : inode'[i].data[p] = IF p = k THEN 0 ELSE inode[i].data[p]
    BY <2>1
  <2> QED BY <1>2, <1>6, <2>2 DEF Touched, InodeFields
<1>8. old <= k /\ k < len /\ len <= MaxFileSize
  BY <1>5, <1>6
<1>9. Zeroed(i, old, k + 1)'
  <2>1. \A p \in Offsets : old <= p /\ p < k => inode[i].data[p] = 0
    BY <1>5, <1>6 DEF Zeroed
  <2> QED BY <1>7, <1>8, <2>1, OffsetsNat DEF Zeroed
<1>10. TruncOnTheWay(t)'
  <2>1. CASE k + 1 = len
    BY <1>2, <1>6, <1>7, <1>8, <1>9, <2>1 DEF TruncOnTheWay
  <2>2. CASE k + 1 # len
    BY <1>2, <1>6, <1>7, <1>8, <1>9, <2>2 DEF TruncOnTheWay
  <2> QED BY <2>1, <2>2
<1>11. AtRest(i)'
  BY <1>1, <1>4, <1>6, <1>7, <1>8, OffsetsNat DEF AtRest, Kept
<1>12. \A p \in Offsets : p < inode'[i].dsize => inode'[i].data[p] # Fresh
  BY <1>4, <1>7 DEF Fresh
<1>13. OrderedDataCovers'
  BY <1>1, OrderKept
<1>14. want' \in [Inodes -> Seq(Nat)]
  BY <1>1 DEF Contents
<1> QED BY <1>i, <1>1, <1>2, <1>3, <1>4, <1>6, <1>7, <1>10, <1>11, <1>12, <1>13, <1>14, ContentsInside, ZenonT(60)

LEMMA ContentsTruncateDisk ==
    ASSUME Typed, Locked, Contents, NEW t \in Threads, TruncateDisk(t)
    PROVE  Contents'
<1>i. PICK i \in Inodes : i = th[t].ino
  BY DEF Typed, ThreadOK
<1>1. want' = want /\ mode' = mode
  BY DEF TruncateDisk
<1>2. /\ OneMoved(t) /\ th[t].pc = "tdisk" /\ th'[t].pc = "tsize" /\ th'[t].ino = i
      /\ Length(t) \in Nat /\ Length(t)' = Length(t)
      /\ Touched(i, {"dsize"}) /\ inode'[i].dsize = Length(t)
      /\ \/ /\ Length(t) > inode[i].isize
            /\ updateInodeDisksizeFS(i, Length(t), inode[i].isize, Length(t))
         \/ Length(t) <= inode[i].isize /\ updateInodeDisksizeFS(i, Length(t), 0, 0)
  BY <1>i, TruncateDiskEffect DEF ThreadFields
<1>3. th[t].pc \in InoPc /\ th[t].pc \notin WritePc \cup {"tsize"} /\ th[t].pc \in TruncPc
      /\ th'[t].pc \notin WritePc /\ th'[t].pc = "tsize"
  BY <1>2 DEF InoPc, WritePc, TruncPc
<1>4. /\ inode[i].isize \in 0 .. MaxFileSize /\ inode[i].dsize \in 0 .. MaxFileSize /\ AtRest(i)
      /\ \A k \in Offsets : k < inode[i].dsize => inode[i].data[k] # Fresh
  BY <1>i, <1>3, Holder
<1>5. Length(t) <= MaxFileSize /\ Zeroed(i, inode[i].isize, Length(t))
  BY <1>i, <1>2, <1>3 DEF Contents, TruncsOnTheWay, TruncOnTheWay
<1>6. PICK len \in Nat, old \in Nat : len = Length(t) /\ old = inode[i].isize
  BY <1>2, <1>4, FSAssumption
<1>7. inode'[i].isize = old /\ inode'[i].data = inode[i].data /\ inode[i].dsize = old
  BY <1>2, <1>4, <1>6 DEF Touched, InodeFields, AtRest
<1>8. TruncOnTheWay(t)'
  <2>1. Kept(i)'
    BY <1>1, <1>4, <1>6, <1>7 DEF AtRest, Kept
  <2>2. Zeroed(i, old, len)'
    BY <1>5, <1>6, <1>7 DEF Zeroed
  <2> QED BY <1>2, <1>5, <1>6, <1>7, <2>1, <2>2 DEF TruncOnTheWay
<1>9. ASSUME NEW p \in Offsets, p < inode'[i].dsize PROVE inode'[i].data[p] # Fresh
  <2>1. CASE p < old
    BY <1>4, <1>7, <2>1
  <2>2. CASE ~(p < old)
    <3>1. inode[i].data[p] = 0
      BY <1>2, <1>5, <1>6, <1>9, <2>2, OffsetsNat DEF Zeroed
    <3> QED BY <1>7, <3>1 DEF Fresh
  <2> QED BY <2>1, <2>2
<1>10. OrderedDataCovers'
  <2>1. CASE len > old /\ updateInodeDisksizeFS(i, len, old, len)
    BY <1>1, <1>7, <2>1, OrderedUpdate
  <2>2. CASE len <= old /\ updateInodeDisksizeFS(i, len, 0, 0)
    BY <1>1, <1>7, <2>2, OrderedUpdate
  <2> QED BY <1>2, <1>6, <2>1, <2>2
<1>11. want' \in [Inodes -> Seq(Nat)]
  BY <1>1 DEF Contents
<1>12. inode'[i].dsize \in 0 .. MaxFileSize /\ inode'[i].isize \in 0 .. MaxFileSize
  BY <1>2, <1>4, <1>5, <1>6, <1>7, FSAssumption
<1> QED BY <1>i, <1>1, <1>2, <1>3, <1>8, <1>9, <1>10, <1>11, <1>12, ContentsInside

LEMMA ContentsTruncateSize ==
    ASSUME Typed, Locked, Contents, NEW t \in Threads, TruncateSize(t)
    PROVE  Contents'
<1>i. PICK i \in Inodes : i = th[t].ino
  BY DEF Typed, ThreadOK
<1>1. mode' = mode
  BY DEF TruncateSize
<1>2. /\ OneMoved(t) /\ th[t].pc = "tsize" /\ th'[t].pc = "tunlock" /\ mdwrite' = mdwrite
      /\ Length(t) \in Nat /\ Touched(i, {"isize"}) /\ inode'[i].isize = Length(t)
      /\ want' = [want EXCEPT ![i] = PosixTruncate(@, Length(t))]
  BY <1>i, TruncateSizeEffect
<1>3. th[t].pc \in InoPc /\ th[t].pc \in TruncPc /\ th'[t].pc \notin WritePc \cup TruncPc
  BY <1>2 DEF InoPc, WritePc, TruncPc
<1>4. /\ inode[i].isize \in 0 .. MaxFileSize /\ want[i] \in Seq(Nat)
      /\ \A k \in Offsets : k < inode[i].dsize => inode[i].data[k] # Fresh
  BY <1>i, <1>3, Holder
<1>5. /\ Length(t) <= MaxFileSize /\ Zeroed(i, inode[i].isize, Length(t))
      /\ inode[i].dsize = Length(t) /\ Kept(i)
  BY <1>i, <1>2, <1>3 DEF Contents, TruncsOnTheWay, TruncOnTheWay
<1>6. PICK len \in Nat, old \in Nat : len = Length(t) /\ old = inode[i].isize
  BY <1>2, <1>4, FSAssumption
<1>7. inode'[i].isize = len /\ inode'[i].dsize = len /\ inode'[i].data = inode[i].data
  BY <1>2, <1>5, <1>6 DEF Touched, InodeFields
<1>8. /\ Len(want[i]) = old
      /\ \A p \in Offsets : p < old => inode[i].data[p] = want[i][p + 1]
  BY <1>5, <1>6 DEF Kept
<1>9. /\ PosixTruncate(want[i], len) \in Seq(Nat)
      /\ Len(PosixTruncate(want[i], len)) = len
      /\ \A k \in 1 .. len : PosixTruncate(want[i], len)[k] = IF k <= old THEN want[i][k] ELSE 0
  <2>1. PosixTruncate(want[i], len) = [k \in 1 .. len |-> IF k <= old THEN want[i][k] ELSE 0]
    BY <1>8 DEF PosixTruncate
  <2>2. \A k \in 1 .. len : (IF k <= old THEN want[i][k] ELSE 0) \in Nat
    BY <1>4, <1>8
  <2> QED BY <2>1, <2>2
<1>10. want'[i] = PosixTruncate(want[i], len) /\ want' \in [Inodes -> Seq(Nat)]
       /\ \A j \in Inodes \ {i} : want'[j] = want[j]
  BY <1>2, <1>6, <1>9 DEF Contents
<1>11. ASSUME NEW p \in Offsets, p < len PROVE inode'[i].data[p] = want'[i][p + 1]
  <2>1. p \in Nat /\ p + 1 \in 1 .. len
    BY <1>11, OffsetsNat
  <2>2. want'[i][p + 1] = IF p + 1 <= old THEN want[i][p + 1] ELSE 0
    BY <1>9, <1>10, <2>1
  <2>3. CASE p < old
    BY <1>7, <1>8, <2>1, <2>2, <2>3
  <2>4. CASE ~(p < old)
    <3>1. inode[i].data[p] = 0 /\ ~(p + 1 <= old)
      BY <1>5, <1>6, <1>11, <2>1, <2>4 DEF Zeroed
    <3> QED BY <1>7, <2>2, <3>1
  <2> QED BY <2>3, <2>4
<1>12. AtRest(i)'
  BY <1>7, <1>9, <1>10, <1>11 DEF AtRest, Kept
<1>13. OrderedDataCovers'
  BY <1>1, <1>2, OrderKept
<1>14. /\ \A p \in Offsets : p < inode'[i].dsize => inode'[i].data[p] # Fresh
       /\ inode'[i].isize \in 0 .. MaxFileSize /\ inode'[i].dsize \in 0 .. MaxFileSize
  BY <1>4, <1>5, <1>6, <1>7, FSAssumption
<1> QED BY <1>i, <1>2, <1>3, <1>10, <1>12, <1>13, <1>14, ContentsInside

-----------------------------------------------------------------------------
(* Writing.                                                                *)
LEMMA IsSequence ==
    ASSUME NEW S, NEW n \in Nat, NEW f \in [1 .. n -> S] PROVE f \in Seq(S) /\ Len(f) = n
OBVIOUS

(* Writing: what is laid over the old contents.                            *)
LEMMA PosixWriteIs ==
    ASSUME NEW w \in Seq(Nat), NEW at \in Int, NEW bytes \in Seq(Nat), NEW n \in Nat,
           n <= Len(bytes)
    PROVE  /\ PosixWrite(w, at, SubSeq(bytes, 1, n)) \in Seq(Nat)
           /\ Len(PosixWrite(w, at, SubSeq(bytes, 1, n)))
                = IF Len(w) >= at + n THEN Len(w) ELSE at + n
           /\ \A k \in 1 .. Len(PosixWrite(w, at, SubSeq(bytes, 1, n))) :
                 PosixWrite(w, at, SubSeq(bytes, 1, n))[k]
                   = IF k > at /\ k <= at + n THEN bytes[k - at]
                     ELSE IF k <= Len(w) THEN w[k] ELSE 0
<1> DEFINE new == PosixWrite(w, at, SubSeq(bytes, 1, n))
           m == IF Len(w) >= at + n THEN Len(w) ELSE at + n
           at_k(k) == IF k > at /\ k <= at + n THEN bytes[k - at]
                      ELSE IF k <= Len(w) THEN w[k] ELSE 0
<1>1. SubSeq(bytes, 1, n) \in Seq(Nat) /\ Len(SubSeq(bytes, 1, n)) = n
      /\ \A k \in 1 .. n : SubSeq(bytes, 1, n)[k] = bytes[k]
  BY SubSeqProperties
<1>2. Len(w) \in Nat /\ m \in Nat
  OBVIOUS
<1>3. Max({Len(w), at + n}) = m
  BY <1>2, MaxOfTwo
<1>4. PICK s \in Seq(Nat) : s = SubSeq(bytes, 1, n)
  BY <1>1
<1>5. Len(s) = n /\ \A k \in 1 .. n : s[k] = bytes[k]
  BY <1>1, <1>4
<1>6. new = [k \in 1 .. m |-> IF k > at /\ k <= at + n THEN s[k - at]
                              ELSE IF k <= Len(w) THEN w[k] ELSE 0]
  BY <1>3, <1>4, <1>5 DEF PosixWrite
<1>7. \A k \in 1 .. m : k > at /\ k <= at + n => k - at \in 1 .. n
  BY <1>2
<1>8. \A k \in 1 .. m : new[k] = at_k(k)
  BY <1>5, <1>6, <1>7
<1>9. \A k \in 1 .. m : at_k(k) \in Nat
  <2>1. \A k \in 1 .. n : bytes[k] \in Nat
    OBVIOUS
  <2>2. \A k \in 1 .. Len(w) : w[k] \in Nat
    OBVIOUS
  <2> QED BY <1>2, <1>7, <2>1, <2>2
<1>10. new \in Seq(Nat) /\ Len(new) = m
  <2>1. new = [k \in 1 .. m |-> new[k]]
    BY <1>6
  <2>2. \A k \in 1 .. m : new[k] \in Nat
    BY <1>8, <1>9
  <2> HIDE DEF new, m
  <2>3. PICK l \in Nat : l = m
    BY <1>2
  <2>4. new \in [1 .. l -> Nat]
    BY <2>1, <2>2, <2>3
  <2> QED BY <2>3, <2>4, IsSequence
<1> QED BY <1>8, <1>10

(* The early size update ends in the file's last block, or in the write.   *)
LEMMA EarlyRange ==
    ASSUME NEW size \in Nat, NEW at \in Int, NEW n \in Nat, n > 0,
           shouldUpdateInodeDisksizeFS(size, at, n)
    PROVE  LET new == newDisksize(size, at, n)
           IN  new \in Nat /\ size < new /\ new <= at + n /\ new <= BlockEnd(size)
<1>1. /\ newDisksize(size, at, n) = IF BlockEnd(size) <= at + n THEN BlockEnd(size) ELSE at + n
      /\ BlockEnd(size) \in Int /\ size < BlockEnd(size)
  BY NewDisksize
<1>2. \/ at <= size /\ size < at + n
      \/ at < BlockEnd(size) /\ BlockEnd(size) <= at + n
      \/ size <= at /\ at + n <= BlockEnd(size)
  BY DEF shouldUpdateInodeDisksizeFS, BlockEnd
<1>3. at + n > size
  BY <1>1, <1>2
<1> QED BY <1>1, <1>3

LEMMA ContentsChecks ==
    ASSUME Typed, Locked, Contents, NEW t \in Threads, WriteChecks(t)
    PROVE  Contents'
<1>i. PICK i \in Inodes : i = th[t].ino
  BY DEF Typed, ThreadOK
<1>0. /\ OneMoved(t) /\ Call(t)' = Call(t) /\ th'[t].ino = i /\ At(t, "wchecks") /\ inode' = inode
  BY <1>i, WriteChecksEffect DEF ThreadFields
<1>1. mode' = mode /\ mdwrite' = mdwrite
  BY DEF WriteChecks
<1>2. th[t].pc \in InoPc /\ th[t].pc \notin WritePc \cup {"tsize"}
  BY <1>0 DEF InoPc, WritePc, At
<1>3. /\ want[i] \in Seq(Nat) /\ inode[i].isize \in 0 .. MaxFileSize /\ AtRest(i)
      /\ inode[i].dsize \in 0 .. MaxFileSize
      /\ \A k \in Offsets : k < inode[i].dsize => inode[i].data[k] # Fresh
  BY <1>i, <1>2, Holder
<1>t. Touched(i, {}) /\ OrderedDataCovers'
  BY <1>0, <1>1, OrderKept DEF Touched, Typed, ShapesOK
<1>4. CASE th'[t].pc = "wunlock" /\ want' = want
  <2>1. th'[t].pc \notin WritePc \cup TruncPc
    BY <1>4 DEF WritePc, TruncPc
  <2>2. AtRest(i)' /\ want' \in [Inodes -> Seq(Nat)]
    BY <1>0, <1>3, <1>4 DEF AtRest, Kept, Contents
  <2> QED BY <1>i, <1>0, <1>2, <1>3, <1>t, <1>4, <2>1, <2>2, ContentsInside
<1> DEFINE c == executeWriteChecksFS(t)
           Laid == want' = [want EXCEPT ![i] =
                     LET at == IF "APPEND" \in th[t].acc THEN Len(@) ELSE th[t].pos
                     IN  PosixWrite(@, at, SubSeq(Call(t).bytes, 1,
                                           Min({Len(Call(t).bytes), MaxFileSize - at})))]
<1>5. CASE /\ th'[t].pc = IF Early(i, c.off, c.n) THEN "wearly" ELSE HolePc(i, c.off)
           /\ c.n > 0 /\ th'[t].ret = c.n /\ th'[t].woff = c.off
           /\ th'[t].done = 0 /\ th'[t].obeg = 0 /\ th'[t].k = inode[i].isize
           /\ Laid
  <2>1. /\ c.off = IF "APPEND" \in th[t].acc THEN inode[i].isize ELSE th[t].pos
        /\ c.off \in Int /\ c.n \in Int
        /\ Call(t).bytes \in Seq(Nat)
        /\ c.n > 0 => /\ c.n <= Len(Call(t).bytes) /\ c.off + c.n <= MaxFileSize
                      /\ c.n = Min({Len(Call(t).bytes), MaxFileSize - c.off})
    BY <1>i, <1>0, WriteChecksRange
  <2>2. PICK at \in Int : at = c.off
    BY <2>1
  <2>3. PICK n \in Nat : n = c.n
    BY <1>5, <2>1
  <2>4. PICK bytes \in Seq(Nat) : bytes = Call(t).bytes
    BY <2>1
  <2> HIDE DEF c
  <2>5. n > 0 /\ n <= Len(bytes) /\ at + n <= MaxFileSize /\ n = Min({Len(bytes), MaxFileSize - at})
    BY <1>5, <2>1, <2>2, <2>3, <2>4
  <2>s. PICK size \in Nat : size = inode[i].isize
    BY <1>3, FSAssumption
  <2>6. /\ th'[t].ret = n /\ th'[t].woff = at /\ th'[t].done = 0 /\ th'[t].obeg = 0
        /\ th'[t].k = size /\ Call(t)'.bytes = bytes
        /\ th'[t].pc = IF Early(i, at, n) THEN "wearly" ELSE HolePc(i, at)
    BY <1>0, <1>5, <2>2, <2>3, <2>4, <2>s
  <2>7. size <= MaxFileSize /\ MaxFileSize \in Nat
    BY <1>3, <2>s, FSAssumption
  <2>8. /\ Len(want[i]) = size /\ inode[i].dsize = size
        /\ \A p \in Offsets : p < size => inode[i].data[p] = want[i][p + 1]
    BY <1>3, <2>s DEF AtRest, Kept
  <2>9. PICK m \in Nat : m = IF size >= at + n THEN size ELSE at + n
    OBVIOUS
  <2>10. /\ want' \in [Inodes -> Seq(Nat)] /\ \A j \in Inodes \ {i} : want'[j] = want[j]
         /\ Len(want'[i]) = m
         /\ \A k \in 1 .. m : want'[i][k] = IF k > at /\ k <= at + n THEN bytes[k - at]
                                            ELSE IF k <= size THEN want[i][k] ELSE 0
    <3>1. want \in [Inodes -> Seq(Nat)]
      BY DEF Contents
    <3>2. at = IF "APPEND" \in th[t].acc THEN Len(want[i]) ELSE th[t].pos
      BY <2>1, <2>2, <2>s, <2>8
    <3>3. want' = [want EXCEPT ![i] = PosixWrite(want[i], at, SubSeq(bytes, 1, n))]
      BY <1>5, <2>4, <2>5, <3>2
    <3>4. PICK w \in Seq(Nat) : w = want[i]
      BY <1>3
    <3>5. PICK s : s = PosixWrite(w, at, SubSeq(bytes, 1, n))
      OBVIOUS
    <3>6. n <= Len(bytes) /\ size = Len(w)
      BY <2>5, <2>8, <3>4
    <3>7. /\ PosixWrite(w, at, SubSeq(bytes, 1, n)) \in Seq(Nat)
          /\ Len(PosixWrite(w, at, SubSeq(bytes, 1, n)))
               = IF Len(w) >= at + n THEN Len(w) ELSE at + n
          /\ \A k \in 1 .. Len(PosixWrite(w, at, SubSeq(bytes, 1, n))) :
                PosixWrite(w, at, SubSeq(bytes, 1, n))[k]
                  = IF k > at /\ k <= at + n THEN bytes[k - at]
                    ELSE IF k <= Len(w) THEN w[k] ELSE 0
      BY <3>6, PosixWriteIs, ZenonT(60)
    <3>8. /\ s \in Seq(Nat) /\ Len(s) = m
          /\ \A k \in 1 .. Len(s) : s[k] = IF k > at /\ k <= at + n THEN bytes[k - at]
                                           ELSE IF k <= Len(w) THEN w[k] ELSE 0
      BY <2>9, <3>5, <3>6, <3>7
    <3>9. want' = [want EXCEPT ![i] = s]
      BY <3>3, <3>4, <3>5
    <3> QED BY <3>1, <3>4, <3>6, <3>8, <3>9
  <2>11. /\ th'[t].pc \in {"wearly", "whole", "wopen"} /\ (th'[t].pc = "wopen" => at <= size)
         /\ (th'[t].pc = "whole" => at > size) /\ (th'[t].pc = "wearly" => Early(i, at, n))
    BY <2>6, <2>s DEF HolePc, readInodeSizeFS
  <2>12. th'[t].pc \in WritePc /\ th'[t].pc \notin TruncPc
    BY <2>11 DEF WritePc, TruncPc
  <2>13. \A p : Pending(t, p)' <=> at <= p /\ p < at + n
    <3>1. Upto(t)' = 0
      BY <2>6, <2>11 DEF Upto, BlockPc
    <3> QED BY <2>6, <3>1 DEF Pending
  <2>14. \A p : Hollow(t, p)' <=> th'[t].pc # "wopen" /\ size <= p /\ p < at
    <3>1. th'[t].pc \in ZeroPc <=> th'[t].pc # "wopen"
      BY <2>11 DEF ZeroPc
    <3>2. th'[t].ino = i /\ inode'[i].isize = size /\ th'[t].woff = at /\ th'[t].k = size
      BY <1>0, <2>6, <2>s
    <3> QED BY <3>1, <3>2 DEF Hollow
  <2>15. Progress(t)'
    BY <1>0, <2>5, <2>6, <2>11 DEF Progress, ZeroPc, BlockPc
  <2>16. DataOnTheWay(t)'
    <3>1. ASSUME NEW p \in Offsets, p < m, ~(at <= p /\ p < at + n),
                 ~(th'[t].pc # "wopen" /\ size <= p /\ p < at)
          PROVE  inode'[i].data[p] = want'[i][p + 1]
      <4>1. p \in Nat /\ p + 1 \in 1 .. m /\ ~(p + 1 > at /\ p + 1 <= at + n) /\ p < size
        BY <2>9, <2>11, <3>1, OffsetsNat
      <4>2. want'[i][p + 1] = want[i][p + 1]
        BY <2>10, <4>1
      <4> QED BY <1>0, <2>8, <4>1, <4>2
    <3>2. ASSUME NEW p \in Offsets, at <= p, p < at + n
          PROVE  want'[i][p + 1] = bytes[p - at + 1]
      <4>1. p \in Nat /\ p + 1 \in 1 .. m /\ p + 1 > at /\ p + 1 <= at + n
            /\ p + 1 - at = p - at + 1
        BY <2>9, <3>2, OffsetsNat
      <4> QED BY <2>10, <4>1
    <3>3. ASSUME NEW p \in Offsets, size <= p, p < at PROVE want'[i][p + 1] = 0
      <4>1. p \in Nat /\ p + 1 \in 1 .. m /\ ~(p + 1 > at /\ p + 1 <= at + n) /\ ~(p + 1 <= size)
        BY <2>9, <3>3, OffsetsNat
      <4> QED BY <2>10, <4>1
    <3>4. Len(want'[i]) = IF inode'[i].isize >= th'[t].woff + th'[t].ret
                          THEN inode'[i].isize ELSE th'[t].woff + th'[t].ret
      BY <1>0, <2>6, <2>9, <2>10, <2>s
    <3> QED BY <1>0, <2>6, <2>10, <2>13, <2>14, <3>1, <3>2, <3>3, <3>4 DEF DataOnTheWay
  <2>17. ZeroesOnTheWay(t)'
    <3>1. /\ th'[t].ino = i /\ inode'[i].isize = size /\ inode'[i].dsize = size
          /\ th'[t].k = size /\ th'[t].woff = at /\ th'[t].ret = n /\ inode'[i].data = inode[i].data
      BY <1>0, <2>6, <2>s, <2>8
    <3>2. EarlySize(t)' = newDisksize(size, at, n)
      BY <3>1 DEF EarlySize, readInodeSizeFS
    <3>3. CASE th'[t].pc = "wearly"
      <4>1. shouldUpdateInodeDisksizeFS(size, at, n)
        BY <2>11, <2>s, <3>3 DEF Early
      <4>2. PICK new : new = newDisksize(size, at, n)
        OBVIOUS
      <4>3. new \in Nat /\ size < new /\ new <= at + n /\ new <= BlockEnd(size)
        BY <2>5, <4>1, <4>2, EarlyRange
      <4>4. Zeroed(i, size, size)'
        BY OffsetsNat DEF Zeroed
      <4> QED BY <3>1, <3>2, <3>3, <4>2, <4>3, <4>4 DEF ZeroesOnTheWay
    <3>4. CASE th'[t].pc # "wearly"
      BY <2>11, <3>1, <3>4 DEF ZeroesOnTheWay
    <3> QED BY <3>3, <3>4
  <2>18. SizeOnTheWay(t)'
    BY <1>0, <2>6, <2>8, <2>11, <2>s DEF SizeOnTheWay
  <2> QED BY <1>i, <1>0, <1>2, <1>3, <1>t, <2>10, <2>12, <2>15, <2>16, <2>17, <2>18, ContentsInside
<1> QED BY <1>i, <1>4, <1>5, WriteChecksEffect

(* What a writer in the middle of its write knows.                         *)
LEMMA Writer ==
    ASSUME Typed, Locked, Contents, NEW t \in Threads, th[t].pc \in WritePc
    PROVE  /\ Progress(t) /\ DataOnTheWay(t) /\ ZeroesOnTheWay(t) /\ SizeOnTheWay(t)
           /\ th[t].woff \in Int /\ th[t].done \in Int /\ th[t].ret \in Int
           /\ th[t].blk \in Int /\ th[t].k \in Int /\ th[t].obeg \in Int
           /\ Call(t).bytes \in Seq(Nat) /\ th[t].pc \in InoPc
<1>1. ThreadOK(t) /\ th[t].pc \in InoPc
  BY DEF Typed, InoPc, WritePc
<1>2. th[t].todo # <<>> /\ th[t].todo \in Seq(CallType) /\ Call(t).op \in {"write", "pwrite"}
  BY <1>1 DEF ThreadOK, OpAgrees, WritePc
<1>3. Call(t).bytes \in Seq(Nat)
  BY <1>2, Arguments DEF Call
<1> QED BY <1>1, <1>3 DEF ThreadOK, Contents, WritesOnTheWay

(* The data of a write once more, for a step that changes one byte, or the *)
(* set of bytes still to be zeroed.                                        *)
DataAt(t, i, w, r, isz) ==
    /\ w = th[t].woff /\ r = th[t].ret /\ isz = inode[i].isize /\ i = th[t].ino
    /\ Len(want[i]) = IF isz >= w + r THEN isz ELSE w + r
    /\ \A p \in Offsets :
          /\ p < Len(want[i]) /\ ~Pending(t, p) /\ ~Hollow(t, p)
                => inode[i].data[p] = want[i][p + 1]
          /\ Pending(t, p) => want[i][p + 1] = Call(t).bytes[p - w + 1]
          /\ Hollow(t, p) => want[i][p + 1] = 0

LEMMA DataNow ==
    ASSUME Typed, Locked, Contents, NEW t \in Threads, th[t].pc \in WritePc
    PROVE  \E i \in Inodes, w \in Int, r \in Int, isz \in Nat : DataAt(t, i, w, r, isz)
<1>1. th[t].woff \in Int /\ th[t].ret \in Int /\ DataOnTheWay(t) /\ th[t].pc \in InoPc
  BY Writer
<1>2. th[t].ino \in Inodes /\ inode[th[t].ino].isize \in Nat
  BY <1>1, Holder, FSAssumption
<1>3. DataAt(t, th[t].ino, th[t].woff, th[t].ret, inode[th[t].ino].isize)
  BY <1>1 DEF DataOnTheWay, DataAt
<1> QED BY <1>1, <1>2, <1>3

LEMMA ContentsZeroEarly ==
    ASSUME Typed, Locked, Contents, NEW t \in Threads, ZeroEarly(t)
    PROVE  Contents'
<1>0. th[t].pc = "wearly" /\ zeroDskRangeFS(t, EarlySize(t), "wraise")
  BY DEF ZeroEarly, At
<1>1. want' = want /\ mdwrite' = mdwrite /\ mode' = mode
  BY <1>0 DEF zeroDskRangeFS, history
<1>2. th[t].pc \in WritePc /\ th[t].pc \in ZeroPc
  BY <1>0 DEF WritePc, ZeroPc
<1>i. PICK i \in Inodes, w \in Int, r \in Int, isz \in Nat : DataAt(t, i, w, r, isz)
  BY <1>2, DataNow
<1>a. i = th[t].ino /\ w = th[t].woff /\ r = th[t].ret /\ isz = inode[i].isize
  BY <1>i DEF DataAt
<1>3. /\ Progress(t) /\ ZeroesOnTheWay(t) /\ SizeOnTheWay(t) /\ th[t].k \in Int
      /\ Call(t).bytes \in Seq(Nat) /\ th[t].pc \in InoPc
  BY <1>2, Writer
<1>4. /\ inode[i].isize \in 0 .. MaxFileSize /\ inode[i].dsize \in 0 .. MaxFileSize
      /\ \A k \in Offsets : k < inode[i].dsize => inode[i].data[k] # Fresh
  BY <1>a, <1>3, Holder
<1>e. EarlySize(t) \in Int
  <2>1. EarlySize(t) = newDisksize(isz, w, r)
    BY <1>a DEF EarlySize, readInodeSizeFS
  <2> QED BY <2>1, NewDisksize
<1>5. PICK k \in Int, e \in Int : k = th[t].k /\ e = EarlySize(t)
  BY <1>3, <1>e
<1>6. /\ OneMoved(t) /\ Call(t)' = Call(t) /\ th'[t].k = k + 1 /\ th'[t].ino = i
      /\ th'[t].woff = w /\ th'[t].ret = r /\ th'[t].done = th[t].done /\ th'[t].obeg = th[t].obeg
      /\ th'[t].pc = IF k + 1 = e THEN "wraise" ELSE "wearly"
      /\ Touched(i, {"data"}) /\ inode'[i].data = [inode[i].data EXCEPT ![k] = 0]
  BY <1>a, <1>0, <1>5, ZeroEffect DEF ThreadFields
<1>7. /\ inode[i].dsize = isz /\ isz < e /\ e <= w + r /\ e <= BlockEnd(isz)
      /\ isz <= k /\ k < e /\ Zeroed(i, isz, k)
  BY <1>a, <1>0, <1>3, <1>5 DEF ZeroesOnTheWay
<1>8. /\ \A p \in Offsets : inode'[i].data[p] = IF p = k THEN 0 ELSE inode[i].data[p]
      /\ inode'[i].isize = isz /\ inode'[i].dsize = inode[i].dsize
  <2>1. inode'[i].data = [inode[i].data EXCEPT ![k] = 0] /\ inode[i].data \in [Offsets -> Int]
    BY <1>6 DEF Typed, ShapesOK, InodeType
  <2>2. \A p \in Offsets : inode'[i].data[p] = IF p = k THEN 0 ELSE inode[i].data[p]
    BY <2>1
  <2> QED BY <1>a, <1>6, <2>2 DEF Touched, InodeFields
<1>9. th'[t].pc \in {"wearly", "wraise"}
  BY <1>6
<1>10. th'[t].pc \in WritePc /\ th'[t].pc \in ZeroPc /\ th'[t].pc \notin TruncPc \cup BlockPc
  BY <1>9 DEF WritePc, ZeroPc, TruncPc, BlockPc
<1>11. Progress(t)'
  BY <1>a, <1>2, <1>3, <1>6, <1>10 DEF Progress
<1>d. th[t].done = 0
  BY <1>2, <1>3 DEF Progress
<1>12. \A p : (Pending(t, p) <=> w <= p /\ p < w + r) /\ (Hollow(t, p) <=> isz <= p /\ p < w)
  <2>1. Upto(t) = 0
    BY <1>0, <1>d DEF Upto, BlockPc
  <2> QED BY <1>a, <1>0, <1>2, <2>1 DEF Pending, Hollow
<1>13. \A p : (Pending(t, p)' <=> w <= p /\ p < w + r) /\ (Hollow(t, p)' <=> isz <= p /\ p < w)
  <2>1. Upto(t)' = 0
    BY <1>6, <1>10, <1>d, SMTT(40) DEF Upto
  <2> QED BY <1>6, <1>8, <1>9, <1>10, <2>1 DEF Pending, Hollow
<1>14. DataOnTheWay(t)'
  <2>1. ASSUME NEW p \in Offsets, ~(w <= p /\ p < w + r), ~(isz <= p /\ p < w)
        PROVE  inode'[i].data[p] = inode[i].data[p]
    BY <1>7, <1>8, <2>1, OffsetsNat
  <2> QED BY <1>i, <1>1, <1>6, <1>8, <1>12, <1>13, <2>1 DEF DataOnTheWay, DataAt
<1>15. EarlySize(t)' = e
  BY <1>a, <1>5, <1>6, <1>8 DEF EarlySize, readInodeSizeFS
<1>16. Zeroed(i, isz, k + 1)'
  <2>1. \A p \in Offsets : isz <= p /\ p < k => inode[i].data[p] = 0
    BY <1>7 DEF Zeroed
  <2> QED BY <1>7, <1>8, <2>1, OffsetsNat DEF Zeroed
<1>17. ZeroesOnTheWay(t)'
  <2>1. CASE k + 1 = e
    BY <1>6, <1>7, <1>8, <1>15, <1>16, <2>1 DEF ZeroesOnTheWay
  <2>2. CASE k + 1 # e
    BY <1>6, <1>7, <1>8, <1>15, <1>16, <2>2 DEF ZeroesOnTheWay
  <2> QED BY <2>1, <2>2
<1>18. SizeOnTheWay(t)'
  BY <1>a, <1>3, <1>6, <1>7, <1>8, <1>9 DEF SizeOnTheWay
<1>19. \A p \in Offsets : p < inode'[i].dsize => inode'[i].data[p] # Fresh
  BY <1>4, <1>8 DEF Fresh
<1>20. OrderedDataCovers' /\ want' \in [Inodes -> Seq(Nat)]
  BY <1>1, OrderKept DEF Contents
<1> QED BY <1>a, <1>1, <1>3, <1>4, <1>6, <1>8, <1>10, <1>11, <1>14, <1>17, <1>18, <1>19, <1>20,
           ContentsInside

LEMMA ContentsRaiseEarly ==
    ASSUME Typed, Locked, Contents, NEW t \in Threads, RaiseEarly(t)
    PROVE  Contents'
<1>0. th[t].pc = "wraise"
  BY DEF RaiseEarly, At
<1>1. want' = want /\ mode' = mode
  BY DEF RaiseEarly
<1>2. th[t].pc \in WritePc /\ th[t].pc \in ZeroPc
  BY <1>0 DEF WritePc, ZeroPc
<1>i. PICK i \in Inodes, w \in Int, r \in Int, isz \in Nat : DataAt(t, i, w, r, isz)
  BY <1>2, DataNow
<1>a. i = th[t].ino /\ w = th[t].woff /\ r = th[t].ret /\ isz = inode[i].isize
  BY <1>i DEF DataAt
<1>3. /\ Progress(t) /\ ZeroesOnTheWay(t) /\ SizeOnTheWay(t)
      /\ Call(t).bytes \in Seq(Nat) /\ th[t].pc \in InoPc
  BY <1>2, Writer
<1>4. /\ inode[i].isize \in 0 .. MaxFileSize /\ inode[i].dsize \in 0 .. MaxFileSize
      /\ \A k \in Offsets : k < inode[i].dsize => inode[i].data[k] # Fresh
  BY <1>a, <1>3, Holder
<1>e. EarlySize(t) \in Int
  <2>1. EarlySize(t) = newDisksize(isz, w, r)
    BY <1>a DEF EarlySize, readInodeSizeFS
  <2> QED BY <2>1, NewDisksize
<1>5. PICK e \in Int : e = EarlySize(t)
  BY <1>e
<1>6. /\ OneMoved(t) /\ Call(t)' = Call(t) /\ th'[t].k = isz /\ th'[t].ino = i
      /\ th'[t].woff = w /\ th'[t].ret = r /\ th'[t].done = th[t].done /\ th'[t].obeg = th[t].obeg
      /\ th'[t].pc = HolePc(i, w)
      /\ Touched(i, {"dsize"}) /\ inode'[i].dsize = e
      /\ updateInodeDisksizeFS(i, e, isz, e)
  BY <1>a, <1>5, RaiseEarlyEffect DEF ThreadFields
<1>7. /\ inode[i].dsize = isz /\ isz < e /\ e <= w + r /\ e <= BlockEnd(isz)
      /\ Zeroed(i, isz, e)
  BY <1>a, <1>0, <1>3, <1>5 DEF ZeroesOnTheWay
<1>8. inode'[i].data = inode[i].data /\ inode'[i].isize = isz
  BY <1>a, <1>6 DEF Touched, InodeFields
<1>9. \/ th'[t].pc = "whole" /\ w > isz
      \/ th'[t].pc = "wopen" /\ ~(w > isz)
  BY <1>a, <1>6 DEF HolePc, readInodeSizeFS
<1>10. th'[t].pc \in WritePc /\ th'[t].pc \notin TruncPc \cup BlockPc
  BY <1>9 DEF WritePc, TruncPc, BlockPc
<1>d. th[t].done = 0 /\ th[t].obeg = 0 /\ w + r <= MaxFileSize
  BY <1>a, <1>2, <1>3 DEF Progress
<1>11. Progress(t)'
  BY <1>a, <1>d, <1>3, <1>6, <1>10 DEF Progress
<1>12. \A p : (Pending(t, p) <=> w <= p /\ p < w + r) /\ (Hollow(t, p) <=> isz <= p /\ p < w)
  <2>1. Upto(t) = 0
    BY <1>0, <1>d DEF Upto, BlockPc
  <2> QED BY <1>a, <1>0, <1>2, <2>1 DEF Pending, Hollow
<1>13. \A p \in Offsets : (Pending(t, p)' <=> w <= p /\ p < w + r)
                           /\ (Hollow(t, p)' <=> isz <= p /\ p < w)
  <2>1. Upto(t)' = 0
    BY <1>6, <1>10, <1>d DEF Upto
  <2>2. \A p : Pending(t, p)' <=> w <= p /\ p < w + r
    BY <1>6, <2>1 DEF Pending
  <2>3. CASE th'[t].pc = "whole"
    BY <1>6, <1>8, <2>2, <2>3 DEF Hollow, ZeroPc
  <2>4. CASE th'[t].pc = "wopen"
    BY <1>6, <1>8, <1>9, <2>2, <2>4, OffsetsNat DEF Hollow, ZeroPc
  <2> QED BY <1>9, <2>3, <2>4
<1>14. DataOnTheWay(t)'
  BY <1>i, <1>1, <1>6, <1>8, <1>12, <1>13 DEF DataOnTheWay, DataAt
<1>17. ZeroesOnTheWay(t)'
  BY <1>6, <1>8, <1>9 DEF ZeroesOnTheWay
<1>18. SizeOnTheWay(t)'
  BY <1>d, <1>6, <1>7, <1>8, <1>9 DEF SizeOnTheWay
<1>19. ASSUME NEW p \in Offsets, p < inode'[i].dsize PROVE inode'[i].data[p] # Fresh
  <2>1. CASE p < isz
    BY <1>4, <1>7, <1>8, <2>1
  <2>2. CASE ~(p < isz)
    <3>1. inode[i].data[p] = 0
      BY <1>6, <1>7, <1>19, <2>2, OffsetsNat DEF Zeroed
    <3> QED BY <1>8, <3>1 DEF Fresh
  <2> QED BY <2>1, <2>2
<1>20. OrderedDataCovers'
  BY <1>1, <1>6, <1>7, OrderedUpdate
<1>21. want' \in [Inodes -> Seq(Nat)] /\ inode'[i].dsize \in 0 .. MaxFileSize
  BY <1>1, <1>d, <1>6, <1>7, FSAssumption DEF Contents
<1> QED BY <1>a, <1>1, <1>3, <1>4, <1>6, <1>8, <1>10, <1>11, <1>14, <1>17, <1>18, <1>19, <1>20,
           <1>21, ContentsInside

LEMMA ContentsZeroHole ==
    ASSUME Typed, Locked, Contents, NEW t \in Threads, ZeroHole(t)
    PROVE  Contents'
<1>0. th[t].pc = "whole" /\ zeroDskRangeFS(t, th[t].woff, "wopen")
  BY DEF ZeroHole, At
<1>1. want' = want /\ mdwrite' = mdwrite /\ mode' = mode
  BY <1>0 DEF zeroDskRangeFS, history
<1>2. th[t].pc \in WritePc /\ th[t].pc \in ZeroPc
  BY <1>0 DEF WritePc, ZeroPc
<1>i. PICK i \in Inodes, w \in Int, r \in Int, isz \in Nat : DataAt(t, i, w, r, isz)
  BY <1>2, DataNow
<1>a. i = th[t].ino /\ w = th[t].woff /\ r = th[t].ret /\ isz = inode[i].isize
  BY <1>i DEF DataAt
<1>3. /\ Progress(t) /\ ZeroesOnTheWay(t) /\ SizeOnTheWay(t) /\ th[t].k \in Int
      /\ Call(t).bytes \in Seq(Nat) /\ th[t].pc \in InoPc
  BY <1>2, Writer
<1>4. /\ inode[i].isize \in 0 .. MaxFileSize /\ inode[i].dsize \in 0 .. MaxFileSize
      /\ \A k \in Offsets : k < inode[i].dsize => inode[i].data[k] # Fresh
  BY <1>a, <1>3, Holder
<1>5. PICK k \in Int : k = th[t].k
  BY <1>3
<1>6. /\ OneMoved(t) /\ Call(t)' = Call(t) /\ th'[t].k = k + 1 /\ th'[t].ino = i
      /\ th'[t].woff = w /\ th'[t].ret = r /\ th'[t].done = th[t].done /\ th'[t].obeg = th[t].obeg
      /\ th'[t].pc = IF k + 1 = w THEN "wopen" ELSE "whole"
      /\ Touched(i, {"data"}) /\ inode'[i].data = [inode[i].data EXCEPT ![k] = 0]
  BY <1>a, <1>0, <1>5, ZeroEffect DEF ThreadFields
<1>7. isz <= k /\ k < w
  BY <1>a, <1>0, <1>3, <1>5 DEF ZeroesOnTheWay
<1>8. /\ \A p \in Offsets : inode'[i].data[p] = IF p = k THEN 0 ELSE inode[i].data[p]
      /\ inode'[i].isize = isz /\ inode'[i].dsize = inode[i].dsize
  <2>1. inode'[i].data = [inode[i].data EXCEPT ![k] = 0] /\ inode[i].data \in [Offsets -> Int]
    BY <1>6 DEF Typed, ShapesOK, InodeType
  <2>2. \A p \in Offsets : inode'[i].data[p] = IF p = k THEN 0 ELSE inode[i].data[p]
    BY <2>1
  <2> QED BY <1>a, <1>6, <2>2 DEF Touched, InodeFields
<1>10. th'[t].pc \in WritePc /\ th'[t].pc \notin TruncPc \cup BlockPc \cup {"wearly", "wraise", "wsize", "wclose"}
  BY <1>6 DEF WritePc, TruncPc, BlockPc
<1>d. th[t].done = 0 /\ th[t].obeg = 0
  BY <1>2, <1>3 DEF Progress
<1>11. Progress(t)'
  BY <1>a, <1>d, <1>3, <1>6, <1>10 DEF Progress
<1>12. \A p : (Pending(t, p) <=> w <= p /\ p < w + r)
             /\ (Hollow(t, p) <=> isz <= p /\ p < w /\ k <= p)
  <2>1. Upto(t) = 0
    BY <1>0, <1>d DEF Upto, BlockPc
  <2> QED BY <1>a, <1>0, <1>2, <1>5, <2>1 DEF Pending, Hollow
<1>13. \A p \in Offsets : (Pending(t, p)' <=> w <= p /\ p < w + r)
             /\ (Hollow(t, p)' <=> isz <= p /\ p < w /\ k + 1 <= p)
  <2>1. Upto(t)' = 0
    BY <1>6, <1>10, <1>d DEF Upto
  <2>2. \A p : Pending(t, p)' <=> w <= p /\ p < w + r
    BY <1>6, <2>1 DEF Pending
  <2>3. CASE k + 1 # w
    BY <1>6, <1>8, <2>2, <2>3 DEF Hollow, ZeroPc
  <2>4. CASE k + 1 = w
    BY <1>6, <1>8, <2>2, <2>4, OffsetsNat DEF Hollow, ZeroPc
  <2> QED BY <2>3, <2>4
<1>14. DataOnTheWay(t)'
  <2>1. ASSUME NEW p \in Offsets, p < Len(want[i]), ~Pending(t, p)', ~Hollow(t, p)'
        PROVE  inode'[i].data[p] = want[i][p + 1]
    <3>1. CASE p = k
      <4>1. Hollow(t, p)
        BY <1>7, <1>12, <3>1
      <4>2. want[i][p + 1] = 0
        BY <1>i, <4>1 DEF DataAt
      <4> QED BY <1>8, <3>1, <4>2
    <3>2. CASE p # k
      <4>1. ~Pending(t, p) /\ ~Hollow(t, p)
        BY <1>12, <1>13, <2>1, <3>2, OffsetsNat
      <4> QED BY <1>i, <1>8, <2>1, <3>2, <4>1 DEF DataAt
    <3> QED BY <3>1, <3>2
  <2>2. ASSUME NEW p \in Offsets PROVE (Pending(t, p)' => Pending(t, p)) /\ (Hollow(t, p)' => Hollow(t, p))
    BY <1>12, <1>13, OffsetsNat
  <2>3. \A p \in Offsets : /\ Pending(t, p)' => want[i][p + 1] = Call(t).bytes[p - w + 1]
                           /\ Hollow(t, p)' => want[i][p + 1] = 0
    BY <1>i, <2>2 DEF DataAt
  <2>4. Len(want[i]) = IF isz >= w + r THEN isz ELSE w + r
    BY <1>i DEF DataAt
  <2> QED BY <1>1, <1>6, <1>8, <2>1, <2>3, <2>4 DEF DataOnTheWay
<1>17. ZeroesOnTheWay(t)'
  BY <1>6, <1>7, <1>8, <1>10 DEF ZeroesOnTheWay
<1>18. SizeOnTheWay(t)'
  BY <1>a, <1>0, <1>3, <1>6, <1>8, <1>10 DEF SizeOnTheWay
<1>19. \A p \in Offsets : p < inode'[i].dsize => inode'[i].data[p] # Fresh
  BY <1>4, <1>8 DEF Fresh
<1>20. OrderedDataCovers' /\ want' \in [Inodes -> Seq(Nat)]
  BY <1>1, OrderKept DEF Contents
<1> QED BY <1>a, <1>1, <1>3, <1>4, <1>6, <1>8, <1>10, <1>11, <1>14, <1>17, <1>18, <1>19, <1>20,
           ContentsInside

LEMMA ContentsBlockOpen ==
    ASSUME Typed, Locked, Contents, NEW t \in Threads, BlockOpen(t)
    PROVE  Contents'
<1>i. PICK i \in Inodes : i = th[t].ino
  BY DEF Typed, ThreadOK
<1>0. /\ OneMoved(t) /\ Call(t)' = Call(t) /\ th[t].pc = "wopen" /\ th'[t].pc = "wbytes"
      /\ th'[t].blk = Chunk(th[t].woff + th[t].done, th[t].ret - th[t].done) /\ th'[t].k = 0
      /\ th'[t].ino = i /\ th'[t].woff = th[t].woff /\ th'[t].done = th[t].done
      /\ th'[t].ret = th[t].ret /\ th'[t].obeg = th[t].obeg
      /\ Touched(i, {"trans"})
  BY <1>i, BlockOpenEffect DEF ThreadFields
<1>1. UNCHANGED <<want, mdwrite, mode>>
  BY DEF BlockOpen, history
<1>2. th[t].pc \in InoPc /\ th[t].pc \in WritePc /\ th'[t].pc \in WritePc /\ th'[t].pc \notin TruncPc
  BY <1>0 DEF InoPc, WritePc, TruncPc
<1>3. /\ inode[i].lock = t /\ inode[i].made /\ want[i] \in Seq(Nat)
      /\ inode[i].isize \in 0 .. MaxFileSize /\ inode[i].dsize \in 0 .. MaxFileSize
      /\ \A k \in Offsets : k < inode[i].dsize => inode[i].data[k] # Fresh
  BY <1>i, <1>2, Holder
<1>4. /\ \A j \in Inodes \ {i} : inode'[j] = inode[j]
      /\ inode'[i].isize = inode[i].isize /\ inode'[i].dsize = inode[i].dsize
      /\ inode'[i].data = inode[i].data
  BY <1>0 DEF Touched, InodeFields
<1>5. /\ Progress(t) /\ DataOnTheWay(t) /\ SizeOnTheWay(t) /\ th[t].done + 0 = th[t].done
      /\ th[t].woff \in Int /\ th[t].done \in Int /\ th[t].ret \in Int
  BY <1>2, Writer
<1>6. Progress(t)'
  <2>1. PICK at \in Int, left \in Int :
           at = th[t].woff + th[t].done /\ left = th[t].ret - th[t].done
    BY <1>5
  <2>2. /\ 0 <= th[t].done /\ th[t].done <= th[t].ret
        /\ th[t].ret <= Len(Call(t).bytes) /\ th[t].woff + th[t].ret <= MaxFileSize
    BY <1>5 DEF Progress
  <2>3. left >= 0
    BY <1>5, <2>1, <2>2
  <2>4. PICK b \in Int : b = Chunk(at, left)
    BY ChunkBounds
  <2>5. 0 <= b /\ b <= left
    BY <2>3, <2>4, ChunkBounds
  <2>6. b = left \/ (at + b) % BlockSize = 0
    BY <2>3, <2>4, ChunkBounds
  <2>7. th'[t].blk = b
    BY <1>0, <2>1, <2>4
  <2>8. 0 <= th'[t].k /\ th'[t].k <= th'[t].blk /\ th'[t].done + th'[t].blk <= th'[t].ret
    BY <1>0, <1>5, <2>1, <2>5, <2>7
  <2>9. \/ th'[t].done + th'[t].blk = th'[t].ret
        \/ (th'[t].woff + th'[t].done + th'[t].blk) % BlockSize = 0
    <3>1. CASE b = left
      BY <1>0, <1>5, <2>1, <2>7, <3>1
    <3>2. CASE (at + b) % BlockSize = 0
      <4>1. th'[t].woff + th'[t].done + th'[t].blk = at + b
        <5>1. th'[t].woff = th[t].woff /\ th'[t].done = th[t].done
          BY <1>0
        <5> QED BY <2>1, <2>7, <5>1
      <4> QED BY <3>2, <4>1
    <3> QED BY <2>6, <3>1, <3>2
  <2> QED BY <1>0, <2>2, <2>8, <2>9, Zenon DEF Progress, ZeroPc, BlockPc
<1>7. \A p : (Pending(t, p)' <=> Pending(t, p)) /\ ~Hollow(t, p) /\ ~Hollow(t, p)'
  <2>1. th[t].pc \notin ZeroPc /\ th'[t].pc \notin ZeroPc
    BY <1>0 DEF ZeroPc
  <2>2. Upto(t)' = Upto(t)
    BY <1>0, <1>5 DEF Upto, BlockPc
  <2> QED BY <1>0, <2>1, <2>2 DEF Pending, Hollow
<1>8. DataOnTheWay(t)'
  BY <1>i, <1>0, <1>1, <1>4, <1>5, <1>7 DEF DataOnTheWay
<1>9. (ZeroesOnTheWay(t) /\ SizeOnTheWay(t))'
  BY <1>i, <1>0, <1>4, <1>5 DEF SizeOnTheWay, ZeroesOnTheWay
<1>11. want' \in [Inodes -> Seq(Nat)] /\ OrderedDataCovers'
  BY <1>1, OrderKept DEF Contents
<1>12. /\ inode'[i].isize \in 0 .. MaxFileSize /\ inode'[i].dsize \in 0 .. MaxFileSize
       /\ \A k \in Offsets : k < inode'[i].dsize => inode'[i].data[k] # Fresh
       /\ \A j \in Inodes \ {i} : want'[j] = want[j]
  BY <1>1, <1>3, <1>4
<1>13. OneMoved(t) /\ Touched(i, {"trans"}) /\ {"trans"} \in SUBSET {"isize", "dsize", "trans", "data"}
  BY <1>0
<1> QED BY <1>i, <1>2, <1>6, <1>8, <1>9, <1>11, <1>12, <1>13, ContentsInside

LEMMA ContentsByte ==
    ASSUME Typed, Locked, Contents, NEW t \in Threads, WriteByte(t)
    PROVE  Contents'
<1>i. PICK i \in Inodes : i = th[t].ino
  BY DEF Typed, ThreadOK
<1>w. WritesOnTheWay
  BY DEF Contents
<1>0. /\ OneMoved(t) /\ Call(t)' = Call(t) /\ th[t].pc = "wbytes" /\ th'[t].pc = "wbytes"
      /\ th[t].k < th[t].blk /\ th'[t].k = th[t].k + 1 /\ th'[t].blk = th[t].blk
      /\ th'[t].ino = i /\ th'[t].woff = th[t].woff /\ th'[t].done = th[t].done
      /\ th'[t].ret = th[t].ret /\ th'[t].obeg = th[t].obeg
      /\ Touched(i, {"data"})
      /\ th[t].done + th[t].k + 1 \in 1 .. Len(Call(t).bytes)
      /\ inode'[i].data = [inode[i].data EXCEPT ![th[t].woff + th[t].done + th[t].k]
                             = Call(t).bytes[th[t].done + th[t].k + 1]]
  BY <1>i, <1>w, WriteByteEffect DEF ThreadFields
<1>1. UNCHANGED <<want, mdwrite, mode>>
  BY DEF WriteByte, history
<1>2. th[t].pc \in InoPc /\ th[t].pc \in WritePc /\ th'[t].pc \in WritePc /\ th'[t].pc \notin TruncPc
  BY <1>0 DEF InoPc, WritePc, TruncPc
<1>3. /\ inode[i].lock = t /\ inode[i].made /\ want[i] \in Seq(Nat) /\ inode[i] \in InodeType
      /\ inode[i].isize \in 0 .. MaxFileSize /\ inode[i].dsize \in 0 .. MaxFileSize
      /\ \A k \in Offsets : k < inode[i].dsize => inode[i].data[k] # Fresh
  BY <1>i, <1>2, Holder
<1>4. /\ \A j \in Inodes \ {i} : inode'[j] = inode[j]
      /\ inode'[i].made = inode[i].made /\ inode'[i].lock = inode[i].lock
      /\ inode'[i].isize = inode[i].isize /\ inode'[i].dsize = inode[i].dsize
  BY <1>0 DEF Touched, InodeFields
<1>5. /\ Progress(t) /\ DataOnTheWay(t) /\ SizeOnTheWay(t)
      /\ th[t].woff \in Int /\ th[t].done \in Int /\ th[t].ret \in Int
      /\ th[t].blk \in Int /\ th[t].k \in Int /\ Call(t).bytes \in Seq(Nat)
  BY <1>2, Writer
<1>6. /\ 0 <= th[t].done /\ th[t].done <= th[t].ret
      /\ th[t].woff + th[t].ret <= MaxFileSize
      /\ 0 <= th[t].k /\ th[t].k <= th[t].blk
      /\ th[t].done + th[t].blk <= th[t].ret /\ th[t].k < th[t].blk
  BY <1>0, <1>5, Zenon DEF Progress, ZeroPc, BlockPc
<1>7. Progress(t)'
  <2>1. 0 <= th[t].k + 1 /\ th[t].k + 1 <= th[t].blk
    <3>1. th[t].k \in Int /\ th[t].blk \in Int /\ 0 <= th[t].k /\ th[t].k < th[t].blk
      BY <1>5, <1>6
    <3> QED BY <3>1
  <2>2. /\ th[t].ret <= Len(Call(t).bytes)
        /\ \/ th[t].done + th[t].blk = th[t].ret
           \/ (th[t].woff + th[t].done + th[t].blk) % BlockSize = 0
    BY <1>0, <1>5, Zenon DEF Progress, ZeroPc, BlockPc
  <2>3. 0 <= th'[t].k /\ th'[t].k <= th'[t].blk
    BY <1>0, <2>1
  <2> QED BY <1>0, <1>6, <2>2, <2>3, Zenon DEF Progress, ZeroPc, BlockPc
<1>8. PICK at \in Int : at = th[t].woff + th[t].done + th[t].k
  BY <1>5
<1>9. PICK b \in Nat : b = Call(t).bytes[th[t].done + th[t].k + 1]
  BY <1>0, <1>5
<1>10. inode'[i].data = [inode[i].data EXCEPT ![at] = b] /\ inode[i].data \in [Offsets -> Int]
  BY <1>0, <1>3, <1>8, <1>9 DEF InodeType
<1>11. \A p \in Offsets : inode'[i].data[p] = IF p = at THEN b ELSE inode[i].data[p]
  BY <1>10
<1>12. \A p \in Offsets : p \in Int
  BY FSAssumption DEF Offsets
<1>13. Pending(t, at) /\ at - th[t].woff + 1 = th[t].done + th[t].k + 1
  <2>1. Upto(t) = th[t].done + th[t].k
    BY <1>0 DEF Upto, BlockPc
  <2>2. th[t].woff + (th[t].done + th[t].k) <= at /\ at < th[t].woff + th[t].ret
    <3>1. PICK w \in Int, d \in Int, k \in Int, r \in Int, l \in Int :
             w = th[t].woff /\ d = th[t].done /\ k = th[t].k /\ r = th[t].ret /\ l = th[t].blk
      BY <1>5
    <3>2. at = w + d + k /\ d + l <= r /\ k < l
      BY <1>6, <1>8, <3>1
    <3>3. w + (d + k) <= at /\ at < w + r
      BY <3>2
    <3> QED BY <3>1, <3>3
  <2>3. at - th[t].woff + 1 = th[t].done + th[t].k + 1
    BY <1>5, <1>8
  <2> QED BY <2>1, <2>2, <2>3 DEF Pending
<1>14. \A p \in Int : Pending(t, p)' <=> Pending(t, p) /\ p # at
  <2>1. PICK w \in Int, d \in Int, k \in Int, r \in Int :
           w = th[t].woff /\ d = th[t].done /\ k = th[t].k /\ r = th[t].ret
    BY <1>5
  <2>2. \A p : Pending(t, p) <=> w + (d + k) <= p /\ p < w + r
    BY <1>0, <2>1 DEF Pending, Upto, BlockPc
  <2>3. \A p : Pending(t, p)' <=> w + (d + (k + 1)) <= p /\ p < w + r
    BY <1>0, <2>1 DEF Pending, Upto, BlockPc
  <2>4. at = w + d + k
    BY <1>8, <2>1
  <2> QED BY <2>2, <2>3, <2>4
<1>h. \A p : ~Hollow(t, p) /\ ~Hollow(t, p)'
  BY <1>0 DEF Hollow, ZeroPc
<1>15. /\ Len(want[i]) = IF inode[i].isize >= th[t].woff + th[t].ret
                         THEN inode[i].isize ELSE th[t].woff + th[t].ret
       /\ \A p \in Offsets :
             /\ p < Len(want[i]) /\ ~Pending(t, p) => inode[i].data[p] = want[i][p + 1]
             /\ Pending(t, p) => want[i][p + 1] = Call(t).bytes[p - th[t].woff + 1]
  BY <1>i, <1>h, <1>5 DEF DataOnTheWay
<1>16. DataOnTheWay(t)'
  <2>1. ASSUME NEW p \in Offsets, p < Len(want[i]), ~Pending(t, p)'
        PROVE  inode'[i].data[p] = want[i][p + 1]
    <3>1. CASE p = at
      <4>1. want[i][p + 1] = Call(t).bytes[p - th[t].woff + 1]
        BY <1>13, <1>15, <3>1
      <4>2. want[i][p + 1] = b
        BY <1>9, <1>13, <3>1, <4>1
      <4> QED BY <1>11, <3>1, <4>2
    <3>2. CASE p # at
      <4>1. ~Pending(t, p)
        BY <1>12, <1>14, <2>1, <3>2
      <4> QED BY <1>11, <1>15, <2>1, <3>2, <4>1
    <3> QED BY <3>1, <3>2
  <2>2. \A p \in Offsets : Pending(t, p)' => want[i][p + 1] = Call(t).bytes[p - th[t].woff + 1]
    BY <1>12, <1>14, <1>15
  <2> QED BY <1>0, <1>1, <1>4, <1>h, <1>15, <2>1, <2>2 DEF DataOnTheWay
<1>17. (ZeroesOnTheWay(t) /\ SizeOnTheWay(t))'
  BY <1>i, <1>0, <1>4, <1>5 DEF SizeOnTheWay, ZeroesOnTheWay
<1>19. want' \in [Inodes -> Seq(Nat)] /\ OrderedDataCovers'
  BY <1>1 DEF Contents, OrderedDataCovers
<1>20. \A k \in Offsets : k < inode'[i].dsize => inode'[i].data[k] # Fresh
  <2>1. b # Fresh
    BY DEF Fresh
  <2> QED BY <1>3, <1>4, <1>11, <2>1
<1> QED BY <1>i, <1>0, <1>1, <1>2, <1>3, <1>4, <1>7, <1>16, <1>17, <1>19, <1>20, ContentsInside

(* The next block boundary after size is the first one above it.           *)
LEMMA NextBlock ==
    ASSUME NEW size \in Nat, NEW new \in Int, new > size, new % BlockSize = 0
    PROVE  new >= BlockEnd(size)
<1>1. BlockSize \in Nat \ {0} /\ size % BlockSize \in 0 .. BlockSize - 1
  BY FSAssumption
<1>2. PICK b \in Nat \ {0} : b = BlockSize
  BY <1>1
<1>3. PICK r \in 0 .. b - 1 : r = size % BlockSize
  BY <1>1, <1>2
<1>4. PICK q \in Int : size = b * q + r
  <2>1. size = BlockSize * (size \div BlockSize) + (size % BlockSize)
        /\ size \div BlockSize \in Int
    BY <1>1
  <2> QED BY <1>2, <1>3, <2>1
<1>5. PICK p \in Int : new = b * p
  <2>1. new = BlockSize * (new \div BlockSize) + (new % BlockSize)
        /\ new \div BlockSize \in Int
    BY <1>1
  <2>2. PICK p \in Int : p = new \div BlockSize
    BY <2>1
  <2>3. new = b * p + 0
    BY <1>2, <2>1, <2>2
  <2> QED BY <1>2, <2>3
<1>6. p > q
  <2> SUFFICES ASSUME p <= q PROVE FALSE
    OBVIOUS
  <2>1. q - p \in Nat
    OBVIOUS
  <2>2. b * (q - p) >= 0
    BY <2>1
  <2>3. b * q - b * p >= 0
    BY <2>2
  <2> QED BY <1>4, <1>5, <2>3
<1>7. b * p >= b * q + b
  <2>1. p - q - 1 \in Nat
    BY <1>6
  <2>2. b * (p - q - 1) >= 0
    BY <2>1
  <2> QED BY <2>2
<1>8. BlockEnd(size) = size + (b - r)
  BY <1>2, <1>3 DEF BlockEnd
<1> QED BY <1>4, <1>5, <1>7, <1>8

(* A writer at the end of a block, in numbers: its write goes from w for r *)
(* bytes, the block ends at size, the inode's sizes are isz and dsz.       *)
Numbers(t, i, w, r, size, isz, dsz) ==
    /\ i \in Inodes /\ i = th[t].ino
    /\ w \in Int /\ w = th[t].woff /\ r \in Int /\ r = th[t].ret
    /\ size \in Int /\ size = th[t].woff + (th[t].done + th[t].blk) /\ size = newSize(t)
    /\ isz \in Nat /\ isz = inode[i].isize /\ isz <= MaxFileSize
    /\ dsz \in Nat /\ dsz = inode[i].dsize /\ dsz <= MaxFileSize

AtBlockEnd(t, i, w, r, size, isz, dsz) ==
    /\ w <= size /\ size <= w + r /\ w + r <= MaxFileSize
    /\ size = w + r <=> th[t].done + th[t].blk = th[t].ret
    /\ size = w + r \/ size % BlockSize = 0
    /\ \A p : Pending(t, p) <=> size <= p /\ p < w + r
    /\ isz <= dsz
    /\ th[t].pc # "wsize" /\ dsz > isz => dsz <= w + r /\ dsz <= BlockEnd(isz)
    /\ th[t].pc = "wsize" => dsz = size /\ isz < size
    /\ th[t].pc = "wclose" => size <= isz
    /\ Len(want[i]) = IF isz >= w + r THEN isz ELSE w + r
    /\ \A p \in Offsets : p < Len(want[i]) /\ ~(size <= p /\ p < w + r)
                             => inode[i].data[p] = want[i][p + 1]
    /\ th[t].obeg <= dsz

LEMMA BlockBounds ==
    ASSUME NEW w \in Int, NEW d \in Int, NEW b \in Int, NEW r \in Int,
           0 <= d, 0 <= b, d + b <= r, NEW size \in Int, size = w + (d + b)
    PROVE  w <= size /\ size <= w + r /\ (size = w + r <=> d + b = r)
OBVIOUS

LEMMA BlockNumbers ==
    ASSUME Typed, Locked, Contents, NEW t \in Threads, th[t].pc \in BlockPc
    PROVE  \E i \in Inodes, w \in Int, r \in Int, size \in Int, isz \in Nat, dsz \in Nat :
              Numbers(t, i, w, r, size, isz, dsz)
<1>1. th[t].pc \in WritePc
  BY DEF WritePc, BlockPc
<1>2. /\ th[t].woff \in Int /\ th[t].done \in Int /\ th[t].ret \in Int /\ th[t].blk \in Int
      /\ th[t].pc \in InoPc
  BY <1>1, Writer
<1>3. th[t].ino \in Inodes /\ inode[th[t].ino].isize \in 0 .. MaxFileSize
      /\ inode[th[t].ino].dsize \in 0 .. MaxFileSize
  BY <1>2, Holder
<1>4. newSize(t) = th[t].woff + (th[t].done + th[t].blk) /\ newSize(t) \in Int
  BY <1>2 DEF newSize
<1>5. PICK i \in Inodes, w \in Int, r \in Int, size \in Int, isz \in Nat, dsz \in Nat :
         /\ i = th[t].ino /\ w = th[t].woff /\ r = th[t].ret /\ size = newSize(t)
         /\ isz = inode[th[t].ino].isize /\ dsz = inode[th[t].ino].dsize
  <2>1. inode[th[t].ino].isize \in Nat /\ inode[th[t].ino].dsize \in Nat
    BY <1>3, FSAssumption
  <2> HIDE DEF newSize
  <2> QED BY <1>2, <1>3, <1>4, <2>1
<1>6. Numbers(t, i, w, r, size, isz, dsz)
  BY <1>3, <1>4, <1>5, FSAssumption DEF Numbers
<1> QED BY <1>6

LEMMA BlockEnds ==
    ASSUME Typed, Locked, Contents, NEW t \in Threads, th[t].pc \in BlockPc, th[t].k = th[t].blk,
           NEW i, NEW w, NEW r, NEW size, NEW isz, NEW dsz,
           Numbers(t, i, w, r, size, isz, dsz)
    PROVE  AtBlockEnd(t, i, w, r, size, isz, dsz)
<1> USE DEF Numbers
<1>0. th[t].pc \in WritePc /\ th[t].pc \notin ZeroPc
  BY DEF WritePc, ZeroPc, BlockPc
<1>1. /\ Progress(t) /\ DataOnTheWay(t) /\ SizeOnTheWay(t)
      /\ th[t].woff \in Int /\ th[t].done \in Int /\ th[t].ret \in Int
      /\ th[t].blk \in Int /\ th[t].k \in Int
  BY <1>0, Writer
<1>2. PICK d \in Int, b \in Int : d = th[t].done /\ b = th[t].blk
  BY <1>1
<1>3. /\ 0 <= d /\ 0 <= b /\ d + b <= r /\ w + r <= MaxFileSize
      /\ (d + b = r \/ (w + d + b) % BlockSize = 0)
  BY <1>0, <1>1, <1>2, Zenon DEF Progress
<1>4. size = w + (d + b)
  BY <1>2
<1>5. w <= size /\ size <= w + r /\ (size = w + r <=> d + b = r)
  <2>1. 0 <= d /\ 0 <= b /\ d + b <= r
    BY <1>3
  <2> QED BY <1>4, <2>1, BlockBounds
<1>6. size = w + r \/ size % BlockSize = 0
  <2>1. w + d + b = size
    BY <1>4
  <2> QED BY <1>3, <1>5, <2>1
<1>7. \A p : (Pending(t, p) <=> size <= p /\ p < w + r) /\ ~Hollow(t, p)
  <2>1. Upto(t) = d + b
    BY <1>0, <1>2 DEF Upto
  <2> QED BY <1>0, <1>4, <2>1 DEF Pending, Hollow
<1>8. /\ isz <= dsz /\ (th[t].pc # "wsize" /\ dsz > isz => dsz <= w + r /\ dsz <= BlockEnd(isz))
      /\ th[t].pc = "wsize" => dsz = size /\ isz < size
      /\ th[t].pc = "wclose" => size <= isz
      /\ th[t].obeg <= dsz
  BY <1>1 DEF SizeOnTheWay
<1>9. /\ Len(want[i]) = IF isz >= w + r THEN isz ELSE w + r
      /\ \A p \in Offsets : p < Len(want[i]) /\ ~(size <= p /\ p < w + r)
                               => inode[i].data[p] = want[i][p + 1]
  BY <1>1, <1>7 DEF DataOnTheWay
<1>10. size = w + r <=> th[t].done + th[t].blk = th[t].ret
  BY <1>2, <1>5
<1> QED BY <1>3, <1>5, <1>6, <1>7, <1>8, <1>9, <1>10 DEF AtBlockEnd

(* A block that ends past the file ends past the size on disk.             *)
LEMMA BlockPastDisk ==
    ASSUME NEW t, NEW i, NEW w \in Int, NEW r \in Int, NEW size \in Int, NEW isz \in Nat,
           NEW dsz \in Nat, AtBlockEnd(t, i, w, r, size, isz, dsz), th[t].pc # "wsize", size > isz
    PROVE  dsz <= size
<1>1. /\ dsz > isz => dsz <= w + r /\ dsz <= BlockEnd(isz)
      /\ size = w + r \/ size % BlockSize = 0
  BY DEF AtBlockEnd
<1>2. CASE dsz > isz
  <2>1. CASE size = w + r
    BY <1>1, <1>2, <2>1
  <2>2. CASE size % BlockSize = 0
    <3>1. size >= BlockEnd(isz) /\ BlockEnd(isz) \in Int
      BY <2>2, NextBlock, NewDisksize
    <3> QED BY <1>1, <1>2, <3>1
  <2> QED BY <1>1, <2>1, <2>2
<1>3. CASE ~(dsz > isz)
  BY <1>3
<1> QED BY <1>2, <1>3

LEMMA ContentsBlockDisksize ==
    ASSUME Typed, Locked, Contents, NEW t \in Threads, BlockDisksize(t)
    PROVE  Contents'
<1>0. th[t].pc = "wbytes" /\ th[t].k = th[t].blk
  BY BlockDisksizeEffect
<1>1. want' = want /\ mode' = mode
  BY DEF BlockDisksize
<1>2. th[t].pc \in BlockPc /\ th[t].pc \in WritePc /\ th[t].pc # "wsize"
  BY <1>0 DEF BlockPc, WritePc
<1>i. PICK i \in Inodes, w \in Int, r \in Int, size \in Int, isz \in Nat, dsz \in Nat :
         Numbers(t, i, w, r, size, isz, dsz)
  BY <1>2, BlockNumbers
<1>3. AtBlockEnd(t, i, w, r, size, isz, dsz)
  BY <1>0, <1>2, <1>i, BlockEnds
<1>4. /\ i = th[t].ino /\ w = th[t].woff /\ r = th[t].ret /\ size = newSize(t)
      /\ isz = inode[i].isize /\ dsz = inode[i].dsize /\ isz <= MaxFileSize
  BY <1>i DEF Numbers
<1>5. /\ OneMoved(t) /\ Call(t)' = Call(t) /\ th'[t].pc = "wsize" /\ size > isz
      /\ th'[t].ino = i /\ th'[t].woff = w /\ th'[t].ret = r /\ th'[t].done = th[t].done
      /\ th'[t].blk = th[t].blk /\ th'[t].k = th[t].k /\ th'[t].obeg = th[t].obeg
      /\ Touched(i, {"dsize"}) /\ inode'[i].dsize = size
      /\ updateInodeDisksizeFS(i, size, th[t].obeg, size)
  BY <1>4, BlockDisksizeEffect DEF ThreadFields
<1>6. /\ Progress(t) /\ DataOnTheWay(t) /\ SizeOnTheWay(t) /\ th[t].obeg \in Int /\ th[t].pc \in InoPc
  BY <1>2, Writer
<1>7. th'[t].pc \in WritePc /\ th'[t].pc \notin TruncPc /\ th'[t].pc \in BlockPc
      /\ th[t].pc \notin ZeroPc /\ th'[t].pc \notin ZeroPc
  BY <1>0, <1>5 DEF WritePc, TruncPc, ZeroPc, BlockPc
<1>8. inode'[i].data = inode[i].data /\ inode'[i].isize = isz
  BY <1>4, <1>5 DEF Touched, InodeFields
<1>9. newSize(t)' = size
  BY <1>4, <1>5 DEF newSize
<1>10. Progress(t)'
  BY <1>0, <1>2, <1>4, <1>5, <1>6, <1>7, Zenon DEF Progress
<1>11. \A p : (Pending(t, p)' <=> Pending(t, p)) /\ ~Hollow(t, p) /\ ~Hollow(t, p)'
  <2>1. Upto(t)' = Upto(t)
    BY <1>2, <1>5, <1>7 DEF Upto
  <2> QED BY <1>4, <1>5, <1>7, <2>1 DEF Pending, Hollow
<1>12. DataOnTheWay(t)'
  BY <1>1, <1>4, <1>5, <1>6, <1>8, <1>11 DEF DataOnTheWay
<1>13. dsz <= size /\ th[t].obeg <= dsz /\ size <= w + r /\ w + r <= MaxFileSize
  <2>1. dsz <= size
    BY <1>2, <1>3, <1>5, BlockPastDisk
  <2> QED BY <1>3, <2>1 DEF AtBlockEnd
<1>14. (ZeroesOnTheWay(t) /\ SizeOnTheWay(t))'
  <2>1. th[t].obeg <= size
    BY <1>6, <1>13
  <2> QED BY <1>5, <1>8, <1>9, <2>1 DEF ZeroesOnTheWay, SizeOnTheWay
<1>15. ASSUME NEW p \in Offsets, p < inode'[i].dsize PROVE inode'[i].data[p] # Fresh
  <2>1. /\ Len(want[i]) = IF isz >= w + r THEN isz ELSE w + r
        /\ p < Len(want[i]) /\ ~(size <= p /\ p < w + r) => inode[i].data[p] = want[i][p + 1]
    BY <1>3 DEF AtBlockEnd
  <2>2. want[i] \in Seq(Nat)
    BY DEF Contents
  <2>3. p \in Nat /\ p < Len(want[i]) /\ ~(size <= p /\ p < w + r)
    BY <1>5, <1>13, <1>15, <2>1, OffsetsNat
  <2>4. p + 1 \in 1 .. Len(want[i])
    BY <2>2, <2>3
  <2>5. want[i][p + 1] \in Nat
    BY <2>2, <2>4
  <2> QED BY <1>8, <2>1, <2>3, <2>5 DEF Fresh
<1>16. OrderedDataCovers'
  <2>1. dsz \in Int /\ inode[i].dsize = dsz /\ size <= size
    BY <1>4
  <2> QED BY <1>1, <1>5, <1>13, <2>1, OrderedUpdate
<1>17. want' \in [Inodes -> Seq(Nat)] /\ inode'[i].dsize \in 0 .. MaxFileSize
       /\ inode'[i].isize \in 0 .. MaxFileSize
  BY <1>1, <1>4, <1>5, <1>8, <1>13, FSAssumption, SMTT(40) DEF Contents
<1> QED BY <1>1, <1>4, <1>5, <1>6, <1>7, <1>10, <1>12, <1>14, <1>15, <1>16, <1>17, ContentsInside

LEMMA ContentsBlockSizeUp ==
    ASSUME Typed, Locked, Contents, NEW t \in Threads, BlockSizeUp(t)
    PROVE  Contents'
<1>0. th[t].pc = "wsize"
  BY BlockSizeUpEffect
<1>1. want' = want /\ mode' = mode /\ mdwrite' = mdwrite
  BY DEF BlockSizeUp, history
<1>2. th[t].pc \in BlockPc /\ th[t].pc \in WritePc
  BY <1>0 DEF BlockPc, WritePc
<1>6. /\ Progress(t) /\ DataOnTheWay(t) /\ th[t].pc \in InoPc
  BY <1>2, Writer
<1>k. th[t].k = th[t].blk
  BY <1>0, <1>2, <1>6 DEF Progress
<1>i. PICK i \in Inodes, w \in Int, r \in Int, size \in Int, isz \in Nat, dsz \in Nat :
         Numbers(t, i, w, r, size, isz, dsz)
  BY <1>2, BlockNumbers
<1>3. AtBlockEnd(t, i, w, r, size, isz, dsz)
  BY <1>k, <1>2, <1>i, BlockEnds
<1>4. /\ i = th[t].ino /\ w = th[t].woff /\ r = th[t].ret /\ size = newSize(t)
      /\ isz = inode[i].isize /\ dsz = inode[i].dsize /\ isz <= MaxFileSize
  BY <1>i DEF Numbers
<1>5. /\ OneMoved(t) /\ Call(t)' = Call(t) /\ th'[t].pc = "wclose"
      /\ th'[t].ino = i /\ th'[t].woff = w /\ th'[t].ret = r /\ th'[t].done = th[t].done
      /\ th'[t].blk = th[t].blk /\ th'[t].k = th[t].k /\ th'[t].obeg = size
      /\ Touched(i, {"isize"}) /\ inode'[i].isize = size
  BY <1>4, BlockSizeUpEffect DEF ThreadFields
<1>7. th'[t].pc \in WritePc /\ th'[t].pc \notin TruncPc /\ th'[t].pc \in BlockPc
      /\ th[t].pc \notin ZeroPc /\ th'[t].pc \notin ZeroPc
  BY <1>0, <1>5 DEF WritePc, TruncPc, ZeroPc, BlockPc
<1>8. inode'[i].data = inode[i].data /\ inode'[i].dsize = dsz
  BY <1>4, <1>5 DEF Touched, InodeFields
<1>9. newSize(t)' = size
  BY <1>4, <1>5 DEF newSize
<1>10. Progress(t)'
  BY <1>2, <1>k, <1>4, <1>5, <1>6, <1>7, Zenon DEF Progress
<1>11. \A p : (Pending(t, p)' <=> Pending(t, p)) /\ ~Hollow(t, p) /\ ~Hollow(t, p)'
  <2>1. Upto(t)' = Upto(t)
    BY <1>2, <1>5, <1>7 DEF Upto
  <2> QED BY <1>4, <1>5, <1>7, <2>1 DEF Pending, Hollow
<1>12. /\ dsz = size /\ isz < size /\ size <= w + r /\ w + r <= MaxFileSize
       /\ Len(want[i]) = IF isz >= w + r THEN isz ELSE w + r
  BY <1>0, <1>3 DEF AtBlockEnd
<1>13. DataOnTheWay(t)'
  <2>1. Len(want[i]) = IF size >= w + r THEN size ELSE w + r
    BY <1>12
  <2> QED BY <1>1, <1>4, <1>5, <1>6, <1>8, <1>11, <2>1 DEF DataOnTheWay
<1>14. (ZeroesOnTheWay(t) /\ SizeOnTheWay(t))'
  BY <1>5, <1>8, <1>9, <1>12 DEF ZeroesOnTheWay, SizeOnTheWay
<1>15. \A p \in Offsets : p < inode'[i].dsize => inode'[i].data[p] # Fresh
  BY <1>4, <1>8 DEF Contents, NothingUninitialised
<1>16. OrderedDataCovers'
  BY <1>1, OrderKept
<1>17. want' \in [Inodes -> Seq(Nat)] /\ inode'[i].dsize \in 0 .. MaxFileSize
       /\ inode'[i].isize \in 0 .. MaxFileSize
  BY <1>1, <1>4, <1>5, <1>8, <1>12, FSAssumption DEF Contents
<1> QED BY <1>1, <1>4, <1>5, <1>6, <1>7, <1>10, <1>13, <1>14, <1>15, <1>16, <1>17, ContentsInside

LEMMA ContentsClose ==
    ASSUME Typed, Locked, Contents, NEW t \in Threads, BlockClose(t)
    PROVE  Contents'
<1>0. \/ th[t].pc = "wclose"
      \/ th[t].pc = "wbytes" /\ th[t].k = th[t].blk /\ newSize(t) <= inode[th[t].ino].isize
  BY BlockCloseEffect
<1>1. want' = want /\ mode' = mode /\ mdwrite' = mdwrite
  BY DEF BlockClose
<1>2. th[t].pc \in BlockPc /\ th[t].pc \in WritePc /\ th[t].pc # "wsize" /\ th[t].pc \notin ZeroPc
  BY <1>0 DEF BlockPc, WritePc, ZeroPc
<1>6. /\ Progress(t) /\ DataOnTheWay(t) /\ th[t].pc \in InoPc
      /\ th[t].woff \in Int /\ th[t].done \in Int /\ th[t].ret \in Int /\ th[t].blk \in Int
  BY <1>2, Writer
<1>k. th[t].k = th[t].blk
  BY <1>0, <1>2, <1>6 DEF Progress
<1>i. PICK i \in Inodes, w \in Int, r \in Int, size \in Int, isz \in Nat, dsz \in Nat :
         Numbers(t, i, w, r, size, isz, dsz)
  BY <1>2, BlockNumbers
<1>3. AtBlockEnd(t, i, w, r, size, isz, dsz)
  BY <1>k, <1>2, <1>i, BlockEnds
<1>4. /\ i = th[t].ino /\ w = th[t].woff /\ r = th[t].ret /\ size = newSize(t)
      /\ size = th[t].woff + (th[t].done + th[t].blk)
      /\ isz = inode[i].isize /\ dsz = inode[i].dsize /\ isz <= MaxFileSize
  BY <1>i DEF Numbers
<1>e. /\ size = w + r <=> th[t].done + th[t].blk = th[t].ret
      /\ w <= size /\ size <= w + r /\ w + r <= MaxFileSize
      /\ \A p : Pending(t, p) <=> size <= p /\ p < w + r
      /\ isz <= dsz /\ (dsz > isz => dsz <= w + r /\ dsz <= BlockEnd(isz))
      /\ size <= isz /\ th[t].obeg <= dsz
      /\ Len(want[i]) = IF isz >= w + r THEN isz ELSE w + r
      /\ \A p \in Offsets : p < Len(want[i]) /\ ~(size <= p /\ p < w + r)
                               => inode[i].data[p] = want[i][p + 1]
  BY <1>0, <1>2, <1>3, <1>4 DEF AtBlockEnd
<1>5. /\ OneMoved(t) /\ Call(t)' = Call(t)
      /\ th'[t].pc = IF size = w + r THEN "wunlock" ELSE "wopen"
      /\ th'[t].ino = i /\ th'[t].woff = w /\ th'[t].ret = r
      /\ th'[t].done = th[t].done + th[t].blk /\ th'[t].obeg = th[t].obeg
      /\ Touched(i, {"trans"})
  BY <1>4, <1>e, BlockCloseEffect DEF ThreadFields
<1>8. inode'[i].data = inode[i].data /\ inode'[i].dsize = dsz /\ inode'[i].isize = isz
  BY <1>4, <1>5 DEF Touched, InodeFields
<1>9. th'[t].pc \notin TruncPc \cup BlockPc \cup ZeroPc
  BY <1>5 DEF TruncPc, BlockPc, ZeroPc
<1>13. ASSUME th'[t].pc \notin WritePc \cup {"tsize"} PROVE AtRest(i)'
  <2>1. size = w + r
    BY <1>5, <1>13 DEF WritePc
  <2>2. Len(want[i]) = isz /\ dsz = isz
    BY <1>e, <2>1
  <2>3. \A p \in Offsets : p < isz => inode[i].data[p] = want[i][p + 1]
    BY <1>e, <2>1, <2>2, OffsetsNat
  <2> QED BY <1>1, <1>8, <2>2, <2>3 DEF AtRest, Kept
<1>14. ASSUME th'[t].pc \in WritePc
       PROVE  (Progress(t) /\ DataOnTheWay(t) /\ ZeroesOnTheWay(t) /\ SizeOnTheWay(t))'
  <2>1. size # w + r /\ th'[t].pc = "wopen" /\ size < w + r
    BY <1>e, <1>5, <1>14 DEF WritePc
  <2>2. Progress(t)'
    <3>1. r <= Len(Call(t).bytes)
      BY <1>4, <1>6 DEF Progress
    <3>2. th'[t].done \in Int /\ 0 <= th'[t].done /\ th'[t].done <= r
      <4>1. PICK d \in Int : d = th[t].done + th[t].blk
        BY <1>6
      <4>2. size = w + d /\ th'[t].done = d
        BY <1>4, <1>5, <4>1
      <4> QED BY <1>e, <4>2
    <3> QED BY <1>e, <1>5, <1>9, <3>1, <3>2 DEF Progress
  <2>3. \A p : (Pending(t, p)' <=> size <= p /\ p < w + r) /\ ~Hollow(t, p)' /\ ~Hollow(t, p)
    <3>1. Upto(t)' = th'[t].done + 0
      BY <1>9 DEF Upto
    <3>2. w + (th'[t].done + 0) = size
      BY <1>4, <1>5, <1>6, SMTT(40)
    <3> QED BY <1>2, <1>5, <1>9, <3>1, <3>2 DEF Pending, Hollow
  <2>4. DataOnTheWay(t)'
    BY <1>e, <1>1, <1>4, <1>5, <1>6, <1>8, <2>3 DEF DataOnTheWay
  <2>5. (ZeroesOnTheWay(t) /\ SizeOnTheWay(t))'
    BY <1>e, <1>5, <1>8, <2>1 DEF SizeOnTheWay, ZeroesOnTheWay
  <2> QED BY <2>2, <2>4, <2>5
<1>15. \A p \in Offsets : p < inode'[i].dsize => inode'[i].data[p] # Fresh
  BY <1>4, <1>8 DEF Contents, NothingUninitialised
<1>16. OrderedDataCovers'
  BY <1>1, OrderKept
<1>17. want' \in [Inodes -> Seq(Nat)] /\ inode'[i].dsize \in 0 .. MaxFileSize
       /\ inode'[i].isize \in 0 .. MaxFileSize
  BY <1>1, <1>4, <1>8 DEF Contents
<1> QED BY <1>1, <1>4, <1>5, <1>6, <1>9, <1>13, <1>14, <1>15, <1>16, <1>17, ContentsInside

LEMMA ContentsWrites ==
    ASSUME Typed, Locked, Contents, NEW t \in Threads,
           \/ Inside(t) \/ TruncateLock(t) \/ TruncateUnlock(t) \/ WriteFlags(t) \/ WriteUnlock(t)
    PROVE  Contents'
BY ContentsLocks, ContentsTruncate, ContentsTruncateZero, ContentsTruncateDisk, ContentsTruncateSize,
   ContentsChecks, ContentsZeroEarly, ContentsRaiseEarly, ContentsZeroHole, ContentsBlockOpen,
   ContentsByte, ContentsBlockDisksize, ContentsBlockSizeUp, ContentsClose DEF Inside

-----------------------------------------------------------------------------
(* Versions only grow, and an fsync reaches no further than they have.     *)
VersionPc == {"wunlock", "wsync", "wdone"}
Growing == \A i \in Inodes : ver[i] <= ver'[i]

LEMMA VersionsStep ==
    ASSUME Typed, Typed', Versions, NEW t \in Threads, OthersSame(t),
           \A i \in Inodes : ver[i] <= ver'[i] /\ synced[i] <= synced'[i] /\ synced'[i] <= ver'[i],
           th'[t].pc \in VersionPc /\ th'[t].ret > 0 =>
              /\ th'[t].ver <= ver'[th'[t].ino]
              /\ th'[t].pc = "wdone" /\ "SYNC" \in th'[t].acc => synced'[th'[t].ino] >= th'[t].ver
    PROVE  Versions' /\ Growing
<1> USE DEF VersionPc
<1>1. /\ ver \in [Inodes -> Nat] /\ ver' \in [Inodes -> Nat]
      /\ synced \in [Inodes -> Nat] /\ synced' \in [Inodes -> Nat]
  BY DEF Typed, ShapesOK
<1>2. ASSUME NEW u \in Threads, u # t
      PROVE  /\ th'[u].pc \in VersionPc /\ th'[u].ret > 0 => th'[u].ver <= ver'[th'[u].ino]
             /\ th'[u].pc = "wdone" /\ th'[u].ret > 0 /\ "SYNC" \in th'[u].acc
                  => synced'[th'[u].ino] >= th'[u].ver
  <2>1. th'[u] = th[u] /\ th[u].ino \in Inodes /\ th[u].ver \in Nat
    BY <1>2 DEF OthersSame, Typed, ThreadOK
  <2>2. /\ th[u].pc \in VersionPc /\ th[u].ret > 0 => th[u].ver <= ver[th[u].ino]
        /\ th[u].pc = "wdone" /\ th[u].ret > 0 /\ "SYNC" \in th[u].acc
             => synced[th[u].ino] >= th[u].ver
    BY DEF Versions, SyncWritesDurable
  <2>3. PICK a \in Nat, b \in Nat, c \in Nat, d \in Nat, e \in Nat :
           /\ a = ver[th[u].ino] /\ b = ver'[th[u].ino] /\ c = synced[th[u].ino]
           /\ d = synced'[th[u].ino] /\ e = th[u].ver /\ a <= b /\ c <= d
    BY <1>1, <2>1
  <2> QED BY <2>1, <2>2, <2>3
<1> QED BY <1>2 DEF Versions, SyncWritesDurable, Growing

(* Versions that do not change, or of which one is raised.                 *)
LEMMA VersionsGrow ==
    ASSUME Typed, Versions, NEW j \in Inodes,
           ver' = ver \/ ver' = [ver EXCEPT ![j] = @ + 1],
           synced' = synced \/ synced' = ver \/ executeFsyncFS(j)
    PROVE  \A i \in Inodes :
              ver[i] <= ver'[i] /\ synced[i] <= synced'[i] /\ synced'[i] <= ver'[i]
<1>1. ver \in [Inodes -> Nat] /\ synced \in [Inodes -> Nat]
  BY DEF Typed, ShapesOK
<1>2. \A i \in Inodes : synced[i] <= ver[i]
  BY DEF Versions
<1>3. \A i \in Inodes : ver'[i] \in Nat /\ ver[i] <= ver'[i]
  BY <1>1
<1>4. \A i \in Inodes : synced'[i] \in {synced[i], ver[i], ver'[i]}
  BY <1>1, <1>3 DEF executeFsyncFS
<1> QED BY <1>1, <1>2, <1>3, <1>4

LEMMA VersionsOutside ==
    ASSUME Typed, Typed', Locked, Versions, NEW t \in Threads,
           \/ CallOpen(t) \/ LookupTrans(t) \/ LookupEntry(t) \/ OpenFile(t) \/ CallClose(t)
           \/ BadDescriptor(t) \/ CallFsync(t) \/ CallSync(t)
           \/ LockDir(t) \/ LookupOrCreate(t) \/ LookupTruncate(t)
           \/ CallLink(t) \/ CallUnlink(t) \/ CallRename(t)
           \/ RenameLink(t) \/ RenameUnlink(t) \/ RenameEnd(t)
    PROVE  Versions' /\ Growing
<1> USE DEF history
<1>1. OthersSame(t) /\ th'[t].pc \notin VersionPc
  BY LockedOutside, LockedDirectory DEF PosPc, VersionPc
<1>2. \E j \in Inodes :
         /\ ver' = ver \/ ver' = [ver EXCEPT ![j] = @ + 1]
         /\ synced' = synced \/ synced' = ver \/ executeFsyncFS(j)
  <2>0. 1 \in Inodes
    BY FSAssumption
  <2>1. CASE \/ CallOpen(t) \/ LookupTrans(t) \/ LookupEntry(t) \/ OpenFile(t) \/ CallClose(t)
             \/ BadDescriptor(t)
    BY <2>0, <2>1 DEF CallOpen, LookupTrans, LookupEntry, OpenFile, CallClose, BadDescriptor
  <2>2. CASE CallFsync(t)
    <3>1. Desc(t).inode \in Inodes
      BY <2>2 DEF CallFsync, Alive, HasFile, Desc, Typed, ShapesOK
    <3> QED BY <2>2, <3>1 DEF CallFsync, executeFsyncFS
  <2>3. CASE CallSync(t)
    BY <2>0, <2>3 DEF CallSync
  <2>4. CASE \/ LockDir(t) \/ LookupTruncate(t) \/ CallLink(t) \/ CallUnlink(t)
             \/ CallRename(t) \/ RenameLink(t) \/ RenameUnlink(t) \/ RenameEnd(t)
    BY <2>0, <2>4 DEF LockDir, LookupTruncate, CallLink, CallUnlink, CallRename, RenameLink,
                      RenameUnlink, RenameEnd
  <2>5. CASE LookupOrCreate(t)
    <3>1. CASE UNCHANGED <<ver, synced>>
      BY <2>0, <3>1
    <3>2. CASE \E j \in FreshInodes : executeInodeCreateFS(Call(t).name, j)
      BY <3>2 DEF executeInodeCreateFS, updateInodeDisksizeFS, FreshInodes
    <3> QED BY <2>5, <3>1, <3>2 DEF LookupOrCreate
  <2> QED BY <2>1, <2>2, <2>3, <2>4, <2>5
<1>3. \A i \in Inodes : ver[i] <= ver'[i] /\ synced[i] <= synced'[i] /\ synced'[i] <= ver'[i]
  BY <1>2, VersionsGrow
<1> QED BY <1>1, <1>3, VersionsStep

LEMMA VersionsReads ==
    ASSUME Typed, Typed', Locked, Versions, NEW t \in Threads,
           \/ CallRead(t) \/ CallWrite(t) \/ CallLseek(t) \/ CallPread(t) \/ CallPwrite(t)
           \/ ReadSize(t) \/ ReadByte(t) \/ WriteSync(t)
           \/ ReadDone(t) \/ WriteDone(t) \/ executeLseekFS(t)
    PROVE  Versions' /\ Growing
<1> USE DEF history
<1>1. OthersSame(t) /\ (th'[t].pc \in VersionPc => WriteSync(t))
  BY LockedReads DEF VersionPc, InoPc
<1>2. PICK i \in Inodes : i = th[t].ino
  BY DEF Typed, ThreadOK
<1>3. CASE WriteSync(t)
  <2>1. /\ th'[t].pc = "wdone" /\ th'[t].ino = i /\ th'[t].ret = th[t].ret
        /\ th'[t].acc = th[t].acc /\ th'[t].ver = th[t].ver /\ th[t].pc = "wsync"
    BY <1>2, <1>3, Moving DEF WriteSync, At, ThreadFields
  <2>2. /\ ver' = ver
        /\ \/ synced' = [synced EXCEPT ![i] = ver[i]]
           \/ synced' = synced /\ (th[t].ret > 0 => "SYNC" \notin th[t].acc)
    BY <1>2, <1>3 DEF WriteSync
  <2>3. \A j \in Inodes : ver[j] <= ver'[j] /\ synced[j] <= synced'[j] /\ synced'[j] <= ver'[j]
    BY <2>2, VersionsGrow DEF executeFsyncFS
  <2>4. th[t].ret > 0 => th[t].ver <= ver[i]
    BY <1>2, <2>1 DEF Versions
  <2>5. synced' = [synced EXCEPT ![i] = ver[i]] => synced'[i] = ver[i]
    BY DEF Typed, ShapesOK
  <2>6. ver[i] \in Nat /\ th[t].ver \in Nat
    BY DEF Typed, ShapesOK, ThreadOK
  <2>7. th[t].ret > 0 => /\ th[t].ver <= ver'[i]
                         /\ "SYNC" \in th[t].acc => synced'[i] >= th[t].ver
    BY <2>2, <2>4, <2>5, <2>6
  <2> QED BY <1>1, <2>1, <2>3, <2>7, VersionsStep
<1>4. CASE ~WriteSync(t)
  <2>1. UNCHANGED <<ver, synced>>
    BY <1>4 DEF CallRead, CallWrite, CallLseek, LockPos, CallPread, CallPwrite, AtOffset,
                ReadSize, ReadByte, ReadDone, WriteDone, executeLseekFS
  <2>2. \A j \in Inodes : ver[j] <= ver'[j] /\ synced[j] <= synced'[j] /\ synced'[j] <= ver'[j]
    BY <1>2, <2>1, VersionsGrow
  <2> QED BY <1>1, <1>4, <2>2, VersionsStep
<1> QED BY <1>3, <1>4

LEMMA VersionsWrites ==
    ASSUME Typed, Typed', Locked, Contents, Versions, NEW t \in Threads,
           \/ Inside(t) \/ TruncateLock(t) \/ TruncateUnlock(t) \/ WriteFlags(t) \/ WriteUnlock(t)
    PROVE  Versions' /\ Growing
<1> USE DEF history, VersionPc
<1>w. WritesOnTheWay
  BY DEF Contents
<1>i. PICK i \in Inodes : i = th[t].ino
  BY DEF Typed, ThreadOK
<1>v. ver[i] \in Nat /\ th[t].ver \in Nat /\ (ver' = [ver EXCEPT ![i] = @ + 1] => ver'[i] = ver[i] + 1)
  BY DEF Typed, ShapesOK, ThreadOK
<1> HIDE DEF VersionPc
<1> DEFINE Steps == /\ ver' = ver \/ ver' = [ver EXCEPT ![i] = @ + 1]
                    /\ synced' = synced \/ synced' = ver \/ executeFsyncFS(i)
           Mine == th'[t].pc \in VersionPc /\ th'[t].ret > 0 =>
                      th'[t].pc # "wdone" /\ th'[t].ver <= ver'[th'[t].ino]
<1> SUFFICES OneMoved(t) /\ Steps /\ Mine
  <2>1. ASSUME OneMoved(t), Steps, Mine PROVE Versions' /\ Growing
    <3>1. \A j \in Inodes : ver[j] <= ver'[j] /\ synced[j] <= synced'[j] /\ synced'[j] <= ver'[j]
      BY <2>1, VersionsGrow
    <3> QED BY <2>1, <3>1, MovedOthers, VersionsStep
  <2> QED BY <2>1
<1>1. CASE TruncateLock(t) \/ TruncateUnlock(t) \/ executeTruncateFS(t) \/ BlockOpen(t)
  <2>1. OneMoved(t) /\ th'[t].pc \notin VersionPc
    BY <1>1, TruncateLockEffect, TruncateUnlockEffect, TruncateEffect, BlockOpenEffect DEF VersionPc
  <2>2. UNCHANGED <<ver, synced>>
    BY <1>1 DEF TruncateLock, TruncateUnlock, executeTruncateFS, BlockOpen
  <2> QED BY <2>1, <2>2
<1>2. CASE TruncateZero(t) \/ ZeroEarly(t) \/ ZeroHole(t)
  <2>1. PICK to, next : /\ zeroDskRangeFS(t, to, next)
                        /\ \/ th[t].pc = "tzero" /\ next = "tdisk"
                           \/ th[t].pc = "wearly" /\ next = "wraise"
                           \/ th[t].pc = "whole" /\ next = "wopen"
    BY <1>2 DEF TruncateZero, ZeroEarly, ZeroHole, At
  <2>2. OneMoved(t) /\ th'[t].pc = IF th[t].k + 1 = to THEN next ELSE th[t].pc
    BY <2>1, ZeroEffect
  <2>3. UNCHANGED <<ver, synced>>
    BY <2>1 DEF zeroDskRangeFS
  <2> QED BY <2>1, <2>2, <2>3 DEF VersionPc
<1>3. CASE TruncateDisk(t) \/ RaiseEarly(t) \/ BlockDisksize(t)
  <2>1. OneMoved(t) /\ th'[t].pc \notin VersionPc /\ ver' = ver
    BY <1>3, TruncateDiskEffect, RaiseEarlyEffect, BlockDisksizeEffect DEF VersionPc, HolePc
  <2>2. synced' = synced \/ executeFsyncFS(i)
    BY <1>i, <1>3 DEF TruncateDisk, RaiseEarly, BlockDisksize, updateInodeDisksizeFS
  <2> QED BY <2>1, <2>2
<1>4. CASE TruncateSize(t)
  <2>1. /\ OneMoved(t) /\ th'[t].pc = "tunlock" /\ ver' = [ver EXCEPT ![i] = @ + 1]
        /\ executeFsyncFS(i) \/ UNCHANGED synced
    BY <1>i, <1>4, TruncateSizeEffect
  <2> QED BY <2>1 DEF VersionPc
<1>5. CASE WriteByte(t) \/ BlockSizeUp(t)
  <2>1. OneMoved(t) /\ th'[t].pc \in {"wbytes", "wclose"}
    BY <1>w, <1>5, WriteByteEffect, BlockSizeUpEffect DEF ThreadFields
  <2>2. UNCHANGED <<ver, synced>>
    BY <1>5 DEF WriteByte, BlockSizeUp
  <2> QED BY <2>1, <2>2 DEF VersionPc
<1>6. CASE WriteFlags(t) \/ WriteChecks(t)
  <2>1. OneMoved(t) /\ (th'[t].pc \in VersionPc => th'[t].ret \in {-1, 0})
    BY <1>6, WriteFlagsEffect, WriteChecksEffect DEF VersionPc, HolePc
  <2>2. UNCHANGED <<ver, synced>>
    BY <1>6 DEF WriteFlags, WriteChecks
  <2>3. th'[t].ret \in {-1, 0} => ~(th'[t].ret > 0)
    OBVIOUS
  <2> QED BY <2>1, <2>2, <2>3
<1>7. CASE BlockClose(t)
  <2>1. /\ OneMoved(t) /\ th'[t].pc \in {"wunlock", "wopen"} /\ th'[t].ver = ver[i] + 1
        /\ th'[t].ino = i /\ ver' = [ver EXCEPT ![i] = @ + 1]
        /\ executeFsyncFS(i) \/ UNCHANGED synced
    BY <1>i, <1>7, BlockCloseEffect DEF ThreadFields
  <2>2. th'[t].ver <= ver'[th'[t].ino] /\ th'[t].pc # "wdone"
    BY <1>v, <2>1
  <2> QED BY <2>1, <2>2
<1>8. CASE WriteUnlock(t)
  <2>1. /\ OneMoved(t) /\ th[t].pc = "wunlock" /\ th'[t].pc = "wsync" /\ th'[t].ver = th[t].ver
        /\ th'[t].ino = i /\ th'[t].ret = th[t].ret
    BY <1>i, <1>8, WriteUnlockEffect DEF ThreadFields
  <2>2. UNCHANGED <<ver, synced>>
    BY <1>8 DEF WriteUnlock
  <2>3. th[t].ret > 0 => th[t].ver <= ver[i]
    BY <1>i, <2>1 DEF Versions
  <2> QED BY <2>1, <2>2, <2>3
<1> QED BY <1>1, <1>2, <1>3, <1>4, <1>5, <1>6, <1>7, <1>8 DEF Inside

-----------------------------------------------------------------------------
(* Reads.  No byte below the size of a file is one that nobody has written *)
(* ...                                                                     *)
LEMMA NoFreshInFile ==
    ASSUME Typed, Locked, Contents, NEW i \in Inodes, NEW p \in Offsets, p < inode[i].isize
    PROVE  inode[i].data[p] # Fresh
<1>1. /\ inode[i].isize \in 0 .. MaxFileSize /\ inode[i].dsize \in 0 .. MaxFileSize
      /\ want[i] \in Seq(Nat) /\ p \in Nat
  BY OffsetsNat DEF Contents
<1>2. inode[i].isize <= inode[i].dsize => inode[i].data[p] # Fresh
  BY <1>1 DEF Contents, NothingUninitialised
<1>3. CASE Quiet(i)
  BY <1>1, <1>2, <1>3 DEF Contents, Settled
<1>4. CASE ~Quiet(i)
  <2>1. PICK t \in Threads : t = inode[i].lock
    BY <1>4 DEF Quiet, Typed, ShapesOK, InodeType
  <2>2. th[t].pc \in WritePc \cup {"tsize"} /\ th[t].ino = i
    BY <1>4, <2>1 DEF Quiet, Locked, InodeLocksHeld
  <2>3. CASE th[t].pc \in WritePc
    BY <1>2, <2>2, <2>3 DEF Contents, WritesOnTheWay, SizeOnTheWay
  <2>4. CASE th[t].pc = "tsize"
    <3>1. Kept(i)
      BY <2>2, <2>4 DEF Contents, TruncsOnTheWay, TruncPc, TruncOnTheWay
    <3>2. p + 1 \in 1 .. Len(want[i])
      BY <1>1, <3>1 DEF Kept
    <3>3. want[i][p + 1] \in Nat
      BY <1>1, <3>2
    <3> QED BY <3>1, <3>3 DEF Kept, Fresh
  <2> QED BY <2>2, <2>3, <2>4
<1> QED BY <1>3, <1>4

(* ... and none becomes so again; between two looks at an inode that       *)
(* nobody is changing, at the same version, it is the same.                *)
StaysWritten(i) == \A p \in Offsets : inode[i].data[p] # Fresh => inode'[i].data[p] # Fresh
StaysClean(i) ==
    Clean(i)' /\ ver'[i] = ver[i] =>
        Clean(i) /\ inode'[i].isize = inode[i].isize /\ inode'[i].data = inode[i].data

LEMMA ReadsStep ==
    ASSUME Typed, Typed', Reads, NEW t \in Threads, OthersSame(t), Growing,
           \A i \in Inodes : inode[i].made => StaysWritten(i) /\ StaysClean(i),
           Reading(t)' => ReadOnTheWay(t)'
    PROVE  Reads'
<1>1. ASSUME NEW u \in Threads, u # t, Reading(u)' PROVE ReadOnTheWay(u)'
  <2>1. th'[u] = th[u]
    BY <1>1 DEF OthersSame
  <2>2. ReadOnTheWay(u)
    BY <1>1, <2>1 DEF Reading, Reads
  <2>3. PICK i \in Inodes : i = th[u].ino /\ inode[i].made
    BY DEF Typed, ThreadOK, ReferencesMade
  <2>4. StaysWritten(i) /\ StaysClean(i)
    BY <2>3
  <2>5. PICK a \in Nat, b \in Nat, c \in Nat : a = ver[i] /\ b = ver'[i] /\ c = th[u].ver
    BY DEF Typed, ShapesOK, ThreadOK
  <2>6. c <= a /\ a <= b
    BY <2>2, <2>3, <2>5 DEF ReadOnTheWay, Growing
  <2>7. Undisturbed(u)' => Undisturbed(u) /\ inode'[i].isize = inode[i].isize
                                          /\ inode'[i].data = inode[i].data
    BY <2>1, <2>3, <2>4, <2>5, <2>6 DEF Undisturbed, StaysClean
  <2>8. th[u].ver <= ver'[i]
    BY <2>5, <2>6
  <2> QED BY <2>1, <2>2, <2>3, <2>4, <2>7, <2>8 DEF ReadOnTheWay, StaysWritten
<1> QED BY <1>1 DEF Reads

LEMMA ReadsQuiet ==
    ASSUME Typed, Typed', Locked, Reads, NEW t \in Threads, OthersSame(t), Growing,
           th[t].pc \notin InoPc, \A i \in Inodes : inode[i].made => inode'[i] = inode[i],
           Reading(t)' => ReadOnTheWay(t)'
    PROVE  Reads'
<1>1. ASSUME NEW i \in Inodes, inode[i].made PROVE StaysWritten(i) /\ StaysClean(i)
  <2>1. inode'[i] = inode[i] /\ inode[i].lock # t /\ inode[i].lock \in Threads \cup {Free}
    BY <1>1 DEF Locked, InodeLocksHeld, Typed, ShapesOK, InodeType
  <2>2. Clean(i)' => Clean(i)
    BY <2>1 DEF Clean, OthersSame
  <2> QED BY <2>1, <2>2 DEF StaysWritten, StaysClean
<1> QED BY <1>1, ReadsStep

(* Calls that leave the inodes that are made alone, and are no reads.      *)
LEMMA ReadsOutside ==
    ASSUME Typed, Typed', Locked, Reads, Growing, NEW t \in Threads,
           \/ CallOpen(t) \/ LookupTrans(t) \/ LookupEntry(t) \/ OpenFile(t) \/ CallClose(t)
           \/ BadDescriptor(t) \/ CallFsync(t) \/ CallSync(t)
           \/ LockDir(t) \/ LookupOrCreate(t) \/ LookupTruncate(t)
           \/ CallLink(t) \/ CallUnlink(t) \/ CallRename(t)
           \/ RenameLink(t) \/ RenameUnlink(t) \/ RenameEnd(t)
    PROVE  Reads'
<1>1. OthersSame(t) /\ th[t].pc \notin InoPc /\ ~Reading(t)'
  BY LockedOutside, LockedDirectory DEF PosPc, Reading
<1>2. ASSUME NEW i \in Inodes, inode[i].made PROVE inode'[i] = inode[i]
  <2>1. CASE inode' = inode
    BY <2>1
  <2>2. CASE \E j \in FreshInodes : executeInodeCreateFS(Call(t).name, j)
    BY <1>2, <2>2 DEF executeInodeCreateFS, FreshInodes, Typed, ShapesOK
  <2> QED BY <2>1, <2>2
          DEF CallOpen, LookupTrans, LookupEntry, OpenFile, CallClose, BadDescriptor, CallFsync,
              CallSync, LockDir, LookupOrCreate, LookupTruncate, CallLink, CallUnlink, CallRename,
              RenameLink, RenameUnlink, RenameEnd
<1> QED BY <1>1, <1>2, ReadsQuiet

(* A read begins with the size of the file, which nothing below is Fresh.  *)
LEMMA ReadsSize ==
    ASSUME Typed, Locked, Contents, NEW t \in Threads, ReadSize(t), Reading(t)'
    PROVE  ReadOnTheWay(t)'
<1> USE DEF history
<1>0. ShapesOK /\ ThreadOK(t) /\ th[t].pc = "rsize" /\ inode' = inode /\ ver' = ver
  BY DEF Typed, ReadSize, At
<1>i. PICK i \in Inodes : i = Desc(t).inode
  BY DEF ReadSize, Alive, HasFile, Desc, Typed, ShapesOK
<1>n. PICK c \in Nat, p \in Int, s \in 0 .. MaxFileSize, v \in Nat :
         c = Call(t).count /\ p = th[t].pos /\ s = inode[i].isize /\ v = ver[i]
  <2>1. Call(t) \in CallType
    BY <1>0 DEF ThreadOK, Call
  <2>2. Call(t).op \in {"read", "pread"}
    BY <1>0 DEF ThreadOK, OpAgrees
  <2>3. Call(t).count \in Nat
    BY <2>1, <2>2, Arguments
  <2> QED BY <1>0, <2>3 DEF ThreadOK, Contents, ShapesOK
<1>m. PICK nr \in Int : nr = Min({c, s - p}) /\ nr = IF c <= s - p THEN c ELSE s - p
  BY MinOfTwo
<1>1. \/ Set(t, [pc |-> "rdone", ino |-> i, ret |-> -1])
      \/ Set(t, [pc |-> "rdone", ino |-> i, ret |-> 0])
      \/ p < s /\ Set(t, [pc |-> "rbytes", ino |-> i, ret |-> nr, buf |-> <<>>, ver |-> v])
  BY <1>i, <1>n, <1>m DEF ReadSize, readInodeSizeFS
<1>2. CASE \E r \in {-1, 0} : Set(t, [pc |-> "rdone", ino |-> i, ret |-> r])
  <2>1. th'[t].pc = "rdone" /\ th'[t].ret \in {-1, 0}
    BY <1>2, Moving DEF ThreadFields
  <2>2. ~(th'[t].ret > 0)
    BY <2>1
  <2> QED BY <2>1, <2>2 DEF Reading
<1>3. CASE p < s /\ Set(t, [pc |-> "rbytes", ino |-> i, ret |-> nr, buf |-> <<>>, ver |-> v])
  <2>1. /\ th'[t].pc = "rbytes" /\ th'[t].ino = i /\ th'[t].ret = nr /\ th'[t].buf = <<>>
        /\ th'[t].ver = v /\ th'[t].pos = p
    BY <1>3, <1>n, Moving DEF ThreadFields
  <2>2. 0 <= nr /\ p + nr <= s /\ s <= MaxFileSize /\ s \in Nat
    BY <1>m, <1>3
  <2>3. \A q \in Offsets : q < p + nr => inode[i].data[q] # Fresh
    <3>1. ASSUME NEW q \in Offsets, q < p + nr PROVE q < inode[i].isize
      BY <1>n, <2>2, <3>1, OffsetsNat
    <3> QED BY <3>1, NoFreshInFile
  <2>4. <<>> \in Seq(Int) /\ Len(<<>>) = 0 /\ (1 .. 0) = {}
    OBVIOUS
  <2>5. p + nr <= MaxFileSize /\ v <= v
    BY <2>2, FSAssumption
  <2> QED BY <1>0, <1>n, <2>1, <2>2, <2>3, <2>4, <2>5 DEF ReadOnTheWay
<1> QED BY <1>1, <1>2, <1>3

LEMMA ReadMore ==
    ASSUME NEW b \in Seq(Int), NEW x \in Int
    PROVE  /\ Append(b, x) \in Seq(Int) /\ Len(Append(b, x)) = Len(b) + 1
           /\ \A k \in 1 .. Len(b) : Append(b, x)[k] = b[k]
           /\ Append(b, x)[Len(b) + 1] = x
<1>1. Append(b, x) \in Seq(Int)
  BY AppendProperties
<1>2. Len(Append(b, x)) = Len(b) + 1
  BY AppendProperties
<1>3. Append(b, x)[Len(b) + 1] = x
  BY AppendProperties
<1>4. \A k \in 1 .. Len(b) : Append(b, x)[k] = b[k]
  OBVIOUS
<1> QED BY <1>1, <1>2, <1>3, <1>4, Zenon

(* One more byte, or the end.                                              *)
LEMMA ReadsByte ==
    ASSUME Typed, Locked, Reads, NEW t \in Threads, ReadByte(t), Reading(t)'
    PROVE  ReadOnTheWay(t)'
<1> USE DEF history
<1>0. /\ th[t].pc = "rbytes" /\ UNCHANGED <<inode, ver>>
      /\ OthersSame(t)
      /\ \A x \in ThreadFields \ {"pc", "buf"} : th'[t][x] = th[t][x]
      /\ \/ /\ th'[t].pc = "rbytes" /\ Len(th[t].buf) < th[t].ret
            /\ th'[t].buf = Append(th[t].buf, Ino(t).data[th[t].pos + Len(th[t].buf)])
         \/ th'[t].buf = th[t].buf /\ Len(th[t].buf) = th[t].ret
  <2>1. th[t].pc = "rbytes" /\ UNCHANGED <<inode, ver>>
    BY DEF ReadByte, At
  <2>2. CASE \E b : Set(t, [buf |-> b]) /\ b = Append(th[t].buf, Ino(t).data[th[t].pos + Len(th[t].buf)])
                    /\ Len(th[t].buf) < th[t].ret
    BY <2>1, <2>2, Moving DEF ThreadFields, OthersSame
  <2>3. CASE Len(th[t].buf) = th[t].ret /\ \E pc : Set(t, [pc |-> pc])
    BY <2>1, <2>3, Moving DEF ThreadFields, OthersSame
  <2> QED BY <2>1, <2>2, <2>3 DEF ReadByte
<1>1. /\ th'[t].pos = th[t].pos /\ th'[t].ino = th[t].ino /\ th'[t].ret = th[t].ret
      /\ th'[t].ver = th[t].ver
  BY <1>0 DEF ThreadFields
<1>2. Reading(t) /\ ReadOnTheWay(t)
  BY <1>0, <1>1 DEF Reading, Reads
<1>i. PICK i \in Inodes : i = th[t].ino /\ inode[i].data \in [Offsets -> Int]
  BY DEF Typed, ThreadOK, ShapesOK, InodeType
<1>n. PICK p \in Nat, r \in Int, b \in Seq(Int) : p = th[t].pos /\ r = th[t].ret /\ b = th[t].buf
  BY <1>2 DEF Reading, ReadOnTheWay, Typed, ThreadOK
<1>3. Undisturbed(t)' => Undisturbed(t)
  <2>1. inode[i].lock # t /\ inode[i].lock \in Threads \cup {Free}
    BY <1>0 DEF Locked, InodeLocksHeld, InoPc, Typed, ShapesOK, InodeType
  <2> QED BY <1>0, <1>1, <1>i, <2>1 DEF Undisturbed, Clean, OthersSame
<1>4. CASE th'[t].buf = th[t].buf /\ Len(th[t].buf) = th[t].ret
  BY <1>0, <1>1, <1>2, <1>3, <1>4 DEF ReadOnTheWay
<1>5. CASE /\ th'[t].pc = "rbytes" /\ Len(b) < r
           /\ th'[t].buf = Append(b, inode[i].data[p + Len(b)])
  <2>1. Len(b) \in Nat /\ p + r <= MaxFileSize
    BY <1>2, <1>n DEF ReadOnTheWay
  <2>2. p + Len(b) \in Offsets /\ p <= p + Len(b) /\ p + Len(b) < p + r
    BY <1>5, <2>1, FSAssumption DEF Offsets
  <2>3. PICK x \in Int : x = inode[i].data[p + Len(b)] /\ x # Fresh
    BY <1>2, <1>i, <1>n, <2>2 DEF ReadOnTheWay
  <2>4. /\ Append(b, x) \in Seq(Int) /\ Len(Append(b, x)) = Len(b) + 1
        /\ \A k \in 1 .. Len(b) : Append(b, x)[k] = b[k]
        /\ Append(b, x)[Len(b) + 1] = x
    BY ReadMore
  <2>5. PICK d \in Seq(Int) : /\ d = th'[t].buf /\ Len(d) = Len(b) + 1 /\ d[Len(b) + 1] = x
                              /\ \A k \in 1 .. Len(b) : d[k] = b[k]
    BY <1>5, <2>3, <2>4, Zenon
  <2>6. \A k \in 1 .. Len(d) : k \in 1 .. Len(b) \/ k = Len(b) + 1
    BY <2>1, <2>5
  <2>7. \A k \in 1 .. Len(d) : d[k] # Fresh
    BY <1>2, <1>n, <2>3, <2>5, <2>6 DEF ReadOnTheWay
  <2>8. ASSUME Undisturbed(t)
        PROVE  /\ p + r <= inode[i].isize
               /\ \A k \in 1 .. Len(d) : d[k] = inode[i].data[p + k - 1]
    <3>1. p + r <= inode[i].isize /\ \A k \in 1 .. Len(b) : b[k] = inode[i].data[p + k - 1]
      BY <1>2, <1>i, <1>n, <2>8 DEF ReadOnTheWay
    <3>2. p + (Len(b) + 1) - 1 = p + Len(b)
      BY <2>1
    <3> QED BY <2>3, <2>5, <2>6, <3>1, <3>2
  <2>9. Len(d) <= r
    BY <1>5, <2>1, <2>5
  <2> QED BY <1>0, <1>1, <1>2, <1>3, <1>5, <1>i, <1>n, <2>5, <2>7, <2>8, <2>9, ZenonT(60) DEF ReadOnTheWay
<1> QED BY <1>0, <1>4, <1>5, <1>i, <1>n DEF Ino

LEMMA ReadsReads ==
    ASSUME Typed, Typed', Locked, Contents, Reads, Growing, NEW t \in Threads,
           \/ CallRead(t) \/ CallWrite(t) \/ CallLseek(t) \/ CallPread(t) \/ CallPwrite(t)
           \/ ReadSize(t) \/ ReadByte(t) \/ WriteSync(t)
           \/ ReadDone(t) \/ WriteDone(t) \/ executeLseekFS(t)
    PROVE  Reads'
<1> USE DEF history
<1>1. /\ OthersSame(t) /\ th[t].pc \notin InoPc
      /\ th'[t].pc \in {"rbytes", "rdone"} => ReadSize(t) \/ ReadByte(t)
  BY LockedReads
<1>2. inode' = inode
  BY DEF CallRead, CallWrite, CallLseek, LockPos, CallPread, CallPwrite, AtOffset, ReadSize,
         ReadByte, WriteSync, ReadDone, WriteDone, executeLseekFS
<1>3. Reading(t)' => ReadOnTheWay(t)'
  <2>1. Reading(t)' => ReadSize(t) \/ ReadByte(t)
    BY <1>1 DEF Reading
  <2> QED BY <2>1, ReadsSize, ReadsByte
<1> QED BY <1>1, <1>2, <1>3, ReadsQuiet

(* A step of the holder of an inode's lock.                                *)
LEMMA ReadsChange ==
    ASSUME Typed, Typed', Locked, Reads, NEW t \in Threads, OneMoved(t), Growing,
           NEW i \in Inodes, NEW S, Touched(i, S), th[t].pc \in InoPc => th[t].ino = i,
           th'[t].pc \notin {"rbytes", "rdone"}, StaysWritten(i), StaysClean(i)
    PROVE  Reads'
<1>1. OthersSame(t) /\ ~Reading(t)'
  BY MovedOthers DEF Reading
<1>2. ASSUME NEW j \in Inodes, j # i PROVE StaysWritten(j) /\ StaysClean(j)
  <2>1. inode'[j] = inode[j] /\ inode[j].lock # t /\ inode[j].lock \in Threads \cup {Free}
    BY <1>2 DEF Touched, Locked, InodeLocksHeld, Typed, ShapesOK, InodeType
  <2>2. Clean(j)' => Clean(j)
    BY <1>1, <2>1 DEF Clean, OthersSame
  <2> QED BY <2>1, <2>2 DEF StaysWritten, StaysClean
<1> QED BY <1>1, <1>2, ReadsStep

LEMMA ReadsWrites ==
    ASSUME Typed, Typed', Locked, Locked', Contents, Reads, Growing, NEW t \in Threads,
           \/ Inside(t) \/ TruncateLock(t) \/ TruncateUnlock(t) \/ WriteFlags(t) \/ WriteUnlock(t)
    PROVE  Reads'
<1>w. WritesOnTheWay
  BY DEF Contents
<1>f. t # Free
  BY FSAssumption
<1>i. PICK i \in Inodes : i = th[t].ino /\ ver[i] \in Nat /\ inode[i].data \in [Offsets -> Int]
  BY DEF Typed, ShapesOK, ThreadOK, InodeType
<1>1. CASE Inside(t)
  <2>1. /\ OneMoved(t) /\ th'[t].ino = i /\ th[t].pc \in InoPc /\ th'[t].pc \in InoPc
        /\ th'[t].pc \notin {"rbytes", "rdone"}
    BY <1>1, <1>w, <1>i, InsideStep DEF TruncIn, WriteIn, InoPc
  <2>2. inode[i].lock = t /\ inode'[i].lock = t
    BY <1>i, <2>1 DEF Locked, InodeLocksHeld
  <2>3. Clean(i)' <=> th'[t].pc \notin WritePc \cup TruncPc
    BY <1>f, <2>2 DEF Clean
  <2>4. CASE TruncateZero(t) \/ ZeroEarly(t) \/ ZeroHole(t)
    <3>1. PICK to, next : /\ zeroDskRangeFS(t, to, next)
                          /\ \/ th[t].pc = "tzero" /\ next = "tdisk"
                             \/ th[t].pc = "wearly" /\ next = "wraise"
                             \/ th[t].pc = "whole" /\ next = "wopen"
      BY <2>4 DEF TruncateZero, ZeroEarly, ZeroHole, At
    <3>2. /\ th'[t].pc = IF th[t].k + 1 = to THEN next ELSE th[t].pc
          /\ Touched(i, {"data"}) /\ inode'[i].data = [inode[i].data EXCEPT ![th[t].k] = 0]
      BY <1>i, <3>1, ZeroEffect
    <3>3. StaysClean(i)
      BY <2>3, <3>1, <3>2 DEF StaysClean, WritePc, TruncPc
    <3>4. StaysWritten(i)
      BY <1>i, <3>2 DEF StaysWritten, Fresh
    <3> QED BY <1>i, <2>1, <3>2, <3>3, <3>4, ReadsChange
  <2>5. CASE WriteByte(t)
    <3> DEFINE at == th[t].woff + th[t].done + th[t].k
               n == th[t].done + th[t].k + 1
    <3>1. /\ th'[t].pc = "wbytes" /\ Touched(i, {"data"}) /\ n \in 1 .. Len(Call(t).bytes)
          /\ inode'[i].data = [inode[i].data EXCEPT ![at] = Call(t).bytes[n]]
      BY <1>w, <1>i, <2>5, WriteByteEffect, ZenonT(60) DEF ThreadFields
    <3> HIDE DEF at, n
    <3>2. Call(t).bytes \in Seq(Nat)
      <4>1. th[t].pc \in WritePc
        BY <1>w, <2>5, WriteByteEffect DEF WritePc
      <4> QED BY <4>1, Writer
    <3>3. Call(t).bytes[n] \in Nat
      BY <3>1, <3>2
    <3>4. StaysClean(i)
      BY <2>3, <3>1 DEF StaysClean, WritePc
    <3>5. StaysWritten(i)
      BY <1>i, <3>1, <3>3 DEF StaysWritten, Fresh
    <3> QED BY <1>i, <2>1, <3>1, <3>4, <3>5, ReadsChange
  <2>6. CASE TruncateDisk(t) \/ RaiseEarly(t) \/ BlockOpen(t) \/ BlockDisksize(t) \/ BlockSizeUp(t)
    <3>1. PICK S \in SUBSET {"dsize", "trans", "isize"} :
             th'[t].pc \in {"tsize", "whole", "wopen", "wbytes", "wsize", "wclose"} /\ Touched(i, S)
      <4>1. CASE TruncateDisk(t)
        BY <1>i, <4>1, TruncateDiskEffect
      <4>2. CASE RaiseEarly(t)
        BY <1>i, <4>2, RaiseEarlyEffect DEF HolePc
      <4>3. CASE BlockOpen(t)
        BY <1>i, <4>3, BlockOpenEffect
      <4>4. CASE BlockDisksize(t)
        BY <1>i, <4>4, BlockDisksizeEffect
      <4>5. CASE BlockSizeUp(t)
        BY <1>i, <4>5, BlockSizeUpEffect
      <4> QED BY <2>6, <4>1, <4>2, <4>3, <4>4, <4>5
    <3>2. StaysClean(i)
      BY <2>3, <3>1 DEF StaysClean, WritePc, TruncPc
    <3>3. StaysWritten(i)
      BY <3>1 DEF StaysWritten, Touched, InodeFields
    <3> QED BY <1>i, <2>1, <3>1, <3>2, <3>3, ReadsChange
  <2>7. CASE TruncateSize(t) \/ BlockClose(t)
    <3>1. PICK S \in SUBSET {"trans", "isize"} : ver' = [ver EXCEPT ![i] = @ + 1] /\ Touched(i, S)
      <4>1. CASE TruncateSize(t)
        BY <1>i, <4>1, TruncateSizeEffect
      <4>2. CASE BlockClose(t)
        BY <1>i, <4>2, BlockCloseEffect
      <4> QED BY <2>7, <4>1, <4>2
    <3>2. ver'[i] # ver[i]
      BY <1>i, <3>1 DEF Typed, ShapesOK
    <3>3. StaysWritten(i)
      BY <3>1 DEF StaysWritten, Touched, InodeFields
    <3> QED BY <1>i, <2>1, <3>1, <3>2, <3>3, ReadsChange DEF StaysClean
  <2>8. CASE executeTruncateFS(t) \/ WriteChecks(t)
    <3>1. inode' = inode /\ th[t].pc \in {"trunc", "wchecks"}
      BY <2>8 DEF executeTruncateFS, WriteChecks, At
    <3>2. Touched(i, {})
      BY <3>1 DEF Touched, Typed, ShapesOK
    <3>3. Clean(i)
      BY <2>2, <3>1 DEF Clean, WritePc, TruncPc
    <3> QED BY <1>i, <2>1, <3>1, <3>2, <3>3, ReadsChange DEF StaysClean, StaysWritten
  <2> QED BY <1>1, <2>4, <2>5, <2>6, <2>7, <2>8 DEF Inside
<1>2. CASE TruncateLock(t) \/ TruncateUnlock(t) \/ WriteFlags(t) \/ WriteUnlock(t)
  <2>1. PICK j \in Inodes : /\ OneMoved(t) /\ Touched(j, {"lock"})
                            /\ th[t].pc \in InoPc => th[t].ino = j
                            /\ th[t].pc \notin WritePc \cup TruncPc
                            /\ th'[t].pc \notin {"rbytes", "rdone"}
                            /\ inode[j].lock \in {t, Free} \/ inode' = inode
    <3>0. inode' = inode => Touched(i, {"lock"})
      BY DEF Touched, Typed, ShapesOK
    <3>1. CASE TruncateLock(t)
      <4>1. /\ OneMoved(t) /\ th[t].pc = "locktrunc" /\ th'[t].pc \in {"call", "trunc"}
            /\ Touched(i, {"lock"})
        BY <1>i, <3>0, <3>1, TruncateLockEffect
      <4>2. inode[i].lock = Free \/ inode' = inode
        BY <1>i, <3>1, TruncateLockEffect
      <4> QED BY <4>1, <4>2 DEF InoPc, WritePc, TruncPc
    <3>2. CASE TruncateUnlock(t)
      <4>1. OneMoved(t) /\ th[t].pc = "tunlock" /\ th'[t].pc = "call" /\ Touched(i, {"lock"})
        BY <1>i, <3>2, TruncateUnlockEffect
      <4>2. inode[i].lock = t
        BY <1>i, <4>1 DEF Locked, InodeLocksHeld, InoPc
      <4> QED BY <1>i, <4>1, <4>2 DEF InoPc, WritePc, TruncPc
    <3>3. CASE WriteFlags(t)
      <4>1. /\ OneMoved(t) /\ th[t].pc = "wflags" /\ th'[t].pc \in {"wdone", "wchecks"}
            /\ \E j \in Inodes : /\ inode[j].lock = Free \/ inode' = inode
                                /\ Touched(j, {"lock"})
        BY <1>i, <3>0, <3>3, WriteFlagsEffect
      <4> QED BY <4>1 DEF InoPc, WritePc, TruncPc
    <3>4. CASE WriteUnlock(t)
      <4>1. OneMoved(t) /\ th[t].pc = "wunlock" /\ th'[t].pc = "wsync" /\ Touched(i, {"lock"})
        BY <1>i, <3>4, WriteUnlockEffect
      <4>2. inode[i].lock = t
        BY <1>i, <4>1 DEF Locked, InodeLocksHeld, InoPc
      <4> QED BY <1>i, <4>1, <4>2 DEF InoPc, WritePc, TruncPc
    <3> QED BY <1>2, <3>1, <3>2, <3>3, <3>4
  <2>2. inode'[j].data = inode[j].data /\ inode'[j].isize = inode[j].isize
    BY <2>1 DEF Touched, InodeFields
  <2>3. Clean(j)' => Clean(j)
    <3>1. CASE inode[j].lock \in {t, Free}
      BY <2>1, <3>1 DEF Clean
    <3>2. CASE inode' = inode /\ inode[j].lock \notin {t, Free}
      BY <2>1, <3>2, MovedOthers DEF Clean, OthersSame, Typed, ShapesOK, InodeType
    <3> QED BY <2>1, <3>1, <3>2
  <2> QED BY <2>1, <2>2, <2>3, ReadsChange DEF StaysClean, StaysWritten
<1> QED BY <1>1, <1>2

-----------------------------------------------------------------------------
(* The invariant holds at the start: main has made "f" and written a byte. *)
LEMMA InitTyped == Init => Typed
<1> SUFFICES ASSUME Init PROVE Typed
  OBVIOUS
<1> DEFINE made == [NewInode EXCEPT !.isize = 1, !.dsize = 1, !.data[0] = 7]
           blank == [NewInode EXCEPT !.made = FALSE]
<1>1. BlockSize \in Nat \ {0} /\ MaxFileSize \in Nat \ {0} /\ 1 \in Inodes
      /\ Inodes \subseteq Nat \ {0} /\ Programs \subseteq [Threads -> Seq(CallType)]
  BY FSAssumption
<1>2. 0 \in Offsets
  BY <1>1 DEF Offsets
<1>3. /\ made.made = TRUE /\ made.lock = Free /\ made.isize = 1 /\ made.dsize = 1
      /\ made \in InodeType
  <2>1. NewInode \in InodeType
    BY DEF NewInode, InodeType, Fresh
  <2>2. NewInode.data \in [Offsets -> Int]
    BY <2>1 DEF InodeType
  <2>3. PICK d \in [Offsets -> Int] : d = [NewInode.data EXCEPT ![0] = 7]
    <3>1. PICK a \in [Offsets -> Int] : a = NewInode.data
      BY <2>2
    <3>2. [a EXCEPT ![0] = 7] \in [Offsets -> Int]
      BY <1>2
    <3> QED BY <3>1, <3>2
  <2>4. made = [NewInode EXCEPT !.isize = 1, !.dsize = 1, !.data = d]
    BY <2>1, <2>3 DEF NewInode
  <2>5. PICK r \in InodeType : r = NewInode
    BY <2>1
  <2>6. [r EXCEPT !.isize = 1, !.dsize = 1, !.data = d] \in InodeType
    <3>1. [r EXCEPT !.isize = 1] \in InodeType
      BY DEF InodeType
    <3>2. [r EXCEPT !.isize = 1, !.dsize = 1] \in InodeType
      BY <3>1 DEF InodeType
    <3>3. PICK q \in InodeType : q = [r EXCEPT !.isize = 1, !.dsize = 1]
      BY <3>2
    <3>4. [q EXCEPT !.data = d] \in InodeType
      BY DEF InodeType
    <3> QED BY <3>3, <3>4
  <2>7. made \in InodeType
    BY <2>4, <2>5, <2>6
  <2>8. made.made = TRUE /\ made.lock = Free /\ made.isize = 1 /\ made.dsize = 1
    BY <2>4 DEF NewInode
  <2> QED BY <2>7, <2>8
<1>4. blank \in InodeType
  <2>1. NewInode \in InodeType
    BY DEF NewInode, InodeType, Fresh
  <2>2. PICK r \in InodeType : r = NewInode
    BY <2>1
  <2>3. [r EXCEPT !.made = FALSE] \in InodeType
    BY DEF InodeType
  <2> QED BY <2>2, <2>3
<1>5. inode = [i \in Inodes |-> IF i = 1 THEN made ELSE blank]
  BY DEF Init
<1> HIDE DEF made, blank
<1>6. inode \in [Inodes -> InodeType] /\ inode[1].made
  BY <1>1, <1>3, <1>4, <1>5
<1>7. dir \in [Names -> Inodes \cup {0}] /\ \A n \in Names : dir[n] \in {0, 1}
  BY <1>1 DEF Init
<1>8. PICK p \in Programs :
         th = [t \in Threads |->
                 [todo |-> p[t], pc |-> "call", rets |-> <<>>, seen |-> <<>>, ino |-> 1, fd |-> 0,
                  flags |-> {}, acc |-> {}, pos |-> 0, ret |-> 0, buf |-> <<>>, woff |-> 0,
                  done |-> 0, blk |-> 0, k |-> 0, obeg |-> 0, ver |-> 0, lost |-> {}]]
  BY DEF Init
<1>9. \A t \in Threads : /\ DOMAIN th[t] = ThreadFields /\ th[t].todo = p[t] /\ th[t].pc = "call"
                         /\ th[t].ino = 1 /\ th[t].pos = 0 /\ th[t].ret = 0 /\ th[t].woff = 0
                         /\ th[t].obeg = 0 /\ th[t].done = 0 /\ th[t].blk = 0 /\ th[t].k = 0
                         /\ th[t].ver = 0
  BY <1>8 DEF ThreadFields
<1>10. \A t \in Threads : ThreadOK(t)
  BY <1>1, <1>9 DEF ThreadOK, OpAgrees, TransPc
<1>11. \A f \in DOMAIN file : /\ DOMAIN file[f] = FileFields /\ file[f].inode = 1
                              /\ file[f].lock = Free /\ file[f].offset = 0
  BY DEF Init, FileFields
<1>12. DOMAIN moved = DOMAIN file /\ ver \in [Inodes -> Nat] /\ synced \in [Inodes -> Nat]
  BY DEF Init
<1>13. ShapesOK
  <2>1. DOMAIN th = Threads /\ \A t \in Threads : DOMAIN th[t] = ThreadFields
    BY <1>8, <1>9
  <2>2. /\ mode \in Modes /\ dirLock \in Threads \cup {Free} /\ dirTrans \in {0, 1}
        /\ error \in {"none", "VE_SystemError", "VE_InvalidTruncate", "VE_AccessFreed"}
    BY DEF Init
  <2>3. \A f \in DOMAIN file : /\ DOMAIN file[f] = FileFields
                               /\ file[f].inode \in Inodes
                               /\ file[f].lock \in Threads \cup {Free}
                               /\ file[f].offset \in Int
    BY <1>1, <1>11
  <2> QED BY <1>6, <1>7, <1>12, <2>1, <2>2, <2>3 DEF ShapesOK
<1>14. ReferencesMade
  BY <1>6, <1>7, <1>9, <1>11 DEF ReferencesMade
<1> QED BY <1>10, <1>13, <1>14 DEF Typed

LEMMA InitInv == Init => FSInv
<1> SUFFICES ASSUME Init PROVE FSInv
  OBVIOUS
<1>1. Typed
  BY InitTyped
<1>2. \A t \in Threads : /\ th[t].pc = "call" /\ th[t].ret = 0
                         /\ th[t].pc \notin DirPc \cup InoPc \cup PosPc /\ t # Free
  <2>1. \A t \in Threads : th[t].pc = "call" /\ th[t].ret = 0
    BY DEF Init
  <2> QED BY <2>1, FSAssumption DEF DirPc, TransPc, InoPc, WritePc, PosPc
<1>3. \A i \in Inodes : /\ inode[i].lock = Free /\ inode[i].isize = (IF i = 1 THEN 1 ELSE 0)
                        /\ inode[i].dsize = inode[i].isize /\ (i = 1 => inode[i].made)
                        /\ i = 1 => inode[i].data[0] = 7
  <2>1. 0 \in Offsets
    BY FSAssumption DEF Offsets
  <2>2. inode = [i \in Inodes |->
                  IF i = 1 THEN [NewInode EXCEPT !.isize = 1, !.dsize = 1, !.data[0] = 7]
                           ELSE [NewInode EXCEPT !.made = FALSE]]
    BY DEF Init
  <2> QED BY <2>1, <2>2 DEF NewInode
<1>4. Locked
  <2>1. dirLock = Free /\ dirTrans = 0 /\ \A f \in DOMAIN file : file[f].lock = Free
    BY DEF Init
  <2> QED BY <1>2, <1>3, <2>1
          DEF Locked, DirLockHeld, TransHeld, InodeLocksHeld, PosLocksHeld, InPos
<1>5. OffsetLoaded /\ OffsetExact
  BY <1>2 DEF OffsetLoaded, OffsetExact, InPos, Init
<1>6. Contents
  <2>1. want \in [Inodes -> Seq(Nat)] /\ \A i \in Inodes : want[i] = IF i = 1 THEN <<7>> ELSE <<>>
    BY DEF Init
  <2>2. 1 \in 0 .. MaxFileSize /\ 0 \in 0 .. MaxFileSize /\ \A k \in Offsets : k \in Nat
    BY FSAssumption DEF Offsets
  <2>3. ASSUME NEW i \in Inodes PROVE AtRest(i)
    <3>1. Len(want[i]) = inode[i].isize
      <4>1. Len(<<7>>) = 1 /\ Len(<<>>) = 0
        OBVIOUS
      <4>2. Len(want[i]) = IF i = 1 THEN 1 ELSE 0
        <5>1. CASE i = 1
          BY <2>1, <4>1, <5>1
        <5>2. CASE i # 1
          BY <2>1, <4>1, <5>2
        <5> QED BY <5>1, <5>2
      <4> QED BY <1>3, <4>2
    <3>2. \A p \in Offsets : p < inode[i].isize => i = 1 /\ p = 0
      BY <1>3, <2>2
    <3>3. i = 1 => want[i][0 + 1] = 7
      BY <2>1
    <3> QED BY <1>3, <3>1, <3>2, <3>3 DEF AtRest, Kept
  <2>4. \A i \in Inodes : /\ inode[i].isize \in 0 .. MaxFileSize
                          /\ inode[i].dsize \in 0 .. MaxFileSize
                          /\ ~inode[i].made => inode[i].isize = 0
    BY <1>3, <2>2
  <2>5. \A i \in Inodes : Settled(i)
    BY <2>1, <2>3, <2>4, SettledAtRest
  <2>6. WritesOnTheWay /\ TruncsOnTheWay
    BY <1>2 DEF WritesOnTheWay, WritePc, TruncsOnTheWay, TruncPc
  <2>7. NothingUninitialised
    <3>1. \A i \in Inodes, k \in Offsets : k < inode[i].dsize => i = 1 /\ k = 0
      BY <1>3, <2>2
    <3> QED BY <1>3, <3>1 DEF NothingUninitialised, Fresh
  <2>8. OrderedDataCovers
    <3>1. mdwrite.new = 0 /\ mdwrite.old = 0
      BY DEF Init
    <3> QED BY <3>1 DEF OrderedDataCovers
  <2> QED BY <2>1, <2>4, <2>5, <2>6, <2>7, <2>8 DEF Contents
<1>7. Versions
  <2>1. \A i \in Inodes : synced[i] = 0 /\ ver[i] = 0
    BY DEF Init
  <2> QED BY <1>2, <2>1 DEF Versions, SyncWritesDurable
<1>8. Reads
  BY <1>2 DEF Reads, Reading
<1> QED BY <1>1, <1>4, <1>5, <1>6, <1>7, <1>8 DEF FSInv

-----------------------------------------------------------------------------
(* A step that changes nothing but the reported error.                     *)
LEMMA SameInv ==
    ASSUME FSInv, Typed',
           UNCHANGED <<mode, dir, dirLock, dirTrans, inode, file, th, want, moved, ver, synced, mdwrite>>
    PROVE  FSInv'
<1>1. Locked'
  BY DEF FSInv, Locked, DirLockHeld, TransHeld, InodeLocksHeld, PosLocksHeld, InPos, Positional,
         Call, Fd
<1>2. (OffsetLoaded /\ OffsetExact)'
  BY DEF FSInv, OffsetLoaded, OffsetExact, InPos, Positional, Call, Fd
<1>3. Contents'
  <2>1. WritesOnTheWay' /\ TruncsOnTheWay'
    BY SameProgress DEF FSInv, Contents, WritesOnTheWay, TruncsOnTheWay
  <2> QED BY <2>1 DEF FSInv, Contents, Quiet, Settled, Content, NothingUninitialised, OrderedDataCovers
<1>4. Versions'
  BY DEF FSInv, Versions, SyncWritesDurable
<1>5. Reads'
  BY DEF FSInv, Reads, Reading, ReadOnTheWay, Undisturbed, Clean
<1> QED BY <1>1, <1>2, <1>3, <1>4, <1>5 DEF FSInv

(* One step, by the family its action belongs to.                          *)
LEMMA StepInv ==
    ASSUME FSInv, NEW t \in Threads, Step(t)
    PROVE  FSInv'
<1>0. Typed /\ Locked /\ OffsetsKept /\ Contents /\ Versions /\ Reads /\ WritesOnTheWay
  BY DEF FSInv, OffsetsKept, Contents
<1>1. CASE \/ CallOpen(t) \/ LookupTrans(t) \/ LookupEntry(t) \/ OpenFile(t) \/ CallClose(t)
           \/ BadDescriptor(t) \/ CallFsync(t) \/ CallSync(t)
           \/ LockDir(t) \/ LookupOrCreate(t) \/ LookupTruncate(t)
           \/ CallLink(t) \/ CallUnlink(t) \/ CallRename(t)
           \/ RenameLink(t) \/ RenameUnlink(t) \/ RenameEnd(t)
  <2>1. Typed'
    BY <1>0, <1>1, TypedNames, TypedDirectory, TypedCreate, TypedOpen, TypedPosition, TypedReads
  <2>2. Locked'
    BY <1>0, <1>1, LockedOutside, LockedDirectory
  <2>3. OffsetsKept'
    BY <1>0, <1>1, OffsetsOutside
  <2>4. Contents'
    BY <1>0, <1>1, ContentsOutside
  <2>5. Versions' /\ Growing
    BY <1>0, <1>1, <2>1, VersionsOutside
  <2>6. Reads'
    BY <1>0, <1>1, <2>1, <2>5, ReadsOutside
  <2> QED BY <2>1, <2>2, <2>3, <2>4, <2>5, <2>6 DEF FSInv, OffsetsKept
<1>2. CASE \/ CallRead(t) \/ CallWrite(t) \/ CallLseek(t) \/ CallPread(t) \/ CallPwrite(t)
           \/ ReadSize(t) \/ ReadByte(t) \/ WriteSync(t)
           \/ ReadDone(t) \/ WriteDone(t) \/ executeLseekFS(t)
  <2>1. Typed'
    BY <1>0, <1>2, TypedPosition, TypedReads
  <2>2. Locked'
    BY <1>0, <1>2, LockedReads
  <2>3. OffsetsKept'
    BY <1>0, <1>2, OffsetsReads
  <2>4. Contents'
    BY <1>0, <1>2, ContentsOutside
  <2>5. Versions' /\ Growing
    BY <1>0, <1>2, <2>1, VersionsReads
  <2>6. Reads'
    BY <1>0, <1>2, <2>1, <2>5, ReadsReads
  <2> QED BY <2>1, <2>2, <2>3, <2>4, <2>5, <2>6 DEF FSInv, OffsetsKept
<1>3. CASE \/ Inside(t) \/ TruncateLock(t) \/ TruncateUnlock(t) \/ WriteFlags(t) \/ WriteUnlock(t)
  <2>1. Typed'
    BY <1>0, <1>3, TypedWrites DEF Inside
  <2>2. Locked'
    BY <1>0, <1>3, LockedWrites
  <2>3. OffsetsKept'
    BY <1>0, <1>3, OffsetsWrites
  <2>4. Contents'
    BY <1>0, <1>3, ContentsWrites
  <2>5. Versions' /\ Growing
    BY <1>0, <1>3, <2>1, VersionsWrites
  <2>6. Reads'
    BY <1>0, <1>3, <2>1, <2>2, <2>5, ReadsWrites
  <2> QED BY <2>1, <2>2, <2>3, <2>4, <2>5, <2>6 DEF FSInv, OffsetsKept
<1>4. CASE UseFreed(t)
  <2>1. Typed'
    BY <1>0, <1>4, TypedReads
  <2>2. UNCHANGED <<mode, dir, dirLock, dirTrans, inode, file, th, want, moved, ver, synced, mdwrite>>
    BY <1>4 DEF UseFreed, history
  <2> QED BY <2>1, <2>2, SameInv
<1> QED BY <1>1, <1>2, <1>3, <1>4 DEF Step, Inside

LEMMA StutterInv == FSInv /\ UNCHANGED vars => FSInv'
<1> SUFFICES ASSUME FSInv, UNCHANGED vars PROVE FSInv'
  OBVIOUS
<1>1. Typed'
  <2>1. \A t \in Threads : ThreadOK(t)'
    BY SameThread DEF FSInv, Typed, vars
  <2> QED BY <2>1 DEF FSInv, Typed, ShapesOK, ReferencesMade, vars
<1> QED BY <1>1, SameInv DEF vars

(* The whole invariant: types, locks, offsets, contents in the middle of a *)
(* write, versions, and what a read in progress has collected.             *)
THEOREM InvHolds == Spec => []FSInv
<1>1. FSInv /\ [Next]_vars => FSInv'
  <2> SUFFICES ASSUME FSInv, [Next]_vars PROVE FSInv'
    OBVIOUS
  <2>1. CASE UNCHANGED vars
    BY <2>1, StutterInv
  <2>2. CASE Next
    BY <2>2, StepInv, StutterInv DEF Next, Done
  <2> QED BY <2>1, <2>2
<1> QED BY <1>1, InitInv, PTL DEF Spec

-----------------------------------------------------------------------------
(* Steps on disk: who may take them, and which way the sizes go.           *)
OrderedBy(t) ==
    /\ \A i \in Inodes : inode[i].made /\ inode'[i] # inode[i] =>
          inode[i].lock = t \/ (/\ inode'[i].data = inode[i].data
                                /\ inode'[i].dsize = inode[i].dsize
                                /\ inode'[i].trans = inode[i].trans)
    /\ dir' # dir => dirLock = t
    /\ \A i \in Inodes : inode[i].dsize <= inode'[i].dsize \/ (th[t].pc = "tdisk" /\ th[t].ino = i)

(* The holder of the lock changes its inode, without shrinking it.         *)
LEMMA OrderedHolder ==
    ASSUME FSInv, NEW t \in Threads, NEW i \in Inodes, NEW S, Touched(i, S), dir' = dir,
           inode[i].lock = t \/ S \subseteq {"lock"},
           inode[i].dsize <= inode'[i].dsize \/ (th[t].pc = "tdisk" /\ th[t].ino = i)
    PROVE  OrderedBy(t)
<1>1. \A j \in Inodes \ {i} : inode'[j] = inode[j]
  BY DEF Touched
<1>2. \A j \in Inodes : inode[j].dsize \in Int
  BY DEF FSInv, Typed, ShapesOK, InodeType
<1>3. \A j \in Inodes : j # i => inode[j].dsize <= inode'[j].dsize
  BY <1>1, <1>2
<1>4. S \subseteq {"lock"} => /\ inode'[i].data = inode[i].data
                              /\ inode'[i].dsize = inode[i].dsize
                              /\ inode'[i].trans = inode[i].trans
  BY DEF Touched, InodeFields
<1> QED BY <1>1, <1>3, <1>4 DEF OrderedBy

LEMMA OrderedQuiet ==
    ASSUME FSInv, NEW t \in Threads, inode' = inode, dir' # dir => dirLock = t
    PROVE  OrderedBy(t)
<1>1. \A j \in Inodes : inode[j].dsize \in Int
  BY DEF FSInv, Typed, ShapesOK, InodeType
<1> QED BY <1>1 DEF OrderedBy

LEMMA OrderedNames ==
    ASSUME FSInv, NEW t \in Threads,
           \/ LockDir(t) \/ LookupOrCreate(t) \/ LookupTruncate(t)
           \/ CallLink(t) \/ CallUnlink(t) \/ CallRename(t)
           \/ RenameLink(t) \/ RenameUnlink(t) \/ RenameEnd(t)
    PROVE  OthersSame(t) /\ OrderedBy(t)
<1> USE DEF history
<1>0. Typed /\ Locked /\ Contents
  BY DEF FSInv
<1>1. OthersSame(t)
  BY <1>0, LockedDirectory
<1>2. dir' # dir => dirLock = t
  <2>1. dir' # dir => th[t].pc \in DirPc
    BY DEF LockDir, LookupOrCreate, LookupTruncate, CallLink, CallUnlink, CallRename, RenameLink,
           RenameUnlink, RenameEnd, At, DirPc, TransPc
  <2> QED BY <1>0, <2>1 DEF Locked, DirLockHeld
<1>3. CASE inode' = inode
  BY <1>1, <1>2, <1>3, OrderedQuiet
<1>4. CASE LookupOrCreate(t) /\ inode' # inode
  <2>1. PICK i \in FreshInodes : executeInodeCreateFS(Call(t).name, i)
    BY <1>4 DEF LookupOrCreate
  <2>2. i \in Inodes /\ inode[i].lock = Free /\ ~inode[i].made
    BY <1>0, FreshUnlocked DEF FreshInodes
  <2>3. inode'[i] = NewInode /\ \A j \in Inodes \ {i} : inode'[j] = inode[j]
    BY <1>0, <2>1, <2>2 DEF executeInodeCreateFS, Typed, ShapesOK
  <2>4. NewInode.dsize = 0
    BY DEF NewInode
  <2>5. inode[i].dsize = 0
    <3>1. Quiet(i) /\ inode[i].isize = 0
      BY <1>0, <2>2 DEF Quiet, Contents
    <3> QED BY <1>0, <2>2, <3>1 DEF Contents, Settled
  <2>6. \A j \in Inodes : inode[j].dsize \in Int
    BY <1>0 DEF Typed, ShapesOK, InodeType
  <2>7. \A j \in Inodes : inode[j].dsize <= inode'[j].dsize
    BY <2>2, <2>3, <2>4, <2>5, <2>6
  <2> QED BY <1>1, <1>2, <2>2, <2>3, <2>7 DEF OrderedBy
<1>5. inode' = inode \/ LookupOrCreate(t)
  BY DEF LockDir, LookupTruncate, CallLink, CallUnlink, CallRename, RenameLink,
         RenameUnlink, RenameEnd
<1> QED BY <1>3, <1>4, <1>5

(* A step inside a call: a block ends at the end of a block of the file or *)
(* of the write, never short of the size on disk, and the early size is    *)
(* above the file's.                                                       *)
LEMMA DisksizeGrows ==
    ASSUME FSInv, NEW t \in Threads, Inside(t), NEW i \in Inodes, i = th[t].ino
    PROVE  \E S : /\ Touched(i, S)
                  /\ inode[i].dsize <= inode'[i].dsize \/ (th[t].pc = "tdisk" /\ th[t].ino = i)
<1>0. Typed /\ Locked /\ Contents /\ WritesOnTheWay
  BY DEF FSInv, Contents
<1>1. inode[i].dsize \in Int /\ inode[i].dsize <= inode[i].dsize
  BY <1>0 DEF Typed, ShapesOK, InodeType
<1>2. ASSUME NEW S, Touched(i, S), "dsize" \notin S PROVE inode'[i].dsize = inode[i].dsize
  BY <1>2 DEF Touched, InodeFields
<1>3. CASE executeTruncateFS(t) \/ WriteChecks(t)
  <2>1. inode' = inode
    BY <1>3 DEF executeTruncateFS, WriteChecks
  <2>2. Touched(i, {})
    BY <1>0, <2>1 DEF Touched, Typed, ShapesOK
  <2> QED BY <1>1, <2>1, <2>2
<1>4. CASE TruncateZero(t) \/ ZeroEarly(t) \/ ZeroHole(t)
  <2>1. PICK to, next : /\ zeroDskRangeFS(t, to, next)
                        /\ \/ th[t].pc = "tzero" /\ next = "tdisk"
                           \/ th[t].pc = "wearly" /\ next = "wraise"
                           \/ th[t].pc = "whole" /\ next = "wopen"
    BY <1>4 DEF TruncateZero, ZeroEarly, ZeroHole, At
  <2>2. Touched(i, {"data"})
    BY <1>0, <2>1, ZeroEffect
  <2> QED BY <1>1, <1>2, <2>2
<1>5. CASE TruncateDisk(t)
  BY <1>0, <1>5, TruncateDiskEffect
<1>6. CASE TruncateSize(t) \/ BlockSizeUp(t)
  <2>1. Touched(i, {"isize"})
    BY <1>0, <1>6, TruncateSizeEffect, BlockSizeUpEffect
  <2> QED BY <1>1, <1>2, <2>1
<1>7. CASE BlockOpen(t) \/ BlockClose(t)
  <2>1. Touched(i, {"trans"})
    BY <1>0, <1>7, BlockOpenEffect, BlockCloseEffect
  <2> QED BY <1>1, <1>2, <2>1
<1>8. CASE WriteByte(t)
  <2>1. Touched(i, {"data"})
    BY <1>0, <1>8, WriteByteEffect
  <2> QED BY <1>1, <1>2, <2>1
<1>9. CASE RaiseEarly(t)
  <2>1. th[t].pc = "wraise" /\ Touched(i, {"dsize"}) /\ inode'[i].dsize = EarlySize(t) /\ EarlySize(t) \in Int
    BY <1>0, <1>9, RaiseEarlyEffect
  <2>2. inode[i].dsize = inode[i].isize /\ inode[i].isize < EarlySize(t)
    BY <1>0, <2>1 DEF WritesOnTheWay, WritePc, ZeroesOnTheWay
  <2>3. inode[i].dsize <= inode'[i].dsize
    BY <1>1, <2>1, <2>2
  <2> QED BY <2>1, <2>3
<1>10. CASE BlockDisksize(t)
  <2>1. /\ th[t].pc = "wbytes" /\ th[t].k = th[t].blk /\ newSize(t) > inode[i].isize
        /\ Touched(i, {"dsize"}) /\ inode'[i].dsize = newSize(t)
    BY <1>0, <1>10, BlockDisksizeEffect
  <2>2. th[t].pc \in BlockPc /\ th[t].pc # "wsize"
    BY <2>1 DEF BlockPc
  <2>3. PICK j \in Inodes, w \in Int, r \in Int, size \in Int, isz \in Nat, dsz \in Nat :
           Numbers(t, j, w, r, size, isz, dsz)
    BY <1>0, <2>2, BlockNumbers
  <2>4. AtBlockEnd(t, j, w, r, size, isz, dsz)
    BY <1>0, <2>1, <2>2, <2>3, BlockEnds
  <2>5. j = i /\ size = newSize(t) /\ isz = inode[i].isize /\ dsz = inode[i].dsize
    BY <2>3 DEF Numbers
  <2>6. dsz <= size
    BY <2>1, <2>2, <2>4, <2>5, BlockPastDisk
  <2> QED BY <2>1, <2>5, <2>6
<1> QED BY <1>3, <1>4, <1>5, <1>6, <1>7, <1>8, <1>9, <1>10 DEF Inside

LEMMA OrderedWrites ==
    ASSUME FSInv, NEW t \in Threads,
           \/ Inside(t) \/ TruncateLock(t) \/ TruncateUnlock(t) \/ WriteFlags(t) \/ WriteUnlock(t)
    PROVE  OthersSame(t) /\ OrderedBy(t)
<1>0. Typed /\ Locked /\ Contents /\ WritesOnTheWay /\ InodeLocksHeld
  BY DEF FSInv, Contents, Locked
<1>i. PICK i \in Inodes : i = th[t].ino
  BY <1>0 DEF Typed, ThreadOK
<1>1. CASE Inside(t)
  <2>1. OneMoved(t) /\ dir' = dir /\ th[t].pc \in InoPc
    BY <1>0, <1>1, InsideStep DEF TruncIn, WriteIn, InoPc
  <2>2. inode[i].lock = t
    BY <1>0, <1>i, <2>1 DEF InodeLocksHeld
  <2>3. PICK S : /\ Touched(i, S)
                 /\ inode[i].dsize <= inode'[i].dsize \/ (th[t].pc = "tdisk" /\ th[t].ino = i)
    BY <1>1, <1>i, DisksizeGrows
  <2> QED BY <2>1, <2>2, <2>3, MovedOthers, OrderedHolder
<1>2. CASE TruncateLock(t) \/ TruncateUnlock(t) \/ WriteFlags(t) \/ WriteUnlock(t)
  <2>0. dir' = dir
    BY <1>2 DEF TruncateLock, TruncateUnlock, WriteFlags, WriteUnlock
  <2>1. /\ OneMoved(t)
        /\ inode' = inode \/ \E j \in Inodes : Touched(j, {"lock"})
    <3>1. CASE TruncateLock(t)
      BY <1>0, <1>i, <3>1, TruncateLockEffect
    <3>2. CASE WriteFlags(t)
      BY <1>0, <3>2, WriteFlagsEffect
    <3>3. CASE TruncateUnlock(t)
      BY <1>0, <1>i, <3>3, TruncateUnlockEffect
    <3>4. CASE WriteUnlock(t)
      BY <1>0, <1>i, <3>4, WriteUnlockEffect
    <3> QED BY <1>2, <3>1, <3>2, <3>3, <3>4
  <2>2. CASE inode' = inode
    BY <2>0, <2>1, <2>2, MovedOthers, OrderedQuiet
  <2>3. CASE \E j \in Inodes : Touched(j, {"lock"})
    <3>1. PICK j \in Inodes : Touched(j, {"lock"})
      BY <2>3
    <3>2. inode[j].dsize <= inode'[j].dsize
      <4>1. inode'[j].dsize = inode[j].dsize /\ inode[j].dsize \in Int
        BY <1>0, <3>1 DEF Touched, InodeFields, Typed, ShapesOK, InodeType
      <4> QED BY <4>1
    <3> QED BY <2>0, <2>1, <3>1, <3>2, MovedOthers, OrderedHolder
  <2> QED BY <2>1, <2>2, <2>3
<1> QED BY <1>1, <1>2

LEMMA OrderStep ==
    ASSUME FSInv, NEW t \in Threads, Step(t)
    PROVE  OthersSame(t) /\ OrderedBy(t)
<1> USE DEF history
<1>0. Typed /\ Locked
  BY DEF FSInv
<1>1. CASE \/ CallOpen(t) \/ LookupTrans(t) \/ LookupEntry(t) \/ OpenFile(t) \/ CallClose(t)
           \/ BadDescriptor(t) \/ CallFsync(t) \/ CallSync(t)
  <2>1. inode' = inode /\ dir' = dir
    BY <1>1 DEF CallOpen, LookupTrans, LookupEntry, OpenFile, CallClose, BadDescriptor,
                CallFsync, CallSync
  <2> QED BY <1>0, <1>1, <2>1, LockedOutside, OrderedQuiet
<1>2. CASE \/ LockDir(t) \/ LookupOrCreate(t) \/ LookupTruncate(t)
           \/ CallLink(t) \/ CallUnlink(t) \/ CallRename(t)
           \/ RenameLink(t) \/ RenameUnlink(t) \/ RenameEnd(t)
  BY <1>2, OrderedNames
<1>3. CASE \/ CallRead(t) \/ CallWrite(t) \/ CallLseek(t) \/ CallPread(t) \/ CallPwrite(t)
           \/ ReadSize(t) \/ ReadByte(t) \/ WriteSync(t)
           \/ ReadDone(t) \/ WriteDone(t) \/ executeLseekFS(t)
  <2>1. inode' = inode /\ dir' = dir
    BY <1>3 DEF CallRead, CallWrite, CallLseek, LockPos, CallPread, CallPwrite, AtOffset,
                ReadSize, ReadByte, WriteSync, ReadDone, WriteDone, executeLseekFS
  <2> QED BY <1>0, <1>3, <2>1, LockedReads, OrderedQuiet
<1>4. CASE \/ Inside(t) \/ TruncateLock(t) \/ TruncateUnlock(t) \/ WriteFlags(t) \/ WriteUnlock(t)
  BY <1>4, OrderedWrites
<1>5. CASE UseFreed(t)
  <2>1. inode' = inode /\ dir' = dir /\ th' = th
    BY <1>5 DEF UseFreed
  <2> QED BY <2>1, OrderedQuiet DEF OthersSame, LostKept
<1> QED BY <1>1, <1>2, <1>3, <1>4, <1>5 DEF Step, Inside

-----------------------------------------------------------------------------
(* A read, which takes no lock on the inode, returns no byte that nobody   *)
(* has written, whatever writes and truncations it races with, and what    *)
(* POSIX prescribes when no block and no truncation has come between its   *)
(* load of the size and its end.                                           *)
LEMMA ReadsAreAsWritten == FSInv => ReadsAsWritten
<1> SUFFICES ASSUME FSInv, NEW t \in Threads, th[t].pc = "rdone", th[t].ret > 0, th[t].pos >= 0
             PROVE  /\ \A k \in 1 .. th[t].ret : th[t].buf[k] # Fresh
                    /\ inode[th[t].ino].lock = Free /\ ver[th[t].ino] = th[t].ver
                         => th[t].buf = SubSeq(want[th[t].ino], th[t].pos + 1, th[t].pos + th[t].ret)
  BY DEF ReadsAsWritten
<1>1. ReadOnTheWay(t)
  BY DEF FSInv, Reads, Reading
<1>2. PICK i \in Inodes, p \in Nat, r \in Nat, b \in Seq(Int), w \in Seq(Nat), s \in 0 .. MaxFileSize :
         /\ i = th[t].ino /\ p = th[t].pos /\ r = th[t].ret /\ b = th[t].buf /\ w = want[i]
         /\ s = inode[i].isize
  <2>1. th[t].ino \in Inodes /\ th[t].pos \in Int /\ th[t].ret \in Int
    BY DEF FSInv, Typed, ThreadOK
  <2>2. th[t].buf \in Seq(Int)
    BY <1>1 DEF ReadOnTheWay
  <2>3. \A i \in Inodes : want[i] \in Seq(Nat)
    BY DEF FSInv, Contents
  <2>4. \A i \in Inodes : inode[i].isize \in 0 .. MaxFileSize
    BY DEF FSInv, Contents
  <2>5. th[t].pos \in Nat /\ th[t].ret \in Nat
    BY <2>1
  <2> QED BY <2>1, <2>2, <2>3, <2>4, <2>5
<1>3. Len(b) = r /\ r > 0 /\ \A k \in 1 .. r : b[k] # Fresh
  BY <1>1, <1>2 DEF ReadOnTheWay
<1>4. ASSUME inode[i].lock = Free, ver[i] = th[t].ver
      PROVE  b = SubSeq(w, p + 1, p + r)
  <2>1. p + r <= s /\ \A k \in 1 .. r : b[k] = inode[i].data[p + k - 1]
    BY <1>1, <1>2, <1>3, <1>4 DEF ReadOnTheWay, Undisturbed, Clean
  <2>2. AtRest(i)
    BY <1>2, <1>4, SettledAtRest DEF FSInv, Contents, Quiet
  <2>3. Len(w) = s /\ \A q \in Offsets : q < s => inode[i].data[q] = w[q + 1]
    BY <1>2, <2>2 DEF AtRest, Kept
  <2>4. \A k \in p + 1 .. p + r : w[k] \in Int
    BY <2>1, <2>3
  <2>5. /\ SubSeq(w, p + 1, p + r) \in Seq(Int) /\ Len(SubSeq(w, p + 1, p + r)) = r
        /\ \A k \in 1 .. r : SubSeq(w, p + 1, p + r)[k] = w[p + k]
    BY <1>3, <2>1, <2>3, <2>4
  <2>6. ASSUME NEW k \in 1 .. r PROVE b[k] = w[p + k]
    <3>1. p + k - 1 \in Offsets /\ p + k - 1 < s /\ (p + k - 1) + 1 = p + k
      BY <2>1, FSAssumption DEF Offsets
    <3> QED BY <2>1, <2>3, <3>1
  <2> QED BY <1>3, <2>5, <2>6, SeqEqual
<1> QED BY <1>2, <1>3, <1>4

(* What a program sees of its files is what POSIX says, whatever the       *)
(* threads, the programs, the block size and the size limit: the           *)
(* block-wise write under the inode lock loses no append and exposes no    *)
(* old byte in a hole, an unlocked read returns what was written, calls on *)
(* a shared description move its offset one after another, and no call     *)
(* returns with a lock held, but for the position lock of a write of       *)
(* LockFailed bytes.                                                       *)
THEOREM FilesArePosix == Spec => []FilesAsPosix
<1>1. FSInv => FilesAsPosix
  <2> SUFFICES ASSUME FSInv PROVE FilesAsPosix
    OBVIOUS
  <2>1. TypeOK
    <3>1. \A i \in Inodes : DOMAIN inode[i].data = Offsets
      BY DEF FSInv, Typed, ShapesOK, InodeType
    <3>2. \A i \in Inodes : /\ inode[i].isize \in 0 .. MaxFileSize
                            /\ inode[i].dsize \in 0 .. MaxFileSize
      BY DEF FSInv, Contents
    <3> QED BY <3>1, <3>2 DEF FSInv, Typed, ShapesOK, ThreadOK, TypeOK
  <2>2. ContentAsPosix
    BY DEF ContentAsPosix, FSInv, Contents, Quiet, Settled
  <2>3. LocksReleased
    BY DEF LocksReleased, FSInv, Locked, DirLockHeld, InodeLocksHeld, PosLocksHeld, DirPc, TransPc,
           InoPc, WritePc, PosPc
  <2> QED BY <2>1, <2>2, <2>3, ReadsAreAsWritten DEF FilesAsPosix, FSInv
<1> QED BY <1>1, InvHolds, PTL

(* What a crash could leave on disk is a file of the program: the sizes    *)
(* agree between writers, the size on disk covers no byte nobody has       *)
(* written, the range ordered before a size covers what the size exposes,  *)
(* and a synchronous write has been synced when it returns.                *)
THEOREM DiskIsConsistent == Spec => []DiskConsistent
<1>1. FSInv => DiskConsistent
  BY DEF FSInv, Contents, Versions, Quiet, Settled, DiskConsistent, SizesAgree
<1> QED BY <1>1, InvHolds, PTL

(* Every change of an inode's data, size on disk or transaction flag, and  *)
(* of a directory entry, is made under the lock over it, which is what     *)
(* orders the disk writes; and only truncation lowers the size on disk,    *)
(* although delayed allocation raises it before the data is there.         *)
THEOREM DiskStepsOrdered == Spec => DiskOrder
<1>1. FSInv /\ [Next]_vars => [DisksizeOnlyGrows /\ DiskWritesOrdered]_vars
  <2> SUFFICES ASSUME FSInv, NEW t \in Threads, Step(t)
               PROVE  DisksizeOnlyGrows /\ DiskWritesOrdered
    BY DEF Next, Done
  <2>1. OthersSame(t) /\ OrderedBy(t)
    BY OrderStep
  <2>2. DisksizeOnlyGrows
    <3> SUFFICES ASSUME NEW i \in Inodes, inode[i].dsize > inode'[i].dsize
                 PROVE  th[t].pc = "tdisk" /\ th[t].ino = i
      BY DEF DisksizeOnlyGrows
    <3>1. inode[i].dsize \in Int /\ inode'[i].dsize \in Int
      <4>1. Typed'
        BY StepInv DEF FSInv
      <4> QED BY <4>1 DEF FSInv, Typed, ShapesOK, InodeType
    <3>2. ~(inode[i].dsize <= inode'[i].dsize)
      BY <3>1
    <3> QED BY <2>1, <3>2 DEF OrderedBy
  <2>3. DiskWritesOrdered
    BY <2>1 DEF DiskWritesOrdered, OthersSame, OrderedBy
  <2> QED BY <2>2, <2>3
<1> QED BY <1>1, InvHolds, PTL DEF Spec, DiskOrder

-----------------------------------------------------------------------------
(* Names.  A call that gives no file a second name for good, nor the name  *)
(* "f" again: not a link, not a rename to "f".                             *)
OneNameCall(c) == c.op # "link" /\ (c.op = "rename" => c.to # "f")

(* Threads have only such calls left; at first, it says so of the program. *)
PlainCalls == \A t \in Threads : \A k \in 1 .. Len(th[t].todo) : OneNameCall(th[t].todo[k])

(* Thread t is between the two halves of a rename from m to n.             *)
Renaming(t, m, n) == th[t].pc = "runlink" /\ Call(t).name = m /\ Call(t).to = n

(* Two names share an inode only there.                                    *)
NamedOnce ==
    \A m, n \in Names : m # n /\ dir[m] = dir[n] /\ dir[m] # 0 =>
        \E t \in Threads : Renaming(t, m, n) \/ Renaming(t, n, m)

(* A rename under way has raised the flag, and its old name still stands.  *)
RenameBegun ==
    \A t \in Threads :
        /\ th[t].pc \in TransPc => dirTrans = 1
        /\ th[t].pc = "rlink" => dir[Call(t).name] = th[t].ino /\ Call(t).name # Call(t).to

(* What a thread has found exists.                                         *)
SeenMade ==
    \A t \in Threads :
        /\ th[t].seen \in Seq(Names \X Inodes)
        /\ \A k \in 1 .. Len(th[t].seen) : inode[th[t].seen[k][2]].made

(* What was found under another name is still "f" only in the middle of a  *)
(* rename of "f", and nobody who found it has passed the flag since.       *)
FoundElsewhere(u, i) ==
    \E k \in 1 .. Len(th[u].seen) : th[u].seen[k][1] # "f" /\ th[u].seen[k][2] = i

FoundLate ==
    "f" \in Names =>
      \A u \in Threads : FoundElsewhere(u, dir["f"]) =>
        /\ th[u].pc \notin {"entry", "dir"}
        /\ \E t \in Threads : th[t].pc = "runlink" /\ Call(t).name = "f"

(* RenameAtomic, for every new name.                                       *)
SeenInOrder ==
    \A t \in Threads : \A k, l \in 1 .. Len(th[t].seen) :
        k < l /\ th[t].seen[k][1] # "f" /\ th[t].seen[l][1] = "f"
          => th[t].seen[k][2] # th[t].seen[l][2]

NamesInv == PlainCalls /\ NamedOnce /\ RenameBegun /\ SeenMade /\ FoundLate /\ SeenInOrder

-----------------------------------------------------------------------------
(* A step of thread t that finds nothing under a name: it stays in its     *)
(* call or returns from it.                                                *)
OnlyMoves(t) == \A u \in Threads : u # t => th'[u] = th[u]

InCall(t) ==
    /\ OnlyMoves(t) /\ th'[t].seen = th[t].seen
    /\ th'[t].todo = th[t].todo \/ (th[t].todo # <<>> /\ th'[t].todo = Tail(th[t].todo))

(* Inside a call, when what was seen is not among the fields set.          *)
LEMMA SetUnseen ==
    ASSUME Typed, NEW t \in Threads, NEW fields,
           "pc" \in DOMAIN fields, DOMAIN fields \subseteq ThreadFields \ {"seen", "todo"},
           Set(t, fields)
    PROVE  InCall(t) /\ th'[t].pc = fields["pc"] /\ th'[t].todo = th[t].todo
<1>1. ShapesOK
  BY DEF Typed
<1>2. /\ \A u \in Threads : u # t => th'[u] = th[u]
      /\ \A x \in ThreadFields : th'[t][x] = IF x \in DOMAIN fields THEN fields[x] ELSE th[t][x]
  BY <1>1, Setting
<1>3. "seen" \in ThreadFields /\ "todo" \in ThreadFields /\ "pc" \in ThreadFields
  BY DEF ThreadFields
<1>4. /\ th'[t]["seen"] = th[t]["seen"] /\ th'[t]["todo"] = th[t]["todo"]
      /\ th'[t]["pc"] = fields["pc"]
  BY <1>2, <1>3
<1> QED BY <1>2, <1>4 DEF OnlyMoves, InCall

(* A call that returns has found nothing in its last step.                 *)
LEMMA ReturnUnseen ==
    ASSUME Typed, NEW t \in Threads, NEW v, th[t].todo # <<>>, Return(t, v)
    PROVE  InCall(t) /\ th'[t].pc = "call"
<1>1. /\ DOMAIN Returned(t, v) = {"pc", "todo", "rets"}
      /\ Returned(t, v)["pc"] = "call" /\ Returned(t, v)["todo"] = Tail(th[t].todo)
  BY DEF Returned
<1>2. ShapesOK /\ Set(t, Returned(t, v)) /\ DOMAIN Returned(t, v) \subseteq ThreadFields
  BY <1>1 DEF Typed, Return, ThreadFields
<1>3. /\ \A u \in Threads : u # t => th'[u] = th[u]
      /\ \A x \in ThreadFields :
           th'[t][x] = IF x \in DOMAIN Returned(t, v) THEN Returned(t, v)[x] ELSE th[t][x]
  BY <1>2, Setting
<1>4. "seen" \in ThreadFields /\ "todo" \in ThreadFields /\ "pc" \in ThreadFields
  BY DEF ThreadFields
<1>5. /\ th'[t]["seen"] = th[t]["seen"] /\ th'[t]["todo"] = Tail(th[t].todo)
      /\ th'[t]["pc"] = "call"
  BY <1>1, <1>3, <1>4
<1> QED BY <1>3, <1>5 DEF OnlyMoves, InCall

(* A thread inside a call has the call to do.                              *)
LEMMA CallToDo ==
    ASSUME Typed, NEW t \in Threads, Step(t)
    PROVE  th[t].todo # <<>> /\ Call(t) \in CallType
<1>1. th[t].todo \in Seq(CallType) /\ (th[t].pc # "call" => th[t].todo # <<>>)
  BY DEF Typed, ThreadOK
<1>2. th[t].pc # "call" \/ th[t].todo # <<>>
  BY ZenonT(60) DEF Step, CallOpen, LookupTrans, LookupEntry, LockDir, LookupOrCreate, OpenFile,
         LookupTruncate, TruncateLock, executeTruncateFS, TruncateZero, TruncateDisk, TruncateSize,
         TruncateUnlock, ZeroEarly, RaiseEarly, ZeroHole, BlockWritten, BlockDisksize, BlockSizeUp,
         WriteUnlock, CallClose, UseFreed, UsesDesc, CallLink,
         CallUnlink, CallRename, RenameLink, RenameUnlink, RenameEnd, BadDescriptor, CallRead,
         CallWrite, CallLseek, CallPread, CallPwrite, ReadSize, ReadByte, ReadDone, WriteFlags,
         WriteChecks, BlockOpen, WriteByte, BlockClose, WriteSync, WriteDone, executeLseekFS,
         CallFsync, CallSync, Calls, At
<1> QED BY <1>1, <1>2 DEF Call

(* A step that concerns neither names nor what was found under them.       *)
MadeStays == \A i \in Inodes : inode[i].made => inode'[i].made
NamePc == {"entry", "dir"} \cup TransPc

Unnamed(t) ==
    /\ InCall(t) /\ MadeStays /\ UNCHANGED <<dir, dirTrans>>
    /\ th[t].pc # "runlink" /\ th'[t].pc \notin TransPc
    /\ th'[t].pc \in {"entry", "dir"} => dirTrans = 0

(* Reading, seeking, syncing, closing.                                     *)
LEMMA UnnamedReads ==
    ASSUME Typed, NEW t \in Threads, Step(t),
           \/ CallRead(t) \/ CallWrite(t) \/ CallLseek(t) \/ CallPread(t) \/ CallPwrite(t)
           \/ ReadSize(t) \/ ReadByte(t) \/ WriteSync(t)
           \/ ReadDone(t) \/ WriteDone(t) \/ executeLseekFS(t)
           \/ CallClose(t) \/ BadDescriptor(t) \/ CallFsync(t) \/ CallSync(t)
    PROVE  Unnamed(t)
<1> USE DEF history
<1>1. th[t].pc \in {"call", "rsize", "rbytes", "rdone", "wsync", "wdone", "lseek"}
  BY DEF CallClose, BadDescriptor, CallRead, CallWrite, CallLseek, CallPread, CallPwrite,
         ReadSize, ReadByte, ReadDone, WriteSync, WriteDone, executeLseekFS, CallFsync, CallSync,
         Calls, At
<1>2. UNCHANGED <<dir, dirTrans, inode>>
  BY DEF CallClose, BadDescriptor, CallRead, CallWrite, CallLseek, CallPread, CallPwrite, LockPos,
         AtOffset, ReadSize, ReadByte, ReadDone, WriteSync, WriteDone, executeLseekFS, CallFsync,
         CallSync
<1>3. th[t].todo # <<>>
  BY CallToDo
<1>4. InCall(t) /\ th'[t].pc \notin NamePc
  <2>1. CASE \E v : Return(t, v)
    BY <1>3, <2>1, ReturnUnseen DEF NamePc, TransPc
  <2>2. CASE CallRead(t) \/ CallWrite(t) \/ CallLseek(t) \/ CallPread(t) \/ CallPwrite(t)
    <3>1. PICK pc \in {"rsize", "wflags", "lseek"} : \E pos : Set(t, [pc |-> pc, pos |-> pos])
      BY <2>2 DEF CallRead, CallWrite, CallLseek, CallPread, CallPwrite, LockPos, AtOffset
    <3> QED BY <3>1, SetUnseen DEF ThreadFields, NamePc, TransPc
  <2>3. CASE ReadSize(t)
    <3>1. CASE \E i, r : Set(t, [pc |-> "rdone", ino |-> i, ret |-> r])
      BY <3>1, SetUnseen DEF ThreadFields, NamePc, TransPc
    <3>2. CASE \E i, r, v : Set(t, [pc |-> "rbytes", ino |-> i, ret |-> r, buf |-> <<>>, ver |-> v])
      BY <3>2, SetUnseen DEF ThreadFields, NamePc, TransPc
    <3> QED BY <2>3, <3>1, <3>2 DEF ReadSize
  <2>4. CASE ReadByte(t) \/ WriteSync(t)
    <3>1. CASE \E pc \in {"blocked", "rdone", "wdone"} : Set(t, [pc |-> pc])
      BY <3>1, SetUnseen DEF ThreadFields, NamePc, TransPc
    <3>2. CASE ReadByte(t) /\ \E b : Set(t, [buf |-> b])
      <4>1. PICK b : Set(t, [buf |-> b])
        BY <3>2
      <4>2. /\ \A x \in ThreadFields \ {"buf"} : th'[t][x] = th[t][x]
            /\ \A u \in Threads : u # t => th'[u] = th[u]
        BY <4>1, Moving DEF ThreadFields
      <4>3. th[t].pc = "rbytes"
        BY <3>2 DEF ReadByte, At
      <4> QED BY <4>2, <4>3 DEF InCall, OnlyMoves, ThreadFields, NamePc, TransPc
    <3> QED BY <2>4, <3>1, <3>2 DEF ReadByte, WriteSync
  <2>5. CASE Lost(t)
    <3>1. ShapesOK
      BY DEF Typed
    <3> DEFINE fields == Merge([lost |-> th[t].lost \cup {Fd(t)}], Returned(t, 0))
    <3>2. /\ DOMAIN fields = {"lost", "pc", "todo", "rets"} /\ fields["pc"] = "call"
          /\ fields["todo"] = Tail(th[t].todo)
      BY DEF Merge, Returned
    <3> HIDE DEF fields
    <3>3. Set(t, fields)
      BY <2>5 DEF Lost, fields
    <3>4. /\ \A u \in Threads : u # t => th'[u] = th[u]
          /\ \A x \in ThreadFields :
               th'[t][x] = IF x \in DOMAIN fields THEN fields[x] ELSE th[t][x]
      BY <3>1, <3>2, <3>3, Setting DEF ThreadFields
    <3>5. /\ th'[t]["seen"] = th[t]["seen"] /\ th'[t]["todo"] = Tail(th[t].todo)
          /\ th'[t]["pc"] = "call"
      BY <3>2, <3>4 DEF ThreadFields
    <3> QED BY <1>3, <3>4, <3>5 DEF OnlyMoves, InCall, NamePc, TransPc
  <2>6. CASE ReadDone(t) \/ WriteDone(t)
    <3>1. MoveOffset(t) \/ KeepOffset(t) \/ Lost(t)
      BY <2>6, Ends
    <3>2. Lost(t) \/ \E v : Return(t, v)
      BY <3>1 DEF MoveOffset, KeepOffset
    <3> QED BY <2>1, <2>5, <3>2
  <2>7. CASE CallClose(t) \/ BadDescriptor(t) \/ executeLseekFS(t) \/ CallFsync(t) \/ CallSync(t)
    <3>1. \E v : Return(t, v)
      BY <2>7 DEF CallClose, BadDescriptor, executeLseekFS, CallFsync, CallSync
    <3> QED BY <2>1, <3>1
  <2> QED BY <2>2, <2>3, <2>4, <2>6, <2>7
<1> QED BY <1>1, <1>2, <1>4 DEF Unnamed, NamePc, MadeStays

(* Touched without "made".                                                 *)
LEMMA TouchedMade ==
    ASSUME NEW i \in Inodes, NEW S, "made" \notin S, Touched(i, S)
    PROVE  MadeStays
<1>1. inode'[i].made = inode[i].made /\ \A j \in Inodes \ {i} : inode'[j] = inode[j]
  BY DEF Touched, InodeFields
<1> QED BY <1>1 DEF MadeStays

(* Truncating and writing.                                                 *)
LEMMA UnnamedWrites ==
    ASSUME Typed, WritesOnTheWay, NEW t \in Threads, Step(t),
           \/ Inside(t) \/ TruncateLock(t) \/ TruncateUnlock(t) \/ WriteFlags(t) \/ WriteUnlock(t)
    PROVE  Unnamed(t)
<1> USE DEF history
<1>1. th[t].todo # <<>> /\ th[t].ino \in Inodes
  BY CallToDo DEF Typed, ThreadOK
<1>2. CASE Inside(t)
  <2>1. /\ OneMoved(t) /\ th'[t].todo = th[t].todo /\ th'[t].seen = th[t].seen
        /\ \A j \in Inodes : inode'[j].made = inode[j].made
        /\ UNCHANGED <<dir, dirTrans>>
        /\ th[t].pc \in TruncIn \cup WriteIn /\ th'[t].pc \in TruncIn \cup WriteIn
    BY <1>2, InsideStep
  <2>2. InCall(t)
    BY <2>1 DEF InCall, OneMoved, OnlyMoves
  <2> QED BY <2>1, <2>2 DEF Unnamed, MadeStays, TruncIn, WriteIn, TransPc
<1>3. CASE TruncateLock(t) \/ TruncateUnlock(t) \/ WriteFlags(t) \/ WriteUnlock(t)
  <2>1. /\ th[t].pc \in {"locktrunc", "tunlock", "wflags", "wunlock"}
        /\ UNCHANGED <<dir, dirTrans>>
    BY <1>3 DEF TruncateLock, TruncateUnlock, WriteFlags, WriteUnlock, At
  <2>2. InCall(t) /\ th'[t].pc \notin NamePc
    <3>1. CASE \E v : Return(t, v)
      BY <1>1, <3>1, ReturnUnseen DEF NamePc, TransPc
    <3>2. CASE \E pc \in {"trunc", "wsync"} : Set(t, [pc |-> pc])
      BY <3>2, SetUnseen DEF ThreadFields, NamePc, TransPc
    <3>3. CASE Set(t, [pc |-> "wdone", ret |-> -1])
      BY <3>3, SetUnseen DEF ThreadFields, NamePc, TransPc
    <3>4. CASE \E i, a : Set(t, [pc |-> "wchecks", ino |-> i, acc |-> a])
      BY <3>4, SetUnseen DEF ThreadFields, NamePc, TransPc
    <3> QED BY <1>3, <3>1, <3>2, <3>3, <3>4 DEF TruncateLock, TruncateUnlock, WriteFlags, WriteUnlock
  <2>3. MadeStays
    <3>1. inode' = inode \/ \E i \in Inodes : Touched(i, {"lock"})
      BY <1>1, <1>3, TruncateLockEffect, TruncateUnlockEffect, WriteFlagsEffect, WriteUnlockEffect
    <3> QED BY <3>1, TouchedMade DEF MadeStays
  <2> QED BY <2>1, <2>2, <2>3 DEF Unnamed, NamePc, TransPc
<1> QED BY <1>2, <1>3

(* The beginning and the end of open, and truncate's lookup.               *)
LEMMA UnnamedOpens ==
    ASSUME Typed, Locked, NEW t \in Threads, Step(t),
           CallOpen(t) \/ OpenFile(t) \/ LookupTruncate(t) \/ UseFreed(t)
    PROVE  Unnamed(t)
<1> USE DEF history
<1>1. th[t].todo # <<>>
  BY CallToDo
<1>2. /\ th[t].pc \in {"call", "open", "dir", "rsize", "wflags", "lseek", "rdone", "wdone"}
      /\ th[t].pc = "dir" => LookupTruncate(t)
      /\ UNCHANGED <<dir, dirTrans, inode>>
  BY DEF CallOpen, OpenFile, LookupTruncate, UseFreed, UsesDesc, Calls, At
<1>3. InCall(t) /\ th'[t].pc \notin NamePc
  <2>1. CASE \E v : Return(t, v)
    BY <1>1, <2>1, ReturnUnseen DEF NamePc, TransPc
  <2>2. CASE CallOpen(t) /\ ~\E v : Return(t, v)
    <3>1. PICK pc \in {"lockdir", "lookup"} : Set(t, [pc |-> pc, flags |-> CallFlags(t)])
      BY <2>2 DEF CallOpen
    <3> QED BY <3>1, SetUnseen DEF ThreadFields, NamePc, TransPc
  <2>3. CASE OpenFile(t)
    <3> DEFINE opened == [fd |-> handleDskOpen, ino |-> th[t].ino]
    <3>1. CASE \E v : Set(t, Merge(opened, Returned(t, v)))
      <4>1. PICK v : Set(t, Merge(opened, Returned(t, v)))
        BY <3>1
      <4> DEFINE fields == Merge(opened, Returned(t, v))
      <4>2. /\ DOMAIN fields = {"fd", "ino", "pc", "todo", "rets"} /\ fields["pc"] = "call"
            /\ fields["todo"] = Tail(th[t].todo)
        BY DEF Merge, Returned
      <4> HIDE DEF fields
      <4>3. Set(t, fields) /\ ShapesOK
        BY <4>1 DEF fields, Typed
      <4>4. /\ \A u \in Threads : u # t => th'[u] = th[u]
            /\ \A x \in ThreadFields :
                 th'[t][x] = IF x \in DOMAIN fields THEN fields[x] ELSE th[t][x]
        BY <4>2, <4>3, Setting DEF ThreadFields
      <4>5. /\ th'[t]["seen"] = th[t]["seen"] /\ th'[t]["todo"] = Tail(th[t].todo)
            /\ th'[t]["pc"] = "call"
        BY <4>2, <4>4 DEF ThreadFields
      <4> QED BY <1>1, <4>4, <4>5 DEF OnlyMoves, InCall, NamePc, TransPc
    <3>2. CASE Set(t, Merge(opened, [pc |-> "locktrunc"]))
      <4> DEFINE fields == Merge(opened, [pc |-> "locktrunc"])
      <4>1. DOMAIN fields = {"fd", "ino", "pc"} /\ fields["pc"] = "locktrunc"
        BY DEF Merge
      <4> HIDE DEF fields
      <4>2. Set(t, fields)
        BY <3>2 DEF fields
      <4> QED BY <4>1, <4>2, SetUnseen DEF ThreadFields, NamePc, TransPc
    <3> QED BY <2>3, <3>1, <3>2 DEF OpenFile
  <2>4. CASE LookupTruncate(t) /\ ~\E v : Return(t, v)
    <3>1. CASE Set(t, [pc |-> "blocked"])
      BY <3>1, SetUnseen DEF ThreadFields, NamePc, TransPc
    <3>2. CASE \E i : Set(t, [pc |-> "locktrunc", ino |-> i])
      BY <3>2, SetUnseen DEF ThreadFields, NamePc, TransPc
    <3> QED BY <2>4, <3>1, <3>2 DEF LookupTruncate
  <2>5. CASE UseFreed(t)
    <3>1. th' = th /\ th[t].pc \notin NamePc
      BY <2>5 DEF UseFreed, UsesDesc, Calls, At, NamePc, TransPc
    <3> QED BY <3>1 DEF InCall, OnlyMoves
  <2> QED BY <2>1, <2>2, <2>3, <2>4, <2>5
<1> QED BY <1>2, <1>3 DEF Unnamed, NamePc, MadeStays, TransPc

(* A name is looked up only while no rename is under way.                  *)
LEMMA UnnamedLookups ==
    ASSUME Typed, Locked, NEW t \in Threads, Step(t), LookupTrans(t) \/ LockDir(t)
    PROVE  Unnamed(t)
<1> USE DEF history
<1>1. /\ th[t].pc \in {"lookup", "lockdir", "call"}
      /\ UNCHANGED <<dir, dirTrans, inode>>
  BY DEF LookupTrans, LockDir, Calls, At
<1>2. dirTrans \in {0, 1}
  BY DEF Typed, ShapesOK
<1>3. CASE LookupTrans(t)
  <2>1. PICK pc \in {"blocked", "entry"} : Set(t, [pc |-> pc]) /\ (pc = "entry" => dirTrans # 1)
    BY <1>3 DEF LookupTrans
  <2>2. InCall(t) /\ th'[t].pc = pc
    BY <2>1, SetUnseen DEF ThreadFields
  <2> QED BY <1>1, <1>2, <2>1, <2>2 DEF Unnamed, MadeStays, TransPc
<1>4. CASE LockDir(t)
  <2>1. InCall(t) /\ th'[t].pc = "dir"
    BY <1>4, SetUnseen DEF LockDir, ThreadFields
  <2>2. dirTrans = 0
    BY <1>2, <1>4, FSAssumption DEF LockDir, Locked, TransHeld
  <2> QED BY <1>1, <2>1, <2>2 DEF Unnamed, MadeStays, TransPc
<1> QED BY <1>3, <1>4

(* The calls left to a thread only become fewer.                           *)
LEMMA FewerCalls ==
    ASSUME Typed, PlainCalls, NEW t \in Threads, OnlyMoves(t),
           th'[t].todo = th[t].todo \/ (th[t].todo # <<>> /\ th'[t].todo = Tail(th[t].todo))
    PROVE  PlainCalls'
<1>1. \A u \in Threads : u # t => th'[u].todo = th[u].todo
  BY DEF OnlyMoves
<1>2. CASE th'[t].todo = th[t].todo
  BY <1>1, <1>2 DEF PlainCalls
<1>3. CASE th[t].todo # <<>> /\ th'[t].todo = Tail(th[t].todo)
  <2>1. th[t].todo \in Seq(CallType)
    BY DEF Typed, ThreadOK
  <2>2. /\ Len(th'[t].todo) = Len(th[t].todo) - 1 /\ Len(th[t].todo) \in Nat
        /\ \A k \in 1 .. Len(th'[t].todo) : th'[t].todo[k] = th[t].todo[k + 1]
    BY <1>3, <2>1
  <2>3. \A k \in 1 .. Len(th'[t].todo) : OneNameCall(th'[t].todo[k])
    BY <2>2 DEF PlainCalls
  <2> QED BY <1>1, <2>3 DEF PlainCalls, OneNameCall
<1> QED BY <1>2, <1>3

(* What follows when a thread finds nothing.                               *)
LEMMA NothingFound ==
    ASSUME Typed, NamesInv, NEW t \in Threads, InCall(t), MadeStays
    PROVE  /\ PlainCalls' /\ SeenMade' /\ SeenInOrder'
           /\ \A u \in Threads : th'[u].seen = th[u].seen
           /\ \A u \in Threads : u # t => th'[u].pc = th[u].pc /\ Call(u)' = Call(u)
<1>1. \A u \in Threads : th'[u].seen = th[u].seen
  BY DEF InCall, OnlyMoves
<1>2. PlainCalls'
  BY FewerCalls DEF InCall, NamesInv
<1>3. SeenMade'
  <2> SUFFICES ASSUME NEW u \in Threads
               PROVE  /\ th'[u].seen \in Seq(Names \X Inodes)
                      /\ \A k \in 1 .. Len(th'[u].seen) : inode'[th'[u].seen[k][2]].made
    BY DEF SeenMade
  <2>1. /\ th[u].seen \in Seq(Names \X Inodes)
        /\ \A k \in 1 .. Len(th[u].seen) : inode[th[u].seen[k][2]].made
    BY DEF NamesInv, SeenMade
  <2>2. \A k \in 1 .. Len(th[u].seen) : th[u].seen[k][2] \in Inodes
    BY <2>1
  <2> QED BY <1>1, <2>1, <2>2 DEF MadeStays
<1>4. SeenInOrder'
  BY <1>1 DEF NamesInv, SeenInOrder
<1>5. \A u \in Threads : u # t => th'[u].pc = th[u].pc /\ Call(u)' = Call(u)
  BY DEF InCall, OnlyMoves, Call
<1> QED BY <1>1, <1>2, <1>3, <1>4, <1>5

(* Steps that concern no names.                                            *)
LEMMA UnnamedKept ==
    ASSUME Typed, NamesInv, NEW t \in Threads, Unnamed(t)
    PROVE  NamesInv'
<1>1. InCall(t) /\ MadeStays /\ dir' = dir /\ dirTrans' = dirTrans
  BY DEF Unnamed
<1>2. /\ PlainCalls' /\ SeenMade' /\ SeenInOrder'
      /\ \A u \in Threads : th'[u].seen = th[u].seen
      /\ \A u \in Threads : u # t => th'[u].pc = th[u].pc /\ Call(u)' = Call(u)
  BY <1>1, NothingFound
<1>3. \A u \in Threads : th[u].pc = "runlink" =>
         th'[u].pc = "runlink" /\ Call(u)' = Call(u) /\ dirTrans = 1
  BY <1>2 DEF Unnamed, NamesInv, RenameBegun, TransPc
<1>4. NamedOnce'
  <2> SUFFICES ASSUME NEW m \in Names, NEW n \in Names, m # n, dir[m] = dir[n], dir[m] # 0
               PROVE  \E u \in Threads : Renaming(u, m, n)' \/ Renaming(u, n, m)'
    BY <1>1 DEF NamedOnce
  <2>1. PICK u \in Threads : Renaming(u, m, n) \/ Renaming(u, n, m)
    BY DEF NamesInv, NamedOnce
  <2> QED BY <1>3, <2>1 DEF Renaming
<1>5. RenameBegun'
  <2> SUFFICES ASSUME NEW u \in Threads
               PROVE  /\ th'[u].pc \in TransPc => dirTrans = 1
                      /\ th'[u].pc = "rlink" => dir[Call(u)'.name] = th'[u].ino /\ Call(u)'.name # Call(u)'.to
    BY <1>1 DEF RenameBegun
  <2>1. CASE u = t
    BY <2>1 DEF Unnamed, TransPc
  <2>2. CASE u # t
    BY <1>1, <1>2, <2>2 DEF NamesInv, RenameBegun, InCall, OnlyMoves
  <2> QED BY <2>1, <2>2
<1>6. FoundLate'
  <2> SUFFICES ASSUME "f" \in Names, NEW u \in Threads, FoundElsewhere(u, dir["f"])
               PROVE  /\ th'[u].pc \notin {"entry", "dir"}
                      /\ \E v \in Threads : th'[v].pc = "runlink" /\ Call(v)'.name = "f"
    <3>1. \A u \in Threads : FoundElsewhere(u, dir["f"])' <=> FoundElsewhere(u, dir["f"])
      BY <1>1, <1>2 DEF FoundElsewhere
    <3> QED BY <1>1, <3>1 DEF FoundLate
  <2>1. /\ th[u].pc \notin {"entry", "dir"}
        /\ \E v \in Threads : th[v].pc = "runlink" /\ Call(v).name = "f"
    BY DEF NamesInv, FoundLate
  <2>2. dirTrans = 1 /\ \E v \in Threads : th'[v].pc = "runlink" /\ Call(v)'.name = "f"
    BY <1>3, <2>1
  <2>3. CASE u = t
    BY <2>2, <2>3 DEF Unnamed
  <2>4. CASE u # t
    BY <1>2, <2>1, <2>2, <2>4
  <2> QED BY <2>3, <2>4
<1> QED BY <1>2, <1>4, <1>5, <1>6 DEF NamesInv

-----------------------------------------------------------------------------
(* Only the holder of the directory's lock is inside an operation on it.   *)
LEMMA Alone ==
    ASSUME Locked, NEW t \in Threads, th[t].pc \in DirPc, NEW u \in Threads, u # t
    PROVE  th[u].pc \notin DirPc
BY DEF Locked, DirLockHeld

(* A thread finds an inode under a name.                                   *)
LEMMA FindingKept ==
    ASSUME Typed, NamesInv, NEW t \in Threads, NEW n \in Names,
           th[t].pc \in {"entry", "dir"}, dir[n] # 0, OnlyMoves(t),
           th'[t].pc = "open", th'[t].todo = th[t].todo,
           th'[t].seen = Append(th[t].seen, <<n, dir[n]>>),
           UNCHANGED <<dir, dirTrans, inode>>
    PROVE  NamesInv'
<1>1. PlainCalls'
  BY FewerCalls DEF NamesInv
<1>2. dir[n] \in Inodes /\ inode[dir[n]].made
  BY DEF Typed, ShapesOK, ReferencesMade
<1>3. /\ th[t].seen \in Seq(Names \X Inodes) /\ Len(th[t].seen) \in Nat
      /\ \A k \in 1 .. Len(th[t].seen) : inode[th[t].seen[k][2]].made
  BY DEF NamesInv, SeenMade
<1>4. /\ th'[t].seen \in Seq(Names \X Inodes)
      /\ Len(th'[t].seen) = Len(th[t].seen) + 1
      /\ th'[t].seen[Len(th[t].seen) + 1] = <<n, dir[n]>>
      /\ \A k \in 1 .. Len(th[t].seen) : th'[t].seen[k] = th[t].seen[k]
  <2>1. <<n, dir[n]>> \in Names \X Inodes
    BY <1>2
  <2> QED BY <1>3, <2>1
<1>5. \A u \in Threads : u # t => th'[u] = th[u]
  BY DEF OnlyMoves
<1>6. \A u \in Threads : th[u].pc = "runlink" => th'[u] = th[u] /\ Call(u)' = Call(u)
  BY <1>5 DEF Call
<1>7. SeenMade'
  <2>1. \A k \in 1 .. Len(th'[t].seen) : inode[th'[t].seen[k][2]].made
    <3> SUFFICES ASSUME NEW k \in 1 .. Len(th'[t].seen) PROVE inode[th'[t].seen[k][2]].made
      OBVIOUS
    <3>1. k \in 1 .. Len(th[t].seen) \/ k = Len(th[t].seen) + 1
      BY <1>3, <1>4
    <3>2. CASE k \in 1 .. Len(th[t].seen)
      BY <1>3, <1>4, <3>2
    <3>3. CASE k = Len(th[t].seen) + 1
      <4>1. th'[t].seen[k] = <<n, dir[n]>>
        BY <1>4, <3>3
      <4> QED BY <1>2, <4>1
    <3> QED BY <3>1, <3>2, <3>3
  <2>2. \A u \in Threads : th'[u].seen \in Seq(Names \X Inodes)
    BY <1>4, <1>5 DEF NamesInv, SeenMade
  <2>3. \A u \in Threads : \A k \in 1 .. Len(th'[u].seen) : inode'[th'[u].seen[k][2]].made
    BY <1>5, <2>1 DEF NamesInv, SeenMade
  <2> QED BY <2>2, <2>3 DEF SeenMade
<1>8. "f" \in Names => ~FoundElsewhere(t, dir["f"])
  BY DEF NamesInv, FoundLate
<1>9. SeenInOrder'
  <2> SUFFICES ASSUME NEW u \in Threads, NEW k \in 1 .. Len(th'[u].seen),
                      NEW l \in 1 .. Len(th'[u].seen),
                      k < l, th'[u].seen[k][1] # "f", th'[u].seen[l][1] = "f"
               PROVE  th'[u].seen[k][2] # th'[u].seen[l][2]
    BY DEF SeenInOrder
  <2>1. CASE u # t
    BY <1>5, <2>1, SMTT(40) DEF NamesInv, SeenInOrder
  <2>2. CASE u = t
    <3>1. k \in 1 .. Len(th[t].seen)
      BY <1>3, <1>4, <2>2, SMTT(40)
    <3>2. CASE l = Len(th[t].seen) + 1
      <4>1. th'[t].seen[l] = <<n, dir[n]>> /\ th'[t].seen[k] = th[t].seen[k]
        BY <1>4, <3>1, <3>2
      <4>5. <<n, dir[n]>>[1] = n /\ <<n, dir[n]>>[2] = dir[n]
        OBVIOUS
      <4>6. th'[t].seen[l][1] = n /\ th'[t].seen[l][2] = dir[n]
        BY <4>1, <4>5, Zenon
      <4>2. n = "f"
        BY <2>2, <4>6
      <4>3. th[t].seen[k][1] # "f"
        BY <2>2, <4>1
      <4>4. th[t].seen[k][2] # dir[n]
        BY <1>8, <3>1, <4>2, <4>3 DEF FoundElsewhere
      <4> QED BY <2>2, <4>1, <4>6, <4>4
    <3>3. CASE l \in 1 .. Len(th[t].seen)
      <4>1. th'[t].seen[l] = th[t].seen[l] /\ th'[t].seen[k] = th[t].seen[k]
        BY <1>4, <3>1, <3>3
      <4>2. th[t].seen[k][1] # "f" /\ th[t].seen[l][1] = "f"
        BY <2>2, <4>1
      <4>3. th[t].seen[k][2] # th[t].seen[l][2]
        BY <3>1, <3>3, <4>2 DEF NamesInv, SeenInOrder
      <4> QED BY <2>2, <4>1, <4>3
    <3> QED BY <1>3, <1>4, <2>2, <3>2, <3>3
  <2> QED BY <2>1, <2>2
<1>10. NamedOnce'
  <2> SUFFICES ASSUME NEW a \in Names, NEW b \in Names, a # b, dir[a] = dir[b], dir[a] # 0
               PROVE  \E u \in Threads : Renaming(u, a, b)' \/ Renaming(u, b, a)'
    BY DEF NamedOnce
  <2>1. PICK u \in Threads : Renaming(u, a, b) \/ Renaming(u, b, a)
    BY DEF NamesInv, NamedOnce
  <2> QED BY <1>6, <2>1 DEF Renaming
<1>11. RenameBegun'
  <2> SUFFICES ASSUME NEW u \in Threads
               PROVE  /\ th'[u].pc \in TransPc => dirTrans = 1
                      /\ th'[u].pc = "rlink" => dir[Call(u)'.name] = th'[u].ino /\ Call(u)'.name # Call(u)'.to
    BY DEF RenameBegun
  <2>1. CASE u = t
    BY <2>1 DEF TransPc
  <2>2. CASE u # t
    BY <1>5, <2>2 DEF NamesInv, RenameBegun, Call
  <2> QED BY <2>1, <2>2
<1>12. FoundLate'
  <2> SUFFICES ASSUME "f" \in Names, NEW u \in Threads, FoundElsewhere(u, dir["f"])'
               PROVE  /\ th'[u].pc \notin {"entry", "dir"}
                      /\ \E v \in Threads : th[v].pc = "runlink" /\ Call(v).name = "f"
    BY <1>6 DEF FoundLate
  <2>1. CASE u # t
    BY <1>5, <2>1 DEF NamesInv, FoundLate, FoundElsewhere
  <2>2. CASE u = t
    <3>1. PICK k \in 1 .. Len(th'[t].seen) : th'[t].seen[k][1] # "f" /\ th'[t].seen[k][2] = dir["f"]
      BY <2>2 DEF FoundElsewhere
    <3>2. k \notin 1 .. Len(th[t].seen)
      BY <1>4, <1>8, <3>1 DEF FoundElsewhere
    <3>3. n # "f" /\ dir[n] = dir["f"]
      BY <1>3, <1>4, <3>1, <3>2
    <3>4. PICK v \in Threads : Renaming(v, n, "f") \/ Renaming(v, "f", n)
      BY <3>3 DEF NamesInv, NamedOnce
    <3>5. Call(v).to # "f"
      <4>1. th[v].todo \in Seq(CallType) /\ th[v].todo # <<>> /\ Call(v).op = "rename"
        BY <3>4 DEF Renaming, Typed, ThreadOK, OpAgrees, TransPc
      <4>2. 1 \in 1 .. Len(th[v].todo) /\ Call(v) = th[v].todo[1]
        BY <4>1 DEF Call
      <4> QED BY <4>1, <4>2 DEF NamesInv, PlainCalls, OneNameCall
    <3> QED BY <2>2, <3>4, <3>5 DEF Renaming
  <2> QED BY <2>1, <2>2
<1> QED BY <1>1, <1>7, <1>9, <1>10, <1>11, <1>12 DEF NamesInv

(* A step under the directory's lock that finds nothing; nobody else is in *)
(* the middle of an operation on the directory.                            *)
LEMMA DirectoryKept ==
    ASSUME Typed, Locked, NamesInv, NEW t \in Threads, th[t].pc \in DirPc, InCall(t), MadeStays,
           NamedOnce', FoundLate',
           /\ th'[t].pc \in TransPc => dirTrans' = 1
           /\ th'[t].pc = "rlink" =>
                dir'[Call(t)'.name] = th'[t].ino /\ Call(t)'.name # Call(t)'.to
    PROVE  NamesInv'
<1>1. PlainCalls' /\ SeenMade' /\ SeenInOrder'
  BY NothingFound
<1>2. \A u \in Threads : u # t => th'[u].pc \notin DirPc
  BY Alone DEF InCall, OnlyMoves
<1>3. RenameBegun'
  BY <1>2 DEF RenameBegun, DirPc, TransPc
<1> QED BY <1>1, <1>3 DEF NamesInv

(* Nothing has two names, or was found elsewhere as "f", unless the holder *)
(* of the directory's lock is between the halves of a rename.              *)
LEMMA HolderRenames ==
    ASSUME Typed, Locked, NamesInv, NEW t \in Threads, th[t].pc \in DirPc
    PROVE  /\ \A m, n \in Names : m # n /\ dir[m] = dir[n] /\ dir[m] # 0 =>
                 Renaming(t, m, n) \/ Renaming(t, n, m)
           /\ \A u \in Threads : "f" \in Names /\ FoundElsewhere(u, dir["f"]) =>
                 th[t].pc = "runlink" /\ Call(t).name = "f"
<1>1. \A u \in Threads : u # t => th[u].pc # "runlink"
  BY Alone DEF DirPc, TransPc
<1>2. \A m, n \in Names : m # n /\ dir[m] = dir[n] /\ dir[m] # 0 =>
         Renaming(t, m, n) \/ Renaming(t, n, m)
  <2> SUFFICES ASSUME NEW m \in Names, NEW n \in Names, m # n, dir[m] = dir[n], dir[m] # 0
               PROVE  Renaming(t, m, n) \/ Renaming(t, n, m)
    OBVIOUS
  <2>1. PICK u \in Threads : Renaming(u, m, n) \/ Renaming(u, n, m)
    BY DEF NamesInv, NamedOnce
  <2> QED BY <1>1, <2>1 DEF Renaming
<1>3. \A u \in Threads : "f" \in Names /\ FoundElsewhere(u, dir["f"]) =>
         th[t].pc = "runlink" /\ Call(t).name = "f"
  BY <1>1 DEF NamesInv, FoundLate
<1> QED BY <1>2, <1>3

(* A name given a new inode.                                               *)
LEMMA CreationKept ==
    ASSUME Typed, Locked, NamesInv, NEW t \in Threads, th[t].pc = "dir", th'[t].pc = "open",
           InCall(t), NEW n \in Names, NEW i \in Inodes, ~inode[i].made,
           inode' = [inode EXCEPT ![i] = NewInode], dir' = [dir EXCEPT ![n] = i]
    PROVE  NamesInv'
<1>1. dir \in [Names -> Inodes \cup {0}] /\ inode \in [Inodes -> InodeType]
      /\ \A m \in Names : dir[m] # 0 => inode[dir[m]].made
  BY DEF Typed, ShapesOK, ReferencesMade
<1>2. dir'[n] = i /\ \A m \in Names \ {n} : dir'[m] = dir[m]
  BY <1>1
<1>3. MadeStays
  BY <1>1 DEF MadeStays, NewInode
<1>4. i # 0
  BY FSAssumption
<1>5. th[t].pc \in DirPc /\ th[t].pc # "runlink"
  BY DEF DirPc
<1>6. NamedOnce'
  <2> SUFFICES ASSUME NEW a \in Names, NEW b \in Names, a # b, dir'[a] = dir'[b], dir'[a] # 0
               PROVE  FALSE
    BY DEF NamedOnce
  <2>1. CASE a # n /\ b # n
    BY <1>2, <1>5, <2>1, HolderRenames DEF Renaming
  <2>2. CASE a = n \/ b = n
    BY <1>1, <1>2, <1>4, <2>2
  <2> QED BY <2>1, <2>2
<1>7. \A u \in Threads : th'[u].seen = th[u].seen
  BY DEF InCall, OnlyMoves
<1>8. FoundLate'
  <2> SUFFICES ASSUME "f" \in Names, NEW u \in Threads, FoundElsewhere(u, dir["f"])'
               PROVE  FALSE
    BY DEF FoundLate
  <2>1. PICK k \in 1 .. Len(th[u].seen) : th[u].seen[k][1] # "f" /\ th[u].seen[k][2] = dir'["f"]
    BY <1>7 DEF FoundElsewhere
  <2>2. CASE n = "f"
    BY <1>2, <2>1, <2>2 DEF NamesInv, SeenMade
  <2>3. CASE n # "f"
    BY <1>2, <1>5, <2>1, <2>3, HolderRenames DEF FoundElsewhere
  <2> QED BY <2>2, <2>3
<1> QED BY <1>3, <1>5, <1>6, <1>8, DirectoryKept DEF TransPc

(* Lookups, without the directory's lock and with it.                      *)
LEMMA LookupsKept ==
    ASSUME Typed, Locked, NamesInv, NEW t \in Threads, Step(t), LookupEntry(t) \/ LookupOrCreate(t)
    PROVE  NamesInv'
<1> USE DEF history
<1>1. th[t].todo # <<>> /\ Call(t) \in CallType
  BY CallToDo
<1>2. Call(t).name \in Names
  BY <1>1, Arguments DEF LookupEntry, LookupOrCreate, At, Typed, ThreadOK, OpAgrees
<1> DEFINE n == Call(t).name
<1>3. th[t].pc \in {"entry", "dir"} /\ (LookupOrCreate(t) => th[t].pc = "dir")
  BY DEF LookupEntry, LookupOrCreate, At
<1>4. CASE \E v : Return(t, v) /\ UNCHANGED <<dir, dirTrans, inode>>
  BY <1>1, <1>3, <1>4, ReturnUnseen, UnnamedKept DEF Unnamed, MadeStays, TransPc
<1>5. CASE /\ Set(t, [pc |-> "open", ino |-> dir[n], seen |-> Append(th[t].seen, <<n, dir[n]>>)])
           /\ dir[n] # 0 /\ UNCHANGED <<dir, dirTrans, inode>>
  <2>1. /\ th'[t].todo = th[t].todo /\ \A u \in Threads : u # t => th'[u] = th[u]
        /\ th'[t].pc = "open" /\ th'[t].seen = Append(th[t].seen, <<n, dir[n]>>)
    BY <1>5, Moving DEF ThreadFields
  <2> QED BY <1>2, <1>3, <1>5, <2>1, FindingKept DEF OnlyMoves
<1>6. CASE /\ LookupOrCreate(t) /\ dirTrans = 0 /\ dir[n] = 0
  <2>1. PICK i \in FreshInodes :
          /\ executeInodeCreateFS(n, i)
          /\ Set(t, [pc |-> "open", ino |-> i, flags |-> th[t].flags \ {"TRUNC"}])
    BY <1>6 DEF LookupOrCreate
  <2>2. InCall(t) /\ th'[t].pc = "open"
    BY <2>1, SetUnseen DEF ThreadFields
  <2> QED BY <1>2, <1>3, <1>6, <2>1, <2>2, CreationKept DEF executeInodeCreateFS, FreshInodes
<1>7. LookupOrCreate(t) => dirTrans = 0
  BY <1>3, NoTransaction
<1>8. CASE LookupEntry(t)
  <2>1. UNCHANGED <<dir, dirTrans, inode>>
    BY <1>8 DEF LookupEntry
  <2>2. CASE dir[n] = 0
    BY <1>4, <1>8, <2>1, <2>2 DEF LookupEntry
  <2>3. CASE dir[n] # 0
    BY <1>5, <1>8, <2>1, <2>3 DEF LookupEntry
  <2> QED BY <2>2, <2>3
<1>9. CASE LookupOrCreate(t) /\ dir[n] # 0
  <2>1. dirTrans # 1
    BY <1>7, <1>9
  <2>2. UNCHANGED <<dir, dirTrans, inode>>
    BY <1>9, <2>1 DEF LookupOrCreate
  <2> QED BY <1>5, <1>9, <2>1, <2>2 DEF LookupOrCreate
<1> QED BY <1>6, <1>7, <1>8, <1>9

(* A name is taken away: the only one, or the old one of a rename.         *)
LEMMA RemovalKept ==
    ASSUME Typed, Locked, NamesInv, NEW t \in Threads, th[t].pc \in {"dir", "runlink"},
           th'[t].pc \in {"call", "rend"}, th'[t].pc = "rend" => dirTrans' = 1,
           InCall(t), inode' = inode, NEW n \in Names, n = Call(t).name,
           dir' = [dir EXCEPT ![n] = 0]
    PROVE  NamesInv'
<1>1. dir'[n] = 0 /\ \A m \in Names \ {n} : dir'[m] = dir[m]
  BY DEF Typed, ShapesOK
<1>2. MadeStays /\ th[t].pc \in DirPc
  BY DEF MadeStays, DirPc, TransPc
<1>3. NamedOnce'
  <2> SUFFICES ASSUME NEW a \in Names, NEW b \in Names, a # b, dir'[a] = dir'[b], dir'[a] # 0
               PROVE  FALSE
    BY DEF NamedOnce
  <2>1. a # n /\ b # n
    BY <1>1
  <2>2. Renaming(t, a, b) \/ Renaming(t, b, a)
    BY <1>1, <1>2, <2>1, HolderRenames
  <2> QED BY <2>1, <2>2 DEF Renaming
<1>4. \A u \in Threads : th'[u].seen = th[u].seen
  BY DEF InCall, OnlyMoves
<1>5. FoundLate'
  <2> SUFFICES ASSUME "f" \in Names, NEW u \in Threads, FoundElsewhere(u, dir["f"])'
               PROVE  FALSE
    BY DEF FoundLate
  <2>1. PICK k \in 1 .. Len(th[u].seen) : th[u].seen[k][1] # "f" /\ th[u].seen[k][2] = dir'["f"]
    BY <1>4 DEF FoundElsewhere
  <2>2. th[u].seen[k][2] \in Inodes
    BY <2>1 DEF NamesInv, SeenMade
  <2>3. n # "f"
    BY <1>1, <2>1, <2>2, FSAssumption
  <2>4. FoundElsewhere(u, dir["f"])
    BY <1>1, <2>1, <2>3 DEF FoundElsewhere
  <2> QED BY <1>2, <2>3, <2>4, HolderRenames
<1> QED BY <1>2, <1>3, <1>5, DirectoryKept DEF TransPc

(* The first half of a rename gives the inode its second name.             *)
LEMMA SecondNameKept ==
    ASSUME Typed, Locked, NamesInv, NEW t \in Threads, RenameLink(t), Step(t)
    PROVE  NamesInv'
<1> USE DEF history
<1> DEFINE n == Call(t).name
           m == Call(t).to
           i == th[t].ino
<1>1. th[t].todo # <<>> /\ Call(t) \in CallType /\ th[t].todo \in Seq(CallType)
  BY CallToDo DEF Typed, ThreadOK
<1>2. th[t].pc = "rlink" /\ Call(t).op = "rename" /\ i \in Inodes
  BY DEF RenameLink, At, Typed, ThreadOK, OpAgrees, TransPc
<1>3. n \in Names /\ m \in Names
  BY <1>1, <1>2, Arguments
<1>4. m # "f"
  <2>1. 1 \in 1 .. Len(th[t].todo) /\ Call(t) = th[t].todo[1]
    BY <1>1 DEF Call
  <2> QED BY <1>2, <2>1 DEF NamesInv, PlainCalls, OneNameCall
<1>5. dir[n] = i /\ n # m /\ dirTrans = 1 /\ i # 0
  BY <1>2, FSAssumption DEF NamesInv, RenameBegun, TransPc
<1>6. InCall(t) /\ th'[t].pc = "runlink" /\ th'[t].todo = th[t].todo
  BY SetUnseen DEF RenameLink, ThreadFields
<1>7. Call(t)' = Call(t)
  BY <1>6 DEF Call
<1>8. dir'[m] = i /\ (\A a \in Names \ {m} : dir'[a] = dir[a]) /\ inode' = inode
      /\ dirTrans' = 1
  BY <1>3, <1>5 DEF RenameLink, updateDirNameInode, Typed, ShapesOK
<1>9. MadeStays /\ th[t].pc \in DirPc /\ th[t].pc # "runlink"
  BY <1>2, <1>8 DEF MadeStays, DirPc, TransPc
<1>10. \A a, b \in Names : a # b /\ dir[a] = dir[b] => dir[a] = 0
  BY <1>9, HolderRenames DEF Renaming
<1>11. NamedOnce'
  <2> SUFFICES ASSUME NEW a \in Names, NEW b \in Names, a # b, dir'[a] = dir'[b], dir'[a] # 0
               PROVE  Renaming(t, a, b)' \/ Renaming(t, b, a)'
    BY DEF NamedOnce
  <2>1. CASE a = m
    <3>1. b = n
      BY <1>3, <1>5, <1>8, <1>10, <2>1
    <3> QED BY <1>6, <1>7, <2>1, <3>1 DEF Renaming
  <2>2. CASE b = m
    <3>1. a = n
      BY <1>3, <1>5, <1>8, <1>10, <2>2
    <3> QED BY <1>6, <1>7, <2>2, <3>1 DEF Renaming
  <2>3. CASE a # m /\ b # m
    BY <1>8, <1>10, <2>3
  <2> QED BY <2>1, <2>2, <2>3
<1>12. FoundLate'
  <2> SUFFICES ASSUME "f" \in Names, NEW u \in Threads, FoundElsewhere(u, dir["f"])'
               PROVE  FALSE
    BY DEF FoundLate
  <2>1. th'[u].seen = th[u].seen /\ dir'["f"] = dir["f"]
    BY <1>4, <1>6, <1>8 DEF InCall, OnlyMoves
  <2>2. FoundElsewhere(u, dir["f"])
    BY <2>1 DEF FoundElsewhere
  <2> QED BY <1>9, <2>2, HolderRenames
<1> QED BY <1>6, <1>8, <1>9, <1>11, <1>12, DirectoryKept

(* A rename begins and ends.                                               *)
LEMMA RenameKept ==
    ASSUME Typed, Locked, NamesInv, NEW t \in Threads, Step(t), CallRename(t) \/ RenameEnd(t)
    PROVE  NamesInv'
<1> USE DEF history
<1>1. th[t].todo # <<>>
  BY CallToDo
<1>2. th[t].pc \in {"dir", "rend"} /\ dir' = dir /\ inode' = inode
  BY DEF CallRename, RenameEnd, At
<1>3. MadeStays /\ th[t].pc \in DirPc /\ th[t].pc # "runlink"
  BY <1>2 DEF MadeStays, DirPc, TransPc
<1>4. InCall(t) =>  NamedOnce' /\ FoundLate'
  <2> SUFFICES ASSUME InCall(t) PROVE NamedOnce' /\ FoundLate'
    OBVIOUS
  <2>1. NamedOnce'
    BY <1>2, <1>3, HolderRenames DEF NamedOnce, Renaming
  <2>2. \A u \in Threads : th'[u].seen = th[u].seen
    BY DEF InCall, OnlyMoves
  <2>3. \A u \in Threads : "f" \in Names => ~FoundElsewhere(u, dir["f"])
    BY <1>3, HolderRenames
  <2>4. FoundLate'
    BY <1>2, <2>2, <2>3 DEF FoundLate, FoundElsewhere
  <2> QED BY <2>1, <2>4
<1>5. CASE \E v : Return(t, v)
  <2>1. InCall(t) /\ th'[t].pc = "call"
    BY <1>1, <1>5, ReturnUnseen
  <2> QED BY <1>3, <1>4, <2>1, DirectoryKept DEF TransPc
<1>6. CASE /\ dir[Call(t).name] # dir[Call(t).to] /\ dirTrans' = 1
           /\ Set(t, [pc |-> "rlink", ino |-> dir[Call(t).name]])
  <2>1. InCall(t) /\ th'[t].pc = "rlink" /\ th'[t].todo = th[t].todo
    BY <1>6, SetUnseen DEF ThreadFields
  <2>2. th'[t].ino = dir[Call(t).name]
    BY <1>6, Moving DEF ThreadFields
  <2>3. Call(t)' = Call(t)
    BY <2>1 DEF Call
  <2> QED BY <1>2, <1>3, <1>4, <1>6, <2>1, <2>2, <2>3, DirectoryKept
<1> QED BY <1>5, <1>6 DEF CallRename, RenameEnd

(* unlink, and the second half of a rename.                                *)
LEMMA RemovalsKept ==
    ASSUME Typed, Locked, NamesInv, NEW t \in Threads, Step(t), CallUnlink(t) \/ RenameUnlink(t)
    PROVE  NamesInv'
<1> USE DEF history
<1>1. th[t].todo # <<>> /\ Call(t) \in CallType
  BY CallToDo
<1>2. /\ th[t].pc \in {"dir", "runlink"} /\ Call(t).op \in {"unlink", "rename"}
      /\ inode' = inode /\ dirTrans' = dirTrans
  BY DEF CallUnlink, RenameUnlink, At, Typed, ThreadOK, OpAgrees, TransPc
<1>3. Call(t).name \in Names
  BY <1>1, <1>2, Arguments
<1>4. CASE CallUnlink(t)
  <2>1. InCall(t) /\ th'[t].pc = "call"
    BY <1>1, <1>4, ReturnUnseen DEF CallUnlink
  <2>2. CASE dir' = dir
    <3>1. th[t].pc = "dir"
      BY <1>4 DEF CallUnlink, At
    <3> QED BY <1>2, <2>1, <2>2, <3>1, UnnamedKept DEF Unnamed, MadeStays, TransPc
  <2>3. CASE dir' # dir
    BY <1>2, <1>3, <1>4, <2>1, <2>3, RemovalKept DEF CallUnlink, updateDirNameInode
  <2> QED BY <2>2, <2>3
<1>5. CASE RenameUnlink(t)
  <2>1. InCall(t) /\ th'[t].pc = "rend"
    BY <1>5, SetUnseen DEF RenameUnlink, ThreadFields
  <2>2. dirTrans = 1
    BY <1>5 DEF RenameUnlink, At, NamesInv, RenameBegun, TransPc
  <2> QED BY <1>2, <1>3, <1>5, <2>1, <2>2, RemovalKept DEF RenameUnlink, updateDirNameInode
<1> QED BY <1>4, <1>5

(* One step.  There are no links.                                          *)
LEMMA NamesStep ==
    ASSUME FSInv, NamesInv, NEW t \in Threads, Step(t)
    PROVE  NamesInv'
<1>1. Typed /\ Locked /\ WritesOnTheWay
  BY DEF FSInv, Contents
<1>2. ~CallLink(t)
  <2>1. th[t].todo # <<>> /\ th[t].todo \in Seq(CallType)
    BY <1>1, CallToDo DEF Typed, ThreadOK
  <2>2. 1 \in 1 .. Len(th[t].todo) /\ Call(t) = th[t].todo[1]
    BY <2>1 DEF Call
  <2> QED BY <2>2 DEF CallLink, NamesInv, PlainCalls, OneNameCall
<1>3. CASE LookupEntry(t) \/ LookupOrCreate(t)
  BY <1>1, <1>3, LookupsKept
<1>4. CASE CallUnlink(t) \/ RenameUnlink(t)
  BY <1>1, <1>4, RemovalsKept
<1>5. CASE CallRename(t) \/ RenameEnd(t)
  BY <1>1, <1>5, RenameKept
<1>6. CASE RenameLink(t)
  BY <1>1, <1>6, SecondNameKept
<1>7. CASE LookupTrans(t) \/ LockDir(t)
  BY <1>1, <1>7, UnnamedLookups, UnnamedKept
<1>8. CASE CallOpen(t) \/ OpenFile(t) \/ LookupTruncate(t) \/ UseFreed(t)
  BY <1>1, <1>8, UnnamedOpens, UnnamedKept
<1>9. CASE \/ Inside(t) \/ TruncateLock(t) \/ TruncateUnlock(t) \/ WriteFlags(t) \/ WriteUnlock(t)
  BY <1>1, <1>9, UnnamedWrites, UnnamedKept
<1>10. CASE \/ CallRead(t) \/ CallWrite(t) \/ CallLseek(t) \/ CallPread(t) \/ CallPwrite(t)
            \/ ReadSize(t) \/ ReadByte(t) \/ WriteSync(t)
            \/ ReadDone(t) \/ WriteDone(t) \/ executeLseekFS(t)
            \/ CallClose(t) \/ BadDescriptor(t) \/ CallFsync(t) \/ CallSync(t)
  BY <1>1, <1>10, UnnamedReads, UnnamedKept
<1> QED BY <1>2, <1>3, <1>4, <1>5, <1>6, <1>7, <1>8, <1>9, <1>10 DEF Step, Inside

-----------------------------------------------------------------------------
(* rename() is atomic to lookups in every program that neither links files *)
(* nor renames one to "f", whatever its threads, names and mount options:  *)
(* the lookup that loads an entry without the directory's lock has read    *)
(* the transaction flag first, so a thread that has found an inode under   *)
(* its new name does not find it under the old one.                        *)
THEOREM RenamesAreAtomic == Spec /\ PlainCalls => []RenameAtomic
<1>1. Init /\ PlainCalls => NamesInv
  <2> SUFFICES ASSUME Init, PlainCalls PROVE NamesInv
    OBVIOUS
  <2>1. \A t \in Threads : th[t].pc = "call" /\ th[t].seen = <<>>
    BY DEF Init
  <2>2. NamedOnce
    BY DEF Init, NamedOnce
  <2>3. RenameBegun
    BY <2>1 DEF RenameBegun, TransPc
  <2>4. SeenMade
    <3>1. <<>> \in Seq(Names \X Inodes) /\ 1 .. Len(<<>>) = {}
      OBVIOUS
    <3> QED BY <2>1, <3>1 DEF SeenMade
  <2>5. FoundLate
    BY <2>1 DEF FoundLate, FoundElsewhere
  <2>6. SeenInOrder
    BY <2>1 DEF SeenInOrder
  <2> QED BY <2>2, <2>3, <2>4, <2>5, <2>6 DEF NamesInv
<1>2. FSInv /\ NamesInv /\ [Next]_vars => NamesInv'
  <2> SUFFICES ASSUME FSInv, NamesInv, [Next]_vars PROVE NamesInv'
    OBVIOUS
  <2>1. CASE \E t \in Threads : Step(t)
    BY <2>1, NamesStep
  <2>2. CASE UNCHANGED vars
    <3>1. UNCHANGED <<dir, dirTrans, inode, th>>
      BY <2>2 DEF vars
    <3> QED BY <3>1 DEF NamesInv, PlainCalls, NamedOnce, Renaming, RenameBegun, SeenMade,
                        FoundLate, FoundElsewhere, SeenInOrder, Call
  <2> QED BY <2>1, <2>2 DEF Next, Done
<1>3. NamesInv => RenameAtomic
  BY DEF NamesInv, SeenInOrder, RenameAtomic
<1> QED BY <1>1, <1>2, <1>3, InvHolds, PTL DEF Spec
=============================================================================
