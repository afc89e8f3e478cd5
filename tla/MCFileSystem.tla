---------------------------- MODULE MCFileSystem ----------------------------
(***************************************************************************)
(* Two threads of a program under test, twelve programs: shared            *)
(* descriptors, appends, a rename under lookups, holes, truncations,       *)
(* closes, every error return, and a write of LockFailed bytes.            *)
(* Descriptor 0 is opened by main, 1 is the thread's own, 9 none.          *)
(***************************************************************************)
EXTENDS FileSystem

T1 == "t1"
T2 == "t2"
MCThreads == {T1, T2}
MCNames == {"f", "g", "h"}
MCInodes == {1, 2}

Open(n, a, fl) == [op |-> "open", name |-> n, acc |-> a, flags |-> fl]
Creat(n) == [op |-> "creat", name |-> n]
Close(f) == [op |-> "close", fd |-> f]
Link(n, m) == [op |-> "link", name |-> n, to |-> m]
Unlink(n) == [op |-> "unlink", name |-> n]
Rename(n, m) == [op |-> "rename", name |-> n, to |-> m]
Truncate(n, l) == [op |-> "truncate", name |-> n, len |-> l]
Read(f, c) == [op |-> "read", fd |-> f, count |-> c]
Pread(f, c, o) == [op |-> "pread", fd |-> f, count |-> c, off |-> o]
Write(f, b) == [op |-> "write", fd |-> f, bytes |-> b]
Pwrite(f, b, o) == [op |-> "pwrite", fd |-> f, bytes |-> b, off |-> o]
Lseek(f, o, w) == [op |-> "lseek", fd |-> f, off |-> o, whence |-> w]
Fsync(f) == [op |-> "fsync", fd |-> f]
Sync == [op |-> "sync"]
Barrier == [op |-> "barrier"]

Two(p, q) == [t \in MCThreads |-> IF t = T1 THEN p ELSE q]

MCPrograms == {
    Two(<<Write(0, <<1, 2, 3>>)>>, <<Write(0, <<4, 5, 6>>)>>),
    Two(<<Open("f", 1, {"APPEND"}), Write(1, <<1, 2>>)>>,
        <<Open("f", 1, {"APPEND", "SYNC"}), Write(1, <<3>>)>>),
    Two(<<Rename("f", "g")>>, <<Open("g", 0, {}), Open("f", 0, {})>>),
    Two(<<Truncate("f", 3), Pwrite(0, <<1>>, 2)>>, <<Read(0, 2), Pread(0, 2, 1)>>),
    Two(<<Creat("h"), Close(1), Read(1, 1)>>,
        <<Open("h", 2, {"CREAT", "TRUNC"}), Write(1, <<1, 2, 3>>)>>),
    Two(<<Truncate("f", 0), Lseek(0, 0, "END"), Write(0, <<1>>)>>,
        <<Lseek(0, 1, "CUR"), Write(0, <<2, 3>>)>>),
    Two(<<Open("f", 0, {"EXCL"}), Open("g", 0, {}), Close(9), Read(9, 1), Pwrite(0, <<1>>, -1),
          Lseek(0, 0, "NONE"), Truncate("f", -1), Truncate("f", 5), Truncate("g", 1),
          Link("g", "h"), Link("f", "f"), Unlink("g"), Rename("g", "h"), Pwrite(0, <<1>>, 5)>>,
        <<Fsync(0), Sync, Barrier>>),
    Two(<<Open("f", 0, {"TRUNC"})>>, <<Read(0, 1)>>),
    Two(<<Open("f", 0, {}), Write(1, <<1>>), Close(1)>>,
        <<Open("f", 1, {"DSYNC"}), Read(1, 1), Pwrite(1, <<2, 3>>, 2)>>),
    Two(<<Link("f", "h"), Rename("f", "h"), Unlink("f")>>, <<Open("f", 1, {"CREAT"}), Write(1, <<5>>)>>),
    Two(<<Pwrite(0, <<1, 2, 3>>, 1)>>, <<Pread(0, 5, 0), Close(0)>>),
    Two(<<Write(0, <<1, 2, 3, 4>>), Pread(0, 1, 1)>>, <<Read(0, 1)>>) }

Mount(j, d, s) == [journal |-> j, delalloc |-> d, stop |-> s]
MCModes == {Mount("writeback", FALSE, FALSE), Mount("ordered", TRUE, FALSE),
            Mount("ordered", FALSE, FALSE), Mount("journal", FALSE, FALSE),
            Mount("ordered", TRUE, TRUE)}
=============================================================================
