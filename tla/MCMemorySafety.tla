--------------------------- MODULE MCMemorySafety ---------------------------
(***************************************************************************)
(* Programs under test for MemorySafety.  "x" is a global variable, "p" is *)
(* an object that is allocated; objects are four bytes long.               *)
(***************************************************************************)
EXTENDS MemorySafety

Op(kind, ord, obj) ==
    [kind |-> kind, ord |-> ord, obj |-> obj, off |-> 0, len |-> 4, exit |-> FALSE,
     hp |-> None, child |-> 0]
Create(c) == [Op("ThreadCreate", "rel", None) EXCEPT !.child = c]
Join(c) == [Op("ThreadJoin", "acq", None) EXCEPT !.child = c]
Malloc == Op("Malloc", "na", "p")
Free == Op("Free", "na", "p")
Retire == Op("HpRetire", "na", "p")
Protect == [Op("HpProtect", "rel", "p") EXCEPT !.hp = "h1"]
Reprotect == [Op("HpProtect", "rel", None) EXCEPT !.hp = "h1"]
Read(ord, obj) == Op("Read", ord, obj)
ReadOrExit(ord, obj) == [Op("Read", ord, obj) EXCEPT !.exit = TRUE]
Write(ord, obj) == Op("Write", ord, obj)
Fai(ord, obj) == <<Op("FaiRead", ord, obj), Op("FaiWrite", ord, obj)>>
Fence(ord) == Op("Fence", ord, None)

\* Message passing of an object, by a release store or fences; the receiver
\* frees it, or the sender does once it has joined the receiver.
Publish(how) == <<Malloc, Create(2), Write("na", "p")>> \o how
Receive(how) == how \o <<Read("na", "p")>>
Passing == {
    <<Publish(<<Write("rel", "x")>>), Receive(<<ReadOrExit("acq", "x")>>) \o <<Free>> >>,
    <<Publish(<<Write("rlx", "x")>>), Receive(<<ReadOrExit("acq", "x")>>)>>,
    <<Publish(<<Fence("rel"), Write("rlx", "x")>>),
      Receive(<<ReadOrExit("rlx", "x"), Fence("acq")>>) >>,
    <<Publish(<<Write("rel", "x"), Join(2), Free>>), Receive(<<ReadOrExit("acq", "x")>>)>>,
    <<Publish(<<Write("rel", "x"), Free>>), Receive(<<ReadOrExit("acq", "x")>>)>> }

\* A release sequence continued by another thread's RMW.
Sequences == {
    <<<<Create(2), Create(3), Write("na", "y"), Write("rel", "x")>>, Fai("rlx", "x"),
      <<ReadOrExit("acq", "x"), Read("na", "y")>> >>,
    <<<<Create(2), Create(3), Write("rlx", "x"), Write("rlx", "y")>>,
      <<Write("na", "y"), Write("rlx", "x")>>, <<Read("rlx", "y")>> >> }

\* Hazard pointers.
Hazards == {
    <<<<Malloc, Write("rlx", "p"), Create(2), Write("rel", "x"), Retire>>,
      <<ReadOrExit("acq", "x"), Protect, Read("rlx", "p")>> >>,
    <<<<Malloc, Write("rlx", "p"), Create(2), Write("rel", "x"), Retire>>,
      <<ReadOrExit("acq", "x"), Protect, Reprotect, Read("rlx", "p")>> >>,
    <<<<Malloc, Write("rlx", "p"), Create(2), Retire>>, <<Read("rlx", "p")>> >> }

\* Uses of memory that was never allocated, or not yet.
Unallocated == {
    <<<<Create(2), Malloc>>, <<Write("rlx", "p")>> >>,
    <<<<Create(2), Malloc, Write("rlx", "p")>>, <<Free>> >> }

Statics == {"x", "y"}
CorrectAndFaulty == Passing \cup Sequences \cup Hazards \cup Unallocated

\* An object that is freed twice.
FreedTwice == {<<<<Malloc, Free, Free>> >>}
=============================================================================
