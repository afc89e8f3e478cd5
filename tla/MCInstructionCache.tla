------------------------- MODULE MCInstructionCache -------------------------
(* A writer that ends, blocks or frees depending on what it reads, a thread *)
(* that joins it, and one with an optional block.                           *)
EXTENDS InstructionCache, TLC

MCThreads == {1, 2, 3}
MCChild == 2 :> 1 @@ 1 :> 1 @@ 3 :> 3
Writer ==
    (<<0>> :> << "MallocLabel", "ReadLabel" >>) @@
    (<<0, 0>> :> << "WriteLabel", "FenceLabel", "ThreadFinishLabel" >>) @@
    (<<0, 1>> :> << "FreeLabel", "FaiReadLabel" >>) @@
    (<<0, 1, 0>> :> << "FaiWriteLabel", "ThreadFinishLabel" >>) @@
    (<<0, 1, 1>> :> << "UserBlockLabel" >>)
Joiner ==
    (<<0>> :> << "WriteLabel", "ThreadJoinLabel" >>) @@
    (<<0, 0>> :> << "OptionalLabel" >>) @@
    (<<0, 1>> :> << "ThreadFinishLabel" >>) @@
    (<<0, 0, 0>> :> << "ThreadFinishLabel" >>) @@
    (<<0, 0, 1>> :> << "WriteLabel", "ThreadFinishLabel" >>)
Chooser ==
    (<<0>> :> << "OptionalLabel" >>) @@
    (<<0, 0>> :> << "WriteLabel", "ThreadFinishLabel" >>) @@
    (<<0, 1>> :> << "DskReadLabel" >>) @@
    (<<0, 1, 0>> :> << "SpinloopBlockLabel" >>) @@
    (<<0, 1, 1>> :> << "WriteLabel", "ThreadFinishLabel" >>)
MCCode == <<Writer, Joiner, Chooser>>
=============================================================================
