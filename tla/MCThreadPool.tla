---------------------------- MODULE MCThreadPool ----------------------------
(* Instances of ThreadPool for TLC. *)
EXTENDS ThreadPool, TLC

(* A revisit tree with a chain, a fork and a forward revisit. *)
MCItem == 1..5
MCRoot == 1
MCParent == 2 :> 1 @@ 3 :> 1 @@ 4 :> 2 @@ 5 :> 2
MCForward == {3}
MCNoBug == {}
MCTwoBugs == {3, 4}

(* The same without item 5, for liveness. *)
SmallItem == 1..4
SmallParent == 2 :> 1 @@ 3 :> 1 @@ 4 :> 2
=============================================================================
