------------------------- MODULE ParallelExploration -------------------------
(***************************************************************************)
(* What GenMCDriver::verify() promises when it runs with several threads:  *)
(* executions are explored one at a time, each exactly once, an execution  *)
(* is explored only after the one it is a revisit of, and the verdict is   *)
(* VE_OK only when the whole revisit tree has been explored and none of    *)
(* its executions is erroneous.  How the work is distributed, and that it  *)
(* is distributed at all, does not show.                                   *)
(***************************************************************************)
CONSTANTS
    Item,     \* the executions of the program under test
    Root,     \* the execution the exploration starts from
    Parent,   \* Parent[i] is the execution whose exploration discovers i
    Buggy,    \* the executions in which the driver detects an error
    VE_OK,    \* VerificationError::VE_OK
    NoVerdict \* verify() has not returned

VARIABLES
    executed,   \* the executions explored so far
    verdict     \* the status verify() returned

vars == <<executed, verdict>>

(* Executions that have been discovered and not explored yet. *)
Frontier == {i \in Item \ executed : i = Root \/ Parent[i] \in executed}

Init ==
    /\ executed = {}
    /\ verdict = NoVerdict

Explore ==
    /\ verdict = NoVerdict
    /\ \E i \in Frontier : executed' = executed \cup {i}
    /\ UNCHANGED verdict

Succeed ==
    /\ verdict = NoVerdict
    /\ Frontier = {}
    /\ executed \cap Buggy = {}
    /\ verdict' = VE_OK
    /\ UNCHANGED executed

Fail ==
    /\ verdict = NoVerdict
    /\ \E e \in executed \cap Buggy : verdict' = e
    /\ UNCHANGED executed

Next == Explore \/ Succeed \/ Fail

Spec == Init /\ [][Next]_vars
=============================================================================
