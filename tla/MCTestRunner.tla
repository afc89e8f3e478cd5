---------------------------- MODULE MCTestRunner ----------------------------
(* Instances of TestRunner for TLC. *)
EXTENDS TestRunner, TLC

CONSTANTS lib, it,          \* a unit-test binary, an integration test
          base, extra,      \* without and with a feature
          t1, t2, t3

AllVerdicts == Verdict

(* A crate with unit tests and one integration test. *)
CrateOrder == <<it, lib>>
CrateStem == lib :> "crate" @@ it :> "it"
CrateTests == it :> <<t1>> @@ lib :> <<t2, t3>>
CrateFn == t1 :> <<"send">> @@ t2 :> <<"recv", "empty">> @@ t3 :> <<"send">>
CrateSelections == {{it, lib}, {lib}}

(* The hash and the size of the bitcode files, per configuration. *)
FeatureBitcode ==
    <<it, base>> :> 2 @@ <<it, extra>> :> 1
    @@ <<lib, base>> :> 1 @@ <<lib, extra>> :> 2
=============================================================================
