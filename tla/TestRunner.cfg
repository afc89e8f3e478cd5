SPECIFICATION FairSpec
CONSTANTS
    lib = lib  it = it
    base = base  extra = extra
    t1 = t1  t2 = t2  t3 = t3
    None = None
    Target = {it, lib}
    Order <- CrateOrder
    Unit = {lib}
    Stem <- CrateStem
    Config = {base, extra}
    Rank <- FeatureBitcode
    Size <- FeatureBitcode
    Test = {t1, t2, t3}
    TestsOf <- CrateTests
    Fn <- CrateFn
    ShouldPanic = {t1}
    Unsupported = {t2}
    Selections <- CrateSelections
    Verdicts <- AllVerdicts
    MaxRuns = 2
    MaxFaults = 1
CHECK_DEADLOCK FALSE
INVARIANTS TypeOK PassMeansVerified FailuresReported SummaryAgrees
PROPERTIES SingleWriter InvocationEnds
