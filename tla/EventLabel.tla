----------------------------- MODULE EventLabel -----------------------------
(***************************************************************************)
(* The labels of an execution graph (src/EventLabel.hpp).  LLVM-style RTTI *)
(* gives every class a kind, and isa<C> tests whether the kind lies in C's *)
(* interval of the enumeration: the order of the enumeration is part of    *)
(* the program's meaning.  A class is modelled by its bases, the kind its  *)
(* constructor passes on, the kinds its classof accepts, the graph-related *)
(* fields it adds, and those its reset() clears itself.                    *)
(***************************************************************************)
EXTENDS Naturals, Sequences, FiniteSets, TLC, Functions

\* EventLabelKind, with the markers that open and close an interval.
KindsBeforeWrites ==
    << "Empty", "Optional", "ThreadStart", "Init", "ThreadStartEnd",
       "TerminatorBegin", "BlockBegin", "SpinloopBlock", "FaiZNEBlock",
       "LockZNEBlock", "HelpedCASBlock", "ConfirmationBlock",
       "LockNotAcqBlock", "LockNotRelBlock", "BarrierBlock", "ErrorBlock",
       "UserBlock", "JoinBlock", "ReadOptBlock", "BlockEnd", "ThreadKill",
       "ThreadFinish", "TerminatorLast", "ThreadCreate", "ThreadJoin",
       "LoopBegin", "SpinStart", "FaiZNESpinEnd", "LockZNESpinEnd",
       "MemAccessBegin", "Read", "BWaitRead", "SpeculativeRead",
       "ConfirmingRead", "FaiRead", "NoRetFaiRead", "BIncFaiRead",
       "FaiReadLast", "CasRead", "LockCasRead", "TrylockCasRead",
       "HelpedCasRead", "ConfirmingCasRead", "CasReadLast", "DskRead",
       "LastRead" >>
WriteKinds ==
    << "Write", "UnlockWrite", "BInitWrite", "BDestroyWrite",
       "FaiWrite", "NoRetFaiWrite", "BIncFaiWrite", "FaiWriteLast",
       "CasWrite", "LockCasWrite", "TrylockCasWrite", "HelpedCasWrite",
       "ConfirmingCasWrite", "CasWriteLast", "DskWrite", "DskMdWrite",
       "DskJnlWrite", "DskDirWrite", "LastDskWrite", "LastWrite" >>
KindsAfterWrites ==
    << "MemAccessEnd", "Fence", "DskFsync", "DskSync", "DskPbarrier",
       "SmpFenceLKMM", "RCUSyncLKMM", "LastFence", "Malloc", "Free",
       "HpRetire", "FreeLast", "HpProtect", "LockLAPOR", "UnlockLAPOR",
       "HelpingCas", "DskOpen", "RCULockLKMM", "RCUUnlockLKMM", "CLFlush" >>

\* Seeded fault: a kind appended to the writes, after their last marker.
FaultKindOrder ==
    KindsBeforeWrites \o SelectSeq(WriteKinds, LAMBDA k : k # "BDestroyWrite")
        \o << "BDestroyWrite" >> \o KindsAfterWrites

KindOrder == KindsBeforeWrites \o WriteKinds \o KindsAfterWrites

Kinds == {KindOrder[i] : i \in DOMAIN KindOrder}
KindNumber == [k \in Kinds |-> CHOOSE i \in DOMAIN KindOrder : KindOrder[i] = k]

\* The comparison of a classof: the kinds from a to b.
Between(a, b) == {<<a, b>>}
InInterval(k, S) == \E s \in S : KindNumber[k] \in KindNumber[s[1]]..KindNumber[s[2]]

\* The three predicates on kinds that classes of the driver rely on.
IsTerminator(k) == InInterval(k, Between("TerminatorBegin", "TerminatorLast"))
IsDependable(k) == InInterval(k, Between("Read", "LastRead")) \/ k = "Malloc"

HasValue(k) == \/ InInterval(k, Between("Read", "LastRead")
                                    \cup Between("ThreadStart", "ThreadStartEnd"))
               \/ k \in {"ThreadJoin", "Optional"}

-----------------------------------------------------------------------------
(* Classes.  "ord" is the ordering a constructor fixes, or "given" when    *)
(* the instruction that creates the label passes one.                      *)

None == "none"
Class(bases, kind, kinds, ord, fields, clears) ==
    [bases |-> bases, kind |-> kind, kinds |-> kinds, ord |-> ord,
     fields |-> fields, clears |-> clears]

\* A class that adds a kind and no graph-related state.
Leaf(bases, kind, ord) == Class(bases, kind, Between(kind, kind), ord, {}, {})

EventLabel ==
    LET info == {"stamp", "calculatedRels", "calculatedViews", "prefixView",
                 "revisitable"}
    IN Class(<<>>, None, Between("Empty", "CLFlush"), "given", info, info)
DskAccessLabel ==
    Class(<<>>, None, {<<k, k>> : k \in {"DskRead", "DskSync", "DskFsync", "DskPbarrier"}}
                      \cup Between("DskWrite", "LastDskWrite"),
          "given", {"pbView"}, {"pbView"})
EmptyLabel == Leaf(<<"EventLabel">>, "Empty", "na")

BlockLabel == Class(<<"EventLabel">>, None, Between("BlockBegin", "BlockEnd"),
                    "na", {}, {})
BlockPureSubclass(kind) == Leaf(<<"BlockLabel">>, kind, "na")
JoinBlockLabel == Leaf(<<"BlockLabel">>, "JoinBlock", "na")
ReadOptBlockLabel == Leaf(<<"BlockLabel">>, "ReadOptBlock", "na")

\* reset() is not overridden: whether the block may be, and was, expanded
\* survives it.
OptionalLabel == Class(<<"EventLabel">>, "Optional", Between("Optional", "Optional"), "na",
                       {"expandable", "expanded"}, {})
LoopBeginLabel == Leaf(<<"EventLabel">>, "LoopBegin", "na")
SpinStartLabel == Leaf(<<"EventLabel">>, "SpinStart", "na")
FaiZNESpinEndLabel == Leaf(<<"EventLabel">>, "FaiZNESpinEnd", "na")
LockZNESpinEndLabel == Leaf(<<"EventLabel">>, "LockZNESpinEnd", "na")

MemAccessLabel ==
    Class(<<"EventLabel">>, None, Between("MemAccessBegin", "MemAccessEnd"),
          "given", {"maximal", "allocLab"}, {"maximal", "allocLab"})
ReadLabel == Class(<<"MemAccessLabel">>, "Read", Between("Read", "LastRead"),
                   "given", {"rfs", "ipr"}, {"rfs", "ipr"})
ReadPureSubclass(kind) == Leaf(<<"ReadLabel">>, kind, "given")
BWaitReadLabel == Leaf(<<"ReadLabel">>, "BWaitRead", "given")
FaiReadLabel == Class(<<"ReadLabel">>, "FaiRead", Between("FaiRead", "FaiReadLast"),
                      "given", {"RevBlocker"}, {"RevBlocker"})
FaiReadPureSubclass(kind) == Leaf(<<"FaiReadLabel">>, kind, "given")
CasReadLabel == Class(<<"ReadLabel">>, "CasRead", Between("CasRead", "CasReadLast"),
                      "given", {"RevBlocker"}, {"RevBlocker"})
CasReadPureSubclass(kind) == Leaf(<<"CasReadLabel">>, kind, "given")
LockCasReadLabel == Leaf(<<"CasReadLabel">>, "LockCasRead", "acq")
TrylockCasReadLabel == Leaf(<<"CasReadLabel">>, "TrylockCasRead", "acq")
DskReadLabel == Leaf(<<"ReadLabel", "DskAccessLabel">>, "DskRead", "acq")

WriteLabel ==
    Class(<<"MemAccessLabel">>, "Write", Between("Write", "LastWrite"), "given",
          {"readerList", "RevBlocker"}, {"readerList", "RevBlocker"})

UnlockWriteLabel == Leaf(<<"WriteLabel">>, "UnlockWrite", "rel")
BInitWriteLabel == Leaf(<<"WriteLabel">>, "BInitWrite", "given")
BDestroyWriteLabel == Leaf(<<"WriteLabel">>, "BDestroyWrite", "given")
FaiWriteLabel == Class(<<"WriteLabel">>, "FaiWrite",
                       Between("FaiWrite", "FaiWriteLast"), "given", {}, {})
NoRetFaiWriteLabel == Leaf(<<"FaiWriteLabel">>, "NoRetFaiWrite", "given")
BIncFaiWriteLabel == Leaf(<<"FaiWriteLabel">>, "BIncFaiWrite", "given")
CasWriteLabel == Class(<<"WriteLabel">>, "CasWrite",
                       Between("CasWrite", "CasWriteLast"), "given", {}, {})
CasWritePureSubclass(kind) == Leaf(<<"CasWriteLabel">>, kind, "given")
LockCasWriteLabel == Leaf(<<"CasWriteLabel">>, "LockCasWrite", "acq")
TrylockCasWriteLabel == Leaf(<<"CasWriteLabel">>, "TrylockCasWrite", "acq")
DskWriteLabel == Class(<<"WriteLabel", "DskAccessLabel">>, "DskWrite",
                       Between("DskWrite", "LastDskWrite"), "rel", {}, {})
DskMdWriteLabel == Leaf(<<"DskWriteLabel">>, "DskMdWrite", "rel")
DskDirWriteLabel == Leaf(<<"DskWriteLabel">>, "DskDirWrite", "rel")
DskJnlWriteLabel == Leaf(<<"DskWriteLabel">>, "DskJnlWrite", "rel")

FenceLabel == Class(<<"EventLabel">>, "Fence", Between("Fence", "LastFence"),
                    "given", {}, {})
DskFsyncLabel == Leaf(<<"FenceLabel", "DskAccessLabel">>, "DskFsync", "rel")
DskSyncLabel == Leaf(<<"FenceLabel", "DskAccessLabel">>, "DskSync", "rel")
DskPbarrierLabel == Leaf(<<"FenceLabel", "DskAccessLabel">>, "DskPbarrier", "rel")
SmpFenceLabelLKMM == Leaf(<<"FenceLabel">>, "SmpFenceLKMM", "given")
RCUSyncLabelLKMM == Leaf(<<"FenceLabel">>, "RCUSyncLKMM", "sc")

ThreadCreateLabel == Leaf(<<"EventLabel">>, "ThreadCreate", "rel")
ThreadJoinLabel == Leaf(<<"EventLabel">>, "ThreadJoin", "acq")
ThreadKillLabel == Leaf(<<"EventLabel">>, "ThreadKill", "na")
ThreadStartLabel == Class(<<"EventLabel">>, "ThreadStart",
                          Between("ThreadStart", "ThreadStartEnd"), "acq", {}, {})
InitLabel == Class(<<"ThreadStartLabel">>, "Init", Between("Init", "Init"), "acq", {"initRfs"}, {})
ThreadFinishLabel == Class(<<"EventLabel">>, "ThreadFinish", Between("ThreadFinish", "ThreadFinish"),
                           "rel", {"parentJoin"}, {"parentJoin"})

MallocLabel == Class(<<"EventLabel">>, "Malloc", Between("Malloc", "Malloc"), "na",
                     {"dLab", "accessList"}, {"dLab", "accessList"})
FreeLabel == Class(<<"EventLabel">>, "Free", Between("Free", "FreeLast"), "na",
                   {"aLab"}, {"aLab"})
HpRetireLabel == Leaf(<<"FreeLabel">>, "HpRetire", "na")
HpProtectLabel == Leaf(<<"EventLabel">>, "HpProtect", "rel")
LockLabelLAPOR == Leaf(<<"EventLabel">>, "LockLAPOR", "acq")
UnlockLabelLAPOR == Leaf(<<"EventLabel">>, "UnlockLAPOR", "rel")
HelpingCasLabel == Leaf(<<"EventLabel">>, "HelpingCas", "given")
DskOpenLabel == Leaf(<<"EventLabel">>, "DskOpen", "rel")
RCULockLabelLKMM == Leaf(<<"EventLabel">>, "RCULockLKMM", "acq")
RCUUnlockLabelLKMM == Leaf(<<"EventLabel">>, "RCUUnlockLKMM", "rel")
CLFlushLabel == Leaf(<<"EventLabel">>, "CLFlush", "rlx")

\* Every class by its name.
Classes ==
    [EventLabel |-> EventLabel, DskAccessLabel |-> DskAccessLabel,
     EmptyLabel |-> EmptyLabel, BlockLabel |-> BlockLabel,
     SpinloopBlockLabel |-> BlockPureSubclass("SpinloopBlock"),
     FaiZNEBlockLabel |-> BlockPureSubclass("FaiZNEBlock"),
     LockZNEBlockLabel |-> BlockPureSubclass("LockZNEBlock"),
     HelpedCASBlockLabel |-> BlockPureSubclass("HelpedCASBlock"),
     ConfirmationBlockLabel |-> BlockPureSubclass("ConfirmationBlock"),
     LockNotAcqBlockLabel |-> BlockPureSubclass("LockNotAcqBlock"),
     LockNotRelBlockLabel |-> BlockPureSubclass("LockNotRelBlock"),
     BarrierBlockLabel |-> BlockPureSubclass("BarrierBlock"),
     ErrorBlockLabel |-> BlockPureSubclass("ErrorBlock"),
     UserBlockLabel |-> BlockPureSubclass("UserBlock"),
     JoinBlockLabel |-> JoinBlockLabel, ReadOptBlockLabel |-> ReadOptBlockLabel,
     OptionalLabel |-> OptionalLabel, LoopBeginLabel |-> LoopBeginLabel,
     SpinStartLabel |-> SpinStartLabel, FaiZNESpinEndLabel |-> FaiZNESpinEndLabel,
     LockZNESpinEndLabel |-> LockZNESpinEndLabel, MemAccessLabel |-> MemAccessLabel,
     ReadLabel |-> ReadLabel, BWaitReadLabel |-> BWaitReadLabel,
     SpeculativeReadLabel |-> ReadPureSubclass("SpeculativeRead"),
     ConfirmingReadLabel |-> ReadPureSubclass("ConfirmingRead"),
     FaiReadLabel |-> FaiReadLabel,
     NoRetFaiReadLabel |-> FaiReadPureSubclass("NoRetFaiRead"),
     BIncFaiReadLabel |-> FaiReadPureSubclass("BIncFaiRead"),
     CasReadLabel |-> CasReadLabel, LockCasReadLabel |-> LockCasReadLabel,
     TrylockCasReadLabel |-> TrylockCasReadLabel,
     HelpedCasReadLabel |-> CasReadPureSubclass("HelpedCasRead"),
     ConfirmingCasReadLabel |-> CasReadPureSubclass("ConfirmingCasRead"),
     DskReadLabel |-> DskReadLabel, WriteLabel |-> WriteLabel,
     UnlockWriteLabel |-> UnlockWriteLabel, BInitWriteLabel |-> BInitWriteLabel,
     BDestroyWriteLabel |-> BDestroyWriteLabel, FaiWriteLabel |-> FaiWriteLabel,
     NoRetFaiWriteLabel |-> NoRetFaiWriteLabel,
     BIncFaiWriteLabel |-> BIncFaiWriteLabel, CasWriteLabel |-> CasWriteLabel,
     LockCasWriteLabel |-> LockCasWriteLabel,
     TrylockCasWriteLabel |-> TrylockCasWriteLabel,
     HelpedCasWriteLabel |-> CasWritePureSubclass("HelpedCasWrite"),
     ConfirmingCasWriteLabel |-> CasWritePureSubclass("ConfirmingCasWrite"),
     DskWriteLabel |-> DskWriteLabel, DskMdWriteLabel |-> DskMdWriteLabel,
     DskDirWriteLabel |-> DskDirWriteLabel, DskJnlWriteLabel |-> DskJnlWriteLabel,
     FenceLabel |-> FenceLabel, DskFsyncLabel |-> DskFsyncLabel,
     DskSyncLabel |-> DskSyncLabel, DskPbarrierLabel |-> DskPbarrierLabel,
     SmpFenceLabelLKMM |-> SmpFenceLabelLKMM, RCUSyncLabelLKMM |-> RCUSyncLabelLKMM,
     ThreadCreateLabel |-> ThreadCreateLabel, ThreadJoinLabel |-> ThreadJoinLabel,
     ThreadKillLabel |-> ThreadKillLabel, ThreadStartLabel |-> ThreadStartLabel,
     InitLabel |-> InitLabel, ThreadFinishLabel |-> ThreadFinishLabel,
     MallocLabel |-> MallocLabel, FreeLabel |-> FreeLabel,
     HpRetireLabel |-> HpRetireLabel, HpProtectLabel |-> HpProtectLabel,
     LockLabelLAPOR |-> LockLabelLAPOR, UnlockLabelLAPOR |-> UnlockLabelLAPOR,
     HelpingCasLabel |-> HelpingCasLabel, DskOpenLabel |-> DskOpenLabel,
     RCULockLabelLKMM |-> RCULockLabelLKMM,
     RCUUnlockLabelLKMM |-> RCUUnlockLabelLKMM, CLFlushLabel |-> CLFlushLabel]

ClassNames == DOMAIN Classes
Concrete == {c \in ClassNames : Classes[c].kind # None}

\* A class and all it derives from (the hierarchy is four deep).
WithBases(S) == UNION {{c} \cup Range(Classes[c].bases) : c \in S}
Above(c) == WithBases(WithBases(WithBases(WithBases({c}))))

\* isa<c>(label of kind k): the class's own test, whatever the object is.
Isa(c, k) == InInterval(k, Classes[c].kinds)

\* The kinds the two switches that cross-cast DskAccessLabel know; any other
\* is a BUG().
DskCastCases == {"DskRead", "DskWrite", "DskMdWrite", "DskJnlWrite", "DskDirWrite",
                 "DskSync", "DskFsync", "DskPbarrier"}

\* The orderings a label has at least, if it says so.
IsAtLeastAcquire(ord) == ord \in {"acq", "ar", "sc"}
IsAtLeastRelease(ord) == ord \in {"rel", "ar", "sc"}

\* The labels whose value extractValPrefix takes.
ExtractedClasses == {"ReadLabel", "ThreadJoinLabel", "ThreadStartLabel", "OptionalLabel"}

-----------------------------------------------------------------------------
(* Visitors (src/LabelVisitor.hpp, src/DriverHandlerDispatcher.hpp).       *)

\* visitXLabel delegates to the visitor of X's base, save the three disk
\* writes, which skip DskWriteLabel, and the initial label.
Delegate(c) ==
    IF c \in {"DskMdWriteLabel", "DskJnlWriteLabel", "DskDirWriteLabel"}
    THEN "WriteLabel"
    ELSE IF c = "InitLabel" THEN "EventLabel"
    ELSE Head(Classes[c].bases)

\* What DriverHandlerDispatcher overrides, and the handler it calls.
OverriddenVisitors ==
    [BlockLabel |-> "handleBlock", OptionalLabel |-> "handleOptional",
     ReadLabel |-> "handleLoad", DskReadLabel |-> "handleDskRead",
     WriteLabel |-> "handleStore", DskWriteLabel |-> "handleDskWrite",
     FenceLabel |-> "handleFence", CLFlushLabel |-> "handleCLFlush",
     DskFsyncLabel |-> "handleDskFsync", DskSyncLabel |-> "handleDskSync",
     DskPbarrierLabel |-> "handleDskPbarrier",
     ThreadCreateLabel |-> "handleThreadCreate",
     ThreadJoinLabel |-> "handleThreadJoin",
     ThreadFinishLabel |-> "handleThreadFinish", MallocLabel |-> "handleMalloc",
     FreeLabel |-> "handleFree", HpProtectLabel |-> "handleHpProtect",
     LoopBeginLabel |-> "handleLoopBegin", SpinStartLabel |-> "handleSpinStart",
     FaiZNESpinEndLabel |-> "handleFaiZNESpinEnd",
     LockZNESpinEndLabel |-> "handleLockZNESpinEnd",
     ThreadKillLabel |-> "handleThreadKill",
     HelpingCasLabel |-> "handleHelpingCas", DskOpenLabel |-> "handleDskOpen"]

DispatcherHandlers == OverriddenVisitors

\* The handler the interpreter itself calls for the labels it creates.
InterpreterHandlers ==
    LET calls(h, classes) == [c \in classes |-> h]
    IN calls("handleLoad", {"ReadLabel", "SpeculativeReadLabel", "ConfirmingReadLabel",
             "BWaitReadLabel", "FaiReadLabel", "NoRetFaiReadLabel", "BIncFaiReadLabel",
             "CasReadLabel", "LockCasReadLabel", "TrylockCasReadLabel",
             "HelpedCasReadLabel", "ConfirmingCasReadLabel"})
       @@ calls("handleStore", {"WriteLabel", "UnlockWriteLabel", "BInitWriteLabel",
             "BDestroyWriteLabel", "FaiWriteLabel", "NoRetFaiWriteLabel",
             "BIncFaiWriteLabel", "CasWriteLabel", "LockCasWriteLabel",
             "TrylockCasWriteLabel", "HelpedCasWriteLabel", "ConfirmingCasWriteLabel"})
       @@ calls("handleDskRead", {"DskReadLabel"})
       @@ calls("handleDskWrite", {"DskWriteLabel", "DskMdWriteLabel", "DskDirWriteLabel",
             "DskJnlWriteLabel"})
       @@ calls("handleFence", {"FenceLabel", "SmpFenceLabelLKMM"})
       @@ calls("handleBlock", {"SpinloopBlockLabel", "LockNotAcqBlockLabel",
             "UserBlockLabel"})
       @@ calls("handleFree", {"FreeLabel", "HpRetireLabel"})
       @@ [MallocLabel |-> "handleMalloc", OptionalLabel |-> "handleOptional",
           ThreadCreateLabel |-> "handleThreadCreate",
           ThreadJoinLabel |-> "handleThreadJoin",
           ThreadFinishLabel |-> "handleThreadFinish",
           HpProtectLabel |-> "handleHpProtect", LoopBeginLabel |-> "handleLoopBegin",
           SpinStartLabel |-> "handleSpinStart",
           FaiZNESpinEndLabel |-> "handleFaiZNESpinEnd",
           LockZNESpinEndLabel |-> "handleLockZNESpinEnd",
           HelpingCasLabel |-> "handleHelpingCas", CLFlushLabel |-> "handleCLFlush",
           DskOpenLabel |-> "handleDskOpen", DskFsyncLabel |-> "handleDskFsync",
           DskSyncLabel |-> "handleDskSync", DskPbarrierLabel |-> "handleDskPbarrier",
           RCULockLabelLKMM |-> "handleRCULockLKMM",
           RCUUnlockLabelLKMM |-> "handleRCUUnlockLKMM",
           RCUSyncLabelLKMM |-> "handleRCUSyncLKMM"]

\* The handler a label of class c is dispatched to; "BUG" if to none.
Visited(c) == IF c \in DOMAIN DispatcherHandlers \cup {"EventLabel"} THEN c
              ELSE Delegate(c)
Dispatch(c) == LET v == Visited(Visited(Visited(c)))
               IN IF v = "EventLabel" THEN "BUG" ELSE DispatcherHandlers[v]

-----------------------------------------------------------------------------
(* What the program knows of an object of class c at run time: its kind,   *)
(* the classes isa<> says it is of, the graph-related fields it has, the   *)
(* ones its reset() clears, calling the reset() of every base, and the     *)
(* handler its visitor calls.                                              *)

RTTI(c) ==
    LET kind == Classes[c].kind
    IN [kind |-> kind,
        isa |-> {d \in ClassNames : Isa(d, kind)},
        above |-> Above(c),
        terminator |-> IsTerminator(kind),
        hasValue |-> HasValue(kind),
        fields |-> UNION {Classes[a].fields : a \in Above(c)},
        reset |-> UNION {Classes[a].clears : a \in Above(c)},
        handler |-> Dispatch(c)]
=============================================================================
