------------------------------ MODULE RADriver ------------------------------
(***************************************************************************)
(* What RADriver.cpp adds to the graph: the views of the labels under the  *)
(* release-acquire memory model, and the choices it leaves to a new access.*)
(* Views are sets of positions (the code keeps the last index per thread). *)
(***************************************************************************)
EXTENDS ExecutionGraph

(* calcPPoRfBefore(): e and what is (po U rf)-before it.  The rf of e      *)
(* itself is left out, so that the view of a read outlives a revisit.      *)
CalcPPoRfBefore(g, e) ==
    {e} \cup (IF Prev(e) \in Pos(g)
              THEN g.ev[Prev(e)].pre \cup
                   UNION {g.ev[w].pre : w \in RfStores(g, Prev(e)) \ {InitPos}}
              ELSE {})

(* getPrefixView() *)
PrefixView(g, e) == g.ev[e].pre

(* GenMCDriver::addLabelToGraph(): the prefix view is kept in the label. *)
AddLabelToGraph(g, e, lab) == AddLabel(g, e, [lab EXCEPT !.pre = CalcPPoRfBefore(g, e)])

(* rf_pred(): of the stores a read takes its bytes from, the first one *)
RfPred(g, r) == IF g.ev[r].rf = <<>> THEN InitPos ELSE g.ev[r].rf[1][1]

(* calculate0(), the happens-before view: what is po-before e, and what an *)
(* acquire read before e synchronises with: a release store, directly or   *)
(* through the RMWs that follow it.                                        *)
HbView(g, e) ==
    LET view[k \in {"hb", "rel"}, f \in Pos(g)] ==
          CASE k = "hb" /\ Prev(f) \notin Pos(g) -> {}
            [] k = "hb" /\ Prev(f) \in Pos(g) ->
                 LET p == Prev(f)
                     w == IF g.ev[p].op = "R" /\ g.ev[p].sync THEN RfPred(g, p) ELSE InitPos
                 IN  view["hb", p] \cup {p} \cup
                     (IF w = InitPos THEN {} ELSE view["rel", w])
            [] k = "rel" ->
                 (IF g.ev[f].sync THEN view["hb", f] \cup {f} ELSE {}) \cup
                 (IF IsRMWStore(g.ev[f]) /\ RfPred(g, Prev(f)) # InitPos
                  THEN view["rel", RfPred(g, Prev(f))] ELSE {})
    IN  view["hb", e]

(* Fault: only the reads that happen before e count. *)
FaultIsWriteRfBefore(g, w, e, a) ==
    \E r \in Readers(g, w) : Overlaps(g.ev[r], a) /\ r \in HbView(g, e)

IsWriteRfBefore(g, w, e, a) ==
    \/ w \in HbView(g, e)
    \/ \E r \in Readers(g, w) : Overlaps(g.ev[r], a) /\ r \in HbView(g, e)

(* getCoherentStores() under --mixer *)
CoherentStores(g, a) == <<InitPos>> \o Co(g, a)

(* getCoherentPlacings(): the stores that a new store may be placed in     *)
(* front of, after the last one it has seen (splitLocMOBefore).  An RMW    *)
(* store has one place only, right after the store its load reads from.    *)
CoherentPlacings(g, e) ==
    LET s == Co(g, g.ev[e])
    IN  Picked(s, {k \in DOMAIN s :
                     \A j \in k..Len(s) : ~IsWriteRfBefore(g, s[j], e, g.ev[e])})

RMWSuccessors(g, e) ==
    LET w == RfPred(g, Prev(e))
    IN  IF w = InitPos THEN Co(g, g.ev[e]) ELSE CoSucc(g, w, g.ev[w])
=============================================================================
