---------------------------- MODULE SettledSafety ---------------------------
(***************************************************************************)
(* What the settled-action projection promises of its stores.              *)
(***************************************************************************)
EXTENDS SettledProjection

Values == Nat \cup {None}

\* Every variable has its type; a position is an index into the observations.
TypeOK ==
    /\ deliveredAt \in [Receipts -> Times]
    /\ plan \in [Receipts -> Values]
    /\ completed \subseteq Receipts
    /\ marker \in [Receipts -> Values]
    /\ evidence \in [Receipts -> Values]
    /\ fact \in [Receipts -> Values]
    /\ cooldown \subseteq Receipts
    /\ position \in [Receipts -> 0 .. NumReceipts]
    /\ pc \in Steps
    /\ cur \in Receipts \cup {0}
    /\ pc # "idle" <=> cur # 0
    /\ planned \in Seq(Receipts)
    /\ overlapped \in BOOLEAN

\* A receipt's plan, evidence, observation and marker carry one value however
\* often it was interrupted and replayed over a counter that moved meanwhile
\* ("replay the plan verbatim", projector.py).
OneValuePerReceipt ==
    \A r \in Receipts : \A v \in {evidence[r], fact[r], marker[r]} :
        v # None => v = plan[r]

\* The marker is written last: what it reports as applied is all there, in the
\* store and, for the next derivation, in memory.
MarkerMeansFacts ==
    \A r \in Receipts : marker[r] # None =>
        /\ evidence[r] # None /\ fact[r] # None /\ position[r] > 0
        /\ r \notin Photo => r \in cooldown

\* No sequence of interruptions leads to the state project() refuses to repair:
\* a completed plan whose marker is missing.
NeverInconsistent == \A r \in completed : marker[r] # None

-----------------------------------------------------------------------------
(* The counter.                                                            *)

\* Receipts were projected in the order the provider accepted them.
InOrder == \A i, j \in 1 .. Len(planned) :
              i < j => deliveredAt[planned[i]] < deliveredAt[planned[j]]

\* Admitted texts the provider accepted after the last admitted photo.
TextsSincePhoto == {r \in Receipts \ Photo :
    /\ fact[r] # None
    /\ \A q \in Photo : fact[q] # None => deliveredAt[q] < deliveredAt[r]}

CounterIsExact == LatestValue = Cardinality(TextsSincePhoto)

\* The counter is the number of texts since the last photo: across failures,
\* replays and restarts, as long as receipts come in order and an interrupted
\* one is replayed before the next is projected.
CounterCounts == InOrder /\ ~overlapped => CounterIsExact

\* "settled proactive text -> counter.proactive_prompts_since_photo ++"
\* (projector.py:14): once every plan is carried out, no text is missing.
EveryTextCounts ==
    InOrder /\ (\A r \in Receipts : plan[r] # None => marker[r] # None)
      => CounterIsExact

-----------------------------------------------------------------------------
(* The inductive invariants.                                               *)

\* What project() has done for cur when it is about to take its next step.
ControlState ==
    /\ pc # "idle" => plan[cur] # None
    /\ pc \in {"evidence", "cadence", "cooldown", "marker"} => marker[cur] = None
    /\ pc = "cadence" => evidence[cur] # None /\ fact[cur] = None
    /\ pc \in {"cooldown", "marker"} => fact[cur] # None
    /\ pc = "marker" => cur \in Photo \cup cooldown
    /\ pc = "complete" => marker[cur] # None

\* The observations in memory are those of the store, and have their evidence.
MemoryIsStore ==
    \A r \in Receipts : /\ position[r] > 0 <=> fact[r] # None
                        /\ fact[r] # None => evidence[r] # None

\* The control of project(), the four stores and the memory together: whatever
\* was interrupted, the next call finds a prefix of the five transactions.
SettledInv ==
    /\ TypeOK /\ ControlState /\ MemoryIsStore
    /\ OneValuePerReceipt /\ MarkerMeansFacts /\ NeverInconsistent

\* The history records the frozen plans.
PlannedIsPlan ==
    \A r \in Receipts : plan[r] # None <=> \E i \in 1 .. Len(planned) : planned[i] = r

\* A plan not carried out yet is the only one, the latest, and still what the
\* counter says.
OpenPlanIsCurrent ==
    \A r \in Receipts : plan[r] # None /\ fact[r] = None =>
        /\ plan[r] = Derive(r)
        /\ \A q \in Receipts \ {r} : plan[q] # None =>
               fact[q] # None /\ deliveredAt[q] < deliveredAt[r]

CounterInv ==
    /\ PlannedIsPlan
    /\ InOrder /\ ~overlapped => OpenPlanIsCurrent /\ CounterIsExact
=============================================================================
