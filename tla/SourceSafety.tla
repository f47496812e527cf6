----------------------------- MODULE SourceSafety -----------------------------
(* What the source loop promises of every row it ever calls processed.     *)
EXTENDS SourceLoop, FactSafety

\* The typed fact of a row with a commit marker was reconciled with the canonical
\* state, even when the pass that admitted it died before the state was written.
CommittedFactsShow == rowMarker \cap TypedRows \subseteq applied

\* However often passes die and rows are driven again, a row is felt by one
\* committed turn at most, and by one exactly when no pass left it half way
\* (REPLAY is a non-causal audit step).
FeltOnce ==
    \A r \in Rows : /\ felt[r] <= 1
                    /\ r \in rowMarker \ interrupted => felt[r] = 1
                    /\ felt[r] = 1 => r \in rowMarker

\* "An exception while processing one record ... never prevents later records in
\* the same pass": a row that begins its turn finds the lease free.
LaterRowsProceed == Stage("begin") => ~leaseHeld

-----------------------------------------------------------------------------
(* What makes them inductive: what the pass knows of the fact tables and   *)
(* of its admission at each of its stages.                                 *)

Stages  == {"off", "scan", "begin", "ingest", "admit", "reality", "typing", "run", "commit"}
Decided == {"reality", "typing", "run", "commit"}   \* the row's admission was answered

LoopTypeOK ==
    /\ loop \in [at : Stages, row : Nat, base : BOOLEAN, typed : BOOLEAN]
    /\ Stage("off") => loop = Resting
    /\ ~Stage("off") => loop.row \in Rows
    /\ rowMarker \subseteq Rows /\ applied \subseteq Rows /\ interrupted \subseteq Rows
    /\ felt \in [Rows -> Nat]

\* An admission without an answer has nothing to feel; one that was answered is
\* in the cache, and a commit finds the typed fact reconciled.
StageKnows ==
    /\ Stage("admit") => /\ call[Loop].at \in {"save", "repair", "arbitrate", "rebuild"}
                         /\ call[Loop].ev = loop.row /\ seen[Loop][loop.row] = Absent
    /\ Stage("typing") => call[Loop].at \in {"idle", "reality"}
    /\ loop.at \notin {"admit", "typing"} => call[Loop] = Free
    /\ loop.at \in Decided => seen[Loop][loop.row] # Absent
    /\ loop.at \notin Decided => ~loop.base
    /\ Stage("run") => (loop.typed <=> Restores(loop.row))
    /\ Stage("commit") /\ loop.row \in TypedRows => loop.row \in applied

\* What a turn is to feel was not felt before; an observation that is neither
\* felt nor left half way belongs to the row in hand.
FeltFollowsFacts ==
    /\ \A r \in Rows : felt[r] > 0 => observationRow[r] # Absent
    /\ loop.base => felt[loop.row] = 0
    /\ \A r \in Rows : observationRow[r] # Absent /\ r \notin rowMarker \cup interrupted =>
         loop.row = r /\ loop.base

SourceInv ==
    /\ FactInv /\ LoopTypeOK /\ StageKnows /\ FeltFollowsFacts
    /\ CommittedFactsShow /\ FeltOnce
=============================================================================
