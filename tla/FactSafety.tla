------------------------------ MODULE FactSafety ------------------------------
(* What the factual plane promises to the turns that consume its answers.  *)
EXTENDS FactAdmission

FactRow == [bytes : Bytes, by : Interactions]

\* An admission at work holds the evidence it was called with.
AtWork == [at : {"retain", "save", "repair", "arbitrate", "rebuild", "reality"},
           ev : Evidences, by : Interactions, bytes : Bytes]

\* The tables and caches hold what their columns can hold.
FactTypeOK ==
    /\ evidenceRow \in [Evidences -> FactRow \cup {Absent}]
    /\ observationRow \in [Evidences -> FactRow \cup {Absent}]
    /\ realityRow \in [Evidences -> FactRow \cup {Absent}]
    /\ known \in [Services -> [Evidences -> Bytes \cup {Absent}]]
    /\ seen \in [Services -> [Evidences -> FactRow \cup {Absent}]]
    /\ call \in [Services -> AtWork \cup {Free}]
    /\ consumed \in [Evidences -> Nat]

\* A turn feels an observation when the answer is NEW or REPAIRED: over all
\* services, retries, lost writes and restarts that happens once per evidence,
\* and only when the observation is stored (ADR-0009 dispositions).
ConsumedOnce ==
    \A e \in Evidences : consumed[e] = IF observationRow[e] = Absent THEN 0 ELSE 1

\* Whoever writes them, observations carry the interaction of the first admission;
\* and they have its bytes, unless that evidence had been retained alone.
BoundToFirstAdmission ==
    \A e \in Evidences :
      /\ observationRow[e] # Absent =>
           /\ evidenceRow[e] # Absent
           /\ observationRow[e].by = evidenceRow[e].by
           /\ e \notin retained => observationRow[e].bytes = evidenceRow[e].bytes
      /\ realityRow[e] # Absent => observationRow[e] # Absent /\ realityRow[e].by = evidenceRow[e].by

\* An admission reports a conflict for conflicting bytes only, unless a write of
\* the service raised: what stale caches and lost writes disagree on is a replay.
\* admit_reality trusts the cache: it may also refuse what the tables agree with,
\* but only in a service that was handed other bytes and lost them to the table.
RefusedForCause ==
    /\ refusedIn \subseteq failedIn
    /\ typedRefusedIn \subseteq failedIn \cup lostIn

\* What the code says of its caches ("the backend, not the cache, is the arbiter"),
\* for typed reality: bytes the tables agree with are refused after a raised write only.
TableArbitratesReality == typedRefusedIn \subseteq failedIn

-----------------------------------------------------------------------------
(* What makes them inductive: what a call knows of the tables at each of   *)
(* its steps, and what a cache may hold that no table does.                *)

\* Only evidence retained alone has no observation.
AdmittedPairs ==
    \A e \in Evidences :
      /\ observationRow[e] # Absent => evidenceRow[e] # Absent
      /\ evidenceRow[e] # Absent /\ e \notin retained => observationRow[e] # Absent

CallKnows ==
    \A s \in Services : LET c == call[s] IN
      /\ c.at # "idle" => known[s][c.ev] # Absent
      /\ c.at \in {"arbitrate", "rebuild"} => evidenceRow[c.ev] # Absent
      /\ c.at = "rebuild" => evidenceRow[c.ev].bytes = c.bytes
      /\ c.at = "reality" => observationRow[c.ev] # Absent

\* A cached observation is stored; cached evidence is stored too, is about to
\* be, or stayed behind when its write raised.
CachesFollow ==
    \A s \in Services, e \in Evidences :
      /\ seen[s][e] # Absent => observationRow[e] # Absent /\ known[s][e] # Absent
      /\ known[s][e] # Absent /\ evidenceRow[e] = Absent =>
           \/ s \in failedIn
           \/ call[s].at \in {"retain", "save"} /\ call[s].ev = e

\* A cache holds other bytes than the table only after a setback of its service, or
\* while the admission that brought them is under way.
Excused(s) ==
    LET c == call[s] IN
    /\ c.at \in {"retain", "save"} => known[s][c.ev] = c.bytes
    /\ \A e \in Evidences :
         known[s][e] \notin {Absent, BytesOf(evidenceRow[e])} =>
           \/ s \in failedIn \cup lostIn
           \/ c.ev = e /\ c.at \in {"retain", "save", "arbitrate"} /\ known[s][e] = c.bytes
StraysHaveCause == \A s \in Services : Excused(s)

FactInv ==
    /\ FactTypeOK /\ AdmittedPairs /\ CallKnows /\ CachesFollow /\ StraysHaveCause
    /\ ConsumedOnce /\ BoundToFirstAdmission /\ RefusedForCause
=============================================================================
