----------------------------- MODULE FactAdmission -----------------------------
(***************************************************************************)
(* FactIngestService over one fact database: several services (processes), *)
(* each with a cache of the tables seeded when it starts, admit pieces of  *)
(* evidence that may arrive again, under another interaction or with other *)
(* bytes, and typed reality observations derived from them. Each store     *)
(* call of an admission is a step, so admissions of two services           *)
(* interleave; a store call may raise and a service may restart.           *)
(***************************************************************************)
EXTENDS Naturals, FiniteSets

CONSTANTS Services, Evidences, Interactions, Bytes,
          Absent,         \* no row, no cache entry
          MaxFactFaults   \* bound: failed store calls and restarts

ASSUME FactAssumption ==
    /\ Absent \notin Bytes \cup Interactions
    /\ Absent \notin [bytes : Bytes, by : Interactions]
    /\ MaxFactFaults \in Nat

VARIABLES
    evidenceRow,     \* evidence: bytes and the interaction that admitted it
    observationRow,  \* its derived Observation: bytes and interaction
    realityRow,      \* its typed reality Observation: bytes and interaction
    known,           \* bytes of the evidence in a service's EvidenceStore
    seen,            \* derived Observation in a service's ObservationStore
    call,            \* the admission a service is in
    factFaults,
    (* observations *)
    consumed,        \* answers NEW and REPAIRED for an evidence: turns feel these
    retained,        \* evidence stored alone because its admission was denied
    failedIn,        \* services one of whose writes raised since they started
    lostIn,          \* services whose bytes lost to others in the table since then
    refusedIn,       \* services where admit refused the bytes the table holds, or none held
    typedRefusedIn   \* services where admit_reality refused what the tables agree with

factTables == <<evidenceRow, observationRow, realityRow>>
factVars   == <<factTables, known, seen, call, factFaults, consumed, retained,
              failedIn, lostIn, refusedIn, typedRefusedIn>>

Free == [at |-> "idle", ev |-> Absent, by |-> Absent, bytes |-> Absent]
Calls(s, step) == call[s].at = step
Moves(s, step) == call' = [call EXCEPT ![s].at = step]
Done(s)        == call' = [call EXCEPT ![s] = Free]

BytesOf(row) == IF row = Absent THEN Absent ELSE row.bytes

Consumed(e) == consumed' = [consumed EXCEPT ![e] = @ + 1]
Caches(s, e, o) == seen' = [seen EXCEPT ![s][e] = o]

\* FactAdmissionConflictError; refusing what the table agrees with is noted.
Refuses(s, e, b) ==
    /\ Done(s)
    /\ refusedIn' = IF BytesOf(evidenceRow[e]) \in {Absent, b}
                    THEN refusedIn \cup {s} ELSE refusedIn

SetbacksUnchanged == UNCHANGED <<factFaults, failedIn, lostIn, typedRefusedIn>>
Loses(s) == lostIn' = lostIn \cup {s} /\ UNCHANGED <<factFaults, failedIn, typedRefusedIn>>

-----------------------------------------------------------------------------
(* admit: the part before the first write. The cache takes the evidence    *)
(* before the gates; a mismatch with the cache is checked with the table.  *)

\* Seeded fault: the cache is the arbiter.
Mismatch_CacheOnly(s, e, b) == known[s][e] \notin {Absent, b}
Mismatch(s, e, b) ==
    /\ known[s][e] \notin {Absent, b}
    /\ BytesOf(evidenceRow[e]) # b

Enters(s, e, b) ==
    /\ Calls(s, "idle")
    /\ known' = [known EXCEPT ![s][e] = IF @ = Absent THEN b ELSE @]
    /\ UNCHANGED <<factTables, consumed, retained>> /\ SetbacksUnchanged

AdmitConflict(s, e, b) ==
    /\ Enters(s, e, b) /\ Mismatch(s, e, b)
    /\ Refuses(s, e, b)
    /\ UNCHANGED seen

\* Authority or ownership denied: new evidence is retained, without observation.
AdmitDenied(s, e, i, b) ==
    /\ Enters(s, e, b) /\ ~Mismatch(s, e, b)
    /\ call' = IF known[s][e] = Absent
               THEN [call EXCEPT ![s] = [at |-> "retain", ev |-> e, by |-> i, bytes |-> b]]
               ELSE call
    /\ UNCHANGED <<seen, refusedIn>>

AdmitReplay(s, e, b) ==
    /\ Enters(s, e, b) /\ ~Mismatch(s, e, b)
    /\ seen[s][e] # Absent
    /\ UNCHANGED <<seen, call, refusedIn>>

AdmitWrite(s, e, i, b) ==
    /\ Enters(s, e, b) /\ ~Mismatch(s, e, b)
    /\ seen[s][e] = Absent
    /\ call' = [call EXCEPT ![s] = [at |-> IF known[s][e] = Absent THEN "save" ELSE "repair",
                                    ev |-> e, by |-> i, bytes |-> b]]
    /\ UNCHANGED <<seen, refusedIn>>

-----------------------------------------------------------------------------
(* The writes. An insert of a key that exists returns False.               *)

Retain(s) ==
    LET c == call[s] IN
    /\ Calls(s, "retain")
    /\ IF evidenceRow[c.ev] = Absent
       THEN /\ evidenceRow' = [evidenceRow EXCEPT ![c.ev] = [bytes |-> c.bytes, by |-> c.by]]
            /\ retained' = retained \cup {c.ev}
       ELSE UNCHANGED <<evidenceRow, retained>>
    /\ IF BytesOf(evidenceRow[c.ev]) \in {Absent, c.bytes} THEN SetbacksUnchanged ELSE Loses(s)
    /\ Done(s)
    /\ UNCHANGED <<observationRow, realityRow, known, seen, consumed, refusedIn>>

\* save_admission: evidence and observation in one transaction.
SaveAdmission(s) ==
    LET c   == call[s]
        row == [bytes |-> c.bytes, by |-> c.by] IN
    /\ Calls(s, "save")
    /\ IF evidenceRow[c.ev] = Absent
       THEN /\ evidenceRow' = [evidenceRow EXCEPT ![c.ev] = row]
            /\ observationRow' = [observationRow EXCEPT ![c.ev] = row]
            /\ Caches(s, c.ev, row) /\ Consumed(c.ev) /\ Done(s)
       ELSE Moves(s, "arbitrate") /\ UNCHANGED <<evidenceRow, observationRow, seen, consumed>>
    /\ UNCHANGED <<realityRow, known, retained, refusedIn>> /\ SetbacksUnchanged

\* Seeded fault: the repair binds the interaction that repairs.
Repair_Rebinds(s) ==
    LET c == call[s]
        o == [bytes |-> c.bytes, by |-> c.by] IN
    /\ Calls(s, "repair") /\ evidenceRow[c.ev] # Absent
    /\ IF observationRow[c.ev] = Absent
       THEN /\ observationRow' = [observationRow EXCEPT ![c.ev] = o]
            /\ Caches(s, c.ev, o) /\ Consumed(c.ev) /\ Done(s)
       ELSE Moves(s, "arbitrate") /\ UNCHANGED <<observationRow, seen, consumed>>
    /\ UNCHANGED <<evidenceRow, realityRow, known, retained, refusedIn>> /\ SetbacksUnchanged

\* The evidence is in the cache and its observation is not: the observation is
\* rebuilt from the evidence at hand, under the interaction of the stored row.
Repair(s) ==
    LET c == call[s]
        o == [bytes |-> c.bytes, by |-> evidenceRow[c.ev].by] IN
    /\ Calls(s, "repair") /\ evidenceRow[c.ev] # Absent
    /\ IF observationRow[c.ev] = Absent
       THEN /\ observationRow' = [observationRow EXCEPT ![c.ev] = o]
            /\ Caches(s, c.ev, o) /\ Consumed(c.ev) /\ Done(s)
       ELSE Moves(s, "arbitrate") /\ UNCHANGED <<observationRow, seen, consumed>>
    /\ UNCHANGED <<evidenceRow, realityRow, known, retained, refusedIn>> /\ SetbacksUnchanged

RepairMissing(s) ==
    /\ Calls(s, "repair") /\ evidenceRow[call[s].ev] = Absent
    /\ Refuses(s, call[s].ev, call[s].bytes)
    /\ UNCHANGED <<factTables, known, seen, consumed, retained>> /\ SetbacksUnchanged

\* _arbitrate: the write was lost, the table decides.
ArbitrateConflict(s) ==
    /\ Calls(s, "arbitrate") /\ evidenceRow[call[s].ev].bytes # call[s].bytes
    /\ Refuses(s, call[s].ev, call[s].bytes) /\ Loses(s)
    /\ UNCHANGED <<factTables, known, seen, consumed, retained>>

Arbitrate(s) ==
    LET e == call[s].ev IN
    /\ Calls(s, "arbitrate") /\ evidenceRow[e].bytes = call[s].bytes
    /\ IF observationRow[e] # Absent
       THEN Caches(s, e, observationRow[e]) /\ Done(s)
       ELSE Moves(s, "rebuild") /\ UNCHANGED seen
    /\ UNCHANGED <<factTables, known, consumed, retained, refusedIn>> /\ SetbacksUnchanged

\* Seeded fault: a lost rebuild is answered as a repair.
Rebuild_Blind(s) ==
    LET e == call[s].ev IN
    /\ Calls(s, "rebuild")
    /\ observationRow' = [observationRow EXCEPT ![e] = IF @ = Absent THEN evidenceRow[e] ELSE @]
    /\ Caches(s, e, evidenceRow[e]) /\ Consumed(e) /\ Done(s)
    /\ UNCHANGED <<evidenceRow, realityRow, known, retained, refusedIn>> /\ SetbacksUnchanged

\* The rebuild from the stored row; when that is lost too, the winner's is read.
Rebuild(s) ==
    LET e == call[s].ev IN
    /\ Calls(s, "rebuild")
    /\ IF observationRow[e] = Absent
       THEN /\ observationRow' = [observationRow EXCEPT ![e] = evidenceRow[e]]
            /\ Caches(s, e, evidenceRow[e]) /\ Consumed(e)
       ELSE Caches(s, e, observationRow[e]) /\ UNCHANGED <<observationRow, consumed>>
    /\ Done(s)
    /\ UNCHANGED <<evidenceRow, realityRow, known, retained, refusedIn>> /\ SetbacksUnchanged

-----------------------------------------------------------------------------
(* admit_reality. The orchestrator calls it for evidence whose admission   *)
(* has just been answered. A request the gates turn down changes nothing.  *)

\* The evidence as the service finds it: in its cache, else in the table.
FoundBytes(s, e) == IF known[s][e] # Absent THEN known[s][e] ELSE BytesOf(evidenceRow[e])

AsksReality(s, e, b) == Calls(s, "idle") /\ seen[s][e] # Absent /\ ~Mismatch(s, e, b)

\* Other evidence, or a typed observation of other bytes: its text or its time of
\* receipt is not that of the request.
RealityConflict(s, e, b) == FoundBytes(s, e) # b \/ BytesOf(realityRow[e]) \notin {Absent, b}

RealityRefused(s, e, b) ==
    /\ AsksReality(s, e, b) /\ RealityConflict(s, e, b)
    /\ typedRefusedIn' = IF /\ BytesOf(evidenceRow[e]) = b
                            /\ BytesOf(realityRow[e]) \in {Absent, b}
                         THEN typedRefusedIn \cup {s} ELSE typedRefusedIn
    /\ UNCHANGED <<factTables, known, seen, call, consumed, retained, refusedIn>>
    /\ UNCHANGED <<factFaults, failedIn, lostIn>>

RealityStart(s, e, i, b) ==
    /\ AsksReality(s, e, b) /\ ~RealityConflict(s, e, b)
    /\ call' = IF realityRow[e] # Absent THEN call
               ELSE [call EXCEPT ![s] = [at |-> "reality", ev |-> e, by |-> i, bytes |-> b]]
    /\ UNCHANGED <<factTables, known, seen, consumed, retained, refusedIn>> /\ SetbacksUnchanged

\* The causal interaction is that of the stored evidence; a lost write is
\* answered with the winner's observation.
RealitySave(s) ==
    LET c == call[s] IN
    /\ Calls(s, "reality") /\ BytesOf(realityRow[c.ev]) \in {Absent, c.bytes}
    /\ realityRow' = [realityRow EXCEPT ![c.ev] =
                        [bytes |-> c.bytes, by |-> evidenceRow[c.ev].by]]
    /\ Done(s)
    /\ UNCHANGED <<evidenceRow, observationRow, known, seen, consumed, retained, refusedIn>>
    /\ SetbacksUnchanged

\* The winner's observation is of other bytes: a conflict.
RealityLost(s) ==
    /\ Calls(s, "reality") /\ BytesOf(realityRow[call[s].ev]) \notin {Absent, call[s].bytes}
    /\ Done(s)
    /\ UNCHANGED <<factTables, known, seen, consumed, retained, refusedIn>> /\ SetbacksUnchanged

-----------------------------------------------------------------------------
FactBreaks == factFaults < MaxFactFaults /\ factFaults' = factFaults + 1

\* A store call raises; the caches keep what the admission put there.
WriteRaises(s) ==
    /\ call[s].at \in {"retain", "save", "repair", "rebuild", "reality"} /\ FactBreaks
    /\ Done(s) /\ failedIn' = failedIn \cup {s}
    /\ UNCHANGED <<factTables, known, seen, consumed, retained>>
    /\ UNCHANGED <<lostIn, refusedIn, typedRefusedIn>>

\* What went wrong in a service is counted from its start.
Forgives(s) ==
    /\ failedIn' = failedIn \ {s} /\ lostIn' = lostIn \ {s}
    /\ refusedIn' = refusedIn \ {s} /\ typedRefusedIn' = typedRefusedIn \ {s}

\* A restart seeds the caches from the tables.
FactRestart(s) ==
    /\ FactBreaks
    /\ known' = [known EXCEPT ![s] = [e \in Evidences |-> BytesOf(evidenceRow[e])]]
    /\ seen'  = [seen EXCEPT ![s] = observationRow]
    /\ Done(s) /\ Forgives(s)
    /\ UNCHANGED <<factTables, consumed, retained>>

Empties(S) == [x \in S |-> Absent]

FactInit ==
    /\ evidenceRow = Empties(Evidences) /\ observationRow = Empties(Evidences)
    /\ realityRow = Empties(Evidences)
    /\ known = [s \in Services |-> Empties(Evidences)]
    /\ seen = [s \in Services |-> Empties(Evidences)]
    /\ call = [s \in Services |-> Free]
    /\ factFaults = 0 /\ consumed = [e \in Evidences |-> 0]
    /\ retained = {} /\ failedIn = {} /\ lostIn = {} /\ refusedIn = {} /\ typedRefusedIn = {}

FactStep(s) ==
    \/ Retain(s) \/ SaveAdmission(s) \/ Repair(s) \/ RepairMissing(s)
    \/ ArbitrateConflict(s) \/ Arbitrate(s) \/ Rebuild(s)
    \/ RealitySave(s) \/ RealityLost(s)

FactNext ==
    \E s \in Services :
      \/ \E e \in Evidences, b \in Bytes :
           \/ AdmitConflict(s, e, b) \/ AdmitReplay(s, e, b)
           \/ RealityRefused(s, e, b)
           \/ \E i \in Interactions :
                AdmitDenied(s, e, i, b) \/ AdmitWrite(s, e, i, b) \/ RealityStart(s, e, i, b)
      \/ FactStep(s) \/ WriteRaises(s) \/ FactRestart(s)

FactSpec == FactInit /\ [][FactNext]_factVars
==============================================================================
