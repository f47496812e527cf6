------------------------------ MODULE FactProofs ------------------------------
(***************************************************************************)
(* Theorems about the way of a message into the facts: FactAdmission, the  *)
(* pending overlay over it and, last, ShadowSync, for any number of        *)
(* services, evidences, interactions, versions of the bytes, failed store  *)
(* calls and restarts, messages and syncs.                                 *)
(* FactInv says what an admission knows of the tables at each of its       *)
(* steps, although other services write between them.                      *)
(***************************************************************************)
EXTENDS SourceSafety, PendingOverlay, ShadowSync, TLAPS

\* No row is the empty entry, and the bytes of a row are bytes.
LEMMA RowsArePresent ==
    /\ Absent \notin FactRow /\ Absent \notin Bytes /\ Absent \notin Interactions
    /\ \A r \in FactRow : r # Absent /\ BytesOf(r) = r.bytes /\ r.bytes \in Bytes
                            /\ r.by \in Interactions
    /\ BytesOf(Absent) = Absent
  BY FactAssumption DEF FactAssumption, FactRow, BytesOf

\* The invariant holds in an empty database.
LEMMA InitFact == FactInit => FactInv
<1> SUFFICES ASSUME FactInit PROVE FactInv
  OBVIOUS
<1>1. FactTypeOK
  BY DEF FactInit, FactTypeOK, Empties
<1>2. AdmittedPairs /\ CachesFollow /\ ConsumedOnce /\ BoundToFirstAdmission /\ RefusedForCause
  BY DEF FactInit, Empties, AdmittedPairs, CachesFollow, ConsumedOnce, BoundToFirstAdmission,
     RefusedForCause
<1>3. CallKnows /\ StraysHaveCause
  BY DEF FactInit, Empties, Free, CallKnows, StraysHaveCause, Excused
<1> QED BY <1>1, <1>2, <1>3 DEF FactInv

\* What speaks of the tables alone is kept by every step that writes none.
LEMMA TablesQuiet ==
    ASSUME AdmittedPairs, ConsumedOnce, BoundToFirstAdmission,
           UNCHANGED <<factTables, consumed, retained>>
    PROVE  (AdmittedPairs /\ ConsumedOnce /\ BoundToFirstAdmission)'
  BY DEF factTables, AdmittedPairs, ConsumedOnce, BoundToFirstAdmission

\* A row is never overwritten, so what the other services hold has the cause it had:
\* it is enough to look at the service that moves.
LEMMA StraysElsewhere ==
    ASSUME StraysHaveCause, NEW s \in Services, Excused(s)',
           \A t \in Services \ {s} : known'[t] = known[t] /\ call'[t] = call[t],
           \A e \in Evidences : evidenceRow[e] # Absent => evidenceRow'[e] = evidenceRow[e],
           (failedIn \cup lostIn) \ {s} \subseteq failedIn' \cup lostIn'
    PROVE  StraysHaveCause'
<1> SUFFICES ASSUME NEW t \in Services \ {s} PROVE Excused(t)'
  BY DEF StraysHaveCause
<1>1. ASSUME NEW e \in Evidences, known[t][e] \notin {Absent, BytesOf(evidenceRow'[e])}
      PROVE  known[t][e] \notin {Absent, BytesOf(evidenceRow[e])}
  <2>1. CASE evidenceRow[e] = Absent
    BY <1>1, <2>1 DEF BytesOf
  <2>2. CASE evidenceRow[e] # Absent
    BY <1>1, <2>2
  <2> QED BY <2>1, <2>2
<1>2. Excused(t)
  BY DEF StraysHaveCause
<1> QED BY <1>1, <1>2 DEF Excused, BytesOf

\* The part of an admission before its first write keeps the invariant.
LEMMA EntersFact ==
    ASSUME FactInv, NEW s \in Services, NEW e \in Evidences, NEW b \in Bytes,
           \/ AdmitConflict(s, e, b) \/ AdmitReplay(s, e, b)
           \/ \E i \in Interactions : AdmitDenied(s, e, i, b) \/ AdmitWrite(s, e, i, b)
    PROVE  FactInv'
<1> USE RowsArePresent
<1>t. /\ FactTypeOK /\ AdmittedPairs /\ CallKnows /\ CachesFollow /\ RefusedForCause
      /\ StraysHaveCause
  BY DEF FactInv
<1>1. /\ Enters(s, e, b) /\ call[s].at = "idle"
      /\ UNCHANGED <<factTables, consumed, retained, seen, failedIn, lostIn, typedRefusedIn>>
      /\ known' = [known EXCEPT ![s][e] = IF @ = Absent THEN b ELSE @]
  BY DEF AdmitConflict, AdmitReplay, AdmitDenied, AdmitWrite, Enters, Calls, SetbacksUnchanged
<1>2. (AdmittedPairs /\ ConsumedOnce /\ BoundToFirstAdmission)'
  BY <1>1, TablesQuiet DEF FactInv
\* What the cache took before it took for a cause; the bytes it takes now are the call's.
<1>c. ASSUME NEW c \in AtWork,
             \/ call' = call /\ known[s][e] # Absent
             \/ /\ call' = [call EXCEPT ![s] = c]
                /\ IF known[s][e] = Absent
                   THEN c.at \in {"retain", "save"} /\ c.ev = e /\ c.bytes = b
                   ELSE c.at = "repair"
      PROVE  StraysHaveCause'
  <2>1. \A f \in Evidences : known[s][f] \notin {Absent, BytesOf(evidenceRow[f])} =>
          s \in failedIn \cup lostIn
    BY <1>1, <1>t DEF StraysHaveCause, Excused
  <2>2. /\ \A f \in Evidences \ {e} : known'[s][f] = known[s][f]
        /\ known'[s][e] = IF known[s][e] = Absent THEN b ELSE known[s][e]
    BY <1>1, <1>t DEF FactTypeOK
  <2>3. \/ call'[s].at = "idle" /\ known[s][e] # Absent
        \/ call'[s] = c
    BY <1>1, <1>c, <1>t DEF FactTypeOK
  <2>4. Excused(s)'
    BY <1>1, <1>c, <2>1, <2>2, <2>3 DEF Excused, factTables
  <2>5. \A t \in Services \ {s} : known'[t] = known[t] /\ call'[t] = call[t]
    BY <1>1, <1>c, <1>t DEF FactTypeOK
  <2> QED BY <1>1, <1>t, <2>4, <2>5, StraysElsewhere DEF factTables
<1>3. CASE AdmitConflict(s, e, b)
  <2>1. known[s][e] # Absent /\ known' = known
    BY <1>1, <1>3, <1>t DEF AdmitConflict, Mismatch, FactTypeOK
  <2>2. call' = [call EXCEPT ![s] = Free]
    BY <1>3 DEF AdmitConflict, Refuses, Done
  <2>3. evidenceRow[e] = Absent => s \in failedIn
    BY <1>1, <1>t, <2>1 DEF CachesFollow
  <2>4. RefusedForCause'
    BY <1>1, <1>3, <1>t, <2>3 DEF AdmitConflict, Mismatch, Refuses, RefusedForCause, FactTypeOK
  <2>5. FactTypeOK' /\ CallKnows' /\ CachesFollow'
    BY <1>1, <1>t, <2>1, <2>2 DEF FactTypeOK, CallKnows, CachesFollow, factTables, Free
  <2>6. StraysHaveCause'
    <3>1. Excused(s)'
      BY <1>1, <1>t, <2>1, <2>2 DEF StraysHaveCause, Excused, FactTypeOK, factTables, Free
    <3> QED BY <1>1, <1>t, <2>1, <2>2, <3>1, StraysElsewhere DEF FactTypeOK, factTables
  <2> QED BY <1>2, <2>4, <2>5, <2>6 DEF FactInv
<1>4. CASE AdmitReplay(s, e, b)
  <2>1. known' = known /\ call' = call /\ refusedIn' = refusedIn
    BY <1>1, <1>4, <1>t DEF AdmitReplay, CachesFollow, FactTypeOK
  <2> QED
    BY <1>1, <1>2, <1>t, <2>1
    DEF FactInv, FactTypeOK, CallKnows, CachesFollow, RefusedForCause, StraysHaveCause, Excused,
        factTables
<1>5. ASSUME NEW i \in Interactions, AdmitDenied(s, e, i, b) PROVE FactInv'
  <2> DEFINE c == [at |-> "retain", ev |-> e, by |-> i, bytes |-> b]
  <2>1. call' = (IF known[s][e] = Absent THEN [call EXCEPT ![s] = c] ELSE call)
        /\ refusedIn' = refusedIn
    BY <1>5 DEF AdmitDenied
  <2>2. c \in AtWork
    BY DEF AtWork
  <2>3. FactTypeOK'
    BY <1>1, <1>t, <2>1, <2>2 DEF FactTypeOK, factTables
  <2>4. CallKnows' /\ CachesFollow'
    BY <1>1, <1>t, <2>1 DEF FactTypeOK, CallKnows, CachesFollow, factTables
  <2>5. StraysHaveCause'
    BY <1>c, <2>1, <2>2
  <2> QED BY <1>1, <1>2, <1>t, <2>1, <2>3, <2>4, <2>5 DEF FactInv, RefusedForCause
<1>6. ASSUME NEW i \in Interactions, AdmitWrite(s, e, i, b) PROVE FactInv'
  <2> DEFINE c == [at |-> IF known[s][e] = Absent THEN "save" ELSE "repair",
                   ev |-> e, by |-> i, bytes |-> b]
  <2>1. call' = [call EXCEPT ![s] = c] /\ refusedIn' = refusedIn
    BY <1>6 DEF AdmitWrite
  <2>2. c \in AtWork
    BY DEF AtWork
  <2>3. FactTypeOK'
    BY <1>1, <1>t, <2>1, <2>2 DEF FactTypeOK, factTables
  <2>4. CallKnows' /\ CachesFollow'
    BY <1>1, <1>t, <2>1 DEF FactTypeOK, CallKnows, CachesFollow, factTables
  <2>5. StraysHaveCause'
    BY <1>c, <2>1, <2>2
  <2> QED BY <1>1, <1>2, <1>t, <2>1, <2>3, <2>4, <2>5 DEF FactInv, RefusedForCause
<1> QED BY <1>3, <1>4, <1>5, <1>6

\* A call that ends without a write leaves everything but itself as it was.
LEMMA EndsQuietly ==
    ASSUME FactInv, NEW s \in Services,
           call' = [call EXCEPT ![s] = Free],
           call[s].at \in {"retain", "save"} => s \in failedIn',
           call[s].at = "arbitrate" => s \in failedIn' \cup lostIn',
           UNCHANGED <<factTables, consumed, retained, known, seen>>,
           failedIn \subseteq failedIn', lostIn \subseteq lostIn', RefusedForCause'
    PROVE  FactInv'
<1>t. FactTypeOK /\ AdmittedPairs /\ CallKnows /\ CachesFollow /\ StraysHaveCause
  BY DEF FactInv
<1>1. (AdmittedPairs /\ ConsumedOnce /\ BoundToFirstAdmission)'
  BY TablesQuiet DEF FactInv
<1>2. FactTypeOK'
  BY <1>t DEF FactTypeOK, factTables
<1>3. CallKnows'
  BY <1>t DEF FactTypeOK, CallKnows, factTables, Free
<1>4. CachesFollow'
  BY <1>t DEF FactTypeOK, CachesFollow, factTables, Free
<1>5. StraysHaveCause'
  <2>1. call'[s].at = "idle"
    BY <1>t DEF FactTypeOK, Free
  <2>2. Excused(s)'
    BY <1>t, <2>1 DEF StraysHaveCause, Excused, factTables
  <2> QED BY <1>t, <2>2, StraysElsewhere DEF FactTypeOK, factTables
<1> QED BY <1>1, <1>2, <1>3, <1>4, <1>5 DEF FactInv

\* A call of s ends with the row it wrote or met: other bytes there are a loss of s.
LEMMA StraysEnd ==
    ASSUME FactTypeOK, StraysHaveCause, NEW s \in Services, call[s] \in AtWork,
           call' = [call EXCEPT ![s] = Free], known' = known,
           \A e \in Evidences : evidenceRow[e] # Absent => evidenceRow'[e] = evidenceRow[e],
           failedIn \subseteq failedIn', lostIn \subseteq lostIn',
           call[s].at \in {"retain", "save", "arbitrate"} =>
             \/ BytesOf(evidenceRow'[call[s].ev]) = call[s].bytes
             \/ s \in failedIn' \cup lostIn'
    PROVE  StraysHaveCause'
<1> DEFINE c == call[s]
<1>1. call'[s].at = "idle" /\ \A t \in Services \ {s} : call'[t] = call[t]
  BY DEF FactTypeOK, Free
<1>2. ASSUME NEW e \in Evidences, known[s][e] \notin {Absent, BytesOf(evidenceRow'[e])}
      PROVE  s \in failedIn' \cup lostIn'
  <2>1. known[s][e] \notin {Absent, BytesOf(evidenceRow[e])}
    <3>1. CASE evidenceRow[e] = Absent
      BY <1>2, <3>1 DEF BytesOf
    <3>2. CASE evidenceRow[e] # Absent
      BY <1>2, <3>2
    <3> QED BY <3>1, <3>2
  <2>2. \/ s \in failedIn \cup lostIn
        \/ c.ev = e /\ c.at \in {"retain", "save", "arbitrate"} /\ known[s][e] = c.bytes
    BY <2>1 DEF StraysHaveCause, Excused
  <2> QED BY <1>2, <2>2
<1>3. Excused(s)'
  BY <1>1, <1>2 DEF Excused
<1> QED BY <1>1, <1>3, StraysElsewhere

\* Evidence retained alone is marked as such.
LEMMA RetainFact == ASSUME FactInv, NEW s \in Services, Retain(s) PROVE FactInv'
<1> DEFINE c == call[s]
<1> USE RowsArePresent
<1>t. /\ FactTypeOK /\ AdmittedPairs /\ CallKnows /\ CachesFollow /\ StraysHaveCause
      /\ ConsumedOnce /\ BoundToFirstAdmission /\ RefusedForCause
  BY DEF FactInv
<1>1. /\ c \in AtWork /\ c.at = "retain" /\ call' = [call EXCEPT ![s] = Free]
      /\ UNCHANGED <<observationRow, realityRow, known, seen, consumed, refusedIn, failedIn,
                     typedRefusedIn>>
      /\ lostIn \subseteq lostIn'
      /\ BytesOf(evidenceRow[c.ev]) \in {Absent, c.bytes} \/ s \in lostIn'
  BY <1>t DEF Retain, Calls, Done, SetbacksUnchanged, Loses, FactTypeOK, Free
<1>r. RefusedForCause'
  BY <1>1, <1>t DEF RefusedForCause
<1>2. CASE evidenceRow[c.ev] # Absent
  <2>1. UNCHANGED <<evidenceRow, retained>>
    BY <1>2 DEF Retain
  <2>2. (AdmittedPairs /\ ConsumedOnce /\ BoundToFirstAdmission)'
    BY <1>1, <1>t, <2>1, TablesQuiet DEF factTables
  <2>3. FactTypeOK' /\ CallKnows' /\ CachesFollow'
    BY <1>1, <1>2, <1>t, <2>1 DEF FactTypeOK, CallKnows, CachesFollow, Free
  <2>4. BytesOf(evidenceRow[c.ev]) # Absent
    BY <1>1, <1>2, <1>t DEF FactTypeOK, AtWork
  <2>5. StraysHaveCause'
    BY <1>1, <1>t, <2>1, <2>4, StraysEnd
  <2> QED BY <1>r, <2>2, <2>3, <2>5 DEF FactInv
<1>3. CASE evidenceRow[c.ev] = Absent
  <2> DEFINE row == [bytes |-> c.bytes, by |-> c.by]
  <2>1. /\ row \in FactRow /\ c.ev \in Evidences
        /\ evidenceRow' = [evidenceRow EXCEPT ![c.ev] = row]
        /\ retained' = retained \cup {c.ev}
    BY <1>1, <1>3 DEF Retain, AtWork, FactRow
  <2>2. FactTypeOK'
    BY <1>1, <1>t, <2>1 DEF FactTypeOK
  <2>3. AdmittedPairs' /\ ConsumedOnce' /\ BoundToFirstAdmission'
    BY <1>1, <1>3, <1>t, <2>1 DEF FactTypeOK, AdmittedPairs, ConsumedOnce, BoundToFirstAdmission
  <2>4. CallKnows'
    BY <1>1, <1>3, <1>t, <2>1 DEF FactTypeOK, CallKnows, Free
  <2>5. CachesFollow'
    BY <1>1, <1>3, <1>t, <2>1 DEF FactTypeOK, CachesFollow, Free
  <2>6. /\ BytesOf(evidenceRow'[c.ev]) = c.bytes
        /\ \A e \in Evidences : evidenceRow[e] # Absent => evidenceRow'[e] = evidenceRow[e]
    BY <1>3, <1>t, <2>1 DEF FactTypeOK
  <2>7. StraysHaveCause'
    BY <1>1, <1>t, <2>6, StraysEnd
  <2> QED BY <1>r, <2>2, <2>3, <2>4, <2>5, <2>7 DEF FactInv
<1> QED BY <1>2, <1>3

\* An observation is written once, when there is none, and answered NEW or REPAIRED.
LEMMA ObservationWritten ==
    ASSUME FactInv, NEW s \in Services, NEW e \in Evidences, NEW o \in FactRow,
           call[s].ev = e, observationRow[e] = Absent, known[s][e] # Absent,
           \/ evidenceRow' = evidenceRow /\ evidenceRow[e] # Absent
           \/ evidenceRow[e] = Absent /\ evidenceRow' = [evidenceRow EXCEPT ![e] = o],
           o.by = evidenceRow'[e].by,
           e \in retained \/ o = evidenceRow'[e],
           observationRow' = [observationRow EXCEPT ![e] = o],
           Caches(s, e, o), Consumed(e), Done(s),
           call[s] \in AtWork,
           call[s].at \in {"save", "arbitrate"} => BytesOf(evidenceRow'[e]) = call[s].bytes,
           call[s].at # "retain",
           UNCHANGED <<realityRow, known, retained, refusedIn, failedIn, lostIn, typedRefusedIn>>
    PROVE  FactInv'
<1> USE RowsArePresent
<1>t. /\ FactTypeOK /\ AdmittedPairs /\ CallKnows /\ CachesFollow /\ StraysHaveCause
      /\ ConsumedOnce /\ BoundToFirstAdmission /\ RefusedForCause
  BY DEF FactInv
<1>r. /\ evidenceRow' \in [Evidences -> FactRow \cup {Absent}]
      /\ \A f \in Evidences : evidenceRow[f] # Absent => evidenceRow'[f] = evidenceRow[f]
  BY <1>t DEF FactTypeOK
<1>1. FactTypeOK'
  BY <1>t, <1>r DEF FactTypeOK, Caches, Consumed, Done
<1>2. AdmittedPairs'
  BY <1>t DEF FactTypeOK, AdmittedPairs
<1>3. ConsumedOnce'
  BY <1>t DEF FactTypeOK, ConsumedOnce, Consumed
<1>4. BoundToFirstAdmission'
  BY <1>t DEF FactTypeOK, BoundToFirstAdmission, AdmittedPairs
<1>5. CallKnows'
  <2>1. call' = [call EXCEPT ![s] = Free] /\ Free.at = "idle"
    BY DEF Done, Free
  <2>2. \A t \in Services : t # s => call'[t] = call[t] /\ (call[t].at # "idle" => call[t].ev \in Evidences)
    BY <1>t, <2>1 DEF FactTypeOK, AtWork, Free
  <2>3. \A t \in Services : t = s => call'[t].at = "idle"
    BY <1>t, <2>1 DEF FactTypeOK
  <2>4. \A f \in Evidences : observationRow[f] # Absent => observationRow'[f] # Absent
    BY <1>t DEF FactTypeOK
  <2> QED BY <1>t, <1>r, <2>2, <2>3, <2>4 DEF CallKnows
<1>6. CachesFollow'
  BY <1>t DEF FactTypeOK, CachesFollow, Caches, Done, Free
<1>7. StraysHaveCause'
  BY <1>t, <1>r, StraysEnd DEF Done
<1> QED BY <1>t, <1>1, <1>2, <1>3, <1>4, <1>5, <1>6, <1>7 DEF FactInv, RefusedForCause

\* A call at work changes its step and nothing else.
LEMMA StepOn ==
    ASSUME NEW c \in AtWork, NEW step
    PROVE  [c EXCEPT !.at = step] = [at |-> step, ev |-> c.ev, by |-> c.by, bytes |-> c.bytes]
  BY DEF AtWork

\* A call goes on to a later step with what it has learnt from the tables.
LEMMA MovesOn ==
    ASSUME FactInv, NEW s \in Services, call[s] \in AtWork,
           NEW step \in {"arbitrate", "rebuild"}, Moves(s, step),
           evidenceRow[call[s].ev] # Absent,
           step = "rebuild" => evidenceRow[call[s].ev].bytes = call[s].bytes,
           step = "arbitrate" => call[s].at \in {"save", "repair"},
           step = "rebuild" => call[s].at = "arbitrate",
           UNCHANGED <<factTables, known, seen, consumed, retained, refusedIn, failedIn,
                       lostIn, typedRefusedIn>>
    PROVE  FactInv'
<1>t. /\ FactTypeOK /\ AdmittedPairs /\ CallKnows /\ CachesFollow /\ RefusedForCause
      /\ StraysHaveCause
  BY DEF FactInv
<1>1. (AdmittedPairs /\ ConsumedOnce /\ BoundToFirstAdmission)'
  BY TablesQuiet DEF FactInv
<1> DEFINE c == [at |-> step, ev |-> call[s].ev, by |-> call[s].by, bytes |-> call[s].bytes]
<1>2. call' = [call EXCEPT ![s] = c]
  BY StepOn DEF Moves
<1>3. c \in AtWork /\ call[s].at # "idle"
  BY DEF AtWork
<1>4. FactTypeOK'
  BY <1>t, <1>2, <1>3 DEF FactTypeOK, factTables
<1>5. CallKnows'
  BY <1>t, <1>2, <1>3 DEF FactTypeOK, CallKnows, factTables
<1>6. CachesFollow'
  BY <1>t, <1>2, <1>3 DEF FactTypeOK, CachesFollow, factTables
<1>7. StraysHaveCause'
  <2>1. call'[s] = c /\ \A t \in Services \ {s} : call'[t] = call[t]
    BY <1>t, <1>2 DEF FactTypeOK
  <2>2. BytesOf(evidenceRow[call[s].ev]) = evidenceRow[call[s].ev].bytes
    BY DEF BytesOf
  <2>3. Excused(s)'
    BY <1>t, <1>3, <2>1, <2>2 DEF StraysHaveCause, Excused, factTables
  <2> QED BY <1>t, <2>1, <2>3, StraysElsewhere DEF factTables
<1> QED BY <1>t, <1>1, <1>4, <1>5, <1>6, <1>7 DEF FactInv, RefusedForCause

\* save_admission: the pair is written together or the write is lost.
LEMMA SaveFact == ASSUME FactInv, NEW s \in Services, SaveAdmission(s) PROVE FactInv'
<1> DEFINE c == call[s]
           row == [bytes |-> c.bytes, by |-> c.by]
<1>t. FactTypeOK /\ AdmittedPairs /\ CallKnows /\ CachesFollow
  BY DEF FactInv
<1>1. c \in AtWork /\ c.at = "save" /\ row \in FactRow
  BY <1>t DEF SaveAdmission, Calls, FactTypeOK, Free, AtWork, FactRow
<1>2. CASE evidenceRow[c.ev] = Absent
  <2>1. observationRow[c.ev] = Absent /\ c.ev \in Evidences
    BY <1>1, <1>2, <1>t DEF AdmittedPairs, AtWork
  <2>2. evidenceRow'[c.ev] = row
    BY <1>2, <1>t, <2>1 DEF SaveAdmission, FactTypeOK
  <2>3. known[s][c.ev] # Absent
    BY <1>1, <1>t DEF CallKnows, AtWork
  <2>4. BytesOf(row) = c.bytes
    BY <1>1, RowsArePresent
  <2> QED
    BY <1>1, <1>2, <2>1, <2>2, <2>3, <2>4, RowsArePresent, ObservationWritten
    DEF SaveAdmission, SetbacksUnchanged
<1>3. CASE evidenceRow[c.ev] # Absent
  BY <1>1, <1>3, MovesOn DEF SaveAdmission, SetbacksUnchanged, factTables
<1> QED BY <1>2, <1>3

\* The repair of a missing observation, or the loss of its write.
LEMMA RepairFact ==
    ASSUME FactInv, NEW s \in Services, Repair(s) \/ RepairMissing(s)
    PROVE  FactInv'
<1> DEFINE c == call[s]
           o == [bytes |-> c.bytes, by |-> evidenceRow[c.ev].by]
<1> USE RowsArePresent
<1>t. FactTypeOK /\ AdmittedPairs /\ CallKnows /\ CachesFollow /\ RefusedForCause
  BY DEF FactInv
<1>1. c \in AtWork /\ c.at = "repair" /\ c.ev \in Evidences /\ known[s][c.ev] # Absent
  BY <1>t DEF Repair, RepairMissing, Calls, FactTypeOK, Free, AtWork, CallKnows
<1>2. CASE RepairMissing(s)
  <2>1. evidenceRow[c.ev] = Absent /\ s \in failedIn
    BY <1>1, <1>2, <1>t DEF RepairMissing, CachesFollow
  <2> QED
    BY <1>1, <1>2, <1>t, <2>1, EndsQuietly
    DEF RepairMissing, Refuses, Done, SetbacksUnchanged, RefusedForCause
<1>3. CASE Repair(s) /\ observationRow[c.ev] = Absent
  <2>1. /\ evidenceRow[c.ev] \in FactRow /\ c.ev \in retained /\ o \in FactRow
        /\ evidenceRow' = evidenceRow
    BY <1>1, <1>3, <1>t DEF Repair, FactTypeOK, AdmittedPairs, FactRow, AtWork
  <2>2. /\ o.by = evidenceRow'[c.ev].by
        /\ observationRow' = [observationRow EXCEPT ![c.ev] = o]
        /\ Caches(s, c.ev, o) /\ Consumed(c.ev) /\ Done(s)
        /\ UNCHANGED <<realityRow, known, retained, refusedIn, failedIn, lostIn, typedRefusedIn>>
    BY <1>3, <2>1 DEF Repair, SetbacksUnchanged
  <2> HIDE DEF o
  <2> QED BY <1>1, <1>3, <2>1, <2>2, ObservationWritten
<1>4. CASE Repair(s) /\ observationRow[c.ev] # Absent
  BY <1>1, <1>4, MovesOn DEF Repair, SetbacksUnchanged, factTables
<1> QED BY <1>2, <1>3, <1>4

\* A lost write: the table answers, or its evidence is given an observation.
LEMMA ArbitrateFact ==
    ASSUME FactInv, NEW s \in Services,
           ArbitrateConflict(s) \/ Arbitrate(s) \/ Rebuild(s)
    PROVE  FactInv'
<1> DEFINE c == call[s]
<1> USE RowsArePresent
<1>t. /\ FactTypeOK /\ AdmittedPairs /\ CallKnows /\ CachesFollow /\ RefusedForCause
      /\ StraysHaveCause
  BY DEF FactInv
<1>1. /\ c \in AtWork /\ c.at \in {"arbitrate", "rebuild"} /\ c.ev \in Evidences
      /\ evidenceRow[c.ev] \in FactRow /\ known[s][c.ev] # Absent
  BY <1>t DEF ArbitrateConflict, Arbitrate, Rebuild, Calls, FactTypeOK, Free, AtWork, CallKnows
<1>2. CASE ArbitrateConflict(s)
  <2>1. BytesOf(evidenceRow[c.ev]) \notin {Absent, c.bytes} /\ refusedIn' = refusedIn
    BY <1>1, <1>2 DEF ArbitrateConflict, Refuses
  <2> QED
    BY <1>1, <1>2, <1>t, <2>1, EndsQuietly
    DEF ArbitrateConflict, Refuses, Done, Loses, RefusedForCause
<1>3. ASSUME observationRow[c.ev] # Absent, Caches(s, c.ev, observationRow[c.ev]), Done(s),
             c.at = "arbitrate" => evidenceRow[c.ev].bytes = c.bytes,
             UNCHANGED <<factTables, known, consumed, retained, refusedIn, failedIn, lostIn,
                         typedRefusedIn>>
      PROVE  FactInv'
  <2>1. (AdmittedPairs /\ ConsumedOnce /\ BoundToFirstAdmission)'
    BY <1>3, TablesQuiet DEF FactInv
  <2>2. FactTypeOK'
    BY <1>1, <1>3, <1>t DEF FactTypeOK, factTables, Caches, Done
  <2>3. CallKnows'
    BY <1>1, <1>3, <1>t DEF FactTypeOK, CallKnows, factTables, Done, Free
  <2>4. CachesFollow'
    BY <1>1, <1>3, <1>t DEF FactTypeOK, CachesFollow, factTables, Caches, Done, Free
  <2>5. StraysHaveCause'
    BY <1>1, <1>3, <1>t, StraysEnd DEF Done, factTables
  <2> QED BY <1>3, <1>t, <2>1, <2>2, <2>3, <2>4, <2>5 DEF FactInv, RefusedForCause
<1>4. CASE Arbitrate(s)
  <2>1. CASE observationRow[c.ev] # Absent
    BY <1>3, <1>4, <2>1 DEF Arbitrate, SetbacksUnchanged
  <2>2. CASE observationRow[c.ev] = Absent
    BY <1>1, <1>4, <2>2, MovesOn DEF Arbitrate, SetbacksUnchanged, Calls
  <2> QED BY <2>1, <2>2
<1>5. CASE Rebuild(s)
  <2>1. CASE observationRow[c.ev] # Absent
    BY <1>3, <1>5, <2>1 DEF Rebuild, SetbacksUnchanged, factTables, Calls
  <2>2. CASE observationRow[c.ev] = Absent
    <3>1. /\ evidenceRow' = evidenceRow
          /\ observationRow' = [observationRow EXCEPT ![c.ev] = evidenceRow[c.ev]]
          /\ Caches(s, c.ev, evidenceRow[c.ev]) /\ Consumed(c.ev) /\ Done(s)
          /\ UNCHANGED <<realityRow, known, retained, refusedIn, failedIn, lostIn, typedRefusedIn>>
          /\ c.at = "rebuild"
      BY <1>5, <2>2 DEF Rebuild, SetbacksUnchanged, Calls
    <3> QED BY <1>1, <2>2, <3>1, ObservationWritten
  <2> QED BY <2>1, <2>2
<1> QED BY <1>2, <1>4, <1>5

\* A cache that holds other bytes than the tables agree with does so for a cause: a
\* typed request refused on its account is one more thing that went wrong there.
LEMMA TypedRefusalFact ==
    ASSUME FactInv, NEW s \in Services, NEW e \in Evidences, NEW b \in Bytes,
           RealityRefused(s, e, b)
    PROVE  FactInv'
<1>t. /\ FactTypeOK /\ AdmittedPairs /\ CallKnows /\ CachesFollow /\ StraysHaveCause
      /\ ConsumedOnce /\ BoundToFirstAdmission /\ RefusedForCause
  BY DEF FactInv
<1>1. /\ call[s].at = "idle" /\ known[s][e] # Absent
      /\ FoundBytes(s, e) # b \/ BytesOf(realityRow[e]) \notin {Absent, b}
      /\ UNCHANGED <<factTables, known, seen, call, consumed, retained, refusedIn, failedIn, lostIn>>
  BY <1>t DEF RealityRefused, RealityConflict, AsksReality, Calls, CachesFollow
<1>2. typedRefusedIn' \subseteq failedIn \cup lostIn
  <2>1. CASE BytesOf(evidenceRow[e]) = b /\ BytesOf(realityRow[e]) \in {Absent, b}
    <3>1. known[s][e] \notin {Absent, BytesOf(evidenceRow[e])}
      BY <1>1, <2>1 DEF FoundBytes
    <3>2. s \in failedIn \cup lostIn
      BY <1>1, <1>t, <3>1 DEF StraysHaveCause, Excused
    <3> QED BY <1>t, <3>2 DEF RealityRefused, RefusedForCause
  <2>2. CASE ~(BytesOf(evidenceRow[e]) = b /\ BytesOf(realityRow[e]) \in {Absent, b})
    BY <1>t, <2>2 DEF RealityRefused, RefusedForCause
  <2> QED BY <2>1, <2>2
<1> QED
  BY <1>1, <1>2, <1>t
  DEF FactInv, FactTypeOK, AdmittedPairs, CallKnows, CachesFollow, StraysHaveCause, Excused,
      ConsumedOnce, BoundToFirstAdmission, RefusedForCause, factTables

\* A typed observation follows the evidence it was derived from.
LEMMA RealityFact ==
    ASSUME FactInv, NEW s \in Services,
           \/ RealitySave(s) \/ RealityLost(s)
           \/ \E e \in Evidences, i \in Interactions, b \in Bytes : RealityStart(s, e, i, b)
    PROVE  FactInv'
<1> USE RowsArePresent
<1>t. /\ FactTypeOK /\ AdmittedPairs /\ CallKnows /\ CachesFollow /\ StraysHaveCause
      /\ ConsumedOnce /\ BoundToFirstAdmission /\ RefusedForCause
  BY DEF FactInv
<1>1. ASSUME NEW e \in Evidences, NEW i \in Interactions, NEW b \in Bytes,
             RealityStart(s, e, i, b)
      PROVE  FactInv'
  <2> DEFINE c == [at |-> "reality", ev |-> e, by |-> i, bytes |-> b]
  <2>1. /\ observationRow[e] # Absent /\ known[s][e] # Absent /\ c \in AtWork
        /\ evidenceRow[e] # Absent
        /\ call' = (IF realityRow[e] # Absent THEN call ELSE [call EXCEPT ![s] = c])
        /\ UNCHANGED <<factTables, known, seen, consumed, retained, refusedIn, failedIn, lostIn,
                       typedRefusedIn>>
        /\ call[s].at = "idle"
    BY <1>1, <1>t
    DEF RealityStart, AsksReality, CachesFollow, AdmittedPairs, FactTypeOK, AtWork, Calls,
        SetbacksUnchanged
  <2>2. (AdmittedPairs /\ ConsumedOnce /\ BoundToFirstAdmission)'
    BY <1>t, <2>1, TablesQuiet
  <2>3. FactTypeOK'
    BY <1>t, <2>1 DEF FactTypeOK, factTables
  <2>4. CallKnows' /\ CachesFollow'
    BY <1>t, <2>1 DEF FactTypeOK, CallKnows, CachesFollow, factTables
  <2>5. StraysHaveCause'
    <3>1. call'[s].at \in {"idle", "reality"} /\ \A t \in Services \ {s} : call'[t] = call[t]
      BY <1>t, <2>1 DEF FactTypeOK
    <3>2. Excused(s)'
      BY <1>t, <2>1, <3>1 DEF StraysHaveCause, Excused, factTables
    <3> QED BY <1>t, <2>1, <3>1, <3>2, StraysElsewhere DEF factTables
  <2> QED BY <1>t, <2>1, <2>2, <2>3, <2>4, <2>5 DEF FactInv, RefusedForCause
<1>2. CASE RealitySave(s)
  <2> DEFINE c == call[s]
             o == [bytes |-> c.bytes, by |-> evidenceRow[c.ev].by]
  <2>1. /\ c \in AtWork /\ c.at = "reality" /\ c.ev \in Evidences
        /\ observationRow[c.ev] # Absent /\ evidenceRow[c.ev] \in FactRow
        /\ realityRow' = [realityRow EXCEPT ![c.ev] = o] /\ o \in FactRow
        /\ call' = [call EXCEPT ![s] = Free]
        /\ UNCHANGED <<evidenceRow, observationRow, known, seen, consumed, retained,
                       refusedIn, failedIn, lostIn, typedRefusedIn>>
    BY <1>2, <1>t
    DEF RealitySave, Calls, Done, SetbacksUnchanged, FactTypeOK, AtWork, Free, CallKnows,
        AdmittedPairs, FactRow
  <2>2. FactTypeOK'
    BY <1>t, <2>1 DEF FactTypeOK
  <2>3. AdmittedPairs' /\ ConsumedOnce' /\ BoundToFirstAdmission'
    BY <1>t, <2>1 DEF FactTypeOK, AdmittedPairs, ConsumedOnce, BoundToFirstAdmission
  <2>4. CallKnows' /\ CachesFollow'
    BY <1>t, <2>1 DEF FactTypeOK, CallKnows, CachesFollow, Free
  <2>5. StraysHaveCause'
    BY <1>t, <2>1, StraysEnd
  <2> QED BY <1>t, <2>1, <2>2, <2>3, <2>4, <2>5 DEF FactInv, RefusedForCause
<1>3. CASE RealityLost(s)
  BY <1>3, <1>t, EndsQuietly DEF RealityLost, Calls, Done, SetbacksUnchanged, RefusedForCause
<1> QED BY <1>1, <1>2, <1>3

\* A service that starts reads its caches from the tables.
LEMMA SeedsFact ==
    ASSUME FactInv, NEW s \in Services,
           known' = [known EXCEPT ![s] = [e \in Evidences |-> BytesOf(evidenceRow[e])]],
           seen' = [seen EXCEPT ![s] = observationRow],
           call' = [call EXCEPT ![s] = Free],
           Forgives(s), UNCHANGED <<factTables, consumed, retained>>
    PROVE  FactInv'
<1> USE RowsArePresent
<1>t. /\ FactTypeOK /\ AdmittedPairs /\ CallKnows /\ CachesFollow /\ RefusedForCause
      /\ StraysHaveCause
  BY DEF FactInv
<1>1. \A e \in Evidences : /\ BytesOf(evidenceRow[e]) \in Bytes \cup {Absent}
                           /\ BytesOf(evidenceRow[e]) # Absent <=> evidenceRow[e] # Absent
  BY <1>t DEF FactTypeOK
<1>2. (AdmittedPairs /\ ConsumedOnce /\ BoundToFirstAdmission)'
  BY TablesQuiet DEF FactInv
<1>3. FactTypeOK'
  BY <1>1, <1>t DEF FactTypeOK, factTables
<1>4. CallKnows'
  BY <1>t DEF FactTypeOK, CallKnows, factTables, Free
<1>5. CachesFollow'
  BY <1>1, <1>t DEF FactTypeOK, CachesFollow, AdmittedPairs, factTables, Free, Forgives
<1>6. StraysHaveCause'
  <2>1. /\ call'[s].at = "idle" /\ \A e \in Evidences : known'[s][e] = BytesOf(evidenceRow[e])
        /\ \A t \in Services \ {s} : known'[t] = known[t] /\ call'[t] = call[t]
    BY <1>t DEF FactTypeOK, Free
  <2>2. Excused(s)'
    BY <2>1 DEF Excused, factTables
  <2> QED BY <1>t, <2>1, <2>2, StraysElsewhere DEF Forgives, factTables
<1>7. RefusedForCause'
  BY <1>t DEF RefusedForCause, Forgives
<1> QED BY <1>2, <1>3, <1>4, <1>5, <1>6, <1>7 DEF FactInv

\* Every step keeps the invariant.
LEMMA NextFact == FactInv /\ [FactNext]_factVars => FactInv'
<1> SUFFICES ASSUME FactInv, [FactNext]_factVars PROVE FactInv'
  OBVIOUS
<1>1. ASSUME NEW s \in Services, NEW e \in Evidences, NEW b \in Bytes,
             \/ AdmitConflict(s, e, b) \/ AdmitReplay(s, e, b)
             \/ \E i \in Interactions : AdmitDenied(s, e, i, b) \/ AdmitWrite(s, e, i, b)
      PROVE  FactInv'
  BY <1>1, EntersFact
<1>2. ASSUME NEW s \in Services, NEW e \in Evidences, NEW b \in Bytes, RealityRefused(s, e, b)
      PROVE  FactInv'
  BY <1>2, TypedRefusalFact
<1>3. ASSUME NEW s \in Services, NEW e \in Evidences, NEW i \in Interactions, NEW b \in Bytes,
             RealityStart(s, e, i, b)
      PROVE  FactInv'
  BY <1>3, RealityFact
<1>4. ASSUME NEW s \in Services, FactStep(s) PROVE FactInv'
  BY <1>4, RetainFact, SaveFact, RepairFact, ArbitrateFact, RealityFact DEF FactStep
<1>5. ASSUME NEW s \in Services, WriteRaises(s) PROVE FactInv'
  BY <1>5, EndsQuietly DEF WriteRaises, Done, FactInv, RefusedForCause
<1>6. ASSUME NEW s \in Services, FactRestart(s) PROVE FactInv'
  BY <1>6, SeedsFact DEF FactRestart, Done
<1>7. CASE UNCHANGED factVars
  BY <1>7 DEF factVars, factTables, FactInv, FactTypeOK, AdmittedPairs, CallKnows, CachesFollow,
     StraysHaveCause, Excused, ConsumedOnce, BoundToFirstAdmission, RefusedForCause
<1> QED BY <1>1, <1>2, <1>3, <1>4, <1>5, <1>6, <1>7 DEF FactNext

\* What an admission knows of the tables stays true while others write.
THEOREM FactInvariant == FactSpec => []FactInv
  BY InitFact, NextFact, PTL DEF FactSpec

\* A piece of evidence is answered NEW or REPAIRED once, and only when its
\* observation is stored: over all services, retries, lost writes and restarts.
THEOREM EvidenceConsumedOnce == FactSpec => []ConsumedOnce
  BY FactInvariant, PTL DEF FactInv

\* An observation carries the interaction of the first admission (ADR-0009).
THEOREM FirstAdmissionBinds == FactSpec => []BoundToFirstAdmission
  BY FactInvariant, PTL DEF FactInv

\* admit refuses conflicting bytes only, except after a write of the service that
\* raised; admit_reality also where the service was handed bytes that lost in the table.
THEOREM RefusalsHaveCause == FactSpec => []RefusedForCause
  BY FactInvariant, PTL DEF FactInv

-----------------------------------------------------------------------------
(* The source loop: every pass, but for the seeding of its caches and the  *)
(* abort of its turn, moves the fact tables as an admission does.          *)

\* Nothing is pending when the store is empty.
LEMMA InitSource == SourceInit => SourceInv
<1> SUFFICES ASSUME SourceInit PROVE SourceInv
  OBVIOUS
<1>1. FactInv
  BY InitFact DEF SourceInit
<1>2. LoopTypeOK
  BY DEF SourceInit, LoopInit, LoopTypeOK, Resting, Stages, Stage
<1>3. StageKnows
  <2>1. call[Loop] = Free
    BY SourceAssumption DEF SourceAssumption, SourceInit, FactInit
  <2> QED BY <2>1 DEF SourceInit, LoopInit, StageKnows, Resting, Stage, Decided
<1>4. FeltFollowsFacts /\ FeltOnce /\ CommittedFactsShow
  <2>1. \A r \in Rows : observationRow[r] = Absent /\ felt[r] = 0
    BY DEF SourceInit, LoopInit, FactInit, Empties, Rows
  <2>2. rowMarker = {} /\ ~loop.base
    BY DEF SourceInit, LoopInit, Resting
  <2> QED BY <2>1, <2>2 DEF FeltFollowsFacts, FeltOnce, CommittedFactsShow
<1> QED BY <1>1, <1>2, <1>3, <1>4 DEF SourceInv

\* What the stages say of the admission, and the rows they name.
LEMMA PassState ==
    ASSUME SourceInv
    PROVE  /\ Loop \in Services /\ Rows \subseteq Interactions /\ call[Loop] \in AtWork \cup {Free}
           /\ loop \in [at : Stages, row : Nat, base : BOOLEAN, typed : BOOLEAN]
           /\ loop.at # "off" => loop.row \in Rows
           /\ \A r \in Rows : seen[Loop][r] # Absent => observationRow[r] # Absent
  BY SourceAssumption
  DEF SourceAssumption, SourceInv, FactInv, FactTypeOK, CachesFollow, LoopTypeOK, Stage, Rows

\* The next row, or the end of the pass.
LEMMA NextRowMoves ==
    ASSUME loop.row \in Rows, NextRow
    PROVE  /\ loop' \in [at : {"off", "scan"}, row : Nat, base : {FALSE}, typed : {FALSE}]
           /\ loop'.at = "off" => loop' = Resting
           /\ loop'.at = "scan" => loop'.row \in Rows
<1> DEFINE n == Cardinality(Rows)
<1>1. n \in Nat \ {0} /\ Rows = 1 .. n
  BY SourceAssumption DEF SourceAssumption
<1> HIDE DEF n
<1>2. CASE loop.row = n
  BY <1>2 DEF NextRow, Resting, n
<1>3. CASE loop.row # n
  <2>1. loop' = [at |-> "scan", row |-> loop.row + 1, base |-> FALSE, typed |-> FALSE]
    BY <1>3 DEF NextRow, Resting, n
  <2>2. loop.row + 1 \in 1 .. n
    BY <1>1, <1>3
  <2> QED BY <1>1, <2>1, <2>2
<1> QED BY <1>2, <1>3

\* The pass leaves a row, or begins: what it was about to feel it has felt, or the
\* row is marked as left half way.
LEMMA LeavesRow ==
    ASSUME SourceInv, FactInv', call'[Loop] = Free,
           loop' \in [at : {"off", "scan"}, row : Nat, base : {FALSE}, typed : {FALSE}],
           loop'.at = "off" => loop' = Resting,
           loop'.at = "scan" => loop'.row \in Rows,
           UNCHANGED <<observationRow, rowMarker, applied, felt>>,
           interrupted \subseteq interrupted', interrupted' \subseteq Rows,
           loop.base => loop.row \in interrupted' \cup rowMarker
    PROVE  SourceInv'
<1>1. LoopTypeOK'
  BY DEF SourceInv, LoopTypeOK, Stage, Stages
<1>2. StageKnows'
  BY DEF StageKnows, Stage, Decided
<1>3. FeltFollowsFacts' /\ CommittedFactsShow' /\ FeltOnce'
  BY DEF SourceInv, FeltFollowsFacts, CommittedFactsShow, FeltOnce
<1> QED BY <1>1, <1>2, <1>3 DEF SourceInv

\* The pass goes on with its row: what it knows at the next stage suffices.
LEMMA GoesOn ==
    ASSUME SourceInv, FactInv', loop.at # "off",
           loop' \in [at : Stages \ {"off"}, row : {loop.row}, base : {loop.base}, typed : BOOLEAN],
           StageKnows',
           UNCHANGED <<observationRow, rowMarker, felt, interrupted>>,
           applied \subseteq applied', applied' \subseteq Rows
    PROVE  SourceInv'
<1>1. LoopTypeOK'
  BY DEF SourceInv, LoopTypeOK, Stage
<1>2. FeltFollowsFacts' /\ CommittedFactsShow' /\ FeltOnce'
  BY DEF SourceInv, FeltFollowsFacts, CommittedFactsShow, FeltOnce
<1> QED BY <1>1, <1>2 DEF SourceInv

\* A step of the admission of the row in hand: it goes on, is refused, or answers;
\* the answer is NEW or REPAIRED exactly when the observation was not there.
LEMMA AdmissionStep ==
    ASSUME SourceInv, Stage("admit"), FactStep(Loop)
    PROVE  LET r == loop.row IN
           /\ \A q \in Rows \ {r} : observationRow'[q] = observationRow[q]
           /\ observationRow[r] # Absent => observationRow'[r] # Absent
           /\ consumed' # consumed <=> observationRow'[r] # observationRow[r]
           /\ observationRow'[r] # observationRow[r] => observationRow[r] = Absent
           /\ \/ /\ call'[Loop].at \in {"arbitrate", "rebuild"} /\ call'[Loop].ev = r
                 /\ seen'[Loop][r] = Absent /\ observationRow'[r] = observationRow[r]
              \/ /\ call'[Loop] = Free
                 /\ seen'[Loop][r] = Absent => observationRow'[r] = observationRow[r]
<1> DEFINE r == loop.row
           c == call[Loop]
<1> USE RowsArePresent
<1>t. /\ FactTypeOK /\ CallKnows /\ CachesFollow /\ AdmittedPairs
      /\ Loop \in Services /\ r \in Evidences
  BY PassState DEF SourceInv, FactInv, Stage, Rows
<1>1. /\ c \in AtWork /\ c.at \in {"save", "repair", "arbitrate", "rebuild"} /\ c.ev = r
      /\ seen[Loop][r] = Absent
  BY <1>t, PassState DEF SourceInv, StageKnows, Stage, Free
<1>2. ASSUME NEW o \in FactRow, observationRow[r] = Absent,
             observationRow' = [observationRow EXCEPT ![r] = o],
             Caches(Loop, r, o), Consumed(r), Done(Loop)
      PROVE  /\ \A q \in Rows \ {r} : observationRow'[q] = observationRow[q]
             /\ observationRow'[r] # Absent /\ consumed' # consumed
             /\ call'[Loop] = Free /\ seen'[Loop][r] # Absent
  <2>1. consumed'[r] = consumed[r] + 1 /\ consumed[r] \in Nat
    BY <1>2, <1>t DEF Consumed, FactTypeOK
  <2>2. consumed' # consumed
    BY <2>1
  <2> QED BY <1>2, <1>t, <2>2 DEF FactTypeOK, Caches, Done, Rows
<1>3. ASSUME NEW step \in {"arbitrate", "rebuild"}, Moves(Loop, step), seen' = seen
      PROVE  /\ call'[Loop].at \in {"arbitrate", "rebuild"} /\ call'[Loop].ev = r
             /\ seen'[Loop][r] = Absent
  BY <1>1, <1>3, <1>t, StepOn DEF Moves, FactTypeOK
<1>4. ASSUME Done(Loop) PROVE call'[Loop] = Free
  BY <1>4, <1>t DEF Done, FactTypeOK
<1>5. CASE SaveAdmission(Loop)
  <2> DEFINE row == [bytes |-> c.bytes, by |-> c.by]
  <2>1. row \in FactRow
    BY <1>1 DEF FactRow, AtWork
  <2>2. evidenceRow[r] = Absent => observationRow[r] = Absent
    BY <1>t DEF AdmittedPairs
  <2> QED BY <1>1, <1>2, <1>3, <1>5, <2>1, <2>2 DEF SaveAdmission
<1>6. CASE Repair(Loop)
  <2> DEFINE o == [bytes |-> c.bytes, by |-> evidenceRow[r].by]
  <2>1. o \in FactRow
    BY <1>1, <1>6, <1>t DEF FactRow, AtWork, Repair, FactTypeOK
  <2> HIDE DEF o
  <2>2. /\ observationRow[r] = Absent =>
             /\ observationRow' = [observationRow EXCEPT ![r] = o]
             /\ Caches(Loop, r, o) /\ Consumed(r) /\ Done(Loop)
        /\ observationRow[r] # Absent =>
             Moves(Loop, "arbitrate") /\ UNCHANGED <<observationRow, seen, consumed>>
    BY <1>1, <1>6 DEF Repair, o
  <2> QED BY <1>2, <1>3, <2>1, <2>2
<1>7. CASE RepairMissing(Loop) \/ ArbitrateConflict(Loop)
  <2>1. UNCHANGED <<observationRow, consumed>> /\ Done(Loop)
    BY <1>7 DEF RepairMissing, ArbitrateConflict, Refuses, factTables
  <2> QED BY <1>4, <2>1
<1>8. CASE Arbitrate(Loop)
  <2>1. UNCHANGED <<observationRow, consumed>>
    BY <1>8 DEF Arbitrate, factTables
  <2>2. Done(Loop) \/ (Moves(Loop, "rebuild") /\ seen' = seen)
    BY <1>8 DEF Arbitrate
  <2> QED BY <1>3, <1>4, <2>1, <2>2
<1>9. CASE Rebuild(Loop)
  <2>1. evidenceRow[r] \in FactRow
    BY <1>1, <1>9, <1>t DEF Rebuild, Calls, CallKnows, FactTypeOK
  <2> QED BY <1>1, <1>2, <1>4, <1>9, <2>1 DEF Rebuild
<1> QED
  BY <1>1, <1>5, <1>6, <1>7, <1>8, <1>9
  DEF FactStep, Retain, RealitySave, RealityLost, Calls

\* Each step of the pass keeps what the fact tables promise.
LEMMA SourceKeepsFacts == ASSUME SourceInv, [SourceNext]_sourceVars PROVE FactInv'
<1>1. FactInv
  BY DEF SourceInv
<1>2. CASE StartPass
  <2>1. call[Loop] = Free /\ call \in [Services -> AtWork \cup {Free}] /\ call' = call
    BY <1>1, <1>2 DEF SourceInv, StageKnows, StartPass, Stage, FactInv, FactTypeOK
  <2>2. call' = [call EXCEPT ![Loop] = Free]
    BY <2>1
  <2> QED BY <1>1, <1>2, <2>2, PassState, SeedsFact DEF StartPass
<1>3. CASE TurnAborts
  BY <1>1, <1>3
  DEF TurnAborts, factTables, FactInv, FactTypeOK, AdmittedPairs, CallKnows, CachesFollow,
      StraysHaveCause, Excused, ConsumedOnce, BoundToFirstAdmission, RefusedForCause
<1>4. CASE [FactNext]_factVars
  BY <1>1, <1>4, NextFact
<1>5. ASSUME NEW b \in Bytes, Ingest(b) PROVE FactNext
  <2>1. loop.row \in Rows /\ Loop \in Services /\ loop.row \in Interactions
    BY <1>5, PassState DEF Ingest, Stage
  <2> QED BY <1>5, <2>1 DEF Ingest, FactNext, Rows
<1>6. CASE Admitted \/ IngestFault \/ PassDiesAnywhere
  BY <1>4, <1>6, PassState DEF Admitted, IngestFault, PassDiesAnywhere, FactNext
<1>7. CASE ExtractReality
  <2>1. loop.row \in Rows /\ Loop \in Services /\ loop.row \in Interactions
    BY <1>7, PassState DEF ExtractReality, Stage
  <2> QED BY <1>4, <1>7, <2>1 DEF ExtractReality, FactNext, FactStep, Rows
<1>8. CASE Skip \/ BlockRow \/ BeginRow \/ ReconcileFacts \/ CommitRow \/ UNCHANGED sourceVars
  BY <1>4, <1>8 DEF Skip, BlockRow, BeginRow, ReconcileFacts, CommitRow, sourceVars
<1> QED BY <1>2, <1>3, <1>4, <1>5, <1>6, <1>7, <1>8 DEF SourceNext

\* Before a row is decided on: nothing is felt yet, and no admission is under way.
LEMMA BeforeAdmission ==
    ASSUME SourceInv, StartPass \/ Skip \/ BlockRow \/ BeginRow
    PROVE  SourceInv'
<1>1. FactInv'
  BY SourceKeepsFacts DEF SourceNext
<1>2. /\ call[Loop] = Free /\ ~loop.base /\ call' = call
      /\ UNCHANGED <<observationRow, rowMarker, applied, felt, interrupted>>
  BY DEF SourceInv, StageKnows, StartPass, Skip, BlockRow, BeginRow, Stage, Decided, SourceQuiet,
         factVars, factTables
<1>3. interrupted \subseteq Rows /\ Stages \ {"off"} = {"scan", "begin", "ingest"} \cup {"admit"} \cup Decided
  BY DEF SourceInv, LoopTypeOK, Stages, Decided
<1>4. CASE StartPass
  <2> DEFINE n == Cardinality(Rows)
  <2>0. n \in Nat \ {0} /\ Rows = 1 .. n
    BY SourceAssumption DEF SourceAssumption
  <2> HIDE DEF n
  <2>1. loop' = [at |-> "scan", row |-> 1, base |-> FALSE, typed |-> FALSE]
    BY <1>4 DEF StartPass, Resting
  <2>2. 1 \in Rows
    BY <2>0
  <2> QED BY <1>1, <1>2, <1>3, <2>1, <2>2, LeavesRow
<1>5. CASE Skip \/ BlockRow
  <2>1. loop.row \in Rows /\ NextRow
    BY <1>5, PassState DEF Skip, BlockRow, Stage
  <2> QED BY <1>1, <1>2, <1>3, <2>1, NextRowMoves, LeavesRow
<1>6. CASE BeginRow
  <2>1. PICK st \in {"begin", "ingest"} : loop' = [loop EXCEPT !.at = st] /\ loop.at # "off"
    BY <1>6 DEF BeginRow, Stage, To
  <2>2. /\ loop'.at = st /\ loop'.base = loop.base
        /\ loop' \in [at : Stages \ {"off"}, row : {loop.row}, base : {loop.base}, typed : BOOLEAN]
    BY <1>3, <2>1, PassState
  <2>3. StageKnows'
    BY <1>2, <2>2 DEF StageKnows, Stage, Decided
  <2> QED BY <1>1, <1>2, <2>1, <2>2, <2>3, GoesOn DEF SourceInv, LoopTypeOK
<1> QED BY <1>4, <1>5, <1>6

\* The admission is asked for: it starts, is a replay, or is refused.
LEMMA IngestKeeps == ASSUME SourceInv, NEW b \in Bytes, Ingest(b) PROVE SourceInv'
<1> DEFINE r == loop.row
<1>1. FactInv' /\ FactInv
  BY SourceKeepsFacts DEF SourceNext, SourceInv
<1>2. /\ Loop \in Services /\ r \in Evidences /\ r \in Rows /\ call \in [Services -> AtWork \cup {Free}]
      /\ call[Loop] = Free /\ ~loop.base /\ loop.at = "ingest" /\ interrupted \subseteq Rows
      /\ UNCHANGED <<observationRow, rowMarker, applied, felt, interrupted>>
  BY <1>1, PassState
  DEF SourceInv, StageKnows, LoopTypeOK, Ingest, Stage, Decided, SourceQuiet, AdmitWrite,
      AdmitReplay, AdmitConflict, Enters, factTables, Rows, FactInv, FactTypeOK
<1>3. CASE AdmitWrite(Loop, r, r, b) /\ To("admit")
  <2>1. /\ call'[Loop].at \in {"save", "repair"} /\ call'[Loop].ev = r /\ seen'[Loop][r] = Absent
    BY <1>2, <1>3 DEF AdmitWrite
  <2>2. /\ loop'.at = "admit" /\ loop'.row = r /\ ~loop'.base
        /\ loop' \in [at : Stages \ {"off"}, row : {r}, base : {loop.base}, typed : BOOLEAN]
    BY <1>2, <1>3, PassState DEF To, Stages
  <2>3. StageKnows'
    BY <2>1, <2>2 DEF StageKnows, Stage, Decided
  <2> QED BY <1>1, <1>2, <2>2, <2>3, GoesOn DEF SourceInv, LoopTypeOK
<1>4. CASE AdmitReplay(Loop, r, b) /\ To("reality")
  <2>1. call'[Loop] = Free /\ seen'[Loop][r] # Absent
    BY <1>2, <1>4 DEF AdmitReplay
  <2>2. /\ loop'.at = "reality" /\ loop'.row = r
        /\ loop' \in [at : Stages \ {"off"}, row : {r}, base : {loop.base}, typed : BOOLEAN]
    BY <1>2, <1>4, PassState DEF To, Stages
  <2>3. StageKnows'
    BY <2>1, <2>2 DEF StageKnows, Stage, Decided
  <2> QED BY <1>1, <1>2, <2>2, <2>3, GoesOn DEF SourceInv, LoopTypeOK
<1>5. CASE AdmitConflict(Loop, r, b) /\ IngestRaises
  <2>1. call'[Loop] = Free
    BY <1>2, <1>5 DEF AdmitConflict, Refuses, Done
  <2> QED BY <1>1, <1>2, <1>5, <2>1, NextRowMoves, LeavesRow DEF IngestRaises
<1> QED BY <1>3, <1>4, <1>5 DEF Ingest

\* A step of the admission: only the answer to it is felt, and once.
LEMMA AdmittedKeeps == ASSUME SourceInv, Admitted PROVE SourceInv'
<1> DEFINE r == loop.row
<1>1. FactInv' /\ FactInv
  BY SourceKeepsFacts DEF SourceNext, SourceInv
<1>2. /\ loop.at = "admit" /\ r \in Rows /\ ~loop.base /\ interrupted \subseteq Rows
      /\ UNCHANGED <<rowMarker, applied, felt, interrupted>>
  BY PassState DEF SourceInv, StageKnows, LoopTypeOK, Admitted, Stage, Decided, SourceQuiet
<1>3. /\ \A q \in Rows \ {r} : observationRow'[q] = observationRow[q]
      /\ observationRow[r] # Absent => observationRow'[r] # Absent
      /\ consumed' # consumed <=> observationRow'[r] # observationRow[r]
      /\ observationRow'[r] # observationRow[r] => observationRow[r] = Absent
  BY AdmissionStep DEF Admitted
<1>4. observationRow' = observationRow \/ observationRow'[r] # observationRow[r]
  BY <1>1, <1>3 DEF FactInv, FactTypeOK, Rows
<1>5. CASE call'[Loop].at # "idle"
  <2>1. /\ call'[Loop].at \in {"arbitrate", "rebuild"} /\ call'[Loop].ev = r
        /\ seen'[Loop][r] = Absent /\ observationRow' = observationRow
    BY <1>4, <1>5, AdmissionStep DEF Admitted, Free
  <2>2. loop' = loop
    BY <1>5 DEF Admitted
  <2>3. StageKnows'
    BY <1>2, <2>1, <2>2 DEF StageKnows, Stage, Decided
  <2>4. loop' \in [at : Stages \ {"off"}, row : {r}, base : {loop.base}, typed : BOOLEAN]
    BY <1>2, <2>2, PassState
  <2> QED BY <1>1, <1>2, <2>1, <2>3, <2>4, GoesOn DEF SourceInv, LoopTypeOK
<1>6. CASE call'[Loop].at = "idle" /\ seen'[Loop][r] = Absent
  <2>1. NextRow /\ call'[Loop] = Free /\ observationRow' = observationRow
    BY <1>4, <1>6, AdmissionStep DEF Admitted, IngestRaises
  <2> QED BY <1>1, <1>2, <2>1, NextRowMoves, LeavesRow
<1>7. CASE call'[Loop].at = "idle" /\ seen'[Loop][r] # Absent
  <2> DEFINE new == consumed' # consumed
  <2>1. call'[Loop] = Free /\ loop' = [loop EXCEPT !.at = "reality", !.base = new]
    BY <1>7, AdmissionStep DEF Admitted
  <2> HIDE DEF new
  <2>2. /\ loop'.at = "reality" /\ loop'.row = r /\ loop'.base = new /\ new \in BOOLEAN
        /\ loop' \in [at : Stages, row : Nat, base : BOOLEAN, typed : BOOLEAN]
    BY <2>1, PassState DEF Stages, new
  <2>3. LoopTypeOK'
    BY <1>2, <2>2 DEF SourceInv, LoopTypeOK, Stage
  <2>4. StageKnows'
    BY <1>7, <2>1, <2>2 DEF StageKnows, Stage, Decided
  <2>5. FeltFollowsFacts'
    <3>1. new => observationRow[r] = Absent
      BY <1>3 DEF new
    <3>2. ~new => observationRow' = observationRow
      BY <1>3, <1>4 DEF new
    <3>3. felt \in [Rows -> Nat] /\ \A q \in Rows : felt[q] > 0 => observationRow[q] # Absent
      BY DEF SourceInv, LoopTypeOK, FeltFollowsFacts
    <3>4. \A q \in Rows : felt'[q] > 0 => observationRow'[q] # Absent
      BY <1>2, <1>3, <3>3
    <3>5. loop'.base => felt'[loop'.row] = 0
      BY <1>2, <2>2, <3>1, <3>3
    <3>6. \A q \in Rows : observationRow[q] # Absent => q \in rowMarker \cup interrupted
      BY <1>2 DEF SourceInv, FeltFollowsFacts
    <3>7. \A q \in Rows : observationRow'[q] # Absent /\ q \notin rowMarker' \cup interrupted' =>
            loop'.row = q /\ loop'.base
      BY <1>2, <1>3, <2>2, <3>2, <3>6
    <3> QED BY <3>4, <3>5, <3>7 DEF FeltFollowsFacts
  <2> QED
    BY <1>1, <1>2, <2>3, <2>4, <2>5 DEF SourceInv, CommittedFactsShow, FeltOnce
<1> QED BY <1>5, <1>6, <1>7

\* The typed observation of the row, and what of it the turn restores.
LEMMA ExtractKeeps == ASSUME SourceInv, ExtractReality PROVE SourceInv'
<1> DEFINE r == loop.row
<1>1. FactInv' /\ FactInv
  BY SourceKeepsFacts DEF SourceNext, SourceInv
<1>2. /\ loop.at \in {"reality", "typing"} /\ r \in Rows /\ Loop \in Services
      /\ seen[Loop][r] # Absent /\ applied \subseteq Rows
      /\ call \in [Services -> AtWork \cup {Free}]
      /\ loop \in [at : Stages, row : Nat, base : BOOLEAN, typed : BOOLEAN]
      /\ UNCHANGED <<rowMarker, applied, felt, interrupted>>
  BY <1>1, PassState
  DEF SourceInv, StageKnows, LoopTypeOK, ExtractReality, Stage, Decided, SourceQuiet, FactInv,
      FactTypeOK
<1>3. ASSUME NEW st \in {"typing", "run"}, NEW t \in BOOLEAN,
             loop' = [at |-> st, row |-> r, base |-> loop.base, typed |-> t],
             UNCHANGED <<observationRow, seen>>,
             st = "typing" => call'[Loop].at \in {"idle", "reality"},
             st = "run" => call'[Loop] = Free /\ t = Restores(r)
      PROVE  SourceInv'
  <2>1. /\ loop'.at = st /\ loop'.row = r /\ loop'.base = loop.base /\ loop'.typed = t
        /\ loop' \in [at : Stages \ {"off"}, row : {r}, base : {loop.base}, typed : BOOLEAN]
    BY <1>2, <1>3 DEF Stages
  <2>2. StageKnows'
    BY <1>2, <1>3, <2>1 DEF StageKnows, Stage, Decided, Restores
  <2> QED BY <1>1, <1>2, <1>3, <2>1, <2>2, GoesOn
<1>4. ASSUME NEW b \in Bytes, RealityStart(Loop, r, r, b), To("typing"), Stage("reality")
      PROVE  SourceInv'
  <2>1. UNCHANGED <<observationRow, seen>>
    BY <1>4 DEF RealityStart, factTables
  <2>2. call'[Loop].at \in {"idle", "reality"}
    BY <1>2, <1>4 DEF RealityStart, AsksReality, Calls
  <2>3. loop' = [at |-> "typing", row |-> r, base |-> loop.base, typed |-> loop.typed]
    BY <1>2, <1>4 DEF To
  <2> QED BY <1>2, <1>3, <2>1, <2>2, <2>3
<1>5. CASE RealitySave(Loop) /\ Stage("typing") /\ UNCHANGED loop
  <2>1. UNCHANGED <<observationRow, seen>> /\ call'[Loop] = Free
    BY <1>2, <1>5 DEF RealitySave, Done
  <2>2. loop' = [at |-> "typing", row |-> r, base |-> loop.base, typed |-> loop.typed]
    BY <1>2, <1>5 DEF Stage
  <2> QED BY <1>2, <1>3, <2>1, <2>2 DEF Free
<1>6. CASE /\ IF r \in TypedRows THEN Stage("typing") /\ Calls(Loop, "idle") ELSE Stage("reality")
           /\ loop' = [loop EXCEPT !.at = "run", !.typed = Restores(r)]
           /\ UNCHANGED factVars
  <2>1. UNCHANGED <<observationRow, seen, call>>
    BY <1>6 DEF factVars, factTables
  <2>2. call[Loop] = Free
    <3>1. CASE Stage("reality")
      BY <3>1 DEF SourceInv, StageKnows, Stage
    <3>2. CASE Calls(Loop, "idle")
      BY <1>2, <3>2 DEF Calls, AtWork
    <3> QED BY <1>6, <3>1, <3>2
  <2>3. Restores(r) \in BOOLEAN
    BY DEF Restores
  <2>4. loop' = [at |-> "run", row |-> r, base |-> loop.base, typed |-> Restores(r)]
    BY <1>2, <1>6
  <2> HIDE DEF r
  <2> QED BY <1>3, <2>1, <2>2, <2>3, <2>4
<1> QED BY <1>4, <1>5, <1>6 DEF ExtractReality

\* The typed fact is in the canonical state before the turn commits.
LEMMA ReconcileKeeps == ASSUME SourceInv, ReconcileFacts PROVE SourceInv'
<1> DEFINE r == loop.row
<1>1. FactInv'
  BY SourceKeepsFacts DEF SourceNext
<1>2. /\ loop.at = "run" /\ r \in Rows /\ applied \subseteq Rows
      /\ loop \in [at : Stages, row : Nat, base : BOOLEAN, typed : BOOLEAN]
      /\ call[Loop] = Free /\ seen[Loop][r] # Absent
      /\ UNCHANGED <<observationRow, call, seen, rowMarker, felt, interrupted>>
  BY PassState
  DEF SourceInv, StageKnows, LoopTypeOK, ReconcileFacts, Stage, Decided, factVars, factTables
<1>3. /\ loop'.at = "commit" /\ loop'.row = r /\ loop'.base = loop.base
      /\ loop' \in [at : Stages \ {"off"}, row : {r}, base : {loop.base}, typed : BOOLEAN]
  BY <1>2 DEF ReconcileFacts, To, Stages
<1>4. /\ applied \subseteq applied' /\ applied' \subseteq Rows
      /\ r \in TypedRows => r \in applied'
  BY <1>2 DEF ReconcileFacts, SourceInv, StageKnows, Stage, Restores
<1>5. StageKnows'
  BY <1>2, <1>3, <1>4 DEF StageKnows, Stage, Decided
<1> QED BY <1>1, <1>2, <1>3, <1>4, <1>5, GoesOn

\* The commit feels what the admission answered, marks the row and leaves it.
LEMMA CommitRowKeeps == ASSUME SourceInv, CommitRow PROVE SourceInv'
<1> DEFINE r == loop.row
<1>1. FactInv'
  BY SourceKeepsFacts DEF SourceNext
<1>2. /\ loop.at = "commit" /\ r \in Rows /\ call[Loop] = Free /\ observationRow[r] # Absent
      /\ r \in TypedRows => r \in applied
      /\ felt \in [Rows -> Nat]
      /\ loop.base => felt[r] = 0
      /\ UNCHANGED <<observationRow, call, applied, interrupted>>
  BY PassState
  DEF SourceInv, StageKnows, LoopTypeOK, FeltFollowsFacts, CommitRow, Stage, Decided, factVars,
      factTables
<1>3. /\ loop' \in [at : {"off", "scan"}, row : Nat, base : {FALSE}, typed : {FALSE}]
      /\ loop'.at = "off" => loop' = Resting
      /\ loop'.at = "scan" => loop'.row \in Rows
  BY <1>2, NextRowMoves DEF CommitRow
<1>4. /\ rowMarker' = rowMarker \cup {r}
      /\ felt' = [felt EXCEPT ![r] = IF loop.base THEN felt[r] + 1 ELSE felt[r]]
  BY DEF CommitRow, Feels
<1>5. /\ felt' \in [Rows -> Nat] /\ \A q \in Rows \ {r} : felt'[q] = felt[q]
      /\ felt'[r] = IF loop.base THEN 1 ELSE felt[r]
  <2>1. felt[r] \in Nat /\ felt[r] + 1 \in Nat /\ (loop.base => felt[r] + 1 = 1)
    BY <1>2
  <2> QED BY <1>2, <1>4, <2>1
<1>6. LoopTypeOK'
  BY <1>2, <1>3, <1>4, <1>5 DEF SourceInv, LoopTypeOK, Stage, Stages
<1>7. StageKnows'
  BY <1>2, <1>3 DEF StageKnows, Stage, Decided
<1>8. CommittedFactsShow'
  BY <1>2, <1>4 DEF SourceInv, CommittedFactsShow
<1>9. FeltFollowsFacts'
  <2>1. \A q \in Rows : felt'[q] > 0 => observationRow'[q] # Absent
    BY <1>2, <1>5 DEF SourceInv, FeltFollowsFacts
  <2>2. \A q \in Rows : observationRow'[q] # Absent => q \in rowMarker' \cup interrupted'
    BY <1>2, <1>4 DEF SourceInv, FeltFollowsFacts
  <2> QED BY <1>3, <2>1, <2>2 DEF FeltFollowsFacts
<1>10. FeltOnce'
  <2>1. r \notin interrupted /\ r \notin rowMarker => loop.base
    BY <1>2 DEF SourceInv, FeltFollowsFacts
  <2>2. \A q \in Rows : /\ felt[q] <= 1 /\ (felt[q] = 1 => q \in rowMarker)
                        /\ (q \in rowMarker \ interrupted => felt[q] = 1)
    BY DEF SourceInv, FeltOnce
  <2>3. felt'[r] <= 1 /\ (r \notin interrupted => felt'[r] = 1)
    BY <1>2, <1>5, <2>1, <2>2
  <2> QED BY <1>2, <1>4, <1>5, <2>2, <2>3 DEF FeltOnce
<1> QED BY <1>1, <1>6, <1>7, <1>8, <1>9, <1>10 DEF SourceInv

\* Whatever cuts a pass short marks the row it had admitted.
LEMMA CutShortKeeps ==
    ASSUME SourceInv, IngestFault \/ TurnAborts \/ PassDiesAnywhere
    PROVE  SourceInv'
<1> DEFINE r == loop.row
<1>1. FactInv' /\ FactInv
  BY SourceKeepsFacts DEF SourceNext, SourceInv
<1>2. /\ loop.at # "off" /\ r \in Rows /\ Loop \in Services
      /\ call \in [Services -> AtWork \cup {Free}] /\ interrupted \subseteq Rows
      /\ loop.base => loop.at \in Decided /\ observationRow[r] # Absent
      /\ UNCHANGED <<observationRow, rowMarker, applied, felt>>
  BY <1>1, PassState
  DEF SourceInv, StageKnows, LoopTypeOK, IngestFault, TurnAborts, PassDiesAnywhere, Stage,
      SourceQuiet, factTables, FactInv, FactTypeOK, WriteRaises, FactRestart
<1>3. CASE IngestFault
  <2>1. call'[Loop] = Free /\ NextRow
    BY <1>2, <1>3 DEF IngestFault, WriteRaises, Done, IngestRaises
  <2>2. /\ interrupted \subseteq interrupted' /\ interrupted' \subseteq Rows
        /\ loop.base => r \in interrupted'
    BY <1>2, <1>3 DEF IngestFault, Stage, Decided
  <2> QED BY <1>1, <1>2, <2>1, <2>2, NextRowMoves, LeavesRow
<1>4. CASE TurnAborts
  <2>1. call'[Loop] = Free /\ NextRow
    BY <1>2, <1>4 DEF TurnAborts, SourceInv, StageKnows
  <2>2. /\ interrupted \subseteq interrupted' /\ interrupted' \subseteq Rows
        /\ r \in interrupted'
    BY <1>2, <1>4 DEF TurnAborts
  <2> QED BY <1>1, <1>2, <2>1, <2>2, NextRowMoves, LeavesRow
<1>5. CASE PassDiesAnywhere
  <2>1. call'[Loop] = Free
    BY <1>2, <1>5 DEF PassDiesAnywhere, FactRestart, Done
  <2>2. loop' = [at |-> "off", row |-> 0, base |-> FALSE, typed |-> FALSE]
    BY <1>5 DEF PassDiesAnywhere, Resting
  <2>3. /\ interrupted \subseteq interrupted' /\ interrupted' \subseteq Rows
        /\ loop.base => r \in interrupted' \cup rowMarker
    BY <1>2, <1>5 DEF PassDiesAnywhere
  <2> QED BY <1>1, <1>2, <2>1, <2>2, <2>3, LeavesRow DEF Resting
<1> QED BY <1>3, <1>4, <1>5

\* Every step of the loop keeps the invariant.
LEMMA NextSource == SourceInv /\ [SourceNext]_sourceVars => SourceInv'
<1> SUFFICES ASSUME SourceInv, [SourceNext]_sourceVars PROVE SourceInv'
  OBVIOUS
<1>1. CASE UNCHANGED sourceVars
  <2>1. UNCHANGED <<observationRow, seen, call, loop, rowMarker, applied, felt, interrupted>>
    BY <1>1 DEF sourceVars, loopVars, factVars, factTables
  <2>2. LoopTypeOK' /\ StageKnows' /\ FeltFollowsFacts' /\ CommittedFactsShow' /\ FeltOnce'
    BY <2>1
    DEF SourceInv, LoopTypeOK, StageKnows, FeltFollowsFacts, CommittedFactsShow, FeltOnce,
        Stage, Restores
  <2> QED BY <2>2, SourceKeepsFacts DEF SourceInv
<1> QED
  BY <1>1, BeforeAdmission, IngestKeeps, AdmittedKeeps, ExtractKeeps, ReconcileKeeps,
     CommitRowKeeps, CutShortKeeps
  DEF SourceNext

\* What a pass knows at each stage stays true, wherever passes die.
THEOREM SourceInvariant == SourceSpec => []SourceInv
  BY InitSource, NextSource, PTL DEF SourceSpec

\* A row is marked processed after its typed fact reached the canonical state.
THEOREM TypedFactsCommitted == SourceSpec => []CommittedFactsShow
  BY SourceInvariant, PTL DEF SourceInv

\* A row is felt by one committed turn at most, and by one exactly when no pass
\* left it half way.
THEOREM RowsFeltOnce == SourceSpec => []FeltOnce
  BY SourceInvariant, PTL DEF SourceInv

-----------------------------------------------------------------------------
(* The pending overlay: each of its steps is a step of the admission or    *)
(* leaves that alone.                                                      *)

\* The overlay and the open turn name interactions.
OverlayInv ==
    /\ FactInv
    /\ overlay \in [Evidences -> Interactions \cup {Absent}]
    /\ openTurn \in Interactions \cup {Absent}
    /\ deferred \subseteq Evidences
    /\ DeferredIsKept

\* No step takes an observation away.
LEMMA ObservationsStay ==
    ASSUME FactInv, [FactNext]_factVars, NEW e \in Evidences, observationRow[e] # Absent
    PROVE  observationRow'[e] # Absent
<1> USE RowsArePresent
<1>t. FactTypeOK /\ AdmittedPairs /\ CallKnows
  BY DEF FactInv
<1>1. CASE observationRow' = observationRow
  BY <1>1
<1>2. ASSUME NEW s \in Services, SaveAdmission(s) PROVE observationRow'[e] # Absent
  BY <1>2, <1>t DEF SaveAdmission, FactTypeOK, AdmittedPairs
<1>3. ASSUME NEW s \in Services, Repair(s) PROVE observationRow'[e] # Absent
  BY <1>3, <1>t DEF Repair, FactTypeOK
<1>4. ASSUME NEW s \in Services, Rebuild(s) PROVE observationRow'[e] # Absent
  BY <1>4, <1>t DEF Rebuild, FactTypeOK
<1>5. ASSUME NEW s \in Services, NEW f \in Evidences, NEW b \in Bytes, Enters(s, f, b)
      PROVE  observationRow' = observationRow
  BY <1>5 DEF Enters, factTables
<1>6. ASSUME NEW s \in Services, NEW f \in Evidences, NEW b \in Bytes,
             \/ RealityRefused(s, f, b)
             \/ \E i \in Interactions : RealityStart(s, f, i, b)
      PROVE  observationRow' = observationRow
  BY <1>6 DEF RealityRefused, RealityStart, factTables
<1>7. ASSUME NEW s \in Services,
             \/ Retain(s) \/ RepairMissing(s) \/ ArbitrateConflict(s) \/ Arbitrate(s)
             \/ RealitySave(s) \/ RealityLost(s) \/ WriteRaises(s) \/ FactRestart(s)
      PROVE  observationRow' = observationRow
  BY <1>7
  DEF Retain, RepairMissing, ArbitrateConflict, Arbitrate, RealitySave, RealityLost, WriteRaises,
      FactRestart, factTables
<1>8. UNCHANGED factVars => observationRow' = observationRow
  BY DEF factVars, factTables
<1>9. ASSUME NEW s \in Services, FactStep(s) PROVE observationRow'[e] # Absent
  BY <1>1, <1>2, <1>3, <1>4, <1>7, <1>9 DEF FactStep
<1> QED
  BY <1>1, <1>5, <1>6, <1>7, <1>8, <1>9
  DEF FactNext, AdmitConflict, AdmitReplay, AdmitDenied, AdmitWrite

\* The overlay is empty when the process starts.
LEMMA InitOverlay == OverlayInit => OverlayInv
  BY InitFact DEF OverlayInit, Empties, OverlayInv, DeferredIsKept

\* Every step of the overlay keeps what was deferred.
LEMMA NextOverlay == OverlayInv /\ [OverlayNext]_overlayVars => OverlayInv'
<1> SUFFICES ASSUME OverlayInv, [OverlayNext]_overlayVars PROVE OverlayInv'
  OBVIOUS
<1> USE OverlayAssumption DEF OverlayAssumption
<1>t. /\ FactInv /\ overlay \in [Evidences -> Interactions \cup {Absent}]
      /\ openTurn \in Interactions \cup {Absent}
      /\ deferred \subseteq Evidences /\ DeferredIsKept
  BY DEF OverlayInv
\* When the facts move as admissions do, it is enough to look at the overlay.
<1>f. ASSUME [FactNext]_factVars,
             overlay' \in [Evidences -> Interactions \cup {Absent}],
             openTurn' \in Interactions \cup {Absent}, deferred' \subseteq Evidences,
             \A e \in deferred' \ discarded' :
               \/ overlay'[e] # Absent \/ observationRow'[e] # Absent
               \/ e \in deferred \ discarded /\ overlay[e] = Absent
      PROVE  OverlayInv'
  <2>1. FactInv'
    BY <1>t, <1>f, NextFact
  <2>2. DeferredIsKept'
    BY <1>t, <1>f, ObservationsStay DEF DeferredIsKept
  <2> QED BY <1>f, <2>1, <2>2 DEF OverlayInv
<1>1. ASSUME NEW i \in Interactions, BeginOverlayTurn(i) PROVE OverlayInv'
  BY <1>1, <1>t, <1>f DEF BeginOverlayTurn, FactQuiet
<1>2. ASSUME NEW e \in Evidences, Defer(e) PROVE OverlayInv'
  BY <1>2, <1>t, <1>f DEF Defer, FactQuiet, overlayTurn
<1>3. ASSUME NEW e \in Evidences, NEW b \in Bytes, IngestNow(e, b) PROVE OverlayInv'
  <2>1. FactNext
    BY <1>3, <1>t DEF IngestNow, FactNext
  <2> QED BY <1>3, <1>t, <1>f, <2>1 DEF IngestNow, overlayTurn
<1>4. ASSUME NEW e \in Evidences, AcceptPending(e) PROVE OverlayInv'
  <2>1. FactNext
    BY <1>4, <1>t DEF AcceptPending, FactNext
  <2>2. AdmitReplay(Promoter, e, PendingBytes) => observationRow'[e] # Absent
    BY <1>t DEF AdmitReplay, Enters, factTables, FactInv, CachesFollow
  <2> QED BY <1>4, <1>t, <1>f, <2>1, <2>2 DEF AcceptPending, overlayTurn
<1>5. CASE Admission
  <2> DEFINE e == call[Promoter].ev
  <2>1. FactNext
    BY <1>5 DEF Admission, FactNext
  <2>2. FactInv'
    BY <1>t, <2>1, NextFact
  <2>3. Leaves(e) /\ e \in Evidences => observationRow'[e] # Absent
    BY <2>2 DEF Leaves, FactInv, CachesFollow
  <2>4. /\ overlay' = IF caller = "accept" /\ Leaves(e)
                      THEN [overlay EXCEPT ![e] = Absent] ELSE overlay
        /\ UNCHANGED <<openTurn, deferred, discarded>>
    BY <1>5 DEF Admission, overlayTurn
  <2> HIDE DEF e
  <2> QED BY <1>t, <1>f, <2>1, <2>3, <2>4
<1>6. CASE AdmissionRaises
  <2>1. FactNext
    BY <1>6 DEF AdmissionRaises, FactNext
  <2> QED BY <1>6, <1>t, <1>f, <2>1 DEF AdmissionRaises, overlayTurn
<1>7. ASSUME NEW e \in Evidences, RejectPending(e) PROVE OverlayInv'
  BY <1>7, <1>t, <1>f DEF RejectPending, FactQuiet, overlayTurn
<1>8. CASE AgentFails
  BY <1>8, <1>t, <1>f DEF AgentFails, FactQuiet
<1>9. ASSUME NEW how \in {"commit", "abort"}, EndTurn(how) PROVE OverlayInv'
  BY <1>9, <1>t, <1>f DEF EndTurn, FactQuiet, Of
<1>10. CASE OverlayRestart
  <2>1. FactNext
    BY <1>10 DEF OverlayRestart, FactNext
  <2> QED BY <1>10, <1>t, <1>f, <2>1 DEF OverlayRestart, Empties
<1>11. CASE UNCHANGED overlayVars
  BY <1>11, <1>t, <1>f DEF overlayVars, overlayTurn
<1> QED
  BY <1>1, <1>2, <1>3, <1>4, <1>5, <1>6, <1>7, <1>8, <1>9, <1>10, <1>11 DEF OverlayNext

\* What a turn deferred stays in the overlay until it is turned down or stored,
\* whatever admission it meets, for any number of turns and items.
THEOREM DeferredStays == OverlaySpec => []DeferredIsKept
<1>1. OverlayInv => DeferredIsKept
  BY DEF OverlayInv
<1> QED BY <1>1, InitOverlay, NextOverlay, PTL DEF OverlaySpec

-----------------------------------------------------------------------------
(* Acquisition of the chat source.                                         *)

\* Positions are totally ordered, and a message that arrives later is behind
\* every position the source has reached.
LEMMA PositionOrder ==
    /\ Origin \in Positions /\ \A m \in Messages : PosOf(m) \in Positions
    /\ \A p, q, r \in Positions : ~Behind(p, q) /\ Behind(p, r) => Behind(q, r)
    /\ \A p, q, r \in Positions : Behind(p, q) /\ Behind(q, r) => Behind(p, r)
    /\ \A m, n \in Messages : m < n => Behind(PosOf(m), PosOf(n))
    /\ \A m \in Messages : Behind(Origin, PosOf(m))
  BY SyncAssumption DEF SyncAssumption, Positions, Origin, PosOf, Behind, Messages

\* A page and what lies behind it: a recordable message up to the end of the
\* page is up to its start, or on the page.
LEMMA PageCovers ==
    ASSUME NEW S \in SUBSET Messages, NEW page \in SUBSET S, PageOf(page, S),
           NEW from \in Positions, NEW till \in Positions, EndOf(till, page, from),
           NEW m \in S, m \notin page
    PROVE  Behind(till, PosOf(m)) \/ till = from
<1>1. CASE page = {}
  BY <1>1 DEF EndOf
<1>2. CASE page # {}
  <2>1. PICK n \in page : till = PosOf(n)
    BY <1>2 DEF EndOf
  <2> QED BY <2>1 DEF PageOf
<1> QED BY <1>1, <1>2

\* Nothing is skipped and nothing held when the store is installed.
LEMMA InitSync == SyncInit => SyncInv
  BY SyncAssumption, PositionOrder
  DEF SyncAssumption, SyncInit, SyncInv, SyncTypeOK, SyncStates, CursorSound, NothingSkipped,
      Recordable, Waiting, AtSync, Messages

\* What a process at work knows of the stores.
LEMMA Kept ==
    ASSUME SyncInv, NEW p \in Syncers
    PROVE  syncer[p] \in SyncStates /\ 1 .. stored \subseteq Messages
  BY SyncAssumption DEF SyncAssumption, SyncInv, SyncTypeOK, SyncStates, Messages

\* Records only grow and positions are lasting, so what one process does leaves
\* what the others know true: it is enough to look at the cursor and at p.
LEMMA OneSync ==
    ASSUME SyncInv, NEW p \in Syncers, NEW s \in SyncStates, stored' = stored,
           syncer' = [syncer EXCEPT ![p] = s],
           cursor' \in Positions, CursorSound(cursor'), CoveredBy(cursor', shadowEvents),
           shadowEvents \subseteq shadowEvents', shadowEvents' \subseteq 1 .. stored,
           s.at = "cursor" => s.keeps,
           s.keeps /\ s.at # "idle" =>
             /\ CursorSound(s.from) /\ CoveredBy(s.from, shadowEvents')
             /\ s.at = "insert" => CursorSound(s.till) /\ CoveredBy(s.till, shadowEvents' \cup s.held)
             /\ s.at = "cursor" => CursorSound(s.till) /\ CoveredBy(s.till, shadowEvents')
    PROVE  SyncInv'
<1> USE DEF SyncStates
<1>1. SyncTypeOK'
  BY DEF SyncInv, SyncTypeOK
<1>2. CursorSound(cursor)' /\ NothingSkipped'
  BY DEF CursorSound, NothingSkipped, CoveredBy, Recordable
<1>3. ASSUME NEW q \in Syncers, syncer'[q].keeps, syncer'[q].at # "idle"
      PROVE  /\ CursorSound(syncer[q].from)' /\ CoveredBy(syncer[q].from, shadowEvents)'
             /\ AtSync(q, "insert")' =>
                  /\ CursorSound(syncer[q].till)'
                  /\ CoveredBy(syncer[q].till, shadowEvents \cup syncer[q].held)'
             /\ AtSync(q, "cursor")' => /\ CursorSound(syncer[q].till)'
                                        /\ CoveredBy(syncer[q].till, shadowEvents)'
  <2>1. CASE q = p
    <3>1. syncer'[q] = s
      BY <2>1 DEF SyncInv, SyncTypeOK
    <3> QED BY <1>3, <3>1 DEF CursorSound, CoveredBy, Recordable, AtSync
  <2>2. CASE q # p
    <3>1. syncer'[q] = syncer[q]
      BY <2>2 DEF SyncInv, SyncTypeOK
    <3> QED BY <1>3, <3>1 DEF SyncInv, CursorSound, CoveredBy, Recordable, AtSync
  <2> QED BY <2>1, <2>2
<1>4. \A q \in Syncers : AtSync(q, "cursor")' => syncer'[q].keeps
  BY DEF SyncInv, SyncTypeOK, AtSync
<1> QED BY <1>1, <1>2, <1>3, <1>4 DEF SyncInv, AtSync

\* A message that arrives is behind every position the source has reached.
LEMMA ArriveKeeps == ASSUME SyncInv, Arrive PROVE SyncInv'
<1> USE SyncAssumption DEF SyncAssumption, SyncStates
<1>1. /\ stored' = stored + 1 /\ stored' \in Messages /\ stored \in Nat
      /\ \A m \in 1 .. stored' : m = stored' \/ m \in 1 .. stored
      /\ 1 .. stored \subseteq 1 .. stored' /\ 1 .. stored' \subseteq Messages
  BY DEF Arrive, SyncInv, SyncTypeOK, Messages
<1>2. ASSUME NEW pos, CursorSound(pos) PROVE CursorSound(pos)' /\ Behind(pos, PosOf(stored'))
  <2>1. \A m \in 1 .. stored : m < stored' /\ m \in Messages
    BY <1>1 DEF Messages
  <2> QED BY <1>1, <1>2, <2>1, PositionOrder DEF CursorSound
<1>3. ASSUME NEW pos, NEW S, CursorSound(pos), CoveredBy(pos, S)
      PROVE  \A m \in Recordable(1 .. stored)' : m \in S \/ Behind(pos, PosOf(m))
  BY <1>1, <1>2, <1>3 DEF CoveredBy, Recordable
<1>4. SyncTypeOK'
  BY <1>1 DEF Arrive, SyncInv, SyncTypeOK, Messages
<1>5. CursorSound(cursor)' /\ NothingSkipped'
  BY <1>2, <1>3 DEF Arrive, SyncInv, NothingSkipped, CoveredBy
<1>6. ASSUME NEW q \in Syncers, syncer'[q].keeps, ~AtSync(q, "idle")'
      PROVE  /\ CursorSound(syncer[q].from)' /\ CoveredBy(syncer[q].from, shadowEvents)'
             /\ AtSync(q, "insert")' =>
                  /\ CursorSound(syncer[q].till)'
                  /\ CoveredBy(syncer[q].till, shadowEvents \cup syncer[q].held)'
             /\ AtSync(q, "cursor")' => /\ CursorSound(syncer[q].till)'
                                        /\ CoveredBy(syncer[q].till, shadowEvents)'
  <2>1. syncer' = syncer /\ shadowEvents' = shadowEvents /\ syncer[q].keeps /\ ~AtSync(q, "idle")
    BY <1>6 DEF Arrive, AtSync
  <2>2. CursorSound(syncer[q].from) /\ CoveredBy(syncer[q].from, shadowEvents)
    BY <2>1 DEF SyncInv
  <2>3. AtSync(q, "insert") => /\ CursorSound(syncer[q].till)
                               /\ CoveredBy(syncer[q].till, shadowEvents \cup syncer[q].held)
    BY <2>1 DEF SyncInv
  <2>4. AtSync(q, "cursor") => CursorSound(syncer[q].till) /\ CoveredBy(syncer[q].till, shadowEvents)
    BY <2>1 DEF SyncInv
  <2>5. CursorSound(syncer[q].from)' /\ CoveredBy(syncer[q].from, shadowEvents)'
    BY <1>2, <1>3, <2>1, <2>2 DEF CoveredBy, CursorSound
  <2> QED BY <1>2, <1>3, <2>1, <2>3, <2>4, <2>5 DEF CoveredBy, CursorSound, AtSync
<1>7. \A q \in Syncers : AtSync(q, "cursor")' => syncer'[q].keeps
  BY DEF Arrive, SyncInv, AtSync
<1> QED BY <1>4, <1>5, <1>6, <1>7 DEF SyncInv

\* A page carries over what its start had covered to its end.
LEMMA FetchKeeps == ASSUME SyncInv, NEW p \in Syncers, Fetch(p) PROVE SyncInv'
<1> USE DEF SyncStates
<1> DEFINE from == syncer[p].from
           S    == Dialogue(from)
<1>1. PICK page \in SUBSET S, till \in {from} \cup {PosOf(m) : m \in 1 .. stored} :
        /\ PageOf(page, S) /\ EndOf(till, page, from)
        /\ syncer' = [syncer EXCEPT ![p].at = "insert", ![p].till = till,
                                    ![p].held = Recordable(page)]
  BY DEF Fetch
<1> DEFINE s == [syncer[p] EXCEPT !.at = "insert", !.till = till, !.held = Recordable(page)]
<1>2. /\ S \subseteq 1 .. stored /\ 1 .. stored \subseteq Messages
      /\ from \in Positions /\ till \in Positions
  BY Kept, PositionOrder DEF Dialogue
<1>3. /\ syncer' = [syncer EXCEPT ![p] = s] /\ s.at = "insert" /\ s.keeps = syncer[p].keeps
      /\ s.from = from /\ s.till = till /\ s.held = Recordable(page)
      /\ s \in SyncStates
  BY Kept, <1>1, <1>2 DEF Recordable, SyncInv, SyncTypeOK
<1>4. ASSUME s.keeps
      PROVE  /\ CursorSound(from) /\ CoveredBy(from, shadowEvents) /\ CursorSound(till)
             /\ CoveredBy(till, shadowEvents \cup Recordable(page))
  <2>1. CursorSound(from) /\ CoveredBy(from, shadowEvents)
    BY <1>3, <1>4 DEF SyncInv, Fetch, AtSync
  <2>2. CursorSound(till)
    BY <2>1, <1>1 DEF CursorSound
  <2>3. ASSUME NEW m \in Recordable(1 .. stored), m \notin shadowEvents, m \notin Recordable(page)
        PROVE  Behind(till, PosOf(m))
    <3>1. m \in 1 .. stored /\ Class[m] = "plain" /\ Behind(from, PosOf(m))
      BY <2>1, <2>3 DEF CoveredBy, Recordable
    <3>2. m \in S /\ m \notin page
      BY <2>3, <3>1 DEF Dialogue, Recordable
    <3> HIDE DEF S, from
    <3> QED BY <1>1, <1>2, <3>1, <3>2, PageCovers
  <2> QED BY <2>1, <2>2, <2>3 DEF CoveredBy
<1>5. /\ UNCHANGED <<stored, cursor, shadowEvents>> /\ cursor \in Positions
      /\ CursorSound(cursor) /\ CoveredBy(cursor, shadowEvents) /\ shadowEvents \subseteq 1 .. stored
  BY DEF Fetch, SyncInv, SyncTypeOK, NothingSkipped, CoveredBy
<1> HIDE DEF s, S, from
<1> QED BY <1>3, <1>4, <1>5, OneSync

\* Every step keeps the invariant.
LEMMA NextSync == SyncInv /\ [SyncNext]_syncVars => SyncInv'
<1> SUFFICES ASSUME SyncInv, [SyncNext]_syncVars PROVE SyncInv'
  OBVIOUS
<1> USE DEF SyncStates
<1>c. /\ cursor \in Positions /\ CursorSound(cursor) /\ CoveredBy(cursor, shadowEvents)
      /\ shadowEvents \subseteq 1 .. stored
  BY DEF SyncInv, SyncTypeOK, NothingSkipped, CoveredBy
<1>w. Waiting.at = "idle" /\ Waiting \in SyncStates
  BY PositionOrder DEF Waiting
<1>1. CASE Arrive
  BY <1>1, ArriveKeeps
<1>2. ASSUME NEW p \in Syncers, StartSync(p) PROVE SyncInv'
  <2> DEFINE s == [Waiting EXCEPT !.at = "fetch", !.keeps = TRUE, !.from = cursor]
  <2>1. /\ s \in SyncStates
        /\ s.at = "fetch" /\ s.from = cursor
    BY <1>c, <1>w DEF Waiting
  <2>2. syncer' = [syncer EXCEPT ![p] = s] /\ UNCHANGED <<stored, cursor, shadowEvents>>
    BY <1>2 DEF StartSync
  <2> HIDE DEF s
  <2> QED BY <1>c, <2>1, <2>2, OneSync
<1>3. ASSUME NEW p \in Syncers, NEW ts \in {0} \cup {Sent[m] : m \in Messages},
             StartBackfill(p, ts)
      PROVE  SyncInv'
  <2> DEFINE s == [Waiting EXCEPT !.at = "fetch", !.from.ts = ts]
  <2>1. /\ s \in SyncStates
        /\ s.at = "fetch" /\ ~s.keeps
    BY <1>w, SyncAssumption DEF SyncAssumption, Waiting, Origin, Positions
  <2>2. syncer' = [syncer EXCEPT ![p] = s] /\ UNCHANGED <<stored, cursor, shadowEvents>>
    BY <1>3 DEF StartBackfill
  <2> HIDE DEF s
  <2> QED BY <1>c, <2>1, <2>2, OneSync
<1>4. ASSUME NEW p \in Syncers, Fetch(p) PROVE SyncInv'
  BY <1>4, FetchKeeps
<1>5. ASSUME NEW p \in Syncers, Insert(p) PROVE SyncInv'
  <2> DEFINE s == IF syncer[p].keeps THEN [syncer[p] EXCEPT !.at = "cursor"] ELSE Waiting
  <2>1. /\ s \in SyncStates
        /\ syncer[p].keeps => /\ s.at = "cursor" /\ s.keeps /\ s.from = syncer[p].from
                              /\ s.till = syncer[p].till
        /\ ~syncer[p].keeps => s.at = "idle"
    BY <1>w, Kept
  <2>2. /\ syncer' = [syncer EXCEPT ![p] = s] /\ UNCHANGED <<stored, cursor>>
        /\ shadowEvents' = shadowEvents \cup syncer[p].held
    BY <1>5 DEF Insert, SyncTo
  <2>3. shadowEvents' \subseteq 1 .. stored
    BY <1>c, <2>2, Kept
  <2>4. syncer[p].keeps => /\ CursorSound(syncer[p].from) /\ CoveredBy(syncer[p].from, shadowEvents')
                           /\ CursorSound(syncer[p].till) /\ CoveredBy(syncer[p].till, shadowEvents')
    BY <1>5, <2>2 DEF Insert, SyncInv, AtSync, CoveredBy
  <2> HIDE DEF s
  <2> QED BY <1>c, <2>1, <2>2, <2>3, <2>4, OneSync
<1>6. ASSUME NEW p \in Syncers, WriteCursor(p) PROVE SyncInv'
  <2> DEFINE s == [syncer[p] EXCEPT !.at = "corpus"]
  <2>1. /\ s \in SyncStates
        /\ s.at = "corpus" /\ s.from = syncer[p].from
        /\ s.keeps = syncer[p].keeps /\ syncer[p].till \in Positions
    BY Kept
  <2>2. /\ syncer' = [syncer EXCEPT ![p] = s] /\ UNCHANGED <<stored, shadowEvents>>
        /\ cursor' \in {cursor, syncer[p].till} /\ AtSync(p, "cursor")
    BY <1>6 DEF WriteCursor, SyncTo
  <2>3. syncer[p].keeps => /\ CursorSound(syncer[p].from) /\ CoveredBy(syncer[p].from, shadowEvents)
                           /\ CursorSound(syncer[p].till) /\ CoveredBy(syncer[p].till, shadowEvents)
    BY <2>2 DEF SyncInv, AtSync
  <2>4. syncer[p].keeps
    BY <2>2 DEF SyncInv
  <2> HIDE DEF s
  <2> QED BY <1>c, <2>1, <2>2, <2>3, <2>4, OneSync
<1>7. ASSUME NEW p \in Syncers, ReadCorpus(p) PROVE SyncInv'
  <2> DEFINE s == [Waiting EXCEPT !.at = "label", !.held = shadowEvents]
  <2>1. /\ s \in SyncStates
        /\ s.at = "label" /\ ~s.keeps
    BY <1>c, <1>w DEF Waiting
  <2>2. syncer' = [syncer EXCEPT ![p] = s] /\ UNCHANGED <<stored, cursor, shadowEvents>>
    BY <1>7 DEF ReadCorpus
  <2> HIDE DEF s
  <2> QED BY <1>c, <2>1, <2>2, OneSync
<1>8. ASSUME NEW p \in Syncers, Label(p) \/ SyncDies(p) PROVE SyncInv'
  <2>1. syncer' = [syncer EXCEPT ![p] = Waiting] /\ UNCHANGED <<stored, cursor, shadowEvents>>
    BY <1>8 DEF Label, SyncDies
  <2> QED BY <1>c, <1>w, <2>1, OneSync
<1>9. CASE UNCHANGED syncVars
  BY <1>9 DEF syncVars, SyncInv, SyncTypeOK, CursorSound, NothingSkipped, CoveredBy, Recordable, AtSync
<1> QED
  BY <1>1, <1>2, <1>3, <1>4, <1>5, <1>6, <1>7, <1>8, <1>9 DEF SyncNext

\* Whatever syncs overlap, die or are repeated, for any number of messages and
\* any page limit: no recordable message is left behind the cursor.
THEOREM NoMessageSkipped == SyncSpec => []NothingSkipped
<1>1. SyncInv => NothingSkipped
  BY DEF SyncInv
<1> QED BY <1>1, InitSync, NextSync, PTL DEF SyncSpec
==============================================================================
