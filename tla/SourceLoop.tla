------------------------------ MODULE SourceLoop ------------------------------
(***************************************************************************)
(* The production source loop: each pass is a process that drives the rows *)
(* of the chat source, oldest first, through one turn each: admission of   *)
(* the row's evidence and of its typed reality (FactAdmission), the write  *)
(* of the typed fact to the canonical state, the cognitive turn and its    *)
(* commit marker. A pass may die anywhere and a later one resumes.         *)
(***************************************************************************)
EXTENDS FactAdmission

CONSTANTS Loop,       \* the fact service of the pass
          AgentRows,  \* rows the assistant wrote
          TypedRows   \* rows whose text states a typed fact

Rows == Evidences     \* one evidence and one interaction per row, in their order

ASSUME SourceAssumption ==
    /\ Cardinality(Rows) \in Nat \ {0} /\ Rows = 1 .. Cardinality(Rows)
    /\ Rows \subseteq Interactions
    /\ AgentRows \subseteq Rows /\ TypedRows \subseteq Rows
    /\ Loop \in Services

VARIABLES
    loop,        \* where the pass is, and what its turn has to feel
    leaseHeld,   \* the admission lease of the pass's stack
    blockedRows, \* blocked_records
    rowMarker,   \* commit_markers
    applied,     \* rows whose typed fact was reconciled with the canonical state
    felt,        \* committed turns that felt a row's observation
    interrupted  \* rows a pass left between admission and commit

loopVars   == <<loop, leaseHeld, blockedRows, rowMarker, applied, felt, interrupted>>
sourceVars == <<factVars, loopVars>>

Resting == [at |-> "off", row |-> 0, base |-> FALSE, typed |-> FALSE]
Stage(st) == loop.at = st
To(st)    == loop' = [loop EXCEPT !.at = st]
NextRow   == loop' = IF loop.row = Cardinality(Rows) THEN Resting
                     ELSE [Resting EXCEPT !.at = "scan", !.row = loop.row + 1]

SourceQuiet == UNCHANGED <<blockedRows, rowMarker, applied, felt>>

\* A pass is a new process: caches are seeded from the tables, its lease is new.
StartPass ==
    /\ Stage("off")
    /\ loop' = [Resting EXCEPT !.at = "scan", !.row = 1] /\ leaseHeld' = FALSE
    /\ known' = [known EXCEPT ![Loop] = [e \in Evidences |-> BytesOf(evidenceRow[e])]]
    /\ seen'  = [seen EXCEPT ![Loop] = observationRow]
    /\ Forgives(Loop)
    /\ UNCHANGED <<factTables, call, factFaults, consumed, retained, interrupted>> /\ SourceQuiet

\* PROCESSED is read from the admission and the commit marker.
Processed(r) == seen[Loop][r] # Absent /\ r \in rowMarker

Skip ==
    /\ Stage("scan")
    /\ Processed(loop.row) \/ loop.row \in blockedRows
    /\ NextRow
    /\ UNCHANGED <<factVars, leaseHeld, interrupted>> /\ SourceQuiet

\* A row of the assistant is refused before a turn is built, and not tried again.
BlockRow ==
    /\ Stage("scan") /\ loop.row \in AgentRows \ blockedRows
    /\ blockedRows' = blockedRows \cup {loop.row}
    /\ NextRow
    /\ UNCHANGED <<factVars, leaseHeld, rowMarker, applied, felt, interrupted>>

\* begin_turn waits for the lease.
BeginRow ==
    /\ \/ /\ Stage("scan") /\ To("begin")
          /\ ~Processed(loop.row) /\ loop.row \notin AgentRows
          /\ UNCHANGED leaseHeld
       \/ /\ Stage("begin") /\ ~leaseHeld /\ leaseHeld' = TRUE /\ To("ingest")
    /\ UNCHANGED <<factVars, interrupted>> /\ SourceQuiet

\* ingest is outside the try block of process: the exception leaves the turn
\* open and its lease held; process_pending goes on with the next row.
IngestRaises == NextRow /\ UNCHANGED leaseHeld

\* Evidence is stamped with the time of this attempt, so a second attempt at a
\* row has other bytes unless the clock stood still.
Ingest(b) ==
    LET r == loop.row IN
    /\ Stage("ingest")
    /\ \/ AdmitWrite(Loop, r, r, b) /\ To("admit") /\ UNCHANGED leaseHeld
       \/ AdmitReplay(Loop, r, b) /\ To("reality") /\ UNCHANGED leaseHeld
       \/ AdmitConflict(Loop, r, b) /\ IngestRaises
    /\ UNCHANGED interrupted /\ SourceQuiet

Admitted ==
    /\ Stage("admit") /\ FactStep(Loop)
    /\ IF call'[Loop].at # "idle" THEN UNCHANGED <<loop, leaseHeld>>
       ELSE IF seen'[Loop][loop.row] = Absent THEN IngestRaises
       ELSE /\ loop' = [loop EXCEPT !.at = "reality", !.base = consumed' # consumed]
            /\ UNCHANGED leaseHeld
    /\ UNCHANGED interrupted /\ SourceQuiet

IngestFault ==
    /\ loop.at \in {"admit", "typing"} /\ WriteRaises(Loop)
    /\ IngestRaises
    /\ interrupted' = IF Stage("typing") THEN interrupted \cup {loop.row} ELSE interrupted
    /\ SourceQuiet

\* Seeded fault: a replay never restores a typed fact.
Restores_Nothing(r) == loop.base /\ r \in TypedRows

\* Typed reality is turn input when it is new, and on a replay only while the
\* canonical state was not brought up to it: a crash may have come in between.
Restores(r) == r \in TypedRows /\ r \notin applied

\* The bytes asked with are those just admitted: a pass starts with the caches of
\* the tables, so there are no others its service would have answered.
ExtractReality ==
    LET r == loop.row IN
    /\ \/ /\ Stage("reality") /\ r \in TypedRows
          /\ \E b \in Bytes : RealityStart(Loop, r, r, b)
          /\ To("typing")
       \/ /\ Stage("typing") /\ RealitySave(Loop) /\ UNCHANGED loop
       \/ /\ IF r \in TypedRows THEN Stage("typing") /\ Calls(Loop, "idle") ELSE Stage("reality")
          /\ loop' = [loop EXCEPT !.at = "run", !.typed = Restores(r)]
          /\ UNCHANGED factVars
    /\ UNCHANGED <<leaseHeld, interrupted>> /\ SourceQuiet

\* run: typed facts are written to the canonical state at once (_ingest_commit).
ReconcileFacts ==
    /\ Stage("run") /\ To("commit")
    /\ applied' = IF loop.typed THEN applied \cup {loop.row} ELSE applied
    /\ UNCHANGED <<factVars, leaseHeld, blockedRows, rowMarker, felt, interrupted>>

\* The turn feels NEW and REPAIRED observations; a replay adds none.
Feels(r) == loop.base

\* Seeded fault: the marker is a transaction of its own, before the state.
CommitRow_TwoWrites ==
    LET r == loop.row IN
    \/ /\ Stage("commit") /\ To("publish") /\ rowMarker' = rowMarker \cup {r}
       /\ UNCHANGED <<factVars, leaseHeld, blockedRows, applied, felt, interrupted>>
    \/ /\ Stage("publish") /\ NextRow /\ leaseHeld' = FALSE
       /\ felt' = [felt EXCEPT ![r] = IF Feels(r) THEN @ + 1 ELSE @]
       /\ UNCHANGED <<factVars, blockedRows, rowMarker, applied, interrupted>>

\* Marker and states are one transaction.
CommitRow ==
    LET r == loop.row IN
    /\ Stage("commit") /\ NextRow /\ leaseHeld' = FALSE
    /\ rowMarker' = rowMarker \cup {r}
    /\ felt' = [felt EXCEPT ![r] = IF Feels(r) THEN @ + 1 ELSE @]
    /\ UNCHANGED <<factVars, blockedRows, applied, interrupted>>

\* An exception of run or commit aborts the turn, which frees the lease.
TurnAborts ==
    /\ loop.at \in {"run", "commit"} /\ FactBreaks
    /\ NextRow /\ leaseHeld' = FALSE
    /\ interrupted' = interrupted \cup {loop.row}
    /\ UNCHANGED <<factTables, known, seen, call, consumed, retained, failedIn, lostIn,
                   refusedIn, typedRefusedIn>>
    /\ SourceQuiet

PassDiesAnywhere ==
    /\ ~Stage("off") /\ FactRestart(Loop)
    /\ loop' = Resting /\ leaseHeld' = FALSE
    /\ interrupted' = IF observationRow[loop.row] # Absent /\ loop.row \notin rowMarker
                      THEN interrupted \cup {loop.row} ELSE interrupted
    /\ SourceQuiet

LoopInit ==
    /\ loop = Resting /\ leaseHeld = FALSE
    /\ blockedRows = {} /\ rowMarker = {} /\ applied = {}
    /\ felt = [r \in Rows |-> 0] /\ interrupted = {}

SourceInit == FactInit /\ LoopInit

SourceNext ==
    \/ StartPass \/ Skip \/ BlockRow \/ BeginRow
    \/ \E b \in Bytes : Ingest(b)
    \/ Admitted \/ IngestFault \/ ExtractReality
    \/ ReconcileFacts \/ CommitRow \/ TurnAborts \/ PassDiesAnywhere

SourceSpec == SourceInit /\ [][SourceNext]_sourceVars
==============================================================================
