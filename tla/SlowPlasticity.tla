---------------------------- MODULE SlowPlasticity ----------------------------
(***************************************************************************)
(* LongitudinalStateWriter for one longitudinal dimension: a turn stages   *)
(* the contributions it accepted, and its commit puts them in the durable  *)
(* ledger, trims the ledger to the window and inserts a version of the     *)
(* canonical state, the mean of the window, with the commit marker.        *)
(* Several orchestrators of a namespace take turns under one lease; each   *)
(* reloads canonical state and window when its turn begins.                *)
(***************************************************************************)
EXTENDS Naturals, Sequences, FiniteSets

CONSTANTS Writers,         \* orchestrators of the namespace
          Nobody,          \* the lease is free
          WindowSize,      \* configuration-owned
          MaxAccepted,     \* bound: contributions ever accepted
          MaxSlowFaults    \* bound: failed writes and crashes

ASSUME SlowAssumption ==
    /\ Nobody \notin Writers
    /\ WindowSize \in Nat \ {0} /\ MaxAccepted \in Nat /\ MaxSlowFaults \in Nat

VARIABLES
    (* durable *)
    slowWindow,    \* slow_contribution_window: contributions, by accepted_at
    slowStates,    \* rows of the dimension as inserted: version, what it averages
    (* the orchestrators *)
    slowVersion,   \* last_state_version of a writer's window snapshot
    pendingSlow,   \* contributions a writer accepted and did not flush
    canonicalSlow, \* the row in an orchestrator's _canonical, 0 for none
    slowTurn,      \* who holds the lease, and where its turn is
    acceptedAt,    \* the clock of accepted_at
    slowFaults,
    (* observation *)
    contributed    \* contributions of committed turns

slowTables == <<slowWindow, slowStates>>
slowMemory == <<slowVersion, pendingSlow, canonicalSlow>>
slowVars   == <<slowTables, slowMemory, slowTurn, acceptedAt, slowFaults, contributed>>

Contributions == 1 .. MaxAccepted

Later(c, S) == {d \in S : d > c}

\* The latest WindowSize of them; their mean by salience is a function of the set.
Keep(S) == {c \in S : Cardinality(Later(c, S)) < WindowSize}

NoPlan     == [version |-> 0, of |-> {}]
Open(w, l) == slowTurn.by = w /\ slowTurn.at = l
NoTurn     == [by |-> Nobody, at |-> "none", plan |-> NoPlan]
TurnIs(l)  == slowTurn' = [slowTurn EXCEPT !.at = l]

\* _current_states: a later row replaces the current one only if its version is
\* higher; rows come back by version.
Highest == {k \in DOMAIN slowStates :
              /\ \A j \in DOMAIN slowStates : slowStates[j].version <= slowStates[k].version
              /\ \A j \in 1 .. k - 1 : slowStates[j].version < slowStates[k].version}
CurrentRow == IF slowStates = <<>> THEN 0 ELSE CHOOSE k \in Highest : TRUE

\* _refresh_canonical_from_backend; load rebuilds the snapshot from the ledger,
\* whose length stands for the version of the last state.
Reloads(w) ==
    /\ canonicalSlow' = [canonicalSlow EXCEPT ![w] = CurrentRow]
    /\ slowVersion' = [slowVersion EXCEPT ![w] = Cardinality(slowWindow)]
    /\ pendingSlow' = [pendingSlow EXCEPT ![w] = {}]

BeginSlow(w) ==
    /\ slowTurn.by = Nobody
    /\ Reloads(w)
    /\ slowTurn' = [by |-> w, at |-> "run", plan |-> NoPlan]
    /\ UNCHANGED <<slowTables, acceptedAt, slowFaults, contributed>>

\* accept of the routed decisions with a salience, and prepare_flush.
StageSlow(w, n) ==
    LET pending == pendingSlow[w] \cup (acceptedAt + 1 .. acceptedAt + n)
        kept    == Keep(slowWindow \cup pending) IN
    /\ Open(w, "run") /\ acceptedAt + n \in {0} \cup Contributions
    /\ acceptedAt' = acceptedAt + n
    /\ pendingSlow' = [pendingSlow EXCEPT ![w] = pending]
    /\ slowTurn' = [slowTurn EXCEPT !.at = "staged",
                      !.plan = IF pending = {} THEN NoPlan
                               ELSE [version |-> slowVersion[w] + 1, of |-> kept]]
    /\ UNCHANGED <<slowTables, slowVersion, canonicalSlow, slowFaults, contributed>>

\* Seeded fault: the ledger is trimmed before the new rows are inserted.
CommitSlow_TrimsFirst(w) ==
    /\ Open(w, "staged") /\ TurnIs("committed")
    /\ IF slowTurn.plan = NoPlan THEN UNCHANGED slowTables
       ELSE /\ slowWindow' = Keep(slowWindow) \cup pendingSlow[w]
            /\ slowStates' = Append(slowStates, slowTurn.plan)
    /\ contributed' = contributed \cup pendingSlow[w]
    /\ UNCHANGED <<slowMemory, acceptedAt, slowFaults>>
\* One transaction: new ledger rows, the trim, the state row, the marker.
CommitSlow(w) ==
    /\ Open(w, "staged") /\ TurnIs("committed")
    /\ IF slowTurn.plan = NoPlan THEN UNCHANGED slowTables
       ELSE /\ slowWindow' = Keep(slowWindow \cup pendingSlow[w])
            /\ slowStates' = Append(slowStates, slowTurn.plan)
    /\ contributed' = contributed \cup pendingSlow[w]
    /\ UNCHANGED <<slowMemory, acceptedAt, slowFaults>>

SlowBreaks == slowFaults < MaxSlowFaults /\ slowFaults' = slowFaults + 1

\* The transaction is rolled back and what was pending is discarded.
CommitSlowFails(w) ==
    /\ Open(w, "staged") /\ SlowBreaks
    /\ pendingSlow' = [pendingSlow EXCEPT ![w] = {}]
    /\ slowTurn' = NoTurn
    /\ UNCHANGED <<slowTables, slowVersion, canonicalSlow, acceptedAt, contributed>>

\* apply_flush_plan, and the state into _canonical.
PublishSlow(w) ==
    /\ Open(w, "committed") /\ slowTurn' = NoTurn
    /\ IF slowTurn.plan = NoPlan THEN UNCHANGED slowMemory
       ELSE /\ slowVersion' = [slowVersion EXCEPT ![w] = slowTurn.plan.version]
            /\ pendingSlow' = [pendingSlow EXCEPT ![w] = {}]
            /\ canonicalSlow' = [canonicalSlow EXCEPT ![w] = Len(slowStates)]
    /\ UNCHANGED <<slowTables, acceptedAt, slowFaults, contributed>>

\* Publication fails: the turn is committed; the reload may fail as well.
PublishSlowFails(w) ==
    /\ Open(w, "committed") /\ SlowBreaks /\ slowTurn' = NoTurn
    /\ Reloads(w) \/ UNCHANGED slowMemory
    /\ UNCHANGED <<slowTables, acceptedAt, contributed>>

\* abort_turn, before anything is staged.
AbortSlow(w) ==
    /\ Open(w, "run") /\ slowTurn' = NoTurn
    /\ UNCHANGED <<slowTables, slowMemory, acceptedAt, slowFaults, contributed>>

\* The process dies and starts again with the window and the states as stored.
CrashSlow ==
    /\ SlowBreaks /\ slowTurn' = NoTurn
    /\ canonicalSlow' = [w \in Writers |-> CurrentRow]
    /\ slowVersion' = [w \in Writers |-> Cardinality(slowWindow)]
    /\ pendingSlow' = [w \in Writers |-> {}]
    /\ UNCHANGED <<slowTables, acceptedAt, contributed>>

SlowInit ==
    /\ slowWindow = {} /\ slowStates = <<>>
    /\ slowVersion = [w \in Writers |-> 0] /\ pendingSlow = [w \in Writers |-> {}]
    /\ canonicalSlow = [w \in Writers |-> 0]
    /\ slowTurn = NoTurn /\ acceptedAt = 0 /\ slowFaults = 0 /\ contributed = {}

SlowNext ==
    \/ \E w \in Writers :
         \/ BeginSlow(w) \/ CommitSlow(w) \/ CommitSlowFails(w)
         \/ PublishSlow(w) \/ PublishSlowFails(w) \/ AbortSlow(w)
         \/ \E n \in 0 .. 2 : StageSlow(w, n)
    \/ CrashSlow

SlowSpec == SlowInit /\ [][SlowNext]_slowVars

-----------------------------------------------------------------------------
\* Restart equivalence (writer.py:22): through failed commits, crashes and turns
\* of several orchestrators the ledger holds the last WindowSize contributions
\* of committed turns, and the last state written averages exactly those.
SlowStateIsWindow ==
    /\ slowWindow = Keep(contributed)
    /\ slowStates # <<>> => slowStates[Len(slowStates)].of = slowWindow

\* "the durable read IS the authoritative canonical base" (orchestrator.py:788):
\* a turn begins on the state the last flush wrote.
SlowCanonicalIsLatest ==
    slowTurn.at = "run" => canonicalSlow[slowTurn.by] = Len(slowStates)
==============================================================================
