-------------------------- MODULE SettledProjection -------------------------
(***************************************************************************)
(* SettledActionProjector.project: a receipt the provider accepted becomes *)
(* an increment (a text) or a reset (a photo) of the cadence counter, by a *)
(* read-modify-write over the append-only observations. Five transactions  *)
(* follow one another: the frozen plan, the evidence, the observation of   *)
(* each fact, the marker, and the plan's completed flag. The process may   *)
(* die, or a write may raise, between any two of them; the caller projects *)
(* receipts in any order and the same one any number of times. All         *)
(* receipts belong to one scope: another scope is another copy of this.    *)
(***************************************************************************)
EXTENDS Integers, FiniteSets, Sequences

CONSTANTS NumReceipts,  \* accepted receipts, numbered in receipt_id order
          Photo,        \* those whose request is a send_photo
          MaxTime       \* bound: delivered_at is in 1 .. MaxTime

Receipts == 1 .. NumReceipts
Times    == 1 .. MaxTime
None     == -1

ASSUME ProjectionAssumption ==
    /\ NumReceipts \in Nat
    /\ Photo \subseteq Receipts
    /\ MaxTime \in Nat

VARIABLES
    deliveredAt,  \* receipt.delivered_at, the provider's timestamp
    (* durable *)
    plan,         \* projection_frozen_plans: the counter value, or None
    completed,    \* ... and the receipts whose plan is completed
    marker,       \* settled_action_projections: derived_counter_value
    evidence,     \* value in the payload of the counter's evidence row
    fact,         \* value of the counter observation
    cooldown,     \* receipts with a last_proactive_at observation
    (* the process *)
    position,     \* where the observation is in ObservationStore, 0 if absent
    pc, cur,      \* the transaction project() is about to make, for cur
    (* observations *)
    planned,      \* receipts in the order their plans were frozen
    overlapped    \* a plan was frozen while an older one had no fact yet

durable == <<plan, completed, marker, evidence, fact, cooldown>>
history == <<planned, overlapped>>
vars    == <<deliveredAt, durable, position, pc, cur, history>>

Steps == {"idle", "evidence", "cadence", "cooldown", "marker", "complete"}

-----------------------------------------------------------------------------
(* Reading the counter.                                                    *)

Cached == {r \in Receipts : position[r] > 0}

\* The later of two observations: by observed_at, a tie by insertion order.
Before(q, r) == \/ deliveredAt[q] < deliveredAt[r]
                \/ deliveredAt[q] = deliveredAt[r] /\ position[q] <= position[r]

\* Seeded fault: the largest value wins.
Latest_Largest == {r \in Cached : \A q \in Cached : fact[q] <= fact[r]}

Latest == {r \in Cached : \A q \in Cached : Before(q, r)}

\* _latest_observation_value, through _parse_int_or_zero.
LatestValue == IF Latest = {} THEN 0 ELSE fact[CHOOSE r \in Latest : TRUE]

Derive(r) == IF r \in Photo THEN 0 ELSE LatestValue + 1

-----------------------------------------------------------------------------
Init ==
    /\ deliveredAt \in [Receipts -> Times]
    /\ plan      = [r \in Receipts |-> None]
    /\ completed = {}
    /\ marker    = [r \in Receipts |-> None]
    /\ evidence  = [r \in Receipts |-> None]
    /\ fact      = [r \in Receipts |-> None]
    /\ cooldown  = {}
    /\ position  = [r \in Receipts |-> 0]
    /\ pc = "idle" /\ cur = 0
    /\ planned = <<>>
    /\ overlapped = FALSE

\* The fast path returns on a marker and changes nothing.
Unprojected(r) == pc = "idle" /\ marker[r] = None

\* No plan: derive from the observations as they are now, and freeze.
Freeze(r) ==
    /\ Unprojected(r) /\ plan[r] = None
    /\ plan' = [plan EXCEPT ![r] = Derive(r)]
    /\ pc' = "evidence" /\ cur' = r
    /\ planned' = Append(planned, r)
    /\ overlapped' = (overlapped \/ \E q \in Receipts : plan[q] # None /\ fact[q] = None)
    /\ UNCHANGED <<deliveredAt, completed, marker, evidence, fact, cooldown, position>>

\* Seeded fault: a replay derives again.
Replay_Rederive(r) ==
    /\ Unprojected(r) /\ plan[r] # None /\ r \notin completed
    /\ plan' = [plan EXCEPT ![r] = Derive(r)]
    /\ pc' = "evidence" /\ cur' = r
    /\ UNCHANGED <<deliveredAt, completed, marker, evidence, fact, cooldown, position, history>>

\* An incomplete plan without a marker: replay it, deriving nothing.
Replay(r) ==
    /\ Unprojected(r) /\ plan[r] # None /\ r \notin completed
    /\ pc' = "evidence" /\ cur' = r
    /\ UNCHANGED <<deliveredAt, durable, position, history>>

\* Seeded fault: an admitted counter stands for the whole plan.
AlreadyAdmitted_SkipsRest ==
    /\ pc = "evidence" /\ position[cur] > 0
    /\ pc' = "marker"
    /\ UNCHANGED <<deliveredAt, durable, position, cur, history>>

\* admit_operational_fact returns the observation it already holds.
AlreadyAdmitted ==
    /\ pc = "evidence" /\ position[cur] > 0
    /\ pc' = IF cur \in Photo THEN "marker" ELSE "cooldown"
    /\ UNCHANGED <<deliveredAt, durable, position, cur, history>>

\* Seeded fault: the observation is not looked up first.
SaveEvidence_NoLookup ==
    /\ pc = "evidence"
    /\ evidence' = IF evidence[cur] = None
                     THEN [evidence EXCEPT ![cur] = plan[cur]] ELSE evidence
    /\ pc' = "cadence"
    /\ UNCHANGED <<deliveredAt, plan, completed, marker, fact, cooldown, position, cur, history>>

\* save_evidence commits by itself, and keeps the row it finds.
SaveEvidence ==
    /\ pc = "evidence" /\ position[cur] = 0
    /\ evidence' = IF evidence[cur] = None
                     THEN [evidence EXCEPT ![cur] = plan[cur]] ELSE evidence
    /\ pc' = "cadence"
    /\ UNCHANGED <<deliveredAt, plan, completed, marker, fact, cooldown, position, cur, history>>

\* save_observation, and the append to the observations in memory.
AdmitCadence ==
    /\ pc = "cadence"
    /\ fact' = [fact EXCEPT ![cur] = plan[cur]]
    /\ position' = [position EXCEPT ![cur] = Cardinality(Cached) + 1]
    /\ pc' = IF cur \in Photo THEN "marker" ELSE "cooldown"
    /\ UNCHANGED <<deliveredAt, plan, completed, marker, evidence, cooldown, cur, history>>

\* Seeded fault: the plan is completed with its last fact.
AdmitCooldown_Completes ==
    /\ pc = "cooldown"
    /\ cooldown' = cooldown \cup {cur}
    /\ completed' = completed \cup {cur}
    /\ pc' = "marker"
    /\ UNCHANGED <<deliveredAt, plan, marker, evidence, fact, position, cur, history>>

\* The second fact of a text, under the same rules.
AdmitCooldown ==
    /\ pc = "cooldown"
    /\ cooldown' = cooldown \cup {cur}
    /\ pc' = "marker"
    /\ UNCHANGED <<deliveredAt, plan, completed, marker, evidence, fact, position, cur, history>>

Record ==
    /\ pc = "marker"
    /\ marker' = [marker EXCEPT ![cur] = plan[cur]]
    /\ pc' = "complete"
    /\ UNCHANGED <<deliveredAt, plan, completed, evidence, fact, cooldown, position, cur, history>>

MarkPlanCompleted ==
    /\ pc = "complete"
    /\ completed' = completed \cup {cur}
    /\ pc' = "idle" /\ cur' = 0
    /\ UNCHANGED <<deliveredAt, plan, marker, evidence, fact, cooldown, position, history>>

\* A transaction raises: project() gives up, the process goes on.
WriteFails ==
    /\ pc # "idle"
    /\ pc' = "idle" /\ cur' = 0
    /\ UNCHANGED <<deliveredAt, durable, position, history>>

\* Rows come back ordered by observed_at, then id.
Reloaded(r) == {q \in Receipts :
                  /\ fact[q] # None
                  /\ \/ deliveredAt[q] < deliveredAt[r]
                     \/ deliveredAt[q] = deliveredAt[r] /\ q <= r}

Restart ==
    /\ pc' = "idle" /\ cur' = 0
    /\ position' = [r \in Receipts |->
                      IF fact[r] = None THEN 0 ELSE Cardinality(Reloaded(r))]
    /\ UNCHANGED <<deliveredAt, durable, history>>

Project == \/ \E r \in Receipts : Freeze(r) \/ Replay(r)
           \/ AlreadyAdmitted \/ SaveEvidence \/ AdmitCadence \/ AdmitCooldown
           \/ Record \/ MarkPlanCompleted

Next == Project \/ WriteFails \/ Restart

Spec == Init /\ [][Next]_vars
=============================================================================
