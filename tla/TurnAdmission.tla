---------------------------- MODULE TurnAdmission ----------------------------
(***************************************************************************)
(* Turns of several Host stacks (adapter + TurnOrchestrator, each on a     *)
(* thread of its own) over one storage namespace of one process: the       *)
(* admission lease, the intent, handoff and checkpoint writes of a   *)
(* turn, the cognitive commit with its marker, the Host's replay guard,    *)
(* the cognitive tick that writes the same state rows without the lease,   *)
(* storage faults and process crashes. Every transaction is a step.        *)
(***************************************************************************)
EXTENDS Integers, Sequences, FiniteSets

CONSTANTS Interactions,  \* interaction ids a Host submits
          Acting,        \* the ones the intent engine may find a candidate for
          Stacks,        \* Host stacks sharing the namespace
          None,          \* no interaction, no stack
          MaxTime,       \* bound: clock readings
          MaxFailures    \* bound: crashes of the process and storage faults

ASSUME TurnAssumption ==
    /\ Acting \subseteq Interactions
    /\ None \notin Interactions \cup Stacks
    /\ \A i \in Interactions : i \notin Nat     \* an instant is no interaction
    /\ MaxTime \in Nat /\ MaxFailures \in Nat

VARIABLES
    (* durable *)
    rows,        \* the states table of one affect dimension, in insertion order
    markers,     \* commit_markers
    intent,      \* lifecycle status of the turn's intent
    born,        \* its created_at
    handoff,     \* lifecycle state of the turn's delivery request
    checkpoint,  \* stage of the turn's checkpoint
    (* the process *)
    lease,       \* holder of the namespace's admission lease
    thread,      \* a stack's thread and its turn, see Thread
    mem,         \* the stack's canonical record of the dimension
    aborted,     \* interactions the adapter holds a terminal record of abort for
    tick,        \* a cognitive tick between its read and its write
    (* environment and observations *)
    now, failures,
    told,        \* interactions a Host was told are committed
    exposed,     \* turns open while a row was written without the lease
    unleased     \* interactions a turn committed without the lease

tables   == <<rows, markers, intent, born, handoff, checkpoint>>
bounds   == <<now, failures>>
observed == <<told, exposed, unleased>>
vars     == <<tables, lease, thread, mem, aborted, tick, bounds, observed>>

Row(v, by, at, ts) == [version |-> v, by |-> by, at |-> at, turns |-> ts]
Seed == Row(1, None, 0, {})

\* _current_states: the first row among those with the highest version.
Current(rs) == LET top == CHOOSE k \in DOMAIN rs :
                         /\ \A m \in DOMAIN rs : rs[m].version <= rs[k].version
                         /\ \A m \in 1 .. k - 1 : rs[m].version < rs[k].version
            IN  rs[top]

\* The row's state_id: the version and the turn or the tick's instant.
SameId(r, q) == r.version = q.version /\ r.by = q.by

\* save_state: a row whose state_id exists is not written.
Saved(rs, row) == IF \E k \in DOMAIN rs : SameId(rs[k], row) THEN rs ELSE Append(rs, row)

\* _persist_state_idempotent raises when that row is a different one.
Conflicts(rs, row) == \E k \in DOMAIN rs : SameId(rs[k], row) /\ rs[k] # row

\* The next step of a thread ("idle" and "open" wait for the Host), its turn,
\* the turn's projection, whether it has a surface handoff and whether the
\* Guard accepted the prose for it.
Thread(l, i) == [at |-> l, turn |-> i, proj |-> Seed, hand |-> FALSE, guarded |-> FALSE]
Idle == Thread("idle", None)

Init ==
    /\ rows = <<Seed>> /\ markers = {}
    /\ intent = [i \in Interactions |-> "ABSENT"]
    /\ born = [i \in Interactions |-> 0]
    /\ handoff = [i \in Interactions |-> "ABSENT"]
    /\ checkpoint = [i \in Interactions |-> "NONE"]
    /\ lease = None
    /\ thread = [s \in Stacks |-> Idle]
    /\ mem = [s \in Stacks |-> Seed]
    /\ aborted = [s \in Stacks |-> {}]
    /\ tick = None
    /\ now = 0 /\ failures = 0
    /\ told = {} /\ exposed = {} /\ unleased = {}

At(s, l)   == thread[s].at = l
Turn(s)    == thread[s].turn
Goto(s, l) == thread' = [thread EXCEPT ![s].at = l]
Free(s)    == lease' = IF lease = s THEN None ELSE lease
Drop(s)    == checkpoint' = [checkpoint EXCEPT ![Turn(s)] = "NONE"]
Rest(s)    == thread' = [thread EXCEPT ![s] = Idle]
Breaks     == failures < MaxFailures /\ failures' = failures + 1

\* The turns a row written by s can overtake, unless s writes under the lease.
Overtaken(s) == IF s = lease THEN {} ELSE {Turn(q) : q \in Stacks \cap {lease, s}}

-----------------------------------------------------------------------------
(* MindRuntimeHostAdapter.begin_turn.                                      *)

\* The replay guard: an interaction with a record of abort or a commit marker
\* is answered from it. The test precedes the wait for the lease.
Begin(s, i) ==
    /\ At(s, "idle")
    /\ i \notin aborted[s] /\ i \notin markers
    /\ thread' = [thread EXCEPT ![s] = Thread("acquire", i)]
    /\ UNCHANGED <<tables, lease, mem, aborted, tick, bounds, observed>>

\* A committed interaction is answered again from its marker.
Replay(s, i) ==
    /\ At(s, "idle") /\ i \notin aborted[s] /\ i \in markers
    /\ told' = told \cup {i}
    /\ UNCHANGED <<tables, lease, thread, mem, aborted, tick, bounds, exposed,
                   unleased>>

\* Seeded fault: the canonical base is not reloaded under the lease.
Acquire_NoRefresh(s) ==
    /\ At(s, "acquire") /\ lease = None
    /\ lease' = s
    /\ Goto(s, "run")
    /\ UNCHANGED <<tables, mem, aborted, tick, bounds, observed>>

\* TurnOrchestrator.begin_turn: wait for the lease, then reload canonical.
Acquire(s) ==
    /\ At(s, "acquire") /\ lease = None
    /\ lease' = s
    /\ mem' = [mem EXCEPT ![s] = Current(rows)]
    /\ Goto(s, "run")
    /\ UNCHANGED <<tables, aborted, tick, bounds, observed>>

\* The except branch: abort_turn drops the checkpoint and frees the lease; the
\* adapter keeps no terminal record, so the interaction may be begun again.
Fail(s) == Drop(s) /\ Free(s) /\ Rest(s)

Projected(s, l) ==
    thread' = [thread EXCEPT ![s].at = l,
                             ![s].proj = Row(mem[s].version + 1, Turn(s), now,
                                             mem[s].turns \cup {Turn(s)})]

\* run(): the projection and the intent engine. Without a candidate the turn
\* has nothing to hand off.
Run(s) ==
    /\ At(s, "run")
    /\ \/ Projected(s, "open") /\ UNCHANGED <<intent, born>>
       \/ /\ Projected(s, "policy")
          /\ Turn(s) \in Acting /\ intent[Turn(s)] = "ABSENT"
          /\ intent' = [intent EXCEPT ![Turn(s)] = "CANDIDATE"]
          /\ born' = [born EXCEPT ![Turn(s)] = now]
       \/ /\ Projected(s, "policy")
          /\ intent[Turn(s)] # "ABSENT" /\ born[Turn(s)] = now
          /\ UNCHANGED <<intent, born>>
    /\ UNCHANGED <<rows, markers, handoff, checkpoint, lease, mem, aborted, tick, bounds,
                   observed>>

\* append_initial compares the whole intent: the candidate of a later attempt
\* has a later created_at and is refused.
RunRefused(s) ==
    /\ At(s, "run")
    /\ intent[Turn(s)] # "ABSENT" /\ born[Turn(s)] # now
    /\ Fail(s)
    /\ UNCHANGED <<rows, markers, intent, born, handoff, mem, aborted, tick, bounds,
                   observed>>

\* The policy loop. A decision already taken at this instant is replayed.
Policy(s) ==
    /\ At(s, "policy")
    /\ \/ /\ intent[Turn(s)] \in {"CANDIDATE", "ALLOWED"}
          /\ intent' = [intent EXCEPT ![Turn(s)] = "ALLOWED"]
          /\ Goto(s, "handoff")
       \/ /\ intent[Turn(s)] \in {"CANDIDATE", "HELD"}
          /\ intent' = [intent EXCEPT ![Turn(s)] = "HELD"]
          /\ Goto(s, "open")
    /\ UNCHANGED <<rows, markers, born, handoff, checkpoint, lease, mem, aborted, tick,
                   bounds, observed>>

\* Seeded fault: the request's row takes the status of its intent.
Handoff_IntentStatus(s) ==
    /\ At(s, "handoff")
    /\ handoff' = [handoff EXCEPT ![Turn(s)] = IF @ = "ABSENT" THEN intent[Turn(s)] ELSE @]
    /\ thread' = [thread EXCEPT ![s].at = "open", ![s].hand = TRUE]
    /\ UNCHANGED <<rows, markers, intent, born, checkpoint, lease, mem, aborted, tick,
                   bounds, observed>>

\* SURFACE_V1: record_request; the same request is recorded once.
Handoff(s) ==
    /\ At(s, "handoff")
    /\ handoff' = [handoff EXCEPT ![Turn(s)] = IF @ = "ABSENT" THEN "PENDING" ELSE @]
    /\ thread' = [thread EXCEPT ![s].at = "open", ![s].hand = TRUE]
    /\ UNCHANGED <<rows, markers, intent, born, checkpoint, lease, mem, aborted, tick,
                   bounds, observed>>

-----------------------------------------------------------------------------
(* guard_provider_prose, commit_turn and abort_turn.                       *)

\* A handoff that was already acknowledged cannot be guarded again.
GuardProse(s) ==
    /\ At(s, "open") /\ thread[s].hand
    /\ IF handoff[Turn(s)] \in {"PENDING", "IN_FLIGHT"}
         THEN /\ handoff' = [handoff EXCEPT ![Turn(s)] = "IN_FLIGHT"]
              /\ \E verdict \in BOOLEAN : thread' = [thread EXCEPT ![s].guarded = verdict]
         ELSE /\ thread' = [thread EXCEPT ![s].guarded = FALSE]
              /\ UNCHANGED handoff
    /\ UNCHANGED <<rows, markers, intent, born, checkpoint, lease, mem, aborted, tick,
                   bounds, observed>>

\* acknowledge_surface_delivery, before the commit.
Acknowledge(s) ==
    /\ At(s, "open")
    /\ thread[s].hand => thread[s].guarded
    /\ handoff' = [handoff EXCEPT ![Turn(s)] = IF thread[s].hand THEN "ACCEPTED" ELSE @]
    /\ Goto(s, "prepare")
    /\ UNCHANGED <<rows, markers, intent, born, checkpoint, lease, mem, aborted, tick,
                   bounds, observed>>

\* SURFACE_GUARD_NOT_ACCEPTED: the commit fails and the turn is aborted.
CommitUnguarded(s) ==
    /\ At(s, "open") /\ thread[s].hand /\ ~thread[s].guarded
    /\ Fail(s)
    /\ UNCHANGED <<rows, markers, intent, born, handoff, mem, aborted, tick, bounds,
                   observed>>

\* The AWAITING_COMMIT checkpoint.
Prepare(s) ==
    /\ At(s, "prepare")
    /\ checkpoint' = [checkpoint EXCEPT ![Turn(s)] = "AWAITING_COMMIT"]
    /\ Goto(s, "test")
    /\ UNCHANGED <<rows, markers, intent, born, handoff, lease, mem, aborted, tick, bounds,
                   observed>>

\* A storage error before the try block (checkpoint or marker read) is not one
\* the adapter catches: commit_turn has freed the lease, the turn stays open.
PrepareFault(s) ==
    /\ At(s, "prepare") \/ At(s, "test")
    /\ Breaks
    /\ Free(s)
    /\ Goto(s, "open")
    /\ UNCHANGED <<tables, mem, aborted, tick, now, observed>>

\* A marker exists: another attempt committed this interaction. Nothing but the
\* checkpoint is written.
CommitReplay(s) ==
    /\ At(s, "test") /\ Turn(s) \in markers
    /\ Fail(s)
    /\ told' = told \cup {Turn(s)}
    /\ UNCHANGED <<rows, markers, intent, born, handoff, mem, aborted, tick, bounds, exposed,
                   unleased>>

\* Seeded fault: the marker is not looked for.
NoMarker_Untested(s) ==
    /\ At(s, "test")
    /\ Goto(s, "commit")
    /\ UNCHANGED <<tables, lease, mem, aborted, tick, bounds, observed>>

NoMarker(s) ==
    /\ At(s, "test") /\ Turn(s) \notin markers
    /\ Goto(s, "commit")
    /\ UNCHANGED <<tables, lease, mem, aborted, tick, bounds, observed>>

Exposes(s) ==
    /\ exposed' = exposed \cup Overtaken(s)
    /\ unleased' = IF s = lease THEN unleased ELSE unleased \cup {Turn(s)}

\* Seeded fault: the marker is left to a later transaction.
Commit_MarkerLater(s) ==
    /\ At(s, "commit") /\ ~Conflicts(rows, thread[s].proj)
    /\ rows' = Saved(rows, thread[s].proj)
    /\ Exposes(s)
    /\ Goto(s, "publish")
    /\ UNCHANGED <<markers, intent, born, handoff, checkpoint, lease, mem, aborted, tick, bounds,
                   told>>

\* The cognitive transaction: the projected row and the commit marker. The
\* staleness test before it compares the stack's memory with itself.
Commit(s) ==
    /\ At(s, "commit") /\ ~Conflicts(rows, thread[s].proj)
    /\ rows' = Saved(rows, thread[s].proj)
    /\ markers' = markers \cup {Turn(s)}
    /\ Exposes(s)
    /\ Goto(s, "publish")
    /\ UNCHANGED <<intent, born, handoff, checkpoint, lease, mem, aborted, tick, bounds, told>>

\* Rolled back, because the storage failed or because the namespace holds a
\* different row; commit_turn frees the lease and the adapter aborts the turn.
CommitFails(s) ==
    /\ At(s, "commit")
    /\ Breaks \/ (Conflicts(rows, thread[s].proj) /\ UNCHANGED failures)
    /\ Fail(s)
    /\ UNCHANGED <<rows, markers, intent, born, handoff, mem, aborted, tick, now, observed>>

\* Seeded fault: the lease is not freed after the publication.
Publish_KeepsLease(s) ==
    /\ At(s, "publish")
    /\ mem' = [mem EXCEPT ![s] = thread[s].proj]
    /\ Drop(s) /\ Rest(s)
    /\ told' = told \cup {Turn(s)}
    /\ UNCHANGED <<rows, markers, intent, born, handoff, lease, aborted, tick, bounds, exposed,
                   unleased>>

\* Publication in memory; when it fails canonical is reloaded, or kept if that
\* fails too. Either way the Host is told of the commit.
Publish(s) ==
    /\ At(s, "publish")
    /\ \E row \in {thread[s].proj, Current(rows), mem[s]} : mem' = [mem EXCEPT ![s] = row]
    /\ Fail(s)
    /\ told' = told \cup {Turn(s)}
    /\ UNCHANGED <<rows, markers, intent, born, handoff, aborted, tick, bounds, exposed,
                   unleased>>

\* abort_turn of the Host leaves a terminal record.
Abort(s) ==
    /\ At(s, "open")
    /\ Fail(s)
    /\ aborted' = [aborted EXCEPT ![s] = @ \cup {Turn(s)}]
    /\ UNCHANGED <<rows, markers, intent, born, handoff, mem, tick, bounds, observed>>

-----------------------------------------------------------------------------
(* CognitiveTicker.tick, which takes no lease, and the environment.        *)

TickRead ==
    /\ tick = None
    /\ Current(rows).at < now
    /\ tick' = Row(Current(rows).version + 1, now, now, Current(rows).turns)
    /\ UNCHANGED <<tables, lease, thread, mem, aborted, bounds, observed>>

TickWrite ==
    /\ tick # None
    /\ rows' = Saved(rows, tick)
    /\ tick' = None
    /\ exposed' = exposed \cup Overtaken(None)
    /\ UNCHANGED <<markers, intent, born, handoff, checkpoint, lease, thread, mem, aborted,
                   bounds, told, unleased>>

Advance ==
    /\ now < MaxTime
    /\ now' = now + 1
    /\ UNCHANGED <<tables, lease, thread, mem, aborted, tick, failures, observed>>

Crash ==
    /\ Breaks
    /\ lease' = None /\ tick' = None
    /\ thread' = [s \in Stacks |-> Idle]
    /\ mem' = [s \in Stacks |-> Current(rows)]
    /\ aborted' = [s \in Stacks |-> {}]
    /\ UNCHANGED <<tables, now, observed>>

-----------------------------------------------------------------------------
Step(s) == \/ Acquire(s) \/ Run(s) \/ RunRefused(s) \/ Policy(s) \/ Handoff(s)
           \/ Prepare(s) \/ CommitReplay(s) \/ NoMarker(s) \/ Commit(s) \/ Publish(s)

Host(s) == \/ \E i \in Interactions : Begin(s, i) \/ Replay(s, i)
           \/ GuardProse(s) \/ Acknowledge(s) \/ CommitUnguarded(s) \/ Abort(s)

Next == \/ \E s \in Stacks : Step(s) \/ Host(s) \/ PrepareFault(s) \/ CommitFails(s)
        \/ TickRead \/ TickWrite \/ Advance \/ Crash

Spec == Init /\ [][Next]_vars
==============================================================================
