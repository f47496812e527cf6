------------------------------ MODULE MemoryPlane ------------------------------
(***************************************************************************)
(* Canonical Memory and its index. MemoryAdmissionService runs after every *)
(* successful factual admission: one that is NEW registers a durable job,  *)
(* the job's extraction is frozen, and the frozen memories are committed   *)
(* with its completion; a replay resumes. A worker brings memories to the  *)
(* vector index as the projection intents of its target say, and a rebuild *)
(* throws the index away. A process may die between any two steps.         *)
(***************************************************************************)
EXTENDS Naturals, FiniteSets

CONSTANTS Runners,          \* processes that admit facts
          Sources,          \* evidence
          Texts,            \* what an extractor may make of one
          NoSource,
          MaxMemoryFaults   \* bound: crashes and failed calls

ASSUME MemoryAssumption == NoSource \notin Sources /\ MaxMemoryFaults \in Nat

VARIABLES
    (* durable *)
    factual,       \* evidence: "none", "retained" without observation, "admitted"
    jobs,          \* admission_jobs: state and frozen candidates
    memories,      \* canonical_memory
    intents,       \* projection_intents of the index's target, by evidence
    points,        \* the points of the vector index
    (* processes *)
    runner,        \* the after_admission hook of each process
    indexer,       \* the process that has the index open
    memoryFaults,
    (* observation *)
    repaired       \* evidence whose admission was answered REPAIRED

memoryRows  == <<factual, jobs, memories>>
indexRows   == <<intents, points>>
memoryVars  == <<memoryRows, indexRows, runner, indexer, memoryFaults, repaired>>

Drafts(e) == {{}} \cup {{[of |-> e, text |-> t]} : t \in Texts}
MemoriesOf(e) == {m \in memories : m.of = e}

NoJob == [state |-> "none", drafts |-> {}]
Ready == [at |-> "ready", ev |-> NoSource, drafts |-> {}]
Hook(r, step) == runner[r].at = step
Answers(r)    == runner' = [runner EXCEPT ![r] = Ready]
MemoryBreaks  == memoryFaults < MaxMemoryFaults /\ memoryFaults' = memoryFaults + 1

-----------------------------------------------------------------------------
(* Admission. *)

\* Denied by authority or ownership: the evidence is retained, no hook runs.
AdmissionDenied(r, e) ==
    /\ Hook(r, "ready") /\ factual[e] = "none"
    /\ factual' = [factual EXCEPT ![e] = "retained"]
    /\ UNCHANGED <<jobs, memories, indexRows, runner, indexer, memoryFaults, repaired>>

\* The three dispositions; the factual pair is durable before the hook runs.
Admits(r, e) ==
    /\ Hook(r, "ready")
    /\ factual' = [factual EXCEPT ![e] = "admitted"]
    /\ repaired' = IF factual[e] = "retained" THEN repaired \cup {e} ELSE repaired
    /\ runner' = [runner EXCEPT ![r] =
                    [at |-> IF factual[e] = "none" THEN "register" ELSE "look",
                     ev |-> e, drafts |-> {}]]
    /\ UNCHANGED <<jobs, memories, indexRows, indexer, memoryFaults>>

\* INSERT OR IGNORE.
RegisterJob(r) ==
    LET e == runner[r].ev IN
    /\ Hook(r, "register")
    /\ jobs' = [jobs EXCEPT ![e] = IF @ = NoJob THEN [NoJob EXCEPT !.state = "registered"] ELSE @]
    /\ runner' = [runner EXCEPT ![r].at = "look"]
    /\ UNCHANGED <<factual, memories, indexRows, indexer, memoryFaults, repaired>>

\* No job or a done one ends the hook, a frozen one is completed, and for a
\* registered one the extractor answers, not always the same.
LookAtJob(r) ==
    LET e == runner[r].ev IN
    /\ Hook(r, "look")
    /\ \/ jobs[e].state \in {"none", "done"} /\ Answers(r)
       \/ jobs[e].state = "frozen" /\ runner' = [runner EXCEPT ![r].at = "complete"]
       \/ /\ jobs[e].state = "registered"
          /\ \E d \in Drafts(e) :
               runner' = [runner EXCEPT ![r] = [at |-> "freeze", ev |-> e, drafts |-> d]]
    /\ UNCHANGED <<memoryRows, indexRows, indexer, memoryFaults, repaired>>

\* Seeded fault: the last extraction wins.
FreezeJob_LastWins(r) ==
    LET e == runner[r].ev IN
    /\ Hook(r, "freeze")
    /\ jobs' = [jobs EXCEPT ![e] = [state |-> IF @.state = "done" THEN "done" ELSE "frozen",
                                    drafts |-> runner[r].drafts]]
    /\ runner' = [runner EXCEPT ![r].at = "complete"]
    /\ UNCHANGED <<factual, memories, indexRows, indexer, memoryFaults, repaired>>

\* The first extraction is frozen; another one is a MemoryConflict.
FreezeJob(r) ==
    LET e == runner[r].ev IN
    /\ Hook(r, "freeze")
    /\ IF jobs[e].state = "registered"
       THEN /\ jobs' = [jobs EXCEPT ![e] = [state |-> "frozen", drafts |-> runner[r].drafts]]
            /\ runner' = [runner EXCEPT ![r].at = "complete"]
       ELSE /\ UNCHANGED jobs
            /\ IF jobs[e].drafts = runner[r].drafts
               THEN runner' = [runner EXCEPT ![r].at = "complete"] ELSE Answers(r)
    /\ UNCHANGED <<factual, memories, indexRows, indexer, memoryFaults, repaired>>

\* One transaction: the frozen memories and the completion. An identity that
\* exists with another payload rolls it back.
CompleteJob(r) ==
    LET e     == runner[r].ev
        clash == \E m \in jobs[e].drafts, n \in memories : m.of = n.of /\ m # n IN
    /\ Hook(r, "complete") /\ Answers(r)
    /\ IF jobs[e].state = "done" \/ clash
       THEN UNCHANGED <<jobs, memories>>
       ELSE /\ memories' = memories \cup jobs[e].drafts
            /\ jobs' = [jobs EXCEPT ![e].state = "done"]
    /\ UNCHANGED <<factual, indexRows, indexer, memoryFaults, repaired>>

\* The extractor or a transaction raises (logged, the fact stands), or the
\* process dies: the job stays as it is.
HookFails(r) ==
    /\ ~Hook(r, "ready") /\ MemoryBreaks /\ Answers(r)
    /\ UNCHANGED <<memoryRows, indexRows, indexer, repaired>>

-----------------------------------------------------------------------------
(* The index: ProjectionWorker.run_once, one intent at a time, and         *)
(* QdrantIndex.rebuild.                                                    *)

IdleIndexer == [at |-> "idle", ev |-> NoSource]
Indexer(step, e) == indexer' = [at |-> step, ev |-> e]
NotAdmission == UNCHANGED <<memoryRows, runner, repaired>>

\* ProjectionQueue.rebuild without reset: what has no intent gets one.
Enqueue ==
    /\ intents' = [e \in Sources |-> IF MemoriesOf(e) # {} /\ intents[e] = "none"
                                     THEN "pending" ELSE intents[e]]
    /\ UNCHANGED <<points, indexer, memoryFaults>> /\ NotAdmission

TakeIntent(e) ==
    /\ indexer.at = "idle" /\ intents[e] \in {"pending", "failed"}
    /\ Indexer("upsert", e)
    /\ UNCHANGED <<indexRows, memoryFaults>> /\ NotAdmission

Upsert ==
    /\ indexer.at = "upsert"
    /\ points' = points \cup MemoriesOf(indexer.ev)
    /\ Indexer("succeed", indexer.ev)
    /\ UNCHANGED <<intents, memoryFaults>> /\ NotAdmission

Succeed ==
    /\ indexer.at = "succeed"
    /\ intents' = [intents EXCEPT ![indexer.ev] = "succeeded"]
    /\ indexer' = IdleIndexer
    /\ UNCHANGED <<points, memoryFaults>> /\ NotAdmission

\* The provider, or recording its success, raises.
ProjectionFails ==
    /\ indexer.at \in {"upsert", "succeed"} /\ MemoryBreaks
    /\ intents' = [intents EXCEPT ![indexer.ev] = "failed"]
    /\ indexer' = IdleIndexer
    /\ UNCHANGED points /\ NotAdmission

\* Seeded fault: the rebuild enqueues without resetting its target.
ResetQueue_KeepsIntents ==
    /\ indexer.at = "idle" /\ Indexer("wipe", NoSource)
    /\ intents' = [e \in Sources |-> IF MemoriesOf(e) # {} /\ intents[e] = "none"
                                     THEN "pending" ELSE intents[e]]
    /\ UNCHANGED <<points, memoryFaults>> /\ NotAdmission

\* The rebuild first makes all intents pending again,
ResetQueue ==
    /\ indexer.at = "idle" /\ Indexer("wipe", NoSource)
    /\ intents' = [e \in Sources |-> IF MemoriesOf(e) # {} THEN "pending" ELSE "none"]
    /\ UNCHANGED <<points, memoryFaults>> /\ NotAdmission

\* then drops the collection and creates it.
WipeIndex ==
    /\ indexer.at = "wipe" /\ indexer' = IdleIndexer
    /\ points' = {}
    /\ UNCHANGED <<intents, memoryFaults>> /\ NotAdmission

IndexerDies ==
    /\ indexer.at # "idle" /\ MemoryBreaks /\ indexer' = IdleIndexer
    /\ UNCHANGED indexRows /\ NotAdmission

-----------------------------------------------------------------------------
MemoryInit ==
    /\ factual = [e \in Sources |-> "none"] /\ jobs = [e \in Sources |-> NoJob]
    /\ memories = {} /\ intents = [e \in Sources |-> "none"] /\ points = {}
    /\ runner = [r \in Runners |-> Ready] /\ indexer = IdleIndexer
    /\ memoryFaults = 0 /\ repaired = {}

MemoryNext ==
    \/ \E r \in Runners :
         \/ \E e \in Sources : AdmissionDenied(r, e) \/ Admits(r, e)
         \/ RegisterJob(r) \/ LookAtJob(r) \/ FreezeJob(r) \/ CompleteJob(r) \/ HookFails(r)
    \/ \E e \in Sources : TakeIntent(e)
    \/ Enqueue \/ Upsert \/ Succeed \/ ProjectionFails
    \/ ResetQueue \/ WipeIndex \/ IndexerDies

MemorySpec == MemoryInit /\ [][MemoryNext]_memoryVars

-----------------------------------------------------------------------------
\* ADR-0023: however many replays, processes and failures an extraction goes
\* through, a completed job committed exactly the candidates first frozen, an
\* incomplete one committed nothing, and a REPAIRED source never has a job.
MemoryIsFrozenDraft ==
    \A e \in Sources :
      /\ MemoriesOf(e) = IF jobs[e].state = "done" THEN jobs[e].drafts ELSE {}
      /\ e \in repaired => jobs[e] = NoJob

\* An intent that succeeded has its memory in the index, also when a rebuild or
\* the worker dies half way; and nothing is in the index that is not canonical.
IndexedWhenSucceeded ==
    /\ points \subseteq memories
    /\ \A e \in Sources : intents[e] = "succeeded" =>
         MemoriesOf(e) # {} /\ MemoriesOf(e) \subseteq points
==============================================================================
