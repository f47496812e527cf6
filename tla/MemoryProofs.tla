----------------------------- MODULE MemoryProofs -----------------------------
(***************************************************************************)
(* Theorems about the two planes of memory. MemoryPlane, for any number of *)
(* processes, sources, extractions, failures and rebuilds: a memory is the *)
(* draft first frozen, and an intent that succeeded has its memory in the  *)
(* index. MemoryThread, for any number of questions, turns and failures,   *)
(* and any bound of the working set: a thread is compiled before it is     *)
(* removed, as it then stands.                                             *)
(***************************************************************************)
EXTENDS MemoryPlane, MemoryThread, TLAPS

Memories == [of : Sources, text : Texts]
Jobs     == [state : {"registered", "frozen", "done"}, drafts : SUBSET Memories] \cup {NoJob}
Hooks    == [at : {"register", "look", "freeze", "complete"}, ev : Sources,
             drafts : SUBSET Memories] \cup {Ready}

MemoryTypeOK ==
    /\ factual \in [Sources -> {"none", "retained", "admitted"}]
    /\ jobs \in [Sources -> Jobs]
    /\ memories \subseteq Memories
    /\ runner \in [Runners -> Hooks]
    /\ repaired \subseteq Sources
    /\ intents \in [Sources -> {"none", "pending", "failed", "succeeded"}]

\* A job holds drafts of its own source, and none before it is frozen.
JobsOwnDrafts ==
    \A e \in Sources : /\ jobs[e].drafts \in Drafts(e)
                       /\ jobs[e].state = "registered" => jobs[e].drafts = {}

\* Only evidence that was admitted as NEW has a job, or a hook about to register one.
JobsAreNew ==
    /\ \A e \in Sources :
         /\ factual[e] # "admitted" => jobs[e] = NoJob /\ e \notin repaired
         /\ e \in repaired => jobs[e] = NoJob
    /\ \A r \in Runners : LET h == runner[r] IN
         /\ h.at = "register" => factual[h.ev] = "admitted" /\ h.ev \notin repaired
         /\ h.at = "freeze" => jobs[h.ev] # NoJob /\ h.drafts \in Drafts(h.ev)
         /\ h.at = "complete" => jobs[h.ev].state \in {"frozen", "done"}

AdmissionInv ==
    MemoryTypeOK /\ JobsOwnDrafts /\ JobsAreNew /\ MemoryIsFrozenDraft

\* An intent stands for a memory, a worker brings that memory to the index, and
\* while the index is to be wiped no intent has succeeded.
IndexInv ==
    /\ IndexedWhenSucceeded
    /\ \A e \in Sources : intents[e] # "none" => MemoriesOf(e) # {}
    /\ indexer.at \in {"upsert", "succeed"} =>
         indexer.ev \in Sources /\ MemoriesOf(indexer.ev) # {}
    /\ indexer.at = "succeed" => MemoriesOf(indexer.ev) \subseteq points
    /\ indexer.at = "wipe" => \A e \in Sources : intents[e] # "succeeded"

MemoryInv == AdmissionInv /\ IndexInv

-----------------------------------------------------------------------------
\* Jobs other than NoJob are in one of the three states.
LEMMA JobStates ==
    /\ NoJob.state = "none" /\ NoJob.drafts = {}
    /\ \A j \in Jobs : j.state = "none" <=> j = NoJob
  BY DEF Jobs, NoJob

\* Drafts are of one source.
LEMMA DraftsOf ==
    ASSUME NEW e \in Sources, NEW d \in Drafts(e)
    PROVE  /\ d \in SUBSET Memories
           /\ \A m \in d : m.of = e
           /\ \A f \in Sources : {m \in d : m.of = f} = IF f = e THEN d ELSE {}
  BY DEF Drafts, Memories

\* Everything is empty at first.
LEMMA InitMemory == MemoryInit => MemoryInv
<1> SUFFICES ASSUME MemoryInit PROVE MemoryInv
  OBVIOUS
<1>1. MemoryTypeOK
  BY DEF MemoryInit, MemoryTypeOK, Jobs, Hooks
<1>2. JobsOwnDrafts
  BY DEF MemoryInit, JobsOwnDrafts, NoJob, Drafts
<1>3. JobsAreNew
  BY DEF MemoryInit, JobsAreNew, Ready
<1>4. MemoryIsFrozenDraft
  BY DEF MemoryInit, MemoryIsFrozenDraft, MemoriesOf, NoJob
<1>5. IndexInv
  BY DEF MemoryInit, IndexInv, IndexedWhenSucceeded, IdleIndexer
<1> QED BY <1>1, <1>2, <1>3, <1>4, <1>5 DEF MemoryInv, AdmissionInv

\* A hook moves to another step, or ends: nothing durable changes.
LEMMA HookMoves ==
    ASSUME AdmissionInv, NEW r \in Runners, NEW h \in Hooks,
           runner' = [runner EXCEPT ![r] = h], h.at \in {"ready", "look", "freeze", "complete"},
           h.at = "freeze" => jobs[h.ev] # NoJob /\ h.drafts \in Drafts(h.ev),
           h.at = "complete" => jobs[h.ev].state \in {"frozen", "done"},
           UNCHANGED <<memoryRows, repaired, intents>>
    PROVE  AdmissionInv'
<1>1. MemoryTypeOK'
  BY DEF AdmissionInv, MemoryTypeOK, memoryRows
<1>2. JobsOwnDrafts' /\ MemoryIsFrozenDraft'
  BY DEF AdmissionInv, JobsOwnDrafts, MemoryIsFrozenDraft, MemoriesOf, memoryRows
<1>3. JobsAreNew'
  BY DEF AdmissionInv, MemoryTypeOK, JobsAreNew, memoryRows
<1> QED BY <1>1, <1>2, <1>3 DEF AdmissionInv

\* An admission that is denied retains the evidence.
LEMMA DeniedKeeps ==
    ASSUME AdmissionInv, NEW r \in Runners, NEW e \in Sources, AdmissionDenied(r, e)
    PROVE  AdmissionInv'
<1>1. MemoryTypeOK'
  BY DEF AdmissionDenied, AdmissionInv, MemoryTypeOK, indexRows
<1>2. JobsOwnDrafts' /\ MemoryIsFrozenDraft'
  BY DEF AdmissionDenied, AdmissionInv, JobsOwnDrafts, MemoryIsFrozenDraft, MemoriesOf
<1>3. JobsAreNew'
  BY DEF AdmissionDenied, AdmissionInv, MemoryTypeOK, JobsAreNew
<1> QED BY <1>1, <1>2, <1>3 DEF AdmissionInv

\* An admission starts the hook; only NEW evidence goes on to register a job.
LEMMA AdmitsKeeps ==
    ASSUME AdmissionInv, NEW r \in Runners, NEW e \in Sources, Admits(r, e)
    PROVE  AdmissionInv'
<1> DEFINE h == [at |-> IF factual[e] = "none" THEN "register" ELSE "look",
                 ev |-> e, drafts |-> {}]
<1>t. MemoryTypeOK /\ JobsAreNew
  BY DEF AdmissionInv
<1>1. /\ factual' = [factual EXCEPT ![e] = "admitted"]
      /\ repaired' = IF factual[e] = "retained" THEN repaired \cup {e} ELSE repaired
      /\ runner' = [runner EXCEPT ![r] = h] /\ h \in Hooks
      /\ UNCHANGED <<jobs, memories, intents>>
  BY DEF Admits, Hooks, indexRows
<1>2. MemoryTypeOK'
  BY <1>t, <1>1 DEF MemoryTypeOK
<1>3. JobsOwnDrafts' /\ MemoryIsFrozenDraft'
  BY <1>t, <1>1 DEF AdmissionInv, JobsOwnDrafts, JobsAreNew, MemoryTypeOK, MemoryIsFrozenDraft,
     MemoriesOf
<1>4. JobsAreNew'
  BY <1>t, <1>1 DEF MemoryTypeOK, JobsAreNew
<1> QED BY <1>2, <1>3, <1>4 DEF AdmissionInv

\* Moving the step of a hook that is under way keeps its source and drafts.
LEMMA HookStep ==
    ASSUME MemoryTypeOK, NEW r \in Runners, runner[r].at # "ready",
           NEW x \in {"look", "freeze", "complete"}
    PROVE  /\ runner[r].ev \in Sources
           /\ [runner EXCEPT ![r].at = x] =
                [runner EXCEPT ![r] = [at |-> x, ev |-> runner[r].ev, drafts |-> runner[r].drafts]]
           /\ [at |-> x, ev |-> runner[r].ev, drafts |-> runner[r].drafts] \in Hooks
<1>1. runner \in [Runners -> Hooks] /\ runner[r] \in Hooks /\ runner[r] # Ready
  BY DEF MemoryTypeOK, Ready
<1>2. runner[r] \in [at : {"register", "look", "freeze", "complete"}, ev : Sources,
                     drafts : SUBSET Memories]
  BY <1>1 DEF Hooks
<1>3. [runner[r] EXCEPT !.at = x] = [at |-> x, ev |-> runner[r].ev, drafts |-> runner[r].drafts]
  BY <1>2
<1>4. [at |-> x, ev |-> runner[r].ev, drafts |-> runner[r].drafts] \in Hooks
  BY <1>2 DEF Hooks
<1> QED BY <1>1, <1>2, <1>3, <1>4

\* The hook registers a job for evidence that was admitted as NEW.
LEMMA RegisterKeeps ==
    ASSUME AdmissionInv, NEW r \in Runners, RegisterJob(r)
    PROVE  AdmissionInv'
<1> DEFINE e == runner[r].ev
           j == [state |-> "registered", drafts |-> {}]
           h == [at |-> "look", ev |-> e, drafts |-> runner[r].drafts]
<1>t. MemoryTypeOK /\ JobsOwnDrafts /\ JobsAreNew /\ MemoryIsFrozenDraft
  BY DEF AdmissionInv
<1>1. runner[r].at = "register" /\ e \in Sources /\ runner' = [runner EXCEPT ![r] = h] /\ h \in Hooks
  BY <1>t, HookStep DEF RegisterJob, Hook
<1>2. [NoJob EXCEPT !.state = "registered"] = j
  BY DEF NoJob
<1>3. /\ jobs' = [jobs EXCEPT ![e] = IF jobs[e] = NoJob THEN j ELSE jobs[e]]
      /\ UNCHANGED <<factual, memories, intents, repaired>>
  BY <1>2 DEF RegisterJob, indexRows
<1>4. j \in Jobs /\ j # NoJob /\ NoJob.state = "none" /\ NoJob.drafts = {}
  BY DEF Jobs, NoJob
<1>5. jobs \in [Sources -> Jobs] /\ runner \in [Runners -> Hooks]
  BY <1>t DEF MemoryTypeOK
<1>6. factual[e] = "admitted" /\ e \notin repaired
  BY <1>t, <1>1 DEF JobsAreNew
<1> HIDE DEF e, j, h
<1>7. /\ jobs' \in [Sources -> Jobs] /\ runner' \in [Runners -> Hooks]
      /\ \A f \in Sources : f # e => jobs'[f] = jobs[f]
      /\ jobs'[e] = IF jobs[e] = NoJob THEN j ELSE jobs[e]
      /\ runner'[r] = h /\ \A q \in Runners : q # r => runner'[q] = runner[q]
  BY <1>1, <1>3, <1>4, <1>5
<1>8. MemoryTypeOK'
  BY <1>t, <1>3, <1>7 DEF MemoryTypeOK
<1>9. JobsOwnDrafts'
  BY <1>t, <1>7 DEF JobsOwnDrafts, j, Drafts
<1>10. MemoryIsFrozenDraft'
  <2>1. \A f \in Sources : {m \in memories' : m.of = f} = {m \in memories : m.of = f}
    BY <1>3
  <2>2. \A f \in Sources : jobs'[f].state = "done" <=> jobs[f].state = "done"
    BY <1>7, <1>4 DEF j
  <2>3. \A f \in Sources : jobs[f].state = "done" => jobs'[f].drafts = jobs[f].drafts
    BY <1>7, <1>4
  <2> QED BY <1>t, <1>3, <1>6, <1>7, <2>1, <2>2, <2>3 DEF MemoryIsFrozenDraft, MemoriesOf
<1>11. JobsAreNew'
  <2>1. \A f \in Sources : /\ factual'[f] # "admitted" => jobs'[f] = NoJob /\ f \notin repaired'
                           /\ f \in repaired' => jobs'[f] = NoJob
    BY <1>t, <1>3, <1>6, <1>7 DEF JobsAreNew
  <2>2. \A f \in Sources : /\ jobs[f] # NoJob => jobs'[f] = jobs[f]
                           /\ jobs[f].state \in {"frozen", "done"} => jobs'[f] = jobs[f]
    BY <1>4, <1>7
  <2>3. \A q \in Runners : q # r => /\ runner[q].at = "freeze" => runner[q].ev \in Sources
                                    /\ runner[q].at = "complete" => runner[q].ev \in Sources
    BY <1>5 DEF Hooks, Ready
  <2>4. h.at = "look"
    BY DEF h
  <2>5. ASSUME NEW q \in Runners
        PROVE  /\ runner'[q].at = "register" =>
                    factual'[runner'[q].ev] = "admitted" /\ runner'[q].ev \notin repaired'
               /\ runner'[q].at = "freeze" =>
                    jobs'[runner'[q].ev] # NoJob /\ runner'[q].drafts \in Drafts(runner'[q].ev)
               /\ runner'[q].at = "complete" => jobs'[runner'[q].ev].state \in {"frozen", "done"}
    <3>1. CASE q = r
      BY <1>7, <2>4, <3>1
    <3>2. CASE q # r
      <4>1. runner'[q] = runner[q]
        BY <1>7, <3>2
      <4> QED BY <1>t, <1>3, <2>2, <2>3, <3>2, <4>1 DEF JobsAreNew
    <3> QED BY <3>1, <3>2
  <2> QED BY <2>1, <2>5 DEF JobsAreNew
<1> QED BY <1>8, <1>9, <1>10, <1>11 DEF AdmissionInv

\* The hook looks at its job: it moves on, or ends.
LEMMA LookKeeps ==
    ASSUME AdmissionInv, NEW r \in Runners, LookAtJob(r)
    PROVE  AdmissionInv'
<1> DEFINE e == runner[r].ev
<1>t. MemoryTypeOK /\ JobsOwnDrafts /\ runner[r].at = "look" /\ e \in Sources
  BY HookStep DEF AdmissionInv, LookAtJob, Hook
<1>u. UNCHANGED <<memoryRows, repaired, intents>>
  BY DEF LookAtJob, indexRows
<1>1. CASE Answers(r)
  <2>1. Ready \in Hooks /\ Ready.at = "ready" /\ runner' = [runner EXCEPT ![r] = Ready]
    BY <1>1 DEF Hooks, Ready, Answers
  <2> QED BY <1>u, <2>1, HookMoves
<1>2. CASE jobs[e].state = "frozen" /\ runner' = [runner EXCEPT ![r].at = "complete"]
  <2> DEFINE h == [at |-> "complete", ev |-> e, drafts |-> runner[r].drafts]
  <2>1. runner' = [runner EXCEPT ![r] = h] /\ h \in Hooks
    BY <1>t, <1>2, HookStep
  <2>2. h.at = "complete" /\ h.ev = e
    OBVIOUS
  <2> HIDE DEF h
  <2> QED BY <1>u, <1>2, <2>1, <2>2, HookMoves
<1>3. ASSUME NEW d \in Drafts(e), jobs[e].state = "registered",
             runner' = [runner EXCEPT ![r] = [at |-> "freeze", ev |-> e, drafts |-> d]]
      PROVE  AdmissionInv'
  <2> DEFINE h == [at |-> "freeze", ev |-> e, drafts |-> d]
  <2>1. h \in Hooks
    BY <1>t, <1>3, DraftsOf DEF Hooks
  <2>2. h.at = "freeze" /\ h.ev = e /\ h.drafts = d
    OBVIOUS
  <2>3. runner' = [runner EXCEPT ![r] = h] /\ jobs[e] # NoJob
    BY <1>3 DEF NoJob
  <2> HIDE DEF h
  <2>4. /\ runner' = [runner EXCEPT ![r] = h] /\ h.at = "freeze"
        /\ jobs[h.ev] # NoJob /\ h.drafts \in Drafts(h.ev)
    BY <1>3, <2>2, <2>3
  <2> QED BY ONLY AdmissionInv, <1>u, <2>1, <2>4, HookMoves
<1>4. \/ Answers(r)
      \/ jobs[e].state = "frozen" /\ runner' = [runner EXCEPT ![r].at = "complete"]
      \/ /\ jobs[e].state = "registered"
         /\ \E d \in Drafts(e) : runner' = [runner EXCEPT ![r] = [at |-> "freeze", ev |-> e, drafts |-> d]]
  BY DEF LookAtJob
<1> QED BY <1>1, <1>2, <1>3, <1>4

\* A hook that fails ends.
LEMMA HookFailsKeeps ==
    ASSUME AdmissionInv, NEW r \in Runners, HookFails(r)
    PROVE  AdmissionInv'
<1>1. Ready \in Hooks /\ Ready.at = "ready" /\ runner' = [runner EXCEPT ![r] = Ready]
  BY DEF Hooks, Ready, Answers, HookFails
<1>2. UNCHANGED <<memoryRows, repaired, intents>>
  BY DEF HookFails, indexRows
<1> QED BY <1>1, <1>2, HookMoves

\* The first extraction of a registered job is frozen; a later one that is the
\* same completes, and one that is not ends the hook.
LEMMA FreezeKeeps ==
    ASSUME AdmissionInv, NEW r \in Runners, FreezeJob(r)
    PROVE  AdmissionInv'
<1> DEFINE e == runner[r].ev
           d == runner[r].drafts
           h == [at |-> "complete", ev |-> e, drafts |-> d]
<1>t. MemoryTypeOK /\ JobsOwnDrafts /\ JobsAreNew /\ MemoryIsFrozenDraft
  BY DEF AdmissionInv
<1>1. /\ runner[r].at = "freeze" /\ e \in Sources /\ h \in Hooks
      /\ [runner EXCEPT ![r].at = "complete"] = [runner EXCEPT ![r] = h]
      /\ h.at = "complete" /\ h.ev = e
  BY <1>t, HookStep DEF FreezeJob, Hook
<1>2. UNCHANGED <<factual, memories, intents, repaired>>
  BY DEF FreezeJob, indexRows
<1>3. jobs[e] # NoJob /\ d \in Drafts(e)
  BY <1>t, <1>1 DEF JobsAreNew
<1>4. jobs \in [Sources -> Jobs] /\ runner \in [Runners -> Hooks]
  BY <1>t DEF MemoryTypeOK
<1>5. CASE jobs[e].state = "registered"
  <2> DEFINE j == [state |-> "frozen", drafts |-> d]
  <2>1. jobs' = [jobs EXCEPT ![e] = j] /\ runner' = [runner EXCEPT ![r] = h]
    BY <1>1, <1>5 DEF FreezeJob
  <2>2. j \in Jobs /\ j # NoJob /\ j.state = "frozen" /\ j.drafts = d
    BY <1>1, <1>3, DraftsOf DEF Jobs, NoJob
  <2>3. factual[e] = "admitted" /\ e \notin repaired
    BY <1>t, <1>1, <1>3 DEF JobsAreNew
  <2> HIDE DEF e, d, h, j
  <2>4. /\ jobs' \in [Sources -> Jobs] /\ runner' \in [Runners -> Hooks]
        /\ \A f \in Sources : f # e => jobs'[f] = jobs[f]
        /\ jobs'[e] = j
        /\ runner'[r] = h /\ \A q \in Runners : q # r => runner'[q] = runner[q]
    BY <1>1, <1>4, <2>1, <2>2
  <2>5. MemoryTypeOK'
    BY <1>t, <1>2, <2>4 DEF MemoryTypeOK
  <2>6. JobsOwnDrafts'
    BY <1>t, <1>3, <2>2, <2>4 DEF JobsOwnDrafts
  <2>7. MemoryIsFrozenDraft'
    <3>1. \A f \in Sources : {m \in memories' : m.of = f} = {m \in memories : m.of = f}
      BY <1>2
    <3> QED BY <1>t, <1>1, <1>2, <1>5, <2>2, <2>3, <2>4, <3>1
            DEF MemoryIsFrozenDraft, MemoriesOf
  <2>8. JobsAreNew'
    <3>1. \A f \in Sources : /\ factual'[f] # "admitted" => jobs'[f] = NoJob /\ f \notin repaired'
                             /\ f \in repaired' => jobs'[f] = NoJob
      BY <1>t, <1>2, <2>3, <2>4 DEF JobsAreNew
    <3>2. \A f \in Sources : /\ jobs[f] # NoJob => jobs'[f] # NoJob
                             /\ jobs[f].state \in {"frozen", "done"} =>
                                  jobs'[f].state \in {"frozen", "done"}
      BY <2>2, <2>4
    <3>3. \A q \in Runners : q # r => /\ runner[q].at = "freeze" => runner[q].ev \in Sources
                                      /\ runner[q].at = "complete" => runner[q].ev \in Sources
      BY <1>4 DEF Hooks, Ready
    <3>5. ASSUME NEW q \in Runners
          PROVE  /\ runner'[q].at = "register" =>
                      factual'[runner'[q].ev] = "admitted" /\ runner'[q].ev \notin repaired'
                 /\ runner'[q].at = "freeze" =>
                      jobs'[runner'[q].ev] # NoJob /\ runner'[q].drafts \in Drafts(runner'[q].ev)
                 /\ runner'[q].at = "complete" => jobs'[runner'[q].ev].state \in {"frozen", "done"}
      <4>1. CASE q = r
        BY <1>1, <2>2, <2>4, <4>1
      <4>2. CASE q # r
        <5>1. runner'[q] = runner[q]
          BY <2>4, <4>2
        <5> QED BY <1>t, <1>2, <3>2, <3>3, <4>2, <5>1 DEF JobsAreNew
      <4> QED BY <4>1, <4>2
    <3> QED BY <3>1, <3>5 DEF JobsAreNew
  <2> QED BY <2>5, <2>6, <2>7, <2>8 DEF AdmissionInv
<1>6. CASE jobs[e].state # "registered"
  <2>1. jobs' = jobs /\ (runner' = [runner EXCEPT ![r] = h] \/ Answers(r))
    BY <1>1, <1>6 DEF FreezeJob
  <2>2. UNCHANGED <<memoryRows, repaired, intents>>
    BY <1>2, <2>1 DEF memoryRows
  <2>3. jobs[e].state \in {"frozen", "done"}
    BY <1>1, <1>3, <1>4, <1>6 DEF Jobs
  <2>4. CASE runner' = [runner EXCEPT ![r] = h]
    <3>1. h.at # "freeze" /\ jobs[h.ev].state \in {"frozen", "done"} /\ h \in Hooks
      BY <1>1, <2>3
    <3> HIDE DEF h
    <3> QED BY <1>1, <2>2, <2>4, <3>1, HookMoves
  <2>5. CASE Answers(r)
    <3>1. Ready \in Hooks /\ Ready.at = "ready" /\ runner' = [runner EXCEPT ![r] = Ready]
      BY <2>5 DEF Hooks, Ready, Answers
    <3> QED BY <2>2, <3>1, HookMoves
  <2> QED BY <2>1, <2>4, <2>5
<1> QED BY <1>5, <1>6

\* A frozen job has no memory yet, so its drafts clash with none: they become
\* its memories as it completes.
LEMMA CompleteKeeps ==
    ASSUME AdmissionInv, NEW r \in Runners, CompleteJob(r)
    PROVE  AdmissionInv'
<1> DEFINE e == runner[r].ev
           j == [state |-> "done", drafts |-> jobs[e].drafts]
           clash == \E m \in jobs[e].drafts, n \in memories : m.of = n.of /\ m # n
<1>t. MemoryTypeOK /\ JobsOwnDrafts /\ JobsAreNew /\ MemoryIsFrozenDraft
  BY DEF AdmissionInv
<1>1. runner[r].at = "complete" /\ e \in Sources
  BY <1>t, HookStep DEF CompleteJob, Hook
<1>2. UNCHANGED <<factual, intents, repaired>> /\ runner' = [runner EXCEPT ![r] = Ready]
  BY DEF CompleteJob, indexRows, Answers
<1>3. Ready \in Hooks /\ Ready.at = "ready"
  BY DEF Hooks, Ready
<1>4. jobs \in [Sources -> Jobs] /\ runner \in [Runners -> Hooks] /\ memories \subseteq Memories
  BY <1>t DEF MemoryTypeOK
<1>5. CASE jobs[e].state = "done" \/ clash
  <2>1. UNCHANGED <<memoryRows, repaired, intents>>
    BY <1>2, <1>5 DEF CompleteJob, memoryRows
  <2> QED BY <1>2, <1>3, <2>1, HookMoves
<1>6. CASE ~(jobs[e].state = "done" \/ clash)
  <2>1. memories' = memories \cup jobs[e].drafts /\ jobs' = [jobs EXCEPT ![e].state = "done"]
    BY <1>6 DEF CompleteJob
  <2>2. jobs[e].state = "frozen" /\ jobs[e] \in Jobs /\ jobs[e] # NoJob
    BY <1>t, <1>1, <1>4, <1>6 DEF JobsAreNew, NoJob
  <2>3. [jobs[e] EXCEPT !.state = "done"] = j /\ j \in Jobs /\ j # NoJob
    BY <2>2 DEF Jobs, NoJob
  <2>4. jobs' = [jobs EXCEPT ![e] = j]
    BY <2>1, <2>3
  <2>5. factual[e] = "admitted" /\ e \notin repaired
    BY <1>t, <1>1, <2>2 DEF JobsAreNew
  <2>6. /\ jobs[e].drafts \in Drafts(e) /\ jobs[e].drafts \subseteq Memories
        /\ \A f \in Sources : {m \in jobs[e].drafts : m.of = f} = IF f = e THEN jobs[e].drafts ELSE {}
    <3>1. jobs[e].drafts \in Drafts(e)
      BY <1>t, <1>1 DEF JobsOwnDrafts
    <3> QED BY <1>1, <3>1, DraftsOf
  <2>7. j.state = "done" /\ j.drafts = jobs[e].drafts
    OBVIOUS
  <2> HIDE DEF e, j, clash
  <2>8. /\ jobs' \in [Sources -> Jobs] /\ runner' \in [Runners -> Hooks]
        /\ \A f \in Sources : f # e => jobs'[f] = jobs[f]
        /\ jobs'[e] = j
        /\ runner'[r] = Ready /\ \A q \in Runners : q # r => runner'[q] = runner[q]
    BY <1>1, <1>2, <1>3, <1>4, <2>3, <2>4
  <2>9. MemoryTypeOK'
    BY <1>t, <1>2, <2>1, <2>6, <2>8 DEF MemoryTypeOK
  <2>10. JobsOwnDrafts'
    BY <1>t, <2>6, <2>7, <2>8 DEF JobsOwnDrafts
  <2>11. MemoryIsFrozenDraft'
    <3>1. \A f \in Sources : {m \in memories' : m.of = f} =
             {m \in memories : m.of = f} \cup {m \in jobs[e].drafts : m.of = f}
      BY <2>1
    <3>2. \A f \in Sources : f # e => {m \in memories' : m.of = f} = {m \in memories : m.of = f}
      BY <2>6, <3>1
    <3>3. {m \in memories : m.of = e} = {}
      BY <1>t, <1>1, <2>2 DEF MemoryIsFrozenDraft, MemoriesOf
    <3>4. {m \in memories' : m.of = e} = jobs[e].drafts
      BY <1>1, <2>6, <3>1, <3>3
    <3> QED BY <1>t, <1>2, <2>5, <2>7, <2>8, <3>2, <3>4 DEF MemoryIsFrozenDraft, MemoriesOf
  <2>12. JobsAreNew'
    <3>1. \A f \in Sources : /\ factual'[f] # "admitted" => jobs'[f] = NoJob /\ f \notin repaired'
                             /\ f \in repaired' => jobs'[f] = NoJob
      BY <1>t, <1>2, <2>5, <2>8 DEF JobsAreNew
    <3>2. \A f \in Sources : /\ jobs[f] # NoJob => jobs'[f] # NoJob
                             /\ jobs[f].state \in {"frozen", "done"} =>
                                  jobs'[f].state \in {"frozen", "done"}
      BY <2>3, <2>7, <2>8
    <3>3. \A q \in Runners : q # r => /\ runner[q].at = "freeze" => runner[q].ev \in Sources
                                      /\ runner[q].at = "complete" => runner[q].ev \in Sources
      BY <1>4 DEF Hooks, Ready
    <3>5. ASSUME NEW q \in Runners
          PROVE  /\ runner'[q].at = "register" =>
                      factual'[runner'[q].ev] = "admitted" /\ runner'[q].ev \notin repaired'
                 /\ runner'[q].at = "freeze" =>
                      jobs'[runner'[q].ev] # NoJob /\ runner'[q].drafts \in Drafts(runner'[q].ev)
                 /\ runner'[q].at = "complete" => jobs'[runner'[q].ev].state \in {"frozen", "done"}
      <4>1. CASE q = r
        BY <1>3, <2>8, <4>1
      <4>2. CASE q # r
        <5>1. runner'[q] = runner[q]
          BY <2>8, <4>2
        <5> QED BY <1>t, <1>2, <3>2, <3>3, <4>2, <5>1 DEF JobsAreNew
      <4> QED BY <4>1, <4>2
    <3> QED BY <3>1, <3>5 DEF JobsAreNew
  <2> QED BY <2>9, <2>10, <2>11, <2>12 DEF AdmissionInv
<1> QED BY <1>5, <1>6

-----------------------------------------------------------------------------
(* The index.                                                              *)

\* Memories are added, and those of a source all at once: an index that says
\* something of the memories of a source still does.
LEMMA IndexKeeps ==
    ASSUME AdmissionInv, AdmissionInv', IndexInv, memories \subseteq memories',
           \A e \in Sources : jobs[e].state = "done" => jobs'[e] = jobs[e],
           UNCHANGED <<indexRows, indexer>>
    PROVE  IndexInv'
<1>1. \A e \in Sources : MemoriesOf(e) # {} => MemoriesOf(e)' = MemoriesOf(e)
  BY DEF AdmissionInv, MemoryIsFrozenDraft
<1>2. IndexedWhenSucceeded'
  BY <1>1 DEF IndexInv, IndexedWhenSucceeded, indexRows
<1>3. \A e \in Sources : intents'[e] # "none" => MemoriesOf(e)' # {}
  BY <1>1 DEF IndexInv, indexRows
<1>4. /\ indexer'.at \in {"upsert", "succeed"} =>
           indexer'.ev \in Sources /\ MemoriesOf(indexer.ev)' # {}
      /\ indexer'.at = "succeed" => MemoriesOf(indexer.ev)' \subseteq points'
      /\ indexer'.at = "wipe" => \A e \in Sources : intents'[e] # "succeeded"
  BY <1>1 DEF IndexInv, indexRows
<1> QED BY <1>2, <1>3, <1>4 DEF IndexInv

\* Steps of admission leave the index to itself, and never undo a completed job.
LEMMA AdmissionSteps ==
    ASSUME AdmissionInv, NEW r \in Runners,
           \/ \E e \in Sources : AdmissionDenied(r, e) \/ Admits(r, e)
           \/ RegisterJob(r) \/ LookAtJob(r) \/ FreezeJob(r) \/ CompleteJob(r) \/ HookFails(r)
    PROVE  /\ AdmissionInv'
           /\ memories \subseteq memories'
           /\ \A e \in Sources : jobs[e].state = "done" => jobs'[e] = jobs[e]
           /\ UNCHANGED <<indexRows, indexer>>
<1>t. jobs \in [Sources -> Jobs] /\ NoJob.state = "none"
  BY JobStates DEF AdmissionInv, MemoryTypeOK
<1>1. ASSUME NEW e \in Sources, AdmissionDenied(r, e) PROVE UNCHANGED <<jobs, memories, indexRows, indexer>>
  BY <1>1 DEF AdmissionDenied
<1>2. ASSUME NEW e \in Sources, Admits(r, e) PROVE UNCHANGED <<jobs, memories, indexRows, indexer>>
  BY <1>2 DEF Admits
<1>3. CASE RegisterJob(r)
  <2>1. UNCHANGED <<memories, indexRows, indexer>>
    BY <1>3 DEF RegisterJob
  <2>2. \A e \in Sources : jobs[e].state = "done" => jobs'[e] = jobs[e]
    BY <1>t, <1>3 DEF RegisterJob
  <2> QED BY <1>3, <2>1, <2>2, RegisterKeeps
<1>4. CASE LookAtJob(r)
  BY <1>4, LookKeeps DEF LookAtJob, memoryRows
<1>5. CASE FreezeJob(r)
  <2>1. UNCHANGED <<memories, indexRows, indexer>>
    BY <1>5 DEF FreezeJob
  <2>2. \A e \in Sources : jobs[e].state = "done" => jobs'[e] = jobs[e]
    BY <1>t, <1>5 DEF FreezeJob
  <2> QED BY <1>5, <2>1, <2>2, FreezeKeeps
<1>6. CASE CompleteJob(r)
  <2>1. UNCHANGED <<indexRows, indexer>> /\ memories \subseteq memories'
    BY <1>6 DEF CompleteJob
  <2>2. \A e \in Sources : jobs[e].state = "done" => jobs'[e] = jobs[e]
    BY <1>t, <1>6 DEF CompleteJob
  <2> QED BY <1>6, <2>1, <2>2, CompleteKeeps
<1>7. CASE HookFails(r)
  BY <1>7, HookFailsKeeps DEF HookFails, memoryRows
<1> QED BY <1>1, <1>2, <1>3, <1>4, <1>5, <1>6, <1>7, DeniedKeeps, AdmitsKeeps

\* Steps of the index leave admission to itself.
LEMMA AdmissionUntouched ==
    ASSUME AdmissionInv, NotAdmission,
           intents' \in [Sources -> {"none", "pending", "failed", "succeeded"}]
    PROVE  AdmissionInv' /\ \A e : MemoriesOf(e)' = MemoriesOf(e)
<1>1. MemoryTypeOK'
  BY DEF AdmissionInv, NotAdmission, memoryRows, MemoryTypeOK
<1>2. JobsOwnDrafts' /\ JobsAreNew'
  BY DEF AdmissionInv, NotAdmission, memoryRows, JobsOwnDrafts, JobsAreNew
<1>3. MemoryIsFrozenDraft' /\ \A e : MemoriesOf(e)' = MemoriesOf(e)
  BY DEF AdmissionInv, NotAdmission, memoryRows, MemoryIsFrozenDraft, MemoriesOf
<1> QED BY <1>1, <1>2, <1>3 DEF AdmissionInv

\* Enqueueing makes intents pending, for sources with a memory.
LEMMA EnqueueKeeps == MemoryInv /\ Enqueue => MemoryInv'
<1> SUFFICES ASSUME MemoryInv, Enqueue PROVE MemoryInv'
  OBVIOUS
<1>1. /\ NotAdmission /\ UNCHANGED <<points, indexer>>
      /\ intents' = [e \in Sources |-> IF MemoriesOf(e) # {} /\ intents[e] = "none"
                                       THEN "pending" ELSE intents[e]]
  BY DEF Enqueue
<1>2. intents' \in [Sources -> {"none", "pending", "failed", "succeeded"}]
  BY <1>1 DEF MemoryInv, AdmissionInv, MemoryTypeOK
<1>3. AdmissionInv' /\ \A e : MemoriesOf(e)' = MemoriesOf(e)
  BY <1>1, <1>2, AdmissionUntouched DEF MemoryInv
<1>4. \A e \in Sources : /\ intents'[e] = "succeeded" <=> intents[e] = "succeeded"
                         /\ intents'[e] # "none" => intents[e] # "none" \/ MemoriesOf(e) # {}
  BY <1>1
<1>5. memories' = memories
  BY <1>1 DEF NotAdmission, memoryRows
<1>6. IndexInv'
  BY <1>1, <1>3, <1>4, <1>5 DEF MemoryInv, IndexInv, IndexedWhenSucceeded
<1> QED BY <1>3, <1>6 DEF MemoryInv

\* The worker takes an intent, and brings its memory to the index.
LEMMA WorkerKeeps ==
    ASSUME MemoryInv, (\E e \in Sources : TakeIntent(e)) \/ Upsert \/ Succeed \/ ProjectionFails
    PROVE  MemoryInv'
<1>t. AdmissionInv /\ IndexInv /\ intents \in [Sources -> {"none", "pending", "failed", "succeeded"}]
  BY DEF MemoryInv, AdmissionInv, MemoryTypeOK
<1>1. ASSUME NEW e \in Sources, TakeIntent(e) PROVE MemoryInv'
  <2>1. /\ NotAdmission /\ UNCHANGED indexRows
        /\ indexer' = [at |-> "upsert", ev |-> e] /\ intents[e] # "none"
    BY <1>1 DEF TakeIntent, Indexer
  <2>2. AdmissionInv' /\ \A f : MemoriesOf(f)' = MemoriesOf(f)
    BY <1>t, <2>1, AdmissionUntouched DEF indexRows
  <2>3. IndexInv'
    BY <1>t, <2>1, <2>2 DEF IndexInv, IndexedWhenSucceeded, indexRows, NotAdmission, memoryRows
  <2> QED BY <2>2, <2>3 DEF MemoryInv
<1>2. CASE Upsert
  <2>1. /\ NotAdmission /\ UNCHANGED intents /\ indexer.at = "upsert"
        /\ points' = points \cup MemoriesOf(indexer.ev)
        /\ indexer' = [at |-> "succeed", ev |-> indexer.ev]
    BY <1>2 DEF Upsert, Indexer
  <2>2. AdmissionInv' /\ \A f : MemoriesOf(f)' = MemoriesOf(f)
    BY <1>t, <2>1, AdmissionUntouched
  <2>3. memories' = memories /\ MemoriesOf(indexer.ev) \subseteq memories
    BY <2>1 DEF NotAdmission, memoryRows, MemoriesOf
  <2>4. IndexInv'
    BY <1>t, <2>1, <2>2, <2>3 DEF IndexInv, IndexedWhenSucceeded
  <2> QED BY <2>2, <2>4 DEF MemoryInv
<1>3. CASE Succeed
  <2>1. /\ NotAdmission /\ UNCHANGED points /\ indexer.at = "succeed"
        /\ intents' = [intents EXCEPT ![indexer.ev] = "succeeded"]
        /\ indexer' = IdleIndexer
    BY <1>3 DEF Succeed
  <2>2. indexer.ev \in Sources /\ MemoriesOf(indexer.ev) # {} /\ MemoriesOf(indexer.ev) \subseteq points
    BY <1>t, <2>1 DEF IndexInv
  <2>3. intents' \in [Sources -> {"none", "pending", "failed", "succeeded"}]
    BY <1>t, <2>1
  <2>4. AdmissionInv' /\ \A f : MemoriesOf(f)' = MemoriesOf(f)
    BY <1>t, <2>1, <2>3, AdmissionUntouched
  <2>5. \A f \in Sources : intents'[f] = IF f = indexer.ev THEN "succeeded" ELSE intents[f]
    BY <1>t, <2>1
  <2>6. IndexInv'
    BY <1>t, <2>1, <2>2, <2>4, <2>5
       DEF IndexInv, IndexedWhenSucceeded, IdleIndexer, NotAdmission, memoryRows
  <2> QED BY <2>4, <2>6 DEF MemoryInv
<1>4. CASE ProjectionFails
  <2>1. /\ NotAdmission /\ UNCHANGED points /\ indexer.at \in {"upsert", "succeed"}
        /\ intents' = [intents EXCEPT ![indexer.ev] = "failed"]
        /\ indexer' = IdleIndexer
    BY <1>4 DEF ProjectionFails
  <2>2. indexer.ev \in Sources /\ MemoriesOf(indexer.ev) # {}
    BY <1>t, <2>1 DEF IndexInv
  <2>3. intents' \in [Sources -> {"none", "pending", "failed", "succeeded"}]
    BY <1>t, <2>1
  <2>4. AdmissionInv' /\ \A f : MemoriesOf(f)' = MemoriesOf(f)
    BY <1>t, <2>1, <2>3, AdmissionUntouched
  <2>5. \A f \in Sources : intents'[f] = IF f = indexer.ev THEN "failed" ELSE intents[f]
    BY <1>t, <2>1
  <2>6. IndexInv'
    BY <1>t, <2>1, <2>2, <2>4, <2>5
       DEF IndexInv, IndexedWhenSucceeded, IdleIndexer, NotAdmission, memoryRows
  <2> QED BY <2>4, <2>6 DEF MemoryInv
<1> QED BY <1>1, <1>2, <1>3, <1>4

\* A rebuild first makes every intent pending, so none has succeeded as it
\* drops the points; nor does one if it dies in between.
LEMMA RebuildKeeps ==
    ASSUME MemoryInv, ResetQueue \/ WipeIndex \/ IndexerDies
    PROVE  MemoryInv'
<1>t. AdmissionInv /\ IndexInv /\ intents \in [Sources -> {"none", "pending", "failed", "succeeded"}]
  BY DEF MemoryInv, AdmissionInv, MemoryTypeOK
<1>1. CASE ResetQueue
  <2>1. /\ NotAdmission /\ UNCHANGED points /\ indexer' = [at |-> "wipe", ev |-> NoSource]
        /\ intents' = [e \in Sources |-> IF MemoriesOf(e) # {} THEN "pending" ELSE "none"]
    BY <1>1 DEF ResetQueue, Indexer
  <2>2. intents' \in [Sources -> {"none", "pending", "failed", "succeeded"}]
    BY <2>1
  <2>3. AdmissionInv' /\ \A f : MemoriesOf(f)' = MemoriesOf(f)
    BY <1>t, <2>1, <2>2, AdmissionUntouched
  <2>4. \A f \in Sources : /\ intents'[f] # "succeeded"
                           /\ intents'[f] # "none" => MemoriesOf(f) # {}
    BY <2>1
  <2>5. IndexInv'
    BY <1>t, <2>1, <2>3, <2>4 DEF IndexInv, IndexedWhenSucceeded, NotAdmission, memoryRows
  <2> QED BY <2>3, <2>5 DEF MemoryInv
<1>2. CASE WipeIndex
  <2>1. /\ NotAdmission /\ UNCHANGED intents /\ indexer.at = "wipe" /\ indexer' = IdleIndexer
        /\ points' = {}
    BY <1>2 DEF WipeIndex
  <2>2. AdmissionInv' /\ \A f : MemoriesOf(f)' = MemoriesOf(f)
    BY <1>t, <2>1, AdmissionUntouched
  <2>3. IndexInv'
    BY <1>t, <2>1, <2>2 DEF IndexInv, IndexedWhenSucceeded, IdleIndexer
  <2> QED BY <2>2, <2>3 DEF MemoryInv
<1>3. CASE IndexerDies
  <2>1. NotAdmission /\ UNCHANGED indexRows /\ indexer' = IdleIndexer
    BY <1>3 DEF IndexerDies
  <2>2. AdmissionInv' /\ \A f : MemoriesOf(f)' = MemoriesOf(f)
    BY <1>t, <2>1, AdmissionUntouched DEF indexRows
  <2>3. IndexInv'
    BY <1>t, <2>1, <2>2
       DEF IndexInv, IndexedWhenSucceeded, IdleIndexer, indexRows, NotAdmission, memoryRows
  <2> QED BY <2>2, <2>3 DEF MemoryInv
<1> QED BY <1>1, <1>2, <1>3

-----------------------------------------------------------------------------
\* Every step of the plane keeps the invariant.
LEMMA MemoryStep == MemoryInv /\ [MemoryNext]_memoryVars => MemoryInv'
<1> SUFFICES ASSUME MemoryInv, [MemoryNext]_memoryVars PROVE MemoryInv'
  OBVIOUS
<1>1. CASE UNCHANGED memoryVars
  BY <1>1 DEF memoryVars, memoryRows, indexRows, MemoryInv, AdmissionInv, IndexInv, MemoryTypeOK,
     JobsOwnDrafts, JobsAreNew, MemoryIsFrozenDraft, IndexedWhenSucceeded, MemoriesOf
<1>2. ASSUME NEW r \in Runners,
             \/ \E e \in Sources : AdmissionDenied(r, e) \/ Admits(r, e)
             \/ RegisterJob(r) \/ LookAtJob(r) \/ FreezeJob(r) \/ CompleteJob(r) \/ HookFails(r)
      PROVE  MemoryInv'
  <2>1. AdmissionInv /\ IndexInv
    BY DEF MemoryInv
  <2>2. /\ AdmissionInv'
        /\ memories \subseteq memories'
        /\ \A e \in Sources : jobs[e].state = "done" => jobs'[e] = jobs[e]
        /\ UNCHANGED <<indexRows, indexer>>
    BY <1>2, <2>1, AdmissionSteps
  <2> QED BY <2>1, <2>2, IndexKeeps DEF MemoryInv
<1> QED BY <1>1, <1>2, EnqueueKeeps, WorkerKeeps, RebuildKeeps DEF MemoryNext

\* The inductive invariant holds whenever the plane runs.
THEOREM MemoryInvariant == MemorySpec => []MemoryInv
  BY InitMemory, MemoryStep, PTL DEF MemorySpec

\* A memory is exactly the draft that was frozen first, at any time of any
\* interleaving of replays, failures and crashes (ADR-0023).
THEOREM FrozenDraftsBecomeMemories == MemorySpec => []MemoryIsFrozenDraft
<1>1. MemoryInv => MemoryIsFrozenDraft
  BY DEF MemoryInv, AdmissionInv
<1> QED BY <1>1, MemoryInvariant, PTL

\* An intent that succeeded has its memory in the index, whatever rebuild,
\* failure or crash came in between.
THEOREM SucceededIsIndexed == MemorySpec => []IndexedWhenSucceeded
<1>1. MemoryInv => IndexedWhenSucceeded
  BY DEF MemoryInv, IndexInv
<1> QED BY <1>1, MemoryInvariant, PTL

-----------------------------------------------------------------------------
\* A row the LCE may be given: it has a summary and independent support.
Compilable(t) == t.told /\ Independent(Handoff(t))

ThreadInv ==
    /\ threads = [q \in Questions |-> threads[q]]
    /\ retiredThreads \subseteq baselines
    /\ \A b \in baselines : Compilable(b[2])
    /\ applying.at \in {"compile", "retire"} =>
         /\ applying.left \subseteq Questions
         /\ \A q \in applying.left : Compilable(threads[q])
    /\ applying.at = "retire" =>
         /\ applying.line \in Questions \ applying.left
         /\ <<applying.line, threads[applying.line]>> \in baselines

\* Rows change only while nothing is compiled.
LEMMA EventsKeep ==
    ASSUME ThreadInv, TurnCommits \/ Event \/ Closes \/ ApplyBreaks
                      \/ (\E q \in Questions : Abandons(q))
    PROVE  ThreadInv'
<1>1. NotApplying.at = "idle"
  BY DEF NotApplying
<1>2. UNCHANGED <<baselines, retiredThreads>>
  <2>1. CASE TurnCommits \/ Closes \/ ApplyBreaks \/ (\E q \in Questions : Abandons(q))
    BY <2>1 DEF TurnCommits, Closes, ApplyBreaks, Abandons
  <2>2. ASSUME NEW q, NEW s, Tracks(q, s) \/ TracksOn(q, s) \/ Resolves(q, s)
        PROVE  UNCHANGED <<baselines, retiredThreads>>
    BY <2>2 DEF InEvents, Tracks, TracksOn, Resolves
  <2> QED BY <2>1, <2>2 DEF Event
<1>3. \A q, t : Put(q, t) => threads' = [p \in Questions |-> threads'[p]]
  BY DEF Put, ThreadInv
<1>4. \A l, q, left : Applying(l, q, left) => applying'.at = l
  BY DEF Applying
<1>5. CASE TurnCommits
  <2>1. UNCHANGED threads /\ applying'.at = "events"
    BY <1>4, <1>5 DEF TurnCommits
  <2> QED BY <1>2, <2>1 DEF ThreadInv
<1>6. CASE Closes
  <2>1. threads' = [p \in Questions |-> threads'[p]] /\ applying'.at = "events"
    BY <1>3, <1>4, <1>6 DEF Closes
  <2> QED BY <1>2, <2>1 DEF ThreadInv
<1>7. CASE ApplyBreaks
  <2>1. UNCHANGED threads /\ applying'.at = "idle"
    BY <1>1, <1>7 DEF ApplyBreaks
  <2> QED BY <1>2, <2>1 DEF ThreadInv
<1>8. ASSUME NEW q \in Questions, Abandons(q) PROVE ThreadInv'
  <2>1. threads' = [p \in Questions |-> threads'[p]] /\ applying'.at = "idle"
    BY <1>1, <1>3, <1>8 DEF Abandons
  <2> QED BY <1>2, <2>1 DEF ThreadInv
<1>9. ASSUME NEW q \in Questions, NEW s \in Signals,
             \/ Tracks(q, s)
             \/ \E m \in Matches(q) \ {"none"} : TracksOn(m, s) \/ Resolves(m, s)
      PROVE  ThreadInv'
  <2>1. applying'.at \in {"idle", "events", "resolve"}
    BY <1>1, <1>4, <1>9 DEF Tracks, TracksOn, Resolves, InEvents
  <2>2. threads' = threads \/ \E m, t : Put(m, t)
    BY <1>9 DEF Tracks, TracksOn, Resolves
  <2>3. threads' = [p \in Questions |-> threads'[p]]
    BY <1>3, <2>2 DEF ThreadInv
  <2> QED BY <1>2, <2>1, <2>3 DEF ThreadInv
<1> QED BY <1>5, <1>6, <1>7, <1>8, <1>9 DEF Event

\* What is on the list of a turn is as it was when the list was made, until it
\* is compiled; what is removed is what was compiled.
LEMMA CompilingKeeps ==
    ASSUME ThreadInv, EventsDone \/ TurnWithoutSignal \/ Retires \/ AppliesDone
                      \/ (\E q \in Questions : Compiles(q))
    PROVE  ThreadInv'
<1>1. CASE EventsDone \/ TurnWithoutSignal
  <2>1. /\ applying' = [at |-> "compile", line |-> "none", left |-> CompileList]
        /\ UNCHANGED <<threads, baselines, retiredThreads>>
    BY <1>1 DEF EventsDone, TurnWithoutSignal, Applying
  <2>2. CompileList \subseteq Questions /\ \A q \in CompileList : Compilable(threads[q])
    BY DEF CompileList, Compilable, Present
  <2> HIDE DEF CompileList
  <2> QED BY <2>1, <2>2 DEF ThreadInv
<1>2. ASSUME NEW q \in Questions, Compiles(q) PROVE ThreadInv'
  <2>1. /\ applying.at = "compile" /\ q \in applying.left
        /\ UNCHANGED <<threads, retiredThreads>>
    BY <1>2 DEF Compiles
  <2>2. Compilable(threads[q])
    BY <2>1 DEF ThreadInv
  <2>3. CASE /\ baselines' = baselines \cup {<<q, threads[q]>>}
             /\ applying' = [at |-> "retire", line |-> q, left |-> applying.left \ {q}]
    BY <2>1, <2>2, <2>3 DEF ThreadInv
  <2>4. CASE /\ UNCHANGED baselines
             /\ applying' = [at |-> "compile", line |-> "none", left |-> applying.left \ {q}]
    BY <2>1, <2>4 DEF ThreadInv
  <2> QED BY <1>2, <2>3, <2>4 DEF Compiles, Applying
<1>3. CASE Retires
  <2> DEFINE q == applying.line
  <2>1. /\ applying.at = "retire"
        /\ retiredThreads' = retiredThreads \cup {<<q, threads[q]>>}
        /\ threads' = [threads EXCEPT ![q] = NoThread]
        /\ applying' = [at |-> "compile", line |-> "none", left |-> applying.left]
        /\ UNCHANGED baselines
    BY <1>3 DEF Retires, Put, Applying
  <2>2. \A p \in applying.left : threads'[p] = threads[p]
    BY <2>1 DEF ThreadInv
  <2>3. threads' = [p \in Questions |-> threads'[p]]
    BY <2>1 DEF ThreadInv
  <2> QED BY <2>1, <2>2, <2>3 DEF ThreadInv
<1>4. CASE AppliesDone
  BY <1>4 DEF AppliesDone, NotApplying, ThreadInv
<1> QED BY <1>1, <1>2, <1>3, <1>4

\* A thread is removed only after the LCE accepted it as it then stood, and
\* what the LCE accepted rests on two interactions (ADR-0028).
THEOREM CompiledFirst == ThreadSpec => []CompiledBeforeRetired
<1>1. ThreadInit => ThreadInv
  BY DEF ThreadInit, ThreadInv, NotApplying
<1>2. ThreadInv /\ [ThreadNext]_threadVars => ThreadInv'
  <2>1. ThreadInv /\ UNCHANGED threadVars => ThreadInv'
    BY DEF threadVars, ThreadInv
  <2>2. ThreadInv /\ ThreadNext => ThreadInv'
    BY EventsKeep, CompilingKeeps DEF ThreadNext
  <2> QED BY <2>1, <2>2
<1>3. ThreadInv => CompiledBeforeRetired
  BY DEF ThreadInv, Compilable, Independent, CompiledBeforeRetired
<1> QED BY <1>1, <1>2, <1>3, PTL DEF ThreadSpec
==============================================================================
