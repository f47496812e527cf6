----------------------------- MODULE MemoryThread -----------------------------
(***************************************************************************)
(* ThreadAutoUpdateService after the commit of a turn: the semantic events *)
(* the turn accepted open, update or resolve threads - one row per line of *)
(* attention, with a bounded support of canonical memories - and every     *)
(* mature thread is compiled into an LCE baseline and then removed. Each   *)
(* row is written on its own; an exception drops the rest of the turn's    *)
(* work, and the process may die between two writes.                       *)
(***************************************************************************)
EXTENDS Naturals, FiniteSets

CONSTANTS Questions,         \* open questions; the identity of a thread is its question
          MaxSupport,        \* MAX_THREAD_CURRENT_SUPPORT
          MaxThreadTurns,    \* bound: turns
          MaxThreadFaults    \* bound: crashes and LCE failures

ASSUME ThreadAssumption ==
    MaxSupport \in Nat \ {0} /\ MaxThreadTurns \in Nat /\ MaxThreadFaults \in Nat

VARIABLES
    (* durable *)
    threads,       \* memory_threads, by question
    baselines,     \* external: what the LCE accepted, question and thread
    (* the process *)
    turnCount,     \* committed turns; a turn's memories are its one interaction
    applying,      \* where apply is, the threads it has still to compile
    threadFaults,
    (* observation *)
    retiredThreads \* rows removed as compiled

threadVars == <<threads, baselines, turnCount, applying, threadFaults, retiredThreads>>

NoThread  == [status |-> "none"]
Present   == {q \in Questions : threads[q] # NoThread}
OpenLines == {q \in Present : threads[q].status = "open"}

Handoff(t) == {t.origin} \cup t.support

\* Seeded fault: two memories make a thread mature, of one turn or not.
Independent_AnySupport(S) == S # {}
\* Support from two admitted interactions.
Independent(S) == Cardinality(S) >= 2

\* The last MaxSupport of the working set; a later turn's memories come last.
Merged(t) == LET S == t.support \cup {turnCount} IN
             {i \in S : Cardinality({j \in S : j > i}) < MaxSupport}

NotApplying == [at |-> "idle", line |-> "none", left |-> {}]
Applying(step, q, left) == applying' = [at |-> step, line |-> q, left |-> left]
Put(q, t) == threads' = [threads EXCEPT ![q] = t]
ThreadBreaks == threadFaults < MaxThreadFaults /\ threadFaults' = threadFaults + 1
Signals == [summary : BOOLEAN, mature : BOOLEAN]

\* _best_match among the open threads: the words of another line may match
\* as well as the same question does.
Matches(q) == IF q \in OpenLines THEN OpenLines ELSE OpenLines \cup {"none"}

TurnCommits ==
    /\ applying.at = "idle" /\ turnCount < MaxThreadTurns
    /\ turnCount' = turnCount + 1
    /\ Applying("events", "none", {})
    /\ UNCHANGED <<threads, baselines, threadFaults, retiredThreads>>

InEvents ==
    /\ applying.at = "events"
    /\ UNCHANGED <<baselines, turnCount, threadFaults, retiredThreads>>

\* TRACK, no thread matches. A row of that identity that is not OPEN is a
\* MemoryProductConflict: nothing else of the turn is applied.
Tracks(q, s) ==
    /\ InEvents /\ "none" \in Matches(q)
    /\ IF threads[q] = NoThread
       THEN /\ Put(q, [status |-> "open", origin |-> turnCount, support |-> {turnCount},
                       told |-> s.summary, mature |-> FALSE, at |-> turnCount])
            /\ UNCHANGED applying
       ELSE UNCHANGED threads /\ applying' = NotApplying

\* TRACK of a line that is open: its working set is replaced.
TracksOn(q, s) ==
    LET t       == threads[q]
        support == Merged(t)
        told    == t.told \/ s.summary
        ready   == Independent({t.origin} \cup support)
        mature  == \/ t.mature /\ Independent(Handoff(t))
                   \/ told /\ ready /\ (s.mature \/ support # t.support)
        u       == [t EXCEPT !.support = support, !.told = told, !.mature = mature /\ ready] IN
    /\ InEvents
    /\ Put(q, IF u = t THEN t ELSE [u EXCEPT !.at = turnCount])
    /\ UNCHANGED applying

\* RESOLVE of an open line: its working set first. Maturity without a summary raises,
Resolves(q, s) ==
    LET t       == threads[q]
        support == Merged(t)
        told    == t.told \/ s.summary
        ready   == Independent({t.origin} \cup support)
        mature  == \/ t.mature /\ Independent(Handoff(t))
                   \/ ready /\ (s.summary \/ s.mature)
        u       == [t EXCEPT !.support = support, !.told = told, !.mature = mature] IN
    /\ InEvents
    /\ IF mature /\ ~told
       THEN UNCHANGED threads /\ applying' = NotApplying
       ELSE /\ Put(q, IF u = t THEN t ELSE [u EXCEPT !.at = turnCount])
            /\ Applying("resolve", q, {})

\* then its status; a summary and independent support make it mature.
Closes ==
    LET q == applying.line
        t == threads[q] IN
    /\ applying.at = "resolve"
    /\ Put(q, [t EXCEPT !.status = "resolved", !.at = turnCount,
                        !.mature = t.told /\ Independent(Handoff(t))])
    /\ Applying("events", "none", {})
    /\ UNCHANGED <<baselines, turnCount, threadFaults, retiredThreads>>

Event == \E q \in Questions, s \in Signals :
           \/ Tracks(q, s)
           \/ \E m \in Matches(q) \ {"none"} : TracksOn(m, s) \/ Resolves(m, s)

\* The events are done: what is mature now is compiled, in the order of the rows.
CompileList ==
    {q \in Present : /\ threads[q].status \in {"open", "resolved"}
                     /\ threads[q].mature /\ threads[q].told /\ Independent(Handoff(threads[q]))}
EventsDone ==
    /\ applying.at = "events"
    /\ Applying("compile", "none", CompileList)
    /\ UNCHANGED <<threads, baselines, turnCount, threadFaults, retiredThreads>>

\* A turn without a signal, or whose events have no active memory, only compiles.
TurnWithoutSignal ==
    /\ applying.at = "idle"
    /\ Applying("compile", "none", CompileList)
    /\ UNCHANGED <<threads, baselines, turnCount, threadFaults, retiredThreads>>

\* Seeded fault: the thread is removed whatever the LCE answers.
Compiles_Regardless(q) ==
    /\ applying.at = "compile" /\ q \in applying.left
    /\ baselines' \in {baselines, baselines \cup {<<q, threads[q]>>}}
    /\ Applying("retire", q, applying.left \ {q})
    /\ UNCHANGED <<threads, turnCount, threadFaults, retiredThreads>>

\* The LCE accepts the thread as its row says, or answers None and it stays.
Compiles(q) ==
    /\ applying.at = "compile" /\ q \in applying.left
    /\ \/ /\ baselines' = baselines \cup {<<q, threads[q]>>}
          /\ Applying("retire", q, applying.left \ {q})
       \/ /\ Applying("compile", "none", applying.left \ {q})
          /\ UNCHANGED baselines
    /\ UNCHANGED <<threads, turnCount, threadFaults, retiredThreads>>

\* retire_compiled_thread.
Retires ==
    LET q == applying.line IN
    /\ applying.at = "retire"
    /\ retiredThreads' = retiredThreads \cup {<<q, threads[q]>>}
    /\ Put(q, NoThread)
    /\ Applying("compile", "none", applying.left)
    /\ UNCHANGED <<baselines, turnCount, threadFaults>>

AppliesDone ==
    /\ applying.at = "compile" /\ applying.left = {}
    /\ applying' = NotApplying
    /\ UNCHANGED <<threads, baselines, turnCount, threadFaults, retiredThreads>>

\* A store or the LCE raises, or the process dies: the turn stays committed.
ApplyBreaks ==
    /\ applying # NotApplying /\ ThreadBreaks
    /\ applying' = NotApplying
    /\ UNCHANGED <<threads, baselines, turnCount, retiredThreads>>

\* abandon_thread, between turns.
Abandons(q) ==
    /\ applying = NotApplying /\ q \in OpenLines
    /\ Put(q, [threads[q] EXCEPT !.status = "abandoned"])
    /\ UNCHANGED <<baselines, turnCount, applying, threadFaults, retiredThreads>>

ThreadInit ==
    /\ threads = [q \in Questions |-> NoThread] /\ baselines = {}
    /\ turnCount = 0 /\ applying = NotApplying /\ threadFaults = 0
    /\ retiredThreads = {}

ThreadNext ==
    \/ TurnCommits \/ TurnWithoutSignal \/ Event \/ Closes
    \/ EventsDone \/ Retires \/ AppliesDone \/ ApplyBreaks
    \/ \E q \in Questions : Compiles(q) \/ Abandons(q)

ThreadSpec == ThreadInit /\ [][ThreadNext]_threadVars

-----------------------------------------------------------------------------
\* ADR-0028: a thread leaves the working set only after the LCE accepted it as
\* it then stood, and what the LCE accepted rests on at least two interactions;
\* "if compilation fails, the thread remains available".
CompiledBeforeRetired ==
    /\ retiredThreads \subseteq baselines
    /\ \A b \in baselines : b[2].told /\ Cardinality(Handoff(b[2])) >= 2
==============================================================================
