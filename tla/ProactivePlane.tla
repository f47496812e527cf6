---------------------------- MODULE ProactivePlane ----------------------------
(***************************************************************************)
(* The durable intent store under three kinds of pass that decide its      *)
(* candidates - the Host's cognitive ticker, the ticker of the daemon's    *)
(* subprocess and the turn pipeline - and the Host adapter that turns the  *)
(* wake of an allowed intent into guarded prose: admission, context,       *)
(* Guard, delivery by the Body, commit or abort, with the LCE material     *)
(* reserved for the wake. The Host's tick, its turns and the adapter share *)
(* a thread (a sqlite3 connection serves the thread that opened it); the   *)
(* daemon is another process. Every store transaction is a step, either    *)
(* process may die between two of them, and what the Host keeps in memory  *)
(* (contexts, consumed wakes, results) dies with it.                       *)
(***************************************************************************)
EXTENDS Integers, Sequences, FiniteSets

CONSTANTS Kinds,      \* intent kinds, one engine and one policy rule each
          Rules,      \* the kinds a process's configuration has rules for
          Inspired,   \* the kinds a wake of which reserves a material
          Life,       \* expires_after of a kind's rule, 0 for none
          Materials,  \* LCE inspiration materials
          Nothing,    \* no wake, no context, no material
          MaxNow,     \* bound: instants, one per fresh pass
          MaxFaults   \* bound: crashes, storage faults and LCE faults

Instants == 1 .. MaxNow
Ids      == Kinds \X Instants         \* a rule's intent of the pass at an instant
Wakes    == [at : Instants, intent : Ids, version : Nat]
Proses   == [intent : Ids, material : Materials \cup {Nothing}, sent : BOOLEAN]
\* How far the commit of a wake got.
CommitSteps == Instants \X {"consume", "delete", "finish"}

ASSUME ProactiveAssumption ==
    /\ Inspired \subseteq Kinds /\ Rules \in [{"host", "daemon", "turn"} -> SUBSET Kinds]
    /\ Life \in [Kinds -> Nat]
    /\ Nothing \notin Materials \cup Wakes \cup Proses \cup CommitSteps
    /\ MaxNow \in Nat /\ MaxFaults \in Nat

Actors   == {"host", "daemon", "turn"}
Tickers  == {"host", "daemon"}

VARIABLES
    (* durable *)
    intentHistory, \* versions of an intent: status and idempotency key
    due,           \* its due_at, 0 for none
    lce,           \* status of a material in LCE
    reserved,      \* material_reservations: the material a wake reserved
    (* the processes *)
    pass,          \* the pass an actor is in
    signal,        \* WakeSignals handed to the Body
    wakeCtx,       \* CognitiveTicker._pending_wake_contexts
    hostCtx,       \* MindRuntimeHostAdapter._pending_wake_contexts
    consumedWakes, \* _consumed_wakes
    exec,          \* _pending_exec_contexts
    admission,     \* _guard_admissions
    result,        \* _proactive_turn_results
    commit,        \* a commit between its transition and its result
    (* environment and observations *)
    now, faults,
    sent,          \* times the Body delivered prose for an intent
    verdicts,      \* Guard verdicts on a wake's prose since its last begin
    overlap,       \* a pass began while another was under way
    retried        \* wakes whose preparation failed, which released their material

store     == <<intentHistory, due>>
material  == <<lce, reserved>>
adapter   == <<hostCtx, consumedWakes, exec, admission, result, commit>>
observed  == <<sent, verdicts, overlap, retried>>
planeVars == <<store, material, pass, signal, wakeCtx, adapter, now, faults, observed>>

-----------------------------------------------------------------------------
(* The intent lifecycle.                                                   *)

Active == {"CANDIDATE", "DEFERRED", "ALLOWED"}

Legal(from) ==
    CASE from = "CANDIDATE" -> {"ALLOWED", "DEFERRED", "BLOCKED", "EXPIRED", "SUPERSEDED"}
      [] from = "DEFERRED"  -> {"CANDIDATE", "EXPIRED", "SUPERSEDED"}
      [] from = "ALLOWED"   -> {"COMPLETED", "SUPERSEDED"}
      [] OTHER              -> {}

Exists(i)  == intentHistory[i] # <<>>
Version(i) == Len(intentHistory[i])
Status(i)  == IF Exists(i) THEN intentHistory[i][Version(i)].status ELSE "ABSENT"
At(st)     == {i \in Ids : Status(i) = st}

\* expires_at: the rule's lifetime after due_at, or after the pass that bore it.
Expiry(i) == IF Life[i[1]] = 0 THEN MaxNow + 1
             ELSE Life[i[1]] + IF due[i] = 0 THEN i[2] ELSE due[i]

\* The status a transition asks for. Its idempotency key names who asks for
\* what; it also holds the version the caller had read.
Goal(what) ==
    CASE what = "allow"                          -> "ALLOWED"
      [] what = "defer"                          -> "DEFERRED"
      [] what \in {"deny", "block"}              -> "BLOCKED"
      [] what \in {"supersede", "reject", "abort"} -> "SUPERSEDED"
      [] what = "expire"                         -> "EXPIRED"
      [] what = "due"                            -> "CANDIDATE"
      [] what \in {"commit", "receipt"}          -> "COMPLETED"

Entry(tag, v) == [status |-> Goal(tag[2]), key |-> <<tag, v>>]

\* A key the history holds is a replay: the recorded version is returned.
Replays(i, tag, v) ==
    \E k \in 2 .. Version(i) : intentHistory[i][k].key = <<tag, v>>

\* Seeded fault: the transition trusts the status its caller had read.
Accepted_Stale(i, tag, v) == Replays(i, tag, v) \/ Goal(tag[2]) \in Legal(intentHistory[i][v].status)

\* transition() reads the history again, and refuses an illegal step.
Accepted(i, tag, v) == Replays(i, tag, v) \/ Goal(tag[2]) \in Legal(Status(i))

Transitioned(i, tag, v) ==
    IF Replays(i, tag, v) THEN intentHistory
    ELSE [intentHistory EXCEPT ![i] = Append(@, Entry(tag, v))]

Transition(i, tag, v) ==
    /\ Accepted(i, tag, v)
    /\ intentHistory' = Transitioned(i, tag, v)

\* Seeded fault: a replay is taken for a transition of its own.
Returned_Next(i, tag, v) == Version(i) + 1

\* The version of the intent a transition returns.
Returned(i, tag, v) ==
    IF Replays(i, tag, v)
    THEN CHOOSE k \in 2 .. Version(i) : intentHistory[i][k].key = <<tag, v>>
    ELSE Version(i) + 1

Breaks == faults < MaxFaults /\ faults' = faults + 1

-----------------------------------------------------------------------------
(* A pass. "list" holds the intents it still has to treat, with the version*)
(* it read, "late" the due ones it treats after them, "fresh" the          *)
(* candidates of the engine not admitted yet, "engine" the ids of all of   *)
(* them and "pick" the intent it allowed.                                  *)

Listed(is) == {<<i, Version(i)>> : i \in is}
Pass(l, n) == [at |-> l, now |-> n, list |-> {}, late |-> {}, fresh |-> {},
               engine |-> {}, pick |-> Nothing]
Idle(n)    == Pass("idle", n)
Over       == Idle(0)

In(a, l)     == pass[a].at = l
Clock(a)     == pass[a].now
Turned(a, p) == pass' = [pass EXCEPT ![a] = p]
Tag(a, what) == <<IF a = "turn" THEN "turn" ELSE "tick", what>>

\* A pass with nothing left to decide is over, unless it has a wake to hand out.
Onward(a, p) ==
    Turned(a, IF p.list = {} /\ (p.pick = Nothing \/ a # "host") THEN Over ELSE p)

Quiet == UNCHANGED <<due, material, signal, wakeCtx, adapter, now, faults, observed>>

\* The Host's thread is free for a pass or for a call of the Body.
HostFree == In("host", "idle") /\ In("turn", "idle") /\ commit = Nothing

Starts(a, n) ==
    /\ IF a = "daemon" THEN In(a, "idle") ELSE HostFree
    /\ now' = IF n > now THEN n ELSE now
    /\ overlap' = (overlap \/ \E b \in Actors \ {a} : ~In(b, "idle"))

\* IntentScheduler.tick: one snapshot fixes what is expired and what is due.
ScheduleExpired(n) == {i \in At("CANDIDATE") \cup At("DEFERRED") : Expiry(i) <= n}
ScheduleDue(n)     == {i \in At("DEFERRED") : due[i] # 0 /\ due[i] <= n}

\* CognitiveTicker.tick at a new instant; the Host drives again the instant of a
\* pass that failed.
Again(a) == IF a = "host" THEN {Clock(a)} ELSE {}

StartTick(a) ==
    /\ \E n \in ({now + 1} \cup Again(a)) \cap Instants :
         /\ Starts(a, n)
         /\ Turned(a, [Pass("schedule", n) EXCEPT
                         !.list = Listed(ScheduleExpired(n)),
                         !.late = Listed(ScheduleDue(n) \ ScheduleExpired(n))])
    /\ UNCHANGED <<store, material, signal, wakeCtx, adapter, faults, sent, verdicts, retried>>

Expire(a, x) ==
    /\ In(a, "schedule") /\ x \in pass[a].list
    /\ Transition(x[1], <<"scheduler", "expire">>, x[2])
    /\ Turned(a, [pass[a] EXCEPT !.list = @ \ {x}])
    /\ Quiet

\* A due intent becomes a candidate again; it is not executed.
Promote(a, x) ==
    /\ In(a, "schedule") /\ pass[a].list = {} /\ x \in pass[a].late
    /\ Transition(x[1], <<"scheduler", "due">>, x[2])
    /\ Turned(a, [pass[a] EXCEPT !.late = @ \ {x}])
    /\ Quiet

\* Seeded fault: the kinds that are still active are not dropped.
NewOf_NoDedupe(ks, n) == {i \in ks \X {n} : ~Exists(i)}
\* _decide reads the active kinds and what is known of the engine's candidates:
\* one that is known and still a candidate was left by a pass of this instant
\* that failed; one of an active kind is dropped.
NewOf(ks, n) ==
    {i \in ks \X {n} : /\ ~Exists(i)
                       /\ \A j \in Ids : j[1] = i[1] => Status(j) \notin Active}

Evaluate(a, ks) ==
    /\ In(a, "schedule") /\ pass[a].list = {} /\ pass[a].late = {}
    /\ LET n == Clock(a) IN
         Turned(a, [pass[a] EXCEPT !.at = "admit", !.engine = ks \X {n},
                      !.fresh = NewOf(ks, n),
                      !.list = Listed((ks \X {n}) \cap At("CANDIDATE"))])
    /\ Quiet /\ UNCHANGED intentHistory

\* The turn's engine: an event of the turn may give its intents a due_at.
StartTurn(ks, d) ==
    /\ now < MaxNow /\ ks # {}
    /\ LET n == now + 1
           new == ks \X {n} IN
         /\ Starts("turn", n)
         /\ Turned("turn", [Pass("admit", n) EXCEPT !.fresh = new, !.engine = new])
         /\ due' = [i \in Ids |-> IF i \in new THEN d ELSE due[i]]
    /\ UNCHANGED <<intentHistory, material, signal, wakeCtx, adapter, faults, sent, verdicts,
                   retried>>

Admit(a, i) ==
    /\ In(a, "admit") /\ i \in pass[a].fresh
    /\ intentHistory' = [intentHistory EXCEPT
         ![i] = <<[status |-> "CANDIDATE", key |-> <<Tag(a, "admit"), 0>>]>>]
    /\ Turned(a, [pass[a] EXCEPT !.fresh = @ \ {i}, !.list = @ \cup {<<i, 1>>}])
    /\ Quiet

\* The candidates other passes left; a turn decides its own only.
Reconsidered(a) ==
    IF a = "turn" THEN {} ELSE Listed(At("CANDIDATE") \ pass[a].engine)

StartDecide(a) ==
    /\ In(a, "admit") /\ pass[a].fresh = {}
    /\ Onward(a, [pass[a] EXCEPT !.at = "decide", !.list = @ \cup Reconsidered(a)])
    /\ Quiet /\ UNCHANGED intentHistory

\* ActionPolicy: an intent before its earliest_at is deferred, an expired one
\* or one of an unknown kind denied; facts and resources decide the rest.
Policy(a, i) ==
    IF due[i] # 0 /\ Clock(a) < due[i] THEN {"defer"}
    ELSE IF Expiry(i) <= Clock(a) \/ i[1] \notin Rules[a] THEN {"deny"}
    ELSE {"allow", "defer"}

Verb(a, decision) == IF a = "turn" /\ decision = "deny" THEN "block" ELSE decision

\* The order is by strength, which the model leaves open.
Decide(a, x) ==
    /\ In(a, "decide") /\ x \in pass[a].list
    /\ \E decision \in Policy(a, x[1]) :
         LET tag  == Tag(a, Verb(a, decision))
             rest == [pass[a] EXCEPT !.list = @ \ {x}] IN
         /\ Transition(x[1], tag, x[2])
         /\ Onward(a, IF decision = "allow"
                      THEN [rest EXCEPT !.at = "lower",
                                        !.pick = <<x[1], Returned(x[1], tag, x[2])>>]
                      ELSE rest)
    /\ Quiet

\* Lower candidates are superseded, whatever became of them since the listing.
SupersedeLower(a, x) ==
    /\ In(a, "lower") /\ x \in pass[a].list
    /\ Transition(x[1], Tag(a, "supersede"), x[2])
    /\ Onward(a, [pass[a] EXCEPT !.list = @ \ {x}])
    /\ Quiet

Reservable == {m \in Materials : lce[m] = "PENDING"} \ {reserved[n] : n \in Instants}

\* reserve_next: what the wake reserved already unless it was consumed since,
\* else the first pending material that no wake reserved.
ReserveNext(n, m) ==
    IF reserved[n] # Nothing
    THEN m = (IF lce[reserved[n]] = "PENDING" THEN reserved[n] ELSE Nothing)
    ELSE IF Reservable = {} THEN m = Nothing ELSE m \in Reservable

\* The Host's ticker hands out the wake and keeps its context in memory. A turn
\* keeps its selection, and the daemon's subprocess prints a report and ends:
\* no one receives its wake.
Wake(n, m) ==
    LET i == pass["host"].pick[1]
        v == pass["host"].pick[2] IN
    /\ In("host", "lower") /\ pass["host"].list = {} /\ n = Clock("host")
    /\ IF i[1] \in Inspired
       THEN ReserveNext(n, m) /\ reserved' = [reserved EXCEPT ![n] = m]
       ELSE m = Nothing /\ UNCHANGED reserved
    /\ signal' = signal \cup {[at |-> n, intent |-> i, version |-> v]}
    /\ wakeCtx' = [wakeCtx EXCEPT ![n] = [intent |-> i, material |-> m]]
    /\ Turned("host", Over)
    /\ UNCHANGED <<store, lce, adapter, now, faults, observed>>

\* The transition a pass is about to make is refused; the pass raises.
Refused(a) ==
    \/ /\ In(a, "schedule")
       /\ \/ \E x \in pass[a].list : ~Accepted(x[1], <<"scheduler", "expire">>, x[2])
          \/ \E x \in pass[a].late : ~Accepted(x[1], <<"scheduler", "due">>, x[2])
    \/ /\ In(a, "lower")
       /\ \E x \in pass[a].list : ~Accepted(x[1], Tag(a, "supersede"), x[2])
    \/ /\ In(a, "decide")
       /\ \E x \in pass[a].list : \E decision \in Policy(a, x[1]) :
            ~Accepted(x[1], Tag(a, Verb(a, decision)), x[2])

Fails(a) == Turned(a, IF a = "host" THEN Idle(Clock(a)) ELSE Over)

Raise(a) ==
    /\ Refused(a)
    /\ Fails(a)
    /\ Quiet /\ UNCHANGED intentHistory

\* reconcile of a receipt SENT completes the intent the turn allowed.
ReceiptComplete(i) ==
    /\ HostFree
    /\ Status(i) = "ALLOWED" /\ \E k \in 1 .. Version(i) : intentHistory[i][k].key[1] = <<"turn", "allow">>
    /\ Transition(i, <<"turn", "receipt">>, Version(i))
    /\ UNCHANGED pass /\ Quiet

-----------------------------------------------------------------------------
(* MindRuntimeHostAdapter and its Body. The Body treats one wake at a time *)
(* and never begins again a wake whose prose it has sent; a wake may be    *)
(* handed to it again at any time, also after a restart.                   *)

\* consume_wake: a wake consumed before is answered from memory, a new one only
\* for the version of the intent that is allowed now.
Eligible(s) ==
    \/ consumedWakes[s.at] = s
    \/ /\ consumedWakes[s.at] = Nothing
       /\ Status(s.intent) = "ALLOWED" /\ Version(s.intent) = s.version

Context(n) == IF hostCtx[n] # Nothing THEN hostCtx[n] ELSE wakeCtx[n]

\* Seeded fault: releasing a wake's material releases every wake's.
Released_All(n) == reserved' = [w \in Instants |-> Nothing]
Released(n) == reserved' = [reserved EXCEPT ![n] = Nothing]
Unsent(n)   == exec[n] # Nothing => ~exec[n].sent
Offered(s)  ==
    /\ s \in signal /\ HostFree /\ Unsent(s.at)
    /\ \A n \in Instants \ {s.at} : exec[n] # Nothing => exec[n].sent

Outside == UNCHANGED <<store, lce, pass, signal, wakeCtx, now, faults, sent, overlap>>

\* A wake with a terminal result is answered from it.
BeginKnown(s) ==
    /\ Offered(s) /\ result[s.at] # "NONE"
    /\ UNCHANGED planeVars

\* Rejected: the reservation of the wake is released.
BeginRejected(s) ==
    /\ Offered(s) /\ result[s.at] = "NONE" /\ ~Eligible(s)
    /\ Released(s.at)
    /\ Outside /\ UNCHANGED <<adapter, verdicts, retried>>

\* Seeded fault: an earlier admission outlives the next begin of its wake.
Consumes_KeepsAdmission(s) ==
    /\ Offered(s) /\ result[s.at] = "NONE" /\ Eligible(s)
    /\ consumedWakes' = [consumedWakes EXCEPT ![s.at] = s]
    /\ verdicts' = [verdicts EXCEPT ![s.at] = {}]
    /\ UNCHANGED admission
Consumes(s) ==
    /\ Offered(s) /\ result[s.at] = "NONE" /\ Eligible(s)
    /\ consumedWakes' = [consumedWakes EXCEPT ![s.at] = s]
    /\ admission' = [admission EXCEPT ![s.at] = "NONE"]
    /\ verdicts' = [verdicts EXCEPT ![s.at] = {}]

\* No context (the process restarted), a preparer that fails, or a rendering
\* that is rejected: the reservation is released, the wake stays consumed.
BeginFails(s) ==
    /\ Consumes(s)
    /\ Released(s.at)
    /\ retried' = retried \cup {s.at}
    /\ \/ Context(s.at) = Nothing /\ UNCHANGED <<hostCtx, exec>>
       \/ /\ Context(s.at) # Nothing
          /\ hostCtx' = [hostCtx EXCEPT ![s.at] = Context(s.at)] /\ UNCHANGED exec
       \/ /\ Context(s.at) # Nothing
          /\ hostCtx' = [hostCtx EXCEPT ![s.at] = Nothing]
          /\ exec' = [exec EXCEPT ![s.at] = Nothing]
    /\ Outside /\ UNCHANGED <<result, commit>>

BeginPrepared(s) ==
    /\ Consumes(s) /\ Context(s.at) # Nothing
    /\ hostCtx' = [hostCtx EXCEPT ![s.at] = Context(s.at)]
    /\ exec' = [exec EXCEPT ![s.at] = [intent |-> Context(s.at).intent,
                                       material |-> Context(s.at).material, sent |-> FALSE]]
    /\ Outside /\ UNCHANGED <<reserved, result, commit, retried>>

\* Seeded fault: the result is not recorded and the ticker keeps its context.
Forget_Half(n, outcome) ==
    /\ admission' = [admission EXCEPT ![n] = "NONE"]
    /\ exec' = [exec EXCEPT ![n] = Nothing]
    /\ hostCtx' = [hostCtx EXCEPT ![n] = Nothing]
    /\ UNCHANGED <<result, wakeCtx, consumedWakes>>
\* The adapter records the result and forgets the wake, the ticker its context.
Forget(n, outcome) ==
    /\ result' = [result EXCEPT ![n] = outcome]
    /\ admission' = [admission EXCEPT ![n] = "NONE"]
    /\ exec' = [exec EXCEPT ![n] = Nothing]
    /\ hostCtx' = [hostCtx EXCEPT ![n] = Nothing]
    /\ wakeCtx' = [wakeCtx EXCEPT ![n] = Nothing]
    /\ UNCHANGED consumedWakes

Guards(n) == HostFree /\ exec[n] # Nothing /\ ~exec[n].sent /\ consumedWakes[n] # Nothing

GuardPasses(n, verdict) ==
    /\ Guards(n)
    /\ admission' = [admission EXCEPT ![n] = verdict]
    /\ verdicts' = [verdicts EXCEPT ![n] = {verdict}]
    /\ Outside /\ UNCHANGED <<reserved, hostCtx, consumedWakes, exec, result, commit, retried>>

Ends(n, what) ==
    /\ Transition(consumedWakes[n].intent, <<"proactive", what>>, consumedWakes[n].version)
    /\ Released(n)
    /\ Forget(n, "ABORTED")
    /\ UNCHANGED <<due, lce, pass, signal, now, faults, commit, sent, overlap, retried>>

\* Rejected prose supersedes the intent and ends the wake.
GuardRejects(n) ==
    /\ Guards(n)
    /\ Ends(n, "reject")
    /\ verdicts' = [verdicts EXCEPT ![n] = {"REJECT"}]

\* The Body delivers the prose the Guard returned to it.
Send(n) ==
    /\ Guards(n) /\ verdicts[n] = {"ACCEPT"}
    /\ exec' = [exec EXCEPT ![n].sent = TRUE]
    /\ sent' = [sent EXCEPT ![exec[n].intent] = @ + 1]
    /\ UNCHANGED <<store, material, pass, signal, wakeCtx, hostCtx, consumedWakes,
                   admission, result, commit, now, faults, verdicts, overlap, retried>>

\* commit_proactive_turn: the Guard's ACCEPT, the intent still allowed at the
\* wake's version, then the transition.
CommitTransition(n) ==
    /\ HostFree /\ result[n] # "COMMITTED"
    /\ consumedWakes[n] # Nothing /\ exec[n] # Nothing /\ admission[n] = "ACCEPT"
    /\ Status(consumedWakes[n].intent) = "ALLOWED"
    /\ Version(consumedWakes[n].intent) = consumedWakes[n].version
    /\ Transition(consumedWakes[n].intent, <<"proactive", "commit">>, consumedWakes[n].version)
    /\ commit' = <<n, "consume">>
    /\ UNCHANGED <<due, material, pass, signal, wakeCtx, hostCtx, consumedWakes, exec, admission,
                   result, now, faults, observed>>

\* LCE accepts the consumption first; an LCE fault is logged and swallowed, and
\* the reservation stays.
ConsumeInspiration(n) ==
    /\ commit = <<n, "consume">>
    /\ \/ /\ reserved[n] = Nothing
          /\ commit' = <<n, "finish">> /\ UNCHANGED <<lce, faults>>
       \/ /\ reserved[n] # Nothing
          /\ lce' = [lce EXCEPT ![reserved[n]] = "CONSUMED"]
          /\ commit' = <<n, "delete">> /\ UNCHANGED faults
       \/ /\ reserved[n] # Nothing /\ Breaks
          /\ commit' = <<n, "finish">> /\ UNCHANGED lce
    /\ UNCHANGED <<store, reserved, pass, signal, wakeCtx, hostCtx, consumedWakes, exec, admission,
                   result, now, observed>>

DeleteReservation(n) ==
    /\ commit = <<n, "delete">>
    /\ Released(n)
    /\ commit' = <<n, "finish">>
    /\ UNCHANGED <<store, lce, pass, signal, wakeCtx, hostCtx, consumedWakes, exec, admission,
                   result, now, faults, observed>>

FinishCommit(n) ==
    /\ commit = <<n, "finish">>
    /\ Forget(n, "COMMITTED")
    /\ commit' = Nothing
    /\ UNCHANGED <<store, material, pass, signal, now, faults, observed>>

\* abort_proactive_turn, when the delivery failed.
Abort(n) ==
    /\ HostFree /\ result[n] = "NONE" /\ consumedWakes[n] # Nothing
    /\ Unsent(n)
    /\ Ends(n, "abort")
    /\ UNCHANGED verdicts

-----------------------------------------------------------------------------
(* Faults.                                                                 *)

Empty == [n \in Instants |-> Nothing]
NoWakes == /\ hostCtx = Empty /\ consumedWakes = Empty /\ exec = Empty /\ commit = Nothing
           /\ admission = [n \in Instants |-> "NONE"]
           /\ result = [n \in Instants |-> "NONE"]

\* The Host process dies: its passes and everything the adapter and the ticker
\* keep in memory are gone.
HostCrash ==
    /\ Breaks
    /\ pass' = [a \in Actors |-> CASE a = "host"   -> Idle(Clock(a))
                                 [] a = "turn"   -> Over
                                 [] a = "daemon" -> pass[a]]
    /\ wakeCtx' = Empty /\ hostCtx' = Empty /\ consumedWakes' = Empty /\ exec' = Empty
    /\ commit' = Nothing
    /\ admission' = [n \in Instants |-> "NONE"] /\ result' = [n \in Instants |-> "NONE"]
    /\ verdicts' = [n \in Instants |-> {}]
    /\ UNCHANGED <<store, material, signal, now, sent, overlap, retried>>

\* A pass dies: the daemon's subprocess ends, or a transaction of the pass fails.
PassDies(a) ==
    /\ ~In(a, "idle") /\ Breaks
    /\ Fails(a)
    /\ UNCHANGED <<store, material, signal, wakeCtx, adapter, now, observed>>

PlaneInit ==
    /\ intentHistory = [i \in Ids |-> <<>>] /\ due = [i \in Ids |-> 0]
    /\ lce = [m \in Materials |-> "PENDING"] /\ reserved = Empty
    /\ pass = [a \in Actors |-> Over]
    /\ signal = {} /\ wakeCtx = Empty /\ NoWakes
    /\ now = 0 /\ faults = 0
    /\ sent = [i \in Ids |-> 0] /\ verdicts = [n \in Instants |-> {}] /\ overlap = FALSE
    /\ retried = {}

TickStep(a) ==
    \/ StartTick(a)
    \/ \E x \in pass[a].list : Expire(a, x)
    \/ \E x \in pass[a].late : Promote(a, x)
    \/ \E ks \in SUBSET Rules[a] : Evaluate(a, ks)

PassStep(a) ==
    \/ \E i \in pass[a].fresh : Admit(a, i)
    \/ StartDecide(a)
    \/ \E x \in pass[a].list : Decide(a, x) \/ SupersedeLower(a, x)
    \/ Raise(a) \/ PassDies(a)

BodyStep ==
    \/ \E s \in signal : BeginKnown(s) \/ BeginRejected(s) \/ BeginFails(s) \/ BeginPrepared(s)
    \/ \E n \in Instants :
         \/ \E verdict \in {"ACCEPT", "REWRITE"} : GuardPasses(n, verdict)
         \/ GuardRejects(n) \/ Send(n) \/ Abort(n)
         \/ CommitTransition(n) \/ ConsumeInspiration(n) \/ DeleteReservation(n)
         \/ FinishCommit(n)

PlaneNext ==
    \/ \E a \in Tickers : TickStep(a)
    \/ \E a \in Actors : PassStep(a)
    \/ \E ks \in SUBSET Rules["turn"], d \in {0, now + 2} : StartTurn(ks, d)
    \/ \E n \in Instants, m \in Materials \cup {Nothing} : Wake(n, m)
    \/ \E i \in Ids : ReceiptComplete(i)
    \/ BodyStep
    \/ HostCrash

PlaneSpec == PlaneInit /\ [][PlaneNext]_planeVars
==============================================================================
