--------------------------- MODULE ProactiveSafety ---------------------------
(* What the intent store, the ticker and the Host adapter promise together. *)
EXTENDS ProactivePlane

Statuses  == Active \cup {"BLOCKED", "EXPIRED", "SUPERSEDED", "COMPLETED"}
Tags      == {"tick", "turn", "scheduler", "proactive"} \X
             {"admit", "allow", "defer", "deny", "block", "supersede", "expire", "due",
              "reject", "abort", "commit", "receipt"}
Versions  == [status : Statuses, key : Tags \X Nat]
PassSteps == {"idle", "schedule", "admit", "decide", "lower"}
Reads     == Ids \X Nat     \* an intent, with a version of it
Passes    == [at : PassSteps, now : 0 .. MaxNow, list : SUBSET Reads, late : SUBSET Reads,
              fresh : SUBSET Ids, engine : SUBSET Ids, pick : Reads \cup {Nothing}]
Inspiring == Materials \cup {Nothing}
Contexts  == [intent : Ids, material : Inspiring]

\* The variables hold what the tables, the passes and the adapter can hold.
PlaneTypeOK ==
    /\ intentHistory \in [Ids -> Seq(Versions)]
    /\ lce \in [Materials -> {"PENDING", "CONSUMED"}]
    /\ reserved \in [Instants -> Inspiring]
    /\ pass \in [Actors -> Passes]
    /\ signal \subseteq Wakes
    /\ consumedWakes \in [Instants -> Wakes \cup {Nothing}]
    /\ wakeCtx \in [Instants -> Contexts \cup {Nothing}]
    /\ hostCtx \in [Instants -> Contexts \cup {Nothing}]
    /\ exec \in [Instants -> Proses \cup {Nothing}]
    /\ admission \in [Instants -> {"NONE", "ACCEPT", "REWRITE"}]
    /\ result \in [Instants -> {"NONE", "ABORTED", "COMMITTED"}]
    /\ commit \in CommitSteps \cup {Nothing}
    /\ now \in 0 .. MaxNow /\ faults \in 0 .. MaxFaults
    /\ sent \in [Ids -> Nat]
    /\ verdicts \in [Instants -> SUBSET {"ACCEPT", "REWRITE", "REJECT"}]
    /\ overlap \in BOOLEAN /\ retried \subseteq Instants

\* Whatever passes interleave and whichever of them acts on a version it read
\* long before, the history of an intent is a legal path of the lifecycle: a
\* stale pass never revives an intent that ended (_LEGAL_TRANSITIONS).
HistoryLegal ==
    \A i \in Ids : \A k \in 2 .. Version(i) :
      intentHistory[i][k].status \in Legal(intentHistory[i][k - 1].status)

\* Prose for an intent is delivered once at most, although a wake may be handed
\* to the Body again, the process may die between delivery and commit, and two
\* tickers may allow intents of the same instant.
SentOnce == \A i \in Ids : sent[i] <= 1

\* A proactive intent is completed only for prose the Guard accepted after the
\* last begin of its wake (the ACCEPT required before commit).
CompletedAfterAccept ==
    commit # Nothing => verdicts[commit[1]] = {"ACCEPT"}

\* The prose a wake prepares refers to a material the store still holds for it:
\* no other wake took it, no replay of a finished wake gave it back. A wake whose
\* preparation failed gave its own back and keeps referring to it.
MaterialHeld ==
    \A n \in Instants :
      exec[n] # Nothing /\ exec[n].material # Nothing /\ n \notin retried
          /\ (commit = Nothing \/ commit[1] # n)
        => reserved[n] = exec[n].material

\* The persistent-condition dedupe: ticks that do not overlap with another pass
\* never leave two active intents of one kind.
TickBorn(i) == Exists(i) /\ intentHistory[i][1].key[1] = <<"tick", "admit">>
OneActivePerKind ==
    ~overlap => \A k \in Kinds :
      Cardinality({i \in Ids : i[1] = k /\ TickBorn(i) /\ Status(i) \in Active}) <= 1

-----------------------------------------------------------------------------
(* What the promises rest on. *)

\* An intent that was allowed once: it is allowed still, or has ended for good.
Spent(i) == Status(i) \in {"ALLOWED", "COMPLETED", "SUPERSEDED"}

\* A version records what its key asked for; intents date from passes that began;
\* none is a candidate again after it was allowed.
HistoryKept ==
    \A i \in Ids :
      /\ Exists(i) => i[2] <= now
      /\ \A k \in 1 .. Version(i) : intentHistory[i][k].status = "ALLOWED" => Spent(i)
      /\ \A k \in 2 .. Version(i) : intentHistory[i][k].status = Goal(intentHistory[i][k].key[1][2])

\* A pass has an instant, no two passes have one in common, and what a pass is
\* about to admit is new.
PassesApart ==
    \A a \in Actors :
      /\ Clock(a) <= now /\ (Clock(a) = 0 => In(a, "idle"))
      /\ \A b \in Actors \ {a} : Clock(a) = Clock(b) => Clock(a) = 0
      /\ \A i \in pass[a].fresh : i[2] = Clock(a) /\ ~Exists(i) /\ ~In(a, "idle")

\* A wake names a version of an intent it allowed; no two wakes share an instant
\* or an intent.
WakesDistinct ==
    /\ \A s \in signal : /\ s.version \in 2 .. Version(s.intent) /\ Spent(s.intent)
                         /\ s.at <= now
    /\ \A s, w \in signal : s.at = w.at \/ s.intent = w.intent => s = w

\* The Host's pass has an instant of its own and treats no intent that has a wake.
PassUnwoken ==
    /\ \A s \in signal : /\ s.at # Clock("host")
                         /\ \A x \in pass["host"].list : x[1] # s.intent
    /\ In("host", "lower") =>
         LET p == pass["host"].pick IN
           /\ p \in Reads /\ p[2] \in 2 .. Version(p[1]) /\ Spent(p[1])
           /\ \A s \in signal : s.intent # p[1]

\* What the ticker and the adapter keep of a wake, each in its own map.
Kept(n) == {wakeCtx[n], hostCtx[n], exec[n]} \ {Nothing}

\* They keep it of wakes that were handed out; the adapter, of those it consumed.
KeptOfWakes ==
    \A n \in Instants :
      /\ consumedWakes[n] # Nothing => consumedWakes[n] \in signal /\ consumedWakes[n].at = n
      /\ \A c \in Kept(n) : \E s \in signal : s.at = n /\ s.intent = c.intent
      /\ hostCtx[n] # Nothing \/ exec[n] # Nothing => consumedWakes[n] # Nothing

\* An intent whose prose was delivered has a wake, and the adapter holds nothing of
\* that wake but prose marked as sent.
SentIsMarked ==
    /\ \A i \in Ids : sent[i] > 0 => \E s \in signal : s.intent = i
    /\ \A n \in Instants : \A c \in Kept(n) :
         sent[c.intent] > 0 => exec[n] # Nothing /\ exec[n].sent

\* The Guard's admission is its last verdict.
AdmissionIsVerdict ==
    \A n \in Instants : admission[n] = "ACCEPT" => verdicts[n] = {"ACCEPT"}

\* The wake at an instant can still be begun.
Beginnable(n) == \E s \in signal : s.at = n /\ Eligible(s)

\* As long as it can, and nothing gave its material back, the material is its own.
MaterialKept ==
    \A n \in Instants :
      Beginnable(n) /\ n \notin retried /\ (commit = Nothing \/ commit[1] # n)
        => \A c \in Kept(n) : c.material # Nothing => reserved[n] = c.material

\* Without overlap one pass is under way, the kinds it admits have no active
\* intent, and no two active intents of a kind came from ticks.
OneAtATime ==
    ~overlap =>
      /\ \A a, b \in Actors : In(a, "idle") \/ In(b, "idle") \/ a = b
      /\ \A a \in Tickers : \A i \in pass[a].fresh : \A j \in Ids :
           j[1] = i[1] => Status(j) \notin Active
      /\ \A i, j \in Ids :
           i[1] = j[1] /\ TickBorn(i) /\ TickBorn(j) /\ Status(i) \in Active /\ Status(j) \in Active
             => i = j

ProactiveInv ==
    /\ PlaneTypeOK /\ HistoryLegal /\ HistoryKept
    /\ PassesApart /\ WakesDistinct /\ PassUnwoken
    /\ KeptOfWakes /\ SentOnce /\ SentIsMarked
    /\ AdmissionIsVerdict /\ CompletedAfterAccept /\ MaterialKept /\ OneAtATime

-----------------------------------------------------------------------------
(* The plane as an IntentContract.                                         *)

HasAllowed(i) == \E k \in 1 .. Version(i) : intentHistory[i][k].status = "ALLOWED"
Granted       == {i \in Ids : HasAllowed(i)}
StatusOf      == [i \in Ids |-> Status(i)]

Intent == INSTANCE IntentContract WITH
    Intents <- Ids, life <- StatusOf, granted <- Granted, told <- sent

\* Two processes that pass over the same versions, wakes that are replayed and
\* commits that die half way come to no more than the plain life of an intent:
\* what a pass decides on a version it read long before is refused or harmless,
\* and no prose goes out for an intent that is complete.
ImplementsIntentContract == Intent!Spec

\* What the refinement rests on. An intent is admitted first and allowed once.
AllowedOnce ==
    \A i \in Ids :
      /\ Exists(i) => intentHistory[i][1].key[1][2] = "admit"
      /\ \A j, k \in 1 .. Version(i) :
           intentHistory[i][j].status = "ALLOWED" /\ intentHistory[i][k].status = "ALLOWED" => j = k

\* No turn allowed the intent: its receipt does not complete it.
NotOfTurn(i) == \A k \in 1 .. Version(i) : intentHistory[i][k].key[1] # <<"turn", "allow">>

WokenByTick ==
    /\ \A s \in signal : HasAllowed(s.intent) /\ NotOfTurn(s.intent)
    /\ In("host", "lower") =>
         HasAllowed(pass["host"].pick[1]) /\ NotOfTurn(pass["host"].pick[1])

\* A consumed wake without a result is of an intent that is not complete, unless
\* its commit is under way; prose in preparation is of such a wake.
Uncompleted ==
    \A n \in Instants :
      /\ consumedWakes[n] # Nothing /\ result[n] = "NONE"
           /\ Status(consumedWakes[n].intent) = "COMPLETED" => commit # Nothing /\ commit[1] = n
      /\ exec[n] # Nothing => result[n] = "NONE"

IntentInv == ProactiveInv /\ AllowedOnce /\ WokenByTick /\ Uncompleted
=============================================================================
