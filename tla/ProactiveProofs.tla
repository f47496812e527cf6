---------------------------- MODULE ProactiveProofs ----------------------------
(***************************************************************************)
(* Theorems about the intent store, the passes that decide its candidates  *)
(* and the adapter that delivers a wake, for any number of kinds, rules,   *)
(* materials, instants and faults. ProactiveInv is inductive: the store's  *)
(* lemmas say what any transition does to any intent, the frame lemmas     *)
(* what that leaves of the rest, and one lemma per step says what the step *)
(* itself changes.                                                         *)
(***************************************************************************)
EXTENDS ProactiveSafety, FiniteSetTheorems, TLAPS

Stored == intentHistory \in [Ids -> Seq(Versions)]

\* What a step never does to an intent: take versions away, or revive it.
Keeps ==
    \A i \in Ids : /\ Version(i) \in Nat /\ Version(i)' \in Nat /\ Version(i) <= Version(i)'
                   /\ Spent(i) => Spent(i)'
                   /\ Version(i)' = Version(i) => Status(i)' = Status(i)

\* A step that only moves intents that exist, and makes none active.
NoneBorn ==
    \A i \in Ids : /\ Exists(i)' <=> Exists(i)
                   /\ Status(i)' \in Active => Status(i) \in Active
                   /\ TickBorn(i)' => TickBorn(i)

LEMMA LegalSteps ==
    ASSUME NEW from, NEW to \in Legal(from)
    PROVE  /\ from \in Active /\ from # "ABSENT" /\ to \in Statuses
           /\ from = "ALLOWED" => to \in {"COMPLETED", "SUPERSEDED"}
BY DEF Legal, Active, Statuses

LEMMA SpentSteps ==
    ASSUME NEW i \in Ids, Spent(i), Status(i)' \in Legal(Status(i)) PROVE Spent(i)'
BY DEF Spent, Legal

LEMMA StoreSame ==
    ASSUME Stored, UNCHANGED intentHistory
    PROVE  Keeps /\ NoneBorn
<1>1. \A i \in Ids : Version(i) \in Nat
  BY DEF Stored, Version
<1>2. \A i \in Ids : /\ Version(i)' = Version(i) /\ Status(i)' = Status(i)
                     /\ Exists(i)' <=> Exists(i)
                     /\ TickBorn(i)' <=> TickBorn(i)
  BY DEF Version, Status, Exists, TickBorn
<1> QED BY <1>1, <1>2 DEF Keeps, NoneBorn, Spent

\* What a history holds after a version was appended to it.
LEMMA Appended ==
    ASSUME Stored, NEW i \in Ids, Exists(i), NEW e \in Versions,
           intentHistory' = [intentHistory EXCEPT ![i] = Append(@, e)]
    PROVE  /\ Stored'
           /\ Version(i) \in Nat \ {0} /\ Version(i)' = Version(i) + 1
           /\ Exists(i)' /\ Status(i)' = e.status
           /\ intentHistory'[i][Version(i) + 1] = e
           /\ \A k \in 1 .. Version(i) : intentHistory'[i][k] = intentHistory[i][k]
           /\ \A j \in Ids \ {i} : intentHistory'[j] = intentHistory[j]
<1> DEFINE h == intentHistory[i]
<1>1. h \in Seq(Versions) /\ h # <<>>
  BY DEF Stored, Exists
<1>2. /\ Append(h, e) \in Seq(Versions) /\ Len(h) \in Nat \ {0} /\ Len(Append(h, e)) = Len(h) + 1
      /\ Append(h, e)[Len(h) + 1] = e /\ \A k \in 1 .. Len(h) : Append(h, e)[k] = h[k]
      /\ Append(h, e) # <<>>
  BY <1>1
<1>3. intentHistory'[i] = Append(h, e) /\ Stored'
      /\ \A j \in Ids \ {i} : intentHistory'[j] = intentHistory[j]
  BY <1>2 DEF Stored
<1> HIDE DEF h
<1>4. Version(i) = Len(h) /\ Version(i)' = Len(Append(h, e)) /\ Exists(i)'
      /\ Status(i)' = Append(h, e)[Len(Append(h, e))].status
  BY <1>2, <1>3 DEF Version, Exists, Status, h
<1> QED BY <1>2, <1>3, <1>4 DEF h

\* A transition that is accepted: a replay changes nothing, any other appends a
\* version the lifecycle allows.
LEMMA TransitionKeeps ==
    ASSUME Stored, HistoryLegal, HistoryKept,
           NEW i \in Ids, NEW tag \in Tags, NEW v \in Nat, Transition(i, tag, v), now' = now
    PROVE  /\ Stored' /\ HistoryLegal' /\ HistoryKept' /\ Keeps /\ NoneBorn
<1>1. CASE Replays(i, tag, v)
  <2>1. intentHistory' = intentHistory
    BY <1>1 DEF Transition, Transitioned
  <2>2. Stored' /\ HistoryLegal' /\ HistoryKept'
    BY <2>1 DEF Stored, HistoryLegal, HistoryKept, Exists, Version, Status, Spent
  <2> QED BY <2>1, <2>2, StoreSame
<1>2. CASE ~Replays(i, tag, v)
  <2> DEFINE e == Entry(tag, v)
  <2>1. Goal(tag[2]) \in Legal(Status(i))
    BY <1>2 DEF Transition, Accepted
  <2>2. /\ Exists(i) /\ Goal(tag[2]) \in Statuses /\ Status(i) \in Active
    BY <2>1, LegalSteps DEF Status
  <2>3. e \in Versions /\ e.status = Goal(tag[2]) /\ e.key = <<tag, v>>
    BY <2>2 DEF Entry, Versions
  <2>4. intentHistory' = [intentHistory EXCEPT ![i] = Append(@, e)]
    BY <1>2 DEF Transition, Transitioned
  <2> HIDE DEF e
  <2>5. /\ Stored' /\ Version(i) \in Nat \ {0} /\ Version(i)' = Version(i) + 1
        /\ Exists(i)' /\ Status(i)' = Goal(tag[2])
        /\ intentHistory'[i][Version(i) + 1] = e
        /\ \A k \in 1 .. Version(i) : intentHistory'[i][k] = intentHistory[i][k]
        /\ \A j \in Ids \ {i} : intentHistory'[j] = intentHistory[j]
    BY <2>2, <2>3, <2>4, Appended
  <2>6. Status(i) = intentHistory[i][Version(i)].status
    BY <2>2 DEF Status
  <2>7. Spent(i) => Spent(i)'
    BY <2>1, <2>5, SpentSteps
  <2>8. \A j \in Ids \ {i} : /\ Version(j)' = Version(j) /\ Status(j)' = Status(j)
                             /\ Exists(j)' <=> Exists(j)
                             /\ Spent(j)' <=> Spent(j)
                             /\ TickBorn(j)' <=> TickBorn(j)
    BY <2>5 DEF Version, Status, Exists, Spent, TickBorn
  <2>9. \A j \in Ids : Version(j) \in Nat
    BY DEF Stored, Version
  <2>10. HistoryLegal'
    <3> SUFFICES ASSUME NEW j \in Ids, NEW k \in 2 .. Version(j)'
                 PROVE  intentHistory'[j][k].status \in Legal(intentHistory'[j][k - 1].status)
      BY DEF HistoryLegal
    <3>1. CASE j # i
      BY <2>5, <2>8, <3>1 DEF HistoryLegal
    <3>2. CASE j = i /\ k = Version(i) + 1
      <4>1. k - 1 = Version(i) /\ k - 1 \in 1 .. Version(i)
        BY <2>5, <3>2
      <4> QED BY <2>1, <2>3, <2>5, <2>6, <3>2, <4>1
    <3>3. CASE j = i /\ k # Version(i) + 1
      <4>1. k \in 2 .. Version(i) /\ k \in 1 .. Version(i) /\ k - 1 \in 1 .. Version(i)
        BY <2>5, <3>3
      <4> QED BY <2>5, <3>3, <4>1 DEF HistoryLegal
    <3> QED BY <3>1, <3>2, <3>3
  <2>11. HistoryKept'
    <3> SUFFICES ASSUME NEW j \in Ids
                 PROVE  /\ Exists(j)' => j[2] <= now
                        /\ \A k \in 1 .. Version(j)' :
                             intentHistory'[j][k].status = "ALLOWED" => Spent(j)'
                        /\ \A k \in 2 .. Version(j)' :
                             intentHistory'[j][k].status = Goal(intentHistory'[j][k].key[1][2])
      BY DEF HistoryKept
    <3>1. CASE j # i
      BY <2>5, <2>8, <3>1 DEF HistoryKept
    <3>2. CASE j = i
      <4>1. i[2] <= now
        BY <2>2 DEF HistoryKept
      <4>2. ASSUME NEW k \in 1 .. Version(i)', intentHistory'[i][k].status = "ALLOWED"
            PROVE  Spent(i)'
        <5>1. CASE k = Version(i) + 1
          BY <2>3, <2>5, <4>2, <5>1 DEF Spent
        <5>2. CASE k # Version(i) + 1
          <6>1. k \in 1 .. Version(i) /\ intentHistory[i][k].status = "ALLOWED"
            BY <2>5, <4>2, <5>2
          <6> QED BY <2>7, <6>1 DEF HistoryKept
        <5> QED BY <5>1, <5>2
      <4>3. ASSUME NEW k \in 2 .. Version(i)'
            PROVE  intentHistory'[i][k].status = Goal(intentHistory'[i][k].key[1][2])
        <5>1. CASE k = Version(i) + 1
          BY <2>3, <2>5, <5>1
        <5>2. CASE k # Version(i) + 1
          <6>1. k \in 2 .. Version(i) /\ k \in 1 .. Version(i)
            BY <2>5, <5>2
          <6> QED BY <2>5, <6>1 DEF HistoryKept
        <5> QED BY <5>1, <5>2
      <4> QED BY <3>2, <4>1, <4>2, <4>3
    <3> QED BY <3>1, <3>2
  <2>12. Keeps
    BY <2>5, <2>7, <2>8, <2>9 DEF Keeps
  <2>13. NoneBorn
    <3>1. TickBorn(i)' => TickBorn(i)
      BY <2>2, <2>5 DEF TickBorn
    <3> QED BY <2>2, <2>5, <2>8, <3>1 DEF NoneBorn
  <2> QED BY <2>5, <2>10, <2>11, <2>12, <2>13
<1> QED BY <1>1, <1>2

\* The admission of a new intent is the first version of its history.
LEMMA AdmissionKeeps ==
    ASSUME Stored, HistoryLegal, HistoryKept, NEW i \in Ids, ~Exists(i), i[2] <= now,
           NEW who \in {"tick", "turn"}, now' = now,
           intentHistory' = [intentHistory EXCEPT
             ![i] = <<[status |-> "CANDIDATE", key |-> <<<<who, "admit">>, 0>>]>>]
    PROVE  /\ Stored' /\ HistoryLegal' /\ HistoryKept' /\ Keeps
           /\ Exists(i)' /\ (TickBorn(i)' => who = "tick")
           /\ \A j \in Ids \ {i} : /\ Exists(j)' <=> Exists(j)
                                   /\ Status(j)' = Status(j)
                                   /\ TickBorn(j)' <=> TickBorn(j)
<1> DEFINE first == [status |-> "CANDIDATE", key |-> <<<<who, "admit">>, 0>>]
<1>1. first \in Versions /\ first.status = "CANDIDATE" /\ first.key = <<<<who, "admit">>, 0>>
  BY DEF Versions, Statuses, Active, Tags
<1> HIDE DEF first
<1>2. <<first>> \in Seq(Versions) /\ Len(<<first>>) = 1 /\ <<first>>[1] = first /\ <<first>> # <<>>
  BY <1>1
<1>3. /\ intentHistory'[i] = <<first>> /\ Stored'
      /\ \A j \in Ids \ {i} : intentHistory'[j] = intentHistory[j]
  BY <1>2 DEF Stored, first
<1>4. /\ Version(i)' = 1 /\ Exists(i)' /\ Status(i)' = "CANDIDATE"
      /\ TickBorn(i)' => who = "tick"
  BY <1>1, <1>2, <1>3 DEF Version, Exists, Status, TickBorn
<1>5. \A j \in Ids \ {i} : /\ Version(j)' = Version(j) /\ Status(j)' = Status(j)
                           /\ Exists(j)' <=> Exists(j)
                           /\ Spent(j)' <=> Spent(j)
                           /\ TickBorn(j)' <=> TickBorn(j)
  BY <1>3 DEF Version, Status, Exists, Spent, TickBorn
<1>6. /\ Version(i) = 0 /\ ~Spent(i) /\ \A j \in Ids : Version(j) \in Nat
  BY DEF Version, Exists, Spent, Status, Stored
<1>7. HistoryLegal'
  BY <1>3, <1>4, <1>5 DEF HistoryLegal
<1>8. HistoryKept'
  <2>1. \A k \in 1 .. 1 : <<first>>[k].status # "ALLOWED"
    BY <1>1, <1>2
  <2> QED BY <1>3, <1>4, <1>5, <2>1 DEF HistoryKept
<1>9. Keeps
  BY <1>4, <1>5, <1>6 DEF Keeps
<1> QED BY <1>3, <1>4, <1>5, <1>7, <1>8, <1>9

\* The version a transition returns to a caller that asked for permission.
LEMMA AllowedReturns ==
    ASSUME Stored, HistoryKept, NEW i \in Ids, NEW tag \in Tags, NEW v \in Nat,
           Transition(i, tag, v), Goal(tag[2]) = "ALLOWED"
    PROVE  Returned(i, tag, v) \in 2 .. Version(i)' /\ Spent(i)'
<1> DEFINE e == Entry(tag, v)
<1>1. CASE Replays(i, tag, v)
  <2>1. intentHistory' = intentHistory
    BY <1>1 DEF Transition, Transitioned
  <2>2. Returned(i, tag, v) \in 2 .. Version(i)
        /\ intentHistory[i][Returned(i, tag, v)].key = <<tag, v>>
    BY <1>1 DEF Returned, Replays
  <2>3. Version(i) \in Nat
    BY DEF Stored, Version
  <2>4. Spent(i)
    BY <2>2, <2>3 DEF HistoryKept
  <2> QED BY <2>1, <2>2, <2>4 DEF Spent, Status, Exists, Version
<1>2. CASE ~Replays(i, tag, v)
  <2>1. Goal(tag[2]) \in Legal(Status(i))
    BY <1>2 DEF Transition, Accepted
  <2>2. Exists(i) /\ Goal(tag[2]) \in Statuses
    BY <2>1, LegalSteps DEF Status
  <2>3. e \in Versions /\ e.status = "ALLOWED"
    BY <2>2 DEF Entry, Versions
  <2>4. intentHistory' = [intentHistory EXCEPT ![i] = Append(@, e)]
    BY <1>2 DEF Transition, Transitioned
  <2> HIDE DEF e
  <2>5. /\ Version(i) \in Nat \ {0} /\ Version(i)' = Version(i) + 1 /\ Status(i)' = "ALLOWED"
    BY <2>2, <2>3, <2>4, Appended
  <2>6. Returned(i, tag, v) = Version(i) + 1
    BY <1>2 DEF Returned
  <2> QED BY <2>5, <2>6 DEF Spent
<1> QED BY <1>1, <1>2

-----------------------------------------------------------------------------
(* The frames. *)

HistoryInv == Stored /\ HistoryLegal /\ HistoryKept

\* What is kept of the wakes.
WakeTypeOK ==
    /\ lce \in [Materials -> {"PENDING", "CONSUMED"}]
    /\ reserved \in [Instants -> Inspiring]
    /\ signal \subseteq Wakes
    /\ consumedWakes \in [Instants -> Wakes \cup {Nothing}]
    /\ wakeCtx \in [Instants -> Contexts \cup {Nothing}]
    /\ hostCtx \in [Instants -> Contexts \cup {Nothing}]
    /\ exec \in [Instants -> Proses \cup {Nothing}]
    /\ admission \in [Instants -> {"NONE", "ACCEPT", "REWRITE"}]
    /\ result \in [Instants -> {"NONE", "ABORTED", "COMMITTED"}]
    /\ commit \in CommitSteps \cup {Nothing}
    /\ sent \in [Ids -> Nat]
    /\ verdicts \in [Instants -> SUBSET {"ACCEPT", "REWRITE", "REJECT"}]
    /\ retried \subseteq Instants

WakeInv ==
    /\ WakeTypeOK /\ WakesDistinct /\ KeptOfWakes /\ SentOnce /\ SentIsMarked
    /\ AdmissionIsVerdict /\ CompletedAfterAccept /\ MaterialKept

PassTypeOK == /\ pass \in [Actors -> Passes] /\ overlap \in BOOLEAN
              /\ now \in 0 .. MaxNow /\ faults \in 0 .. MaxFaults

PassInv == PassTypeOK /\ PassesApart /\ PassUnwoken /\ OneAtATime

LEMMA InvParts == ProactiveInv => HistoryInv /\ WakeInv /\ PassInv
BY DEF ProactiveInv, PlaneTypeOK, HistoryInv, WakeInv, WakeTypeOK, PassInv, PassTypeOK, Stored

LEMMA InvJoins == ASSUME HistoryInv', WakeInv', PassInv' PROVE ProactiveInv'
BY DEF ProactiveInv, PlaneTypeOK, HistoryInv, WakeInv, WakeTypeOK, PassInv, PassTypeOK, Stored

\* What a step that leaves the histories alone leaves of them.
LEMMA HistorySame ==
    ASSUME HistoryInv, UNCHANGED intentHistory, now \in Nat, now' \in Nat, now' >= now
    PROVE  HistoryInv' /\ Keeps /\ NoneBorn
<1>1. Keeps /\ NoneBorn
  BY StoreSame DEF HistoryInv
<1>2. \A i \in Ids : i[2] \in Nat
  BY DEF Ids, Instants
<1> QED BY <1>1, <1>2 DEF HistoryInv, Stored, HistoryLegal, HistoryKept, Exists, Version, Status,
                          Spent

wakeState == <<material, signal, wakeCtx, adapter, sent, verdicts, retried>>

\* A wake that can be begun after a step of the store could be begun before it.
LEMMA BeginnableSame ==
    ASSUME Keeps, WakeTypeOK, WakesDistinct, UNCHANGED <<signal, consumedWakes>>,
           NEW n \in Instants, Beginnable(n)'
    PROVE  Beginnable(n)
<1>1. PICK s \in signal : s.at = n /\ Eligible(s)'
  BY DEF Beginnable
<1>2. /\ s.intent \in Ids /\ s.version \in Nat /\ s.version <= Version(s.intent)
      /\ Version(s.intent) \in Nat /\ Version(s.intent)' \in Nat
      /\ Version(s.intent) <= Version(s.intent)'
      /\ Version(s.intent)' = Version(s.intent) => Status(s.intent)' = Status(s.intent)
  BY DEF Keeps, WakeTypeOK, WakesDistinct, Wakes
<1>3. Eligible(s)
  BY <1>1, <1>2 DEF Eligible
<1> QED BY <1>1, <1>3 DEF Beginnable

\* A step of the store alone, whatever it appends, leaves the wakes as they were.
LEMMA WakeFrame ==
    ASSUME Keeps, WakeInv, UNCHANGED wakeState, now \in Nat, now' \in Nat, now' >= now
    PROVE  WakeInv'
<1> USE DEF wakeState, material, adapter
<1>1. WakeTypeOK'
  BY DEF WakeInv, WakeTypeOK
<1>2. WakesDistinct'
  <2>1. \A s \in signal : s.intent \in Ids /\ s.at \in Nat /\ s.version \in Nat
    BY DEF WakeInv, WakeTypeOK, Wakes, Instants
  <2>2. ASSUME NEW s \in signal
        PROVE  s.version \in 2 .. Version(s.intent)' /\ Spent(s.intent)' /\ s.at <= now'
    BY <2>1 DEF WakeInv, WakesDistinct, Keeps
  <2> QED BY <2>2 DEF WakeInv, WakesDistinct
<1>3. KeptOfWakes' /\ SentOnce' /\ SentIsMarked' /\ AdmissionIsVerdict' /\ CompletedAfterAccept'
  BY DEF WakeInv, KeptOfWakes, SentOnce, SentIsMarked, AdmissionIsVerdict, CompletedAfterAccept, Kept
<1>4. MaterialKept'
  <2>1. \A n \in Instants : Beginnable(n)' => Beginnable(n)
    BY BeginnableSame DEF WakeInv
  <2> QED BY <2>1 DEF WakeInv, MaterialKept, Kept
<1> QED BY <1>1, <1>2, <1>3, <1>4 DEF WakeInv

\* A step of the store that bears no intent leaves the passes as they were.
LEMMA PassFrame ==
    ASSUME Keeps, NoneBorn, PassInv, UNCHANGED <<pass, now, signal, overlap>>,
           faults' \in 0 .. MaxFaults
    PROVE  PassInv'
<1>1. PassTypeOK'
  BY DEF PassInv, PassTypeOK
<1>2. \A a \in Actors : pass[a].fresh \subseteq Ids
  BY DEF PassInv, PassTypeOK, Passes
<1>3. PassesApart'
  BY <1>2 DEF PassInv, PassesApart, NoneBorn, Clock, In
<1>4. PassUnwoken'
  <2>1. \A p \in Reads : p[2] \in 2 .. Version(p[1]) /\ Spent(p[1])
                          => p[2] \in 2 .. Version(p[1])' /\ Spent(p[1])'
    BY DEF Reads, Keeps
  <2> QED BY <2>1 DEF PassInv, PassUnwoken, Clock, In
<1>5. OneAtATime'
  <2>1. Tickers \subseteq Actors
    BY DEF Tickers, Actors
  <2> QED BY <2>1 DEF PassInv, OneAtATime, NoneBorn, In
<1> QED BY <1>1, <1>3, <1>4, <1>5 DEF PassInv

\* A step of pass a on which no intent is born: the pass becomes q, at the same
\* instant or over, admitting intents that do not exist and have no active kin.
LEMMA PassMoves ==
    ASSUME Keeps, NoneBorn, PassInv, UNCHANGED <<now, signal, overlap>>,
           faults' \in 0 .. MaxFaults, signal \subseteq Wakes,
           NEW a \in Actors, NEW q \in Passes, pass' = [pass EXCEPT ![a] = q],
           q.now \in {Clock(a), 0}, ~In(a, "idle"),
           \A i \in q.fresh : i[2] = q.now /\ ~Exists(i) /\ q.at # "idle",
           q.now = 0 => q.at = "idle",
           ~overlap /\ a \in Tickers =>
             \A i \in q.fresh : \A j \in Ids : j[1] = i[1] => Status(j) \notin Active,
           a = "host" => /\ \A x \in q.list : \A s \in signal : x[1] # s.intent
                         /\ q.at = "lower" =>
                              /\ q.pick \in Reads /\ q.pick[2] \in 2 .. Version(q.pick[1])'
                              /\ Spent(q.pick[1])'
                              /\ \A s \in signal : s.intent # q.pick[1]
    PROVE  PassInv'
<1>1. /\ pass' \in [Actors -> Passes] /\ pass'[a] = q
      /\ \A b \in Actors \ {a} : pass'[b] = pass[b]
  BY DEF PassInv, PassTypeOK
<1>2. PassTypeOK'
  BY <1>1 DEF PassInv, PassTypeOK
<1>3. PassesApart'
  <2> SUFFICES ASSUME NEW b \in Actors
               PROVE  /\ Clock(b)' <= now /\ (Clock(b)' = 0 => In(b, "idle")')
                      /\ \A c \in Actors \ {b} : Clock(b)' = Clock(c)' => Clock(b)' = 0
                      /\ \A i \in pass'[b].fresh : i[2] = Clock(b)' /\ ~Exists(i)' /\ ~In(b, "idle")'
    BY DEF PassesApart
  <2>1. \A c \in Actors : Clock(c)' \in {Clock(c), 0}
    BY <1>1 DEF Clock
  <2>2. Clock(b)' <= now /\ now \in Nat
    BY <2>1 DEF PassInv, PassesApart, PassTypeOK
  <2>3. \A c \in Actors \ {b} : Clock(b)' = Clock(c)' => Clock(b)' = 0
    BY <2>1 DEF PassInv, PassesApart
  <2>4. \A i \in pass'[b].fresh : i \in Ids
    BY <1>1 DEF Passes
  <2>5. CASE b = a
    BY <1>1, <2>2, <2>3, <2>4, <2>5 DEF NoneBorn, Clock, In
  <2>6. CASE b # a
    BY <1>1, <2>2, <2>3, <2>4, <2>6 DEF NoneBorn, Clock, In, PassInv, PassesApart
  <2> QED BY <2>5, <2>6
<1>4. PassUnwoken'
  <2>1. CASE a = "host"
    <3>1. \A s \in signal : s.at # 0
      BY DEF Wakes, Instants
    <3>2. \A s \in signal : s.at # q.now
      BY <2>1, <3>1 DEF PassInv, PassUnwoken
    <3> QED BY <1>1, <2>1, <3>2 DEF PassUnwoken, Clock, In
  <2>2. CASE a # "host"
    <3>1. pass'["host"] = pass["host"]
      BY <1>1, <2>2 DEF Actors
    <3>2. \A p \in Reads : p[2] \in 2 .. Version(p[1]) /\ Spent(p[1])
                            => p[2] \in 2 .. Version(p[1])' /\ Spent(p[1])'
      BY DEF Reads, Keeps
    <3> QED BY <3>1, <3>2 DEF PassInv, PassUnwoken, Clock, In
  <2> QED BY <2>1, <2>2
<1>5. OneAtATime'
  <2> SUFFICES ASSUME ~overlap PROVE OneAtATime'
    BY DEF OneAtATime
  <2>1. ASSUME NEW b \in Actors, NEW c \in Actors
        PROVE  In(b, "idle")' \/ In(c, "idle")' \/ b = c
    <3>1. In(b, "idle") \/ In(c, "idle") \/ b = c
      BY DEF PassInv, OneAtATime
    <3>2. \A d \in Actors : In(d, "idle") => In(d, "idle")'
      BY <1>1 DEF In
    <3> QED BY <3>1, <3>2
  <2>2. ASSUME NEW b \in Tickers, NEW i \in pass'[b].fresh, NEW j \in Ids, j[1] = i[1]
        PROVE  Status(j)' \notin Active
    <3>1. Tickers \subseteq Actors
      BY DEF Tickers, Actors
    <3>2. Status(j) \notin Active
      <4>1. CASE b = a
        BY <1>1, <2>2, <4>1
      <4>2. CASE b # a
        BY <1>1, <2>2, <3>1, <4>2 DEF PassInv, OneAtATime
      <4> QED BY <4>1, <4>2
    <3> QED BY <3>2 DEF NoneBorn
  <2>3. \A i, j \in Ids :
          i[1] = j[1] /\ TickBorn(i)' /\ TickBorn(j)' /\ Status(i)' \in Active /\ Status(j)' \in Active
            => i = j
    BY DEF PassInv, OneAtATime, NoneBorn
  <2> QED BY <2>1, <2>2, <2>3 DEF OneAtATime
<1> QED BY <1>2, <1>3, <1>4, <1>5 DEF PassInv

\* The records a pass can be.
LEMMA PassRecords ==
    /\ Over \in Passes /\ Over.now = 0 /\ Over.at = "idle" /\ Over.fresh = {} /\ Over.list = {}
    /\ \A n \in 0 .. MaxNow : /\ Idle(n) \in Passes /\ Idle(n).now = n /\ Idle(n).at = "idle"
                              /\ Idle(n).fresh = {} /\ Idle(n).list = {}
<1>1. MaxNow \in Nat
  BY ProactiveAssumption
<1> QED BY <1>1 DEF Over, Idle, Pass, Passes, PassSteps

\* A step of pass a that admits nothing more: the pass goes on as p, or is over.
LEMMA PassGoesOn ==
    ASSUME Keeps, NoneBorn, PassInv, UNCHANGED <<now, signal, overlap>>,
           faults' \in 0 .. MaxFaults, signal \subseteq Wakes,
           NEW a \in Actors, ~In(a, "idle"),
           NEW q \in {Over, Idle(Clock(a))}, pass' = [pass EXCEPT ![a] = q]
    PROVE  PassInv'
<1>1. Clock(a) \in 0 .. MaxNow
  BY DEF PassInv, PassTypeOK, Passes, Clock
<1>2. q \in Passes /\ q.now \in {Clock(a), 0} /\ q.at = "idle" /\ q.fresh = {} /\ q.list = {}
  BY <1>1, PassRecords
<1> QED BY <1>2, PassMoves

\* A step of pass a that goes on as q, admitting less.
LEMMA PassShrinks ==
    ASSUME Keeps, NoneBorn, PassInv, UNCHANGED <<now, signal, overlap>>,
           faults' \in 0 .. MaxFaults, signal \subseteq Wakes,
           NEW a \in Actors, NEW q \in Passes, ~In(a, "idle"),
           pass' = [pass EXCEPT ![a] = q] \/ Onward(a, q),
           q.now = Clock(a), q.at # "idle", q.fresh \subseteq pass[a].fresh,
           a = "host" => /\ \A x \in q.list : \A s \in signal : x[1] # s.intent
                         /\ q.at = "lower" =>
                              /\ q.pick \in Reads /\ q.pick[2] \in 2 .. Version(q.pick[1])'
                              /\ Spent(q.pick[1])'
                              /\ \A s \in signal : s.intent # q.pick[1]
    PROVE  PassInv'
<1>1. CASE pass' = [pass EXCEPT ![a] = Over]
  BY <1>1, PassGoesOn
<1>2. CASE pass' = [pass EXCEPT ![a] = q]
  <2>1. q.now # 0
    BY DEF PassInv, PassesApart
  <2>2. \A i \in q.fresh : i[2] = q.now /\ ~Exists(i) /\ q.at # "idle"
    BY DEF PassInv, PassesApart
  <2>3. ~overlap /\ a \in Tickers =>
          \A i \in q.fresh : \A j \in Ids : j[1] = i[1] => Status(j) \notin Active
    BY DEF PassInv, OneAtATime
  <2> QED BY <1>2, <2>1, <2>2, <2>3, PassMoves
<1> QED BY <1>1, <1>2 DEF Onward, Turned

\* The tags a pass asks with.
LEMMA PassTags ==
    /\ \A a \in Actors : \A what \in {"admit", "allow", "defer", "deny", "block", "supersede"} :
         Tag(a, what) \in Tags /\ Tag(a, what)[2] = what
    /\ <<"scheduler", "expire">> \in Tags /\ <<"scheduler", "due">> \in Tags
BY DEF Tag, Tags

\* A step of a pass that touches neither the wakes nor their material.
LEMMA QuietKeeps ==
    ASSUME ProactiveInv, Quiet, Keeps, HistoryInv', PassInv'
    PROVE  ProactiveInv'
<1>1. WakeInv /\ UNCHANGED wakeState /\ now \in Nat /\ now' = now
  BY InvParts DEF Quiet, wakeState, adapter, material, observed, PassInv, PassTypeOK
<1>2. WakeInv'
  BY <1>1, WakeFrame
<1> QED BY <1>2, InvJoins

\* A pass asks the store for a transition of what it listed, and goes on as q.
LEMMA PassTransition ==
    ASSUME ProactiveInv, Quiet, NEW a \in Actors, ~In(a, "idle"),
           NEW x \in Reads, NEW tag \in Tags, Transition(x[1], tag, x[2]),
           NEW q \in Passes, pass' = [pass EXCEPT ![a] = q] \/ Onward(a, q),
           q.now = Clock(a), q.at # "idle", q.fresh \subseteq pass[a].fresh,
           q.list \subseteq pass[a].list,
           a = "host" /\ q.at = "lower" =>
             /\ q.pick \in Reads /\ q.pick[2] \in 2 .. Version(q.pick[1])'
             /\ Spent(q.pick[1])'
             /\ \A s \in signal : s.intent # q.pick[1]
    PROVE  ProactiveInv'
<1>1. /\ HistoryInv /\ PassInv /\ WakeInv /\ x[1] \in Ids /\ x[2] \in Nat
      /\ now' = now /\ signal' = signal /\ overlap' = overlap /\ faults' = faults
  BY InvParts DEF Quiet, observed, Reads
<1>2. HistoryInv' /\ Keeps /\ NoneBorn
  BY <1>1, TransitionKeeps DEF HistoryInv
<1>3. signal \subseteq Wakes /\ faults' \in 0 .. MaxFaults
  BY <1>1 DEF WakeInv, WakeTypeOK, PassInv, PassTypeOK
<1>4. a = "host" => \A y \in q.list : \A s \in signal : y[1] # s.intent
  BY <1>1 DEF PassInv, PassUnwoken
<1>5. PassInv'
  BY <1>1, <1>2, <1>3, <1>4, PassShrinks
<1> QED BY <1>2, <1>5, QuietKeeps

-----------------------------------------------------------------------------
(* The steps of a pass. *)

\* The parts of a pass.
LEMMA PassParts ==
    ASSUME ProactiveInv, NEW a \in Actors
    PROVE  /\ pass \in [Actors -> Passes] /\ pass[a] \in Passes /\ pass[a].now = Clock(a)
           /\ pass[a].list \subseteq Reads /\ pass[a].late \subseteq Reads
           /\ pass[a].fresh \subseteq Ids /\ pass[a].engine \subseteq Ids
           /\ Clock(a) \in 0 .. MaxNow
BY InvParts DEF PassInv, PassTypeOK, Passes, Clock

LEMMA ExpireKeeps ==
    ASSUME ProactiveInv, NEW a \in Tickers, NEW x \in pass[a].list, Expire(a, x)
    PROVE  ProactiveInv'
<1>1. a \in Actors /\ pass[a] \in Passes /\ x \in Reads /\ pass[a].now = Clock(a)
  BY PassParts DEF Tickers, Actors
<1>q. PICK q \in Passes : q = [pass[a] EXCEPT !.list = @ \ {x}]
  BY <1>1 DEF Passes
<1>2. /\ q.now = Clock(a) /\ q.at = "schedule" /\ q.fresh = pass[a].fresh
      /\ q.list \subseteq pass[a].list
  BY <1>q, <1>1 DEF Expire, In, Passes
<1>3. /\ Quiet /\ ~In(a, "idle") /\ Transition(x[1], <<"scheduler", "expire">>, x[2])
      /\ pass' = [pass EXCEPT ![a] = q]
  BY <1>q DEF Expire, In, Turned
<1> QED BY <1>1, <1>2, <1>3, PassTags, PassTransition

LEMMA PromoteKeeps ==
    ASSUME ProactiveInv, NEW a \in Tickers, NEW x \in pass[a].late, Promote(a, x)
    PROVE  ProactiveInv'
<1>1. a \in Actors /\ pass[a] \in Passes /\ x \in Reads /\ pass[a].now = Clock(a)
  BY PassParts DEF Tickers, Actors
<1>q. PICK q \in Passes : q = [pass[a] EXCEPT !.late = @ \ {x}]
  BY <1>1 DEF Passes
<1>2. /\ q.now = Clock(a) /\ q.at = "schedule" /\ q.fresh = pass[a].fresh
      /\ q.list = pass[a].list
  BY <1>q, <1>1 DEF Promote, In, Passes
<1>3. /\ Quiet /\ ~In(a, "idle") /\ Transition(x[1], <<"scheduler", "due">>, x[2])
      /\ pass' = [pass EXCEPT ![a] = q]
  BY <1>q DEF Promote, In, Turned
<1> QED BY <1>1, <1>2, <1>3, PassTags, PassTransition

LEMMA SupersedeLowerKeeps ==
    ASSUME ProactiveInv, NEW a \in Actors, NEW x \in pass[a].list, SupersedeLower(a, x)
    PROVE  ProactiveInv'
<1>1. pass[a] \in Passes /\ x \in Reads /\ pass[a].now = Clock(a) /\ pass[a].at = "lower"
  BY PassParts DEF SupersedeLower, In
<1>2. PICK q \in Passes : q = [pass[a] EXCEPT !.list = @ \ {x}]
  BY <1>1 DEF Passes
<1>3. /\ q.now = Clock(a) /\ q.at = "lower" /\ q.fresh = pass[a].fresh
      /\ q.list \subseteq pass[a].list /\ q.pick = pass[a].pick
  BY <1>1, <1>2 DEF Passes
<1>4. /\ Quiet /\ ~In(a, "idle") /\ Transition(x[1], Tag(a, "supersede"), x[2])
      /\ Onward(a, q)
  BY <1>2 DEF SupersedeLower, In
<1>5. Tag(a, "supersede") \in Tags
  BY PassTags
<1>6. HistoryInv /\ PassInv /\ x[1] \in Ids /\ x[2] \in Nat /\ now' = now
  BY <1>1, <1>4, InvParts DEF Quiet, Reads
<1>7. Keeps
  BY <1>4, <1>5, <1>6, TransitionKeeps DEF HistoryInv
<1>8. ASSUME a = "host"
      PROVE  /\ q.pick \in Reads /\ q.pick[2] \in 2 .. Version(q.pick[1])' /\ Spent(q.pick[1])'
             /\ \A s \in signal : s.intent # q.pick[1]
  <2>1. /\ q.pick \in Reads /\ q.pick[2] \in 2 .. Version(q.pick[1]) /\ Spent(q.pick[1])
        /\ \A s \in signal : s.intent # q.pick[1]
    BY <1>1, <1>3, <1>6, <1>8 DEF PassInv, PassUnwoken, In
  <2>2. q.pick[1] \in Ids /\ q.pick[2] \in Nat
    BY <2>1 DEF Reads
  <2> QED BY <1>7, <2>1, <2>2 DEF Keeps
<1> QED BY <1>1, <1>3, <1>4, <1>5, <1>8, PassTransition

LEMMA DecideKeeps ==
    ASSUME ProactiveInv, NEW a \in Actors, NEW x \in pass[a].list, Decide(a, x)
    PROVE  ProactiveInv'
<1>1. /\ pass[a] \in Passes /\ x \in Reads /\ pass[a].now = Clock(a) /\ pass[a].at = "decide"
      /\ x[1] \in Ids /\ x[2] \in Nat
  BY PassParts DEF Decide, In, Reads
<1>2. PICK decision \in Policy(a, x[1]) :
        LET tag  == Tag(a, Verb(a, decision))
            rest == [pass[a] EXCEPT !.list = @ \ {x}] IN
        /\ Transition(x[1], tag, x[2])
        /\ Onward(a, IF decision = "allow"
                     THEN [rest EXCEPT !.at = "lower",
                                       !.pick = <<x[1], Returned(x[1], tag, x[2])>>]
                     ELSE rest)
  BY DEF Decide
<1> DEFINE tag  == Tag(a, Verb(a, decision))
           rest == [pass[a] EXCEPT !.list = @ \ {x}]
<1>3. decision \in {"allow", "defer", "deny"}
  BY DEF Policy
<1>4. tag \in Tags /\ (decision = "allow" => Goal(tag[2]) = "ALLOWED")
  BY <1>3, PassTags DEF Verb, Goal
<1>5. Quiet /\ ~In(a, "idle")
  BY DEF Decide, In
<1>6. Transition(x[1], tag, x[2])
  BY <1>2
<1>7. HistoryInv /\ PassInv /\ now' = now
  BY <1>5, InvParts DEF Quiet
<1>8. /\ rest \in Passes /\ rest.now = Clock(a) /\ rest.at = "decide" /\ rest.fresh = pass[a].fresh
      /\ rest.list \subseteq pass[a].list
  BY <1>1 DEF Passes
<1>9. CASE decision # "allow"
  <2>1. PICK q \in Passes : q = rest
    BY <1>8
  <2>2. Onward(a, q)
    BY <1>2, <1>9, <2>1
  <2>3. q.now = Clock(a) /\ q.at = "decide" /\ q.fresh = pass[a].fresh /\ q.list \subseteq pass[a].list
    BY <1>8, <2>1
  <2> HIDE DEF tag, rest
  <2> QED BY <1>1, <1>4, <1>5, <1>6, <2>2, <2>3, PassTransition
<1>10. CASE decision = "allow"
  <2>1. Returned(x[1], tag, x[2]) \in 2 .. Version(x[1])' /\ Spent(x[1])'
    <3> HIDE DEF tag
    <3> QED BY <1>1, <1>4, <1>6, <1>7, <1>10, AllowedReturns DEF HistoryInv
  <2>2. Returned(x[1], tag, x[2]) \in Nat
    <3> HIDE DEF tag
    <3>1. Version(x[1])' \in Nat
      BY <1>1, <1>4, <1>6, <1>7, TransitionKeeps DEF HistoryInv, Keeps
    <3> QED BY <2>1, <3>1
  <2>3. PICK pick \in Reads : pick = <<x[1], Returned(x[1], tag, x[2])>>
    BY <1>1, <2>1, <2>2 DEF Reads
  <2>4. pick[1] = x[1] /\ pick[2] \in 2 .. Version(pick[1])' /\ Spent(pick[1])'
    BY <2>1, <2>3
  <2>5. a = "host" => \A s \in signal : s.intent # pick[1]
    BY <1>7, <2>4 DEF PassInv, PassUnwoken
  <2>6. PICK q \in Passes : q = [rest EXCEPT !.at = "lower", !.pick = pick]
    BY <1>1 DEF Passes, PassSteps
  <2>7. Onward(a, q)
    BY <1>2, <1>10, <2>3, <2>6
  <2>8. /\ q.now = Clock(a) /\ q.at = "lower" /\ q.fresh = pass[a].fresh
        /\ q.list \subseteq pass[a].list /\ q.pick = pick
    BY <1>1, <2>6 DEF Passes
  <2> HIDE DEF tag, rest
  <2>9. a = "host" /\ q.at = "lower" =>
          /\ q.pick \in Reads /\ q.pick[2] \in 2 .. Version(q.pick[1])' /\ Spent(q.pick[1])'
          /\ \A s \in signal : s.intent # q.pick[1]
    BY <2>4, <2>5, <2>8
  <2> QED BY <1>1, <1>4, <1>5, <1>6, <2>7, <2>8, <2>9, PassTransition
<1> QED BY <1>9, <1>10

\* What a snapshot of the candidates or of the deferred lists has no wake.
LEMMA ListedUnwoken ==
    ASSUME ProactiveInv, NEW is \in SUBSET (At("CANDIDATE") \cup At("DEFERRED"))
    PROVE  /\ Listed(is) \subseteq Reads
           /\ \A x \in Listed(is) : \A s \in signal : x[1] # s.intent
<1>1. \A i \in is : i \in Ids /\ ~Spent(i)
  BY DEF At, Spent
<1>2. \A i \in Ids : Version(i) \in Nat
  BY InvParts DEF HistoryInv, Stored, Version
<1>3. \A s \in signal : Spent(s.intent)
  BY InvParts DEF WakeInv, WakesDistinct
<1>4. \A x \in Listed(is) : \E i \in is : x = <<i, Version(i)>>
  BY DEF Listed
<1> QED BY <1>1, <1>2, <1>3, <1>4 DEF Reads

LEMMA EvaluateKeeps ==
    ASSUME ProactiveInv, NEW a \in Tickers, NEW ks \in SUBSET Rules[a], Evaluate(a, ks)
    PROVE  ProactiveInv'
<1> DEFINE n    == Clock(a)
           mine == (ks \X {n}) \cap At("CANDIDATE")
           next == [pass[a] EXCEPT !.at = "admit", !.engine = ks \X {n}, !.fresh = NewOf(ks, n),
                                   !.list = Listed(mine)]
<1>1. /\ a \in Actors /\ pass[a] \in Passes /\ pass[a].now = n /\ ~In(a, "idle") /\ Quiet
      /\ pass' = [pass EXCEPT ![a] = next] /\ intentHistory' = intentHistory
  BY PassParts DEF Tickers, Actors, Evaluate, In, Turned
<1>2. /\ PassInv /\ WakeInv /\ HistoryInv /\ signal \subseteq Wakes /\ faults' \in 0 .. MaxFaults
      /\ now' = now /\ signal' = signal /\ overlap' = overlap /\ faults' = faults
  BY <1>1, InvParts DEF Quiet, observed, WakeInv, WakeTypeOK, PassInv, PassTypeOK
<1>3. ks \X {n} \subseteq Ids
  <2>1. n \in Instants
    BY <1>1, <1>2 DEF PassInv, PassesApart, PassTypeOK, Passes, Clock, Instants
  <2>2. ks \subseteq Kinds
    BY <1>1, ProactiveAssumption DEF Actors
  <2> QED BY <2>1, <2>2 DEF Ids
<1>4. Listed(mine) \subseteq Reads /\ \A x \in Listed(mine) : \A s \in signal : x[1] # s.intent
  <2>1. mine \in SUBSET (At("CANDIDATE") \cup At("DEFERRED"))
    OBVIOUS
  <2> QED BY <2>1, ListedUnwoken
<1>5. /\ NewOf(ks, n) \subseteq Ids
      /\ \A i \in NewOf(ks, n) : i[2] = n /\ ~Exists(i)
      /\ \A i \in NewOf(ks, n) : \A j \in Ids : j[1] = i[1] => Status(j) \notin Active
  BY <1>3 DEF NewOf
<1>6. PICK q \in Passes : q = next
  <2> HIDE DEF mine, n
  <2> QED BY <1>1, <1>3, <1>4, <1>5 DEF Passes, PassSteps
<1>7. /\ q.at = "admit" /\ q.now = n /\ q.fresh = NewOf(ks, n) /\ q.list = Listed(mine)
  BY <1>1, <1>6 DEF Passes
<1>8. Keeps /\ NoneBorn /\ HistoryInv'
  BY <1>1, <1>2, HistorySame DEF PassInv, PassTypeOK
<1>9. q.now # 0 /\ q.now \in {Clock(a), 0} /\ pass' = [pass EXCEPT ![a] = q]
  BY <1>1, <1>2, <1>6, <1>7 DEF PassInv, PassesApart
<1> HIDE DEF next, mine
<1>10. PassInv'
  BY <1>1, <1>2, <1>4, <1>5, <1>7, <1>8, <1>9, PassMoves
<1> QED BY <1>1, <1>8, <1>10, QuietKeeps

LEMMA StartDecideKeeps ==
    ASSUME ProactiveInv, NEW a \in Actors, StartDecide(a)
    PROVE  ProactiveInv'
<1> DEFINE more == Reconsidered(a)
<1>1. /\ pass[a] \in Passes /\ pass[a].now = Clock(a) /\ ~In(a, "idle") /\ Quiet
      /\ Onward(a, [pass[a] EXCEPT !.at = "decide", !.list = @ \cup more])
      /\ intentHistory' = intentHistory
  BY PassParts DEF StartDecide, In
<1>2. /\ PassInv /\ WakeInv /\ HistoryInv /\ signal \subseteq Wakes /\ faults' \in 0 .. MaxFaults
      /\ now' = now /\ signal' = signal /\ overlap' = overlap /\ faults' = faults
  BY <1>1, InvParts DEF Quiet, observed, WakeInv, WakeTypeOK, PassInv, PassTypeOK
<1>3. more \subseteq Reads /\ \A x \in more : \A s \in signal : x[1] # s.intent
  <2>1. At("CANDIDATE") \ pass[a].engine \in SUBSET (At("CANDIDATE") \cup At("DEFERRED"))
    OBVIOUS
  <2> QED BY <2>1, ListedUnwoken DEF Reconsidered
<1> HIDE DEF more
<1>4. PICK q \in Passes : q = [pass[a] EXCEPT !.at = "decide", !.list = @ \cup more]
  BY <1>1, <1>3 DEF Passes, PassSteps
<1>5. /\ q.now = Clock(a) /\ q.at = "decide" /\ q.fresh = pass[a].fresh
      /\ q.list = pass[a].list \cup more
  BY <1>1, <1>4 DEF Passes
<1>6. Keeps /\ NoneBorn /\ HistoryInv'
  BY <1>1, <1>2, HistorySame DEF PassInv, PassTypeOK
<1>7. a = "host" => \A x \in q.list : \A s \in signal : x[1] # s.intent
  BY <1>2, <1>3, <1>5 DEF PassInv, PassUnwoken
<1>8. PassInv'
  BY <1>1, <1>2, <1>4, <1>5, <1>6, <1>7, PassShrinks
<1> QED BY <1>1, <1>6, <1>8, QuietKeeps

LEMMA PassEnds ==
    ASSUME ProactiveInv, NEW a \in Actors, ~In(a, "idle"), Fails(a), faults' \in 0 .. MaxFaults,
           UNCHANGED <<intentHistory, now, wakeState, overlap>>
    PROVE  ProactiveInv'
<1>1. /\ HistoryInv /\ PassInv /\ WakeInv /\ now \in Nat /\ signal \subseteq Wakes
      /\ signal' = signal
  BY InvParts DEF WakeInv, WakeTypeOK, PassInv, PassTypeOK, wakeState
<1>2. PICK q \in {Over, Idle(Clock(a))} : pass' = [pass EXCEPT ![a] = q]
  BY DEF Fails, Turned
<1>3. HistoryInv' /\ Keeps /\ NoneBorn
  BY <1>1, HistorySame
<1>4. Clock(a) \in 0 .. MaxNow
  BY PassParts
<1>5. q \in Passes /\ q.now \in {Clock(a), 0} /\ q.at = "idle" /\ q.fresh = {} /\ q.list = {}
  BY <1>2, <1>4, PassRecords
<1>6. PassInv'
  BY <1>1, <1>2, <1>3, <1>5, PassMoves
<1>7. WakeInv'
  BY <1>1, <1>3, WakeFrame
<1> QED BY <1>3, <1>6, <1>7, InvJoins

LEMMA RaiseKeeps ==
    ASSUME ProactiveInv, NEW a \in Actors, Raise(a)
    PROVE  ProactiveInv'
<1>1. ~In(a, "idle")
  BY DEF Raise, Refused, In
<1>2. /\ Fails(a) /\ UNCHANGED <<intentHistory, now, wakeState, overlap>> /\ faults' = faults
  BY DEF Raise, Quiet, wakeState, material, adapter, observed
<1>3. faults' \in 0 .. MaxFaults
  BY <1>2, InvParts DEF PassInv, PassTypeOK
<1> QED BY <1>1, <1>2, <1>3, PassEnds

\* A fault counted stays within the bound.
LEMMA FaultCounted == ASSUME ProactiveInv, Breaks PROVE faults' \in 0 .. MaxFaults
BY ProactiveAssumption, InvParts DEF Breaks, PassInv, PassTypeOK

LEMMA PassDiesKeeps ==
    ASSUME ProactiveInv, NEW a \in Actors, PassDies(a)
    PROVE  ProactiveInv'
<1>1. /\ ~In(a, "idle") /\ Fails(a) /\ Breaks
      /\ UNCHANGED <<intentHistory, now, wakeState, overlap>>
  BY DEF PassDies, wakeState, material, adapter, observed, store
<1>2. faults' \in 0 .. MaxFaults
  BY <1>1, FaultCounted
<1> QED BY <1>1, <1>2, PassEnds

\* The one step that bears an intent: no other pass has it, and without overlap
\* none of its kind is active.
LEMMA AdmitKeeps ==
    ASSUME ProactiveInv, NEW a \in Actors, NEW i \in pass[a].fresh, Admit(a, i)
    PROVE  ProactiveInv'
<1>1. /\ pass[a] \in Passes /\ pass[a].now = Clock(a) /\ ~In(a, "idle") /\ Quiet /\ i \in Ids
  BY PassParts DEF Admit, In
<1>2. /\ PassInv /\ WakeInv /\ HistoryInv /\ signal \subseteq Wakes /\ faults' \in 0 .. MaxFaults
      /\ now' = now /\ signal' = signal /\ overlap' = overlap /\ faults' = faults
      /\ now \in Nat /\ UNCHANGED wakeState
  BY <1>1, InvParts DEF Quiet, observed, WakeInv, WakeTypeOK, PassInv, PassTypeOK, wakeState,
                        material, adapter
<1>3. /\ ~Exists(i) /\ i[2] = Clock(a) /\ i[2] <= now /\ i[2] # 0
  BY <1>1, <1>2 DEF PassInv, PassesApart
<1>4. PICK who \in {"tick", "turn"} :
        /\ intentHistory' = [intentHistory EXCEPT
             ![i] = <<[status |-> "CANDIDATE", key |-> <<<<who, "admit">>, 0>>]>>]
        /\ who = "tick" <=> a \in Tickers
  BY DEF Admit, Tag, Tickers, Actors
<1>5. /\ HistoryInv' /\ Keeps /\ (TickBorn(i)' => a \in Tickers)
      /\ \A j \in Ids \ {i} : /\ Exists(j)' <=> Exists(j)
                              /\ Status(j)' = Status(j)
                              /\ TickBorn(j)' <=> TickBorn(j)
  BY <1>1, <1>2, <1>3, <1>4, AdmissionKeeps DEF HistoryInv
<1>6. WakeInv'
  BY <1>2, <1>5, WakeFrame
<1>7. PICK q \in Passes : q = [pass[a] EXCEPT !.fresh = @ \ {i}, !.list = @ \cup {<<i, 1>>}]
  <2>1. pass[a].fresh \subseteq Ids /\ pass[a].list \subseteq Reads /\ <<i, 1>> \in Reads
    BY <1>1, PassParts DEF Reads
  <2>2. pass[a].fresh \ {i} \in SUBSET Ids /\ pass[a].list \cup {<<i, 1>>} \in SUBSET Reads
    BY <2>1
  <2> QED BY <1>1, <2>2 DEF Passes
<1>8. /\ q.now = Clock(a) /\ q.at = "admit" /\ q.fresh = pass[a].fresh \ {i}
      /\ q.list = pass[a].list \cup {<<i, 1>>} /\ pass[a].at = "admit"
  BY <1>1, <1>7 DEF Passes, Admit, In
<1>9. /\ pass' \in [Actors -> Passes] /\ pass'[a] = q
      /\ \A b \in Actors \ {a} : pass'[b] = pass[b]
  BY <1>2, <1>7 DEF Admit, Turned, PassInv, PassTypeOK
<1>10. \A b \in Actors : Clock(b)' = Clock(b) /\ (In(b, "idle")' <=> In(b, "idle"))
  BY <1>1, <1>8, <1>9 DEF Clock, In
<1>11. \A b \in Actors : \A j \in pass'[b].fresh : j \in pass[b].fresh /\ j # i /\ j \in Ids
  <2>1. \A b \in Actors \ {a} : i \notin pass[b].fresh
    BY <1>2, <1>3 DEF PassInv, PassesApart
  <2> QED BY <1>2, <1>8, <1>9, <2>1 DEF Passes
<1>12. PassTypeOK'
  BY <1>2, <1>9 DEF PassInv, PassTypeOK
<1>13. PassesApart'
  BY <1>2, <1>5, <1>10, <1>11 DEF PassInv, PassesApart
<1>14. PassUnwoken'
  <2>1. \A s \in signal : s.intent # i
    BY <1>2, <1>3 DEF WakeInv, WakesDistinct, Spent, Status
  <2>2. \A x \in pass'["host"].list : x \in pass["host"].list \/ x = <<i, 1>>
    BY <1>8, <1>9 DEF Actors
  <2>3. In("host", "lower")' => In("host", "lower") /\ pass'["host"].pick = pass["host"].pick
    BY <1>8, <1>9 DEF In, Actors
  <2>4. \A p \in Reads : p[2] \in 2 .. Version(p[1]) /\ Spent(p[1])
                          => p[2] \in 2 .. Version(p[1])' /\ Spent(p[1])'
    BY <1>5 DEF Reads, Keeps
  <2>5. "host" \in Actors
    BY DEF Actors
  <2> QED BY <1>2, <1>10, <2>1, <2>2, <2>3, <2>4, <2>5 DEF PassInv, PassUnwoken
<1>15. OneAtATime'
  <2> SUFFICES ASSUME ~overlap PROVE OneAtATime'
    BY <1>2 DEF OneAtATime
  <2>1. Tickers \subseteq Actors
    BY DEF Tickers, Actors
  <2>2. a \in Tickers => \A j \in Ids : j[1] = i[1] => Status(j) \notin Active
    BY <1>2 DEF PassInv, OneAtATime
  <2>3. ASSUME NEW b \in Tickers, NEW f \in pass'[b].fresh, NEW j \in Ids, j[1] = f[1]
        PROVE  Status(j)' \notin Active
    <3>1. f \in pass[b].fresh /\ f # i /\ f \in Ids /\ b \in Actors
      BY <1>11, <2>1
    <3>2. Status(j) \notin Active
      BY <1>2, <2>3, <3>1 DEF PassInv, OneAtATime
    <3>3. b = a
      BY <1>1, <1>2, <2>1, <3>1 DEF PassInv, OneAtATime, PassesApart
    <3>4. j # i
      <4>1. f[2] = i[2]
        BY <1>2, <1>3, <3>1, <3>3 DEF PassInv, PassesApart
      <4> QED BY <2>3, <3>1, <4>1 DEF Ids
    <3> QED BY <1>5, <3>2, <3>4
  <2>4. ASSUME NEW j \in Ids, NEW k \in Ids, j[1] = k[1], TickBorn(j)', TickBorn(k)',
               Status(j)' \in Active, Status(k)' \in Active, j # k
        PROVE  FALSE
    <3>1. CASE j # i /\ k # i
      BY <1>2, <1>5, <2>4, <3>1 DEF PassInv, OneAtATime
    <3>2. CASE j = i
      BY <1>5, <2>2, <2>4, <3>2
    <3>3. CASE k = i
      BY <1>5, <2>2, <2>4, <3>3
    <3> QED BY <3>1, <3>2, <3>3
  <2>5. \A b, c \in Actors : In(b, "idle")' \/ In(c, "idle")' \/ b = c
    BY <1>2, <1>10 DEF PassInv, OneAtATime
  <2> QED BY <2>3, <2>4, <2>5 DEF OneAtATime
<1>16. PassInv'
  BY <1>12, <1>13, <1>14, <1>15 DEF PassInv
<1> QED BY <1>5, <1>6, <1>16, InvJoins

\* A pass that begins has an instant no other pass has, and no active kin matter:
\* it admits nothing yet, or it is a turn.
LEMMA PassBegins ==
    ASSUME ProactiveInv, NEW a \in Actors, NEW n \in Instants, Starts(a, n),
           n = now + 1 \/ (a = "host" /\ n = Clock("host")),
           NEW q \in Passes, pass' = [pass EXCEPT ![a] = q], q.now = n,
           q.at \in {"schedule", "admit"},
           \A i \in q.fresh : i[2] = n /\ ~Exists(i), a \in Tickers => q.fresh = {},
           \A x \in q.list : \A s \in signal : x[1] # s.intent,
           UNCHANGED <<intentHistory, wakeState, faults>>
    PROVE  ProactiveInv'
<1>1. /\ PassInv /\ WakeInv /\ HistoryInv /\ signal \subseteq Wakes /\ signal' = signal
      /\ now \in Nat /\ now \in 0 .. MaxNow /\ MaxNow \in Nat /\ n \in Nat \ {0} /\ n <= MaxNow
  BY InvParts, ProactiveAssumption DEF WakeInv, WakeTypeOK, PassInv, PassTypeOK, wakeState, Instants
<1>2. /\ In(a, "idle") /\ now' = (IF n > now THEN n ELSE now)
      /\ overlap' = (overlap \/ \E b \in Actors \ {a} : ~In(b, "idle"))
  BY DEF Starts, HostFree, Actors
<1>3. /\ now' \in 0 .. MaxNow /\ now' >= now /\ n <= now'
  BY <1>1, <1>2
<1>4. HistoryInv' /\ Keeps /\ NoneBorn
  BY <1>1, <1>3, HistorySame
<1>5. WakeInv'
  BY <1>1, <1>3, <1>4, WakeFrame
<1>6. /\ pass' \in [Actors -> Passes] /\ pass'[a] = q
      /\ \A b \in Actors \ {a} : pass'[b] = pass[b]
  BY <1>1 DEF PassInv, PassTypeOK
<1>7. PassTypeOK'
  <2>1. overlap' \in BOOLEAN
    BY <1>2
  <2> QED BY <1>1, <1>3, <1>6, <2>1 DEF PassInv, PassTypeOK
<1>8. /\ Clock(a)' = n /\ ~In(a, "idle")'
      /\ \A b \in Actors \ {a} : /\ Clock(b)' = Clock(b) /\ (In(b, "idle")' <=> In(b, "idle"))
                                 /\ Clock(b) # n
  <2>1. \A b \in Actors \ {a} : Clock(b) # n
    BY <1>1 DEF PassInv, PassesApart, PassTypeOK, Passes, Clock
  <2> QED BY <1>6, <2>1 DEF Clock, In
<1>9. \A b \in Actors : pass'[b].fresh \subseteq Ids
  BY <1>6 DEF Passes
<1>10. PassesApart'
  <2> SUFFICES ASSUME NEW b \in Actors
               PROVE  /\ Clock(b)' <= now' /\ (Clock(b)' = 0 => In(b, "idle")')
                      /\ \A c \in Actors \ {b} : Clock(b)' = Clock(c)' => Clock(b)' = 0
                      /\ \A i \in pass'[b].fresh : i[2] = Clock(b)' /\ ~Exists(i)' /\ ~In(b, "idle")'
    BY DEF PassesApart
  <2>1. CASE b = a
    BY <1>1, <1>3, <1>4, <1>6, <1>8, <1>9, <2>1 DEF NoneBorn
  <2>2. CASE b # a
    <3>1. Clock(b) \in Nat /\ Clock(b) <= now
      BY <1>1 DEF PassInv, PassesApart, PassTypeOK, Passes, Clock
    <3> QED BY <1>1, <1>3, <1>4, <1>6, <1>8, <1>9, <2>2, <3>1 DEF NoneBorn, PassInv, PassesApart
  <2> QED BY <2>1, <2>2
<1>11. PassUnwoken'
  <2>1. CASE a = "host"
    <3>1. \A s \in signal : s.at # n
      <4>1. \A s \in signal : s.at <= now /\ s.at \in Nat /\ s.at # Clock("host")
        BY <1>1 DEF WakeInv, WakesDistinct, PassInv, PassUnwoken, Wakes, Instants
      <4> QED BY <1>1, <2>1, <4>1
    <3> QED BY <1>1, <1>6, <1>8, <2>1, <3>1 DEF PassUnwoken, In
  <2>2. CASE a # "host"
    <3>1. pass'["host"] = pass["host"]
      BY <1>6, <2>2 DEF Actors
    <3>2. \A p \in Reads : p[2] \in 2 .. Version(p[1]) /\ Spent(p[1])
                            => p[2] \in 2 .. Version(p[1])' /\ Spent(p[1])'
      BY <1>4 DEF Reads, Keeps
    <3> QED BY <1>1, <3>1, <3>2 DEF PassInv, PassUnwoken, Clock, In
  <2> QED BY <2>1, <2>2
<1>12. OneAtATime'
  <2> SUFFICES ASSUME ~overlap' PROVE OneAtATime'
    BY DEF OneAtATime
  <2>1. ~overlap /\ \A b \in Actors \ {a} : In(b, "idle")
    BY <1>2
  <2>2. \A b, c \in Actors : In(b, "idle")' \/ In(c, "idle")' \/ b = c
    BY <1>8, <2>1
  <2>3. \A b \in Tickers : pass'[b].fresh = {}
    <3>1. Tickers \subseteq Actors
      BY DEF Tickers, Actors
    <3>2. \A b \in Actors \ {a} : pass'[b].fresh = {}
      BY <1>1, <1>6, <2>1 DEF PassInv, PassesApart
    <3> QED BY <1>6, <3>1, <3>2
  <2>4. \A i, j \in Ids :
          i[1] = j[1] /\ TickBorn(i)' /\ TickBorn(j)' /\ Status(i)' \in Active /\ Status(j)' \in Active
            => i = j
    BY <1>1, <1>4, <2>1 DEF PassInv, OneAtATime, NoneBorn
  <2> QED BY <2>2, <2>3, <2>4 DEF OneAtATime
<1> QED BY <1>4, <1>5, <1>7, <1>10, <1>11, <1>12, InvJoins DEF PassInv

LEMMA StartTickKeeps ==
    ASSUME ProactiveInv, NEW a \in Tickers, StartTick(a)
    PROVE  ProactiveInv'
<1>1. PICK n \in ({now + 1} \cup Again(a)) \cap Instants :
        /\ Starts(a, n)
        /\ Turned(a, [Pass("schedule", n) EXCEPT
                        !.list = Listed(ScheduleExpired(n)),
                        !.late = Listed(ScheduleDue(n) \ ScheduleExpired(n))])
  BY DEF StartTick
<1> DEFINE old  == Listed(ScheduleExpired(n))
           late == Listed(ScheduleDue(n) \ ScheduleExpired(n))
<1>2. /\ n \in Instants /\ n \in 0 .. MaxNow /\ a \in Actors
      /\ n = now + 1 \/ (a = "host" /\ n = Clock("host"))
  BY <1>1 DEF Again, Instants, Tickers, Actors
<1>3. /\ old \subseteq Reads /\ late \subseteq Reads
      /\ \A x \in old : \A s \in signal : x[1] # s.intent
  <2>1. /\ ScheduleExpired(n) \in SUBSET (At("CANDIDATE") \cup At("DEFERRED"))
        /\ ScheduleDue(n) \ ScheduleExpired(n) \in SUBSET (At("CANDIDATE") \cup At("DEFERRED"))
    BY DEF ScheduleExpired, ScheduleDue
  <2> QED BY <2>1, ListedUnwoken
<1> HIDE DEF old, late
<1>4. PICK q \in Passes : q = [Pass("schedule", n) EXCEPT !.list = old, !.late = late]
  BY <1>2, <1>3 DEF Pass, Passes, PassSteps
<1>5. q.now = n /\ q.at = "schedule" /\ q.fresh = {} /\ q.list = old
  BY <1>4 DEF Pass
<1>6. pass' = [pass EXCEPT ![a] = q]
  BY <1>1, <1>4 DEF Turned, old, late
<1>7. UNCHANGED <<intentHistory, wakeState, faults>>
  BY DEF StartTick, store, wakeState, adapter
<1> QED BY <1>1, <1>2, <1>3, <1>5, <1>6, <1>7, PassBegins

LEMMA StartTurnKeeps ==
    ASSUME ProactiveInv, NEW ks \in SUBSET Rules["turn"], NEW d \in {0, now + 2}, StartTurn(ks, d)
    PROVE  ProactiveInv'
<1> DEFINE n == now + 1
           new == ks \X {n}
<1>1. /\ HistoryInv /\ now \in 0 .. MaxNow /\ MaxNow \in Nat
  BY InvParts, ProactiveAssumption DEF PassInv, PassTypeOK
<1>2. /\ now < MaxNow /\ Starts("turn", n) /\ UNCHANGED <<intentHistory, wakeState, faults>>
      /\ pass' = [pass EXCEPT !["turn"] = [Pass("admit", n) EXCEPT !.fresh = new, !.engine = new]]
  BY DEF StartTurn, Turned, wakeState, adapter
<1>3. n \in Instants /\ n \in 0 .. MaxNow /\ "turn" \in Actors /\ "turn" \notin Tickers
  BY <1>1, <1>2 DEF Instants, Actors, Tickers
<1>4. new \subseteq Ids /\ \A i \in new : i[2] = n /\ ~Exists(i)
  <2>1. new \subseteq Ids /\ \A i \in new : i[2] = n
    BY <1>3, ProactiveAssumption DEF Ids
  <2>2. \A i \in Ids : Exists(i) => i[2] <= now
    BY <1>1 DEF HistoryInv, HistoryKept
  <2> QED BY <1>1, <2>1, <2>2
<1> HIDE DEF new
<1>5. PICK q \in Passes : q = [Pass("admit", n) EXCEPT !.fresh = new, !.engine = new]
  BY <1>3, <1>4 DEF Pass, Passes, PassSteps
<1>6. q.now = n /\ q.at = "admit" /\ q.fresh = new /\ q.list = {}
  BY <1>5 DEF Pass
<1>7. pass' = [pass EXCEPT !["turn"] = q]
  BY <1>2, <1>5
<1> QED BY <1>2, <1>3, <1>4, <1>6, <1>7, PassBegins

LEMMA ReceiptKeeps ==
    ASSUME ProactiveInv, NEW i \in Ids, ReceiptComplete(i)
    PROVE  ProactiveInv'
<1>1. /\ HistoryInv /\ PassInv /\ WakeInv /\ Version(i) \in Nat
  BY InvParts DEF HistoryInv, Stored, Version
<1>2. /\ Quiet /\ pass' = pass /\ <<"turn", "receipt">> \in Tags
      /\ Transition(i, <<"turn", "receipt">>, Version(i))
      /\ UNCHANGED <<now, signal, overlap, faults>>
  BY DEF ReceiptComplete, Quiet, observed, Tags
<1>3. HistoryInv' /\ Keeps /\ NoneBorn
  BY <1>1, <1>2, TransitionKeeps DEF HistoryInv
<1>4. PassInv'
  BY <1>1, <1>2, <1>3, PassFrame DEF PassInv, PassTypeOK
<1> QED BY <1>2, <1>3, <1>4, QuietKeeps

-----------------------------------------------------------------------------
(* The steps of the adapter and its Body. *)

\* A step after which nothing is kept of the wake at n that was not kept before.
KeptLess(n) ==
    \A c \in Kept(n)' : \E k \in Kept(n) : k.intent = c.intent /\ k.material = c.material

\* The wakes are kept by a step of the adapter that hands out none: it forgets of a
\* wake or keeps it, marks nothing sent as unsent, and gives back the material only
\* of a wake that it forgot, gave up or commits.
LEMMA AdapterWakes ==
    ASSUME ProactiveInv, Keeps, UNCHANGED <<signal, now, sent>>, WakeTypeOK',
           \A n \in Instants :
             /\ KeptLess(n) /\ (Beginnable(n)' => Beginnable(n))
             /\ consumedWakes'[n] # Nothing => consumedWakes'[n] \in signal /\ consumedWakes'[n].at = n
             /\ hostCtx'[n] # Nothing \/ exec'[n] # Nothing => consumedWakes'[n] # Nothing
             /\ exec[n] # Nothing /\ exec[n].sent => Kept(n)' = {} \/ exec'[n] = exec[n]
             /\ \/ Kept(n)' = {} \/ n \in retried' \/ (commit' # Nothing /\ commit'[1] = n)
                \/ ~Beginnable(n)'
                \/ n \notin retried /\ (commit = Nothing \/ commit[1] # n) /\ reserved'[n] = reserved[n],
           AdmissionIsVerdict', CompletedAfterAccept'
    PROVE  WakeInv'
<1>1. WakeInv /\ now \in Nat
  BY InvParts DEF PassInv, PassTypeOK
<1>2. WakesDistinct'
  <2>1. \A s \in signal : s.intent \in Ids /\ s.at \in Nat /\ s.version \in Nat
    BY <1>1 DEF WakeInv, WakeTypeOK, Wakes, Instants
  <2>2. ASSUME NEW s \in signal
        PROVE  s.version \in 2 .. Version(s.intent)' /\ Spent(s.intent)' /\ s.at <= now'
    BY <1>1, <2>1 DEF WakeInv, WakesDistinct, Keeps
  <2> QED BY <1>1, <2>2 DEF WakeInv, WakesDistinct
<1>3. KeptOfWakes'
  BY <1>1 DEF WakeInv, KeptOfWakes, KeptLess
<1>4. SentOnce'
  BY <1>1 DEF WakeInv, SentOnce
<1>5. SentIsMarked'
  <2>1. ASSUME NEW n \in Instants, NEW c \in Kept(n)', sent[c.intent] > 0
        PROVE  exec'[n] # Nothing /\ exec'[n].sent
    <3>1. exec[n] # Nothing /\ exec[n].sent
      BY <1>1, <2>1 DEF WakeInv, SentIsMarked, KeptLess
    <3> QED BY <2>1, <3>1
  <2> QED BY <1>1, <2>1 DEF WakeInv, SentIsMarked
<1>6. MaterialKept'
  <2>1. ASSUME NEW n \in Instants, Beginnable(n)', n \notin retried',
               commit' = Nothing \/ commit'[1] # n, NEW c \in Kept(n)', c.material # Nothing
        PROVE  reserved'[n] = c.material
    <3>1. n \notin retried /\ (commit = Nothing \/ commit[1] # n) /\ reserved'[n] = reserved[n]
      BY <2>1
    <3>2. PICK k \in Kept(n) : k.intent = c.intent /\ k.material = c.material
      BY <2>1 DEF KeptLess
    <3> QED BY <1>1, <2>1, <3>1, <3>2 DEF WakeInv, MaterialKept
  <2> QED BY <2>1 DEF MaterialKept
<1> QED BY <1>2, <1>3, <1>4, <1>5, <1>6 DEF WakeInv

\* A step of the adapter leaves the passes alone.
LEMMA AdapterKeeps ==
    ASSUME ProactiveInv, HistoryInv', Keeps, NoneBorn, WakeInv',
           UNCHANGED <<pass, now, signal, overlap>>, faults' \in 0 .. MaxFaults
    PROVE  ProactiveInv'
BY InvParts, PassFrame, InvJoins

\* A step of the adapter that asks the store for nothing.
LEMMA AdapterAlone ==
    ASSUME ProactiveInv, UNCHANGED <<intentHistory, now>>
    PROVE  /\ HistoryInv' /\ Keeps /\ NoneBorn
           /\ consumedWakes' = consumedWakes /\ signal' = signal =>
                \A n \in Instants : Beginnable(n)' => Beginnable(n)
<1>1. HistoryInv /\ now \in Nat /\ WakeTypeOK /\ WakesDistinct
  BY InvParts DEF PassInv, PassTypeOK, WakeInv
<1>2. HistoryInv' /\ Keeps /\ NoneBorn
  BY <1>1, HistorySame
<1> QED BY <1>1, <1>2, BeginnableSame

\* What a wake handed to the Body is known to be.
LEMMA OfferedWake ==
    ASSUME ProactiveInv, NEW s \in signal, Offered(s)
    PROVE  /\ s \in Wakes /\ s.at \in Instants /\ commit = Nothing
           /\ \A w \in signal : w.at = s.at => w = s
           /\ \A c \in Kept(s.at) : ~(exec[s.at] # Nothing /\ exec[s.at].sent)
           /\ Context(s.at) # Nothing => Context(s.at) \in Kept(s.at) /\ Context(s.at) \in Contexts
           /\ faults \in 0 .. MaxFaults
<1>1. WakeInv /\ PassInv
  BY InvParts
<1>2. s \in Wakes /\ s.at \in Instants /\ \A w \in signal : w.at = s.at => w = s
  BY <1>1 DEF WakeInv, WakeTypeOK, WakesDistinct, Wakes
<1>3. commit = Nothing /\ ~(exec[s.at] # Nothing /\ exec[s.at].sent)
  BY DEF Offered, HostFree, Unsent
<1>4. Context(s.at) # Nothing => Context(s.at) \in Kept(s.at) /\ Context(s.at) \in Contexts
  BY <1>1, <1>2 DEF Context, Kept, WakeInv, WakeTypeOK
<1> QED BY <1>1, <1>2, <1>3, <1>4 DEF PassInv, PassTypeOK

LEMMA BeginRejectedKeeps ==
    ASSUME ProactiveInv, NEW s \in signal, BeginRejected(s)
    PROVE  ProactiveInv'
<1>1. WakeInv /\ Offered(s) /\ ~Eligible(s)
  BY InvParts DEF BeginRejected
<1>2. /\ s.at \in Instants /\ faults \in 0 .. MaxFaults /\ \A w \in signal : w.at = s.at => w = s
  BY <1>1, OfferedWake
<1>3. /\ UNCHANGED <<intentHistory, pass, now, signal, overlap, faults, sent, lce, wakeCtx, hostCtx,
                     consumedWakes, exec, admission, result, commit, verdicts, retried>>
      /\ reserved' = [reserved EXCEPT ![s.at] = Nothing]
  BY DEF BeginRejected, Outside, store, adapter, Released
<1>4. /\ HistoryInv' /\ Keeps /\ NoneBorn
      /\ \A n \in Instants : Beginnable(n)' => Beginnable(n)
  BY <1>3, AdapterAlone
<1>5. WakeTypeOK'
  BY <1>1, <1>3 DEF WakeInv, WakeTypeOK, Inspiring
<1>6. ~Beginnable(s.at)'
  BY <1>1, <1>2, <1>4 DEF Beginnable
<1>7. \A n \in Instants : Kept(n)' = Kept(n)
  BY <1>3 DEF Kept
<1>8. AdmissionIsVerdict' /\ CompletedAfterAccept'
  BY <1>1, <1>3 DEF WakeInv, AdmissionIsVerdict, CompletedAfterAccept
<1>9. ASSUME NEW n \in Instants, n # s.at PROVE reserved'[n] = reserved[n]
  BY <1>1, <1>3, <1>9 DEF WakeInv, WakeTypeOK
<1>10. \A n \in Instants :
         \/ Kept(n)' = {} \/ n \in retried' \/ (commit' # Nothing /\ commit'[1] = n)
         \/ ~Beginnable(n)'
         \/ n \notin retried /\ (commit = Nothing \/ commit[1] # n) /\ reserved'[n] = reserved[n]
  BY <1>3, <1>6, <1>9
<1>11. WakeInv'
  <2>1. \A n \in Instants : KeptLess(n)
    BY <1>7 DEF KeptLess
  <2>2. KeptOfWakes
    BY <1>1 DEF WakeInv
  <2> QED BY <1>3, <1>4, <1>5, <1>8, <1>10, <2>1, <2>2, AdapterWakes DEF KeptOfWakes
<1> QED BY <1>2, <1>3, <1>4, <1>11, AdapterKeeps

\* What every begin that consumes its wake does.
LEMMA ConsumesWake ==
    ASSUME ProactiveInv, NEW s \in signal, Consumes(s),
           UNCHANGED <<intentHistory, signal, now, commit>>
    PROVE  /\ consumedWakes' = [consumedWakes EXCEPT ![s.at] = s]
           /\ consumedWakes' \in [Instants -> Wakes \cup {Nothing}]
           /\ admission' \in [Instants -> {"NONE", "ACCEPT", "REWRITE"}]
           /\ verdicts' \in [Instants -> SUBSET {"ACCEPT", "REWRITE", "REJECT"}]
           /\ \A n \in Instants : consumedWakes'[n] # Nothing =>
                consumedWakes'[n] \in signal /\ consumedWakes'[n].at = n
           /\ \A n \in Instants : Beginnable(n)' => Beginnable(n)
           /\ AdmissionIsVerdict' /\ CompletedAfterAccept'
<1>1. /\ WakeInv /\ s \in Wakes /\ s.at \in Instants /\ commit = Nothing
      /\ \A w \in signal : w.at = s.at => w = s
  BY InvParts, OfferedWake DEF Consumes
<1>2. /\ consumedWakes' = [consumedWakes EXCEPT ![s.at] = s]
      /\ admission' = [admission EXCEPT ![s.at] = "NONE"]
      /\ verdicts' = [verdicts EXCEPT ![s.at] = {}] /\ Eligible(s)
  BY DEF Consumes
<1>3. /\ consumedWakes' \in [Instants -> Wakes \cup {Nothing}]
      /\ consumedWakes \in [Instants -> Wakes \cup {Nothing}]
      /\ admission' \in [Instants -> {"NONE", "ACCEPT", "REWRITE"}]
      /\ verdicts' \in [Instants -> SUBSET {"ACCEPT", "REWRITE", "REJECT"}]
  BY <1>1, <1>2 DEF WakeInv, WakeTypeOK
<1>4. ASSUME NEW n \in Instants, consumedWakes'[n] # Nothing
      PROVE  consumedWakes'[n] \in signal /\ consumedWakes'[n].at = n
  BY <1>1, <1>2, <1>3, <1>4 DEF WakeInv, KeptOfWakes
<1>5. ASSUME NEW n \in Instants, Beginnable(n)' PROVE Beginnable(n)
  <2>1. PICK w \in signal : w.at = n /\ Eligible(w)'
    BY <1>5 DEF Beginnable
  <2>2. CASE n = s.at
    BY <1>2, <2>2 DEF Beginnable
  <2>3. CASE n # s.at
    <3>1. consumedWakes'[n] = consumedWakes[n]
      BY <1>2, <1>3, <2>3
    <3>2. Eligible(w)
      BY <2>1, <3>1 DEF Eligible, Status, Exists, Version
    <3> QED BY <2>1, <3>2 DEF Beginnable
  <2> QED BY <2>2, <2>3
<1>6. AdmissionIsVerdict'
  BY <1>1, <1>2, <1>3 DEF WakeInv, WakeTypeOK, AdmissionIsVerdict
<1>7. CompletedAfterAccept'
  BY <1>1 DEF CompletedAfterAccept
<1> QED BY <1>2, <1>3, <1>4, <1>5, <1>6, <1>7

LEMMA BeginFailsKeeps ==
    ASSUME ProactiveInv, NEW s \in signal, BeginFails(s)
    PROVE  ProactiveInv'
<1> DEFINE m == s.at
<1>1. /\ WakeInv /\ s \in Wakes /\ m \in Instants /\ commit = Nothing /\ faults \in 0 .. MaxFaults
      /\ \A c \in Kept(m) : ~(exec[m] # Nothing /\ exec[m].sent)
      /\ Context(m) # Nothing => Context(m) \in Kept(m) /\ Context(m) \in Contexts
  BY InvParts, OfferedWake DEF BeginFails, Consumes
<1>2. /\ UNCHANGED <<intentHistory, pass, now, signal, overlap, faults, sent, lce, wakeCtx,
                     result, commit>>
      /\ reserved' = [reserved EXCEPT ![m] = Nothing] /\ retried' = retried \cup {m}
      /\ \/ hostCtx' = hostCtx /\ exec' = exec
         \/ Context(m) # Nothing /\ hostCtx' = [hostCtx EXCEPT ![m] = Context(m)] /\ exec' = exec
         \/ hostCtx' = [hostCtx EXCEPT ![m] = Nothing] /\ exec' = [exec EXCEPT ![m] = Nothing]
  BY DEF BeginFails, Outside, store, Released
<1>3. /\ consumedWakes' = [consumedWakes EXCEPT ![m] = s]
      /\ consumedWakes' \in [Instants -> Wakes \cup {Nothing}]
      /\ admission' \in [Instants -> {"NONE", "ACCEPT", "REWRITE"}]
      /\ verdicts' \in [Instants -> SUBSET {"ACCEPT", "REWRITE", "REJECT"}]
      /\ \A n \in Instants : consumedWakes'[n] # Nothing =>
           consumedWakes'[n] \in signal /\ consumedWakes'[n].at = n
      /\ \A n \in Instants : Beginnable(n)' => Beginnable(n)
      /\ AdmissionIsVerdict' /\ CompletedAfterAccept'
  BY <1>2, ConsumesWake DEF BeginFails
<1>4. HistoryInv' /\ Keeps /\ NoneBorn
  BY <1>2, AdapterAlone
<1>5. /\ reserved' \in [Instants -> Inspiring] /\ retried' \subseteq Instants
      /\ hostCtx' \in [Instants -> Contexts \cup {Nothing}]
      /\ exec' \in [Instants -> Proses \cup {Nothing}]
  BY <1>1, <1>2 DEF WakeInv, WakeTypeOK, Inspiring
<1>6. WakeTypeOK'
  BY <1>1, <1>2, <1>3, <1>5 DEF WakeInv, WakeTypeOK
<1>7. ASSUME NEW n \in Instants, n # m
      PROVE  /\ Kept(n)' = Kept(n) /\ reserved'[n] = reserved[n] /\ hostCtx'[n] = hostCtx[n]
             /\ exec'[n] = exec[n] /\ consumedWakes'[n] = consumedWakes[n]
  BY <1>1, <1>2, <1>3, <1>7 DEF WakeInv, WakeTypeOK, Kept
<1>8. Kept(m)' \subseteq Kept(m) /\ consumedWakes'[m] = s
  BY <1>1, <1>2, <1>3 DEF WakeInv, WakeTypeOK, Kept
<1>9. s # Nothing
  BY <1>1, ProactiveAssumption
<1>10. exec[m] # Nothing /\ exec[m].sent => Kept(m)' = {}
  BY <1>1, <1>8
<1>11. WakeInv'
  <2>1. \A n \in Instants : KeptLess(n)
    BY <1>7, <1>8 DEF KeptLess
  <2>2. KeptOfWakes
    BY <1>1 DEF WakeInv
  <2>3. ASSUME NEW n \in Instants
        PROVE  /\ hostCtx'[n] # Nothing \/ exec'[n] # Nothing => consumedWakes'[n] # Nothing
               /\ exec[n] # Nothing /\ exec[n].sent => Kept(n)' = {} \/ exec'[n] = exec[n]
               /\ \/ n \in retried'
                  \/ /\ n \notin retried /\ (commit = Nothing \/ commit[1] # n)
                     /\ reserved'[n] = reserved[n]
    BY <1>1, <1>2, <1>7, <1>8, <1>9, <1>10, <2>2 DEF KeptOfWakes
  <2> QED BY <1>2, <1>3, <1>4, <1>6, <2>1, <2>3, AdapterWakes
<1> QED BY <1>1, <1>2, <1>4, <1>11, AdapterKeeps

LEMMA BeginPreparedKeeps ==
    ASSUME ProactiveInv, NEW s \in signal, BeginPrepared(s)
    PROVE  ProactiveInv'
<1> DEFINE m == s.at
<1>1. /\ WakeInv /\ s \in Wakes /\ m \in Instants /\ commit = Nothing /\ faults \in 0 .. MaxFaults
      /\ \A c \in Kept(m) : ~(exec[m] # Nothing /\ exec[m].sent)
      /\ Context(m) \in Kept(m) /\ Context(m) \in Contexts
  BY InvParts, OfferedWake DEF BeginPrepared, Consumes
<1>2. PICK c \in Contexts : c = Context(m)
  BY <1>1
<1>3. PICK p \in Proses : p = [intent |-> c.intent, material |-> c.material, sent |-> FALSE]
  BY DEF Contexts, Proses, Inspiring
<1>4. /\ UNCHANGED <<intentHistory, pass, now, signal, overlap, faults, sent, lce, wakeCtx,
                     reserved, result, commit, retried>>
      /\ hostCtx' = [hostCtx EXCEPT ![m] = c]
      /\ exec' = [exec EXCEPT ![m] = p]
  BY <1>2, <1>3 DEF BeginPrepared, Outside, store
<1>5. /\ consumedWakes' = [consumedWakes EXCEPT ![m] = s]
      /\ consumedWakes' \in [Instants -> Wakes \cup {Nothing}]
      /\ admission' \in [Instants -> {"NONE", "ACCEPT", "REWRITE"}]
      /\ verdicts' \in [Instants -> SUBSET {"ACCEPT", "REWRITE", "REJECT"}]
      /\ \A n \in Instants : consumedWakes'[n] # Nothing =>
           consumedWakes'[n] \in signal /\ consumedWakes'[n].at = n
      /\ \A n \in Instants : Beginnable(n)' => Beginnable(n)
      /\ AdmissionIsVerdict' /\ CompletedAfterAccept'
  BY <1>4, ConsumesWake DEF BeginPrepared
<1>6. HistoryInv' /\ Keeps /\ NoneBorn
  BY <1>4, AdapterAlone
<1>7. WakeTypeOK'
  BY <1>1, <1>4, <1>5 DEF WakeInv, WakeTypeOK
<1>8. ASSUME NEW n \in Instants, n # m
      PROVE  /\ Kept(n)' = Kept(n) /\ hostCtx'[n] = hostCtx[n]
             /\ exec'[n] = exec[n] /\ consumedWakes'[n] = consumedWakes[n]
  BY <1>1, <1>4, <1>5, <1>8 DEF WakeInv, WakeTypeOK, Kept
<1>9. Kept(m)' \subseteq Kept(m) \cup {c, p} /\ consumedWakes'[m] = s /\ s # Nothing
      /\ c \in Kept(m) /\ p.intent = c.intent /\ p.material = c.material
  BY <1>1, <1>2, <1>3, <1>4, <1>5, ProactiveAssumption DEF WakeInv, WakeTypeOK, Kept
<1>10. WakeInv'
  <2>1. \A n \in Instants : KeptLess(n)
    BY <1>8, <1>9 DEF KeptLess
  <2>2. KeptOfWakes
    BY <1>1 DEF WakeInv
  <2>3. ASSUME NEW n \in Instants
        PROVE  /\ hostCtx'[n] # Nothing \/ exec'[n] # Nothing => consumedWakes'[n] # Nothing
               /\ exec[n] # Nothing /\ exec[n].sent => Kept(n)' = {} \/ exec'[n] = exec[n]
               /\ \/ n \in retried'
                  \/ /\ n \notin retried /\ (commit = Nothing \/ commit[1] # n)
                     /\ reserved'[n] = reserved[n]
    BY <1>1, <1>4, <1>8, <1>9, <2>2 DEF KeptOfWakes
  <2> QED BY <1>4, <1>5, <1>6, <1>7, <2>1, <2>3, AdapterWakes
<1> QED BY <1>1, <1>4, <1>6, <1>10, AdapterKeeps

LEMMA GuardPassesKeeps ==
    ASSUME ProactiveInv, NEW n \in Instants, NEW verdict \in {"ACCEPT", "REWRITE"},
           GuardPasses(n, verdict)
    PROVE  ProactiveInv'
<1>1. WakeInv /\ commit = Nothing /\ faults \in 0 .. MaxFaults
  BY InvParts DEF GuardPasses, Guards, HostFree, PassInv, PassTypeOK
<1>2. /\ UNCHANGED <<intentHistory, pass, now, signal, overlap, faults, sent, lce, wakeCtx, hostCtx,
                     consumedWakes, exec, reserved, result, commit, retried>>
      /\ admission' = [admission EXCEPT ![n] = verdict]
      /\ verdicts' = [verdicts EXCEPT ![n] = {verdict}]
  BY DEF GuardPasses, Outside, store
<1>3. /\ HistoryInv' /\ Keeps /\ NoneBorn
      /\ \A m \in Instants : Beginnable(m)' => Beginnable(m)
  BY <1>2, AdapterAlone
<1>4. WakeTypeOK' /\ AdmissionIsVerdict'
  BY <1>1, <1>2 DEF WakeInv, WakeTypeOK, AdmissionIsVerdict
<1>5. CompletedAfterAccept'
  BY <1>1, <1>2 DEF CompletedAfterAccept
<1>6. \A m \in Instants : Kept(m)' = Kept(m)
  BY <1>2 DEF Kept
<1>7. WakeInv'
  <2>1. \A m \in Instants : KeptLess(m)
    BY <1>6 DEF KeptLess
  <2>2. KeptOfWakes
    BY <1>1 DEF WakeInv
  <2> QED BY <1>1, <1>2, <1>3, <1>4, <1>5, <2>1, <2>2, AdapterWakes DEF KeptOfWakes
<1> QED BY <1>1, <1>2, <1>3, <1>7, AdapterKeeps

\* A wake that ends is forgotten with its material, and its intent moves on.
LEMMA EndsKeeps ==
    ASSUME ProactiveInv, NEW n \in Instants, NEW what \in {"reject", "abort"}, Ends(n, what),
           HostFree, consumedWakes[n] # Nothing,
           verdicts' \in [Instants -> SUBSET {"ACCEPT", "REWRITE", "REJECT"}],
           \A m \in Instants \ {n} : verdicts'[m] = verdicts[m]
    PROVE  ProactiveInv'
<1>1. WakeInv /\ HistoryInv /\ commit = Nothing /\ faults \in 0 .. MaxFaults
  BY InvParts DEF HostFree, PassInv, PassTypeOK
<1>2. /\ UNCHANGED <<pass, now, signal, overlap, faults, sent, lce, consumedWakes, commit, retried>>
      /\ reserved' = [reserved EXCEPT ![n] = Nothing]
      /\ admission' = [admission EXCEPT ![n] = "NONE"]
      /\ result' = [result EXCEPT ![n] = "ABORTED"]
      /\ exec' = [exec EXCEPT ![n] = Nothing] /\ hostCtx' = [hostCtx EXCEPT ![n] = Nothing]
      /\ wakeCtx' = [wakeCtx EXCEPT ![n] = Nothing]
  BY DEF Ends, Forget, Released
<1>3. PICK s \in Wakes : s = consumedWakes[n]
  BY <1>1 DEF WakeInv, WakeTypeOK
<1>4. HistoryInv' /\ Keeps /\ NoneBorn
  <2>1. s.intent \in Ids /\ s.version \in Nat /\ <<"proactive", what>> \in Tags
    BY DEF Wakes, Tags
  <2>2. Transition(s.intent, <<"proactive", what>>, s.version)
    BY <1>3 DEF Ends
  <2> QED BY <1>1, <1>2, <2>1, <2>2, TransitionKeeps DEF HistoryInv
<1>5. \A m \in Instants : Beginnable(m)' => Beginnable(m)
  BY <1>1, <1>2, <1>4, BeginnableSame DEF WakeInv
<1>6. WakeTypeOK'
  BY <1>1, <1>2 DEF WakeInv, WakeTypeOK, Inspiring
<1>7. ASSUME NEW m \in Instants, m # n
      PROVE  /\ Kept(m)' = Kept(m) /\ hostCtx'[m] = hostCtx[m] /\ exec'[m] = exec[m]
             /\ reserved'[m] = reserved[m] /\ admission'[m] = admission[m]
  BY <1>1, <1>2, <1>7 DEF WakeInv, WakeTypeOK, Kept
<1>8. Kept(n)' = {} /\ hostCtx'[n] = Nothing /\ exec'[n] = Nothing /\ admission'[n] = "NONE"
  BY <1>1, <1>2 DEF WakeInv, WakeTypeOK, Kept
<1>9. AdmissionIsVerdict' /\ CompletedAfterAccept'
  BY <1>1, <1>2, <1>7, <1>8 DEF WakeInv, AdmissionIsVerdict, CompletedAfterAccept
<1>10. WakeInv'
  <2>1. \A m \in Instants : KeptLess(m)
    BY <1>7, <1>8 DEF KeptLess
  <2>2. KeptOfWakes
    BY <1>1 DEF WakeInv
  <2>3. ASSUME NEW m \in Instants
        PROVE  /\ hostCtx'[m] # Nothing \/ exec'[m] # Nothing => consumedWakes'[m] # Nothing
               /\ exec[m] # Nothing /\ exec[m].sent => Kept(m)' = {} \/ exec'[m] = exec[m]
               /\ \/ Kept(m)' = {} \/ m \in retried'
                  \/ /\ m \notin retried /\ (commit = Nothing \/ commit[1] # m)
                     /\ reserved'[m] = reserved[m]
    BY <1>1, <1>2, <1>7, <1>8, <2>2 DEF KeptOfWakes
  <2> QED BY <1>2, <1>4, <1>5, <1>6, <1>9, <2>1, <2>2, <2>3, AdapterWakes DEF KeptOfWakes
<1> QED BY <1>1, <1>2, <1>4, <1>10, AdapterKeeps

LEMMA GuardRejectsKeeps ==
    ASSUME ProactiveInv, NEW n \in Instants, GuardRejects(n)
    PROVE  ProactiveInv'
<1>1. verdicts \in [Instants -> SUBSET {"ACCEPT", "REWRITE", "REJECT"}]
  BY InvParts DEF WakeInv, WakeTypeOK
<1>2. /\ verdicts' \in [Instants -> SUBSET {"ACCEPT", "REWRITE", "REJECT"}]
      /\ \A m \in Instants \ {n} : verdicts'[m] = verdicts[m]
  BY <1>1 DEF GuardRejects
<1>3. HostFree /\ consumedWakes[n] # Nothing /\ Ends(n, "reject")
  BY DEF GuardRejects, Guards
<1> QED BY <1>2, <1>3, EndsKeeps

LEMMA AbortKeeps ==
    ASSUME ProactiveInv, NEW n \in Instants, Abort(n)
    PROVE  ProactiveInv'
<1>1. verdicts \in [Instants -> SUBSET {"ACCEPT", "REWRITE", "REJECT"}]
  BY InvParts DEF WakeInv, WakeTypeOK
<1>2. verdicts' = verdicts /\ HostFree /\ consumedWakes[n] # Nothing /\ Ends(n, "abort")
  BY DEF Abort
<1> QED BY <1>1, <1>2, EndsKeeps

\* Prose is sent for a wake whose prose was not, so for an intent that never had any.
LEMMA SendKeeps ==
    ASSUME ProactiveInv, NEW n \in Instants, Send(n)
    PROVE  ProactiveInv'
<1>1. /\ WakeInv /\ faults \in 0 .. MaxFaults /\ now \in Nat
      /\ exec \in [Instants -> Proses \cup {Nothing}] /\ sent \in [Ids -> Nat]
  BY InvParts DEF PassInv, PassTypeOK, WakeInv, WakeTypeOK
<1>2. PICK p \in Proses : p = exec[n]
  BY <1>1 DEF Send, Guards
<1>3. ~p.sent /\ p \in Kept(n) /\ p.intent \in Ids
  BY <1>2 DEF Send, Guards, Kept, Proses
<1>4. PICK q \in Proses : q = [p EXCEPT !.sent = TRUE]
  BY DEF Proses
<1>5. q.sent /\ q.intent = p.intent /\ q.material = p.material /\ q # Nothing
  BY <1>4, ProactiveAssumption DEF Proses
<1>6. /\ exec' = [exec EXCEPT ![n] = q] /\ sent' = [sent EXCEPT ![p.intent] = @ + 1]
      /\ UNCHANGED <<intentHistory, pass, now, signal, overlap, faults, lce, reserved, wakeCtx,
                     hostCtx, consumedWakes, admission, result, commit, verdicts, retried>>
  BY <1>2, <1>4 DEF Send, store, material
<1>7. sent[p.intent] = 0
  BY <1>1, <1>2, <1>3 DEF WakeInv, SentIsMarked
<1>8. /\ sent' \in [Ids -> Nat] /\ sent'[p.intent] = 1
      /\ \A i \in Ids \ {p.intent} : sent'[i] = sent[i]
  BY <1>1, <1>3, <1>6, <1>7
<1>9. WakeTypeOK'
  BY <1>1, <1>6, <1>8 DEF WakeInv, WakeTypeOK
<1>10. /\ HistoryInv' /\ Keeps /\ NoneBorn
       /\ \A m \in Instants : Beginnable(m)' => Beginnable(m)
  BY <1>6, AdapterAlone
<1>11. WakesDistinct'
  BY <1>1, <1>6 DEF WakeInv, WakesDistinct, Version, Spent, Status, Exists
<1>12. PICK s \in signal : s.at = n /\ s.intent = p.intent
  BY <1>1, <1>3 DEF WakeInv, KeptOfWakes
<1>13. \A m \in Instants \ {n} : Kept(m)' = Kept(m) /\ exec'[m] = exec[m]
  BY <1>1, <1>6 DEF Kept
<1>14. Kept(n)' \subseteq Kept(n) \cup {q} /\ exec'[n] = q
  BY <1>1, <1>6 DEF Kept
<1>15. KeptOfWakes'
  <2>1. ASSUME NEW m \in Instants, NEW c \in Kept(m)'
        PROVE  \E w \in signal : w.at = m /\ w.intent = c.intent
    BY <1>1, <1>5, <1>12, <1>13, <1>14 DEF WakeInv, KeptOfWakes
  <2>2. consumedWakes[n] # Nothing
    BY DEF Send, Guards
  <2> QED BY <1>1, <1>6, <1>13, <2>1, <2>2 DEF WakeInv, KeptOfWakes
<1>16. SentOnce'
  BY <1>1, <1>8 DEF WakeInv, SentOnce
<1>17. SentIsMarked'
  <2>1. ASSUME NEW m \in Instants, m # n, NEW c \in Kept(m)', sent'[c.intent] > 0
        PROVE  exec'[m] # Nothing /\ exec'[m].sent
    <3>1. c \in Kept(m)
      BY <1>13, <2>1
    <3>2. PICK w \in signal : w.at = m /\ w.intent = c.intent
      BY <1>1, <3>1 DEF WakeInv, KeptOfWakes
    <3>3. c.intent # p.intent
      BY <1>1, <1>12, <2>1, <3>2 DEF WakeInv, WakesDistinct
    <3>4. c.intent \in Ids
      BY <1>1, <3>2 DEF WakeInv, WakeTypeOK, Wakes
    <3>5. sent[c.intent] > 0
      BY <1>8, <2>1, <3>3, <3>4
    <3> QED BY <1>1, <1>13, <2>1, <3>1, <3>5 DEF WakeInv, SentIsMarked
  <2>2. ASSUME NEW i \in Ids, sent'[i] > 0 PROVE \E w \in signal : w.intent = i
    <3>1. CASE i = p.intent
      BY <1>12, <3>1
    <3>2. CASE i # p.intent
      BY <1>1, <1>8, <2>2, <3>2 DEF WakeInv, SentIsMarked
    <3> QED BY <3>1, <3>2
  <2> QED BY <1>5, <1>6, <1>14, <2>1, <2>2 DEF SentIsMarked
<1>18. AdmissionIsVerdict' /\ CompletedAfterAccept'
  BY <1>1, <1>6 DEF WakeInv, AdmissionIsVerdict, CompletedAfterAccept
<1>19. MaterialKept'
  <2>1. ASSUME NEW m \in Instants, NEW c \in Kept(m)'
        PROVE  \E k \in Kept(m) : k.material = c.material
    BY <1>3, <1>5, <1>13, <1>14
  <2> QED BY <1>1, <1>6, <1>10, <2>1 DEF WakeInv, MaterialKept
<1>20. WakeInv'
  BY <1>9, <1>11, <1>15, <1>16, <1>17, <1>18, <1>19 DEF WakeInv
<1> QED BY <1>1, <1>6, <1>10, <1>20, AdapterKeeps

LEMMA CommitTransitionKeeps ==
    ASSUME ProactiveInv, NEW n \in Instants, CommitTransition(n)
    PROVE  ProactiveInv'
<1>1. WakeInv /\ HistoryInv /\ commit = Nothing /\ faults \in 0 .. MaxFaults
  BY InvParts DEF CommitTransition, HostFree, PassInv, PassTypeOK
<1>2. /\ UNCHANGED <<pass, now, signal, overlap, faults, sent, lce, reserved, wakeCtx, hostCtx,
                     consumedWakes, exec, admission, result, verdicts, retried>>
      /\ commit' = <<n, "consume">> /\ admission[n] = "ACCEPT" /\ consumedWakes[n] # Nothing
  BY DEF CommitTransition, material, observed
<1>3. PICK s \in Wakes : s = consumedWakes[n]
  BY <1>1, <1>2 DEF WakeInv, WakeTypeOK
<1>4. HistoryInv' /\ Keeps /\ NoneBorn
  <2>1. s.intent \in Ids /\ s.version \in Nat /\ <<"proactive", "commit">> \in Tags
    BY DEF Wakes, Tags
  <2>2. Transition(s.intent, <<"proactive", "commit">>, s.version)
    BY <1>3 DEF CommitTransition
  <2> QED BY <1>1, <1>2, <2>1, <2>2, TransitionKeeps DEF HistoryInv
<1>5. \A m \in Instants : Beginnable(m)' => Beginnable(m)
  BY <1>1, <1>2, <1>4, BeginnableSame DEF WakeInv
<1>6. commit' \in CommitSteps /\ commit' # Nothing /\ commit'[1] = n
  BY <1>2, ProactiveAssumption DEF CommitSteps
<1>7. WakeTypeOK'
  BY <1>1, <1>2, <1>6 DEF WakeInv, WakeTypeOK
<1>8. AdmissionIsVerdict' /\ CompletedAfterAccept'
  BY <1>1, <1>2, <1>6 DEF WakeInv, AdmissionIsVerdict, CompletedAfterAccept
<1>9. \A m \in Instants : Kept(m)' = Kept(m)
  BY <1>2 DEF Kept
<1>10. WakeInv'
  <2>1. \A m \in Instants : KeptLess(m)
    BY <1>9 DEF KeptLess
  <2>2. KeptOfWakes
    BY <1>1 DEF WakeInv
  <2> QED BY <1>1, <1>2, <1>4, <1>5, <1>7, <1>8, <2>1, <2>2, AdapterWakes DEF KeptOfWakes
<1> QED BY <1>1, <1>2, <1>4, <1>10, AdapterKeeps

\* A step of a commit under way: it touches the material of its own wake only.
LEMMA CommitStepKeeps ==
    ASSUME ProactiveInv, NEW n \in Instants, commit # Nothing, commit[1] = n,
           NEW st \in {"delete", "finish"}, commit' = <<n, st>>,
           UNCHANGED <<intentHistory, pass, now, signal, overlap, sent, wakeCtx, hostCtx,
                       consumedWakes, exec, admission, result, verdicts, retried>>,
           faults' \in 0 .. MaxFaults,
           lce' \in [Materials -> {"PENDING", "CONSUMED"}],
           reserved' \in [Instants -> Inspiring],
           \A m \in Instants \ {n} : reserved'[m] = reserved[m]
    PROVE  ProactiveInv'
<1>1. WakeInv
  BY InvParts
<1>2. commit' \in CommitSteps /\ commit' # Nothing /\ commit'[1] = n
  BY ProactiveAssumption DEF CommitSteps
<1>3. /\ HistoryInv' /\ Keeps /\ NoneBorn
      /\ \A m \in Instants : Beginnable(m)' => Beginnable(m)
  BY AdapterAlone
<1>4. WakeTypeOK'
  BY <1>1, <1>2 DEF WakeInv, WakeTypeOK
<1>5. AdmissionIsVerdict' /\ CompletedAfterAccept'
  BY <1>1, <1>2 DEF WakeInv, AdmissionIsVerdict, CompletedAfterAccept
<1>6. \A m \in Instants : Kept(m)' = Kept(m)
  BY DEF Kept
<1>7. WakeInv'
  <2>1. KeptOfWakes
    BY <1>1 DEF WakeInv
  <2>2. ASSUME NEW m \in Instants
        PROVE  \/ m \in retried' \/ (commit' # Nothing /\ commit'[1] = m)
               \/ /\ m \notin retried /\ (commit = Nothing \/ commit[1] # m)
                  /\ reserved'[m] = reserved[m]
    BY <1>2
  <2>3. \A m \in Instants : KeptLess(m)
    BY <1>6 DEF KeptLess
  <2> QED BY <1>3, <1>4, <1>5, <2>1, <2>2, <2>3, AdapterWakes DEF KeptOfWakes
<1> QED BY <1>3, <1>7, AdapterKeeps

LEMMA ConsumeInspirationKeeps ==
    ASSUME ProactiveInv, NEW n \in Instants, ConsumeInspiration(n)
    PROVE  ProactiveInv'
<1>1. WakeTypeOK /\ faults \in 0 .. MaxFaults
  BY InvParts DEF WakeInv, PassInv, PassTypeOK
<1>2. /\ commit = <<n, "consume">> /\ commit # Nothing /\ commit[1] = n
      /\ UNCHANGED <<intentHistory, pass, now, signal, overlap, sent, wakeCtx, hostCtx,
                     consumedWakes, exec, admission, result, verdicts, retried, reserved>>
  BY ProactiveAssumption DEF ConsumeInspiration, store, observed, CommitSteps
<1>3. faults' \in 0 .. MaxFaults
  BY <1>1, FaultCounted DEF ConsumeInspiration
<1>4. lce' \in [Materials -> {"PENDING", "CONSUMED"}]
  BY <1>1 DEF ConsumeInspiration, WakeTypeOK
<1>5. PICK st \in {"delete", "finish"} : commit' = <<n, st>>
  BY DEF ConsumeInspiration
<1> QED BY <1>1, <1>2, <1>3, <1>4, <1>5, CommitStepKeeps DEF WakeTypeOK

LEMMA DeleteReservationKeeps ==
    ASSUME ProactiveInv, NEW n \in Instants, DeleteReservation(n)
    PROVE  ProactiveInv'
<1>1. WakeTypeOK /\ faults \in 0 .. MaxFaults
  BY InvParts DEF WakeInv, PassInv, PassTypeOK
<1>2. /\ commit = <<n, "delete">> /\ commit # Nothing /\ commit[1] = n /\ commit' = <<n, "finish">>
      /\ UNCHANGED <<intentHistory, pass, now, signal, overlap, sent, wakeCtx, hostCtx,
                     consumedWakes, exec, admission, result, verdicts, retried, lce, faults>>
  BY ProactiveAssumption DEF DeleteReservation, store, observed, CommitSteps
<1>3. /\ reserved' \in [Instants -> Inspiring]
      /\ \A m \in Instants \ {n} : reserved'[m] = reserved[m]
  BY <1>1 DEF DeleteReservation, Released, WakeTypeOK, Inspiring
<1>4. lce' \in [Materials -> {"PENDING", "CONSUMED"}]
  BY <1>1, <1>2 DEF WakeTypeOK
<1> QED BY <1>1, <1>2, <1>3, <1>4, CommitStepKeeps

LEMMA FinishCommitKeeps ==
    ASSUME ProactiveInv, NEW n \in Instants, FinishCommit(n)
    PROVE  ProactiveInv'
<1>1. /\ WakeInv /\ faults \in 0 .. MaxFaults /\ commit[1] = n /\ commit' = Nothing
  BY InvParts DEF FinishCommit, PassInv, PassTypeOK
<1>2. /\ UNCHANGED <<intentHistory, pass, now, signal, overlap, faults, sent, lce, reserved,
                     consumedWakes, verdicts, retried>>
      /\ admission' = [admission EXCEPT ![n] = "NONE"]
      /\ result' = [result EXCEPT ![n] = "COMMITTED"]
      /\ exec' = [exec EXCEPT ![n] = Nothing] /\ hostCtx' = [hostCtx EXCEPT ![n] = Nothing]
      /\ wakeCtx' = [wakeCtx EXCEPT ![n] = Nothing]
  BY DEF FinishCommit, Forget, store, material, observed
<1>3. /\ HistoryInv' /\ Keeps /\ NoneBorn
      /\ \A m \in Instants : Beginnable(m)' => Beginnable(m)
  BY <1>2, AdapterAlone
<1>4. WakeTypeOK'
  BY <1>1, <1>2 DEF WakeInv, WakeTypeOK
<1>5. ASSUME NEW m \in Instants, m # n
      PROVE  /\ Kept(m)' = Kept(m) /\ hostCtx'[m] = hostCtx[m] /\ exec'[m] = exec[m]
             /\ admission'[m] = admission[m]
  BY <1>1, <1>2, <1>5 DEF WakeInv, WakeTypeOK, Kept
<1>6. Kept(n)' = {} /\ hostCtx'[n] = Nothing /\ exec'[n] = Nothing /\ admission'[n] = "NONE"
  BY <1>1, <1>2 DEF WakeInv, WakeTypeOK, Kept
<1>7. AdmissionIsVerdict' /\ CompletedAfterAccept'
  BY <1>1, <1>2, <1>5, <1>6 DEF WakeInv, AdmissionIsVerdict, CompletedAfterAccept
<1>8. WakeInv'
  <2>1. \A m \in Instants : KeptLess(m)
    BY <1>5, <1>6 DEF KeptLess
  <2>2. KeptOfWakes
    BY <1>1 DEF WakeInv
  <2>3. ASSUME NEW m \in Instants
        PROVE  /\ hostCtx'[m] # Nothing \/ exec'[m] # Nothing => consumedWakes'[m] # Nothing
               /\ exec[m] # Nothing /\ exec[m].sent => Kept(m)' = {} \/ exec'[m] = exec[m]
               /\ \/ Kept(m)' = {} \/ m \in retried'
                  \/ /\ m \notin retried /\ (commit = Nothing \/ commit[1] # m)
                     /\ reserved'[m] = reserved[m]
    BY <1>1, <1>2, <1>5, <1>6, <2>2 DEF KeptOfWakes
  <2> QED BY <1>2, <1>3, <1>4, <1>7, <2>1, <2>2, <2>3, AdapterWakes DEF KeptOfWakes
<1> QED BY <1>1, <1>2, <1>3, <1>8, AdapterKeeps

\* The Host's passes end: by a wake handed out, or with the process.
LEMMA HostEnds ==
    ASSUME ProactiveInv, NoneBorn, UNCHANGED <<now, overlap>>, faults' \in 0 .. MaxFaults,
           pass' \in [Actors -> Passes],
           \A a \in Actors : pass'[a] \in {pass[a], Over, Idle(Clock(a))},
           pass'["host"] \in {Over, Idle(Clock("host"))},
           \A s \in signal' : s.at # Clock("host")'
    PROVE  PassInv'
<1>1. PassInv /\ \A a \in Actors : Clock(a) \in 0 .. MaxNow /\ pass[a].fresh \subseteq Ids
  BY InvParts, PassParts
<1>2. \A a \in Actors :
        /\ pass'[a] = pass[a] \/ (pass'[a].at = "idle" /\ pass'[a].fresh = {})
        /\ Clock(a)' \in {Clock(a), 0}
  BY <1>1, PassRecords DEF Clock
<1>3. pass'["host"].at = "idle" /\ pass'["host"].list = {} /\ "host" \in Actors
  BY <1>1, PassRecords DEF Actors
<1>4. PassTypeOK'
  BY <1>1 DEF PassInv, PassTypeOK
<1>5. PassesApart'
  <2> SUFFICES ASSUME NEW a \in Actors
               PROVE  /\ Clock(a)' <= now /\ (Clock(a)' = 0 => In(a, "idle")')
                      /\ \A b \in Actors \ {a} : Clock(a)' = Clock(b)' => Clock(a)' = 0
                      /\ \A i \in pass'[a].fresh : i[2] = Clock(a)' /\ ~Exists(i)' /\ ~In(a, "idle")'
    BY DEF PassesApart
  <2>1. Clock(a)' <= now /\ \A b \in Actors \ {a} : Clock(a)' = Clock(b)' => Clock(a)' = 0
    BY <1>1, <1>2 DEF PassInv, PassesApart, PassTypeOK
  <2>2. CASE pass'[a] = pass[a]
    BY <1>1, <2>1, <2>2 DEF PassInv, PassesApart, Clock, In, NoneBorn
  <2>3. CASE pass'[a].at = "idle" /\ pass'[a].fresh = {}
    BY <2>1, <2>3 DEF In
  <2> QED BY <1>2, <2>2, <2>3
<1>6. PassUnwoken'
  BY <1>3 DEF PassUnwoken, In
<1>7. OneAtATime'
  <2>1. Tickers \subseteq Actors
    BY DEF Tickers, Actors
  <2>2. \A a \in Actors : In(a, "idle") => In(a, "idle")'
    BY <1>2 DEF In
  <2>3. \A a \in Actors : pass'[a].fresh \subseteq pass[a].fresh
    BY <1>2
  <2> QED BY <1>1, <2>1, <2>2, <2>3 DEF PassInv, OneAtATime, NoneBorn
<1> QED BY <1>4, <1>5, <1>6, <1>7 DEF PassInv

\* The Host's ticker hands out the wake of an intent no wake was handed out for, at
\* an instant no wake has, and the material it reserved for it.
LEMMA WakeKeeps ==
    ASSUME ProactiveInv, NEW n \in Instants, NEW m \in Inspiring, Wake(n, m)
    PROVE  ProactiveInv'
<1>1. /\ WakeInv /\ PassInv /\ n = Clock("host") /\ now \in Nat /\ n \in Nat \ {0} /\ n <= now
      /\ pass \in [Actors -> Passes] /\ "host" \in Actors
  BY InvParts DEF Wake, PassInv, PassTypeOK, Instants, PassesApart, Actors
<1>2. PICK p \in Reads : p = pass["host"].pick
  BY <1>1 DEF Wake, PassInv, PassUnwoken
<1>3. /\ p[1] \in Ids /\ p[2] \in Nat /\ p[2] \in 2 .. Version(p[1]) /\ Spent(p[1])
      /\ \A s \in signal : s.intent # p[1] /\ s.at # n
  BY <1>1, <1>2 DEF Wake, PassInv, PassUnwoken, Reads
<1>4. PICK w \in Wakes : w = [at |-> n, intent |-> p[1], version |-> p[2]]
  BY <1>3 DEF Wakes
<1>5. PICK c \in Contexts : c = [intent |-> p[1], material |-> m]
  BY <1>3 DEF Contexts
<1>6. w.at = n /\ w.intent = p[1] /\ w.version = p[2] /\ c.intent = p[1] /\ c.material = m
  BY <1>4, <1>5
<1>7. /\ signal' = signal \cup {w} /\ wakeCtx' = [wakeCtx EXCEPT ![n] = c]
      /\ pass' = [pass EXCEPT !["host"] = Over]
      /\ reserved' = [reserved EXCEPT ![n] = m] \/ (m = Nothing /\ reserved' = reserved)
      /\ UNCHANGED <<intentHistory, now, overlap, faults, sent, lce, hostCtx, consumedWakes, exec,
                     admission, result, commit, verdicts, retried>>
  BY <1>2, <1>4, <1>5 DEF Wake, Turned, store, adapter, observed
<1>8. HistoryInv' /\ Keeps /\ NoneBorn
  BY <1>7, AdapterAlone
<1>9. PassInv'
  <2>1. pass' \in [Actors -> Passes] /\ pass'["host"] = Over
        /\ \A a \in Actors \ {"host"} : pass'[a] = pass[a]
    BY <1>1, <1>7, PassRecords
  <2>2. Clock("host")' = 0
    BY <2>1, PassRecords DEF Clock
  <2>3. \A s \in signal' : s.at # Clock("host")'
    BY <1>1, <1>6, <1>7, <2>2 DEF WakeInv, WakeTypeOK, Wakes, Instants
  <2>4. faults' \in 0 .. MaxFaults
    BY <1>1, <1>7 DEF PassInv, PassTypeOK
  <2> QED BY <1>7, <1>8, <2>1, <2>3, <2>4, HostEnds
<1>10. WakeTypeOK'
  BY <1>1, <1>7 DEF WakeInv, WakeTypeOK
<1>11. WakesDistinct'
  <2>1. \A s \in signal : s.version \in 2 .. Version(s.intent)' /\ Spent(s.intent)' /\ s.at <= now'
    BY <1>1, <1>7 DEF WakeInv, WakesDistinct, Version, Spent, Status, Exists
  <2>2. w.version \in 2 .. Version(w.intent)' /\ Spent(w.intent)' /\ w.at <= now'
    BY <1>1, <1>3, <1>6, <1>7 DEF Version, Spent, Status, Exists
  <2>3. \A s \in signal : s.at # w.at /\ s.intent # w.intent
    BY <1>3, <1>6
  <2> QED BY <1>1, <1>7, <2>1, <2>2, <2>3 DEF WakeInv, WakesDistinct
<1>12. consumedWakes[n] = Nothing /\ hostCtx[n] = Nothing /\ exec[n] = Nothing
  BY <1>1, <1>3 DEF WakeInv, KeptOfWakes
<1>13. Kept(n)' \subseteq {c} /\ \A k \in Instants \ {n} : Kept(k)' = Kept(k)
  BY <1>1, <1>7, <1>12 DEF Kept, WakeInv, WakeTypeOK
<1>14. KeptOfWakes'
  BY <1>1, <1>6, <1>7, <1>12, <1>13 DEF WakeInv, KeptOfWakes
<1>15. SentOnce' /\ AdmissionIsVerdict' /\ CompletedAfterAccept'
  BY <1>1, <1>7 DEF WakeInv, SentOnce, AdmissionIsVerdict, CompletedAfterAccept
<1>16. SentIsMarked'
  <2>1. sent[p[1]] = 0
    BY <1>1, <1>3 DEF WakeInv, WakeTypeOK, SentIsMarked
  <2> QED BY <1>1, <1>6, <1>7, <1>13, <2>1 DEF WakeInv, SentIsMarked
<1>17. MaterialKept'
  <2> SUFFICES ASSUME NEW k \in Instants, Beginnable(k)', k \notin retried,
                      commit = Nothing \/ commit[1] # k, NEW d \in Kept(k)', d.material # Nothing
               PROVE  reserved'[k] = d.material
    BY <1>7 DEF MaterialKept
  <2>1. CASE k = n
    <3>1. d.material = m /\ m # Nothing
      BY <1>6, <1>13, <2>1
    <3> QED BY <1>1, <1>7, <2>1, <3>1 DEF WakeInv, WakeTypeOK
  <2>2. CASE k # n
    <3>1. PICK s \in signal' : s.at = k /\ Eligible(s)'
      BY DEF Beginnable
    <3>2. s \in signal /\ Eligible(s)
      BY <1>6, <1>7, <2>2, <3>1 DEF Eligible, Status, Exists, Version
    <3>3. Beginnable(k) /\ d \in Kept(k)
      BY <1>13, <2>2, <3>1, <3>2 DEF Beginnable
    <3>4. reserved'[k] = reserved[k]
      BY <1>1, <1>7, <2>2 DEF WakeInv, WakeTypeOK
    <3> QED BY <1>1, <3>3, <3>4 DEF WakeInv, MaterialKept
  <2> QED BY <2>1, <2>2
<1>18. WakeInv'
  BY <1>10, <1>11, <1>14, <1>15, <1>16, <1>17 DEF WakeInv
<1> QED BY <1>8, <1>9, <1>18, InvJoins

\* The Host's process dies: nothing is kept of any wake.
LEMMA HostCrashKeeps ==
    ASSUME ProactiveInv, HostCrash
    PROVE  ProactiveInv'
<1>1. WakeInv /\ PassInv /\ pass \in [Actors -> Passes]
  BY InvParts DEF PassInv, PassTypeOK
<1>2. /\ Breaks /\ UNCHANGED <<intentHistory, signal, now, overlap, sent, lce, reserved, retried>>
      /\ wakeCtx' = Empty /\ hostCtx' = Empty /\ consumedWakes' = Empty /\ exec' = Empty
      /\ commit' = Nothing /\ admission' = [n \in Instants |-> "NONE"]
      /\ result' = [n \in Instants |-> "NONE"] /\ verdicts' = [n \in Instants |-> {}]
  BY DEF HostCrash, store, material
<1>3. pass' = [a \in Actors |-> CASE a = "host"   -> Idle(Clock(a))
                                [] a = "turn"   -> Over
                                [] a = "daemon" -> pass[a]]
  BY DEF HostCrash
<1>4. HistoryInv' /\ Keeps /\ NoneBorn
  BY <1>2, AdapterAlone
<1>5. /\ pass' \in [Actors -> Passes] /\ pass'["host"] = Idle(Clock("host"))
      /\ \A a \in Actors : pass'[a] \in {pass[a], Over, Idle(Clock(a))}
  <2>1. \A a \in Actors : Idle(Clock(a)) \in Passes /\ pass[a] \in Passes /\ Over \in Passes
    BY PassParts, PassRecords
  <2> QED BY <1>3, <2>1 DEF Actors
<1>6. PassInv'
  <2>1. Clock("host")' = Clock("host")
    BY <1>5, PassParts, PassRecords DEF Clock, Actors
  <2>2. \A s \in signal' : s.at # Clock("host")'
    BY <1>1, <1>2, <2>1 DEF PassInv, PassUnwoken
  <2>3. faults' \in 0 .. MaxFaults
    BY <1>2, FaultCounted
  <2> QED BY <1>2, <1>4, <1>5, <2>2, <2>3, HostEnds
<1>7. Empty \in [Instants -> {Nothing}] /\ \A n \in Instants : Empty[n] = Nothing
  BY DEF Empty
<1>8. WakeTypeOK'
  BY <1>1, <1>2, <1>7 DEF WakeInv, WakeTypeOK
<1>9. \A n \in Instants : Kept(n)' = {} /\ consumedWakes'[n] = Nothing /\ admission'[n] = "NONE"
  BY <1>2, <1>7 DEF Kept
<1>10. WakesDistinct'
  BY <1>1, <1>2 DEF WakeInv, WakesDistinct, Version, Spent, Status, Exists
<1>11. KeptOfWakes'
  BY <1>2, <1>7, <1>9 DEF KeptOfWakes
<1>12. SentOnce' /\ SentIsMarked' /\ AdmissionIsVerdict' /\ CompletedAfterAccept' /\ MaterialKept'
  BY <1>1, <1>2, <1>9 DEF WakeInv, SentOnce, SentIsMarked, AdmissionIsVerdict,
                          CompletedAfterAccept, MaterialKept
<1> QED BY <1>4, <1>6, <1>8, <1>10, <1>11, <1>12, InvJoins DEF WakeInv

-----------------------------------------------------------------------------
(* The invariant, and what it is for. *)

LEMMA ProactiveInitOK == PlaneInit => ProactiveInv
<1> SUFFICES ASSUME PlaneInit PROVE ProactiveInv
  OBVIOUS
<1>1. MaxNow \in Nat /\ MaxFaults \in Nat
  BY ProactiveAssumption
<1>2. /\ \A i \in Ids : intentHistory[i] = <<>>
      /\ \A i \in Ids : Version(i) = 0 /\ ~Exists(i) /\ Status(i) = "ABSENT"
      /\ \A n \in Instants : Empty[n] = Nothing
  BY DEF PlaneInit, Version, Exists, Status, Empty
<1>3. \A a \in Actors : pass[a] = Over
  BY DEF PlaneInit
<1>4. Over \in Passes /\ Over.now = 0 /\ Over.at = "idle" /\ Over.fresh = {} /\ Over.list = {}
  BY PassRecords
<1>5. /\ signal = {} /\ now = 0 /\ faults = 0 /\ overlap = FALSE /\ retried = {} /\ commit = Nothing
      /\ \A i \in Ids : sent[i] = 0
      /\ \A n \in Instants : Kept(n) = {} /\ consumedWakes[n] = Nothing /\ admission[n] = "NONE"
                             /\ hostCtx[n] = Nothing /\ exec[n] = Nothing
  BY <1>2 DEF PlaneInit, NoWakes, Kept
<1>6. PlaneTypeOK
  <2>1. intentHistory \in [Ids -> Seq(Versions)]
    BY DEF PlaneInit
  <2>2. pass \in [Actors -> Passes]
    BY <1>4 DEF PlaneInit
  <2>3. /\ wakeCtx \in [Instants -> Contexts \cup {Nothing}]
        /\ hostCtx \in [Instants -> Contexts \cup {Nothing}]
        /\ exec \in [Instants -> Proses \cup {Nothing}]
        /\ consumedWakes \in [Instants -> Wakes \cup {Nothing}]
        /\ reserved \in [Instants -> Inspiring]
    BY DEF PlaneInit, NoWakes, Empty, Inspiring
  <2>4. /\ lce \in [Materials -> {"PENDING", "CONSUMED"}]
        /\ admission \in [Instants -> {"NONE", "ACCEPT", "REWRITE"}]
        /\ result \in [Instants -> {"NONE", "ABORTED", "COMMITTED"}]
        /\ sent \in [Ids -> Nat]
        /\ verdicts \in [Instants -> SUBSET {"ACCEPT", "REWRITE", "REJECT"}]
    BY DEF PlaneInit, NoWakes
  <2>5. now \in 0 .. MaxNow /\ faults \in 0 .. MaxFaults
    BY <1>1, <1>5
  <2>6. signal \subseteq Wakes /\ retried \subseteq Instants
    BY <1>5
  <2>7. commit \in CommitSteps \cup {Nothing} /\ overlap \in BOOLEAN
    BY <1>5
  <2> QED BY <2>1, <2>2, <2>3, <2>4, <2>5, <2>6, <2>7 DEF PlaneTypeOK
<1>7. HistoryLegal /\ HistoryKept
  BY <1>2 DEF HistoryLegal, HistoryKept
<1>8. PassesApart /\ PassUnwoken /\ OneAtATime
  <2>1. \A a \in Actors : Clock(a) = 0 /\ In(a, "idle") /\ pass[a].fresh = {}
    BY <1>3, <1>4 DEF Clock, In
  <2>2. "host" \in Actors /\ Tickers \subseteq Actors
    BY DEF Actors, Tickers
  <2>3. PassUnwoken
    BY <1>5, <2>1, <2>2 DEF PassUnwoken, In
  <2>4. OneAtATime
    BY <1>2, <2>1, <2>2 DEF OneAtATime, TickBorn
  <2> QED BY <1>5, <2>1, <2>3, <2>4 DEF PassesApart
<1>9. WakesDistinct /\ KeptOfWakes /\ SentOnce /\ SentIsMarked
  BY <1>5 DEF WakesDistinct, KeptOfWakes, SentOnce, SentIsMarked
<1>10. AdmissionIsVerdict /\ CompletedAfterAccept /\ MaterialKept
  BY <1>5 DEF AdmissionIsVerdict, CompletedAfterAccept, MaterialKept
<1> QED BY <1>6, <1>7, <1>8, <1>9, <1>10 DEF ProactiveInv

LEMMA ProactiveStutters == ASSUME ProactiveInv, UNCHANGED planeVars PROVE ProactiveInv'
<1>1. /\ HistoryInv' /\ Keeps /\ NoneBorn
      /\ UNCHANGED <<pass, now, signal, overlap>> /\ UNCHANGED wakeState /\ faults' = faults
  BY AdapterAlone DEF planeVars, store, material, adapter, observed, wakeState
<1>2. WakeInv /\ now \in Nat /\ faults \in 0 .. MaxFaults
  BY InvParts DEF PassInv, PassTypeOK
<1>3. WakeInv'
  BY <1>1, <1>2, WakeFrame
<1> QED BY <1>1, <1>2, <1>3, AdapterKeeps

LEMMA ProactiveStepKeeps == ProactiveInv /\ [PlaneNext]_planeVars => ProactiveInv'
<1> SUFFICES ASSUME ProactiveInv, [PlaneNext]_planeVars PROVE ProactiveInv'
  OBVIOUS
<1>1. ASSUME NEW a \in Tickers, TickStep(a) PROVE ProactiveInv'
  BY <1>1, StartTickKeeps, ExpireKeeps, PromoteKeeps, EvaluateKeeps DEF TickStep
<1>2. ASSUME NEW a \in Actors, PassStep(a) PROVE ProactiveInv'
  BY <1>2, AdmitKeeps, StartDecideKeeps, DecideKeeps, SupersedeLowerKeeps, RaiseKeeps,
     PassDiesKeeps DEF PassStep
<1>3. ASSUME NEW ks \in SUBSET Rules["turn"], NEW d \in {0, now + 2}, StartTurn(ks, d)
      PROVE  ProactiveInv'
  BY <1>3, StartTurnKeeps
<1>4. ASSUME NEW n \in Instants, NEW m \in Materials \cup {Nothing}, Wake(n, m)
      PROVE  ProactiveInv'
  BY <1>4, WakeKeeps DEF Inspiring
<1>5. ASSUME NEW i \in Ids, ReceiptComplete(i) PROVE ProactiveInv'
  BY <1>5, ReceiptKeeps
<1>6. ASSUME NEW s \in signal,
             BeginKnown(s) \/ BeginRejected(s) \/ BeginFails(s) \/ BeginPrepared(s)
      PROVE  ProactiveInv'
  <2>1. CASE BeginKnown(s)
    BY <2>1, ProactiveStutters DEF BeginKnown
  <2> QED BY <1>6, <2>1, BeginRejectedKeeps, BeginFailsKeeps, BeginPreparedKeeps
<1>7. ASSUME NEW n \in Instants, NEW verdict \in {"ACCEPT", "REWRITE"}, GuardPasses(n, verdict)
      PROVE  ProactiveInv'
  BY <1>7, GuardPassesKeeps
<1>8. ASSUME NEW n \in Instants,
             \/ GuardRejects(n) \/ Send(n) \/ Abort(n)
             \/ CommitTransition(n) \/ ConsumeInspiration(n) \/ DeleteReservation(n)
             \/ FinishCommit(n)
      PROVE  ProactiveInv'
  BY <1>8, GuardRejectsKeeps, SendKeeps, AbortKeeps, CommitTransitionKeeps,
     ConsumeInspirationKeeps, DeleteReservationKeeps, FinishCommitKeeps
<1>9. CASE BodyStep
  BY <1>6, <1>7, <1>8, <1>9 DEF BodyStep
<1>10. CASE HostCrash
  BY <1>10, HostCrashKeeps
<1>11. CASE UNCHANGED planeVars
  BY <1>11, ProactiveStutters
<1> QED BY <1>1, <1>2, <1>3, <1>4, <1>5, <1>9, <1>10, <1>11 DEF PlaneNext

\* The invariant of the plane: what the store, the passes and the adapter know of
\* each other in every state.
THEOREM ProactiveInvariant == PlaneSpec => []ProactiveInv
<1>1. PlaneInit => ProactiveInv
  BY ProactiveInitOK
<1>2. ProactiveInv /\ [PlaneNext]_planeVars => ProactiveInv'
  BY ProactiveStepKeeps
<1> QED BY <1>1, <1>2, PTL DEF PlaneSpec

\* The history of an intent is a legal path of the lifecycle, however stale the
\* version a pass acts on (IntentLifecycleService.transition).
THEOREM HistoriesLegal == PlaneSpec => []HistoryLegal
<1>1. ProactiveInv => HistoryLegal
  BY DEF ProactiveInv
<1> QED BY <1>1, ProactiveInvariant, PTL

\* No intent's prose is delivered twice, across retries, crashes and two tickers.
THEOREM ProseSentOnce == PlaneSpec => []SentOnce
<1>1. ProactiveInv => SentOnce
  BY DEF ProactiveInv
<1> QED BY <1>1, ProactiveInvariant, PTL

\* A commit follows an ACCEPT given after the last begin of its wake
\* (commit_proactive_turn reads the admission of the wake).
THEOREM AcceptedBeforeCommit == PlaneSpec => []CompletedAfterAccept
<1>1. ProactiveInv => CompletedAfterAccept
  BY DEF ProactiveInv
<1> QED BY <1>1, ProactiveInvariant, PTL

\* The material a prepared wake speaks of is reserved for it
\* (LCEInspirationProvider.reserve_next and release).
THEOREM MaterialStaysHeld == PlaneSpec => []MaterialHeld
<1>1. ASSUME ProactiveInv PROVE MaterialHeld
  <2> SUFFICES ASSUME NEW n \in Instants, exec[n] # Nothing, exec[n].material # Nothing,
                      n \notin retried, commit = Nothing \/ commit[1] # n
               PROVE  reserved[n] = exec[n].material
    BY DEF MaterialHeld
  <2>1. KeptOfWakes /\ MaterialKept
    BY <1>1 DEF ProactiveInv
  <2>2. consumedWakes[n] # Nothing /\ consumedWakes[n] \in signal /\ consumedWakes[n].at = n
    BY <2>1 DEF KeptOfWakes
  <2>3. Eligible(consumedWakes[n])
    BY <2>2 DEF Eligible
  <2>4. Beginnable(n) /\ exec[n] \in Kept(n)
    BY <2>2, <2>3 DEF Beginnable, Kept
  <2> QED BY <2>1, <2>4 DEF MaterialKept
<1>2. ProactiveInv => MaterialHeld
  BY <1>1
<1> QED BY <1>2, ProactiveInvariant, PTL

\* Ticks that overlap no other pass leave one active intent of a kind at most
\* (the persistent-condition dedupe of CognitiveTicker._decide).
THEOREM OneActive == PlaneSpec => []OneActivePerKind
<1>1. ASSUME ProactiveInv PROVE OneActivePerKind
  <2> SUFFICES ASSUME ~overlap, NEW k \in Kinds
               PROVE  Cardinality({i \in Ids : i[1] = k /\ TickBorn(i) /\ Status(i) \in Active}) <= 1
    BY DEF OneActivePerKind
  <2> DEFINE S == {i \in Ids : i[1] = k /\ TickBorn(i) /\ Status(i) \in Active}
  <2>1. \A i, j \in S : i = j
    BY <1>1 DEF ProactiveInv, OneAtATime
  <2>2. CASE S = {}
    BY <2>2, FS_EmptySet
  <2>3. CASE S # {}
    <3>1. PICK i \in S : TRUE
      BY <2>3
    <3>2. S = {i}
      BY <2>1, <3>1
    <3> HIDE DEF S
    <3>3. Cardinality({i}) = 1
      BY FS_Singleton
    <3> QED BY <3>2, <3>3 DEF S
  <2> QED BY <2>2, <2>3
<1>2. ProactiveInv => OneActivePerKind
  BY <1>1
<1> QED BY <1>2, ProactiveInvariant, PTL

-----------------------------------------------------------------------------
(* The refinement of IntentContract. What it rests on is inductive over    *)
(* ProactiveInv: the lemmas on the store say what a step does to histories *)
(* and the frames what that leaves of wakes and adapter.                   *)

\* An accepted transition is a replay or a new version.
LEMMA TransitionIs ==
    ASSUME Stored, NEW i \in Ids, NEW tag \in Tags, NEW v \in Nat, Transition(i, tag, v)
    PROVE  \/ Replays(i, tag, v) /\ intentHistory' = intentHistory
           \/ /\ Exists(i) /\ Goal(tag[2]) \in Legal(Status(i)) /\ Goal(tag[2]) \in Statuses
              /\ Version(i) \in Nat \ {0} /\ Version(i)' = Version(i) + 1
              /\ Exists(i)' /\ Status(i)' = Goal(tag[2])
              /\ intentHistory'[i][Version(i) + 1].status = Goal(tag[2])
              /\ intentHistory'[i][Version(i) + 1].key = <<tag, v>>
              /\ \A k \in 1 .. Version(i) : intentHistory'[i][k] = intentHistory[i][k]
              /\ \A j \in Ids \ {i} : intentHistory'[j] = intentHistory[j]
<1>1. CASE Replays(i, tag, v)
  BY <1>1 DEF Transition, Transitioned
<1>2. CASE ~Replays(i, tag, v)
  <2> DEFINE e == Entry(tag, v)
  <2>1. Goal(tag[2]) \in Legal(Status(i))
    BY <1>2 DEF Transition, Accepted
  <2>2. Exists(i) /\ Goal(tag[2]) \in Statuses
    BY <2>1, LegalSteps DEF Status
  <2>3. e \in Versions /\ e.status = Goal(tag[2]) /\ e.key = <<tag, v>>
    BY <2>2 DEF Entry, Versions
  <2>4. intentHistory' = [intentHistory EXCEPT ![i] = Append(@, e)]
    BY <1>2 DEF Transition, Transitioned
  <2> HIDE DEF e
  <2>5. /\ Version(i) \in Nat \ {0} /\ Version(i)' = Version(i) + 1
        /\ Exists(i)' /\ Status(i)' = Goal(tag[2]) /\ intentHistory'[i][Version(i) + 1] = e
        /\ \A k \in 1 .. Version(i) : intentHistory'[i][k] = intentHistory[i][k]
        /\ \A j \in Ids \ {i} : intentHistory'[j] = intentHistory[j]
    BY <2>2, <2>3, <2>4, Appended
  <2> QED BY <2>1, <2>2, <2>3, <2>5
<1> QED BY <1>1, <1>2

\* What a step leaves of the permissions given, of what is complete, and of the
\* intent the Host's pass has picked.
GrantsStay == \A i \in Ids : /\ HasAllowed(i) => HasAllowed(i)'
                             /\ HasAllowed(i) /\ NotOfTurn(i) => NotOfTurn(i)'
NoneDone   == \A i \in Ids : Status(i)' = "COMPLETED" => Status(i) = "COMPLETED"
PickStays  == In("host", "lower")' =>
                In("host", "lower") /\ pass'["host"].pick[1] = pass["host"].pick[1]

LEMMA SameTells ==
    ASSUME AllowedOnce, UNCHANGED intentHistory
    PROVE  AllowedOnce' /\ GrantsStay /\ NoneDone
BY DEF AllowedOnce, GrantsStay, NoneDone, HasAllowed, NotOfTurn, Status, Exists, Version

LEMMA OthersTell ==
    ASSUME NEW j \in Ids, intentHistory'[j] = intentHistory[j]
    PROVE  /\ Version(j)' = Version(j) /\ Status(j)' = Status(j)
           /\ Exists(j)' <=> Exists(j)
           /\ HasAllowed(j)' <=> HasAllowed(j)
           /\ NotOfTurn(j)' <=> NotOfTurn(j)
BY DEF Version, Status, Exists, HasAllowed, NotOfTurn

LEMMA TransitionTells ==
    ASSUME HistoryInv, AllowedOnce,
           NEW i \in Ids, NEW tag \in Tags, NEW v \in Nat, Transition(i, tag, v)
    PROVE  /\ AllowedOnce' /\ GrantsStay
           /\ \A j \in Ids : Status(j)' = "COMPLETED" =>
                Status(j) = "COMPLETED" \/ (j = i /\ Goal(tag[2]) = "COMPLETED")
           /\ tag = <<"tick", "allow">> => HasAllowed(i)' /\ NotOfTurn(i)'
<1>s. /\ Stored /\ HistoryKept /\ Goal("allow") = "ALLOWED"
      /\ \A k \in 1 .. Version(i) : intentHistory[i][k].status = "ALLOWED" => Spent(i)
      /\ \A k \in 2 .. Version(i) : intentHistory[i][k].status = Goal(intentHistory[i][k].key[1][2])
  BY DEF HistoryInv, HistoryKept, Goal
<1>v. Version(i) \in Nat
  BY <1>s DEF Stored, Version
<1>a. Exists(i) => intentHistory[i][1].key[1][2] = "admit"
  BY DEF AllowedOnce
<1>1. CASE Replays(i, tag, v) /\ intentHistory' = intentHistory
  <2>1. AllowedOnce' /\ GrantsStay /\ NoneDone
    BY <1>1, SameTells
  <2>2. ASSUME tag = <<"tick", "allow">> PROVE HasAllowed(i) /\ NotOfTurn(i)
    <3>1. PICK k \in 2 .. Version(i) : intentHistory[i][k].key = <<tag, v>>
      BY <1>1 DEF Replays
    <3>2. intentHistory[i][k].status = "ALLOWED" /\ k \in 1 .. Version(i)
      BY <1>s, <1>v, <2>2, <3>1
    <3>3. ASSUME NEW m \in 1 .. Version(i), intentHistory[i][m].key[1] = <<"turn", "allow">>
          PROVE  FALSE
      <4>1. Exists(i)
        BY <1>v, <3>1 DEF Exists, Version
      <4>2. m # 1
        BY <1>a, <3>3, <4>1
      <4>3. intentHistory[i][m].status = "ALLOWED"
        BY <1>s, <1>v, <3>3, <4>2
      <4>4. m = k
        BY <3>2, <4>3 DEF AllowedOnce
      <4> QED BY <2>2, <3>1, <3>3, <4>4
    <3> QED BY <3>2, <3>3 DEF HasAllowed, NotOfTurn
  <2>3. HasAllowed(i)' = HasAllowed(i) /\ NotOfTurn(i)' = NotOfTurn(i)
    BY <1>1 DEF HasAllowed, NotOfTurn, Version
  <2> QED BY <2>1, <2>2, <2>3 DEF NoneDone
<1>2. CASE /\ Exists(i) /\ Goal(tag[2]) \in Legal(Status(i)) /\ Version(i) \in Nat \ {0}
           /\ Version(i)' = Version(i) + 1 /\ Exists(i)' /\ Status(i)' = Goal(tag[2])
           /\ intentHistory'[i][Version(i) + 1].status = Goal(tag[2])
           /\ intentHistory'[i][Version(i) + 1].key = <<tag, v>>
           /\ \A k \in 1 .. Version(i) : intentHistory'[i][k] = intentHistory[i][k]
           /\ \A j \in Ids \ {i} : intentHistory'[j] = intentHistory[j]
  <2>1. HasAllowed(i) => Goal(tag[2]) # "ALLOWED"
    BY <1>s, <1>2 DEF HasAllowed, Spent, Legal
  <2>2. \A k \in 1 .. Version(i)' : k = Version(i) + 1 \/ k \in 1 .. Version(i)
    BY <1>2
  <2>3. HasAllowed(i) => HasAllowed(i)'
    BY <1>2 DEF HasAllowed
  <2>4. HasAllowed(i) /\ NotOfTurn(i) => NotOfTurn(i)'
    <3> SUFFICES ASSUME HasAllowed(i), NotOfTurn(i), NEW k \in 1 .. Version(i)',
                        intentHistory'[i][k].key[1] = <<"turn", "allow">>
                 PROVE  FALSE
      BY DEF NotOfTurn
    <3>1. k = Version(i) + 1
      BY <1>2, <2>2 DEF NotOfTurn
    <3> QED BY <1>s, <1>2, <2>1, <3>1
  <2>5. AllowedOnce'
    <3> SUFFICES ASSUME NEW j \in Ids
                 PROVE  /\ Exists(j)' => intentHistory'[j][1].key[1][2] = "admit"
                        /\ \A k, m \in 1 .. Version(j)' :
                             intentHistory'[j][k].status = "ALLOWED"
                               /\ intentHistory'[j][m].status = "ALLOWED" => k = m
      BY DEF AllowedOnce
    <3>1. CASE j # i
      BY <1>2, <3>1, OthersTell DEF AllowedOnce
    <3>2. CASE j = i
      <4>1. intentHistory'[i][1].key[1][2] = "admit"
        BY <1>a, <1>2
      <4>2. ASSUME NEW k \in 1 .. Version(i)', NEW m \in 1 .. Version(i)',
                   intentHistory'[i][k].status = "ALLOWED", intentHistory'[i][m].status = "ALLOWED"
            PROVE  k = m
        <5>1. k = Version(i) + 1 \/ (k \in 1 .. Version(i) /\ HasAllowed(i))
          BY <1>2, <2>2, <4>2 DEF HasAllowed
        <5>2. m = Version(i) + 1 \/ (m \in 1 .. Version(i) /\ HasAllowed(i))
          BY <1>2, <2>2, <4>2 DEF HasAllowed
        <5>3. CASE k = Version(i) + 1 \/ m = Version(i) + 1
          BY <1>2, <2>1, <4>2, <5>1, <5>2, <5>3
        <5>4. CASE k \in 1 .. Version(i) /\ m \in 1 .. Version(i)
          BY <1>2, <4>2, <5>4 DEF AllowedOnce
        <5> QED BY <5>1, <5>2, <5>3, <5>4
      <4> QED BY <3>2, <4>1, <4>2
    <3> QED BY <3>1, <3>2
  <2>6. ASSUME tag = <<"tick", "allow">> PROVE HasAllowed(i)' /\ NotOfTurn(i)'
    <3>1. ~HasAllowed(i)
      BY <1>s, <2>1, <2>6
    <3>2. \A k \in 2 .. Version(i) : intentHistory[i][k].key[1] # <<"turn", "allow">>
      <4> SUFFICES ASSUME NEW k \in 2 .. Version(i),
                          intentHistory[i][k].key[1] = <<"turn", "allow">>
                   PROVE  FALSE
        OBVIOUS
      <4>1. intentHistory[i][k].status = "ALLOWED" /\ k \in 1 .. Version(i)
        BY <1>s, <1>v
      <4> QED BY <3>1, <4>1 DEF HasAllowed
    <3>3. \A k \in 1 .. Version(i)' : intentHistory'[i][k].key[1] # <<"turn", "allow">>
      <4> SUFFICES ASSUME NEW k \in 1 .. Version(i)'
                   PROVE  intentHistory'[i][k].key[1] # <<"turn", "allow">>
        OBVIOUS
      <4>1. CASE k = Version(i) + 1
        BY <1>2, <2>6, <4>1
      <4>2. CASE k = 1
        BY <1>a, <1>2, <4>2
      <4>3. CASE k \in 2 .. Version(i)
        <5>1. k \in 1 .. Version(i)
          BY <1>v, <4>3
        <5> QED BY <1>2, <3>2, <4>3, <5>1
      <4> QED BY <1>2, <4>1, <4>2, <4>3
    <3>4. Version(i) + 1 \in 1 .. Version(i)'
      BY <1>2
    <3> QED BY <1>s, <1>2, <2>6, <3>3, <3>4 DEF HasAllowed, NotOfTurn
  <2>7. GrantsStay
    BY <1>2, <2>3, <2>4, OthersTell DEF GrantsStay
  <2>8. \A j \in Ids : Status(j)' = "COMPLETED" =>
          Status(j) = "COMPLETED" \/ (j = i /\ Goal(tag[2]) = "COMPLETED")
    BY <1>2, OthersTell
  <2> QED BY <2>5, <2>6, <2>7, <2>8
<1> QED BY <1>s, <1>1, <1>2, TransitionIs

LEMMA AdmitTells ==
    ASSUME ProactiveInv, AllowedOnce, NEW a \in Actors, NEW i \in Ids, ~Exists(i), Admit(a, i)
    PROVE  /\ AllowedOnce' /\ GrantsStay /\ NoneDone
           /\ Status(i) = "ABSENT" /\ Status(i)' = "CANDIDATE" /\ ~HasAllowed(i)'
           /\ \A j \in Ids \ {i} : intentHistory'[j] = intentHistory[j]
<1> DEFINE first == [status |-> "CANDIDATE", key |-> <<Tag(a, "admit"), 0>>]
<1>1. first.status = "CANDIDATE" /\ first.key[1][2] = "admit"
  BY DEF Tag
<1> HIDE DEF first
<1>2. /\ intentHistory' = [intentHistory EXCEPT ![i] = <<first>>]
      /\ intentHistory \in [Ids -> Seq(Versions)]
  BY InvParts DEF Admit, first, HistoryInv, Stored
<1>3. /\ intentHistory'[i] = <<first>> /\ \A j \in Ids \ {i} : intentHistory'[j] = intentHistory[j]
  BY <1>2
<1>4. /\ Len(<<first>>) = 1 /\ <<first>>[1] = first /\ <<first>> # <<>>
  OBVIOUS
<1>5. Version(i)' = 1 /\ Exists(i)' /\ Status(i)' = "CANDIDATE" /\ Status(i) = "ABSENT"
  BY <1>1, <1>3, <1>4 DEF Version, Exists, Status
<1>6. ~HasAllowed(i) /\ ~HasAllowed(i)'
  <2>1. Version(i) = 0
    BY DEF Version, Exists
  <2> QED BY <1>1, <1>3, <1>4, <1>5, <2>1 DEF HasAllowed
<1>7. AllowedOnce'
  <2>1. \A k, m \in 1 .. 1 : k = m
    OBVIOUS
  <2>2. /\ intentHistory'[i][1].key[1][2] = "admit"
        /\ \A k, m \in 1 .. Version(i)' : k = m
    BY <1>1, <1>3, <1>4, <1>5, <2>1
  <2>3. ASSUME NEW j \in Ids \ {i}
        PROVE  /\ Exists(j)' => intentHistory'[j][1].key[1][2] = "admit"
               /\ \A k, m \in 1 .. Version(j)' :
                    intentHistory'[j][k].status = "ALLOWED"
                      /\ intentHistory'[j][m].status = "ALLOWED" => k = m
    BY <1>3, OthersTell DEF AllowedOnce
  <2> QED BY <2>2, <2>3 DEF AllowedOnce
<1>8. GrantsStay /\ NoneDone
  BY <1>3, <1>5, <1>6, OthersTell DEF GrantsStay, NoneDone
<1> QED BY <1>3, <1>5, <1>6, <1>7, <1>8

IntentKept == AllowedOnce /\ WokenByTick /\ Uncompleted
OneLife    == Intent!Next \/ UNCHANGED <<StatusOf, Granted, sent>>

LEMMA LivesSame ==
    ASSUME UNCHANGED <<intentHistory, sent>> PROVE OneLife
BY DEF OneLife, StatusOf, Granted, HasAllowed, Status, Exists, Version

\* A transition is a step of the intent's life, or a replay of one.
LEMMA TransitionRefines ==
    ASSUME HistoryInv, NEW i \in Ids, NEW tag \in Tags, NEW v \in Nat, Transition(i, tag, v),
           sent' = sent
    PROVE  OneLife
<1> DEFINE to == Goal(tag[2])
<1>1. Stored /\ \A k \in 1 .. Version(i) : intentHistory[i][k].status = "ALLOWED" => Spent(i)
  BY DEF HistoryInv, HistoryKept
<1>2. CASE intentHistory' = intentHistory
  BY <1>2, LivesSame
<1>3. CASE /\ Exists(i) /\ to \in Legal(Status(i)) /\ Version(i) \in Nat \ {0}
           /\ Version(i)' = Version(i) + 1 /\ Status(i)' = to
           /\ intentHistory'[i][Version(i) + 1].status = to
           /\ \A k \in 1 .. Version(i) : intentHistory'[i][k] = intentHistory[i][k]
           /\ \A j \in Ids \ {i} : intentHistory'[j] = intentHistory[j]
  <2> HIDE DEF to
  <2>1. StatusOf' = [StatusOf EXCEPT ![i] = to] /\ StatusOf[i] = Status(i)
    BY <1>3, OthersTell DEF StatusOf
  <2>2. HasAllowed(i) => Spent(i)
    BY <1>1 DEF HasAllowed
  <2>3. HasAllowed(i)' <=> HasAllowed(i) \/ to = "ALLOWED"
    <3>1. \A k \in 1 .. Version(i)' : k = Version(i) + 1 \/ k \in 1 .. Version(i)
      BY <1>3
    <3>2. Version(i) + 1 \in 1 .. Version(i)' /\ \A k \in 1 .. Version(i) : k \in 1 .. Version(i)'
      BY <1>3
    <3> QED BY <1>3, <3>1, <3>2 DEF HasAllowed
  <2>4. CASE to = "ALLOWED"
    <3>1. Status(i) = "CANDIDATE" /\ ~HasAllowed(i)
      BY <1>3, <2>2, <2>4 DEF Legal, Spent
    <3>2. i \notin Granted /\ Granted' = Granted \cup {i}
      BY <1>3, <2>3, <2>4, <3>1, OthersTell DEF Granted
    <3>3. Intent!Allow(i) /\ i \in Intent!Present
      BY <2>1, <2>4, <3>1, <3>2 DEF Intent!Allow, Intent!Moves, Intent!Present
    <3> QED BY <3>3 DEF OneLife, Intent!Next
  <2>5. CASE to # "ALLOWED"
    <3>1. Granted' = Granted
      BY <1>3, <2>3, <2>5, OthersTell DEF Granted
    <3>2. CASE Status(i) = "CANDIDATE"
      <4>1. to \in {"DEFERRED", "BLOCKED", "EXPIRED", "SUPERSEDED"}
        BY <1>3, <2>5, <3>2 DEF Legal
      <4>2. Intent!Wait(i) \/ Intent!Drop(i)
        BY <2>1, <3>1, <3>2, <4>1 DEF Intent!Wait, Intent!Drop, Intent!Moves
      <4> QED BY <2>1, <3>2, <4>2 DEF OneLife, Intent!Next, Intent!Present
    <3>3. CASE Status(i) = "DEFERRED"
      <4>1. to \in {"CANDIDATE", "EXPIRED", "SUPERSEDED"}
        BY <1>3, <3>3 DEF Legal
      <4>2. Intent!Wait(i) \/ Intent!Drop(i)
        BY <2>1, <3>1, <3>3, <4>1 DEF Intent!Wait, Intent!Drop, Intent!Moves
      <4> QED BY <2>1, <3>3, <4>2 DEF OneLife, Intent!Next, Intent!Present
    <3>4. CASE Status(i) = "ALLOWED"
      <4>1. Intent!Close(i)
        BY <1>3, <2>1, <3>1, <3>4, LegalSteps DEF Intent!Close, Intent!Moves
      <4> QED BY <2>1, <3>4, <4>1 DEF OneLife, Intent!Next, Intent!Present
    <3>5. Status(i) \in {"CANDIDATE", "DEFERRED", "ALLOWED"}
      BY <1>3, LegalSteps DEF Active
    <3> QED BY <3>2, <3>3, <3>4, <3>5
  <2> QED BY <2>4, <2>5
<1> QED BY <1>1, <1>2, <1>3, TransitionIs

\* A wake stays that of an intent a tick allowed.
LEMMA WokenFrame ==
    ASSUME ProactiveInv, WokenByTick, GrantsStay, PickStays, signal' = signal
    PROVE  WokenByTick'
<1>1. \A s \in signal : s.intent \in Ids
  BY InvParts DEF WakeInv, WakeTypeOK, Wakes
<1>2. In("host", "lower") => pass["host"].pick[1] \in Ids
  BY InvParts DEF PassInv, PassUnwoken, Reads
<1> QED BY <1>1, <1>2 DEF WokenByTick, GrantsStay, PickStays

\* A step that consumes no wake, prepares no prose and completes no intent a wake
\* is of leaves what the adapter holds of unfinished wakes.
LEMMA AdapterFrame ==
    ASSUME ProactiveInv, Uncompleted,
           \A s \in signal : Status(s.intent)' = "COMPLETED" => Status(s.intent) = "COMPLETED",
           \A n \in Instants :
             /\ consumedWakes'[n] # Nothing /\ result'[n] = "NONE" =>
                  /\ consumedWakes[n] = consumedWakes'[n] /\ result[n] = "NONE"
                  /\ commit # Nothing /\ commit[1] = n => commit' # Nothing /\ commit'[1] = n
             /\ exec'[n] # Nothing => exec[n] # Nothing /\ result'[n] = result[n]
    PROVE  Uncompleted'
<1>1. \A n \in Instants : consumedWakes[n] # Nothing => consumedWakes[n] \in signal
  BY InvParts DEF WakeInv, KeptOfWakes
<1>2. ASSUME NEW n \in Instants, consumedWakes'[n] # Nothing, result'[n] = "NONE",
             Status(consumedWakes[n].intent)' = "COMPLETED"
      PROVE  commit' # Nothing /\ commit'[1] = n
  <2>1. consumedWakes[n] = consumedWakes'[n] /\ result[n] = "NONE" /\ consumedWakes[n] # Nothing
    BY <1>2
  <2>2. PICK w \in signal : w = consumedWakes[n] /\ w = consumedWakes'[n]
    BY <1>1, <2>1
  <2>3. Status(w.intent) = "COMPLETED"
    BY <1>2, <2>2
  <2> QED BY <1>2, <2>1, <2>2, <2>3 DEF Uncompleted
<1> QED BY <1>2 DEF Uncompleted

\* The steps that ask the store for nothing.
LEMMA AloneTells ==
    ASSUME ProactiveInv, IntentKept, PickStays,
           UNCHANGED <<intentHistory, sent, signal, consumedWakes, exec, result, commit>>
    PROVE  IntentKept' /\ OneLife
<1>1. AllowedOnce' /\ GrantsStay /\ NoneDone
  BY SameTells DEF IntentKept
<1>2. \A s \in signal : s.intent \in Ids
  BY InvParts DEF WakeInv, WakeTypeOK, Wakes
<1>3. WokenByTick' /\ Uncompleted'
  BY <1>1, <1>2, WokenFrame, AdapterFrame DEF IntentKept, NoneDone
<1> QED BY <1>1, <1>3, LivesSame DEF IntentKept

\* The Host's pass picks what it had picked, or nothing.
LEMMA PickOf ==
    ASSUME ProactiveInv, NEW a \in Actors, NEW q,
           pass' = [pass EXCEPT ![a] = q] \/ Onward(a, q),
           a = "host" /\ q.at = "lower" => pass[a].at = "lower" /\ q.pick = pass[a].pick
    PROVE  PickStays
<1>1. pass \in [Actors -> Passes] /\ "host" \in Actors /\ Over.at = "idle"
  BY PassParts, PassRecords DEF Actors
<1>2. PICK r \in {q, Over} : pass' = [pass EXCEPT ![a] = r]
  BY DEF Onward, Turned
<1>3. pass'["host"] = (IF a = "host" THEN r ELSE pass["host"])
  BY <1>1, <1>2
<1> QED BY <1>1, <1>3 DEF PickStays, In

\* A pass asks for a transition of what it listed, and completes nothing.
LEMMA PassTells ==
    ASSUME ProactiveInv, IntentKept, Quiet,
           NEW x \in Reads, NEW tag \in Tags, Transition(x[1], tag, x[2]),
           Goal(tag[2]) # "COMPLETED",
           PickStays \/ (tag = <<"tick", "allow">> /\ pass'["host"].pick[1] = x[1])
    PROVE  IntentKept' /\ OneLife
<1>1. /\ HistoryInv /\ x[1] \in Ids /\ x[2] \in Nat
      /\ UNCHANGED <<sent, signal, consumedWakes, exec, result, commit>>
  BY InvParts DEF Reads, Quiet, adapter, observed
<1>2. /\ AllowedOnce' /\ GrantsStay
      /\ \A j \in Ids : Status(j)' = "COMPLETED" => Status(j) = "COMPLETED"
      /\ tag = <<"tick", "allow">> => HasAllowed(x[1])' /\ NotOfTurn(x[1])'
  BY <1>1, TransitionTells DEF IntentKept
<1>3. \A s \in signal : s.intent \in Ids
  BY InvParts DEF WakeInv, WakeTypeOK, Wakes
<1>4. Uncompleted'
  BY <1>1, <1>2, <1>3, AdapterFrame DEF IntentKept
<1>5. WokenByTick'
  <2>1. CASE PickStays
    BY <1>1, <1>2, <2>1, WokenFrame DEF IntentKept
  <2>2. CASE tag = <<"tick", "allow">> /\ pass'["host"].pick[1] = x[1]
    BY <1>1, <1>2, <1>3, <2>2 DEF IntentKept, WokenByTick, GrantsStay
  <2> QED BY <2>1, <2>2
<1>6. OneLife
  BY <1>1, TransitionRefines
<1> QED BY <1>2, <1>4, <1>5, <1>6 DEF IntentKept

LEMMA TickTells ==
    ASSUME ProactiveInv, IntentKept, NEW a \in Tickers, TickStep(a)
    PROVE  IntentKept' /\ OneLife
<1>1. a \in Actors /\ pass[a].list \subseteq Reads /\ pass[a].late \subseteq Reads
  BY PassParts DEF Tickers, Actors
<1>2. CASE StartTick(a)
  <2>1. /\ UNCHANGED <<intentHistory, sent, signal, consumedWakes, exec, result, commit>>
        /\ \E q : q.at = "schedule" /\ pass' = [pass EXCEPT ![a] = q]
    BY <1>2 DEF StartTick, Turned, Pass, store, adapter
  <2> QED BY <1>1, <2>1, PickOf, AloneTells
<1>3. ASSUME NEW x \in pass[a].list, Expire(a, x) PROVE IntentKept' /\ OneLife
  <2>1. /\ Quiet /\ Transition(x[1], <<"scheduler", "expire">>, x[2]) /\ x \in Reads
        /\ \E q : q.at = "schedule" /\ pass' = [pass EXCEPT ![a] = q]
    <3>1. pass[a].at = "schedule" /\ pass[a] \in Passes
      BY <1>1, <1>3, PassParts DEF Expire, In
    <3> QED BY <1>1, <1>3, <3>1 DEF Expire, Turned, Passes
  <2>2. PickStays
    BY <1>1, <2>1, PickOf
  <2> QED BY <2>1, <2>2, PassTags, PassTells DEF Goal
<1>4. ASSUME NEW x \in pass[a].late, Promote(a, x) PROVE IntentKept' /\ OneLife
  <2>1. /\ Quiet /\ Transition(x[1], <<"scheduler", "due">>, x[2]) /\ x \in Reads
        /\ \E q : q.at = "schedule" /\ pass' = [pass EXCEPT ![a] = q]
    <3>1. pass[a].at = "schedule" /\ pass[a] \in Passes
      BY <1>1, <1>4, PassParts DEF Promote, In
    <3> QED BY <1>1, <1>4, <3>1 DEF Promote, Turned, Passes
  <2>2. PickStays
    BY <1>1, <2>1, PickOf
  <2> QED BY <2>1, <2>2, PassTags, PassTells DEF Goal
<1>5. ASSUME NEW ks \in SUBSET Rules[a], Evaluate(a, ks) PROVE IntentKept' /\ OneLife
  <2>1. /\ UNCHANGED <<intentHistory, sent, signal, consumedWakes, exec, result, commit>>
        /\ \E q : q.at = "admit" /\ pass' = [pass EXCEPT ![a] = q]
    <3>1. pass[a] \in Passes
      BY <1>1, PassParts
    <3> QED BY <1>5, <3>1 DEF Evaluate, Turned, Passes, Quiet, adapter, observed
  <2> QED BY <1>1, <2>1, PickOf, AloneTells
<1> QED BY <1>2, <1>3, <1>4, <1>5 DEF TickStep

LEMMA DecideTells ==
    ASSUME ProactiveInv, IntentKept, NEW a \in Actors, NEW x \in pass[a].list, Decide(a, x)
    PROVE  IntentKept' /\ OneLife
<1>1. x \in Reads /\ pass[a] \in Passes /\ pass[a].at = "decide" /\ Quiet
      /\ pass \in [Actors -> Passes]
  BY PassParts DEF Decide, In
<1>2. PICK decision \in {"allow", "defer", "deny"} :
        LET tag  == Tag(a, Verb(a, decision))
            rest == [pass[a] EXCEPT !.list = @ \ {x}] IN
        /\ Transition(x[1], tag, x[2])
        /\ Onward(a, IF decision = "allow"
                     THEN [rest EXCEPT !.at = "lower",
                                       !.pick = <<x[1], Returned(x[1], tag, x[2])>>]
                     ELSE rest)
  BY DEF Decide, Policy
<1> DEFINE tag  == Tag(a, Verb(a, decision))
<1>3. /\ tag \in Tags /\ Goal(tag[2]) # "COMPLETED"
      /\ a = "host" /\ decision = "allow" => tag = <<"tick", "allow">>
  BY PassTags DEF Verb, Goal, Tag
<1>4. Transition(x[1], tag, x[2])
  BY <1>2
<1>5. CASE a = "host" /\ decision = "allow"
  <2>1. PICK pick : pick = <<x[1], Returned(x[1], tag, x[2])>>
    OBVIOUS
  <2>2. PICK q : /\ q = [[pass[a] EXCEPT !.list = @ \ {x}] EXCEPT !.at = "lower", !.pick = pick]
                 /\ Onward(a, q)
    BY <1>2, <1>5, <2>1
  <2>3. q.at = "lower" /\ q.pick = pick /\ pick[1] = x[1]
    BY <1>1, <2>1, <2>2 DEF Passes
  <2> HIDE DEF tag
  <2>4. pass' = [pass EXCEPT ![a] = Over] \/ pass' = [pass EXCEPT ![a] = q]
    BY <2>2 DEF Onward, Turned
  <2>5. CASE pass' = [pass EXCEPT ![a] = Over]
    <3>1. PickStays
      BY <2>5, PassRecords, PickOf
    <3> QED BY <1>1, <1>3, <1>4, <3>1, PassTells
  <2>6. CASE pass' = [pass EXCEPT ![a] = q]
    <3>1. pass'["host"].pick[1] = x[1]
      BY <1>1, <1>5, <2>3, <2>6
    <3> QED BY <1>1, <1>3, <1>4, <1>5, <3>1, PassTells
  <2> QED BY <2>4, <2>5, <2>6
<1>6. CASE ~(a = "host" /\ decision = "allow")
  <2>1. PICK q : /\ Onward(a, q)
                 /\ decision # "allow" => q = [pass[a] EXCEPT !.list = @ \ {x}]
    BY <1>2
  <2>2. a = "host" => q.at = "decide"
    BY <1>1, <1>6, <2>1 DEF Passes
  <2> HIDE DEF tag
  <2>3. PickStays
    BY <2>1, <2>2, PickOf
  <2> QED BY <1>1, <1>3, <1>4, <2>3, PassTells
<1> QED BY <1>5, <1>6

LEMMA PassStepTells ==
    ASSUME ProactiveInv, IntentKept, NEW a \in Actors, PassStep(a)
    PROVE  IntentKept' /\ OneLife
<1>1. /\ pass[a].list \subseteq Reads /\ pass[a].fresh \subseteq Ids /\ pass[a] \in Passes
      /\ pass \in [Actors -> Passes]
  BY PassParts
<1>2. ASSUME NEW i \in pass[a].fresh, Admit(a, i) PROVE IntentKept' /\ OneLife
  <2>1. i \in Ids /\ ~Exists(i)
    BY <1>1, <1>2, InvParts DEF PassInv, PassesApart
  <2>2. /\ AllowedOnce' /\ GrantsStay /\ NoneDone
        /\ Status(i) = "ABSENT" /\ Status(i)' = "CANDIDATE" /\ ~HasAllowed(i)'
        /\ \A j \in Ids \ {i} : intentHistory'[j] = intentHistory[j]
    BY <1>2, <2>1, AdmitTells DEF IntentKept
  <2>3. UNCHANGED <<sent, signal, consumedWakes, exec, result, commit>>
    BY <1>2 DEF Admit, Quiet, adapter, observed
  <2>4. PickStays
    <3>1. PICK q : /\ q = [pass[a] EXCEPT !.fresh = @ \ {i}, !.list = @ \cup {<<i, 1>>}]
                   /\ pass' = [pass EXCEPT ![a] = q]
      BY <1>2 DEF Admit, Turned
    <3>2. q.at = "admit"
      BY <1>1, <1>2, <3>1 DEF Admit, In, Passes
    <3> QED BY <3>1, <3>2, PickOf
  <2>5. \A s \in signal : s.intent \in Ids
    BY InvParts DEF WakeInv, WakeTypeOK, Wakes
  <2>6. WokenByTick' /\ Uncompleted'
    BY <2>2, <2>3, <2>4, <2>5, WokenFrame, AdapterFrame DEF IntentKept, NoneDone
  <2>7. ~HasAllowed(i)
    BY <2>1, <2>2 DEF GrantsStay
  <2>8. /\ StatusOf[i] = "ABSENT" /\ StatusOf' = [StatusOf EXCEPT ![i] = "CANDIDATE"]
        /\ Granted' = Granted
    <3>1. \A j \in Ids \ {i} : Status(j)' = Status(j) /\ (HasAllowed(j)' <=> HasAllowed(j))
      BY <2>2, OthersTell
    <3>2. Granted' = Granted
      BY <2>2, <2>7, <3>1 DEF Granted
    <3> QED BY <2>1, <2>2, <3>1, <3>2 DEF StatusOf
  <2>9. OneLife
    BY <2>1, <2>3, <2>8 DEF OneLife, Intent!Next, Intent!Appear, Intent!Moves
  <2> QED BY <2>2, <2>6, <2>9 DEF IntentKept
<1>3. CASE StartDecide(a)
  <2>1. UNCHANGED <<intentHistory, sent, signal, consumedWakes, exec, result, commit>>
    BY <1>3 DEF StartDecide, Quiet, adapter, observed
  <2>2. PICK q : /\ q = [pass[a] EXCEPT !.at = "decide", !.list = @ \cup Reconsidered(a)]
                 /\ Onward(a, q)
    BY <1>3 DEF StartDecide
  <2>3. q.at = "decide"
    BY <1>1, <2>2 DEF Passes
  <2> QED BY <2>1, <2>2, <2>3, PickOf, AloneTells
<1>4. ASSUME NEW x \in pass[a].list, SupersedeLower(a, x) PROVE IntentKept' /\ OneLife
  <2>1. /\ Quiet /\ Transition(x[1], Tag(a, "supersede"), x[2]) /\ x \in Reads
        /\ pass[a].at = "lower"
    BY <1>1, <1>4 DEF SupersedeLower, In
  <2>2. PICK q : q = [pass[a] EXCEPT !.list = @ \ {x}] /\ Onward(a, q)
    BY <1>4 DEF SupersedeLower
  <2>3. q.pick = pass[a].pick
    BY <1>1, <2>2 DEF Passes
  <2>4. PickStays
    BY <2>1, <2>2, <2>3, PickOf
  <2>5. Tag(a, "supersede") \in Tags /\ Goal(Tag(a, "supersede")[2]) # "COMPLETED"
    BY PassTags DEF Goal
  <2> QED BY <2>1, <2>4, <2>5, PassTells
<1>5. CASE Raise(a) \/ PassDies(a)
  <2>1. /\ UNCHANGED <<intentHistory, sent, signal, consumedWakes, exec, result, commit>>
        /\ Fails(a)
    BY <1>5 DEF Raise, PassDies, Quiet, store, adapter, observed
  <2>2. PICK q \in {Over, Idle(Clock(a))} : pass' = [pass EXCEPT ![a] = q]
    BY <2>1 DEF Fails, Turned
  <2>3. q.at = "idle"
    BY PassParts, PassRecords
  <2> QED BY <2>1, <2>2, <2>3, PickOf, AloneTells
<1> QED BY <1>2, <1>3, <1>4, <1>5, DecideTells DEF PassStep

LEMMA WakeTells ==
    ASSUME ProactiveInv, IntentKept, NEW n \in Instants, NEW m, Wake(n, m)
    PROVE  IntentKept' /\ OneLife
<1> DEFINE p == pass["host"].pick
           w == [at |-> n, intent |-> p[1], version |-> p[2]]
<1>1. /\ UNCHANGED <<intentHistory, sent, consumedWakes, exec, result, commit>>
      /\ signal' = signal \cup {w} /\ In("host", "lower") /\ pass' = [pass EXCEPT !["host"] = Over]
  BY DEF Wake, Turned, store, adapter, observed
<1>2. AllowedOnce' /\ GrantsStay /\ NoneDone
  BY <1>1, SameTells DEF IntentKept
<1>3. /\ p[1] \in Ids /\ HasAllowed(p[1]) /\ NotOfTurn(p[1])
      /\ \A s \in signal : s.intent \in Ids /\ HasAllowed(s.intent) /\ NotOfTurn(s.intent)
  BY <1>1, InvParts
     DEF WakeInv, WakeTypeOK, Wakes, PassInv, PassUnwoken, Reads, IntentKept, WokenByTick
<1>4. w.intent = p[1] /\ ~In("host", "lower")'
  <2>1. pass'["host"] = Over
    BY <1>1, PassParts DEF Actors
  <2> QED BY <2>1, PassRecords DEF In
<1> HIDE DEF p, w
<1>5. WokenByTick'
  BY <1>1, <1>2, <1>3, <1>4 DEF WokenByTick, GrantsStay
<1>6. Uncompleted'
  BY <1>1, <1>2, <1>3, AdapterFrame DEF IntentKept, NoneDone
<1> QED BY <1>1, <1>2, <1>5, <1>6, LivesSame DEF IntentKept

LEMMA StartTurnTells ==
    ASSUME ProactiveInv, IntentKept, NEW ks, NEW d, StartTurn(ks, d)
    PROVE  IntentKept' /\ OneLife
<1>1. /\ UNCHANGED <<intentHistory, sent, signal, consumedWakes, exec, result, commit>>
      /\ \E q : pass' = [pass EXCEPT !["turn"] = q]
  BY DEF StartTurn, Turned, adapter
<1>2. "turn" \in Actors /\ "turn" # "host"
  BY DEF Actors
<1> QED BY <1>1, <1>2, PickOf, AloneTells

\* A receipt completes an intent that a turn allowed: no wake is of it.
LEMMA ReceiptTells ==
    ASSUME ProactiveInv, IntentKept, NEW i \in Ids, ReceiptComplete(i)
    PROVE  IntentKept' /\ OneLife
<1>1. /\ HistoryInv /\ Version(i) \in Nat /\ <<"turn", "receipt">> \in Tags
      /\ Transition(i, <<"turn", "receipt">>, Version(i)) /\ ~NotOfTurn(i)
      /\ UNCHANGED <<sent, signal, consumedWakes, exec, result, commit, pass>>
  BY InvParts
     DEF HistoryInv, Stored, Version, ReceiptComplete, NotOfTurn, Quiet, adapter, observed, Tags
<1>2. /\ AllowedOnce' /\ GrantsStay
      /\ \A j \in Ids : Status(j)' = "COMPLETED" => Status(j) = "COMPLETED" \/ j = i
  BY <1>1, TransitionTells DEF IntentKept
<1>3. \A s \in signal : s.intent \in Ids /\ s.intent # i
  BY <1>1, InvParts DEF WakeInv, WakeTypeOK, Wakes, IntentKept, WokenByTick
<1>4. PickStays
  BY <1>1 DEF PickStays, In
<1>5. WokenByTick' /\ Uncompleted'
  BY <1>1, <1>2, <1>3, <1>4, WokenFrame, AdapterFrame DEF IntentKept
<1> QED BY <1>1, <1>2, <1>5, TransitionRefines DEF IntentKept

\* A begin consumes a wake of an intent that is allowed, or one it had consumed.
LEMMA ConsumeTells ==
    ASSUME ProactiveInv, IntentKept, NEW s \in signal, BeginFails(s) \/ BeginPrepared(s)
    PROVE  IntentKept' /\ OneLife
<1>1. /\ Offered(s) /\ result[s.at] = "NONE" /\ Eligible(s)
      /\ consumedWakes' = [consumedWakes EXCEPT ![s.at] = s]
      /\ UNCHANGED <<intentHistory, sent, signal, pass, result, commit>>
  BY DEF BeginFails, BeginPrepared, Consumes, Outside, store
<1>2. WakeInv /\ s.at \in Instants
  BY <1>1, InvParts, OfferedWake
<1>3. \A n \in Instants : n # s.at => exec'[n] = exec[n] /\ consumedWakes'[n] = consumedWakes[n]
  BY <1>1, <1>2 DEF BeginFails, BeginPrepared, WakeInv, WakeTypeOK
<1>4. AllowedOnce' /\ GrantsStay /\ NoneDone
  BY <1>1, SameTells DEF IntentKept
<1>5. WokenByTick'
  <2>1. PickStays
    BY <1>1 DEF PickStays, In
  <2> QED BY <1>1, <1>4, <2>1, WokenFrame DEF IntentKept
<1>6. Uncompleted'
  <2> SUFFICES ASSUME NEW n \in Instants
               PROVE  /\ consumedWakes'[n] # Nothing /\ result'[n] = "NONE"
                           /\ Status(consumedWakes[n].intent)' = "COMPLETED"
                         => commit' # Nothing /\ commit'[1] = n
                      /\ exec'[n] # Nothing => result'[n] = "NONE"
    BY DEF Uncompleted
  <2>1. CASE n # s.at
    BY <1>1, <1>3, <2>1 DEF IntentKept, Uncompleted, Status, Exists, Version
  <2>2. CASE n = s.at
    <3>1. consumedWakes'[n] = s
      BY <1>1, <1>2, <2>2 DEF WakeInv, WakeTypeOK
    <3>2. Status(s.intent) = "COMPLETED" => commit # Nothing /\ commit[1] = n
      BY <1>1, <1>2, <2>2, ProactiveAssumption
         DEF Eligible, IntentKept, Uncompleted, WakeInv, WakeTypeOK
    <3> QED BY <1>1, <2>2, <3>1, <3>2 DEF Status, Exists, Version
  <2> QED BY <2>1, <2>2
<1> QED BY <1>1, <1>4, <1>5, <1>6, LivesSame DEF IntentKept

\* The end of a wake supersedes its intent.
LEMMA EndsTells ==
    ASSUME ProactiveInv, IntentKept, NEW n \in Instants, GuardRejects(n) \/ Abort(n)
    PROVE  IntentKept' /\ OneLife
<1>1. PICK what \in {"reject", "abort"} : Ends(n, what) /\ consumedWakes[n] # Nothing
  BY DEF GuardRejects, Abort, Guards
<1>2. WakeInv /\ HistoryInv
  BY InvParts
<1>3. PICK w \in signal : w = consumedWakes[n]
  BY <1>1, <1>2 DEF WakeInv, KeptOfWakes
<1>4. /\ w.intent \in Ids /\ w.version \in Nat /\ <<"proactive", what>> \in Tags
      /\ Goal(what) # "COMPLETED"
      /\ Transition(w.intent, <<"proactive", what>>, w.version)
      /\ \A s \in signal : s.intent \in Ids
  BY <1>1, <1>2, <1>3 DEF WakeInv, WakeTypeOK, Wakes, Tags, Goal, Ends
<1>5. /\ UNCHANGED <<sent, signal, consumedWakes, commit, pass>>
      /\ result' = [result EXCEPT ![n] = "ABORTED"] /\ exec' = [exec EXCEPT ![n] = Nothing]
  BY <1>1 DEF Ends, Forget
<1>6. /\ AllowedOnce' /\ GrantsStay
      /\ \A j \in Ids : Status(j)' = "COMPLETED" => Status(j) = "COMPLETED"
  BY <1>2, <1>4, TransitionTells DEF IntentKept
<1>7. WokenByTick'
  <2>1. PickStays
    BY <1>5 DEF PickStays, In
  <2> QED BY <1>5, <1>6, <2>1, WokenFrame DEF IntentKept
<1>8. Uncompleted'
  <2>1. \A m \in Instants :
          /\ result'[m] = (IF m = n THEN "ABORTED" ELSE result[m])
          /\ exec'[m] = (IF m = n THEN Nothing ELSE exec[m])
    BY <1>2, <1>5 DEF WakeInv, WakeTypeOK
  <2> QED BY <1>4, <1>5, <1>6, <2>1, AdapterFrame DEF IntentKept
<1>9. OneLife
  BY <1>2, <1>4, <1>5, TransitionRefines
<1> QED BY <1>6, <1>7, <1>8, <1>9 DEF IntentKept

\* Prose goes out for an intent that was allowed, is not complete, and for which
\* none went out before.
LEMMA SendTells ==
    ASSUME ProactiveInv, IntentKept, NEW n \in Instants, Send(n)
    PROVE  IntentKept' /\ OneLife
<1>1. /\ WakeInv /\ exec[n] # Nothing /\ ~exec[n].sent /\ consumedWakes[n] # Nothing
      /\ commit = Nothing
      /\ exec' = [exec EXCEPT ![n].sent = TRUE]
      /\ sent' = [sent EXCEPT ![exec[n].intent] = @ + 1]
      /\ UNCHANGED <<intentHistory, signal, pass, consumedWakes, result, commit>>
  BY InvParts DEF Send, Guards, HostFree, store
<1>2. PICK p \in Proses : p = exec[n]
  BY <1>1 DEF WakeInv, WakeTypeOK
<1>3. p \in Kept(n) /\ p.intent \in Ids /\ ~p.sent
  BY <1>1, <1>2 DEF Kept, Proses
<1>4. PICK w \in signal : w.at = n /\ w.intent = p.intent
  BY <1>1, <1>3 DEF WakeInv, KeptOfWakes
<1>5. consumedWakes[n] = w
  BY <1>1, <1>4 DEF WakeInv, KeptOfWakes, WakesDistinct
<1>6. Status(p.intent) # "COMPLETED" /\ HasAllowed(p.intent)
  <2>1. result[n] = "NONE"
    BY <1>1 DEF IntentKept, Uncompleted
  <2> QED BY <1>1, <1>4, <1>5, <2>1 DEF IntentKept, Uncompleted, WokenByTick
<1>7. sent[p.intent] = 0 /\ sent \in [Ids -> Nat]
  BY <1>1, <1>2, <1>3 DEF WakeInv, WakeTypeOK, SentIsMarked
<1>8. AllowedOnce' /\ GrantsStay /\ NoneDone
  BY <1>1, SameTells DEF IntentKept
<1>9. WokenByTick'
  <2>1. PickStays
    BY <1>1 DEF PickStays, In
  <2> QED BY <1>1, <1>8, <2>1, WokenFrame DEF IntentKept
<1>10. Uncompleted'
  <2>1. \A m \in Instants : exec'[m] # Nothing => exec[m] # Nothing
    BY <1>1 DEF WakeInv, WakeTypeOK
  <2>2. \A s \in signal : s.intent \in Ids
    BY <1>1 DEF WakeInv, WakeTypeOK, Wakes
  <2> QED BY <1>1, <1>8, <2>1, <2>2, AdapterFrame DEF IntentKept, NoneDone
<1>11. OneLife
  <2>1. StatusOf' = StatusOf /\ Granted' = Granted
    BY <1>1 DEF StatusOf, Granted, HasAllowed, Status, Exists, Version
  <2>2. sent' = [sent EXCEPT ![p.intent] = 1]
    BY <1>1, <1>2, <1>3, <1>7
  <2>3. Intent!Tell(p.intent) /\ p.intent \in Granted
    BY <1>3, <1>6, <1>7, <2>1, <2>2 DEF Intent!Tell, Granted, StatusOf
  <2> QED BY <2>3 DEF OneLife, Intent!Next
<1> QED BY <1>8, <1>9, <1>10, <1>11 DEF IntentKept

\* A commit completes the intent of one wake, and is under way for it.
LEMMA CommitTells ==
    ASSUME ProactiveInv, IntentKept, NEW n \in Instants, CommitTransition(n)
    PROVE  IntentKept' /\ OneLife
<1>1. /\ WakeInv /\ HistoryInv /\ commit = Nothing /\ commit' = <<n, "consume">>
      /\ consumedWakes[n] # Nothing
      /\ UNCHANGED <<sent, signal, pass, consumedWakes, exec, result>>
  BY InvParts DEF CommitTransition, HostFree, observed
<1>2. PICK w \in signal : w = consumedWakes[n] /\ w.at = n
  BY <1>1 DEF WakeInv, KeptOfWakes
<1>3. /\ w.intent \in Ids /\ w.version \in Nat /\ <<"proactive", "commit">> \in Tags
      /\ Transition(w.intent, <<"proactive", "commit">>, w.version)
      /\ \A s \in signal : s.intent \in Ids
  BY <1>1, <1>2 DEF WakeInv, WakeTypeOK, Wakes, Tags, CommitTransition
<1>4. /\ AllowedOnce' /\ GrantsStay
      /\ \A j \in Ids : Status(j)' = "COMPLETED" => Status(j) = "COMPLETED" \/ j = w.intent
  BY <1>1, <1>3, TransitionTells DEF IntentKept
<1>5. WokenByTick'
  <2>1. PickStays
    BY <1>1 DEF PickStays, In
  <2> QED BY <1>1, <1>4, <2>1, WokenFrame DEF IntentKept
<1>6. commit' # Nothing /\ commit'[1] = n
  BY <1>1, ProactiveAssumption DEF CommitSteps
<1>7. Uncompleted'
  <2>1. ASSUME NEW m \in Instants, consumedWakes'[m] # Nothing, result'[m] = "NONE",
               Status(consumedWakes[m].intent)' = "COMPLETED"
        PROVE  commit' # Nothing /\ commit'[1] = m
    <3>1. PICK v \in signal : v = consumedWakes[m] /\ v.at = m /\ v = consumedWakes'[m]
      BY <1>1, <2>1 DEF WakeInv, KeptOfWakes
    <3>2. Status(v.intent) # "COMPLETED"
      BY <1>1, <2>1, <3>1 DEF IntentKept, Uncompleted
    <3>3. v.intent = w.intent
      BY <1>3, <1>4, <2>1, <3>1, <3>2
    <3>4. v = w
      BY <1>1, <3>3 DEF WakeInv, WakesDistinct
    <3> QED BY <1>2, <1>6, <3>1, <3>4
  <2>2. \A m \in Instants : exec'[m] # Nothing => result'[m] = "NONE"
    BY <1>1 DEF IntentKept, Uncompleted
  <2> QED BY <2>1, <2>2 DEF Uncompleted
<1>8. OneLife
  BY <1>1, <1>3, TransitionRefines
<1> QED BY <1>4, <1>5, <1>7, <1>8 DEF IntentKept

\* The other steps of the adapter ask the store for nothing and consume no wake.
LEMMA AdapterTells ==
    ASSUME ProactiveInv, IntentKept, NEW n \in Instants,
           \/ \E s \in signal : BeginRejected(s)
           \/ \E verdict \in {"ACCEPT", "REWRITE"} : GuardPasses(n, verdict)
           \/ ConsumeInspiration(n) \/ DeleteReservation(n) \/ FinishCommit(n)
    PROVE  IntentKept' /\ OneLife
<1>1. /\ UNCHANGED <<intentHistory, sent, signal, pass, consumedWakes>>
      /\ \/ UNCHANGED <<exec, result, commit>>
         \/ UNCHANGED <<exec, result>> /\ commit[1] = n /\ commit' \in {<<n, "delete">>, <<n, "finish">>}
         \/ /\ commit = <<n, "finish">> /\ result' = [result EXCEPT ![n] = "COMMITTED"]
            /\ exec' = [exec EXCEPT ![n] = Nothing]
  BY DEF BeginRejected, GuardPasses, ConsumeInspiration, DeleteReservation, FinishCommit, Forget,
         Outside, store, adapter, observed
<1>2. WakeInv /\ \A s \in signal : s.intent \in Ids
  BY InvParts DEF WakeInv, WakeTypeOK, Wakes
<1>3. AllowedOnce' /\ GrantsStay /\ NoneDone
  BY <1>1, SameTells DEF IntentKept
<1>4. WokenByTick'
  <2>1. PickStays
    BY <1>1 DEF PickStays, In
  <2> QED BY <1>1, <1>3, <2>1, WokenFrame DEF IntentKept
<1>s. /\ Uncompleted
      /\ \A s \in signal : Status(s.intent)' = "COMPLETED" => Status(s.intent) = "COMPLETED"
  BY <1>2, <1>3 DEF IntentKept, NoneDone
<1>5. ASSUME UNCHANGED <<exec, result, commit>> PROVE Uncompleted'
  BY <1>1, <1>s, <1>5, AdapterFrame
<1>6. ASSUME UNCHANGED <<exec, result>>, commit[1] = n,
             commit' \in {<<n, "delete">>, <<n, "finish">>}
      PROVE  Uncompleted'
  <2>1. commit' # Nothing /\ commit'[1] = n
    BY <1>6, ProactiveAssumption DEF CommitSteps
  <2>2. \A m \in Instants : commit # Nothing /\ commit[1] = m => commit' # Nothing /\ commit'[1] = m
    BY <1>6, <2>1
  <2> QED BY <1>1, <1>s, <1>6, <2>2, AdapterFrame
<1>7. ASSUME commit = <<n, "finish">>, result' = [result EXCEPT ![n] = "COMMITTED"],
             exec' = [exec EXCEPT ![n] = Nothing]
      PROVE  Uncompleted'
  <2>1. commit[1] = n
    BY <1>7
  <2>2. /\ result'[n] = "COMMITTED" /\ exec'[n] = Nothing
        /\ \A m \in Instants \ {n} : result'[m] = result[m] /\ exec'[m] = exec[m]
    BY <1>2, <1>7 DEF WakeInv, WakeTypeOK
  <2>3. ASSUME NEW m \in Instants
        PROVE  /\ consumedWakes'[m] # Nothing /\ result'[m] = "NONE" =>
                    /\ consumedWakes[m] = consumedWakes'[m] /\ result[m] = "NONE"
                    /\ commit # Nothing /\ commit[1] = m => commit' # Nothing /\ commit'[1] = m
               /\ exec'[m] # Nothing => exec[m] # Nothing /\ result'[m] = result[m]
    <3>1. CASE m = n
      BY <2>2, <3>1
    <3>2. CASE m # n
      BY <1>1, <2>1, <2>2, <3>2
    <3> QED BY <3>1, <3>2
  <2> QED BY <1>s, <2>3, AdapterFrame
<1>8. Uncompleted'
  BY <1>1, <1>5, <1>6, <1>7 DEF IntentKept
<1> QED BY <1>1, <1>3, <1>4, <1>8, LivesSame DEF IntentKept

LEMMA CrashTells ==
    ASSUME ProactiveInv, IntentKept, HostCrash
    PROVE  IntentKept' /\ OneLife
<1>1. /\ UNCHANGED <<intentHistory, sent, signal>>
      /\ \A n \in Instants : consumedWakes'[n] = Nothing /\ exec'[n] = Nothing
      /\ pass'["host"] = Idle(Clock("host"))
  BY DEF HostCrash, Empty, store, Actors
<1>2. AllowedOnce' /\ GrantsStay
  BY <1>1, SameTells DEF IntentKept
<1>3. PickStays
  <2>1. Idle(Clock("host")).at = "idle"
    BY DEF Idle, Pass
  <2> QED BY <1>1, <2>1 DEF PickStays, In
<1>4. WokenByTick'
  BY <1>1, <1>2, <1>3, WokenFrame DEF IntentKept
<1>5. Uncompleted'
  BY <1>1 DEF Uncompleted
<1> QED BY <1>1, <1>2, <1>4, <1>5, LivesSame DEF IntentKept

LEMMA IntentStepKeeps ==
    IntentInv /\ [PlaneNext]_planeVars => IntentInv' /\ [Intent!Next]_(Intent!contractVars)
<1> SUFFICES ASSUME IntentInv, [PlaneNext]_planeVars
             PROVE  IntentInv' /\ [Intent!Next]_(Intent!contractVars)
  OBVIOUS
<1>p. ProactiveInv /\ IntentKept /\ ProactiveInv'
  BY ProactiveStepKeeps DEF IntentInv, IntentKept
<1>1. ASSUME NEW a \in Tickers, TickStep(a) PROVE IntentKept' /\ OneLife
  BY <1>p, <1>1, TickTells
<1>2. ASSUME NEW a \in Actors, PassStep(a) PROVE IntentKept' /\ OneLife
  BY <1>p, <1>2, PassStepTells
<1>3. ASSUME NEW ks, NEW d, StartTurn(ks, d) PROVE IntentKept' /\ OneLife
  BY <1>p, <1>3, StartTurnTells
<1>4. ASSUME NEW n \in Instants, NEW m, Wake(n, m) PROVE IntentKept' /\ OneLife
  BY <1>p, <1>4, WakeTells
<1>5. ASSUME NEW i \in Ids, ReceiptComplete(i) PROVE IntentKept' /\ OneLife
  BY <1>p, <1>5, ReceiptTells
<1>6. ASSUME UNCHANGED planeVars PROVE IntentKept' /\ OneLife
  <2>1. PickStays /\ UNCHANGED <<intentHistory, sent, signal, consumedWakes, exec, result, commit>>
    BY <1>6 DEF planeVars, store, adapter, observed, PickStays, In
  <2> QED BY <1>p, <2>1, AloneTells
<1>7. ASSUME NEW s \in signal,
             BeginKnown(s) \/ BeginRejected(s) \/ BeginFails(s) \/ BeginPrepared(s)
      PROVE  IntentKept' /\ OneLife
  <2>1. CASE BeginKnown(s)
    BY <1>6, <2>1 DEF BeginKnown
  <2>2. CASE BeginRejected(s)
    <3>1. s.at \in Instants
      BY <1>p, <2>2, OfferedWake DEF BeginRejected
    <3> QED BY <1>p, <2>2, <3>1, AdapterTells
  <2> QED BY <1>p, <1>7, <2>1, <2>2, ConsumeTells
<1>8. ASSUME NEW n \in Instants,
             \/ \E verdict \in {"ACCEPT", "REWRITE"} : GuardPasses(n, verdict)
             \/ GuardRejects(n) \/ Send(n) \/ Abort(n)
             \/ CommitTransition(n) \/ ConsumeInspiration(n) \/ DeleteReservation(n)
             \/ FinishCommit(n)
      PROVE  IntentKept' /\ OneLife
  BY <1>p, <1>8, EndsTells, SendTells, CommitTells, AdapterTells
<1>9. ASSUME HostCrash PROVE IntentKept' /\ OneLife
  BY <1>p, <1>9, CrashTells
<1>10. IntentKept' /\ OneLife
  BY <1>1, <1>2, <1>3, <1>4, <1>5, <1>6, <1>7, <1>8, <1>9 DEF PlaneNext, BodyStep
<1> QED BY <1>p, <1>10 DEF IntentInv, IntentKept, OneLife, Intent!contractVars

LEMMA IntentInitOK == PlaneInit => IntentInv /\ Intent!Init
<1> SUFFICES ASSUME PlaneInit PROVE IntentInv /\ Intent!Init
  OBVIOUS
<1>1. \A i \in Ids : Version(i) = 0 /\ ~Exists(i) /\ Status(i) = "ABSENT" /\ ~HasAllowed(i)
  BY DEF PlaneInit, Version, Exists, Status, HasAllowed
<1>2. /\ signal = {} /\ ~In("host", "lower")
      /\ \A n \in Instants : consumedWakes[n] = Nothing /\ exec[n] = Nothing
  BY PassRecords DEF PlaneInit, NoWakes, Empty, In, Actors
<1>3. AllowedOnce /\ WokenByTick /\ Uncompleted
  BY <1>1, <1>2 DEF AllowedOnce, WokenByTick, Uncompleted
<1>4. Intent!Init
  BY <1>1 DEF PlaneInit, Intent!Init, StatusOf, Granted
<1> QED BY <1>3, <1>4, ProactiveInitOK DEF IntentInv

\* An intent is allowed once; wakes are of intents a tick allowed, and the adapter
\* holds none that is complete (consume_wake, commit_proactive_turn).
THEOREM IntentInvariant == PlaneSpec => []IntentInv
<1>1. PlaneInit => IntentInv
  BY IntentInitOK
<1>2. IntentInv /\ [PlaneNext]_planeVars => IntentInv'
  BY IntentStepKeeps
<1> QED BY <1>1, <1>2, PTL DEF PlaneSpec

\* The store, the passes over it and the adapter come to the plain life of each
\* intent (IntentLifecycleService.transition, commit_proactive_turn).
THEOREM IntentsKeepContract == PlaneSpec => ImplementsIntentContract
<1>1. PlaneInit => Intent!Init
  BY IntentInitOK
<1>2. IntentInv /\ [PlaneNext]_planeVars => [Intent!Next]_(Intent!contractVars)
  BY IntentStepKeeps
<1> QED BY <1>1, <1>2, IntentInvariant, PTL DEF PlaneSpec, ImplementsIntentContract, Intent!Spec
================================================================================
