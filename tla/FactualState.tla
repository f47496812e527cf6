----------------------------- MODULE FactualState -----------------------------
(***************************************************************************)
(* FactualReconciler for one (scope, dimension), and the writes its result *)
(* becomes in _ingest_commit. A turn holds the lease, reloads canonical    *)
(* state, applies the typed intents of its observations - after a retry    *)
(* these may be old ones - and writes rows and transitions one by one: a   *)
(* write may raise, and the process may die, between any two of them.      *)
(***************************************************************************)
EXTENDS Integers, Sequences, FiniteSets

CONSTANTS Conditions,      \* values of the dimension
          ValidityKind,    \* "ttl", "event_only" or "until_changed"
          Ttl,             \* of a "ttl" policy
          EndedBy,         \* terminal operations that occur
          MaxInstant,      \* bound: the clock
          MaxRows,         \* bound: a turn begins below this version
          MaxStateFaults   \* bound: turns cut short

ASSUME StateAssumption ==
    /\ ValidityKind \in {"ttl", "event_only", "until_changed"}
    /\ EndedBy \subseteq {"resolved", "completed", "cancelled"}
    /\ MaxRows \in Nat
    /\ Ttl \in Nat /\ MaxInstant \in Nat \ {0} /\ MaxStateFaults \in Nat

VARIABLES
    stateRows,   \* rows of the dimension in the states table
    links,       \* state_transitions: from_state_id and to_state_id, as versions
    writing,     \* writes the turn has still to make
    instant,     \* the clock
    stateFaults

stateVars == <<stateRows, links, writing, instant, stateFaults>>

Terminal == EndedBy \cup {"superseded"}
Forever  == MaxInstant + Ttl + 1
CurrentLike(row) == row.status = "active"

\* An intent: what was observed and when; op is "observed" or a terminal.
Intents(at) == [value : Conditions, op : {"observed"} \cup EndedBy, at : at]

NoRow == [version |-> 0, value |-> CHOOSE v \in Conditions : TRUE, status |-> "absent",
          touched |-> 0, until |-> 0, seen |-> 0]

\* The current record of the dimension is the one with the highest version.
Shown == IF stateRows = {} THEN NoRow
         ELSE CHOOSE r \in stateRows : \A q \in stateRows : q.version <= r.version

-----------------------------------------------------------------------------
(* States. "touched" is last_observed_at, which is the time of processing; *)
(* "seen" is when the value or its end was observed.                       *)

Until(n) == IF ValidityKind = "ttl" THEN n + Ttl ELSE Forever

Fresh(i, n, v) == [version |-> v, value |-> i.value, status |-> "active",
                   touched |-> n, until |-> Until(n), seen |-> i.at]

Ended(row, status, n) ==
    [row EXCEPT !.version = @ + 1, !.status = status, !.touched = n]

Refreshed(row, i, n) ==
    [row EXCEPT !.version = @ + 1, !.touched = n, !.seen = i.at,
                !.until = IF ValidityKind = "ttl" THEN n + Ttl ELSE @]

Expires(row, n) == CurrentLike(row) /\ row.until < n
Expired(row)    == [row EXCEPT !.version = @ + 1, !.status = "expired"]

Row(r)      == [kind |-> "row", row |-> r]
Link(q, r)  == [kind |-> "link", from |-> q.version, to |-> r.version]

\* Seeded fault: the row a transition leads to is left to the effective set.
MoveWrites_FromOnly(q, r) == <<Row(q), Link(q, r)>>
\* The writes of a transition: the rows it refers to are saved before it.
MoveWrites(q, r) == <<Row(q), Row(r), Link(q, r)>>

\* A pass over the intents: the current record, the writes of the transitions so
\* far, and whether an illegal terminal transition was met.
Reached(acc, row) == [acc EXCEPT !.row = row, !.writes = @ \o MoveWrites(acc.row, row)]

\* Seeded fault: a reaffirmed value is not compared in time.
Deferred_NewValueOnly(row, i) == i.at < row.touched /\ i.value # row.value
\* Anti-rollback: what was observed before the last processing is deferred, and
\* the deferred intents are dropped.
Deferred(row, i) == i.at < row.touched

Reconcile(acc, i, n) ==
    LET row == acc.row IN
    IF row = NoRow THEN [acc EXCEPT !.row = Fresh(i, n, 1)]
    ELSE IF Deferred(row, i) THEN acc
    ELSE IF i.op \in EndedBy
    THEN IF row.status \notin Terminal
         THEN Reached(acc, [Ended(row, i.op, n) EXCEPT !.seen = i.at])
         ELSE [acc EXCEPT !.legal = @ /\ row.status = i.op]
    ELSE IF ~CurrentLike(row) THEN Reached(acc, Fresh(i, n, row.version + 1))
    ELSE IF i.value # row.value
    THEN LET old == Reached(acc, Ended(row, "superseded", n)) IN
         Reached(old, Fresh(i, n, row.version + 2))
    ELSE IF ValidityKind = "event_only" THEN acc
    ELSE Reached(acc, Refreshed(row, i, n))

\* The validity pass comes first.
Start(row, n) ==
    LET acc == [row |-> row, writes |-> <<>>, legal |-> TRUE] IN
    IF Expires(row, n) THEN Reached(acc, Expired(row)) ELSE acc

Applied(intents, n) ==
    LET first == Reconcile(Start(Shown, n), intents[1], n) IN
    IF Len(intents) = 1 \/ ~first.legal THEN first
    ELSE Reconcile(first, intents[2], n)

-----------------------------------------------------------------------------
(* A turn's writes.                                                        *)

\* The effective state first, then every transition.
Writes(acc) == <<Row(acc.row)>> \o acc.writes

\* Terminal operations need a state they may end, when the observation is
\* ingested; the rest of the eligibility rules only drop observations.
LegalTarget(i) == i.op = "observed" \/ CurrentLike(Shown) \/ Shown.status = i.op

\* _ingest_commit: an illegal transition raises before anything is written.
IngestCommit(intents) ==
    LET acc == Applied(intents, instant) IN
    /\ writing = <<>> /\ Shown.version < MaxRows
    /\ \A k \in DOMAIN intents : LegalTarget(intents[k])
    /\ writing' = IF acc.legal THEN Writes(acc) ELSE <<>>
    /\ UNCHANGED <<stateRows, links, instant, stateFaults>>

\* A row or a transition that exists is left as it is.
Write ==
    /\ writing # <<>>
    /\ LET w == Head(writing) IN
         IF w.kind = "row"
         THEN /\ stateRows' = IF \E r \in stateRows : r.version = w.row.version
                              THEN stateRows ELSE stateRows \cup {w.row}
              /\ UNCHANGED links
         ELSE links' = links \cup {<<w.from, w.to>>} /\ UNCHANGED stateRows
    /\ writing' = Tail(writing)
    /\ UNCHANGED <<instant, stateFaults>>

\* A write raises, or the process dies: the next turn reloads what is stored.
TurnCutShort ==
    /\ writing # <<>> /\ stateFaults < MaxStateFaults
    /\ stateFaults' = stateFaults + 1
    /\ writing' = <<>>
    /\ UNCHANGED <<stateRows, links, instant>>

TimePasses ==
    /\ instant < MaxInstant /\ instant' = instant + 1
    /\ UNCHANGED <<stateRows, links, writing, stateFaults>>

StateInit == stateRows = {} /\ links = {} /\ writing = <<>> /\ instant = 1 /\ stateFaults = 0

StateNext ==
    \/ \E i \in Intents(1 .. instant) : IngestCommit(<<i>>)
    \/ \E at \in 1 .. instant : \E i, j \in Intents({at}) : IngestCommit(<<i, j>>)
    \/ Write \/ TurnCutShort \/ TimePasses

StateSpec == StateInit /\ [][StateNext]_stateVars

-----------------------------------------------------------------------------
\* load_transitions resolves both ends of every transition, although each write
\* of a turn is its own transaction and any prefix of them may be all there is.
TransitionsResolve ==
    \A l \in links : {l[1], l[2]} \subseteq {r.version : r \in stateRows}

\* Anti-rollback (D4.5): a later version never shows what was observed before
\* what an earlier one shows, whichever turns were cut short and retried.
NoRollback ==
    \A q, r \in stateRows : q.version < r.version => q.seen <= r.seen

-----------------------------------------------------------------------------
(* What makes them inductive: the rows a turn has still to write continue  *)
(* the stored ones, and no transition is ahead of the rows it refers to.   *)

RowStatuses == {"absent", "active", "superseded", "expired"} \cup EndedBy
StateRow    == [version : Nat, value : Conditions \cup {NoRow.value}, status : RowStatuses,
                touched : Nat, until : Nat, seen : Nat]
StateWrite  == [kind : {"row"}, row : StateRow] \cup [kind : {"link"}, from : Nat, to : Nat]

StateTypeOK ==
    /\ stateRows \subseteq StateRow /\ links \subseteq Nat \X Nat
    /\ writing \in Seq(StateWrite) /\ instant \in Nat

\* The rows among the writes ws.
RowsIn(ws) == {ws[k].row : k \in {j \in DOMAIN ws : ws[j].kind = "row"}}

\* Stored versions are distinct and one of them is the highest.
VersionsDistinct ==
    /\ \A q, r \in stateRows : q.version = r.version => q = r
    /\ stateRows # {} => \E r \in stateRows : \A q \in stateRows : q.version <= r.version

\* Stored or still to be written, a later version shows what was observed later,
\* and nothing is observed after it was processed.
ObservedInOrder ==
    \A q, r \in stateRows \cup RowsIn(writing) :
      /\ q.version < r.version => q.seen <= r.seen
      /\ r.seen <= r.touched /\ r.touched <= instant

\* Both rows of a transition are stored or written before it.
LinksFollowRows ==
    \A k \in DOMAIN writing : writing[k].kind = "link" =>
      \A v \in {writing[k].from, writing[k].to} :
        \/ \E r \in stateRows : r.version = v
        \/ \E j \in 1 .. k - 1 : writing[j].kind = "row" /\ writing[j].row.version = v

StateInv ==
    /\ StateTypeOK /\ VersionsDistinct /\ ObservedInOrder /\ LinksFollowRows
    /\ TransitionsResolve
==============================================================================
