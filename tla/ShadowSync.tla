------------------------------ MODULE ShadowSync ------------------------------
(***************************************************************************)
(* Acquisition of the chat source: a sync reads the cursor, fetches one    *)
(* page of the Hermes store behind it, records the page in shadow_events,  *)
(* moves the cursor to the end of the page and labels the corpus. Each is  *)
(* a transaction of its own; the daemon's sync, one started by hand and a  *)
(* backfill from any position may overlap, and each may die anywhere.      *)
(* Messages are numbered as Hermes stored them.                            *)
(***************************************************************************)
EXTENDS Integers, FiniteSets

CONSTANTS NumMessages,
          Sent,      \* the timestamp of each message
          Class,     \* what becomes of it: see Classes
          PageLimit,
          Syncers

Messages == 1 .. NumMessages

\* Not selected by fetch_page; selected but blank; of another channel, domain
\* or test session (classify); leaking after redaction; recorded.
Classes == {"hidden", "blank", "foreign", "leaky", "plain"}

\* Hermes hands out ids and timestamps in one order.
ASSUME SyncAssumption ==
    /\ NumMessages \in Nat /\ PageLimit \in Nat \ {0}
    /\ Sent \in [Messages -> Nat \ {0}]
    /\ \A m, n \in Messages : m < n => Sent[m] <= Sent[n]
    /\ Class \in [Messages -> Classes]

VARIABLES
    stored,       \* how many messages Hermes has stored
    cursor,       \* sync_state: last_ts, last_id
    shadowEvents, \* recorded messages
    labelled,     \* shadow_affect
    syncer        \* each process: its step, the positions and messages it holds

syncVars == <<stored, cursor, shadowEvents, labelled, syncer>>

Positions == [ts : Nat, id : Nat]
Origin    == [ts |-> 0, id |-> 0]
PosOf(m)  == [ts |-> Sent[m], id |-> m]

\* Positions are compared by timestamp, ties by id.
Behind(p, q) == p.ts < q.ts \/ (p.ts = q.ts /\ p.id < q.id)

Waiting == [at |-> "idle", keeps |-> FALSE, from |-> Origin, till |-> Origin, held |-> {}]

AtSync(p, st) == syncer[p].at = st
SyncTo(p, st) == syncer' = [syncer EXCEPT ![p].at = st]

\* The user and the agent go on writing.
Arrive == /\ stored < NumMessages /\ stored' = stored + 1
          /\ UNCHANGED <<cursor, shadowEvents, labelled, syncer>>

\* sync takes its position from the store and keeps the one it reaches.
StartSync(p) ==
    /\ AtSync(p, "idle")
    /\ syncer' = [syncer EXCEPT ![p] = [Waiting EXCEPT !.at = "fetch", !.keeps = TRUE,
                                                       !.from = cursor]]
    /\ UNCHANGED <<stored, cursor, shadowEvents, labelled>>

\* backfill takes it from the command line and keeps none.
StartBackfill(p, ts) ==
    /\ AtSync(p, "idle")
    /\ syncer' = [syncer EXCEPT ![p] = [Waiting EXCEPT !.at = "fetch", !.from.ts = ts]]
    /\ UNCHANGED <<stored, cursor, shadowEvents, labelled>>

\* What fetch_page selects from: dialogue behind a position.
Dialogue(from) == {m \in 1 .. stored : Class[m] # "hidden" /\ Behind(from, PosOf(m))}

\* Oldest first, at most PageLimit of them.
PageOf(page, S) ==
    /\ page = S \/ Cardinality(page) = PageLimit
    /\ Cardinality(page) <= PageLimit
    /\ \A m \in page, n \in S \ page : Behind(PosOf(m), PosOf(n))

\* The position of the last message read, kept or not; where it was if there is none.
EndOf(till, page, from) ==
    IF page = {} THEN till = from
    ELSE \E m \in page : /\ till = PosOf(m)
                         /\ \A n \in page \ {m} : Behind(PosOf(n), PosOf(m))

\* What a page leaves to record after the filters, classify and redact_text.
Recordable(page) == {m \in page : Class[m] = "plain"}

\* Seeded fault: the cursor goes to the newest message of the source.
Fetch_Newest(p) ==
    LET from == syncer[p].from IN
    /\ AtSync(p, "fetch")
    /\ \E page \in SUBSET Dialogue(from), till \in {from} \cup {PosOf(m) : m \in 1 .. stored} :
          /\ PageOf(page, Dialogue(from)) /\ EndOf(till, Dialogue(from), from)
          /\ syncer' = [syncer EXCEPT ![p].at = "insert", ![p].till = till,
                                      ![p].held = Recordable(page)]
    /\ UNCHANGED <<stored, cursor, shadowEvents, labelled>>

Fetch(p) ==
    LET from == syncer[p].from IN
    /\ AtSync(p, "fetch")
    /\ \E page \in SUBSET Dialogue(from), till \in {from} \cup {PosOf(m) : m \in 1 .. stored} :
          /\ PageOf(page, Dialogue(from)) /\ EndOf(till, page, from)
          /\ syncer' = [syncer EXCEPT ![p].at = "insert", ![p].till = till,
                                      ![p].held = Recordable(page)]
    /\ UNCHANGED <<stored, cursor, shadowEvents, labelled>>

\* One transaction; messages that are there are ignored.
Insert(p) ==
    /\ AtSync(p, "insert")
    /\ shadowEvents' = shadowEvents \cup syncer[p].held
    /\ IF syncer[p].keeps THEN SyncTo(p, "cursor") ELSE syncer' = [syncer EXCEPT ![p] = Waiting]
    /\ UNCHANGED <<stored, cursor, labelled>>

\* The position is compared with the one this run started from, not with the
\* stored one, which another sync may have moved on meanwhile.
WriteCursor(p) ==
    /\ AtSync(p, "cursor")
    /\ cursor' = IF Behind(syncer[p].from, syncer[p].till) THEN syncer[p].till ELSE cursor
    /\ SyncTo(p, "corpus")
    /\ UNCHANGED <<stored, shadowEvents, labelled>>

\* learn_corpus reads the whole shadow store and labels it in another database.
ReadCorpus(p) ==
    /\ AtSync(p, "corpus")
    /\ syncer' = [syncer EXCEPT ![p] = [Waiting EXCEPT !.at = "label", !.held = shadowEvents]]
    /\ UNCHANGED <<stored, cursor, shadowEvents, labelled>>

Label(p) ==
    /\ AtSync(p, "label")
    /\ labelled' = labelled \cup syncer[p].held
    /\ syncer' = [syncer EXCEPT ![p] = Waiting]
    /\ UNCHANGED <<stored, cursor, shadowEvents>>

\* Killed by the daemon's timeout, by a locked database or with the machine.
SyncDies(p) ==
    /\ ~AtSync(p, "idle")
    /\ syncer' = [syncer EXCEPT ![p] = Waiting]
    /\ UNCHANGED <<stored, cursor, shadowEvents, labelled>>

SyncInit ==
    /\ stored = 0 /\ cursor = Origin
    /\ shadowEvents = {} /\ labelled = {}
    /\ syncer = [p \in Syncers |-> Waiting]

SyncNext ==
    \/ Arrive
    \/ \E p \in Syncers :
          \/ StartSync(p) \/ Fetch(p) \/ Insert(p) \/ WriteCursor(p)
          \/ ReadCorpus(p) \/ Label(p) \/ SyncDies(p)
          \/ \E ts \in {0} \cup {Sent[m] : m \in Messages} : StartBackfill(p, ts)

SyncSpec == SyncInit /\ [][SyncNext]_syncVars

-----------------------------------------------------------------------------

\* A message the cursor has passed and the filters let through is recorded,
\* whatever syncs overlapped or died on the way: there is nothing a later sync
\* would have to go back for ("never the global newest timestamp, which would
\* permanently skip messages beyond one page limit", sync.py).
NothingSkipped ==
    \A m \in Recordable(1 .. stored) : m \in shadowEvents \/ Behind(cursor, PosOf(m))

-----------------------------------------------------------------------------
(* The inductive invariant.                                                *)

\* Everything up to a position is recorded, or in a set about to be.
CoveredBy(pos, S) == \A m \in Recordable(1 .. stored) : m \in S \/ Behind(pos, PosOf(m))

\* A position the source has reached: what arrives later lies behind it.
CursorSound(pos) == pos = Origin \/ \E m \in 1 .. stored : pos = PosOf(m)

\* What a process holds at each step.
SyncStates == [at : {"idle", "fetch", "insert", "cursor", "corpus", "label"}, keeps : BOOLEAN,
               from : Positions, till : Positions, held : SUBSET (1 .. stored)]

SyncTypeOK ==
    /\ stored \in 0 .. NumMessages
    /\ cursor \in Positions
    /\ shadowEvents \subseteq 1 .. stored
    /\ syncer \in [Syncers -> SyncStates]

SyncInv ==
    /\ SyncTypeOK
    /\ CursorSound(cursor) /\ NothingSkipped
    /\ \A p \in Syncers : AtSync(p, "cursor") => syncer[p].keeps
    /\ \A p \in Syncers : syncer[p].keeps /\ ~AtSync(p, "idle") =>
          /\ CursorSound(syncer[p].from) /\ CoveredBy(syncer[p].from, shadowEvents)
          /\ AtSync(p, "insert") => /\ CursorSound(syncer[p].till)
                                    /\ CoveredBy(syncer[p].till, shadowEvents \cup syncer[p].held)
          /\ AtSync(p, "cursor") => /\ CursorSound(syncer[p].till)
                                    /\ CoveredBy(syncer[p].till, shadowEvents)
==============================================================================
