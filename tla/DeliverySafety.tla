--------------------------- MODULE DeliverySafety ---------------------------
(***************************************************************************)
(* The properties of DeliveryDaemon, and its reading as DeliveryContract.  *)
(***************************************************************************)
EXTENDS DeliveryDaemon

PCs == {"idle", "scan", "rearm", "launch", "count", "log", "send", "wait",
        "receipt", "conclude", "close", "ref", "resolve"}

\* Types of the tables of delivery/persistence.py and of the pass's locals.
TypeOK ==
    /\ state \in [Requests -> Lifecycle \cup {"ABSENT"}]
    /\ attempts \in [Requests -> Nat]
    /\ evidence \subseteq Requests
    /\ attemptLog \subseteq [request : Requests, attempt : Nat \ {0}, outcome : Lifecycle]
    /\ pc \in PCs
    /\ todo \subseteq Requests
    /\ seen \in [Requests -> [state : Lifecycle \cup {"ABSENT"}, attempts : Nat]]
    /\ cur \in Requests \cup {NoRequest}
    /\ verdict \in Lifecycle
    /\ aborted \in BOOLEAN
    /\ sends \in [Requests -> Nat]
    /\ transit \in [Requests -> Nat]
    /\ delivered \in [Requests -> Nat]
    /\ premature \in [Requests -> Nat]
    /\ crashes \in Nat

-----------------------------------------------------------------------------
\* 1 while the pass has counted an attempt of r and not yet called the carrier.
Uncalled(r) == IF cur = r /\ pc \in {"log", "send"} THEN 1 ELSE 0

\* compute_retry_decision's budget bounds real carrier calls: a request is
\* never sent more often than its durable attempt count says or the budget
\* allows, and the count runs ahead of the calls only by crashes in between.
BudgetAccounting ==
    \A r \in Requests :
        /\ sends[r] <= attempts[r]
        /\ attempts[r] <= RetryBudget
        /\ attempts[r] <= sends[r] + Uncalled(r) + crashes

\* At most once: RECONCILE_FIRST for IN_FLIGHT and UNKNOWN rows means that the
\* recipient gets one copy, plus one for each copy the reconciler's negative
\* answer overlooked because it was still on its way.
DuplicatesNeedPrematureAnswers ==
    \A r \in Requests : delivered[r] + transit[r] <= 1 + premature[r]

\* The lifecycle label never outruns the truth, wherever the process died:
\* ACCEPTED means a copy was delivered and evidence of it was stored before;
\* a row that may be sent again, or was given up, has no copy out that a
\* negative answer did not overlook.
LabelsAreTrue ==
    \A r \in Requests :
        /\ state[r] = "ACCEPTED" => delivered[r] > 0 /\ r \in evidence
        /\ state[r] \in {"ABSENT", "PENDING", "FAILED_RETRYABLE", "REJECTED"}
             => delivered[r] + transit[r] <= premature[r]

\* The plan of _drive_one fits the transition table of delivery/state.py: no
\* pass dies of an illegal transition and leaves the rows after it undriven.
PassNeverAborts == ~aborted

-----------------------------------------------------------------------------
Phase(s) == CASE s = "ABSENT"                          -> "none"
              [] s \in {"PENDING", "FAILED_RETRYABLE"} -> "queued"
              [] s \in {"IN_FLIGHT", "UNKNOWN"}        -> "open"
              [] s = "ACCEPTED"                        -> "delivered"
              [] OTHER                                 -> "refused"

phaseBar == [r \in Requests |-> Phase(state[r])]
armedBar == [r \in Requests |-> cur = r /\ pc \in {"count", "log", "send"}]

C == INSTANCE DeliveryContract
        WITH Budget <- RetryBudget, phase <- phaseBar, armed <- armedBar, sent <- sends

\* The daemon over its SQLite rows implements DeliveryContract: one carrier
\* call per launch, a launch only from a queued row within the budget, and
\* ACCEPTED and REJECTED for good.
ImplementsContract == C!Spec

\* A generic request is finished, or waits with its budget used up.
Finished(r) == \/ state[r] \in Terminal
               \/ state[r] \in {"PENDING", "FAILED_RETRYABLE"} /\ attempts[r] >= RetryBudget

\* No request is left behind by a crash: an IN_FLIGHT row whose process died,
\* or one whose carrier never answered, is finished by later passes.
EveryRequestFinishes ==
    \A r \in Requests \ Surface : (state[r] # "ABSENT") ~> Finished(r)

-----------------------------------------------------------------------------
(* Why the properties hold: the inductive invariant.                       *)

\* The rows a pass has not driven yet are as it read them.
SnapshotFresh ==
    \A r \in todo : /\ seen[r].state = state[r]
                    /\ seen[r].attempts = attempts[r]
                    /\ state[r] \notin Terminal \cup {"ABSENT"}

\* Where the pass is tells the state of the row it drives.
ControlState ==
    /\ pc = "idle" => todo = {}
    /\ pc \in {"idle", "scan"} => cur = NoRequest
    /\ pc \notin {"idle", "scan"} => cur \in Requests /\ cur \notin todo
    /\ pc = "rearm" => state[cur] = "FAILED_RETRYABLE"
    /\ pc = "launch" => state[cur] = "PENDING"
    /\ pc \in {"count", "log", "send", "wait", "receipt", "conclude"}
         => state[cur] = "IN_FLIGHT"
    /\ pc \in {"log", "send", "wait", "receipt", "conclude", "close"}
         => attempts[cur] > 0
    /\ pc \in {"ref", "resolve"} => state[cur] \in {"IN_FLIGHT", "UNKNOWN"}
    /\ pc \in {"receipt", "ref"} => verdict = "ACCEPTED"
    /\ pc = "conclude" => verdict \in {"ACCEPTED", "REJECTED", "UNKNOWN"}
    /\ pc = "resolve" => verdict \in {"ACCEPTED", "REJECTED", "FAILED_RETRYABLE"}

ControlInv == TypeOK /\ SnapshotFresh /\ ControlState /\ PassNeverAborts

\* The budget is checked three transactions before the attempt is counted, and
\* the attempt is counted two transactions before the carrier is called.
RoomForAttempt ==
    /\ pc \in {"rearm", "launch", "count"} => attempts[cur] < RetryBudget
    /\ pc \in {"log", "send"} => sends[cur] < attempts[cur]

\* What the pass knows of the copies of the row it drives.
CopiesOfDriven ==
    /\ pc \in {"count", "log", "send"}
         => delivered[cur] + transit[cur] <= premature[cur]
    /\ pc \in {"conclude", "resolve"} /\ verdict \in {"REJECTED", "FAILED_RETRYABLE"}
         => delivered[cur] + transit[cur] <= premature[cur]
    /\ pc \in {"receipt", "ref"} => delivered[cur] > 0
    /\ pc \in {"conclude", "resolve"} /\ verdict = "ACCEPTED"
         => delivered[cur] > 0 /\ cur \in evidence

BudgetInv == RoomForAttempt /\ BudgetAccounting
CopiesInv == CopiesOfDriven /\ DuplicatesNeedPrematureAnswers /\ LabelsAreTrue

DeliveryInv == ControlInv /\ BudgetInv /\ CopiesInv

-----------------------------------------------------------------------------
\* What persistence.py says of delivery_attempts ("start / end / outcome"): an
\* attempt that was closed has its outcome on record.
ClosedAttemptHasOutcome ==
    [][pc = "close" /\ pc' = "scan"
         => \E a \in attemptLog' : /\ a.request = cur /\ a.attempt = attempts[cur]
                                   /\ a.outcome = state[cur]]_vars
=============================================================================
