--------------------------- MODULE DeliveryDaemon ---------------------------
(***************************************************************************)
(* The durable delivery plane: the rows of SqliteDeliveryBackend, the      *)
(* passes DaemonPass makes over them, the carrier port and the reconciler. *)
(* Every write of the backend is a transaction of its own, so every write  *)
(* is a step here and the process may crash between any two of them.       *)
(* Carrier, provider and reconciler are not part of the repository: they   *)
(* do what the DeliveryPort and DeliveryReconciler protocols require.      *)
(***************************************************************************)
EXTENDS Integers

CONSTANTS NumRequests,   \* requests are numbered in request_id order
          Surface,       \* the ones that carry a surface handoff
          RetryBudget,   \* DaemonPass.retry_budget
          MaxCrashes     \* bound: crashes of the daemon process

Requests == 1 .. NumRequests
NoRequest == 0

ASSUME DeliveryAssumption ==
    /\ NumRequests \in Nat
    /\ Surface \subseteq Requests
    /\ RetryBudget \in Nat
    /\ MaxCrashes \in Nat

VARIABLES
    (* durable *)
    state,       \* delivery_requests.lifecycle_state, or "ABSENT"
    attempts,    \* delivery_requests.attempt_count
    evidence,    \* requests with a stored receipt or provider receipt ref
    attemptLog,  \* rows of delivery_attempts
    (* the daemon process *)
    pc,          \* next transaction of the pass
    todo,        \* rows of the snapshot not driven yet
    seen,        \* the snapshot: lifecycle state and attempt count
    cur,         \* the row being driven
    verdict,     \* the lifecycle state the row is about to receive
    aborted,     \* a pass died of an illegal transition
    (* the provider, and observations *)
    sends,       \* calls of DeliveryPort.deliver
    transit,     \* copies that left the process and have not landed
    delivered,   \* copies that reached the recipient
    premature,   \* copies in transit when a negative answer was given
    crashes

durable   == <<state, attempts, evidence, attemptLog>>
process   == <<pc, todo, seen, cur, verdict, aborted>>
provider  == <<sends, transit, delivered, premature>>
vars      == <<durable, process, provider, crashes>>

Lifecycle == {"PENDING", "IN_FLIGHT", "ACCEPTED", "REJECTED",
              "FAILED_RETRYABLE", "UNKNOWN"}
Terminal  == {"ACCEPTED", "REJECTED"}

Allowed(s) == CASE s = "PENDING"          -> {"IN_FLIGHT", "FAILED_RETRYABLE", "UNKNOWN"}
                [] s = "IN_FLIGHT"        -> {"ACCEPTED", "REJECTED", "FAILED_RETRYABLE", "UNKNOWN"}
                [] s = "FAILED_RETRYABLE" -> {"PENDING", "REJECTED"}
                [] s = "UNKNOWN"          -> {"ACCEPTED", "REJECTED", "FAILED_RETRYABLE", "PENDING"}
                [] OTHER                  -> {}

\* validate_transition: writing the state a row already has is a no-op.
Legal(from, to) == from = to \/ to \in Allowed(from)

\* Seeded faults of the retry policy: one attempt too many; an unknown outcome
\* is sent again without asking; an IN_FLIGHT row is left to its dead owner.
RetryDecision_OffByOne(s, n) ==
    IF s \in Terminal                      THEN "DO_NOT_RETRY"
    ELSE IF s \in {"IN_FLIGHT", "UNKNOWN"} THEN "RECONCILE_FIRST"
    ELSE IF n <= RetryBudget               THEN "CAN_RETRY"
    ELSE "DO_NOT_RETRY"
RetryDecision_LeaveInFlight(s, n) ==
    IF s \in Terminal \cup {"IN_FLIGHT"} THEN "DO_NOT_RETRY"
    ELSE IF s = "UNKNOWN"                THEN "RECONCILE_FIRST"
    ELSE IF n < RetryBudget              THEN "CAN_RETRY"
    ELSE "DO_NOT_RETRY"

\* compute_retry_decision
RetryDecision(s, n) ==
    IF s \in Terminal                      THEN "DO_NOT_RETRY"
    ELSE IF s \in {"IN_FLIGHT", "UNKNOWN"} THEN "RECONCILE_FIRST"
    ELSE IF n < RetryBudget                THEN "CAN_RETRY"
    ELSE "DO_NOT_RETRY"

Unfinished == {r \in Requests : state[r] \notin Terminal \cup {"ABSENT"}}

Snapshot == [r \in Requests |-> [state |-> state[r], attempts |-> attempts[r]]]
NoSnapshot == [r \in Requests |-> [state |-> "ABSENT", attempts |-> 0]]

Init == /\ state      = [r \in Requests |-> "ABSENT"]
        /\ attempts   = [r \in Requests |-> 0]
        /\ evidence   = {}
        /\ attemptLog = {}
        /\ pc = "idle" /\ todo = {} /\ seen = NoSnapshot
        /\ cur = NoRequest /\ verdict = "UNKNOWN" /\ aborted = FALSE
        /\ sends     = [r \in Requests |-> 0]
        /\ transit   = [r \in Requests |-> 0]
        /\ delivered = [r \in Requests |-> 0]
        /\ premature = [r \in Requests |-> 0]
        /\ crashes = 0

-----------------------------------------------------------------------------
(* The backend.                                                            *)

\* Seeded fault: recording a request again replaces the row.
RecordRequest_Replace(r) ==
    /\ state[r] # "PENDING"
    /\ state' = [state EXCEPT ![r] = "PENDING"]
    /\ UNCHANGED <<attempts, evidence, attemptLog, process, provider, crashes>>

\* record_request with PENDING; recording the same bytes again changes nothing.
RecordRequest(r) ==
    /\ state[r] = "ABSENT"
    /\ state' = [state EXCEPT ![r] = "PENDING"]
    /\ UNCHANGED <<attempts, evidence, attemptLog, process, provider, crashes>>

\* set_lifecycle_state, and where the pass goes on: an illegal transition
\* raises ValueError, which nothing in the pass catches.
SetLifecycleState(r, new, next) ==
    \/ /\ Legal(state[r], new)
       /\ state' = [state EXCEPT ![r] = new]
       /\ pc' = next
       /\ UNCHANGED <<todo, seen, aborted>>
    \/ /\ ~Legal(state[r], new)
       /\ pc' = "idle" /\ todo' = {} /\ seen' = NoSnapshot /\ aborted' = TRUE
       /\ UNCHANGED state

\* record_attempt: for these rows an existing attempt id is left as it is.
RecordAttempt(r, n, outcome) ==
    attemptLog' = IF \E a \in attemptLog : a.request = r /\ a.attempt = n
                    THEN attemptLog
                    ELSE attemptLog \cup {[request |-> r, attempt |-> n, outcome |-> outcome]}

-----------------------------------------------------------------------------
(* DaemonPass.run and _drive_one.                                          *)

\* run() reads the unfinished rows once, and drives what it read.
StartPass ==
    /\ pc = "idle"
    /\ Unfinished # {}
    /\ pc' = "scan" /\ todo' = Unfinished /\ seen' = Snapshot
    /\ UNCHANGED <<durable, cur, verdict, aborted, provider, crashes>>

EndPass ==
    /\ pc = "scan" /\ todo = {}
    /\ pc' = "idle" /\ seen' = NoSnapshot /\ cur' = NoRequest
    /\ UNCHANGED <<durable, todo, verdict, aborted, provider, crashes>>

\* The next row in request_id order.
IsNext(r) == pc = "scan" /\ r \in todo /\ \A q \in todo : r <= q

Decision(r) == RetryDecision(seen[r].state, seen[r].attempts)

Skip(r) ==
    /\ IsNext(r)
    /\ r \in Surface \/ Decision(r) = "DO_NOT_RETRY"
    /\ todo' = todo \ {r}
    /\ UNCHANGED <<durable, pc, seen, cur, verdict, aborted, provider, crashes>>

\* Seeded fault: a failed row is launched without the detour through PENDING.
BeginRetry_Direct(r) ==
    /\ IsNext(r)
    /\ r \notin Surface /\ Decision(r) = "CAN_RETRY"
    /\ pc' = "launch"
    /\ todo' = todo \ {r} /\ cur' = r
    /\ UNCHANGED <<durable, seen, verdict, aborted, provider, crashes>>

\* CAN_RETRY: a row that failed goes back to PENDING before it is launched.
BeginRetry(r) ==
    /\ IsNext(r)
    /\ r \notin Surface /\ Decision(r) = "CAN_RETRY"
    /\ pc' = IF seen[r].state = "FAILED_RETRYABLE" THEN "rearm" ELSE "launch"
    /\ todo' = todo \ {r} /\ cur' = r
    /\ UNCHANGED <<durable, seen, verdict, aborted, provider, crashes>>

Rearm ==
    /\ pc = "rearm"
    /\ SetLifecycleState(cur, "PENDING", "launch")
    /\ UNCHANGED <<attempts, evidence, attemptLog, cur, verdict, provider, crashes>>

Launch ==
    /\ pc = "launch"
    /\ SetLifecycleState(cur, "IN_FLIGHT", "count")
    /\ UNCHANGED <<attempts, evidence, attemptLog, cur, verdict, provider, crashes>>

IncrementAttempt ==
    /\ pc = "count"
    /\ attempts' = [attempts EXCEPT ![cur] = @ + 1]
    /\ pc' = "log"
    /\ UNCHANGED <<state, evidence, attemptLog, todo, seen, cur, verdict, aborted,
                   provider, crashes>>

\* Seeded fault: the attempt is logged under the count read before.
LogAttempt_OldCount ==
    /\ pc = "log"
    /\ RecordAttempt(cur, attempts[cur] - 1, "IN_FLIGHT")
    /\ pc' = "send"
    /\ UNCHANGED <<state, attempts, evidence, todo, seen, cur, verdict, aborted,
                   provider, crashes>>

LogAttempt ==
    /\ pc = "log"
    /\ RecordAttempt(cur, attempts[cur], "IN_FLIGHT")
    /\ pc' = "send"
    /\ UNCHANGED <<state, attempts, evidence, todo, seen, cur, verdict, aborted,
                   provider, crashes>>

\* port.deliver is called: a copy leaves the process.
Deliver ==
    /\ pc = "send"
    /\ sends'   = [sends EXCEPT ![cur] = @ + 1]
    /\ transit' = [transit EXCEPT ![cur] = @ + 1]
    /\ pc' = "wait"
    /\ UNCHANGED <<durable, todo, seen, cur, verdict, aborted, delivered, premature, crashes>>

\* Seeded fault: an unknown outcome counts as a failed attempt.
CarrierReturns_UnknownFails ==
    /\ pc = "wait"
    /\ \/ /\ delivered[cur] > 0
          /\ verdict' = "ACCEPTED" /\ pc' = "receipt"
       \/ /\ delivered[cur] = 0 /\ transit[cur] = 0
          /\ verdict' = "REJECTED" /\ pc' = "conclude"
       \/ /\ verdict' = "FAILED_RETRYABLE" /\ pc' = "conclude"
    /\ UNCHANGED <<durable, todo, seen, cur, aborted, provider, crashes>>

\* Seeded fault: the state is written before the receipt.
CarrierReturns_StateFirst ==
    /\ pc = "wait"
    /\ \/ /\ delivered[cur] > 0
          /\ verdict' = "ACCEPTED"
       \/ /\ delivered[cur] = 0 /\ transit[cur] = 0
          /\ verdict' = "REJECTED"
       \/ verdict' = "UNKNOWN"
    /\ pc' = "conclude"
    /\ UNCHANGED <<durable, todo, seen, cur, aborted, provider, crashes>>

\* port.deliver returns. SENT and UNSENT are truthful; UNKNOWN (or an
\* exception) is possible at any time.
CarrierReturns ==
    /\ pc = "wait"
    /\ \/ /\ delivered[cur] > 0
          /\ verdict' = "ACCEPTED" /\ pc' = "receipt"
       \/ /\ delivered[cur] = 0 /\ transit[cur] = 0
          /\ verdict' = "REJECTED" /\ pc' = "conclude"
       \/ /\ verdict' = "UNKNOWN" /\ pc' = "conclude"
    /\ UNCHANGED <<durable, todo, seen, cur, aborted, provider, crashes>>

\* record_receipt precedes the state change; a collision is swallowed.
RecordReceipt ==
    /\ pc = "receipt"
    /\ evidence' = evidence \cup {cur}
    /\ pc' = "conclude"
    /\ UNCHANGED <<state, attempts, attemptLog, todo, seen, cur, verdict, aborted,
                   provider, crashes>>

Conclude ==
    /\ pc = "conclude"
    /\ SetLifecycleState(cur, verdict, "close")
    /\ UNCHANGED <<attempts, evidence, attemptLog, cur, verdict, provider, crashes>>

\* The second record_attempt, under the attempt id of the first.
CloseAttempt ==
    /\ pc = "close"
    /\ RecordAttempt(cur, attempts[cur], verdict)
    /\ pc' = "scan" /\ cur' = NoRequest /\ verdict' = "UNKNOWN"
    /\ UNCHANGED <<state, attempts, evidence, todo, seen, aborted, provider, crashes>>

\* RECONCILE_FIRST. A negative answer (Retryable, Reject, NotFound) is truthful
\* when it is given, but a copy may still be on its way.
Reconcile(r) ==
    /\ IsNext(r)
    /\ r \notin Surface /\ Decision(r) = "RECONCILE_FIRST"
    /\ todo' = todo \ {r} /\ cur' = r
    /\ \/ /\ delivered[r] > 0
          /\ verdict' = "ACCEPTED" /\ pc' = "ref"
          /\ UNCHANGED premature
       \/ /\ delivered[r] = 0
          /\ verdict' \in {"FAILED_RETRYABLE", "REJECTED"} /\ pc' = "resolve"
          /\ premature' = [premature EXCEPT ![r] = @ + transit[r]]
    /\ UNCHANGED <<durable, seen, aborted, sends, transit, delivered, crashes>>

\* ResolvedUnknown: the row keeps its state and is not sent again.
ReconcileUnknown(r) ==
    /\ IsNext(r)
    /\ r \notin Surface /\ Decision(r) = "RECONCILE_FIRST"
    /\ todo' = todo \ {r}
    /\ UNCHANGED <<durable, pc, seen, cur, verdict, aborted, provider, crashes>>

RecordProviderReceiptRef ==
    /\ pc = "ref"
    /\ evidence' = evidence \cup {cur}
    /\ pc' = "resolve"
    /\ UNCHANGED <<state, attempts, attemptLog, todo, seen, cur, verdict, aborted,
                   provider, crashes>>

Resolve ==
    /\ pc = "resolve"
    /\ SetLifecycleState(cur, verdict, "scan")
    /\ cur' = NoRequest /\ verdict' = "UNKNOWN"
    /\ UNCHANGED <<attempts, evidence, attemptLog, provider, crashes>>

-----------------------------------------------------------------------------
(* The environment.                                                        *)

\* The process dies; what it had committed and what it had sent stays.
Crash ==
    /\ pc # "idle" /\ crashes < MaxCrashes
    /\ crashes' = crashes + 1
    /\ pc' = "idle" /\ todo' = {} /\ seen' = NoSnapshot
    /\ cur' = NoRequest /\ verdict' = "UNKNOWN"
    /\ UNCHANGED <<durable, aborted, provider>>

\* The provider hands a copy to the recipient, or drops it.
Land(r) ==
    /\ transit[r] > 0
    /\ transit' = [transit EXCEPT ![r] = @ - 1]
    /\ delivered' = [delivered EXCEPT ![r] = @ + 1]
    /\ UNCHANGED <<durable, process, sends, premature, crashes>>

Drop(r) ==
    /\ transit[r] > 0
    /\ transit' = [transit EXCEPT ![r] = @ - 1]
    /\ UNCHANGED <<durable, process, sends, delivered, premature, crashes>>

-----------------------------------------------------------------------------
Drive == Rearm \/ Launch \/ IncrementAttempt \/ LogAttempt \/ Deliver
           \/ CarrierReturns \/ RecordReceipt \/ Conclude \/ CloseAttempt
           \/ RecordProviderReceiptRef \/ Resolve

Daemon == \/ StartPass \/ EndPass \/ Drive
          \/ \E r \in Requests :
                Skip(r) \/ BeginRetry(r) \/ Reconcile(r) \/ ReconcileUnknown(r)

Next == \/ Daemon
        \/ Crash
        \/ \E r \in Requests : RecordRequest(r) \/ Land(r) \/ Drop(r)

Spec == Init /\ [][Next]_vars

\* Passes are run again and again and a pass does not stop half-way; the
\* provider has a lookup that does not answer "unknown" forever.
Fairness == /\ WF_vars(Daemon)
            /\ \A r \in Requests : SF_vars(Reconcile(r))

FairSpec == Spec /\ Fairness
=============================================================================
