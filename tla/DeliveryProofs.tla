--------------------------- MODULE DeliveryProofs ---------------------------
(***************************************************************************)
(* Theorems about DeliveryDaemon, for any number of requests, any retry    *)
(* budget and any number of crashes. The inductive invariant has three     *)
(* layers: where the pass is and what it read (ControlInv), how attempts   *)
(* are counted (BudgetInv), and what is known of the copies (CopiesInv);   *)
(* the second and the third each rest on the first.                        *)
(***************************************************************************)
EXTENDS DeliverySafety, TLAPS

\* The value of cur between two requests is not a request.
LEMMA NoRequestIsNone == NoRequest \notin Requests
  BY DEF NoRequest, Requests

-----------------------------------------------------------------------------
(* The control of a pass.                                                  *)

\* The control invariant holds when the program starts.
LEMMA InitControl == Init => ControlInv
<1> SUFFICES ASSUME Init PROVE ControlInv
  OBVIOUS
<1>1. TypeOK
  BY DEF Init, TypeOK, Lifecycle, PCs, NoSnapshot
<1>2. SnapshotFresh /\ ControlState /\ PassNeverAborts
  BY DEF Init, SnapshotFresh, ControlState, PassNeverAborts
<1> QED BY <1>1, <1>2 DEF ControlInv

\* What compute_retry_decision's answers say of the row they were asked about.
LEMMA RetryDecisionMeaning ==
    ASSUME NEW s \in Lifecycle, NEW n \in Nat
    PROVE  /\ RetryDecision(s, n) = "CAN_RETRY"
                => s \in {"PENDING", "FAILED_RETRYABLE"} /\ n < RetryBudget
           /\ RetryDecision(s, n) = "RECONCILE_FIRST" => s \in {"IN_FLIGHT", "UNKNOWN"}
  BY DEF RetryDecision, Lifecycle, Terminal

\* The transitions the pass writes are legal where it writes them.
LEMMA PlanIsLegal ==
    ASSUME ControlInv
    PROVE  /\ Rearm => /\ state' = [state EXCEPT ![cur] = "PENDING"]
                       /\ pc' = "launch" /\ UNCHANGED <<todo, seen, aborted>>
           /\ Launch => /\ state' = [state EXCEPT ![cur] = "IN_FLIGHT"]
                        /\ pc' = "count" /\ UNCHANGED <<todo, seen, aborted>>
           /\ Conclude => /\ state' = [state EXCEPT ![cur] = verdict]
                          /\ pc' = "close" /\ UNCHANGED <<todo, seen, aborted>>
           /\ Resolve => /\ state' = [state EXCEPT ![cur] = verdict]
                         /\ pc' = "scan" /\ UNCHANGED <<todo, seen, aborted>>
<1>1. ControlState
  BY DEF ControlInv
<1>2. Rearm => Legal(state[cur], "PENDING")
  BY <1>1 DEF Rearm, ControlState, Legal, Allowed
<1>3. Launch => Legal(state[cur], "IN_FLIGHT")
  BY <1>1 DEF Launch, ControlState, Legal, Allowed
<1>4. Conclude => Legal(state[cur], verdict)
  BY <1>1 DEF Conclude, ControlState, Legal, Allowed
<1>5. Resolve => Legal(state[cur], verdict)
  BY <1>1 DEF Resolve, ControlState, Legal, Allowed
<1> QED BY <1>2, <1>3, <1>4, <1>5 DEF Rearm, Launch, Conclude, Resolve,
    SetLifecycleState

\* Every step of the pass, of the carrier and of a crash keeps the control invariant:
\* the snapshot a pass works on stays true of the rows it has not reached.
LEMMA StepControl == ControlInv /\ [Next]_vars => ControlInv'
<1> SUFFICES ASSUME ControlInv, [Next]_vars PROVE ControlInv'
  OBVIOUS
<1>0. TypeOK /\ SnapshotFresh /\ ControlState /\ PassNeverAborts
  BY DEF ControlInv
<1> USE DeliveryAssumption, NoRequestIsNone DEF durable, process, provider
<1>1. ASSUME StartPass PROVE ControlInv'
  <2>1. TypeOK'
    BY <1>0, <1>1 DEF StartPass, Unfinished, Snapshot, TypeOK, PCs, NoSnapshot
  <2>2. SnapshotFresh'
    BY <1>1 DEF StartPass, Unfinished, Snapshot, SnapshotFresh
  <2>3. ControlState' /\ PassNeverAborts'
    BY <1>0, <1>1 DEF StartPass, ControlState, PassNeverAborts
  <2> QED BY <2>1, <2>2, <2>3 DEF ControlInv
<1>2. ASSUME EndPass PROVE ControlInv'
  <2>1. TypeOK'
    BY <1>0, <1>2 DEF EndPass, NoSnapshot, TypeOK, PCs
  <2>2. SnapshotFresh'
    BY <1>2 DEF EndPass, SnapshotFresh
  <2>3. ControlState' /\ PassNeverAborts'
    BY <1>0, <1>2 DEF EndPass, ControlState, PassNeverAborts
  <2> QED BY <2>1, <2>2, <2>3 DEF ControlInv
<1>3. ASSUME NEW r \in Requests, Skip(r) PROVE ControlInv'
  <2>1. TypeOK'
    BY <1>0, <1>3 DEF Skip, TypeOK, NoSnapshot
  <2>2. SnapshotFresh'
    BY <1>0, <1>3 DEF Skip, SnapshotFresh
  <2>3. ControlState' /\ PassNeverAborts'
    BY <1>0, <1>3 DEF Skip, ControlState, PassNeverAborts
  <2> QED BY <2>1, <2>2, <2>3 DEF ControlInv
<1>4. ASSUME NEW r \in Requests, BeginRetry(r) PROVE ControlInv'
  <2>1. TypeOK'
    BY <1>0, <1>4 DEF BeginRetry, TypeOK, PCs
  <2>2. SnapshotFresh'
    BY <1>0, <1>4 DEF BeginRetry, SnapshotFresh
  <2>3. ControlState' /\ PassNeverAborts'
    <3>1. state[r] = seen[r].state /\ state[r] \in {"PENDING", "FAILED_RETRYABLE"}
      BY <1>0, <1>4, RetryDecisionMeaning DEF BeginRetry, IsNext, Decision,
         SnapshotFresh, TypeOK
    <3> QED BY <1>0, <1>4, <3>1 DEF BeginRetry, ControlState, PassNeverAborts
  <2> QED BY <2>1, <2>2, <2>3 DEF ControlInv
<1>5. ASSUME NEW r \in Requests, Reconcile(r) PROVE ControlInv'
  <2>1. TypeOK'
    <3>1. premature' \in [Requests -> Nat]
      BY <1>0, <1>5 DEF Reconcile, TypeOK
    <3> QED BY <1>0, <1>5 DEF Reconcile, TypeOK, PCs, Lifecycle
  <2>2. SnapshotFresh'
    BY <1>0, <1>5 DEF Reconcile, SnapshotFresh
  <2>3. ControlState' /\ PassNeverAborts'
    BY <1>0, <1>5, RetryDecisionMeaning DEF Reconcile, IsNext, Decision, TypeOK,
       SnapshotFresh, ControlState, PassNeverAborts
  <2> QED BY <2>1, <2>2, <2>3 DEF ControlInv
<1>6. ASSUME NEW r \in Requests, ReconcileUnknown(r) PROVE ControlInv'
  <2>1. TypeOK'
    BY <1>0, <1>6 DEF ReconcileUnknown, TypeOK, NoSnapshot
  <2>2. SnapshotFresh'
    BY <1>0, <1>6 DEF ReconcileUnknown, SnapshotFresh
  <2>3. ControlState' /\ PassNeverAborts'
    BY <1>0, <1>6 DEF ReconcileUnknown, ControlState, PassNeverAborts
  <2> QED BY <2>1, <2>2, <2>3 DEF ControlInv
<1>7. ASSUME Rearm PROVE ControlInv'
  <2>1. TypeOK'
    BY <1>0, <1>7, PlanIsLegal DEF Rearm, TypeOK, PCs, Lifecycle, NoSnapshot
  <2>2. SnapshotFresh'
    BY <1>0, <1>7, PlanIsLegal DEF Rearm, TypeOK, SnapshotFresh, ControlState
  <2>3. ControlState' /\ PassNeverAborts'
    BY <1>0, <1>7, PlanIsLegal DEF Rearm, TypeOK, ControlState, PassNeverAborts
  <2> QED BY <2>1, <2>2, <2>3 DEF ControlInv
<1>8. ASSUME Launch PROVE ControlInv'
  <2>1. TypeOK'
    BY <1>0, <1>8, PlanIsLegal DEF Launch, TypeOK, PCs, Lifecycle, NoSnapshot
  <2>2. SnapshotFresh'
    BY <1>0, <1>8, PlanIsLegal DEF Launch, TypeOK, SnapshotFresh, ControlState
  <2>3. ControlState' /\ PassNeverAborts'
    BY <1>0, <1>8, PlanIsLegal DEF Launch, TypeOK, ControlState, PassNeverAborts
  <2> QED BY <2>1, <2>2, <2>3 DEF ControlInv
<1>9. ASSUME IncrementAttempt PROVE ControlInv'
  <2>1. TypeOK'
    <3>1. attempts' \in [Requests -> Nat]
      BY <1>0, <1>9 DEF IncrementAttempt, TypeOK, ControlState
    <3> QED BY <1>0, <1>9, <3>1 DEF IncrementAttempt, TypeOK, PCs
  <2>2. SnapshotFresh'
    BY <1>0, <1>9 DEF IncrementAttempt, SnapshotFresh, ControlState
  <2>3. ControlState' /\ PassNeverAborts'
    BY <1>0, <1>9 DEF IncrementAttempt, TypeOK, ControlState, PassNeverAborts
  <2> QED BY <2>1, <2>2, <2>3 DEF ControlInv
<1>10. ASSUME LogAttempt PROVE ControlInv'
  <2>1. TypeOK'
    <3>1. [request |-> cur, attempt |-> attempts[cur], outcome |-> "IN_FLIGHT"]
            \in [request : Requests, attempt : Nat \ {0}, outcome : Lifecycle]
      BY <1>0, <1>10 DEF LogAttempt, TypeOK, ControlState
    <3>2. attemptLog' \subseteq [request : Requests, attempt : Nat \ {0}, outcome : Lifecycle]
      BY <1>0, <1>10, <3>1 DEF LogAttempt, RecordAttempt, TypeOK
    <3> QED BY <1>0, <1>10, <3>2 DEF LogAttempt, TypeOK, PCs
  <2>2. SnapshotFresh'
    BY <1>0, <1>10 DEF LogAttempt, SnapshotFresh
  <2>3. ControlState' /\ PassNeverAborts'
    BY <1>0, <1>10 DEF LogAttempt, ControlState, PassNeverAborts
  <2> QED BY <2>1, <2>2, <2>3 DEF ControlInv
<1>11. ASSUME Deliver PROVE ControlInv'
  <2>1. TypeOK'
    <3>1. sends' \in [Requests -> Nat]
      BY <1>0, <1>11 DEF Deliver, TypeOK, ControlState
    <3>2. transit' \in [Requests -> Nat]
      BY <1>0, <1>11 DEF Deliver, TypeOK, ControlState
    <3> QED BY <1>0, <1>11, <3>1 DEF Deliver, TypeOK, PCs
  <2>2. SnapshotFresh'
    BY <1>0, <1>11 DEF Deliver, SnapshotFresh
  <2>3. ControlState' /\ PassNeverAborts'
    BY <1>0, <1>11 DEF Deliver, ControlState, PassNeverAborts
  <2> QED BY <2>1, <2>2, <2>3 DEF ControlInv
<1>12. ASSUME CarrierReturns PROVE ControlInv'
  <2>1. TypeOK'
    BY <1>0, <1>12 DEF CarrierReturns, TypeOK, PCs, Lifecycle, NoSnapshot
  <2>2. SnapshotFresh'
    BY <1>0, <1>12 DEF CarrierReturns, SnapshotFresh
  <2>3. ControlState' /\ PassNeverAborts'
    BY <1>0, <1>12 DEF CarrierReturns, ControlState, PassNeverAborts
  <2> QED BY <2>1, <2>2, <2>3 DEF ControlInv
<1>13. ASSUME RecordReceipt PROVE ControlInv'
  <2>1. TypeOK'
    BY <1>0, <1>13 DEF RecordReceipt, TypeOK, ControlState, PCs, NoSnapshot
  <2>2. SnapshotFresh'
    BY <1>0, <1>13 DEF RecordReceipt, SnapshotFresh
  <2>3. ControlState' /\ PassNeverAborts'
    BY <1>0, <1>13 DEF RecordReceipt, ControlState, PassNeverAborts
  <2> QED BY <2>1, <2>2, <2>3 DEF ControlInv
<1>14. ASSUME Conclude PROVE ControlInv'
  <2>1. TypeOK'
    BY <1>0, <1>14, PlanIsLegal DEF Conclude, TypeOK, PCs, NoSnapshot
  <2>2. SnapshotFresh'
    BY <1>0, <1>14, PlanIsLegal DEF Conclude, TypeOK, SnapshotFresh,
       ControlState
  <2>3. ControlState' /\ PassNeverAborts'
    BY <1>0, <1>14, PlanIsLegal DEF Conclude, ControlState, PassNeverAborts
  <2> QED BY <2>1, <2>2, <2>3 DEF ControlInv
<1>15. ASSUME CloseAttempt PROVE ControlInv'
  <2>1. TypeOK'
    <3>1. [request |-> cur, attempt |-> attempts[cur], outcome |-> verdict]
            \in [request : Requests, attempt : Nat \ {0}, outcome : Lifecycle]
      BY <1>0, <1>15 DEF CloseAttempt, TypeOK, ControlState
    <3>2. attemptLog' \subseteq [request : Requests, attempt : Nat \ {0}, outcome : Lifecycle]
      BY <1>0, <1>15, <3>1 DEF CloseAttempt, RecordAttempt, TypeOK
    <3> QED BY <1>0, <1>15, <3>2 DEF CloseAttempt, TypeOK, PCs, Lifecycle
  <2>2. SnapshotFresh'
    BY <1>0, <1>15 DEF CloseAttempt, SnapshotFresh
  <2>3. ControlState' /\ PassNeverAborts'
    BY <1>0, <1>15 DEF CloseAttempt, ControlState, PassNeverAborts
  <2> QED BY <2>1, <2>2, <2>3 DEF ControlInv
<1>16. ASSUME RecordProviderReceiptRef PROVE ControlInv'
  <2>1. TypeOK'
    BY <1>0, <1>16 DEF RecordProviderReceiptRef, TypeOK, ControlState, PCs,
       NoSnapshot
  <2>2. SnapshotFresh'
    BY <1>0, <1>16 DEF RecordProviderReceiptRef, SnapshotFresh
  <2>3. ControlState' /\ PassNeverAborts'
    BY <1>0, <1>16 DEF RecordProviderReceiptRef, ControlState, PassNeverAborts
  <2> QED BY <2>1, <2>2, <2>3 DEF ControlInv
<1>17. ASSUME Resolve PROVE ControlInv'
  <2>1. TypeOK'
    BY <1>0, <1>17, PlanIsLegal DEF Resolve, TypeOK, PCs, Lifecycle, NoSnapshot
  <2>2. SnapshotFresh'
    BY <1>0, <1>17, PlanIsLegal DEF Resolve, TypeOK, SnapshotFresh, ControlState
  <2>3. ControlState' /\ PassNeverAborts'
    BY <1>0, <1>17, PlanIsLegal DEF Resolve, ControlState, PassNeverAborts
  <2> QED BY <2>1, <2>2, <2>3 DEF ControlInv
<1>18. ASSUME Crash PROVE ControlInv'
  <2>1. TypeOK'
    <3>1. crashes' \in Nat
      BY <1>0, <1>18 DEF Crash, TypeOK
    <3> QED BY <1>0, <1>18 DEF Crash, NoSnapshot, TypeOK, PCs, Lifecycle
  <2>2. SnapshotFresh'
    BY <1>18 DEF Crash, SnapshotFresh
  <2>3. ControlState' /\ PassNeverAborts'
    BY <1>0, <1>18 DEF Crash, ControlState, PassNeverAborts
  <2> QED BY <2>1, <2>2, <2>3 DEF ControlInv
<1>19. ASSUME NEW r \in Requests, RecordRequest(r) PROVE ControlInv'
  <2>1. TypeOK'
    BY <1>0, <1>19 DEF RecordRequest, TypeOK, Lifecycle, NoSnapshot
  <2>2. SnapshotFresh'
    BY <1>0, <1>19 DEF RecordRequest, SnapshotFresh
  <2>3. ControlState' /\ PassNeverAborts'
    BY <1>0, <1>19 DEF RecordRequest, ControlState, PassNeverAborts
  <2> QED BY <2>1, <2>2, <2>3 DEF ControlInv
<1>20. ASSUME NEW r \in Requests, Land(r) PROVE ControlInv'
  <2>1. TypeOK'
    <3>1. transit' \in [Requests -> Nat]
      BY <1>0, <1>20 DEF Land, TypeOK
    <3>2. delivered' \in [Requests -> Nat]
      BY <1>0, <1>20 DEF Land, TypeOK
    <3> QED BY <1>0, <1>20 DEF Land, TypeOK
  <2>2. SnapshotFresh'
    BY <1>0, <1>20 DEF Land, SnapshotFresh
  <2>3. ControlState' /\ PassNeverAborts'
    BY <1>0, <1>20 DEF Land, ControlState, PassNeverAborts
  <2> QED BY <2>1, <2>2, <2>3 DEF ControlInv
<1>21. ASSUME NEW r \in Requests, Drop(r) PROVE ControlInv'
  <2>1. TypeOK'
    BY <1>0, <1>21 DEF Drop, TypeOK, NoSnapshot
  <2>2. SnapshotFresh'
    BY <1>0, <1>21 DEF Drop, SnapshotFresh
  <2>3. ControlState' /\ PassNeverAborts'
    BY <1>0, <1>21 DEF Drop, ControlState, PassNeverAborts
  <2> QED BY <2>1, <2>2, <2>3 DEF ControlInv
<1>22. CASE UNCHANGED vars
  BY <1>22 DEF vars, ControlInv, TypeOK, SnapshotFresh, ControlState,
     PassNeverAborts
<1> QED
  BY <1>1, <1>2, <1>3, <1>4, <1>5, <1>6, <1>7, <1>8, <1>9, <1>10, <1>11, <1>12,
     <1>13, <1>14, <1>15, <1>16, <1>17, <1>18, <1>19, <1>20, <1>21, <1>22 DEF
     Next, Daemon, Drive

-----------------------------------------------------------------------------
(* The budget.                                                             *)

\* Every step keeps the attempt counts of a row within what the budget leaves.
LEMMA StepBudget == ControlInv /\ BudgetInv /\ [Next]_vars => BudgetInv'
<1> SUFFICES ASSUME ControlInv, BudgetInv, [Next]_vars PROVE BudgetInv'
  OBVIOUS
<1>0. TypeOK /\ SnapshotFresh /\ ControlState /\ PassNeverAborts
  BY DEF ControlInv
<1> USE DeliveryAssumption, NoRequestIsNone DEF durable, process, provider
<1>1. ASSUME NEW r \in Requests, RecordRequest(r) \/ Land(r) \/ Drop(r) PROVE BudgetInv'
  <2>1. RoomForAttempt'
    BY <1>1 DEF RecordRequest, Land, Drop, BudgetInv, RoomForAttempt
  <2>2. BudgetAccounting'
    BY <1>1 DEF RecordRequest, Land, Drop, BudgetInv, BudgetAccounting, Uncalled
  <2> QED BY <2>1, <2>2 DEF BudgetInv
<1>2. ASSUME StartPass \/ EndPass PROVE BudgetInv'
  <2>1. RoomForAttempt'
    BY <1>2 DEF StartPass, EndPass, RoomForAttempt
  <2>2. BudgetAccounting'
    BY <1>2 DEF StartPass, EndPass, BudgetInv, BudgetAccounting, Uncalled
  <2> QED BY <2>1, <2>2 DEF BudgetInv
<1>3. ASSUME NEW r \in Requests, Skip(r) \/ ReconcileUnknown(r) \/ Reconcile(r) PROVE BudgetInv'
  <2>1. RoomForAttempt'
    BY <1>3 DEF Skip, ReconcileUnknown, Reconcile, IsNext, RoomForAttempt
  <2>2. BudgetAccounting'
    BY <1>3 DEF Skip, ReconcileUnknown, Reconcile, IsNext, BudgetInv,
       BudgetAccounting, Uncalled
  <2> QED BY <2>1, <2>2 DEF BudgetInv
<1>4. ASSUME NEW r \in Requests, BeginRetry(r) PROVE BudgetInv'
  <2>1. RoomForAttempt'
    BY <1>0, <1>4, RetryDecisionMeaning DEF BeginRetry, IsNext, Decision,
       TypeOK, SnapshotFresh, RoomForAttempt
  <2>2. BudgetAccounting'
    BY <1>4 DEF BeginRetry, IsNext, BudgetInv, BudgetAccounting, Uncalled
  <2> QED BY <2>1, <2>2 DEF BudgetInv
<1>5. ASSUME Rearm PROVE BudgetInv'
  <2>1. RoomForAttempt'
    BY <1>5, PlanIsLegal DEF Rearm, BudgetInv, RoomForAttempt
  <2>2. BudgetAccounting'
    BY <1>0, <1>5 DEF Rearm, BudgetInv, TypeOK, BudgetAccounting, Uncalled
  <2> QED BY <2>1, <2>2 DEF BudgetInv
<1>6. ASSUME Launch PROVE BudgetInv'
  <2>1. RoomForAttempt'
    BY <1>6, PlanIsLegal DEF Launch, BudgetInv, RoomForAttempt
  <2>2. BudgetAccounting'
    BY <1>0, <1>6 DEF Launch, BudgetInv, TypeOK, BudgetAccounting, Uncalled
  <2> QED BY <2>1, <2>2 DEF BudgetInv
<1>7. ASSUME IncrementAttempt PROVE BudgetInv'
  <2>1. RoomForAttempt'
    BY <1>0, <1>7 DEF IncrementAttempt, BudgetInv, TypeOK, ControlState,
       RoomForAttempt, BudgetAccounting
  <2>2. BudgetAccounting'
    <3> SUFFICES ASSUME NEW q \in Requests
                 PROVE  /\ sends'[q] <= attempts'[q]
                        /\ attempts'[q] <= RetryBudget
                        /\ attempts'[q] <= sends'[q] + Uncalled(q)' + crashes'
      BY DEF BudgetAccounting
    <3>1. /\ sends[q] <= attempts[q] /\ attempts[q] <= RetryBudget
          /\ attempts[q] <= sends[q] + Uncalled(q) + crashes
          /\ sends[q] \in Nat /\ attempts[q] \in Nat /\ crashes \in Nat
      BY <1>0 DEF BudgetInv, BudgetAccounting, TypeOK
    <3>2. CASE q = cur
      BY <1>7, <3>1 DEF IncrementAttempt, Uncalled, BudgetInv, RoomForAttempt
    <3>3. CASE q # cur
      BY <1>7, <3>1, <3>3 DEF IncrementAttempt, Uncalled
    <3> QED BY <3>2, <3>3
  <2> QED BY <2>1, <2>2 DEF BudgetInv
<1>8. ASSUME LogAttempt PROVE BudgetInv'
  <2>1. RoomForAttempt'
    BY <1>8 DEF LogAttempt, BudgetInv, RoomForAttempt
  <2>2. BudgetAccounting'
    BY <1>8 DEF LogAttempt, BudgetInv, BudgetAccounting, Uncalled
  <2> QED BY <2>1, <2>2 DEF BudgetInv
<1>9. ASSUME Deliver PROVE BudgetInv'
  <2>1. RoomForAttempt'
    BY <1>9 DEF Deliver, RoomForAttempt
  <2>2. BudgetAccounting'
    <3> SUFFICES ASSUME NEW q \in Requests
                 PROVE  /\ sends'[q] <= attempts'[q]
                        /\ attempts'[q] <= RetryBudget
                        /\ attempts'[q] <= sends'[q] + Uncalled(q)' + crashes'
      BY DEF BudgetAccounting
    <3>1. /\ sends[q] <= attempts[q] /\ attempts[q] <= RetryBudget
          /\ attempts[q] <= sends[q] + Uncalled(q) + crashes
          /\ sends[q] \in Nat /\ attempts[q] \in Nat /\ crashes \in Nat
      BY <1>0 DEF BudgetInv, BudgetAccounting, TypeOK
    <3>2. CASE q = cur
      BY <1>0, <1>9, <3>1 DEF Deliver, Uncalled, TypeOK, BudgetInv,
         RoomForAttempt
    <3>3. CASE q # cur
      BY <1>9, <3>1, <3>3 DEF Deliver, Uncalled
    <3> QED BY <3>2, <3>3
  <2> QED BY <2>1, <2>2 DEF BudgetInv
<1>10. ASSUME CarrierReturns PROVE BudgetInv'
  <2>1. RoomForAttempt'
    BY <1>10 DEF CarrierReturns, RoomForAttempt
  <2>2. BudgetAccounting'
    BY <1>10 DEF CarrierReturns, BudgetInv, BudgetAccounting, Uncalled
  <2> QED BY <2>1, <2>2 DEF BudgetInv
<1>11. ASSUME RecordReceipt \/ RecordProviderReceiptRef PROVE BudgetInv'
  <2>1. RoomForAttempt'
    BY <1>11 DEF RecordReceipt, RecordProviderReceiptRef, RoomForAttempt
  <2>2. BudgetAccounting'
    BY <1>11 DEF RecordReceipt, RecordProviderReceiptRef, BudgetInv,
       BudgetAccounting, Uncalled
  <2> QED BY <2>1, <2>2 DEF BudgetInv
<1>12. ASSUME CloseAttempt PROVE BudgetInv'
  <2>1. RoomForAttempt'
    BY <1>12 DEF CloseAttempt, RoomForAttempt
  <2>2. BudgetAccounting'
    BY <1>12 DEF CloseAttempt, BudgetInv, BudgetAccounting, Uncalled
  <2> QED BY <2>1, <2>2 DEF BudgetInv
<1>13. ASSUME Conclude PROVE BudgetInv'
  <2>1. RoomForAttempt'
    BY <1>13, PlanIsLegal DEF RoomForAttempt
  <2>2. BudgetAccounting'
    BY <1>0, <1>13 DEF Conclude, BudgetInv, TypeOK, BudgetAccounting, Uncalled
  <2> QED BY <2>1, <2>2 DEF BudgetInv
<1>14. ASSUME Resolve PROVE BudgetInv'
  <2>1. RoomForAttempt'
    BY <1>14, PlanIsLegal DEF RoomForAttempt
  <2>2. BudgetAccounting'
    BY <1>14 DEF Resolve, BudgetInv, BudgetAccounting, Uncalled
  <2> QED BY <2>1, <2>2 DEF BudgetInv
<1>15. ASSUME Crash PROVE BudgetInv'
  <2>1. RoomForAttempt'
    BY <1>15 DEF Crash, RoomForAttempt
  <2>2. BudgetAccounting'
    <3> SUFFICES ASSUME NEW q \in Requests
                 PROVE  /\ sends'[q] <= attempts'[q]
                        /\ attempts'[q] <= RetryBudget
                        /\ attempts'[q] <= sends'[q] + Uncalled(q)' + crashes'
      BY DEF BudgetAccounting
    <3>1. /\ sends[q] <= attempts[q] /\ attempts[q] <= RetryBudget
          /\ attempts[q] <= sends[q] + Uncalled(q) + crashes
          /\ sends[q] \in Nat /\ attempts[q] \in Nat /\ crashes \in Nat
      BY <1>0 DEF BudgetInv, BudgetAccounting, TypeOK
    <3>2. CASE q = cur
      BY <1>15, <3>1 DEF Crash, Uncalled
    <3>3. CASE q # cur
      BY <1>15, <3>1 DEF Crash, Uncalled
    <3> QED BY <3>2, <3>3
  <2> QED BY <2>1, <2>2 DEF BudgetInv
<1>16. CASE UNCHANGED vars
  BY <1>16 DEF vars, BudgetInv, RoomForAttempt, BudgetAccounting, Uncalled
<1> QED
  BY <1>1, <1>2, <1>3, <1>4, <1>5, <1>6, <1>7, <1>8, <1>9, <1>10, <1>11, <1>12,
     <1>13, <1>14, <1>15, <1>16 DEF Next, Daemon, Drive

-----------------------------------------------------------------------------
(* The copies.                                                             *)

\* Every step keeps what the rows and the daemon say of the copies true.
LEMMA StepCopies == ControlInv /\ CopiesInv /\ [Next]_vars => CopiesInv'
<1> SUFFICES ASSUME ControlInv, CopiesInv, [Next]_vars PROVE CopiesInv'
  OBVIOUS
<1>0. TypeOK /\ SnapshotFresh /\ ControlState /\ PassNeverAborts
  BY DEF ControlInv
<1> USE DeliveryAssumption, NoRequestIsNone DEF durable, process, provider
<1>1. ASSUME NEW r \in Requests, RecordRequest(r) PROVE CopiesInv'
  <2>1. CopiesOfDriven'
    BY <1>1 DEF RecordRequest, CopiesInv, CopiesOfDriven
  <2>2. DuplicatesNeedPrematureAnswers'
    BY <1>1 DEF RecordRequest, CopiesInv, DuplicatesNeedPrematureAnswers
  <2>3. LabelsAreTrue'
    BY <1>1 DEF RecordRequest, CopiesInv, LabelsAreTrue
  <2> QED BY <2>1, <2>2, <2>3 DEF CopiesInv
<1>2. ASSUME NEW r \in Requests, Land(r) \/ Drop(r) PROVE CopiesInv'
  <2>1. ASSUME NEW q \in Requests
        PROVE  /\ delivered'[q] + transit'[q] <= delivered[q] + transit[q]
               /\ delivered'[q] >= delivered[q]
               /\ delivered'[q] \in Nat /\ transit'[q] \in Nat
               /\ delivered[q] \in Nat /\ transit[q] \in Nat /\ premature[q] \in Nat
    BY <1>0, <1>2 DEF Land, Drop, TypeOK
  <2>2. UNCHANGED <<state, evidence, pc, cur, verdict, premature>>
    BY <1>2 DEF Land, Drop
  <2>3. CopiesOfDriven'
    BY <1>0, <2>1, <2>2 DEF CopiesInv, CopiesOfDriven, ControlState
  <2>4. DuplicatesNeedPrematureAnswers'
    BY <2>1, <2>2 DEF CopiesInv, DuplicatesNeedPrematureAnswers
  <2>5. LabelsAreTrue'
    BY <2>1, <2>2 DEF CopiesInv, LabelsAreTrue
  <2> QED BY <2>3, <2>4, <2>5 DEF CopiesInv
<1>3. ASSUME StartPass \/ EndPass PROVE CopiesInv'
  <2>1. CopiesOfDriven'
    BY <1>3 DEF StartPass, EndPass, CopiesOfDriven
  <2>2. DuplicatesNeedPrematureAnswers'
    BY <1>3 DEF StartPass, EndPass, CopiesInv, DuplicatesNeedPrematureAnswers
  <2>3. LabelsAreTrue'
    BY <1>3 DEF StartPass, EndPass, CopiesInv, LabelsAreTrue
  <2> QED BY <2>1, <2>2, <2>3 DEF CopiesInv
<1>4. ASSUME NEW r \in Requests, Skip(r) \/ ReconcileUnknown(r) PROVE CopiesInv'
  <2>1. CopiesOfDriven'
    BY <1>4 DEF Skip, ReconcileUnknown, IsNext, CopiesOfDriven
  <2>2. DuplicatesNeedPrematureAnswers'
    BY <1>4 DEF Skip, ReconcileUnknown, CopiesInv,
       DuplicatesNeedPrematureAnswers
  <2>3. LabelsAreTrue'
    BY <1>4 DEF Skip, ReconcileUnknown, CopiesInv, LabelsAreTrue
  <2> QED BY <2>1, <2>2, <2>3 DEF CopiesInv
<1>5. ASSUME NEW r \in Requests, Reconcile(r) PROVE CopiesInv'
  <2>1. CopiesOfDriven'
    BY <1>0, <1>5 DEF Reconcile, TypeOK, CopiesOfDriven
  <2>2. DuplicatesNeedPrematureAnswers'
    <3> SUFFICES ASSUME NEW q \in Requests
                 PROVE  delivered'[q] + transit'[q] <= 1 + premature'[q]
      BY DEF DuplicatesNeedPrematureAnswers
    <3>1. /\ delivered[q] + transit[q] <= 1 + premature[q]
          /\ delivered[q] \in Nat /\ transit[q] \in Nat /\ premature[q] \in Nat
      BY <1>0 DEF CopiesInv, DuplicatesNeedPrematureAnswers, TypeOK
    <3> QED BY <1>0, <1>5, <3>1 DEF Reconcile, TypeOK
  <2>3. LabelsAreTrue'
    BY <1>0, <1>5 DEF Reconcile, CopiesInv, TypeOK, LabelsAreTrue
  <2> QED BY <2>1, <2>2, <2>3 DEF CopiesInv
<1>6. ASSUME NEW r \in Requests, BeginRetry(r) PROVE CopiesInv'
  <2>1. CopiesOfDriven'
    BY <1>6 DEF BeginRetry, CopiesOfDriven
  <2>2. DuplicatesNeedPrematureAnswers'
    BY <1>6 DEF BeginRetry, CopiesInv, DuplicatesNeedPrematureAnswers
  <2>3. LabelsAreTrue'
    BY <1>6 DEF BeginRetry, CopiesInv, LabelsAreTrue
  <2> QED BY <2>1, <2>2, <2>3 DEF CopiesInv
<1>7. ASSUME Rearm PROVE CopiesInv'
  <2>1. CopiesOfDriven'
    BY <1>7, PlanIsLegal DEF CopiesOfDriven
  <2>2. DuplicatesNeedPrematureAnswers'
    BY <1>7 DEF Rearm, CopiesInv, DuplicatesNeedPrematureAnswers
  <2>3. LabelsAreTrue'
    BY <1>0, <1>7, PlanIsLegal DEF Rearm, CopiesInv, TypeOK, ControlState,
       LabelsAreTrue
  <2> QED BY <2>1, <2>2, <2>3 DEF CopiesInv
<1>8. ASSUME Launch PROVE CopiesInv'
  <2>1. CopiesOfDriven'
    BY <1>0, <1>8, PlanIsLegal DEF Launch, CopiesInv, ControlState,
       CopiesOfDriven, LabelsAreTrue
  <2>2. DuplicatesNeedPrematureAnswers'
    BY <1>8 DEF Launch, CopiesInv, DuplicatesNeedPrematureAnswers
  <2>3. LabelsAreTrue'
    BY <1>0, <1>8, PlanIsLegal DEF Launch, CopiesInv, TypeOK, LabelsAreTrue
  <2> QED BY <2>1, <2>2, <2>3 DEF CopiesInv
<1>9. ASSUME IncrementAttempt \/ LogAttempt PROVE CopiesInv'
  <2>1. CopiesOfDriven'
    BY <1>9 DEF IncrementAttempt, LogAttempt, CopiesInv, CopiesOfDriven
  <2>2. DuplicatesNeedPrematureAnswers'
    BY <1>9 DEF IncrementAttempt, LogAttempt, CopiesInv,
       DuplicatesNeedPrematureAnswers
  <2>3. LabelsAreTrue'
    BY <1>9 DEF IncrementAttempt, LogAttempt, CopiesInv, LabelsAreTrue
  <2> QED BY <2>1, <2>2, <2>3 DEF CopiesInv
<1>10. ASSUME Deliver PROVE CopiesInv'
  <2>1. CopiesOfDriven'
    BY <1>10 DEF Deliver, CopiesOfDriven
  <2>2. DuplicatesNeedPrematureAnswers'
    <3> SUFFICES ASSUME NEW q \in Requests
                 PROVE  delivered'[q] + transit'[q] <= 1 + premature'[q]
      BY DEF DuplicatesNeedPrematureAnswers
    <3>1. /\ delivered[q] + transit[q] <= 1 + premature[q]
          /\ delivered[q] \in Nat /\ transit[q] \in Nat /\ premature[q] \in Nat
      BY <1>0 DEF CopiesInv, DuplicatesNeedPrematureAnswers, TypeOK
    <3> QED BY <1>10, <3>1 DEF Deliver, CopiesInv, CopiesOfDriven
  <2>3. LabelsAreTrue'
    BY <1>0, <1>10 DEF Deliver, CopiesInv, ControlState, LabelsAreTrue
  <2> QED BY <2>1, <2>2, <2>3 DEF CopiesInv
<1>11. ASSUME CarrierReturns PROVE CopiesInv'
  <2>1. CopiesOfDriven'
    <3>1. /\ delivered[cur] \in Nat /\ transit[cur] \in Nat /\ premature[cur] \in Nat
          /\ UNCHANGED <<cur, delivered, transit, premature, evidence>>
      BY <1>0, <1>11 DEF CarrierReturns, TypeOK, ControlState
    <3>2. CASE verdict' = "ACCEPTED"
      BY <1>11, <3>1 DEF CarrierReturns, CopiesOfDriven
    <3>3. CASE verdict' = "REJECTED"
      BY <1>11, <3>1 DEF CarrierReturns, CopiesOfDriven
    <3>4. CASE verdict' = "UNKNOWN"
      BY <1>11, <3>1 DEF CarrierReturns, CopiesOfDriven
    <3> QED BY <1>11, <3>2, <3>3, <3>4 DEF CarrierReturns
  <2>2. DuplicatesNeedPrematureAnswers'
    BY <1>11 DEF CarrierReturns, CopiesInv, DuplicatesNeedPrematureAnswers
  <2>3. LabelsAreTrue'
    BY <1>11 DEF CarrierReturns, CopiesInv, LabelsAreTrue
  <2> QED BY <2>1, <2>2, <2>3 DEF CopiesInv
<1>12. ASSUME RecordReceipt \/ RecordProviderReceiptRef PROVE CopiesInv'
  <2>1. CopiesOfDriven'
    BY <1>0, <1>12 DEF RecordReceipt, RecordProviderReceiptRef, CopiesInv,
       ControlState, CopiesOfDriven
  <2>2. DuplicatesNeedPrematureAnswers'
    BY <1>12 DEF RecordReceipt, RecordProviderReceiptRef, CopiesInv,
       DuplicatesNeedPrematureAnswers
  <2>3. LabelsAreTrue'
    BY <1>12 DEF RecordReceipt, RecordProviderReceiptRef, CopiesInv,
       LabelsAreTrue
  <2> QED BY <2>1, <2>2, <2>3 DEF CopiesInv
<1>13. ASSUME CloseAttempt PROVE CopiesInv'
  <2>1. CopiesOfDriven'
    BY <1>13 DEF CloseAttempt, CopiesOfDriven
  <2>2. DuplicatesNeedPrematureAnswers'
    BY <1>13 DEF CloseAttempt, CopiesInv, DuplicatesNeedPrematureAnswers
  <2>3. LabelsAreTrue'
    BY <1>13 DEF CloseAttempt, CopiesInv, LabelsAreTrue
  <2> QED BY <2>1, <2>2, <2>3 DEF CopiesInv
<1>14. ASSUME Conclude PROVE CopiesInv'
  <2>1. CopiesOfDriven'
    BY <1>14, PlanIsLegal DEF CopiesOfDriven
  <2>2. DuplicatesNeedPrematureAnswers'
    BY <1>14 DEF Conclude, CopiesInv, DuplicatesNeedPrematureAnswers
  <2>3. LabelsAreTrue'
    BY <1>0, <1>14, PlanIsLegal DEF Conclude, CopiesInv, TypeOK, ControlState,
       CopiesOfDriven, LabelsAreTrue
  <2> QED BY <2>1, <2>2, <2>3 DEF CopiesInv
<1>15. ASSUME Resolve PROVE CopiesInv'
  <2>1. CopiesOfDriven'
    BY <1>15, PlanIsLegal DEF CopiesOfDriven
  <2>2. DuplicatesNeedPrematureAnswers'
    BY <1>15 DEF Resolve, CopiesInv, DuplicatesNeedPrematureAnswers
  <2>3. LabelsAreTrue'
    BY <1>0, <1>15, PlanIsLegal DEF Resolve, CopiesInv, TypeOK, ControlState,
       CopiesOfDriven, LabelsAreTrue
  <2> QED BY <2>1, <2>2, <2>3 DEF CopiesInv
<1>16. ASSUME Crash PROVE CopiesInv'
  <2>1. CopiesOfDriven'
    BY <1>16 DEF Crash, CopiesOfDriven
  <2>2. DuplicatesNeedPrematureAnswers'
    BY <1>16 DEF Crash, CopiesInv, DuplicatesNeedPrematureAnswers
  <2>3. LabelsAreTrue'
    BY <1>16 DEF Crash, CopiesInv, LabelsAreTrue
  <2> QED BY <2>1, <2>2, <2>3 DEF CopiesInv
<1>17. CASE UNCHANGED vars
  BY <1>17 DEF vars, CopiesInv, CopiesOfDriven, DuplicatesNeedPrematureAnswers,
     LabelsAreTrue, Terminal, Lifecycle
<1> QED
  BY <1>1, <1>2, <1>3, <1>4, <1>5, <1>6, <1>7, <1>8, <1>9, <1>10, <1>11, <1>12,
     <1>13, <1>14, <1>15, <1>16, <1>17 DEF Next, Daemon, Drive

-----------------------------------------------------------------------------
(* The theorems.                                                           *)

\* The whole invariant holds when the program starts.
LEMMA InitDelivery == Init => DeliveryInv
<1> SUFFICES ASSUME Init PROVE DeliveryInv
  OBVIOUS
<1>1. ControlInv
  BY InitControl
<1>2. BudgetInv
  BY DeliveryAssumption DEF DeliveryAssumption, Init, BudgetInv, RoomForAttempt,
     BudgetAccounting, Uncalled
<1>3. CopiesInv
  BY DEF Init, CopiesInv, CopiesOfDriven, DuplicatesNeedPrematureAnswers,
     LabelsAreTrue
<1> QED BY <1>1, <1>2, <1>3 DEF DeliveryInv

\* The three layers hold in every state of every run.
THEOREM DeliveryInvariant == Spec => []DeliveryInv
<1>1. Init => DeliveryInv
  BY InitDelivery
<1>2. DeliveryInv /\ [Next]_vars => DeliveryInv'
  BY StepControl, StepBudget, StepCopies DEF DeliveryInv
<1> QED BY <1>1, <1>2, PTL DEF Spec

\* The rows and the pass keep their types.
THEOREM TypeCorrect == Spec => []TypeOK
<1>1. DeliveryInv => TypeOK
  BY DEF DeliveryInv, ControlInv
<1> QED BY <1>1, DeliveryInvariant, PTL

\* Carrier calls stay within the durable count and the count within the budget.
THEOREM BudgetIsKept == Spec => []BudgetAccounting
<1>1. DeliveryInv => BudgetAccounting
  BY DEF DeliveryInv, BudgetInv
<1> QED BY <1>1, DeliveryInvariant, PTL

\* A second copy needs a negative answer that overlooked the first.
THEOREM AtMostOncePerAnswer == Spec => []DuplicatesNeedPrematureAnswers
<1>1. DeliveryInv => DuplicatesNeedPrematureAnswers
  BY DEF DeliveryInv, CopiesInv
<1> QED BY <1>1, DeliveryInvariant, PTL

\* ACCEPTED has a delivered copy and stored evidence behind it, and a row open
\* for sending has no copy out that was not overlooked, at every crash point.
THEOREM LabelsStayTrue == Spec => []LabelsAreTrue
<1>1. DeliveryInv => LabelsAreTrue
  BY DEF DeliveryInv, CopiesInv
<1> QED BY <1>1, DeliveryInvariant, PTL

\* No pass dies of an illegal transition.
THEOREM PassesComplete == Spec => []PassNeverAborts
<1>1. DeliveryInv => PassNeverAborts
  BY DEF DeliveryInv, ControlInv
<1> QED BY <1>1, DeliveryInvariant, PTL

-----------------------------------------------------------------------------
(* The daemon implements the contract.                                     *)

\* The daemon starts in an initial state of the contract.
LEMMA InitImplements == Init => C!Init
<1> SUFFICES ASSUME Init PROVE C!Init
  OBVIOUS
<1>1. phaseBar = [r \in Requests |-> "none"]
  BY DEF Init, phaseBar, Phase
<1>2. armedBar = [r \in Requests |-> FALSE]
  BY DEF Init, armedBar
<1> QED BY <1>1, <1>2 DEF Init, C!Init

\* What the mapping of a step comes to.
LEMMA PhaseOf ==
    /\ Phase("ABSENT") = "none"
    /\ Phase("PENDING") = "queued" /\ Phase("FAILED_RETRYABLE") = "queued"
    /\ Phase("IN_FLIGHT") = "open" /\ Phase("UNKNOWN") = "open"
    /\ Phase("ACCEPTED") = "delivered" /\ Phase("REJECTED") = "refused"
  BY DEF Phase

\* set_lifecycle_state on one row, seen from the contract.
LEMMA WriteState ==
    ASSUME NEW r \in Requests, NEW s \in Lifecycle, TypeOK,
           state' = [state EXCEPT ![r] = s]
    PROVE  phaseBar' = [phaseBar EXCEPT ![r] = Phase(s)]
  BY DEF phaseBar, TypeOK

\* Steps that write no row and stay on their side of the carrier call.
LEMMA Stutter ==
    ASSUME ControlInv, UNCHANGED <<state, sends>>,
           \/ UNCHANGED <<pc, cur>>
           \/ pc \notin {"count", "log", "send"} /\ pc' \notin {"count", "log", "send"}
           \/ pc \in {"count", "log", "send"} /\ pc' \in {"count", "log", "send"}
              /\ UNCHANGED cur
    PROVE  UNCHANGED C!contractVars
<1>1. phaseBar' = phaseBar
  BY DEF phaseBar
<1>2. armedBar' = armedBar
  BY DEF armedBar
<1> QED BY <1>1, <1>2 DEF C!contractVars

\* Every step of the daemon is a step of the contract or leaves its state alone.
LEMMA StepImplements ==
    DeliveryInv /\ [Next]_vars => [C!Next]_(C!contractVars)
<1> SUFFICES ASSUME DeliveryInv, [Next]_vars
             PROVE  C!Next \/ UNCHANGED C!contractVars
  OBVIOUS
<1>0. /\ ControlInv /\ BudgetInv
      /\ TypeOK /\ ControlState /\ RoomForAttempt /\ BudgetAccounting
  BY DEF DeliveryInv, ControlInv, BudgetInv
<1> USE NoRequestIsNone DEF durable, process, provider
<1>1. ASSUME NEW r \in Requests, RecordRequest(r) PROVE C!Enqueue(r)
  <2>1. phaseBar' = [phaseBar EXCEPT ![r] = "queued"]
    BY <1>0, <1>1, WriteState, PhaseOf DEF RecordRequest, Lifecycle
  <2>2. phaseBar[r] = "none"
    BY <1>1, PhaseOf DEF RecordRequest, phaseBar
  <2>3. UNCHANGED <<armedBar, sends>>
    BY <1>1 DEF RecordRequest, armedBar
  <2> QED BY <2>1, <2>2, <2>3 DEF C!Enqueue
<1>2. ASSUME Rearm PROVE UNCHANGED C!contractVars
  <2>1. cur \in Requests /\ state[cur] = "FAILED_RETRYABLE"
    BY <1>0, <1>2 DEF Rearm, ControlState
  <2>2. phaseBar' = [phaseBar EXCEPT ![cur] = "queued"]
    BY <1>0, <1>2, <2>1, PlanIsLegal, WriteState, PhaseOf DEF Lifecycle
  <2>3. phaseBar[cur] = "queued"
    BY <2>1, PhaseOf DEF phaseBar
  <2>4. phaseBar' = phaseBar
    BY <2>2, <2>3 DEF phaseBar
  <2>5. UNCHANGED <<armedBar, sends>>
    BY <1>0, <1>2, PlanIsLegal DEF Rearm, armedBar
  <2> QED BY <2>4, <2>5 DEF C!contractVars
<1>3. ASSUME Launch PROVE C!Open(cur)
  <2>1. cur \in Requests /\ state[cur] = "PENDING" /\ pc' = "count" /\ UNCHANGED cur
    BY <1>0, <1>3, PlanIsLegal DEF Launch, ControlState
  <2>2. phaseBar' = [phaseBar EXCEPT ![cur] = "open"]
    BY <1>0, <1>3, <2>1, PlanIsLegal, WriteState, PhaseOf DEF Lifecycle
  <2>3. phaseBar[cur] = "queued"
    BY <2>1, PhaseOf DEF phaseBar
  <2>4. sends[cur] < RetryBudget /\ UNCHANGED sends
    BY <1>0, <1>3, <2>1, DeliveryAssumption DEF DeliveryAssumption, Launch,
       TypeOK, RoomForAttempt, BudgetAccounting
  <2>5. armedBar' = [armedBar EXCEPT ![cur] = TRUE]
    BY <2>1 DEF armedBar
  <2> QED BY <2>2, <2>3, <2>4, <2>5 DEF C!Open
<1>4. ASSUME Deliver PROVE C!Transmit(cur)
  <2>1. cur \in Requests /\ state[cur] = "IN_FLIGHT" /\ pc = "send" /\ pc' = "wait"
    BY <1>0, <1>4 DEF Deliver, ControlState
  <2>2. phaseBar[cur] = "open" /\ UNCHANGED phaseBar
    BY <1>4, <2>1, PhaseOf DEF Deliver, phaseBar
  <2>3. armedBar[cur] /\ armedBar' = [armedBar EXCEPT ![cur] = FALSE]
    BY <2>1 DEF armedBar
  <2> QED BY <1>4, <2>2, <2>3 DEF Deliver, C!Transmit
<1>5. ASSUME Conclude \/ Resolve PROVE C!Conclude(cur) \/ UNCHANGED C!contractVars
  <2>1. /\ cur \in Requests /\ state[cur] \in {"IN_FLIGHT", "UNKNOWN"}
        /\ pc \in {"conclude", "resolve"} /\ pc' \in {"close", "scan"}
        /\ verdict \in {"ACCEPTED", "REJECTED", "FAILED_RETRYABLE", "UNKNOWN"}
    BY <1>0, <1>5, PlanIsLegal DEF Conclude, Resolve, ControlState
  <2>2. phaseBar' = [phaseBar EXCEPT ![cur] = Phase(verdict)]
    BY <1>0, <1>5, <2>1, PlanIsLegal, WriteState DEF Lifecycle
  <2>3. phaseBar[cur] = "open"
    BY <2>1, PhaseOf DEF phaseBar
  <2>4. ~armedBar[cur] /\ UNCHANGED <<armedBar, sends>>
    BY <1>5, <2>1 DEF Conclude, Resolve, armedBar
  <2>5. CASE verdict = "UNKNOWN"
    <3>1. phaseBar' = phaseBar
      BY <2>2, <2>3, <2>5, PhaseOf DEF phaseBar
    <3> QED BY <2>4, <3>1 DEF C!contractVars
  <2>6. CASE verdict # "UNKNOWN"
    <3>1. Phase(verdict) \in {"queued", "delivered", "refused"}
      BY <2>1, <2>6, PhaseOf
    <3> QED BY <2>2, <2>3, <2>4, <3>1 DEF C!Conclude
  <2> QED BY <2>5, <2>6
<1>6. ASSUME Crash PROVE C!Disarm
  <2>1. armedBar' = [r \in Requests |-> FALSE]
    BY <1>6 DEF Crash, armedBar
  <2>2. UNCHANGED <<phaseBar, sends>>
    BY <1>6 DEF Crash, phaseBar
  <2> QED BY <2>1, <2>2 DEF C!Disarm
<1>7. ASSUME \/ StartPass \/ EndPass \/ IncrementAttempt \/ LogAttempt \/ CarrierReturns
             \/ RecordReceipt \/ CloseAttempt \/ RecordProviderReceiptRef
             \/ \E r \in Requests : \/ Skip(r) \/ BeginRetry(r) \/ Reconcile(r)
                                    \/ ReconcileUnknown(r) \/ Land(r) \/ Drop(r)
      PROVE  UNCHANGED C!contractVars
  BY <1>0, <1>7, Stutter DEF StartPass, EndPass, IncrementAttempt, LogAttempt,
     CarrierReturns, RecordReceipt, CloseAttempt, RecordProviderReceiptRef,
     Skip, BeginRetry, Reconcile, ReconcileUnknown, Land, Drop, IsNext
<1>8. CASE UNCHANGED vars
  BY <1>0, <1>8, Stutter DEF vars
<1>9. Launch \/ Deliver \/ Conclude \/ Resolve => cur \in Requests
  BY <1>0 DEF Launch, Deliver, Conclude, Resolve, ControlState
<1> QED BY <1>1, <1>2, <1>3, <1>4, <1>5, <1>6, <1>7, <1>8, <1>9 DEF Next,
    Daemon, Drive, C!Next

\* Every run of the daemon is a run of DeliveryContract.
THEOREM DaemonImplementsContract == Spec => ImplementsContract
<1>1. Init => C!Init
  BY InitImplements
<1>2. DeliveryInv /\ [Next]_vars => [C!Next]_(C!contractVars)
  BY StepImplements
<1> QED BY <1>1, <1>2, DeliveryInvariant, PTL DEF Spec, ImplementsContract,
    C!Spec
=============================================================================
