---------------------------- MODULE SettledProofs ---------------------------
(***************************************************************************)
(* Theorems about SettledProjection, for any number of receipts, any mix   *)
(* of photos and texts, any timestamps and any number of interruptions.    *)
(* SettledInv says what an interrupted projection leaves behind; over it,  *)
(* CounterInv says what the counter is worth.                              *)
(***************************************************************************)
EXTENDS SettledSafety, FiniteSetTheorems, TLAPS

\* None is no counter value.
LEMMA NoneIsNoValue == None \notin Nat
  BY DEF None

\* Positions are indices: what Cardinality returns on sets of receipts.
LEMMA ReceiptSets ==
    ASSUME NEW S \in SUBSET Receipts
    PROVE  /\ IsFiniteSet(S)
           /\ Cardinality(S) \in 0 .. NumReceipts
           /\ S # {} => Cardinality(S) > 0
           /\ \A r \in Receipts \ S : Cardinality(S) + 1 <= NumReceipts
<1>1. IsFiniteSet(Receipts) /\ Cardinality(Receipts) = NumReceipts
  BY ProjectionAssumption, FS_Interval DEF ProjectionAssumption, Receipts
<1>2. IsFiniteSet(S) /\ Cardinality(S) \in Nat /\ Cardinality(S) <= NumReceipts
  BY <1>1, FS_Subset, FS_CardinalityType
<1>3. S # {} => Cardinality(S) > 0
  BY <1>2, FS_EmptySet
<1>4. ASSUME NEW r \in Receipts \ S PROVE Cardinality(S) + 1 <= NumReceipts
  <2>1. IsFiniteSet(S \cup {r}) /\ Cardinality(S \cup {r}) = Cardinality(S) + 1
    BY <1>2, <1>4, FS_AddElement
  <2>2. Cardinality(S \cup {r}) <= NumReceipts
    BY <1>1, <1>4, FS_Subset
  <2> QED BY <2>1, <2>2
<1> QED BY <1>2, <1>3, <1>4

\* The value a derivation reads from the observations is a count.
LEMMA DeriveType ==
    ASSUME SettledInv, NEW r \in Receipts
    PROVE  Derive(r) \in Nat /\ LatestValue \in Nat
<1>1. ASSUME NEW q \in Latest PROVE fact[q] \in Nat
  BY <1>1, NoneIsNoValue DEF SettledInv, TypeOK, MemoryIsStore, Latest, Cached, Values
<1>2. Latest # {} => (CHOOSE q \in Latest : TRUE) \in Latest
  OBVIOUS
<1> QED BY <1>1, <1>2 DEF LatestValue, Derive

-----------------------------------------------------------------------------
(* The stores.                                                             *)

\* The invariant of the stores holds when the program starts.
LEMMA InitSettled == Init => SettledInv
<1> SUFFICES ASSUME Init PROVE SettledInv
  OBVIOUS
<1>1. TypeOK
  <2>1. NumReceipts \in Nat
    BY ProjectionAssumption DEF ProjectionAssumption
  <2>2. planned \in Seq(Receipts)
    BY DEF Init
  <2>3. position \in [Receipts -> 0 .. NumReceipts]
    BY <2>1 DEF Init
  <2>4. pc \in Steps /\ (pc # "idle" <=> cur # 0)
    BY DEF Init, Steps
  <2>5. plan \in [Receipts -> Values] /\ deliveredAt \in [Receipts -> Times]
    BY DEF Init, Values
  <2>6. marker \in [Receipts -> Values] /\ evidence \in [Receipts -> Values] /\ fact \in [Receipts -> Values]
    BY DEF Init, Values
  <2> QED BY <2>2, <2>3, <2>4, <2>5, <2>6 DEF Init, TypeOK
<1>2. ControlState /\ MemoryIsStore /\ NeverInconsistent
  BY DEF Init, ControlState, MemoryIsStore, NeverInconsistent
<1>3. OneValuePerReceipt /\ MarkerMeansFacts
  BY DEF Init, OneValuePerReceipt, MarkerMeansFacts
<1> QED BY <1>1, <1>2, <1>3 DEF SettledInv

\* Every step keeps the invariant of the stores.
LEMMA NextSettled == SettledInv /\ [Next]_vars => SettledInv'
<1> SUFFICES ASSUME SettledInv, [Next]_vars PROVE SettledInv'
  OBVIOUS
<1> USE NoneIsNoValue DEF Values, Steps
<1>t. /\ TypeOK /\ ControlState /\ MemoryIsStore
      /\ OneValuePerReceipt /\ MarkerMeansFacts /\ NeverInconsistent
  BY DEF SettledInv
<1>c. cur \in Receipts <=> pc # "idle"
  BY <1>t DEF TypeOK, Receipts
<1>1. ASSUME NEW r \in Receipts, Freeze(r) PROVE SettledInv'
  <2>1. Derive(r) \in Nat
    BY DeriveType
  <2>2. evidence[r] = None /\ fact[r] = None
    BY <1>1, <1>t DEF Freeze, OneValuePerReceipt, TypeOK
  <2> QED
    BY <1>1, <1>t, <2>1, <2>2 DEF Freeze, Unprojected, SettledInv, TypeOK, ControlState,
       MemoryIsStore, OneValuePerReceipt, MarkerMeansFacts, NeverInconsistent, Receipts
<1>2. ASSUME NEW r \in Receipts, Replay(r) PROVE SettledInv'
  BY <1>2, <1>t DEF Replay, Unprojected, durable, history, SettledInv, TypeOK, ControlState,
     MemoryIsStore, OneValuePerReceipt, MarkerMeansFacts, NeverInconsistent, Receipts
<1>3. CASE AlreadyAdmitted
  BY <1>3, <1>t, <1>c DEF AlreadyAdmitted, durable, history, SettledInv, TypeOK,
     ControlState, MemoryIsStore, OneValuePerReceipt, MarkerMeansFacts, NeverInconsistent
<1>4. CASE SaveEvidence
  BY <1>4, <1>t, <1>c DEF SaveEvidence, history, SettledInv, TypeOK,
     ControlState, MemoryIsStore, OneValuePerReceipt, MarkerMeansFacts, NeverInconsistent
<1>5. CASE AdmitCadence
  <2>1. Cached \subseteq Receipts /\ cur \in Receipts \ Cached
    BY <1>5, <1>t, <1>c DEF AdmitCadence, Cached, ControlState, MemoryIsStore
  <2>2. Cardinality(Cached) + 1 \in 1 .. NumReceipts
    BY <2>1, ReceiptSets
  <2>3. TypeOK'
    BY <1>5, <1>t, <1>c, <2>2 DEF AdmitCadence, history, TypeOK
  <2>4. (ControlState /\ MemoryIsStore)'
    BY <1>5, <1>t, <1>c, <2>2 DEF AdmitCadence, TypeOK, ControlState, MemoryIsStore
  <2>5. (OneValuePerReceipt /\ MarkerMeansFacts /\ NeverInconsistent)'
    BY <1>5, <1>t, <1>c, <2>2 DEF AdmitCadence, TypeOK, ControlState,
       OneValuePerReceipt, MarkerMeansFacts, NeverInconsistent
  <2> QED BY <2>3, <2>4, <2>5 DEF SettledInv
<1>6. CASE AdmitCooldown
  BY <1>6, <1>t, <1>c DEF AdmitCooldown, history, SettledInv, TypeOK,
     ControlState, MemoryIsStore, OneValuePerReceipt, MarkerMeansFacts, NeverInconsistent
<1>7. CASE Record
  BY <1>7, <1>t, <1>c DEF Record, history, SettledInv, TypeOK,
     ControlState, MemoryIsStore, OneValuePerReceipt, MarkerMeansFacts, NeverInconsistent
<1>8. CASE MarkPlanCompleted
  BY <1>8, <1>t, <1>c DEF MarkPlanCompleted, history, SettledInv, TypeOK,
     ControlState, MemoryIsStore, OneValuePerReceipt, MarkerMeansFacts, NeverInconsistent
<1>9. CASE WriteFails
  BY <1>9, <1>t DEF WriteFails, durable, history, SettledInv, TypeOK,
     ControlState, MemoryIsStore, OneValuePerReceipt, MarkerMeansFacts, NeverInconsistent
<1>10. CASE Restart
  <2>1. ASSUME NEW r \in Receipts, fact[r] # None
        PROVE  Cardinality(Reloaded(r)) \in 1 .. NumReceipts
    <3>1. Reloaded(r) \subseteq Receipts /\ r \in Reloaded(r)
      BY <1>t, <2>1 DEF Reloaded, Receipts
    <3> QED BY <3>1, ReceiptSets
  <2>2. position' \in [Receipts -> 0 .. NumReceipts]
    BY <1>10, <2>1, ProjectionAssumption DEF Restart, ProjectionAssumption
  <2>3. \A r \in Receipts : position'[r] > 0 <=> fact[r] # None
    BY <1>10, <2>1 DEF Restart
  <2> QED
    BY <1>10, <1>t, <2>2, <2>3 DEF Restart, durable, history, SettledInv, TypeOK,
       ControlState, MemoryIsStore, OneValuePerReceipt, MarkerMeansFacts, NeverInconsistent
<1>11. CASE UNCHANGED vars
  BY <1>11, <1>t DEF vars, durable, history, SettledInv, TypeOK,
     ControlState, MemoryIsStore, OneValuePerReceipt, MarkerMeansFacts, NeverInconsistent
<1> QED
  BY <1>1, <1>2, <1>3, <1>4, <1>5, <1>6, <1>7, <1>8, <1>9, <1>10, <1>11 DEF Next, Project

\* The stores stay consistent, for any number of receipts and interruptions:
\* whatever a call finds is a prefix of the transactions of project().
THEOREM SettledInvariant == Spec => []SettledInv
  BY InitSettled, NextSettled, PTL DEF Spec

\* Type correctness of the projection.
THEOREM SettledTypeCorrect == Spec => []TypeOK
  BY SettledInvariant, PTL DEF SettledInv

\* Plan, evidence, observation and marker of a receipt always agree.
THEOREM ReplayIsVerbatim == Spec => []OneValuePerReceipt
  BY SettledInvariant, PTL DEF SettledInv

\* A marker stands for facts that are all in the store and in memory.
THEOREM MarkerIsHonest == Spec => []MarkerMeansFacts
  BY SettledInvariant, PTL DEF SettledInv

\* The state project() refuses to repair is never reached by its own steps.
THEOREM NeverRefused == Spec => []NeverInconsistent
  BY SettledInvariant, PTL DEF SettledInv

-----------------------------------------------------------------------------
(* The counter.                                                            *)

\* The invariant of the counter holds when the program starts.
LEMMA InitCounter == Init => CounterInv
<1> SUFFICES ASSUME Init PROVE CounterInv
  OBVIOUS
<1>1. PlannedIsPlan
  BY DEF Init, PlannedIsPlan
<1>2. OpenPlanIsCurrent
  BY DEF Init, OpenPlanIsCurrent
<1>3. Latest = {} /\ TextsSincePhoto = {}
  BY DEF Init, Latest, Cached, TextsSincePhoto
<1>4. CounterIsExact
  BY <1>3, FS_EmptySet DEF CounterIsExact, LatestValue
<1> QED BY <1>1, <1>2, <1>4 DEF CounterInv

\* Receipts projected in order carry distinct timestamps.
LEMMA DistinctTimes ==
    ASSUME SettledInv, PlannedIsPlan, InOrder,
           NEW q \in Receipts, NEW r \in Receipts, q # r, fact[q] # None, fact[r] # None
    PROVE  deliveredAt[q] < deliveredAt[r] \/ deliveredAt[r] < deliveredAt[q]
<1>1. plan[q] # None /\ plan[r] # None
  BY DEF SettledInv, OneValuePerReceipt
<1>2. PICK i \in 1 .. Len(planned) : planned[i] = q
  BY <1>1 DEF PlannedIsPlan
<1>3. PICK j \in 1 .. Len(planned) : planned[j] = r
  BY <1>1 DEF PlannedIsPlan
<1>4. Len(planned) \in Nat
  BY DEF SettledInv, TypeOK
<1>5. i < j \/ j < i
  BY <1>2, <1>3, <1>4
<1> QED BY <1>2, <1>3, <1>5 DEF InOrder

\* A step that leaves plans and facts alone, and the latest observation with
\* them, leaves the counter alone.
LEMMA CounterFrame ==
    ASSUME CounterInv, UNCHANGED <<deliveredAt, plan, fact, planned, overlapped>>,
           InOrder /\ ~overlapped => Latest' = Latest
    PROVE  CounterInv'
<1>1. PlannedIsPlan'
  BY DEF CounterInv, PlannedIsPlan
<1>2. InOrder' => InOrder
  BY DEF InOrder
<1>3. TextsSincePhoto' = TextsSincePhoto
  BY DEF TextsSincePhoto
<1>4. ASSUME InOrder, ~overlapped PROVE OpenPlanIsCurrent' /\ CounterIsExact'
  <2>1. LatestValue' = LatestValue
    BY <1>4 DEF LatestValue
  <2>2. \A r \in Receipts : Derive(r)' = Derive(r)
    BY <2>1 DEF Derive
  <2> QED BY <1>3, <1>4, <2>1, <2>2 DEF CounterInv, OpenPlanIsCurrent, CounterIsExact
<1> QED BY <1>1, <1>2, <1>4 DEF CounterInv

\* Freezing a plan: what is derived is what the counter says, and the receipt
\* is the latest of those projected.
LEMMA FreezeCounter ==
    ASSUME SettledInv, CounterInv, NEW r \in Receipts, Freeze(r)
    PROVE  CounterInv'
<1> DEFINE n == Len(planned)
<1>1. /\ plan \in [Receipts -> Values] /\ planned \in Seq(Receipts) /\ n \in Nat
      /\ overlapped \in BOOLEAN
  BY DEF SettledInv, TypeOK
<1>2. /\ planned' \in Seq(Receipts) /\ Len(planned') = n + 1 /\ planned'[n + 1] = r
      /\ \A i \in 1 .. n : planned'[i] = planned[i]
  BY <1>1 DEF Freeze
<1>3. Derive(r) # None
  BY DeriveType, NoneIsNoValue
<1>4. plan'[r] = Derive(r) /\ \A q \in Receipts \ {r} : plan'[q] = plan[q]
  BY <1>1 DEF Freeze
<1>5. PlannedIsPlan'
  <2>1. ASSUME NEW q \in Receipts \ {r}
        PROVE  (\E i \in 1 .. n + 1 : planned'[i] = q) <=> (\E i \in 1 .. n : planned[i] = q)
    BY <1>1, <1>2, <2>1
  <2>2. \E i \in 1 .. n + 1 : planned'[i] = r
    BY <1>1, <1>2
  <2> QED BY <1>2, <1>3, <1>4, <2>1, <2>2 DEF CounterInv, PlannedIsPlan
<1>6. ASSUME InOrder', ~overlapped' PROVE OpenPlanIsCurrent' /\ CounterIsExact'
  <2>1. deliveredAt' = deliveredAt /\ fact' = fact /\ position' = position
    BY DEF Freeze
  <2>2. InOrder
    BY <1>1, <1>2, <1>6, <2>1 DEF InOrder
  <2>3. ~overlapped /\ \A q \in Receipts : plan[q] # None => fact[q] # None
    BY <1>1, <1>6 DEF Freeze
  <2>4. ASSUME NEW q \in Receipts, plan[q] # None PROVE deliveredAt[q] < deliveredAt[r]
    <3>1. PICK i \in 1 .. n : planned[i] = q
      BY <2>4 DEF CounterInv, PlannedIsPlan
    <3> QED BY <1>1, <1>2, <1>6, <2>1, <3>1 DEF InOrder
  <2>5. Latest' = Latest /\ TextsSincePhoto' = TextsSincePhoto
    BY <2>1 DEF Latest, Cached, Before, TextsSincePhoto
  <2>6. LatestValue' = LatestValue /\ Derive(r)' = Derive(r)
    BY <2>1, <2>5 DEF LatestValue, Derive
  <2>7. CounterIsExact'
    BY <2>2, <2>3, <2>5, <2>6 DEF CounterInv, CounterIsExact
  <2>8. ASSUME NEW x \in Receipts, plan'[x] # None, fact'[x] = None PROVE x = r
    BY <1>4, <2>1, <2>3, <2>8
  <2>9. plan'[r] = Derive(r)' /\ \A q \in Receipts \ {r} : plan'[q] # None =>
            fact'[q] # None /\ deliveredAt'[q] < deliveredAt'[r]
    BY <1>4, <2>1, <2>3, <2>4, <2>6
  <2> QED BY <2>7, <2>8, <2>9 DEF OpenPlanIsCurrent
<1> QED BY <1>5, <1>6 DEF CounterInv

\* Admitting an open plan moves the counter by what the plan says.
LEMMA AdmitCounter ==
    ASSUME SettledInv, CounterInv, AdmitCadence
    PROVE  CounterInv'
<1>1. /\ cur \in Receipts /\ plan[cur] # None /\ fact[cur] = None
      /\ fact \in [Receipts -> Values] /\ position \in [Receipts -> 0 .. NumReceipts]
      /\ deliveredAt \in [Receipts -> Times]
  BY DEF AdmitCadence, SettledInv, TypeOK, ControlState, Receipts
<1>2. /\ fact'[cur] = plan[cur] /\ \A q \in Receipts \ {cur} : fact'[q] = fact[q]
      /\ UNCHANGED <<deliveredAt, plan, cur, planned, overlapped>>
  BY <1>1 DEF AdmitCadence, history
<1>3. /\ position'[cur] > 0 /\ position'[cur] \in Nat
      /\ \A q \in Receipts \ {cur} : position'[q] = position[q]
  <2>1. Cardinality(Cached) \in Nat
    BY ReceiptSets, ProjectionAssumption DEF Cached, ProjectionAssumption
  <2> QED BY <1>1, <2>1 DEF AdmitCadence
<1>4. PlannedIsPlan'
  BY <1>2 DEF CounterInv, PlannedIsPlan
<1>5. ASSUME InOrder', ~overlapped' PROVE OpenPlanIsCurrent' /\ CounterIsExact'
  <2>1. OpenPlanIsCurrent /\ CounterIsExact
    BY <1>2, <1>5 DEF CounterInv, InOrder
  <2>2. plan[cur] = Derive(cur)
    BY <1>1, <2>1 DEF OpenPlanIsCurrent
  <2>3. ASSUME NEW q \in Receipts \ {cur}
        PROVE  /\ plan[q] # None => fact[q] # None
               /\ fact[q] # None => deliveredAt[q] < deliveredAt[cur]
    BY <1>1, <2>1 DEF OpenPlanIsCurrent, SettledInv, OneValuePerReceipt
  <2>4. OpenPlanIsCurrent'
    BY <1>1, <1>2, <2>3 DEF OpenPlanIsCurrent
  <2>5. Latest' = {cur}
    <3>1. \A q \in Receipts \ {cur} : q \in Cached' <=> fact[q] # None
      BY <1>3 DEF Cached, SettledInv, MemoryIsStore
    <3>2. cur \in Cached'
      BY <1>1, <1>3 DEF Cached
    <3>3. \A q \in Cached' : Before(q, cur)'
      <4>1. Before(cur, cur)'
        BY <1>1, <1>2, <1>3 DEF Before
      <4>2. \A q \in Cached' \ {cur} : Before(q, cur)'
        BY <1>2, <2>3, <3>1 DEF Before, Cached
      <4> QED BY <1>2, <4>1, <4>2 DEF Before
    <3>4. \A q \in Cached' \ {cur} : ~Before(cur, q)'
      <4> SUFFICES ASSUME NEW q \in Cached' \ {cur} PROVE ~Before(cur, q)'
        OBVIOUS
      <4>1. q \in Receipts /\ deliveredAt[q] < deliveredAt[cur]
        BY <2>3, <3>1 DEF Cached
      <4>2. deliveredAt[q] \in Int /\ deliveredAt[cur] \in Int
        BY <1>1, <4>1 DEF Times
      <4> QED BY <1>2, <4>1, <4>2 DEF Before
    <3> QED BY <1>2, <3>2, <3>3, <3>4 DEF Latest
  <2>6. LatestValue' = Derive(cur)
    <3>1. (CHOOSE r \in Latest' : TRUE) = cur
      BY <2>5
    <3> QED BY <1>2, <2>2, <2>5, <3>1 DEF LatestValue
  <2>7. CASE cur \in Photo
    <3>1. TextsSincePhoto' = {}
      <4> SUFFICES ASSUME NEW r \in TextsSincePhoto' PROVE FALSE
        OBVIOUS
      <4>1. r \in Receipts \ {cur} /\ fact[r] # None /\ deliveredAt[cur] < deliveredAt[r]
        BY <1>1, <1>2, <2>7 DEF TextsSincePhoto
      <4>2. deliveredAt[r] \in Int /\ deliveredAt[cur] \in Int
        BY <1>1, <4>1 DEF Times
      <4> QED BY <2>3, <4>1, <4>2
    <3> QED BY <2>4, <2>6, <2>7, <3>1, FS_EmptySet DEF Derive, CounterIsExact
  <2>8. CASE cur \notin Photo
    <3>1. cur \notin TextsSincePhoto
      BY <1>1 DEF TextsSincePhoto
    <3>2. TextsSincePhoto' = TextsSincePhoto \cup {cur}
      <4>1. Photo \subseteq Receipts \ {cur}
        BY <2>8, ProjectionAssumption DEF ProjectionAssumption
      <4>2. \A q \in Photo : fact'[q] = fact[q]
        BY <1>2, <4>1
      <4>3. cur \in TextsSincePhoto'
        BY <1>1, <1>2, <2>3, <2>8, <4>1, <4>2 DEF TextsSincePhoto
      <4>4. \A r \in Receipts \ {cur} : r \in TextsSincePhoto' <=> r \in TextsSincePhoto
        BY <1>2, <4>2 DEF TextsSincePhoto
      <4> QED BY <4>3, <4>4 DEF TextsSincePhoto
    <3>3. Cardinality(TextsSincePhoto') = Cardinality(TextsSincePhoto) + 1
      BY <3>1, <3>2, ReceiptSets, FS_AddElement DEF TextsSincePhoto
    <3> QED BY <2>1, <2>4, <2>6, <2>8, <3>3 DEF Derive, CounterIsExact
  <2> QED BY <2>7, <2>8
<1> QED BY <1>4, <1>5 DEF CounterInv

\* Reloading the observations in the order of their timestamps does not change
\* which one is the latest: no two carry the same one.
LEMMA RestartCounter ==
    ASSUME SettledInv, CounterInv, SettledInv', Restart
    PROVE  CounterInv'
<1>1. UNCHANGED <<deliveredAt, plan, fact, planned, overlapped>>
  BY DEF Restart, durable, history
<1>2. Cached' = {r \in Receipts : fact[r] # None} /\ Cached = {r \in Receipts : fact[r] # None}
  BY <1>1 DEF SettledInv, MemoryIsStore, Cached
<1>3. ASSUME InOrder PROVE Latest' = Latest
  <2>1. ASSUME NEW q \in Cached, NEW r \in Cached PROVE Before(q, r)' <=> Before(q, r)
    <3>1. CASE q = r
      BY <1>1, <3>1 DEF Before, SettledInv, TypeOK, Cached
    <3>2. CASE q # r
      <4>1. deliveredAt[q] < deliveredAt[r] \/ deliveredAt[r] < deliveredAt[q]
        BY <1>2, <1>3, <3>2, DistinctTimes DEF CounterInv
      <4>2. deliveredAt[q] \in Int /\ deliveredAt[r] \in Int
        BY DEF SettledInv, TypeOK, Times, Cached
      <4> QED BY <1>1, <4>1, <4>2 DEF Before
    <3> QED BY <3>1, <3>2
  <2> QED BY <1>2, <2>1 DEF Latest
<1> QED BY <1>1, <1>3, CounterFrame

\* Every step keeps the invariant of the counter.
LEMMA NextCounter == SettledInv /\ SettledInv' /\ CounterInv /\ [Next]_vars => CounterInv'
<1> SUFFICES ASSUME SettledInv, SettledInv', CounterInv, [Next]_vars PROVE CounterInv'
  OBVIOUS
<1>1. ASSUME NEW r \in Receipts, Freeze(r) PROVE CounterInv'
  BY <1>1, FreezeCounter
<1>2. CASE AdmitCadence
  BY <1>2, AdmitCounter
<1>3. CASE Restart
  BY <1>3, RestartCounter
<1>4. ASSUME UNCHANGED <<deliveredAt, plan, fact, position, planned, overlapped>>
      PROVE  CounterInv'
  <2>1. Latest' = Latest
    BY <1>4 DEF Latest, Cached, Before
  <2> QED BY <1>4, <2>1, CounterFrame
<1>5. CASE \/ \E r \in Receipts : Replay(r)
           \/ AlreadyAdmitted \/ SaveEvidence \/ AdmitCooldown
           \/ Record \/ MarkPlanCompleted \/ WriteFails \/ UNCHANGED vars
  BY <1>4, <1>5 DEF Replay, AlreadyAdmitted, SaveEvidence, AdmitCooldown, Record,
     MarkPlanCompleted, WriteFails, vars, durable, history
<1> QED BY <1>1, <1>2, <1>3, <1>5 DEF Next, Project

\* The invariant of the counter holds in every reachable state.
THEOREM CounterInvariant == Spec => []CounterInv
  BY InitSettled, NextSettled, InitCounter, NextCounter, PTL DEF Spec

\* The cadence counter is exact: through failures, replays and restarts it is
\* the number of texts since the last photo, for any number of receipts, as
\* long as they are projected in order and an interrupted one is replayed first.
THEOREM CounterExact == Spec => []CounterCounts
<1>1. CounterInv => CounterCounts
  BY DEF CounterInv, CounterCounts
<1> QED BY <1>1, CounterInvariant, PTL
=============================================================================
