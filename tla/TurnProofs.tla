------------------------------ MODULE TurnProofs ------------------------------
(***************************************************************************)
(* Theorems about TurnAdmission for any number of stacks, interactions,    *)
(* clock readings, faults and crashes: what a committed turn did survives, *)
(* it is admitted once and with its marker, the lease is never left        *)
(* behind, and what a Host was told is durable. Last, SurfaceHandoff, for  *)
(* any number of drafts, attempts, raised storage calls and deaths.        *)
(***************************************************************************)
EXTENDS TurnSafety, SurfaceHandoff, FiniteSetTheorems, TLAPS

StateRows == [version : Nat \ {0}, by : Interactions \cup {None} \cup Nat, at : Nat,
              turns : SUBSET Interactions]
Threads   == [at : Steps \ {"idle"}, turn : Interactions, proj : StateRows,
              hand : BOOLEAN, guarded : BOOLEAN] \cup {Idle}

\* The steps of a turn that is past the lease, and those with a projection.
Projects  == {"policy", "handoff", "open", "prepare", "test", "commit", "publish"}
Running   == {"run"} \cup Projects

\* Row k is the canonical one: the first among the highest.
IsTop(rs, k) ==
    /\ \A m \in DOMAIN rs : rs[m].version <= rs[k].version
    /\ \A m \in 1 .. k - 1 : rs[m].version < rs[k].version
HasTop(rs) == \E k \in DOMAIN rs : IsTop(rs, k)

RowTypes ==
    /\ rows \in Seq(StateRows) /\ HasTop(rows)
    /\ mem \in [Stacks -> StateRows]
    /\ tick # None => tick \in StateRows /\ tick.by \in Nat
    /\ now \in Nat

TurnTypes ==
    /\ markers \subseteq Interactions
    /\ lease \in Stacks \cup {None}
    /\ thread \in [Stacks -> Threads]
    /\ told \subseteq Interactions /\ exposed \subseteq Interactions
    /\ unleased \subseteq Interactions

TableTypes ==
    /\ intent \in [Interactions -> {"ABSENT", "CANDIDATE", "ALLOWED", "HELD"}]
    /\ born \in [Interactions -> Nat]
    /\ handoff \in [Interactions -> {"ABSENT", "PENDING", "IN_FLIGHT", "ACCEPTED"}]
    /\ checkpoint \in [Interactions -> {"NONE", "AWAITING_COMMIT"}]
    /\ aborted \in [Stacks -> SUBSET Interactions]

\* A base, once read, is the canonical row or an older one.
Follows(row) ==
    /\ row.version <= Current(rows).version
    /\ row.version = Current(rows).version => row.turns = Current(rows).turns

\* A projection builds on the base its turn has read, a tick's row on its own.
Bases ==
    /\ \A s \in Stacks :
         /\ thread[s].at \in Running => Follows(mem[s])
         /\ thread[s].at \in Projects =>
              /\ thread[s].proj.version = mem[s].version + 1
              /\ thread[s].proj.turns = mem[s].turns \cup {Turn(s)}
              /\ thread[s].proj.by = Turn(s)
    /\ tick # None => /\ tick.version <= Current(rows).version + 1
                      /\ tick.version = Current(rows).version + 1 =>
                           tick.turns = Current(rows).turns

\* Under the lease the base is the canonical row until someone without it writes.
LeaseIsFresh ==
    /\ LeaseNeverLeaked
    /\ \A s \in Stacks :
         lease = s /\ thread[s].at # "publish" /\ Turn(s) \notin exposed
             => mem[s].version = Current(rows).version

\* A marker has a row, and only one if no attempt committed without the lease;
\* an attempt that is about to commit under the lease is the first.
Markers ==
    /\ \A i \in Interactions : i \in markers <=> \E k \in DOMAIN rows : rows[k].by = i
    /\ \A i \in Interactions \ unleased : \A k, m \in DOMAIN rows :
         rows[k].by = i /\ rows[m].by = i => k = m
    /\ \A s \in Stacks :
         /\ thread[s].at = "commit" /\ lease = s /\ Turn(s) \notin unleased
              => Turn(s) \notin markers
         /\ thread[s].at = "publish" => Turn(s) \in markers
    /\ told \subseteq markers

TurnInv ==
    /\ RowTypes /\ TurnTypes
    /\ Bases /\ LeaseIsFresh /\ CommittedTurnsSurvive
    /\ Markers

-----------------------------------------------------------------------------
(* The canonical row.                                                      *)

\* There is one first highest row, and it is the canonical one.
LEMMA CurrentIsTop ==
    ASSUME NEW rs \in Seq(StateRows), NEW k \in DOMAIN rs, IsTop(rs, k)
    PROVE  Current(rs) = rs[k] /\ rs[k] \in StateRows
<1> DEFINE Top(j) == /\ \A m \in DOMAIN rs : rs[m].version <= rs[j].version
                     /\ \A m \in 1 .. j - 1 : rs[m].version < rs[j].version
           t == CHOOSE j \in DOMAIN rs : Top(j)
<1>1. Top(k)
  BY DEF IsTop
<1>2. t \in DOMAIN rs /\ Top(t)
  BY <1>1
<1>3. Current(rs) = rs[t]
  BY DEF Current
<1>4. /\ t \in 1 .. Len(rs) /\ k \in 1 .. Len(rs) /\ Len(rs) \in Nat
      /\ rs[t] \in StateRows /\ rs[k] \in StateRows
  BY <1>2
<1>5. rs[t].version \in Nat /\ rs[k].version \in Nat
  BY <1>4 DEF StateRows
<1>6. rs[t].version <= rs[k].version /\ rs[k].version <= rs[t].version
  BY <1>1, <1>2
<1>7. ~(t < k) /\ ~(k < t)
  <2>1. t < k => t \in 1 .. k - 1
    BY <1>4
  <2>2. k < t => k \in 1 .. t - 1
    BY <1>4
  <2>3. ASSUME t < k PROVE FALSE
    <3>1. rs[t].version < rs[k].version
      BY <1>1, <2>1, <2>3
    <3> QED BY <1>5, <1>6, <3>1
  <2>4. ASSUME k < t PROVE FALSE
    <3>1. rs[k].version < rs[t].version
      BY <1>2, <2>2, <2>4
    <3> QED BY <1>5, <1>6, <3>1
  <2> QED BY <2>3, <2>4
<1> HIDE DEF t
<1>8. t = k
  BY <1>4, <1>7
<1> QED BY <1>3, <1>4, <1>8

\* A row is appended: it is canonical if it is newer than all.
LEMMA CurrentAppended ==
    ASSUME NEW rs \in Seq(StateRows), HasTop(rs), NEW row \in StateRows
    PROVE  /\ Append(rs, row) \in Seq(StateRows) /\ HasTop(Append(rs, row))
           /\ Current(rs) \in StateRows
           /\ Current(Append(rs, row)) =
                IF row.version > Current(rs).version THEN row ELSE Current(rs)
<1> DEFINE as == Append(rs, row)
           n  == Len(rs)
<1>1. PICK k \in DOMAIN rs : IsTop(rs, k)
  BY DEF HasTop
<1>2. Current(rs) = rs[k] /\ rs[k] \in StateRows
  BY <1>1, CurrentIsTop
<1>3. as \in Seq(StateRows) /\ Len(as) = n + 1 /\ n \in Nat
  OBVIOUS
<1>4. DOMAIN as = 1 .. n + 1 /\ DOMAIN rs = 1 .. n
  BY <1>3
<1>5. as[n + 1] = row /\ \A m \in 1 .. n : as[m] = rs[m]
  BY <1>3
<1>6. \A m \in 1 .. n : rs[m].version \in Nat
  <2>1. \A m \in 1 .. n : rs[m] \in StateRows
    BY <1>3
  <2> QED BY <2>1 DEF StateRows
<1>7. row.version \in Nat /\ rs[k].version \in Nat /\ k \in 1 .. n
  BY <1>2, <1>4 DEF StateRows
<1> HIDE DEF as, n
<1>8. n \in Nat
  BY <1>3
<1>9. \A m \in 1 .. n : rs[m].version <= rs[k].version
  BY <1>1, <1>4 DEF IsTop
<1>10. \A m \in 1 .. n + 1 : m \in 1 .. n \/ m = n + 1
  BY <1>8
<1>11. CASE row.version > rs[k].version
  <2>1. \A m \in 1 .. n : as[m].version < row.version
    <3> SUFFICES ASSUME NEW m \in 1 .. n PROVE rs[m].version < row.version
      BY <1>5
    <3>1. rs[m].version \in Nat /\ rs[m].version <= rs[k].version
      BY <1>6, <1>9
    <3> QED BY <1>7, <1>11, <3>1
  <2>2. \A m \in 1 .. n : as[m].version <= row.version
    <3> SUFFICES ASSUME NEW m \in 1 .. n PROVE rs[m].version <= row.version
      BY <1>5
    <3>1. rs[m].version \in Nat /\ rs[m].version <= rs[k].version
      BY <1>6, <1>9
    <3> QED BY <1>7, <1>11, <3>1
  <2>3. n + 1 \in 1 .. n + 1 /\ (n + 1) - 1 = n /\ row.version <= row.version
    BY <1>7, <1>8
  <2>4. IsTop(as, n + 1)
    BY <1>4, <1>5, <1>10, <2>1, <2>2, <2>3 DEF IsTop
  <2>5. Current(as) = row
    BY <1>3, <1>4, <1>5, <2>3, <2>4, CurrentIsTop
  <2> QED BY <1>2, <1>3, <1>4, <1>11, <2>3, <2>4, <2>5 DEF HasTop, as
<1>12. CASE ~(row.version > rs[k].version)
  <2>1. row.version <= rs[k].version
    BY <1>7, <1>12
  <2>2. as[k] = rs[k] /\ k \in 1 .. n + 1
    <3>1. \A j \in 1 .. n : j \in 1 .. n + 1
      BY <1>8
    <3> QED BY <1>5, <1>7, <3>1
  <2>3. \A m \in 1 .. n + 1 : as[m].version <= rs[k].version
    BY <1>5, <1>9, <1>10, <2>1
  <2>4. \A m \in 1 .. k - 1 : m \in 1 .. n
    BY <1>7, <1>8
  <2>5. IsTop(as, k)
    BY <1>1, <1>4, <1>5, <2>2, <2>3, <2>4 DEF IsTop
  <2>6. Current(as) = rs[k]
    BY <1>3, <1>4, <2>2, <2>5, CurrentIsTop
  <2> QED BY <1>2, <1>3, <1>4, <1>12, <2>2, <2>5, <2>6 DEF HasTop, as
<1> QED BY <1>11, <1>12

\* What saving a row does: the canonical row stays, or is the new one if that
\* is the newest; the row's turn has a row, and no other turn gets one.
LEMMA SavedRow ==
    ASSUME NEW rs \in Seq(StateRows), HasTop(rs), NEW row \in StateRows
    PROVE  LET ss == Saved(rs, row) IN
           /\ ss \in Seq(StateRows) /\ HasTop(ss)
           /\ Current(rs) \in StateRows /\ Current(ss) \in StateRows
           /\ Current(ss) = IF row.version > Current(rs).version THEN row ELSE Current(rs)
           /\ \E k \in DOMAIN ss : ss[k].by = row.by
           /\ \A k \in DOMAIN ss : ss[k].by # row.by => k \in DOMAIN rs /\ ss[k] = rs[k]
           /\ \A k \in DOMAIN rs : k \in DOMAIN ss /\ ss[k] = rs[k]
           /\ (\A k \in DOMAIN rs : rs[k].by # row.by) =>
                \A k, m \in DOMAIN ss : ss[k].by = row.by /\ ss[m].by = row.by => k = m
<1> DEFINE ss == Saved(rs, row)
<1>1. CASE \E k \in DOMAIN rs : SameId(rs[k], row)
  <2>1. ss = rs
    BY <1>1 DEF Saved
  <2>2. PICK k \in DOMAIN rs : SameId(rs[k], row)
    BY <1>1
  <2>3. rs[k].by = row.by /\ rs[k].version = row.version
    BY <2>2 DEF SameId
  <2>4. PICK t \in DOMAIN rs : IsTop(rs, t)
    BY DEF HasTop
  <2>5. Current(rs) = rs[t] /\ rs[t] \in StateRows
    BY <2>4, CurrentIsTop
  <2>6. rs[k].version <= rs[t].version /\ rs[t].version \in Nat /\ row.version \in Nat
    BY <2>4, <2>5 DEF IsTop, StateRows
  <2>7. ~(row.version > Current(rs).version)
    BY <2>3, <2>5, <2>6
  <2> QED BY <2>1, <2>3, <2>5, <2>7
<1>2. CASE ~ \E k \in DOMAIN rs : SameId(rs[k], row)
  <2>1. ss = Append(rs, row)
    BY <1>2 DEF Saved
  <2>2. /\ DOMAIN ss = 1 .. Len(rs) + 1 /\ ss[Len(rs) + 1] = row
        /\ \A m \in 1 .. Len(rs) : ss[m] = rs[m]
        /\ DOMAIN rs = 1 .. Len(rs) /\ Len(rs) \in Nat
    BY <2>1
  <2>3. /\ ss \in Seq(StateRows) /\ HasTop(ss) /\ Current(rs) \in StateRows
        /\ Current(ss) = IF row.version > Current(rs).version THEN row ELSE Current(rs)
    BY <2>1, CurrentAppended
  <2> HIDE DEF ss
  <2>4. Len(rs) + 1 \in DOMAIN ss /\ \A k \in DOMAIN ss : k = Len(rs) + 1 \/ k \in DOMAIN rs
    BY <2>2
  <2>5. \A k \in DOMAIN rs : k \in DOMAIN ss /\ ss[k] = rs[k]
    BY <2>2
  <2>6. \A k \in DOMAIN ss : ss[k].by # row.by => k \in DOMAIN rs /\ ss[k] = rs[k]
    BY <2>2, <2>4
  <2>7. (\A k \in DOMAIN rs : rs[k].by # row.by) =>
           \A k, m \in DOMAIN ss : ss[k].by = row.by /\ ss[m].by = row.by => k = m
    BY <2>2, <2>4
  <2>8. \E k \in DOMAIN ss : ss[k].by = row.by
    BY <2>2, <2>4
  <2> QED BY <2>3, <2>5, <2>6, <2>7, <2>8 DEF ss
<1> QED BY <1>1, <1>2

-----------------------------------------------------------------------------
(* A stack's thread moves.                                                 *)

\* The thread of a stack with a turn at step l, the rest as given.
Moved(s, l, p, h, g) == [at |-> l, turn |-> Turn(s), proj |-> p, hand |-> h, guarded |-> g]

LEMMA ThreadRecord ==
    ASSUME thread \in [Stacks -> Threads], NEW s \in Stacks, thread[s].at # "idle"
    PROVE  /\ thread[s] \in [at : Steps \ {"idle"}, turn : Interactions, proj : StateRows,
                             hand : BOOLEAN, guarded : BOOLEAN]
           /\ Turn(s) \in Interactions /\ thread[s].proj \in StateRows
           /\ thread[s].hand \in BOOLEAN /\ thread[s].guarded \in BOOLEAN
<1>1. thread[s] \in Threads /\ thread[s] # Idle
  BY DEF Idle, Thread
<1>2. thread[s] \in [at : Steps \ {"idle"}, turn : Interactions, proj : StateRows,
                     hand : BOOLEAN, guarded : BOOLEAN]
  BY <1>1 DEF Threads
<1> QED BY <1>2 DEF Turn

LEMMA MovedRecord ==
    ASSUME thread \in [Stacks -> Threads], NEW s \in Stacks, thread[s].at # "idle",
           NEW l \in Steps \ {"idle"}, NEW p \in StateRows, NEW h \in BOOLEAN, NEW g \in BOOLEAN
    PROVE  LET x == Moved(s, l, p, h, g) IN
           /\ x \in Threads /\ x.at = l /\ x.turn = Turn(s) /\ x.proj = p
  BY ThreadRecord DEF Moved, Threads

\* The updates the actions make are moves.
LEMMA Updates ==
    ASSUME thread \in [Stacks -> Threads], NEW s \in Stacks, thread[s].at # "idle",
           NEW l \in Steps \ {"idle"}
    PROVE  /\ [thread EXCEPT ![s].at = l] =
                [thread EXCEPT ![s] = Moved(s, l, thread[s].proj, thread[s].hand, thread[s].guarded)]
           /\ [thread EXCEPT ![s].at = l, ![s].hand = TRUE] =
                [thread EXCEPT ![s] = Moved(s, l, thread[s].proj, TRUE, thread[s].guarded)]
           /\ \A g : [thread EXCEPT ![s].guarded = g] =
                [thread EXCEPT ![s] = Moved(s, thread[s].at, thread[s].proj, thread[s].hand, g)]
           /\ \A p : [thread EXCEPT ![s].at = l, ![s].proj = p] =
                [thread EXCEPT ![s] = Moved(s, l, p, thread[s].hand, thread[s].guarded)]
<1> DEFINE R == [at : Steps \ {"idle"}, turn : Interactions, proj : StateRows,
                 hand : BOOLEAN, guarded : BOOLEAN]
<1>1. thread[s] \in R
  BY ThreadRecord
<1>2. [thread[s] EXCEPT !.at = l] = Moved(s, l, thread[s].proj, thread[s].hand, thread[s].guarded)
  BY <1>1 DEF Moved, Turn
<1>3. [[thread[s] EXCEPT !.at = l] EXCEPT !.hand = TRUE] =
        Moved(s, l, thread[s].proj, TRUE, thread[s].guarded)
  <2>1. ASSUME NEW h
        PROVE  [Moved(s, l, thread[s].proj, thread[s].hand, thread[s].guarded) EXCEPT !.hand = h] =
                 Moved(s, l, thread[s].proj, h, thread[s].guarded)
    BY DEF Moved
  <2> QED BY <1>2, <2>1
<1>4. ASSUME NEW g PROVE [thread[s] EXCEPT !.guarded = g] =
        Moved(s, thread[s].at, thread[s].proj, thread[s].hand, g)
  BY <1>1 DEF Moved, Turn
<1>5. ASSUME NEW p PROVE [[thread[s] EXCEPT !.at = l] EXCEPT !.proj = p] =
        Moved(s, l, p, thread[s].hand, thread[s].guarded)
  <2>1. [Moved(s, l, thread[s].proj, thread[s].hand, thread[s].guarded) EXCEPT !.proj = p] =
          Moved(s, l, p, thread[s].hand, thread[s].guarded)
    BY DEF Moved
  <2> QED BY <1>2, <2>1
<1> QED BY <1>2, <1>3, <1>4, <1>5

\* A stack's thread moves, in memory only: what holds for it then suffices.
LEMMA StackMoves ==
    ASSUME TurnInv, NEW s \in Stacks, NEW x \in Threads,
           thread[s].at # "publish", thread' = [thread EXCEPT ![s] = x],
           UNCHANGED <<rows, markers, mem, tick, now, exposed, unleased>>,
           lease' = lease \/ (lease = s /\ lease' = None), told \subseteq told', told' \subseteq markers,
           x.at # "publish", x.at = "commit" => x.turn \notin markers,
           x.at \in Running => thread[s].at \in Running /\ x.turn = Turn(s),
           x.at \in Projects => /\ x.proj.version = mem[s].version + 1
                                /\ x.proj.turns = mem[s].turns \cup {x.turn}
                                /\ x.proj.by = x.turn,
           lease' = s => x.at \in Running
    PROVE  TurnInv'
<1>t. RowTypes /\ TurnTypes /\ Bases /\ LeaseIsFresh /\ CommittedTurnsSurvive /\ Markers
  BY DEF TurnInv
<1>1. /\ thread \in [Stacks -> Threads] /\ thread'[s] = x
      /\ \A q \in Stacks : q # s => thread'[q] = thread[q]
  BY <1>t DEF TurnTypes
<1>2. RowTypes' /\ Current(rows)' = Current(rows)
  BY <1>t DEF RowTypes, HasTop, IsTop
<1>3. TurnTypes'
  BY <1>t DEF TurnTypes
<1>4. \A q : Follows(mem[q])' <=> Follows(mem[q])
  BY <1>2 DEF Follows
<1>5. Bases'
  <2>1. \A q \in Stacks : thread'[q].at \in Running => Follows(mem[q])'
    BY <1>t, <1>1, <1>4 DEF Bases
  <2>2. \A q \in Stacks : thread'[q].at \in Projects =>
              /\ thread'[q].proj.version = mem'[q].version + 1
              /\ thread'[q].proj.turns = mem'[q].turns \cup {thread'[q].turn}
              /\ thread'[q].proj.by = thread'[q].turn
    BY <1>t, <1>1 DEF Bases, Turn
  <2>3. tick' # None => /\ tick'.version <= Current(rows)'.version + 1
                        /\ tick'.version = Current(rows)'.version + 1 =>
                             tick'.turns = Current(rows)'.turns
    BY <1>t, <1>2 DEF Bases
  <2> QED BY <2>1, <2>2, <2>3 DEF Bases, Turn
<1>6. LeaseIsFresh'
  <2>1. s # None /\ None \notin Stacks
    BY TurnAssumption DEF TurnAssumption
  <2>2. LeaseNeverLeaked'
    BY <1>t, <1>1, <2>1 DEF LeaseIsFresh, LeaseNeverLeaked, At, Running, Projects, TurnTypes
  <2>3. \A q \in Stacks : lease' = q /\ thread'[q].at # "publish" /\ thread'[q].turn \notin exposed'
             => mem'[q].version = Current(rows)'.version
    <3> SUFFICES ASSUME NEW q \in Stacks, lease' = q, thread'[q].at # "publish",
                        thread'[q].turn \notin exposed'
                 PROVE  mem[q].version = Current(rows).version
      BY <1>2
    <3>1. lease = q
      BY <2>1
    <3>2. CASE q = s
      <4>1. x.turn = Turn(s)
        BY <3>2
      <4> QED BY <1>t, <1>1, <3>1, <3>2, <4>1 DEF LeaseIsFresh, Turn
    <3>3. CASE q # s
      <4>1. thread[q].turn \notin exposed /\ thread[q].at # "publish"
        BY <1>1, <3>3
      <4> QED BY <1>t, <3>1, <4>1 DEF LeaseIsFresh, Turn
    <3> QED BY <3>2, <3>3
  <2> QED BY <2>2, <2>3 DEF LeaseIsFresh, Turn
<1>7. CommittedTurnsSurvive'
  BY <1>t, <1>2 DEF CommittedTurnsSurvive
<1>8. Markers'
  <2>1. \A q \in Stacks : lease' = q => lease = q
    BY TurnAssumption DEF TurnAssumption
  <2>2. \A q \in Stacks :
          /\ thread'[q].at = "commit" /\ lease' = q /\ thread'[q].turn \notin unleased'
               => thread'[q].turn \notin markers'
          /\ thread'[q].at = "publish" => thread'[q].turn \in markers'
    <3>1. ASSUME NEW q \in Stacks, q # s
          PROVE  /\ thread'[q].at = "commit" /\ lease' = q /\ thread'[q].turn \notin unleased'
                      => thread'[q].turn \notin markers'
                 /\ thread'[q].at = "publish" => thread'[q].turn \in markers'
      BY <1>t, <1>1, <2>1, <3>1 DEF Markers, Turn
    <3>2. /\ thread'[s].at = "commit" => thread'[s].turn \notin markers'
          /\ thread'[s].at # "publish"
      BY <1>1
    <3> QED BY <3>1, <3>2
  <2> QED BY <1>t, <2>2 DEF Markers, Turn
<1> QED BY <1>2, <1>3, <1>5, <1>6, <1>7, <1>8 DEF TurnInv

\* An attempt that ends without a commit of its own.
LEMMA StackRests ==
    ASSUME TurnInv, NEW s \in Stacks, thread[s].at # "publish", Free(s), Rest(s),
           UNCHANGED <<rows, markers, mem, tick, now, exposed, unleased>>,
           told \subseteq told', told' \subseteq markers
    PROVE  TurnInv'
<1>1. Idle \in Threads /\ Idle.at = "idle"
  BY DEF Threads, Idle, Thread
<1>2. /\ thread' = [thread EXCEPT ![s] = Idle]
      /\ lease' = lease \/ (lease = s /\ lease' = None)
      /\ lease' # s
  BY TurnAssumption DEF Rest, Free, TurnAssumption
<1>3. Idle.at \notin Running /\ Idle.at \notin Projects
  BY <1>1 DEF Running, Projects
<1> HIDE DEF Idle
<1> QED BY <1>1, <1>2, <1>3, StackMoves

\* An attempt with a projection goes on.
LEMMA StackGoesOn ==
    ASSUME TurnInv, NEW s \in Stacks, thread[s].at \in Projects \ {"publish"},
           NEW l \in Projects \ {"publish"}, NEW h \in BOOLEAN, NEW g \in BOOLEAN,
           thread' = [thread EXCEPT ![s] = Moved(s, l, thread[s].proj, h, g)],
           l = "commit" => Turn(s) \notin markers,
           UNCHANGED <<rows, markers, mem, tick, now, exposed, unleased, told>>,
           lease' = lease \/ Free(s)
    PROVE  TurnInv'
<1> DEFINE x == Moved(s, l, thread[s].proj, h, g)
<1>1. thread \in [Stacks -> Threads] /\ thread[s].at # "idle" /\ thread[s].at # "publish"
      /\ l \in Steps \ {"idle"} /\ told \subseteq markers
  BY DEF TurnInv, TurnTypes, Markers, Projects, Steps
<1>2. x \in Threads /\ x.at = l /\ x.turn = Turn(s) /\ x.proj = thread[s].proj
  BY <1>1, ThreadRecord, MovedRecord
<1>3. x.at # "publish" /\ x.at \in Running /\ thread[s].at \in Running
  BY <1>2 DEF Running
<1>4. /\ thread[s].proj.version = mem[s].version + 1
      /\ thread[s].proj.turns = mem[s].turns \cup {Turn(s)}
      /\ thread[s].proj.by = Turn(s)
  BY DEF TurnInv, Bases
<1>5. lease' = lease \/ (lease = s /\ lease' = None)
  BY DEF Free
<1> HIDE DEF x
<1>6. thread' = [thread EXCEPT ![s] = x]
  BY DEF x
<1>7. /\ x.at = "commit" => x.turn \notin markers
      /\ x.at \in Projects => /\ x.proj.version = mem[s].version + 1
                              /\ x.proj.turns = mem[s].turns \cup {x.turn}
                              /\ x.proj.by = x.turn
  BY <1>2, <1>4
<1> QED BY <1>1, <1>2, <1>3, <1>5, <1>6, <1>7, StackMoves

-----------------------------------------------------------------------------
(* The actions of a stack.                                                 *)

InMemory == UNCHANGED <<rows, markers, mem, tick, now, exposed, unleased>>

LEMMA BeginKeeps ==
    ASSUME TurnInv, NEW s \in Stacks, NEW i \in Interactions, Begin(s, i)
    PROVE  TurnInv'
<1> DEFINE x == Thread("acquire", i)
<1>1. /\ thread[s].at = "idle" /\ thread' = [thread EXCEPT ![s] = x]
      /\ UNCHANGED <<rows, markers, mem, tick, now, exposed, unleased, lease, told>>
  BY DEF Begin, At, tables, bounds, observed
<1>2. Seed \in StateRows
  BY DEF Seed, Row, StateRows
<1>3. x \in Threads /\ x.at = "acquire"
  BY <1>2 DEF Thread, Threads, Steps
<1>4. lease # s
  BY <1>1, TurnAssumption DEF TurnAssumption, TurnInv, LeaseIsFresh, LeaseNeverLeaked, At
<1>5. told \subseteq markers
  BY DEF TurnInv, Markers
<1>6. x.at # "publish" /\ x.at # "commit" /\ x.at \notin Running /\ x.at \notin Projects
  BY <1>3 DEF Running, Projects
<1> HIDE DEF x
<1> QED BY <1>1, <1>3, <1>4, <1>5, <1>6, StackMoves

\* The candidate does not matter here: a run computes the projection on the base.
LEMMA RunKeeps ==
    ASSUME TurnInv, NEW s \in Stacks, Run(s)
    PROVE  TurnInv'
<1>t. thread \in [Stacks -> Threads] /\ mem[s] \in StateRows /\ now \in Nat /\ told \subseteq markers
  BY DEF TurnInv, TurnTypes, RowTypes, Markers
<1>1. /\ thread[s].at = "run"
      /\ UNCHANGED <<rows, markers, mem, tick, now, exposed, unleased, lease, told>>
  BY DEF Run, At, bounds, observed
<1>2. PICK l \in {"open", "policy"} : Projected(s, l)
  BY DEF Run
<1> DEFINE p == Row(mem[s].version + 1, Turn(s), now, mem[s].turns \cup {Turn(s)})
           x == Moved(s, l, p, thread[s].hand, thread[s].guarded)
<1>3. thread[s].at # "idle" /\ l \in Steps \ {"idle"}
  BY <1>1 DEF Steps
<1>4. Turn(s) \in Interactions /\ thread[s].hand \in BOOLEAN /\ thread[s].guarded \in BOOLEAN
  BY <1>t, <1>3, ThreadRecord
<1>5. p \in StateRows /\ p.version = mem[s].version + 1
      /\ p.turns = mem[s].turns \cup {Turn(s)} /\ p.by = Turn(s)
  BY <1>t, <1>4 DEF StateRows, Row
<1>6. thread' = [thread EXCEPT ![s].at = l, ![s].proj = p]
  BY <1>2 DEF Projected
<1> HIDE DEF p
<1>7. thread' = [thread EXCEPT ![s] = x]
  <2>1. \A q : [thread EXCEPT ![s].at = l, ![s].proj = q] =
                [thread EXCEPT ![s] = Moved(s, l, q, thread[s].hand, thread[s].guarded)]
    BY <1>t, <1>3, Updates
  <2>2. [thread EXCEPT ![s].at = l, ![s].proj = p] = [thread EXCEPT ![s] = x]
    BY <2>1, Zenon
  <2> QED BY <1>6, <2>2
<1>8. x \in Threads /\ x.at = l /\ x.turn = Turn(s) /\ x.proj = p
  BY <1>t, <1>3, <1>4, <1>5, MovedRecord
<1> HIDE DEF x
<1>9. /\ x.at # "publish" /\ x.at # "commit" /\ x.at \in Running /\ thread[s].at \in Running
      /\ thread[s].at # "publish"
  BY <1>1, <1>8 DEF Running, Projects
<1>10. /\ x.proj.version = mem[s].version + 1 /\ x.proj.turns = mem[s].turns \cup {x.turn}
       /\ x.proj.by = x.turn
  BY <1>5, <1>8
<1> QED BY <1>t, <1>1, <1>7, <1>8, <1>9, <1>10, StackMoves

\* The ways an attempt ends without a commit of its own.
LEMMA EndsKeep ==
    ASSUME TurnInv, NEW s \in Stacks,
           RunRefused(s) \/ CommitUnguarded(s) \/ CommitReplay(s) \/ CommitFails(s) \/ Abort(s)
    PROVE  TurnInv'
<1>1. told \subseteq markers
  BY DEF TurnInv, Markers
<1>2. CASE RunRefused(s)
  BY <1>1, <1>2, StackRests DEF RunRefused, At, Fail, bounds, observed
<1>3. CASE CommitUnguarded(s)
  BY <1>1, <1>3, StackRests DEF CommitUnguarded, At, Fail, bounds, observed
<1>4. CASE CommitReplay(s)
  <2>1. /\ thread[s].at # "publish" /\ Free(s) /\ Rest(s) /\ InMemory
        /\ told' = told \cup {Turn(s)} /\ Turn(s) \in markers
    BY <1>4 DEF CommitReplay, At, Fail, bounds, InMemory
  <2> QED BY <1>1, <2>1, StackRests DEF InMemory
<1>5. CASE CommitFails(s)
  <2>1. thread[s].at # "publish" /\ Free(s) /\ Rest(s) /\ InMemory /\ UNCHANGED told
    BY <1>5 DEF CommitFails, At, Fail, observed, InMemory
  <2> QED BY <1>1, <2>1, StackRests DEF InMemory
<1>6. CASE Abort(s)
  BY <1>1, <1>6, StackRests DEF Abort, At, Fail, bounds, observed
<1> QED BY <1>2, <1>3, <1>4, <1>5, <1>6

\* The steps of an attempt with a projection, up to the commit.
LEMMA AttemptKeeps ==
    ASSUME TurnInv, NEW s \in Stacks,
           \/ Policy(s) \/ Handoff(s) \/ GuardProse(s) \/ Acknowledge(s)
           \/ Prepare(s) \/ PrepareFault(s) \/ NoMarker(s)
    PROVE  TurnInv'
<1> DEFINE P == Projects \ {"publish"}
           h == thread[s].hand
           g == thread[s].guarded
           p == thread[s].proj
<1>1. thread[s].at \in P
  BY DEF Policy, Handoff, GuardProse, Acknowledge, Prepare, PrepareFault, NoMarker, At, Projects
<1>2. thread \in [Stacks -> Threads] /\ thread[s].at # "idle"
  BY <1>1 DEF TurnInv, TurnTypes, Projects
<1>3. h \in BOOLEAN /\ g \in BOOLEAN
  BY <1>2, ThreadRecord
<1>4. P \subseteq Steps \ {"idle"}
  BY DEF Projects, Steps
<1>5. InMemory /\ UNCHANGED told
  BY DEF Policy, Handoff, GuardProse, Acknowledge, Prepare, PrepareFault, NoMarker,
     tables, bounds, observed, InMemory
<1>6. lease' = lease \/ Free(s)
  BY DEF Policy, Handoff, GuardProse, Acknowledge, Prepare, PrepareFault, NoMarker
<1>7. \A l \in P : (l = "commit" => Turn(s) \notin markers) /\ Goto(s, l) => TurnInv'
  <2> SUFFICES ASSUME NEW l \in P, l = "commit" => Turn(s) \notin markers, Goto(s, l)
               PROVE  TurnInv'
    OBVIOUS
  <2>1. thread' = [thread EXCEPT ![s] = Moved(s, l, p, h, g)]
    BY <1>2, <1>4, Updates DEF Goto
  <2> HIDE DEF h, g
  <2> QED BY <1>1, <1>3, <1>5, <1>6, <2>1, StackGoesOn DEF InMemory
<1>8. CASE Handoff(s)
  <2>1. thread' = [thread EXCEPT ![s].at = "open", ![s].hand = TRUE] /\ "open" \in P
    BY <1>8 DEF Handoff, Projects
  <2>2. thread' = [thread EXCEPT ![s] = Moved(s, "open", p, TRUE, g)]
    BY <1>2, <1>4, <2>1, Updates
  <2> HIDE DEF g
  <2> QED BY <1>1, <1>3, <1>5, <1>6, <2>1, <2>2, StackGoesOn DEF InMemory
<1>9. CASE GuardProse(s)
  <2>1. PICK v \in BOOLEAN : thread' = [thread EXCEPT ![s].guarded = v]
    BY <1>9 DEF GuardProse
  <2>2. thread' = [thread EXCEPT ![s] = Moved(s, thread[s].at, p, h, v)]
    <3>1. [thread EXCEPT ![s].guarded = v] = [thread EXCEPT ![s] = Moved(s, thread[s].at, p, h, v)]
      BY <1>1, <1>2, <1>4, Updates
    <3> QED BY <2>1, <3>1
  <2>3. thread[s].at # "commit"
    BY <1>9 DEF GuardProse, At
  <2> DEFINE l == thread[s].at
  <2>4. l \in P /\ l # "commit" /\ thread' = [thread EXCEPT ![s] = Moved(s, l, p, h, v)]
    BY <1>1, <2>2, <2>3
  <2> HIDE DEF h, l
  <2> QED BY <1>1, <1>3, <1>5, <1>6, <2>4, StackGoesOn DEF InMemory
<1>10. {"open", "handoff", "prepare", "test", "commit"} \subseteq P
  BY DEF Projects
<1>11. CASE Policy(s) \/ Acknowledge(s) \/ Prepare(s) \/ PrepareFault(s)
  <2>1. \E l \in {"open", "handoff", "prepare", "test"} : Goto(s, l)
    BY <1>11 DEF Policy, Acknowledge, Prepare, PrepareFault
  <2> QED BY <1>7, <1>10, <2>1
<1>12. CASE NoMarker(s)
  BY <1>7, <1>10, <1>12 DEF NoMarker
<1> QED BY <1>8, <1>9, <1>11, <1>12

LEMMA ReplayKeeps ==
    ASSUME TurnInv, NEW s \in Stacks, NEW i \in Interactions, Replay(s, i)
    PROVE  TurnInv'
<1>1. /\ UNCHANGED <<rows, markers, lease, thread, mem, tick, now, exposed, unleased>>
      /\ told' = told \cup {i} /\ i \in markers
  BY DEF Replay, tables, bounds
<1> QED BY <1>1 DEF TurnInv, RowTypes, TurnTypes, Bases, LeaseIsFresh, CommittedTurnsSurvive, Markers,
        Follows, LeaseNeverLeaked, At, Turn, HasTop, IsTop

\* The canonical row is a state row.
LEMMA CurrentIsRow ==
    ASSUME RowTypes
    PROVE  Current(rows) \in StateRows /\ Current(rows).version \in Nat \ {0}
<1>1. PICK k \in DOMAIN rows : IsTop(rows, k)
  BY DEF RowTypes, HasTop
<1>2. Current(rows) \in StateRows
  BY <1>1, CurrentIsTop DEF RowTypes
<1> QED BY <1>2 DEF StateRows

\* Nobody holds the lease: the stack takes it, and the canonical row as its base.
LEMMA AcquireKeeps ==
    ASSUME TurnInv, NEW s \in Stacks, Acquire(s)
    PROVE  TurnInv'
<1>t. RowTypes /\ TurnTypes /\ Bases /\ LeaseIsFresh /\ CommittedTurnsSurvive /\ Markers
  BY DEF TurnInv
<1>1. /\ thread[s].at = "acquire" /\ lease = None /\ lease' = s
      /\ mem' = [mem EXCEPT ![s] = Current(rows)]
      /\ thread' = [thread EXCEPT ![s].at = "run"]
      /\ UNCHANGED <<rows, markers, tick, now, exposed, unleased, told>>
  BY DEF Acquire, At, Goto, tables, bounds, observed
<1> DEFINE x == Moved(s, "run", thread[s].proj, thread[s].hand, thread[s].guarded)
<1>2. thread \in [Stacks -> Threads] /\ thread[s].at # "idle" /\ "run" \in Steps \ {"idle"}
  BY <1>t, <1>1 DEF TurnTypes, Steps
<1>3. thread' = [thread EXCEPT ![s] = x]
  BY <1>1, <1>2, Updates
<1>4. x \in Threads /\ x.at = "run"
  BY <1>2, ThreadRecord, MovedRecord
<1> HIDE DEF x
<1>5. /\ thread'[s] = x /\ \A q \in Stacks : q # s => thread'[q] = thread[q]
      /\ mem'[s] = Current(rows) /\ \A q \in Stacks : q # s => mem'[q] = mem[q]
  BY <1>1, <1>2, <1>3, <1>t DEF RowTypes
<1>6. Current(rows) \in StateRows /\ Current(rows).version \in Nat /\ Current(rows)' = Current(rows)
  BY <1>t, <1>1, CurrentIsRow
<1>7. RowTypes'
  BY <1>t, <1>1, <1>6 DEF RowTypes, HasTop, IsTop
<1>8. TurnTypes'
  BY <1>t, <1>1, <1>2, <1>3, <1>4 DEF TurnTypes
<1>9. Bases'
  <2>1. \A q \in Stacks : thread'[q].at \in Running => Follows(mem[q])'
    <3> SUFFICES ASSUME NEW q \in Stacks, thread'[q].at \in Running PROVE Follows(mem[q])'
      OBVIOUS
    <3>1. CASE q = s
      BY <1>5, <1>6, <3>1 DEF Follows
    <3>2. CASE q # s
      BY <1>t, <1>5, <1>6, <3>2 DEF Bases, Follows
    <3> QED BY <3>1, <3>2
  <2>2. \A q \in Stacks : thread'[q].at \in Projects =>
              /\ thread'[q].proj.version = mem'[q].version + 1
              /\ thread'[q].proj.turns = mem'[q].turns \cup {thread'[q].turn}
              /\ thread'[q].proj.by = thread'[q].turn
    <3> SUFFICES ASSUME NEW q \in Stacks, thread'[q].at \in Projects, q # s
                 PROVE  /\ thread'[q].proj.version = mem'[q].version + 1
                        /\ thread'[q].proj.turns = mem'[q].turns \cup {thread'[q].turn}
                        /\ thread'[q].proj.by = thread'[q].turn
      BY <1>4, <1>5 DEF Projects
    <3> QED BY <1>t, <1>5 DEF Bases, Turn
  <2> QED BY <1>t, <1>1, <1>6, <2>1, <2>2 DEF Bases, Turn
<1>10. LeaseIsFresh'
  <2>1. LeaseNeverLeaked'
    BY <1>1, <1>4, <1>5 DEF LeaseNeverLeaked, At
  <2> QED BY <1>1, <1>5, <1>6, <2>1 DEF LeaseIsFresh
<1>11. CommittedTurnsSurvive' /\ Markers'
  <2>1. CommittedTurnsSurvive'
    BY <1>t, <1>1, <1>6 DEF CommittedTurnsSurvive
  <2>2. \A q \in Stacks :
          /\ thread'[q].at = "commit" /\ lease' = q /\ thread'[q].turn \notin unleased'
               => thread'[q].turn \notin markers'
          /\ thread'[q].at = "publish" => thread'[q].turn \in markers'
    BY <1>t, <1>1, <1>4, <1>5 DEF Markers, Turn
  <2> QED BY <1>t, <1>1, <2>1, <2>2 DEF Markers, Turn
<1> QED BY <1>7, <1>8, <1>9, <1>10, <1>11 DEF TurnInv

\* The turn ends with the publication; its interaction has a marker.
LEMMA PublishKeeps ==
    ASSUME TurnInv, NEW s \in Stacks, Publish(s)
    PROVE  TurnInv'
<1>t. RowTypes /\ TurnTypes /\ Bases /\ LeaseIsFresh /\ CommittedTurnsSurvive /\ Markers
  BY DEF TurnInv
<1>1. /\ thread[s].at = "publish" /\ thread' = [thread EXCEPT ![s] = Idle]
      /\ lease' = IF lease = s THEN None ELSE lease
      /\ told' = told \cup {Turn(s)}
      /\ UNCHANGED <<rows, markers, tick, now, exposed, unleased>>
  BY DEF Publish, Fail, Free, Rest, At, bounds
<1>2. PICK row \in {thread[s].proj, Current(rows), mem[s]} : mem' = [mem EXCEPT ![s] = row]
  BY DEF Publish
<1>3. thread \in [Stacks -> Threads] /\ thread[s].at # "idle" /\ Turn(s) \in markers
      /\ Turn(s) \in Interactions
  BY <1>t, <1>1, ThreadRecord DEF TurnTypes, Markers
<1>4. Current(rows) \in StateRows /\ Current(rows)' = Current(rows)
  BY <1>t, <1>1, CurrentIsRow
<1>5. row \in StateRows
  BY <1>t, <1>2, <1>3, <1>4, ThreadRecord DEF RowTypes
<1>6. Idle \in Threads /\ Idle.at = "idle"
  BY DEF Threads, Idle, Thread
<1> HIDE DEF Idle
<1>7. /\ thread'[s] = Idle /\ \A q \in Stacks : q # s => thread'[q] = thread[q] /\ mem'[q] = mem[q]
  BY <1>t, <1>1, <1>2, <1>3 DEF RowTypes
<1>8. RowTypes'
  BY <1>t, <1>1, <1>2, <1>5 DEF RowTypes, HasTop, IsTop
<1>9. TurnTypes'
  BY <1>t, <1>1, <1>3, <1>6 DEF TurnTypes
<1>10. \A q \in Stacks : lease' = q => lease = q /\ q # s
  BY <1>1, TurnAssumption DEF TurnAssumption
<1>11. Bases'
  <2>1. \A q \in Stacks : thread'[q].at \in Running =>
           q # s /\ thread[q].at \in Running /\ thread'[q] = thread[q] /\ mem'[q] = mem[q]
    BY <1>6, <1>7 DEF Running, Projects
  <2>2. \A q \in Stacks : thread'[q].at \in Running => Follows(mem[q])'
    BY <1>t, <1>4, <2>1 DEF Bases, Follows
  <2>3. \A q \in Stacks : thread'[q].at \in Projects =>
              /\ thread'[q].proj.version = mem'[q].version + 1
              /\ thread'[q].proj.turns = mem'[q].turns \cup {thread'[q].turn}
              /\ thread'[q].proj.by = thread'[q].turn
    BY <1>t, <2>1 DEF Bases, Turn, Running
  <2> QED BY <1>t, <1>1, <1>4, <2>2, <2>3 DEF Bases, Turn
<1>12. LeaseIsFresh'
  <2>1. LeaseNeverLeaked'
    <3>1. ASSUME lease' # None PROVE lease' \in Stacks /\ lease' = lease /\ lease' # s
      BY <1>t, <1>1, <3>1, TurnAssumption DEF TurnTypes, TurnAssumption
    <3> QED BY <1>t, <1>7, <3>1 DEF LeaseIsFresh, LeaseNeverLeaked, At
  <2> QED BY <1>t, <1>1, <1>4, <1>7, <1>10, <2>1 DEF LeaseIsFresh, Turn
<1>13. CommittedTurnsSurvive'
  BY <1>t, <1>1, <1>4 DEF CommittedTurnsSurvive
<1>14. Markers'
  <2>1. \A q \in Stacks :
          /\ thread'[q].at = "commit" /\ lease' = q /\ thread'[q].turn \notin unleased'
               => thread'[q].turn \notin markers'
          /\ thread'[q].at = "publish" => thread'[q].turn \in markers'
    BY <1>t, <1>1, <1>6, <1>7, <1>10 DEF Markers, Turn
  <2> QED BY <1>t, <1>1, <1>3, <2>1 DEF Markers, Turn
<1> QED BY <1>8, <1>9, <1>11, <1>12, <1>13, <1>14 DEF TurnInv

-----------------------------------------------------------------------------
(* Rows are written.                                                       *)

\* A row of at most the next version, which has all that the canonical row has
\* if it is of the next one.
Builds(row) ==
    /\ row.version <= Current(rows).version + 1
    /\ row.version = Current(rows).version + 1 => Current(rows).turns \subseteq row.turns

\* Once such a row is written nothing the canonical row had is lost, and bases
\* and projections are still what they were.
LEMMA RowWritten ==
    ASSUME RowTypes, NEW row \in StateRows, Builds(row), rows' = Saved(rows, row)
    PROVE  /\ rows' \in Seq(StateRows) /\ HasTop(rows')
           /\ Current(rows).turns \subseteq Current(rows').turns
           /\ row.version = Current(rows).version + 1 => Current(rows') = row
           /\ \A b \in StateRows : Follows(b) => Follows(b)'
           /\ \A b \in StateRows :
                (/\ b.version <= Current(rows).version + 1
                 /\ b.version = Current(rows).version + 1 => b.turns = Current(rows).turns)
                => (/\ b.version <= Current(rows').version + 1
                    /\ b.version = Current(rows').version + 1 => b.turns = Current(rows').turns)
<1> DEFINE C == Current(rows)
           D == Current(rows')
<1>1. rows \in Seq(StateRows) /\ HasTop(rows)
  BY DEF RowTypes
<1>2. /\ rows' \in Seq(StateRows) /\ HasTop(rows') /\ C \in StateRows /\ D \in StateRows
      /\ D = IF row.version > C.version THEN row ELSE C
  BY <1>1, SavedRow
<1>3. C.version \in Nat /\ row.version \in Nat /\ \A b \in StateRows : b.version \in Nat
  BY <1>2 DEF StateRows
<1>4. /\ row.version <= C.version + 1
      /\ row.version = C.version + 1 => C.turns \subseteq row.turns
  BY DEF Builds
<1>5. \A b : /\ Follows(b) <=> (b.version <= C.version /\ (b.version = C.version => b.turns = C.turns))
             /\ Follows(b)' <=> (b.version <= D.version /\ (b.version = D.version => b.turns = D.turns))
  BY DEF Follows
<1> HIDE DEF C, D
<1>6. CASE row.version > C.version
  <2>1. D = row /\ D.version = C.version + 1
    BY <1>2, <1>3, <1>4, <1>6
  <2>2. ASSUME NEW b \in StateRows, b.version <= C.version + 1
        PROVE  b.version <= D.version /\ b.version <= D.version + 1 /\ b.version # D.version + 1
    BY <1>3, <2>1, <2>2
  <2>3. ASSUME NEW b \in StateRows, b.version <= C.version
        PROVE  b.version <= D.version /\ b.version # D.version
    BY <1>3, <2>1, <2>3
  <2> QED BY <1>2, <1>4, <1>5, <2>1, <2>2, <2>3 DEF C, D
<1>7. CASE ~(row.version > C.version)
  <2>1. D = C /\ row.version # C.version + 1
    BY <1>2, <1>3, <1>7
  <2> QED BY <1>2, <1>5, <2>1 DEF C, D
<1> QED BY <1>6, <1>7

\* Whoever is overtaken is a turn.
LEMMA OvertakenAreTurns ==
    ASSUME TurnTypes, LeaseNeverLeaked
    PROVE  /\ \A s \in Stacks : thread[s].at # "idle" => Overtaken(s) \subseteq Interactions
           /\ Overtaken(None) \subseteq Interactions
<1>1. thread \in [Stacks -> Threads] /\ None \notin Stacks
  BY TurnAssumption DEF TurnTypes, TurnAssumption
<1>2. \A q \in Stacks : lease = q => Turn(q) \in Interactions
  BY <1>1, ThreadRecord DEF LeaseNeverLeaked, At
<1> QED BY <1>1, <1>2, ThreadRecord DEF Overtaken

\* The cognitive commit: the row of the projection and the marker.
LEMMA CommitKeeps ==
    ASSUME TurnInv, NEW s \in Stacks, Commit(s)
    PROVE  TurnInv'
<1> DEFINE p == thread[s].proj
           i == Turn(s)
           x == Moved(s, "publish", p, thread[s].hand, thread[s].guarded)
<1>t. RowTypes /\ TurnTypes /\ Bases /\ LeaseIsFresh /\ CommittedTurnsSurvive /\ Markers
  BY DEF TurnInv
<1>1. /\ thread[s].at = "commit" /\ rows' = Saved(rows, p)
      /\ markers' = markers \cup {i}
      /\ exposed' = exposed \cup Overtaken(s)
      /\ unleased' = IF s = lease THEN unleased ELSE unleased \cup {i}
      /\ thread' = [thread EXCEPT ![s].at = "publish"]
      /\ UNCHANGED <<lease, mem, tick, now, told>>
  BY DEF Commit, At, Goto, Exposes, bounds
<1>2. thread \in [Stacks -> Threads] /\ thread[s].at # "idle" /\ "publish" \in Steps \ {"idle"}
  BY <1>t, <1>1 DEF TurnTypes, Steps
<1>3. p \in StateRows /\ i \in Interactions
  BY <1>2, ThreadRecord
<1>4. thread' = [thread EXCEPT ![s] = x]
  BY <1>1, <1>2, Updates
<1>5. x \in Threads /\ x.at = "publish" /\ x.turn = i /\ x.proj = p
  BY <1>2, ThreadRecord, MovedRecord
<1>6. /\ p.version = mem[s].version + 1 /\ p.turns = mem[s].turns \cup {i} /\ p.by = i
      /\ Follows(mem[s])
  BY <1>t, <1>1 DEF Bases, Running, Projects
<1>7. /\ Current(rows) \in StateRows /\ Current(rows).version \in Nat
      /\ mem[s] \in StateRows /\ mem[s].version \in Nat
  BY <1>t, CurrentIsRow DEF RowTypes, StateRows
<1>8. Builds(p)
  BY <1>6, <1>7 DEF Builds, Follows
<1> HIDE DEF p, i, x
<1>9. /\ rows' \in Seq(StateRows) /\ HasTop(rows')
      /\ Current(rows).turns \subseteq Current(rows').turns
      /\ p.version = Current(rows).version + 1 => Current(rows') = p
      /\ \A b \in StateRows : Follows(b) => Follows(b)'
      /\ \A b \in StateRows :
           (/\ b.version <= Current(rows).version + 1
            /\ b.version = Current(rows).version + 1 => b.turns = Current(rows).turns)
           => (/\ b.version <= Current(rows').version + 1
               /\ b.version = Current(rows').version + 1 => b.turns = Current(rows').turns)
  BY <1>t, <1>1, <1>3, <1>8, RowWritten
<1>10. /\ thread'[s] = x /\ \A q \in Stacks : q # s => thread'[q] = thread[q]
  BY <1>1, <1>2, <1>4
<1>11. \A q \in Stacks : lease = q /\ q # s => Turn(q) \in exposed'
  BY <1>1 DEF Overtaken
<1>12. s # lease => i \in exposed'
  BY <1>1 DEF Overtaken, i
<1>13. RowTypes'
  BY <1>t, <1>1, <1>9 DEF RowTypes
<1>14. TurnTypes'
  <2>1. Overtaken(s) \subseteq Interactions
    BY <1>t, <1>2, OvertakenAreTurns DEF LeaseIsFresh
  <2> QED BY <1>t, <1>1, <1>2, <1>3, <1>4, <1>5, <2>1 DEF TurnTypes
<1>15. Bases'
  <2>1. \A q \in Stacks : thread'[q].at \in Running => thread[q].at \in Running
    BY <1>1, <1>10 DEF Running, Projects
  <2>2. \A q \in Stacks : thread'[q].at \in Running => Follows(mem[q])'
    <3> SUFFICES ASSUME NEW q \in Stacks, thread'[q].at \in Running PROVE Follows(mem[q])'
      OBVIOUS
    <3>1. mem[q] \in StateRows /\ mem'[q] = mem[q] /\ Follows(mem[q])
      BY <1>t, <1>1, <2>1 DEF RowTypes, Bases
    <3>2. \A b \in StateRows : Follows(b) => b.version <= Current(rows').version
              /\ (b.version = Current(rows').version => b.turns = Current(rows').turns)
      BY <1>9 DEF Follows
    <3> QED BY <3>1, <3>2 DEF Follows
  <2>3. \A q \in Stacks : thread'[q].at \in Projects =>
              /\ thread'[q].proj.version = mem'[q].version + 1
              /\ thread'[q].proj.turns = mem'[q].turns \cup {thread'[q].turn}
              /\ thread'[q].proj.by = thread'[q].turn
    BY <1>t, <1>1, <1>5, <1>6, <1>10 DEF Bases, Turn
  <2>4. tick' # None => /\ tick'.version <= Current(rows)'.version + 1
                        /\ tick'.version = Current(rows)'.version + 1 =>
                             tick'.turns = Current(rows)'.turns
    BY <1>t, <1>1, <1>9 DEF Bases, RowTypes
  <2> QED BY <2>2, <2>3, <2>4 DEF Bases, Turn
<1>16. LeaseIsFresh'
  <2>1. LeaseNeverLeaked'
    BY <1>t, <1>1, <1>5, <1>10 DEF LeaseIsFresh, LeaseNeverLeaked, At, TurnTypes
  <2>2. \A q \in Stacks : lease' = q /\ thread'[q].at # "publish" /\ thread'[q].turn \notin exposed'
             => FALSE
    BY <1>1, <1>5, <1>10, <1>11 DEF Turn
  <2> QED BY <2>1, <2>2 DEF LeaseIsFresh, Turn
<1>17. CommittedTurnsSurvive'
  <2> SUFFICES ASSUME NEW j \in markers' \ exposed' PROVE j \in Current(rows').turns
    BY DEF CommittedTurnsSurvive
  <2>1. CASE j \in markers
    BY <1>t, <1>1, <1>9, <2>1 DEF CommittedTurnsSurvive
  <2>2. CASE j = i
    <3>1. s = lease /\ i \notin exposed
      BY <1>1, <1>12, <2>2
    <3>2. mem[s].version = Current(rows).version
      BY <1>t, <1>1, <3>1 DEF LeaseIsFresh, i
    <3> QED BY <1>6, <1>9, <2>2, <3>2
  <2> QED BY <1>1, <2>1, <2>2
<1>18. Markers'
  <2>0. rows \in Seq(StateRows) /\ HasTop(rows)
    BY <1>t DEF RowTypes
  <2>1. /\ \E k \in DOMAIN rows' : rows'[k].by = i
        /\ \A k \in DOMAIN rows' : rows'[k].by # i => k \in DOMAIN rows /\ rows'[k] = rows[k]
        /\ \A k \in DOMAIN rows : k \in DOMAIN rows' /\ rows'[k] = rows[k]
        /\ (\A k \in DOMAIN rows : rows[k].by # i) =>
             \A k, m \in DOMAIN rows' : rows'[k].by = i /\ rows'[m].by = i => k = m
    <3>1. /\ \E k \in DOMAIN rows' : rows'[k].by = p.by
          /\ \A k \in DOMAIN rows' : rows'[k].by # p.by => k \in DOMAIN rows /\ rows'[k] = rows[k]
          /\ \A k \in DOMAIN rows : k \in DOMAIN rows' /\ rows'[k] = rows[k]
          /\ (\A k \in DOMAIN rows : rows[k].by # p.by) =>
               \A k, m \in DOMAIN rows' : rows'[k].by = p.by /\ rows'[m].by = p.by => k = m
      <4> DEFINE ss == Saved(rows, p)
      <4>1. /\ \E k \in DOMAIN ss : ss[k].by = p.by
            /\ \A k \in DOMAIN ss : ss[k].by # p.by => k \in DOMAIN rows /\ ss[k] = rows[k]
            /\ \A k \in DOMAIN rows : k \in DOMAIN ss /\ ss[k] = rows[k]
            /\ (\A k \in DOMAIN rows : rows[k].by # p.by) =>
                 \A k, m \in DOMAIN ss : ss[k].by = p.by /\ ss[m].by = p.by => k = m
        BY <1>3, <2>0, SavedRow
      <4>2. rows' = ss
        BY <1>1
      <4> HIDE DEF ss
      <4> QED BY <4>1, <4>2
    <3> QED BY <1>6, <3>1
  <2>2. \A j \in Interactions : j \in markers' <=> \E k \in DOMAIN rows' : rows'[k].by = j
    BY <1>t, <1>1, <2>1 DEF Markers
  <2>3. \A j \in Interactions \ unleased' : \A k, m \in DOMAIN rows' :
           rows'[k].by = j /\ rows'[m].by = j => k = m
    <3> SUFFICES ASSUME NEW j \in Interactions \ unleased'
                 PROVE  \A k, m \in DOMAIN rows' : rows'[k].by = j /\ rows'[m].by = j => k = m
      OBVIOUS
    <3>1. CASE j # i
      BY <1>t, <1>1, <2>1, <3>1 DEF Markers
    <3>2. CASE j = i
      <4>1. s = lease /\ i \notin unleased
        BY <1>1, <3>2
      <4>2. i \notin markers
        BY <1>t, <1>1, <4>1 DEF Markers, i
      <4> QED BY <1>t, <1>3, <2>1, <3>2, <4>2 DEF Markers
    <3> QED BY <3>1, <3>2
  <2>4. \A q \in Stacks :
          /\ thread'[q].at = "commit" /\ lease' = q /\ thread'[q].turn \notin unleased'
               => thread'[q].turn \notin markers'
          /\ thread'[q].at = "publish" => thread'[q].turn \in markers'
    <3> SUFFICES ASSUME NEW q \in Stacks
                 PROVE  /\ thread'[q].at = "commit" /\ lease' = q /\ thread'[q].turn \notin unleased'
                             => thread'[q].turn \notin markers'
                        /\ thread'[q].at = "publish" => thread'[q].turn \in markers'
      OBVIOUS
    <3>0. markers' = markers \cup {i} /\ unleased \subseteq unleased' /\ lease' = lease
      BY <1>1
    <3>1. CASE q = s
      <4>1. thread'[q].at = "publish" /\ thread'[q].turn = i
        BY <1>5, <1>10, <3>1
      <4> QED BY <3>0, <4>1
    <3>2. CASE q # s
      <4>1. thread'[q] = thread[q]
        BY <1>10, <3>2
      <4>2. lease = q => i \in unleased'
        BY <1>1, <3>2
      <4>3. /\ thread[q].at = "commit" /\ lease = q /\ thread[q].turn \notin unleased
                 => thread[q].turn \notin markers
            /\ thread[q].at = "publish" => thread[q].turn \in markers
        BY <1>t DEF Markers, Turn
      <4>4. ASSUME thread[q].at = "commit", lease = q, thread[q].turn \notin unleased'
            PROVE  thread[q].turn \notin markers'
        BY <3>0, <4>2, <4>3, <4>4
      <4> QED BY <3>0, <4>1, <4>3, <4>4
    <3> QED BY <3>1, <3>2
  <2> QED BY <1>t, <1>1, <2>2, <2>3, <2>4 DEF Markers, Turn
<1> QED BY <1>13, <1>14, <1>15, <1>16, <1>17, <1>18 DEF TurnInv

\* A tick reads the canonical row for a row of its own.
LEMMA TickReadKeeps ==
    ASSUME TurnInv, TickRead
    PROVE  TurnInv'
<1>1. /\ tick' = Row(Current(rows).version + 1, now, now, Current(rows).turns)
      /\ UNCHANGED <<rows, markers, lease, thread, mem, now, told, exposed, unleased>>
  BY DEF TickRead, tables, bounds, observed
<1>2. Current(rows) \in StateRows /\ Current(rows).version \in Nat \ {0} /\ now \in Nat
  BY CurrentIsRow DEF TurnInv, RowTypes
<1>3. /\ tick' \in StateRows /\ tick'.by \in Nat
      /\ tick'.version = Current(rows).version + 1 /\ tick'.turns = Current(rows).turns
  BY <1>1, <1>2 DEF StateRows, Row
<1>4. tick'.version <= Current(rows).version + 1
  BY <1>2, <1>3
<1>5. RowTypes'
  BY <1>1, <1>3 DEF TurnInv, RowTypes, HasTop, IsTop
<1>6. TurnTypes'
  BY <1>1 DEF TurnInv, TurnTypes
<1>7. Bases'
  BY <1>1, <1>3, <1>4 DEF TurnInv, Bases, Follows, Turn
<1>8. LeaseIsFresh' /\ CommittedTurnsSurvive' /\ Markers'
  BY <1>1 DEF TurnInv, LeaseIsFresh, LeaseNeverLeaked, At, Turn, CommittedTurnsSurvive, Markers
<1> QED BY <1>5, <1>6, <1>7, <1>8 DEF TurnInv

\* It writes that row without the lease: the turn that holds it is exposed.
LEMMA TickWriteKeeps ==
    ASSUME TurnInv, TickWrite
    PROVE  TurnInv'
<1>t. RowTypes /\ TurnTypes /\ Bases /\ LeaseIsFresh /\ CommittedTurnsSurvive /\ Markers
  BY DEF TurnInv
<1>1. /\ tick # None /\ rows' = Saved(rows, tick) /\ tick' = None
      /\ exposed' = exposed \cup Overtaken(None)
      /\ UNCHANGED <<markers, lease, thread, mem, now, told, unleased>>
  BY DEF TickWrite, bounds
<1>2. /\ tick \in StateRows /\ tick.by \in Nat
      /\ tick.version <= Current(rows).version + 1
      /\ tick.version = Current(rows).version + 1 => tick.turns = Current(rows).turns
  BY <1>t, <1>1 DEF RowTypes, Bases
<1>3. Builds(tick)
  BY <1>2 DEF Builds
<1>4. /\ rows' \in Seq(StateRows) /\ HasTop(rows')
      /\ Current(rows).turns \subseteq Current(rows').turns
      /\ \A b \in StateRows : Follows(b) => Follows(b)'
  BY <1>t, <1>1, <1>2, <1>3, RowWritten
<1>5. \A q \in Stacks : lease = q => Turn(q) \in exposed'
  BY <1>1, TurnAssumption DEF Overtaken, TurnAssumption
<1>6. RowTypes'
  BY <1>t, <1>1, <1>4 DEF RowTypes
<1>7. TurnTypes'
  <2>1. Overtaken(None) \subseteq Interactions
    BY <1>t, OvertakenAreTurns DEF LeaseIsFresh
  <2> QED BY <1>t, <1>1, <2>1 DEF TurnTypes
<1>8. Bases'
  <2>1. \A q \in Stacks : thread'[q].at \in Running => Follows(mem[q])'
    <3> SUFFICES ASSUME NEW q \in Stacks, thread'[q].at \in Running PROVE Follows(mem[q])'
      OBVIOUS
    <3>1. mem[q] \in StateRows /\ mem'[q] = mem[q] /\ Follows(mem[q])
      BY <1>t, <1>1 DEF RowTypes, Bases
    <3>2. \A b \in StateRows : Follows(b) => b.version <= Current(rows').version
              /\ (b.version = Current(rows').version => b.turns = Current(rows').turns)
      BY <1>4 DEF Follows
    <3> QED BY <3>1, <3>2 DEF Follows
  <2> QED BY <1>t, <1>1, <2>1 DEF Bases, Turn
<1>9. LeaseIsFresh'
  BY <1>t, <1>1, <1>5 DEF LeaseIsFresh, LeaseNeverLeaked, At, Turn
<1>10. CommittedTurnsSurvive'
  BY <1>t, <1>1, <1>4 DEF CommittedTurnsSurvive
<1>11. Markers'
  <2>0. rows \in Seq(StateRows) /\ HasTop(rows)
    BY <1>t DEF RowTypes
  <2>1. /\ \A k \in DOMAIN rows' : rows'[k].by # tick.by => k \in DOMAIN rows /\ rows'[k] = rows[k]
        /\ \A k \in DOMAIN rows : k \in DOMAIN rows' /\ rows'[k] = rows[k]
    <3> DEFINE ss == Saved(rows, tick)
    <3>1. /\ \A k \in DOMAIN ss : ss[k].by # tick.by => k \in DOMAIN rows /\ ss[k] = rows[k]
          /\ \A k \in DOMAIN rows : k \in DOMAIN ss /\ ss[k] = rows[k]
      BY <1>2, <2>0, SavedRow
    <3>2. rows' = ss
      BY <1>1
    <3> HIDE DEF ss
    <3> QED BY <3>1, <3>2
  <2>2. \A i \in Interactions : i # tick.by
    BY <1>2, TurnAssumption DEF TurnAssumption
  <2>3. \A i \in Interactions : i \in markers' <=> \E k \in DOMAIN rows' : rows'[k].by = i
    BY <1>t, <1>1, <2>1, <2>2 DEF Markers
  <2>4. \A i \in Interactions \ unleased' : \A k, m \in DOMAIN rows' :
           rows'[k].by = i /\ rows'[m].by = i => k = m
    BY <1>t, <1>1, <2>1, <2>2 DEF Markers
  <2> QED BY <1>t, <1>1, <2>3, <2>4 DEF Markers, Turn
<1> QED BY <1>6, <1>7, <1>8, <1>9, <1>10, <1>11 DEF TurnInv

\* Time passes.
LEMMA AdvanceKeeps ==
    ASSUME TurnInv, Advance
    PROVE  TurnInv'
<1>1. /\ now' = now + 1
      /\ UNCHANGED <<rows, markers, lease, thread, mem, tick, told, exposed, unleased>>
  BY DEF Advance, tables, observed
<1>2. RowTypes'
  BY <1>1 DEF TurnInv, RowTypes, HasTop, IsTop
<1> QED BY <1>1, <1>2 DEF TurnInv, TurnTypes, Bases, LeaseIsFresh, CommittedTurnsSurvive, Markers,
        Follows, LeaseNeverLeaked, At, Turn

\* The process dies; what is durable stays.
LEMMA CrashKeeps ==
    ASSUME TurnInv, Crash
    PROVE  TurnInv'
<1>1. /\ lease' = None /\ tick' = None
      /\ thread' = [s \in Stacks |-> Idle] /\ mem' = [s \in Stacks |-> Current(rows)]
      /\ UNCHANGED <<rows, markers, now, told, exposed, unleased>>
  BY DEF Crash, tables, observed
<1>2. Current(rows) \in StateRows
  BY CurrentIsRow DEF TurnInv
<1>3. Idle \in Threads /\ Idle.at = "idle"
  BY DEF Threads, Idle, Thread
<1> HIDE DEF Idle
<1>4. RowTypes'
  BY <1>1, <1>2 DEF TurnInv, RowTypes, HasTop, IsTop
<1>5. TurnTypes'
  BY <1>1, <1>3 DEF TurnInv, TurnTypes
<1>6. \A q \in Stacks : thread'[q].at = "idle"
  BY <1>1, <1>3
<1>7. Bases'
  BY <1>1, <1>6 DEF Bases, Running, Projects
<1>8. LeaseIsFresh'
  BY <1>1, TurnAssumption DEF LeaseIsFresh, LeaseNeverLeaked, TurnAssumption
<1>9. CommittedTurnsSurvive'
  BY <1>1 DEF TurnInv, CommittedTurnsSurvive
<1>10. Markers'
  BY <1>1, <1>6 DEF TurnInv, Markers
<1> QED BY <1>4, <1>5, <1>7, <1>8, <1>9, <1>10 DEF TurnInv

-----------------------------------------------------------------------------
\* The seed is the canonical row, and nothing is under way.
LEMMA InitTurn == Init => TurnInv
<1> SUFFICES ASSUME Init PROVE TurnInv
  OBVIOUS
<1>1. Seed \in StateRows /\ Seed.by = None
  BY DEF Seed, Row, StateRows
<1>2. /\ rows = <<Seed>> /\ markers = {} /\ lease = None /\ thread = [s \in Stacks |-> Idle]
      /\ mem = [s \in Stacks |-> Seed] /\ tick = None /\ now = 0
      /\ told = {} /\ exposed = {} /\ unleased = {}
  BY DEF Init
<1>3. Idle \in Threads /\ Idle.at = "idle"
  BY DEF Threads, Idle, Thread
<1> HIDE DEF Idle, Seed
<1>4. rows \in Seq(StateRows) /\ DOMAIN rows = {1} /\ rows[1] = Seed
  BY <1>1, <1>2
<1>5. Seed.version \in Nat
  BY <1>1 DEF StateRows
<1>6. IsTop(rows, 1)
  BY <1>4, <1>5 DEF IsTop
<1>7. RowTypes
  BY <1>1, <1>2, <1>4, <1>6 DEF RowTypes, HasTop
<1>8. TurnTypes
  BY <1>2, <1>3 DEF TurnTypes
<1>9. \A q \in Stacks : thread[q].at = "idle"
  BY <1>2, <1>3
<1>10. Bases /\ LeaseIsFresh /\ CommittedTurnsSurvive
  BY <1>2, <1>9, TurnAssumption
     DEF Bases, Running, Projects, LeaseIsFresh, LeaseNeverLeaked, CommittedTurnsSurvive, TurnAssumption
<1>11. Markers
  BY <1>1, <1>2, <1>4, <1>9, TurnAssumption DEF Markers, TurnAssumption
<1> QED BY <1>7, <1>8, <1>10, <1>11 DEF TurnInv

\* Every step keeps the invariant.
LEMMA TurnStep == TurnInv /\ [Next]_vars => TurnInv'
<1> SUFFICES ASSUME TurnInv, [Next]_vars PROVE TurnInv'
  OBVIOUS
<1>1. CASE UNCHANGED vars
  <2>1. UNCHANGED <<rows, markers, lease, thread, mem, tick, now, told, exposed, unleased>>
    BY <1>1 DEF vars, tables, bounds, observed
  <2>2. RowTypes'
    BY <2>1 DEF TurnInv, RowTypes, HasTop, IsTop
  <2> QED BY <2>1, <2>2 DEF TurnInv, TurnTypes, Bases, LeaseIsFresh, CommittedTurnsSurvive, Markers,
          Follows, LeaseNeverLeaked, At, Turn
<1>2. ASSUME NEW s \in Stacks, Step(s) PROVE TurnInv'
  BY <1>2, AcquireKeeps, RunKeeps, EndsKeep, AttemptKeeps, CommitKeeps, PublishKeeps DEF Step
<1>3. ASSUME NEW s \in Stacks, Host(s) PROVE TurnInv'
  BY <1>3, BeginKeeps, ReplayKeeps, AttemptKeeps, EndsKeep DEF Host
<1>4. ASSUME NEW s \in Stacks, PrepareFault(s) \/ CommitFails(s) PROVE TurnInv'
  BY <1>4, AttemptKeeps, EndsKeep
<1> QED BY <1>1, <1>2, <1>3, <1>4, TickReadKeeps, TickWriteKeeps, AdvanceKeeps, CrashKeeps DEF Next

\* The inductive invariant holds of every run.
THEOREM TurnInvariant == Spec => []TurnInv
  BY InitTurn, TurnStep, PTL DEF Spec

\* A committed turn is never lost to another turn, a retry, a fault or a crash;
\* only who writes without the lease while it is open can overtake it.
THEOREM CommittedTurnsAreKept == Spec => []CommittedTurnsSurvive
<1>1. TurnInv => CommittedTurnsSurvive
  BY DEF TurnInv
<1> QED BY <1>1, TurnInvariant, PTL

\* The lease is never left with a stack that has no turn.
THEOREM LeaseIsReleased == Spec => []LeaseNeverLeaked
<1>1. TurnInv => LeaseNeverLeaked
  BY DEF TurnInv, LeaseIsFresh
<1> QED BY <1>1, TurnInvariant, PTL

\* What a Host was told is committed has its marker and its row for ever.
THEOREM ToldSurvivesCrashes == Spec => []ToldIsDurable
<1>1. TurnInv => ToldIsDurable
  BY DEF TurnInv, TurnTypes, Markers, ToldIsDurable
<1> QED BY <1>1, TurnInvariant, PTL

\* Marker and projected row are admitted together, and once.
THEOREM AdmittedOnce == Spec => []AdmittedOnceWithMarker
<1>1. ASSUME TurnInv, NEW i \in Interactions \ unleased
      PROVE  Cardinality({k \in DOMAIN rows : rows[k].by = i}) = IF i \in markers THEN 1 ELSE 0
  <2> DEFINE K == {k \in DOMAIN rows : rows[k].by = i}
  <2>1. /\ i \in markers <=> K # {}
        /\ \A k, m \in K : k = m
    BY <1>1 DEF TurnInv, Markers
  <2>2. CASE i \in markers
    <3>1. PICK k : k \in K
      BY <2>1, <2>2
    <3>2. K = {k}
      BY <2>1, <3>1
    <3> QED BY <2>2, <3>2, FS_Singleton
  <2>3. CASE i \notin markers
    BY <2>1, <2>3, FS_EmptySet
  <2> QED BY <2>2, <2>3
<1>2. TurnInv => AdmittedOnceWithMarker
  BY <1>1 DEF AdmittedOnceWithMarker
<1> QED BY <1>2, TurnInvariant, PTL

-----------------------------------------------------------------------------
\* The rows of the other tables keep their types.
LEMMA TablesStep == TurnInv /\ TableTypes /\ [Next]_vars => TableTypes'
<1> SUFFICES ASSUME TurnInv, TableTypes, [Next]_vars PROVE TableTypes'
  OBVIOUS
<1>t. thread \in [Stacks -> Threads] /\ now \in Nat
  BY DEF TurnInv, TurnTypes, RowTypes
<1>1. CASE UNCHANGED vars
  BY <1>1 DEF vars, tables, TableTypes
<1>2. ASSUME NEW s \in Stacks, Step(s) PROVE TableTypes'
  <2>1. CASE Acquire(s) \/ NoMarker(s)
    BY <2>1 DEF Acquire, NoMarker, tables, TableTypes
  <2>2. CASE Run(s)
    BY <1>t, <2>2 DEF Run, TableTypes
  <2>3. CASE RunRefused(s) \/ CommitReplay(s) \/ Publish(s)
    BY <2>3 DEF RunRefused, CommitReplay, Publish, Fail, Drop, TableTypes
  <2>4. CASE Policy(s)
    BY <2>4 DEF Policy, TableTypes
  <2>5. CASE Handoff(s)
    BY <2>5 DEF Handoff, TableTypes
  <2>6. CASE Prepare(s)
    BY <2>6 DEF Prepare, TableTypes
  <2>7. CASE Commit(s)
    BY <2>7 DEF Commit, TableTypes
  <2> QED BY <1>2, <2>1, <2>2, <2>3, <2>4, <2>5, <2>6, <2>7 DEF Step
<1>3. ASSUME NEW s \in Stacks, Host(s) PROVE TableTypes'
  <2>1. ASSUME NEW i \in Interactions, Begin(s, i) \/ Replay(s, i) PROVE TableTypes'
    BY <2>1 DEF Begin, Replay, tables, TableTypes
  <2>2. CASE GuardProse(s)
    BY <2>2 DEF GuardProse, TableTypes
  <2>3. CASE Acknowledge(s)
    BY <2>3 DEF Acknowledge, TableTypes
  <2>4. CASE CommitUnguarded(s)
    BY <2>4 DEF CommitUnguarded, Fail, Drop, TableTypes
  <2>5. CASE Abort(s)
    <3>1. Turn(s) \in Interactions
      BY <1>t, <2>5, ThreadRecord DEF Abort, At
    <3> QED BY <2>5, <3>1 DEF Abort, Fail, Drop, TableTypes
  <2> QED BY <1>3, <2>1, <2>2, <2>3, <2>4, <2>5 DEF Host
<1>4. ASSUME NEW s \in Stacks, PrepareFault(s) \/ CommitFails(s) PROVE TableTypes'
  BY <1>4 DEF PrepareFault, CommitFails, Fail, Drop, tables, TableTypes
<1>5. CASE TickRead \/ TickWrite \/ Advance \/ Crash
  BY <1>5 DEF TickRead, TickWrite, Advance, Crash, tables, TableTypes
<1> QED BY <1>1, <1>2, <1>3, <1>4, <1>5 DEF Next

\* Everything has the type of the table, or of the field of the process.
THEOREM TurnTypeCorrect == Spec => []TypeOK
<1>1. Init => TableTypes
  BY DEF Init, TableTypes
<1>2. TurnInv /\ TableTypes => TypeOK
  <2> SUFFICES ASSUME TurnInv, TableTypes PROVE TypeOK
    OBVIOUS
  <2>1. \A k \in DOMAIN rows : /\ rows[k].version \in Nat \ {0} /\ rows[k].at \in Nat
                               /\ rows[k].turns \subseteq Interactions
    <3>1. \A k \in DOMAIN rows : rows[k] \in StateRows
      BY DEF TurnInv, RowTypes
    <3> QED BY <3>1 DEF StateRows
  <2>2. \A s \in Stacks :
          /\ thread[s].at \in Steps
          /\ IF At(s, "idle") THEN thread[s] = Idle ELSE Turn(s) \in Interactions
          /\ thread[s].hand \in BOOLEAN /\ thread[s].guarded \in BOOLEAN
    <3> SUFFICES ASSUME NEW s \in Stacks
                 PROVE  /\ thread[s].at \in Steps
                        /\ IF At(s, "idle") THEN thread[s] = Idle ELSE Turn(s) \in Interactions
                        /\ thread[s].hand \in BOOLEAN /\ thread[s].guarded \in BOOLEAN
      OBVIOUS
    <3>1. thread \in [Stacks -> Threads]
      BY DEF TurnInv, TurnTypes
    <3>2. CASE thread[s].at = "idle"
      <4>1. thread[s] = Idle
        BY <3>1, <3>2 DEF Threads
      <4> QED BY <4>1, <3>2 DEF Idle, Thread, At, Steps
    <3>3. CASE thread[s].at # "idle"
      BY <3>1, <3>3, ThreadRecord DEF At
    <3> QED BY <3>2, <3>3
  <2> QED BY <2>1, <2>2 DEF TypeOK, TableTypes, TurnInv, TurnTypes
<1> QED BY <1>1, <1>2, TablesStep, TurnInvariant, PTL DEF Spec

-----------------------------------------------------------------------------
(* The surface handoff.                                                    *)

\* Nothing is handed off when the interaction begins.
LEMMA InitSurface == SurfaceInit => SurfaceInv
  BY SurfaceAssumption
  DEF SurfaceAssumption, SurfaceInit, SurfaceInv, SurfaceTypeOK, TurnKnows, AtHand, HandoffSteps,
      AcknowledgedWasGuarded, NoRequest, NoReceipt, Unopened, NoVerdict, Verdicts, DraftNos

\* Every step of the handoff keeps what the turn knows of the rows.
LEMMA NextSurface == SurfaceInv /\ [SurfaceNext]_surfaceVars => SurfaceInv'
<1> SUFFICES ASSUME SurfaceInv, [SurfaceNext]_surfaceVars PROVE SurfaceInv'
  OBVIOUS
<1> USE SurfaceAssumption
    DEF SurfaceAssumption, SurfaceInv, SurfaceTypeOK, TurnKnows, AtHand, HandTo, EndsTurn,
        HandoffSteps, AcknowledgedWasGuarded, NoReceipt, Unopened, NoVerdict, Verdicts, DraftNos
<1>t. /\ hostTurn.at \in HandoffSteps /\ hostTurn.hand \in BOOLEAN /\ hostTurn.guarded \in BOOLEAN
      /\ surfaceRow.attempts \in 0 .. MaxDrafts /\ surfaceRow.created \in Nat
      /\ surfaceRow.state \in {"ABSENT", "PENDING", "IN_FLIGHT", "ACCEPTED"}
      /\ surfaceReceipt.attempt \in 0 .. MaxDrafts
  OBVIOUS
<1>1. CASE OpenTurn \/ RunQuietly
  BY <1>1 DEF OpenTurn, RunQuietly, RowsStay
<1>2. CASE HandOff
  <2>1. /\ UNCHANGED <<guardRows, surfaceReceipt, handedOff, clock>>
        /\ hostTurn.at = "run"
    BY <1>2 DEF HandOff
  <2>2. CASE surfaceRow = NoRequest /\ surfaceRow' = [state |-> "PENDING", attempts |-> 0, created |-> clock]
             /\ hostTurn' = [hostTurn EXCEPT !.at = "open", !.hand = TRUE]
    <3>1. /\ surfaceRow'.attempts = 0 /\ surfaceRow'.state = "PENDING" /\ surfaceRow.attempts = 0
          /\ hostTurn'.at = "open" /\ hostTurn'.hand /\ hostTurn'.guarded = hostTurn.guarded
      BY <2>2 DEF NoRequest
    <3>2. SurfaceTypeOK'
      <4>1. surfaceRow' \in [state : {"ABSENT", "PENDING", "IN_FLIGHT", "ACCEPTED"},
                             attempts : 0 .. MaxDrafts, created : Nat]
        BY <2>2
      <4> QED BY <2>1, <2>2, <4>1
    <3> QED BY <2>1, <3>1, <3>2
  <2>3. CASE hostTurn' = [hostTurn EXCEPT !.at = "open", !.hand = TRUE] /\ UNCHANGED surfaceRow
    BY <2>1, <2>3
  <2>4. CASE EndsTurn /\ UNCHANGED surfaceRow
    BY <2>1, <2>4
  <2> QED BY <1>2, <2>2, <2>3, <2>4 DEF HandOff
<1>3. CASE GuardDraft
  <2>1. /\ UNCHANGED <<surfaceRow, guardRows, surfaceReceipt, handedOff, clock>>
        /\ hostTurn.at = "open" /\ hostTurn.hand
    BY <1>3 DEF GuardDraft, RowsStay
  <2>2. ASSUME NEW st \in {"launch", "count"}, NEW v \in Verdicts,
               hostTurn' = [hostTurn EXCEPT !.at = st, !.guarded = FALSE, !.verdict = v],
               surfaceRow.state \in {"PENDING", "IN_FLIGHT"}, surfaceRow.attempts < MaxDrafts,
               st = "count" => surfaceRow.state = "IN_FLIGHT"
        PROVE  SurfaceInv'
    <3>1. /\ hostTurn'.at = st /\ hostTurn'.hand = hostTurn.hand /\ hostTurn'.guarded = FALSE
          /\ SurfaceTypeOK'
      BY <2>1, <2>2
    <3> QED BY <2>1, <2>2, <3>1
  <2>3. CASE hostTurn' = [hostTurn EXCEPT !.guarded = FALSE]
    <3>1. /\ hostTurn'.at = "open" /\ hostTurn'.hand = hostTurn.hand
          /\ hostTurn'.guarded = FALSE /\ SurfaceTypeOK'
      BY <2>1, <2>3
    <3> QED BY <2>1, <3>1
  <2>4. CASE /\ surfaceRow.state \in {"PENDING", "IN_FLIGHT"} /\ surfaceRow.attempts < MaxDrafts
             /\ \E v \in Verdicts :
                  hostTurn' = [hostTurn EXCEPT !.at = IF surfaceRow.state = "PENDING"
                                                      THEN "launch" ELSE "count",
                                               !.guarded = FALSE, !.verdict = v]
    <3>1. PICK v \in Verdicts :
            hostTurn' = [hostTurn EXCEPT !.at = IF surfaceRow.state = "PENDING"
                                                THEN "launch" ELSE "count",
                                         !.guarded = FALSE, !.verdict = v]
      BY <2>4
    <3> QED BY <2>2, <2>4, <3>1
  <2> QED BY <1>3, <2>3, <2>4 DEF GuardDraft
<1>4. CASE LaunchHandoff
  BY <1>4 DEF LaunchHandoff
<1>5. CASE CountDraft
  <2>1. /\ UNCHANGED <<guardRows, surfaceReceipt, handedOff, clock>>
        /\ hostTurn' = [hostTurn EXCEPT !.at = "log"] /\ hostTurn.at = "count"
        /\ surfaceRow' = [surfaceRow EXCEPT !.attempts = surfaceRow.attempts + 1]
    BY <1>5 DEF CountDraft
  <2>2. /\ surfaceRow'.attempts = surfaceRow.attempts + 1 /\ surfaceRow'.state = surfaceRow.state
        /\ hostTurn'.at = "log" /\ hostTurn'.guarded = hostTurn.guarded
        /\ hostTurn'.hand = hostTurn.hand /\ hostTurn.hand
        /\ ~hostTurn.guarded /\ surfaceRow.attempts < MaxDrafts
        /\ surfaceRow.state = "IN_FLIGHT"
    BY <2>1
  <2>3. SurfaceTypeOK'
    <3>1. surfaceRow.attempts + 1 \in 0 .. MaxDrafts
      BY <1>t, <2>2
    <3>2. surfaceRow' \in [state : {"ABSENT", "PENDING", "IN_FLIGHT", "ACCEPTED"},
                           attempts : 0 .. MaxDrafts, created : Nat]
      BY <2>1, <3>1
    <3> QED BY <2>1, <3>2
  <2>4. AcknowledgedWasGuarded'
    BY <2>1, <2>2
  <2>5. TurnKnows'
    <3>1. surfaceReceipt'.attempt < surfaceRow'.attempts
      BY <1>t, <2>1, <2>2
    <3> QED BY <2>1, <2>2, <3>1
  <2> QED BY <1>t, <2>1, <2>2, <2>3, <2>4, <2>5
<1>6. CASE LogDraft
  <2> DEFINE n == surfaceRow.attempts
  <2>1. /\ UNCHANGED <<surfaceRow, surfaceReceipt, handedOff, clock>>
        /\ guardRows' = [guardRows EXCEPT ![n] = hostTurn.verdict] /\ hostTurn.at = "log"
        /\ hostTurn' = [hostTurn EXCEPT !.at = "open", !.guarded = hostTurn.verdict = "accept",
                                        !.verdict = NoVerdict]
    BY <1>6 DEF LogDraft
  <2>2. n \in DraftNos /\ surfaceReceipt.attempt < n
    BY <1>t, <2>1
  <2>3. /\ guardRows'[n] = hostTurn.verdict
        /\ guardRows'[surfaceReceipt.attempt] = guardRows[surfaceReceipt.attempt]
        /\ hostTurn'.at = "open" /\ hostTurn'.hand = hostTurn.hand
        /\ hostTurn'.guarded = (hostTurn.verdict = "accept")
    BY <1>t, <2>1, <2>2
  <2>4. SurfaceTypeOK'
    BY <2>1, <2>2
  <2>5. hostTurn.hand
    BY <2>1
  <2>6. AcknowledgedWasGuarded'
    BY <2>1, <2>3
  <2>7. TurnKnows'
    BY <1>t, <2>1, <2>2, <2>3, <2>5
  <2> QED BY <1>t, <2>1, <2>3, <2>4, <2>6, <2>7
<1>7. CASE AckHandoff
  <2>1. UNCHANGED <<surfaceRow, guardRows, surfaceReceipt, handedOff, clock>> /\ hostTurn.at = "open"
    BY <1>7 DEF AckHandoff, RowsStay
  <2>2. ASSUME NEW st \in {"commit", "receipt"}, hostTurn' = [hostTurn EXCEPT !.at = st],
               hostTurn.hand => hostTurn.guarded, st = "receipt" => hostTurn.hand,
               st = "commit" /\ hostTurn.hand => surfaceRow.state = "ACCEPTED"
        PROVE  SurfaceInv'
    BY <2>1, <2>2
  <2>3. CASE EndsTurn
    BY <2>1, <2>3
  <2>4. CASE ~hostTurn.hand /\ HandTo("commit")
    BY <2>2, <2>4
  <2>5. CASE /\ hostTurn.hand /\ hostTurn.guarded
             /\ HandTo(IF surfaceRow.state = "ACCEPTED" THEN "commit" ELSE "receipt")
    BY <2>2, <2>5
  <2> QED BY <1>7, <2>3, <2>4, <2>5 DEF AckHandoff
<1>8. CASE SaveReceipt
  <2> DEFINE receipt == [at |-> clock, attempt |-> surfaceRow.attempts]
  <2>1. /\ UNCHANGED <<surfaceRow, guardRows, handedOff, clock>> /\ hostTurn.at = "receipt"
    BY <1>8 DEF SaveReceipt
  <2>2. CASE surfaceReceipt' = receipt /\ hostTurn' = [hostTurn EXCEPT !.at = "accepted"]
    <3>1. /\ surfaceReceipt'.attempt = surfaceRow.attempts /\ surfaceReceipt'.at = clock
          /\ hostTurn'.at = "accepted" /\ hostTurn'.guarded = hostTurn.guarded
          /\ hostTurn'.hand = hostTurn.hand
      BY <2>2
    <3>2. surfaceReceipt' # NoReceipt
      BY <3>1
    <3>3. SurfaceTypeOK'
      <4>1. surfaceReceipt' \in [at : Nat, attempt : 0 .. MaxDrafts]
        BY <1>t, <2>2
      <4> QED BY <2>1, <2>2, <4>1
    <3> QED BY <1>t, <2>1, <3>1, <3>2, <3>3
  <2>3. CASE UNCHANGED surfaceReceipt /\ EndsTurn
    BY <2>1, <2>3
  <2> QED BY <1>8, <2>2, <2>3 DEF SaveReceipt
<1>9. CASE AcceptHandoff
  <2>1. /\ UNCHANGED <<guardRows, surfaceReceipt, handedOff, clock>>
        /\ hostTurn' = [hostTurn EXCEPT !.at = "commit"] /\ hostTurn.at = "accepted"
        /\ surfaceRow' = [surfaceRow EXCEPT !.state = "ACCEPTED"]
    BY <1>9 DEF AcceptHandoff
  <2>2. /\ surfaceRow'.attempts = surfaceRow.attempts /\ surfaceRow'.state = "ACCEPTED"
        /\ hostTurn'.at = "commit" /\ hostTurn'.guarded = hostTurn.guarded
        /\ hostTurn'.hand = hostTurn.hand
    BY <2>1
  <2>3. SurfaceTypeOK'
    BY <2>1
  <2> QED BY <1>t, <2>1, <2>2, <2>3
<1>10. CASE CommitHandoff
  BY <1>10 DEF CommitHandoff
<1>11. CASE StorageRaises \/ HandoffLost
  <2>1. UNCHANGED <<surfaceRow, guardRows, surfaceReceipt, handedOff, clock>> /\ hostTurn.at # "off"
    BY <1>11 DEF StorageRaises, HandoffLost, RowsStay
  <2>2. CASE hostTurn' = [hostTurn EXCEPT !.at = "open"]
    BY <2>1, <2>2
  <2>3. CASE EndsTurn
    BY <2>1, <2>3
  <2> QED BY <1>11, <2>2, <2>3 DEF StorageRaises, HandoffLost
<1>12. CASE ClockMoves
  BY <1>12 DEF ClockMoves
<1>13. CASE UNCHANGED surfaceVars
  BY <1>13 DEF surfaceVars
<1> QED
  BY <1>1, <1>2, <1>3, <1>4, <1>5, <1>6, <1>7, <1>8, <1>9, <1>10, <1>11, <1>12, <1>13
  DEF SurfaceNext

\* The chain from the commit to the guard, through any number of drafts,
\* attempts, raised calls and deaths.
THEOREM HandoffChain == SurfaceSpec => []AcknowledgedWasGuarded
<1>1. SurfaceInv => AcknowledgedWasGuarded
  BY DEF SurfaceInv
<1> QED BY <1>1, InitSurface, NextSurface, PTL DEF SurfaceSpec
==============================================================================
