------------------------------ MODULE StateProofs ------------------------------
(***************************************************************************)
(* Theorems about what a turn leaves in the canonical state, each for any  *)
(* number of turns, rows, failed writes and crashes: accepted appraisals   *)
(* (AppraisalPlane), the slow window (SlowPlasticity) and the factual      *)
(* state (FactualState).                                                   *)
(***************************************************************************)
EXTENDS AppraisalPlane, SlowPlasticity, FactualState, FiniteSetTheorems, TLAPS

-----------------------------------------------------------------------------
(* Accepted appraisals: an acceptance is evaluated once, one of each       *)
(* candidate is in force, and a candidate is applied exactly once, with    *)
(* the marker. For any interactions, candidates, recipes and histories.    *)


Effects == [from : Acceptances, history : Histories]
Turns   == [of : Exchanges, history : Histories, cached : SUBSET Acceptances,
            todo : SUBSET Candidates, held : SUBSET Acceptances,
            effects : SUBSET Effects, slow : SUBSET Acceptances, gated : BOOLEAN]

\* The journal: what was evaluated was accepted, once, and one is in force.
JournalInv ==
    /\ evaluations \subseteq Acceptances
    /\ \A p \in projections : p.from \in evaluations /\ p.history \in Histories
    /\ supersessions \subseteq Acceptances \X Acceptances
    /\ EvaluatedOnce /\ OneInForce

\* The acceptance in hand is the next to be evaluated, and it has not been.
HeldInv(t) ==
    /\ \A x \in t.held : /\ x.of = t.of /\ x.candidate \in t.todo
                         /\ x \in evaluations /\ ~IsProjected(x)
    /\ \A x, y \in t.held : x = y

\* What is left to route: of a replay, cached candidates; of a first attempt,
\* candidates nothing was accepted for.
TodoInv(t) ==
    /\ t.gated => t.todo = {}
    /\ \A x \in t.cached : x.of = t.of /\ x \in evaluations
    /\ t.cached = {} => \A x \in evaluations : x.of = t.of /\ x.candidate \in t.todo =>
                            \E y \in t.held : y.candidate = x.candidate

\* Each candidate has one effect, and an accepted one that is not routed has it.
EffectsInv(t) ==
    /\ \A e \in t.effects : e.from.of = t.of /\ e.from.candidate \notin t.todo
    /\ \A e, f \in t.effects : e.from.candidate = f.from.candidate => e = f
    /\ \A x \in evaluations : x.of = t.of /\ x.candidate \notin t.todo =>
           \E e \in t.effects : e.from.candidate = x.candidate

TurnInv(t) == t \in Turns /\ HeldInv(t) /\ TodoInv(t) /\ EffectsInv(t)

ApplicationInv ==
    /\ admitted \subseteq Exchanges
    /\ applications \subseteq [from : Acceptances, history : Histories, group : {"fast", "both"}]
    /\ AppliedOnce

AppraisalInv ==
    JournalInv /\ ApplicationInv /\ (Appraising => TurnInv(appraising))

-----------------------------------------------------------------------------
LEMMA InitAppraisal == AppraisalInit => AppraisalInv
  BY DEF AppraisalInit, AppraisalInv, JournalInv, ApplicationInv, EvaluatedOnce, OneInForce,
         AppliedOnce, Appraising

\* A step that leaves the journal alone leaves what is in force.
LEMMA JournalUntouched ==
    ASSUME JournalInv, UNCHANGED journalVars
    PROVE  JournalInv'
  BY DEF JournalInv, journalVars, EvaluatedOnce, OneInForce, IsCurrent, Successors

LEMMA ApplicationsUntouched ==
    ASSUME ApplicationInv, UNCHANGED <<admitted, applications>>
    PROVE  ApplicationInv'
  BY DEF ApplicationInv, AppliedOnce

\* Accepted candidates are those with one in force.
LEMMA SomeInForce ==
    ASSUME JournalInv, NEW x \in evaluations
    PROVE  \E y \in AcceptedFor(x.of) : y.candidate = x.candidate
  BY DEF JournalInv, OneInForce, AcceptedFor, Same

LEMMA BeginKeeps ==
    ASSUME AppraisalInv, NEW i \in Exchanges, NEW h \in Histories, BeginTransition(i, h)
    PROVE  AppraisalInv'
<1> USE AppraisalAssumption
<1>1. JournalInv' /\ ApplicationInv'
  BY JournalUntouched, ApplicationsUntouched DEF AppraisalInv, BeginTransition
<1>2. PICK routed \in (IF AcceptedFor(i) = {} THEN SUBSET Found[i]
                                              ELSE {CandidatesOf(AcceptedFor(i))}) :
        appraising' = [of |-> i, history |-> h, cached |-> AcceptedFor(i), todo |-> routed,
                       held |-> {}, effects |-> {}, slow |-> {}, gated |-> FALSE]
  BY DEF BeginTransition
<1>3. AcceptedFor(i) \subseteq evaluations /\ \A x \in AcceptedFor(i) : x.of = i
  BY DEF AcceptedFor
<1>4. evaluations \subseteq Acceptances /\ \A x \in Acceptances : x.candidate \in Candidates
  BY DEF AppraisalInv, JournalInv, Acceptances
<1>5. routed \subseteq Candidates
  BY <1>3, <1>4 DEF CandidatesOf
<1>6. appraising' \in Turns
  BY <1>2, <1>3, <1>4, <1>5 DEF Turns
<1>7. \A x \in evaluations : x.of = i => x.candidate \in CandidatesOf(AcceptedFor(i))
  BY SomeInForce DEF AppraisalInv, CandidatesOf
<1>8. AcceptedFor(i) = {} => \A x \in evaluations : x.of # i
  BY <1>7 DEF CandidatesOf
<1>9. UNCHANGED <<evaluations, projections>>
  BY DEF BeginTransition, journalVars
<1>10. TurnInv(appraising)'
  <2>1. HeldInv(appraising)'
    BY <1>2 DEF HeldInv, IsProjected
  <2>2. TodoInv(appraising)'
    BY <1>2, <1>3, <1>8, <1>9 DEF TodoInv
  <2>3. EffectsInv(appraising)'
    BY <1>2, <1>7, <1>8, <1>9 DEF EffectsInv
  <2> QED BY <1>6, <2>1, <2>2, <2>3 DEF TurnInv
<1> QED BY <1>1, <1>10 DEF AppraisalInv

\* The turn after a candidate was settled, whatever became of the journal's
\* projections.
LEMMA SettlesKeeps ==
    ASSUME AppraisalInv, Appraising, UNCHANGED evaluations,
           NEW x \in Acceptances, NEW h \in Histories,
           x.of = appraising.of, x.candidate \in appraising.todo,
           \A y \in appraising.held : y.candidate = x.candidate,
           Settles(x, h)
    PROVE  TurnInv(appraising)'
<1> DEFINE t == appraising
           u == appraising'
           new == [from |-> x, history |-> h]
<1>1. /\ t \in Turns /\ TodoInv(t) /\ EffectsInv(t) /\ HeldInv(t)
  BY DEF AppraisalInv, TurnInv
<1>2. u = [t EXCEPT !.todo = t.todo \ {x.candidate}, !.held = {}, !.effects = t.effects \cup {new}]
  BY DEF Settles
<1>3. new \in Effects
  BY DEF Effects
<1>4. /\ u \in Turns
      /\ u.of = t.of /\ u.cached = t.cached /\ u.gated = t.gated
      /\ u.todo = t.todo \ {x.candidate} /\ u.held = {} /\ u.effects = t.effects \cup {new}
  BY <1>1, <1>2, <1>3 DEF Turns
<1>5. HeldInv(appraising)'
  BY <1>4 DEF HeldInv, IsProjected
<1>6. TodoInv(appraising)'
  BY <1>1, <1>4 DEF TodoInv
<1>7. EffectsInv(appraising)'
  <2>1. \A e \in u.effects : e.from.of = u.of /\ e.from.candidate \notin u.todo
    BY <1>1, <1>4 DEF EffectsInv
  <2>2. \A e, f \in u.effects : e.from.candidate = f.from.candidate => e = f
    BY <1>1, <1>4 DEF EffectsInv
  <2>3. ASSUME NEW y \in evaluations, y.of = u.of, y.candidate \notin u.todo
        PROVE  \E e \in u.effects : e.from.candidate = y.candidate
    <3>1. CASE y.candidate = x.candidate
      <4>1. new \in u.effects /\ new.from = x
        BY <1>4
      <4> HIDE DEF new
      <4> QED BY <3>1, <4>1
    <3>2. CASE y.candidate # x.candidate
      BY <1>1, <1>4, <2>3, <3>2 DEF EffectsInv
    <3> QED BY <3>1, <3>2
  <2> QED BY <2>1, <2>2, <2>3 DEF EffectsInv
<1> QED BY <1>4, <1>5, <1>6, <1>7 DEF TurnInv

LEMMA ReplayKeeps ==
    ASSUME AppraisalInv, NEW c \in Candidates, ReplayProjection(c)
    PROVE  AppraisalInv'
<1>1. JournalInv' /\ ApplicationInv'
  BY JournalUntouched, ApplicationsUntouched DEF AppraisalInv, ReplayProjection
<1>2. PICK x \in appraising.cached :
        \E p \in Original(x) : x.candidate = c /\ Settles(x, p.history)
  BY DEF ReplayProjection
<1>p. PICK p \in Original(x) : x.candidate = c /\ Settles(x, p.history)
  BY <1>2
<1>3. Appraising /\ c \in appraising.todo /\ appraising.held = {} /\ UNCHANGED evaluations
  BY DEF ReplayProjection, NextCandidate, journalVars
<1>4. x \in Acceptances /\ x.of = appraising.of
  BY <1>3 DEF AppraisalInv, JournalInv, TurnInv, TodoInv
<1>5. p.history \in Histories
  BY DEF AppraisalInv, JournalInv, Original
<1>6. TurnInv(appraising)'
  BY <1>p, <1>3, <1>4, <1>5, SettlesKeeps
<1> QED BY <1>1, <1>6 DEF AppraisalInv

LEMMA MaterializeKeeps ==
    ASSUME AppraisalInv, MaterializeProjection
    PROVE  AppraisalInv'
<1>1. ApplicationInv'
  BY ApplicationsUntouched DEF AppraisalInv, MaterializeProjection
<1>2. PICK x \in appraising.held :
        Settles(x, appraising.history) /\ Materializes(x, appraising.history)
  BY DEF MaterializeProjection
<1>3. /\ Appraising /\ TurnInv(appraising) /\ JournalInv
      /\ UNCHANGED <<evaluations, supersessions>>
  BY DEF MaterializeProjection, AppraisalInv
<1>4. /\ x \in Acceptances /\ x \in evaluations /\ ~IsProjected(x)
      /\ x.of = appraising.of /\ x.candidate \in appraising.todo
      /\ appraising.history \in Histories
      /\ \A y \in appraising.held : y.candidate = x.candidate
  BY <1>2, <1>3 DEF TurnInv, HeldInv, Turns
<1>5. TurnInv(appraising)'
  BY <1>2, <1>3, <1>4, SettlesKeeps
<1>6. PICK n : projections' = projections \cup
                  {[from |-> x, history |-> appraising.history, row |-> n]}
  BY <1>2, <1>4 DEF Materializes, IsProjected
<1>7. JournalInv'
  <2>1. EvaluatedOnce'
    BY <1>3, <1>4, <1>6 DEF JournalInv, EvaluatedOnce, IsProjected
  <2>2. OneInForce'
    BY <1>3 DEF JournalInv, OneInForce, IsCurrent, Successors
  <2> QED BY <1>3, <1>4, <1>6, <2>1, <2>2 DEF JournalInv
<1> QED BY <1>1, <1>5, <1>7 DEF AppraisalInv

\* An acceptance that is stored is the one in force of its candidate.
LEMMA PersistKeeps ==
    ASSUME AppraisalInv, Appraising, NEW x \in Acceptances,
           x.of = appraising.of, x.candidate \in appraising.todo,
           appraising.held = {}, ~IsProjected(x), PersistAcceptance(x)
    PROVE  AppraisalInv'
<1> DEFINE t == appraising
           u == appraising'
<1>1. ApplicationInv'
  BY ApplicationsUntouched DEF AppraisalInv, PersistAcceptance
<1>2. /\ JournalInv /\ t \in Turns /\ TodoInv(t) /\ EffectsInv(t)
      /\ evaluations' = evaluations \cup {x} /\ UNCHANGED <<projections, supersessions>>
      /\ u = [t EXCEPT !.held = {x}]
      /\ Successors(x) = {}
      /\ \A y \in evaluations : Same(x, y) /\ IsCurrent(y) => y = x
  BY DEF AppraisalInv, TurnInv, PersistAcceptance
<1>3. JournalInv'
  <2>1. \A y : Successors(y)' = Successors(y)
    BY <1>2 DEF Successors
  <2>2. \A y \in evaluations : Same(x, y) => x \in evaluations
    BY <1>2 DEF JournalInv, OneInForce, IsCurrent, Same
  <2>3. OneInForce'
    <3> SUFFICES ASSUME NEW y \in evaluations'
                 PROVE  \E z \in evaluations' :
                          /\ Same(y, z) /\ IsCurrent(z)'
                          /\ \A w \in evaluations' : Same(y, w) /\ IsCurrent(w)' => w = z
      BY DEF OneInForce, Same
    <3>1. CASE x \in evaluations
      <4>1. evaluations' = evaluations
        BY <1>2, <3>1
      <4>2. \A w : IsCurrent(w)' <=> IsCurrent(w)
        BY <2>1, <4>1 DEF IsCurrent
      <4> QED BY <1>2, <4>1, <4>2 DEF JournalInv, OneInForce
    <3>2. CASE x \notin evaluations /\ y = x
      <4>1. \A w \in evaluations : ~Same(x, w)
        BY <2>2, <3>2
      <4> QED BY <1>2, <2>1, <3>2, <4>1 DEF IsCurrent, Same
    <3>3. CASE x \notin evaluations /\ y # x
      <4>1. y \in evaluations /\ ~Same(x, y) /\ ~Same(y, x)
        BY <1>2, <2>2, <3>3 DEF Same
      <4>2. \A w : Same(y, w) => w # x /\ (IsCurrent(w)' <=> IsCurrent(w))
        BY <1>2, <2>1, <4>1 DEF IsCurrent
      <4>3. PICK z \in evaluations :
              /\ Same(y, z) /\ IsCurrent(z)
              /\ \A w \in evaluations : Same(y, w) /\ IsCurrent(w) => w = z
        BY <1>2, <4>1 DEF JournalInv, OneInForce
      <4> QED BY <1>2, <4>2, <4>3
    <3> QED BY <3>1, <3>2, <3>3
  <2> QED BY <1>2, <2>3 DEF JournalInv, EvaluatedOnce
<1>4. /\ u \in Turns /\ u.held = {x}
      /\ u.of = t.of /\ u.cached = t.cached /\ u.gated = t.gated
      /\ u.todo = t.todo /\ u.effects = t.effects
  BY <1>2 DEF Turns
<1>5. HeldInv(appraising)'
  BY <1>2, <1>4 DEF HeldInv, IsProjected
<1>6. TodoInv(appraising)'
  BY <1>2, <1>4 DEF TodoInv
<1>7. EffectsInv(appraising)'
  BY <1>2, <1>4 DEF EffectsInv
<1> QED BY <1>1, <1>3, <1>4, <1>5, <1>6, <1>7 DEF AppraisalInv, TurnInv

LEMMA ResumeKeeps ==
    ASSUME AppraisalInv, NEW c \in Candidates, ResumeAcceptance(c)
    PROVE  AppraisalInv'
<1>1. PICK x \in appraising.cached :
        x.candidate = c /\ ~IsProjected(x) /\ PersistAcceptance(x)
  BY DEF ResumeAcceptance
<1>2. Appraising /\ c \in appraising.todo /\ appraising.held = {}
  BY DEF ResumeAcceptance, NextCandidate
<1>3. x \in Acceptances /\ x.of = appraising.of
  BY <1>2 DEF AppraisalInv, JournalInv, TurnInv, TodoInv
<1> QED BY <1>1, <1>2, <1>3, PersistKeeps

LEMMA AcceptKeeps ==
    ASSUME AppraisalInv, NEW c \in Candidates, NEW content \in Contents,
           AcceptAppraisal(c, content)
    PROVE  AppraisalInv'
<1> DEFINE x == [of |-> appraising.of, candidate |-> c, content |-> content]
<1>1. /\ Appraising /\ c \in appraising.todo /\ appraising.held = {} /\ appraising.cached = {}
      /\ PersistAcceptance(x)
  BY DEF AcceptAppraisal, NextCandidate
<1>2. x \in Acceptances
  BY <1>1 DEF AppraisalInv, TurnInv, Turns, Acceptances
<1>3. x \notin evaluations
  BY <1>1 DEF AppraisalInv, TurnInv, TodoInv
<1>4. ~IsProjected(x)
  BY <1>3 DEF AppraisalInv, JournalInv, IsProjected
<1> HIDE DEF x
<1>5. x.of = appraising.of /\ x.candidate = c
  BY DEF x
<1> QED BY <1>1, <1>2, <1>4, <1>5, PersistKeeps

LEMMA DeclineKeeps ==
    ASSUME AppraisalInv, NEW c \in Candidates, DeclineAppraisal(c)
    PROVE  AppraisalInv'
<1> DEFINE t == appraising
           u == appraising'
<1>1. JournalInv' /\ ApplicationInv'
  BY JournalUntouched, ApplicationsUntouched DEF AppraisalInv, DeclineAppraisal
<1>2. /\ t \in Turns /\ TodoInv(t) /\ EffectsInv(t)
      /\ t.held = {} /\ t.cached = {} /\ c \in t.todo
      /\ u = [t EXCEPT !.todo = t.todo \ {c}]
      /\ UNCHANGED <<evaluations, projections>>
  BY DEF AppraisalInv, TurnInv, DeclineAppraisal, NextCandidate, journalVars
<1>3. /\ u \in Turns /\ u.held = {} /\ u.todo = t.todo \ {c}
      /\ u.of = t.of /\ u.cached = t.cached /\ u.gated = t.gated /\ u.effects = t.effects
  BY <1>2 DEF Turns
<1>4. HeldInv(appraising)'
  BY <1>3 DEF HeldInv, IsProjected
<1>5. TodoInv(appraising)'
  BY <1>2, <1>3 DEF TodoInv
<1>6. EffectsInv(appraising)'
  BY <1>2, <1>3 DEF EffectsInv, TodoInv
<1> QED BY <1>1, <1>3, <1>4, <1>5, <1>6 DEF AppraisalInv, TurnInv

LEMMA GateKeeps ==
    ASSUME AppraisalInv, InvokeGate
    PROVE  AppraisalInv'
<1> DEFINE t == appraising
           u == appraising'
<1>1. JournalInv' /\ ApplicationInv'
  BY JournalUntouched, ApplicationsUntouched DEF AppraisalInv, InvokeGate
<1>2. PICK accepted \in SUBSET {e.from : e \in {f \in t.effects : HasSlow(f.from.candidate)}} :
        u = [t EXCEPT !.slow = accepted, !.gated = TRUE]
  BY DEF InvokeGate
<1>3. /\ t \in Turns /\ HeldInv(t) /\ TodoInv(t) /\ EffectsInv(t) /\ t.todo = {}
      /\ UNCHANGED <<evaluations, projections>>
  BY DEF AppraisalInv, TurnInv, InvokeGate, journalVars
<1>4. accepted \subseteq Acceptances
  BY <1>3 DEF Turns, Effects
<1>5. /\ u \in Turns /\ u.todo = t.todo /\ u.held = t.held
      /\ u.of = t.of /\ u.cached = t.cached /\ u.effects = t.effects
  BY <1>2, <1>3, <1>4 DEF Turns
<1>6. HeldInv(appraising)' /\ TodoInv(appraising)' /\ EffectsInv(appraising)'
  BY <1>3, <1>5 DEF HeldInv, IsProjected, TodoInv, EffectsInv
<1> QED BY <1>1, <1>5, <1>6 DEF AppraisalInv, TurnInv

LEMMA CommitKeeps ==
    ASSUME AppraisalInv, CommitAppraisal
    PROVE  AppraisalInv'
<1>1. JournalInv'
  BY JournalUntouched DEF AppraisalInv, CommitAppraisal
<1>2. ~Appraising'
  BY DEF CommitAppraisal, StageReceipts, Appraising
<1>3. CASE appraising.of \in admitted
  BY <1>1, <1>2, <1>3, ApplicationsUntouched DEF AppraisalInv, CommitAppraisal
<1>4. CASE appraising.of \notin admitted
  <2> DEFINE i == appraising.of
  <2>1. /\ admitted' = admitted \cup {i}
        /\ applications' = applications \cup ReceiptsOfTurn
    BY <1>4 DEF CommitAppraisal, StageReceipts
  <2>2. /\ TurnInv(appraising) /\ ApplicationInv
        /\ i \in Exchanges /\ appraising.effects \subseteq Effects
    BY DEF AppraisalInv, CommitAppraisal, StageReceipts, TurnInv, Turns
  <2>3. \A r \in ReceiptsOfTurn : \E e \in appraising.effects :
          r = [from |-> e.from, history |-> e.history, group |-> GroupOf(e.from)]
    BY DEF ReceiptsOfTurn
  <2>4. \A x : GroupOf(x) \in {"fast", "both"}
    BY DEF GroupOf
  <2>5. \A e \in Effects : e.from \in Acceptances /\ e.history \in Histories
    BY DEF Effects
  <2>6. ReceiptsOfTurn \subseteq [from : Acceptances, history : Histories, group : {"fast", "both"}]
    BY <2>2, <2>3, <2>4, <2>5
  <2>7. \A r \in ReceiptsOfTurn : r.from.of = i
    BY <2>2, <2>3 DEF TurnInv, EffectsInv
  <2>8. \A r, s \in ReceiptsOfTurn : r.from.candidate = s.from.candidate => r = s
    BY <2>2, <2>3 DEF TurnInv, EffectsInv
  <2>9. \A r \in applications : r.from.of # i
    BY <1>4, <2>2 DEF ApplicationInv, AppliedOnce
  <2>10. AppliedOnce'
    BY <2>1, <2>2, <2>7, <2>8, <2>9 DEF ApplicationInv, AppliedOnce, Same
  <2>11. ApplicationInv'
    BY <2>1, <2>2, <2>6, <2>10 DEF ApplicationInv
  <2> QED BY <1>1, <1>2, <2>11 DEF AppraisalInv
<1> QED BY <1>3, <1>4

LEMMA SupersedeKeeps ==
    ASSUME AppraisalInv, NEW old \in evaluations, NEW content \in Contents,
           Supersede(old, [old EXCEPT !.content = content])
    PROVE  AppraisalInv'
<1> DEFINE new == [old EXCEPT !.content = content]
<1>1. old \in Acceptances /\ JournalInv
  BY DEF AppraisalInv, JournalInv
<1>2. new \in Acceptances /\ new.of = old.of /\ new.candidate = old.candidate
  BY <1>1 DEF Acceptances
<1> HIDE DEF new
<1>3. Supersede(old, new)
  BY DEF new
<1>4. /\ evaluations' = evaluations \cup {new}
      /\ supersessions' = supersessions \cup {<<old, new>>}
      /\ UNCHANGED <<projections, admitted, applications, appraising>>
      /\ new # old /\ Successors(new) = {}
      /\ \A y \in evaluations : Same(y, old) /\ IsCurrent(y) => y = old
  BY <1>3 DEF Supersede
<1>5. ApplicationInv'
  BY <1>4, ApplicationsUntouched DEF AppraisalInv
<1>6. \A y : Successors(y)' = {} <=> Successors(y) = {} /\ y # old
  <2>1. \A y, z : <<y, z>> \in supersessions' <=> <<y, z>> \in supersessions \/ (y = old /\ z = new)
    BY <1>4
  <2>2. new \in Successors(old)'
    BY <1>2, <2>1 DEF Successors
  <2>3. \A y : y # old => Successors(y)' = Successors(y)
    BY <2>1 DEF Successors
  <2> QED BY <2>2, <2>3
<1>7. OneInForce'
  <2> SUFFICES ASSUME NEW y \in evaluations'
               PROVE  \E z \in evaluations' :
                        /\ Same(y, z) /\ IsCurrent(z)'
                        /\ \A w \in evaluations' : Same(y, w) /\ IsCurrent(w)' => w = z
    BY DEF OneInForce, Same
  <2>1. CASE Same(y, old)
    <3>1. Same(y, new) /\ new \in evaluations' /\ IsCurrent(new)'
      BY <1>2, <1>4, <1>6, <2>1 DEF Same, IsCurrent
    <3>2. ASSUME NEW w \in evaluations', Same(y, w), IsCurrent(w)' PROVE w = new
      <4>1. w # old
        BY <1>6, <3>2 DEF IsCurrent
      <4>2. w \in evaluations => IsCurrent(w) /\ Same(w, old)
        BY <1>6, <2>1, <3>2, <4>1 DEF IsCurrent, Same
      <4> QED BY <1>4, <4>1, <4>2
    <3> QED BY <3>1, <3>2
  <2>2. CASE ~Same(y, old)
    <3>1. y \in evaluations /\ ~Same(y, new)
      BY <1>2, <1>4, <2>2 DEF Same
    <3>2. \A w : Same(y, w) => w # old /\ w # new /\ (IsCurrent(w)' <=> IsCurrent(w))
      BY <1>4, <1>6, <2>2, <3>1 DEF IsCurrent
    <3>3. PICK z \in evaluations :
            /\ Same(y, z) /\ IsCurrent(z)
            /\ \A w \in evaluations : Same(y, w) /\ IsCurrent(w) => w = z
      BY <1>1, <3>1 DEF JournalInv, OneInForce
    <3> QED BY <1>4, <3>2, <3>3
  <2> QED BY <2>1, <2>2
<1>8. JournalInv'
  BY <1>1, <1>2, <1>4, <1>7 DEF JournalInv, EvaluatedOnce
<1>9. Appraising => TurnInv(appraising)'
  <2> SUFFICES ASSUME Appraising PROVE TurnInv(appraising)'
    OBVIOUS
  <2>1. /\ appraising \in Turns /\ HeldInv(appraising)
        /\ TodoInv(appraising) /\ EffectsInv(appraising)
    BY DEF AppraisalInv, TurnInv
  <2>2. HeldInv(appraising)'
    BY <1>4, <2>1 DEF HeldInv, IsProjected
  <2>3. TodoInv(appraising)'
    BY <1>2, <1>4, <2>1 DEF TodoInv
  <2>4. EffectsInv(appraising)'
    BY <1>2, <1>4, <2>1 DEF EffectsInv
  <2> QED BY <1>4, <2>1, <2>2, <2>3, <2>4 DEF TurnInv
<1> QED BY <1>4, <1>5, <1>8, <1>9 DEF AppraisalInv, Appraising

LEMMA AbandonKeeps ==
    ASSUME AppraisalInv, AbandonTransition
    PROVE  AppraisalInv'
  BY JournalUntouched, ApplicationsUntouched DEF AppraisalInv, AbandonTransition, Appraising

LEMMA AppraisalStep == AppraisalInv /\ [AppraisalNext]_appraisalVars => AppraisalInv'
<1>1. AppraisalInv /\ UNCHANGED appraisalVars => AppraisalInv'
  <2> SUFFICES ASSUME AppraisalInv, UNCHANGED appraisalVars PROVE AppraisalInv'
    OBVIOUS
  <2>1. UNCHANGED <<evaluations, projections, appraising>>
    BY DEF appraisalVars
  <2>2. JournalInv' /\ ApplicationInv'
    BY JournalUntouched, ApplicationsUntouched DEF AppraisalInv, appraisalVars, journalVars
  <2>3. (Appraising => TurnInv(appraising))'
    BY <2>1 DEF AppraisalInv, Appraising, TurnInv, HeldInv, IsProjected, TodoInv,
       EffectsInv
  <2> QED BY <2>2, <2>3 DEF AppraisalInv
<1>2. AppraisalInv /\ TurnStep => AppraisalInv'
  BY ReplayKeeps, ResumeKeeps, AcceptKeeps, DeclineKeeps, MaterializeKeeps, GateKeeps,
     CommitKeeps, AbandonKeeps DEF TurnStep
<1>3. AppraisalInv /\ AppraisalNext => AppraisalInv'
  BY <1>2, BeginKeeps, SupersedeKeeps DEF AppraisalNext
<1> QED BY <1>1, <1>3

\* The inductive invariant: the journal, the receipts and the open attempt.
THEOREM AppraisalInvariant == AppraisalSpec => []AppraisalInv
<1> QED BY InitAppraisal, AppraisalStep, PTL DEF AppraisalSpec

\* A candidate is applied at most once, with the marker of its interaction.
THEOREM AppliesOnce == AppraisalSpec => []AppliedOnce
<1>1. AppraisalInv => AppliedOnce
  BY DEF AppraisalInv, ApplicationInv
<1> QED BY <1>1, AppraisalInvariant, PTL

\* An acceptance has one evaluation, however often its interaction is attempted.
THEOREM EvaluatesOnce == AppraisalSpec => []EvaluatedOnce
<1>1. AppraisalInv => EvaluatedOnce
  BY DEF AppraisalInv, JournalInv
<1> QED BY <1>1, AppraisalInvariant, PTL

\* Of a candidate with an acceptance exactly one is in force.
THEOREM KeepsOneInForce == AppraisalSpec => []OneInForce
<1>1. AppraisalInv => OneInForce
  BY DEF AppraisalInv, JournalInv
<1> QED BY <1>1, AppraisalInvariant, PTL

\* The commit applies every accepted candidate the projector has a rule for.
LEMMA CommitCovers ==
    ASSUME AppraisalInv, [AppraisalNext]_appraisalVars, NEW i \in Exchanges,
           i \notin admitted, i \in admitted'
    PROVE  Covers(i)
<1>1. CommitAppraisal /\ i = appraising.of
  BY DEF AppraisalNext, TurnStep, BeginTransition, ReplayProjection, ResumeAcceptance,
         AcceptAppraisal, DeclineAppraisal, MaterializeProjection, InvokeGate, CommitAppraisal,
         AbandonTransition, Supersede, PersistAcceptance, appraisalVars
<1>2. /\ applications' = applications \cup ReceiptsOfTurn
      /\ EffectsInv(appraising) /\ appraising.todo = {}
  BY <1>1 DEF CommitAppraisal, StageReceipts, AppraisalInv, TurnInv, TodoInv
<1>3. ASSUME NEW x \in evaluations, x.of = i, Recipe[x.candidate] # "none"
      PROVE  \E r \in applications' : Same(r.from, x)
  <2>1. PICK e \in appraising.effects : e.from.candidate = x.candidate /\ e.from.of = i
    BY <1>1, <1>2, <1>3 DEF EffectsInv
  <2>2. [from |-> e.from, history |-> e.history, group |-> GroupOf(e.from)] \in ReceiptsOfTurn
    BY <1>3, <2>1 DEF ReceiptsOfTurn
  <2> QED BY <1>2, <1>3, <2>1, <2>2 DEF Same
<1> QED BY <1>3 DEF Covers

THEOREM CommitsCover == AppraisalSpec => CommitCoversAccepted
<1>1. AppraisalInv /\ [AppraisalNext]_appraisalVars =>
        [\A i \in Exchanges : i \notin admitted /\ i \in admitted' => Covers(i)]_appraisalVars
  BY CommitCovers
<1> QED BY <1>1, AppraisalInvariant, PTL DEF AppraisalSpec, CommitCoversAccepted
-----------------------------------------------------------------------------
(* The slow window, for any number of orchestrators, any window size and   *)
(* any number of contributions. The heart is KeepIsStable: trimming at     *)
(* every commit loses nothing a trim of the whole history would keep,      *)
(* because a turn's contributions are later than those committed before.   *)


Plans == [version : Nat, of : SUBSET Nat]
SlowTurns ==
    [by : Writers \cup {Nobody}, at : {"none", "run", "staged", "committed"}, plan : Plans]

SlowTypeOK ==
    /\ slowStates \in Seq(Plans)
    /\ slowVersion \in [Writers -> Nat]
    /\ pendingSlow \in [Writers -> SUBSET Nat]
    /\ slowTurn \in SlowTurns
    /\ slowTurn.at # "none" => slowTurn.by \in Writers
    /\ acceptedAt \in Nat
    /\ contributed \subseteq 1 .. acceptedAt

\* What a staged turn is about to write, and that its contributions come last.
PlanFollowsWindow ==
    LET w == slowTurn.by IN
    /\ slowTurn.at = "run" => pendingSlow[w] = {}
    /\ slowTurn.at = "staged" =>
         /\ pendingSlow[w] \subseteq 1 .. acceptedAt
         /\ \A c \in contributed, p \in pendingSlow[w] : c < p
         /\ IF slowTurn.plan = NoPlan THEN pendingSlow[w] = {}
            ELSE slowTurn.plan.of = Keep(slowWindow \cup pendingSlow[w])

SlowInv == SlowTypeOK /\ PlanFollowsWindow /\ SlowStateIsWindow

-----------------------------------------------------------------------------
\* Finite sets of contributions: what is later is finite, and monotone in the set.
LEMMA LaterMonotone ==
    ASSUME NEW V \in SUBSET Nat, IsFiniteSet(V), NEW U \in SUBSET V,
           NEW c \in Nat, NEW d \in Nat, c <= d
    PROVE  /\ Cardinality(Later(d, U)) \in Nat /\ Cardinality(Later(c, V)) \in Nat
           /\ Cardinality(Later(d, U)) <= Cardinality(Later(c, V))
<1>0. \A e \in U : e \in V /\ e \in Nat
  OBVIOUS
<1>a. ASSUME NEW e \in Later(d, U) PROVE e \in Later(c, V)
  BY <1>0, <1>a DEF Later
<1>b. Later(c, V) \in SUBSET V
  BY DEF Later
<1>1. Later(d, U) \in SUBSET Later(c, V) /\ Later(c, V) \in SUBSET V
  BY <1>a, <1>b
<1>2. IsFiniteSet(Later(c, V))
  BY <1>1, FS_Subset
<1>3. IsFiniteSet(Later(d, U)) /\ Cardinality(Later(d, U)) <= Cardinality(Later(c, V))
  BY <1>1, <1>2, FS_Subset
<1> QED BY <1>2, <1>3, FS_CardinalityType

\* Trimming a trimmed window with later contributions is trimming everything.
LEMMA KeepIsStable ==
    ASSUME NEW S \in SUBSET Nat, IsFiniteSet(S), NEW T \in SUBSET Nat, IsFiniteSet(T),
           \A c \in S, p \in T : c < p
    PROVE  Keep(Keep(S) \cup T) = Keep(S \cup T)
<1> DEFINE U == Keep(S) \cup T
           V == S \cup T
<1>0. WindowSize \in Nat
  BY SlowAssumption DEF SlowAssumption
<1>1. U \in SUBSET V /\ V \in SUBSET Nat /\ IsFiniteSet(V)
  BY FS_Union DEF Keep
<1>2. ASSUME NEW c \in Keep(V) PROVE c \in Keep(U)
  <2>1. c \in V /\ Cardinality(Later(c, V)) < WindowSize
    BY <1>2 DEF Keep
  <2>2. Cardinality(Later(c, U)) <= Cardinality(Later(c, V)) /\ Cardinality(Later(c, U)) \in Nat
        /\ Cardinality(Later(c, V)) \in Nat
    BY <1>1, <2>1, LaterMonotone
  <2>3. CASE c \in S
    <3>1. Cardinality(Later(c, S)) <= Cardinality(Later(c, V)) /\ Cardinality(Later(c, S)) \in Nat
      BY <1>1, <2>1, LaterMonotone
    <3>2. c \in Keep(S)
      BY <1>0, <2>1, <2>2, <2>3, <3>1 DEF Keep
    <3> QED BY <1>0, <2>1, <2>2, <3>2 DEF Keep
  <2>4. CASE c \in T
    BY <1>0, <2>1, <2>2, <2>4 DEF Keep
  <2> QED BY <2>1, <2>3, <2>4
<1>3. ASSUME NEW c \in Keep(U) PROVE c \in Keep(V)
  <2>1. c \in U /\ c \in V /\ c \in Nat /\ Cardinality(Later(c, U)) < WindowSize
    BY <1>1, <1>3 DEF Keep
  <2>2. ASSUME NEW d \in S, d > c PROVE d \in Keep(S)
    <3>1. c \in Keep(S)
      BY <2>1, <2>2
    <3>2. Cardinality(Later(c, S)) < WindowSize
      BY <3>1 DEF Keep
    <3>3. Cardinality(Later(d, S)) <= Cardinality(Later(c, S)) /\ Cardinality(Later(d, S)) \in Nat
          /\ Cardinality(Later(c, S)) \in Nat
      BY <2>1, <2>2, LaterMonotone
    <3> QED BY <1>0, <2>2, <3>2, <3>3 DEF Keep
  <2>3. Later(c, V) = Later(c, U)
    BY <1>1, <2>2 DEF Later
  <2> QED BY <2>1, <2>3 DEF Keep
<1> QED BY <1>2, <1>3

-----------------------------------------------------------------------------
\* A turn changes its stage and nothing else.
LEMMA StageOn ==
    ASSUME NEW t \in SlowTurns, NEW l
    PROVE  [t EXCEPT !.at = l] = [by |-> t.by, at |-> l, plan |-> t.plan]
  BY DEF SlowTurns

\* What the invariant says of finiteness.
LEMMA FiniteWindows ==
    ASSUME SlowInv
    PROVE  /\ contributed \in SUBSET Nat /\ IsFiniteSet(contributed)
           /\ slowWindow \subseteq contributed /\ IsFiniteSet(slowWindow)
           /\ Cardinality(slowWindow) \in Nat
<1>1. contributed \subseteq 1 .. acceptedAt /\ acceptedAt \in Nat
  BY DEF SlowInv, SlowTypeOK
<1>2. IsFiniteSet(1 .. acceptedAt) /\ contributed \in SUBSET (1 .. acceptedAt)
  BY <1>1, FS_Interval
<1>3. IsFiniteSet(contributed) /\ contributed \in SUBSET Nat
  <2>1. IsFiniteSet(contributed)
    BY <1>2, FS_Subset
  <2>2. contributed \in SUBSET Nat
    BY <1>1
  <2> QED BY <2>1, <2>2
<1>4. slowWindow \in SUBSET contributed
  BY DEF SlowInv, SlowStateIsWindow, Keep
<1>5. IsFiniteSet(slowWindow)
  BY <1>3, <1>4, FS_Subset
<1> QED BY <1>3, <1>4, <1>5, FS_CardinalityType

\* The tables are empty at first.
LEMMA InitSlow == SlowInit => SlowInv
<1> SUFFICES ASSUME SlowInit PROVE SlowInv
  OBVIOUS
<1>1. SlowTypeOK
  BY DEF SlowInit, SlowTypeOK, NoTurn, NoPlan, SlowTurns, Plans
<1>2. PlanFollowsWindow
  BY DEF SlowInit, PlanFollowsWindow, NoTurn
<1>3. SlowStateIsWindow
  BY DEF SlowInit, SlowStateIsWindow, Keep
<1> QED BY <1>1, <1>2, <1>3 DEF SlowInv

\* A step that ends the turn, or begins one, without a write of the tables.
LEMMA SlowQuiet ==
    ASSUME SlowInv, UNCHANGED <<slowTables, acceptedAt, contributed>>,
           slowVersion' \in [Writers -> Nat], pendingSlow' \in [Writers -> SUBSET Nat],
           \/ slowTurn' = NoTurn
           \/ \E w \in Writers : /\ slowTurn' = [by |-> w, at |-> "run", plan |-> NoPlan]
                                 /\ pendingSlow'[w] = {}
    PROVE  SlowInv'
<1>1. SlowTypeOK'
  BY DEF SlowInv, SlowTypeOK, slowTables, NoTurn, NoPlan, SlowTurns, Plans
<1>2. PlanFollowsWindow'
  BY DEF PlanFollowsWindow, NoTurn
<1>3. SlowStateIsWindow'
  BY DEF SlowInv, SlowStateIsWindow, slowTables
<1> QED BY <1>1, <1>2, <1>3 DEF SlowInv

\* Staging takes contributions later than all before, and plans their window.
LEMMA StageSlowKeeps ==
    ASSUME SlowInv, NEW w \in Writers, NEW n \in 0 .. 2, StageSlow(w, n)
    PROVE  SlowInv'
<1> DEFINE new == acceptedAt + 1 .. acceptedAt + n
           plan == IF new = {} THEN NoPlan
                   ELSE [version |-> slowVersion[w] + 1, of |-> Keep(slowWindow \cup new)]
<1>t. SlowTypeOK /\ PlanFollowsWindow /\ SlowStateIsWindow
  BY DEF SlowInv
<1>1. slowTurn.by = w /\ slowTurn.at = "run" /\ pendingSlow[w] = {} /\ slowTurn \in SlowTurns
  BY <1>t DEF StageSlow, Open, PlanFollowsWindow, SlowTypeOK
<1>2. pendingSlow[w] \cup new = new
  BY <1>1
<1>3. /\ acceptedAt' = acceptedAt + n
      /\ pendingSlow' = [pendingSlow EXCEPT ![w] = new]
      /\ slowTurn' = [slowTurn EXCEPT !.at = "staged", !.plan = plan]
      /\ UNCHANGED <<slowTables, slowVersion, contributed>>
  BY <1>2 DEF StageSlow
<1>4. slowTurn' = [by |-> w, at |-> "staged", plan |-> plan]
  BY <1>1, <1>3 DEF SlowTurns
<1>5. new \subseteq Nat /\ acceptedAt' \in Nat /\ new \subseteq 1 .. acceptedAt'
      /\ \A c \in contributed, p \in new : c < p
  BY <1>t, <1>3 DEF SlowTypeOK
<1>6. plan \in Plans /\ (plan = NoPlan <=> new = {})
      /\ (new # {} => plan.of = Keep(slowWindow \cup new))
  <2>1. Keep(slowWindow \cup new) \in SUBSET Nat
    <3>1. slowWindow \subseteq Nat
      BY FiniteWindows
    <3> QED BY <1>5, <3>1 DEF Keep
  <2>2. slowVersion[w] \in Nat /\ slowVersion[w] + 1 \in Nat /\ slowVersion[w] + 1 # 0
    BY <1>t DEF SlowTypeOK
  <2> HIDE DEF new
  <2> QED BY <2>1, <2>2 DEF Plans, NoPlan
<1> HIDE DEF plan
<1>7. SlowTypeOK'
  <2>1. slowTurn' \in SlowTurns /\ slowTurn'.by \in Writers
    BY <1>4, <1>6 DEF SlowTurns
  <2>2. pendingSlow' \in [Writers -> SUBSET Nat] /\ contributed' \subseteq 1 .. acceptedAt'
    BY <1>t, <1>3, <1>5 DEF SlowTypeOK
  <2> QED BY <1>t, <1>3, <1>5, <2>1, <2>2 DEF SlowTypeOK, slowTables
<1>8. PlanFollowsWindow'
  <2> HIDE DEF new
  <2>0. pendingSlow'[w] = new
    BY <1>t, <1>3 DEF SlowTypeOK
  <2>1. slowTurn'.by = w /\ slowTurn'.at = "staged" /\ slowTurn'.plan = plan
    BY <1>4
  <2>2. Keep(slowWindow \cup new) = Keep(slowWindow' \cup new)
    BY <1>3 DEF slowTables
  <2> QED BY <1>3, <1>5, <1>6, <2>0, <2>1, <2>2 DEF PlanFollowsWindow
<1>9. SlowStateIsWindow'
  BY <1>t, <1>3 DEF SlowStateIsWindow, slowTables
<1> QED BY <1>7, <1>8, <1>9 DEF SlowInv

\* The commit writes the plan and trims the window to what the plan averages.
LEMMA CommitSlowKeeps == ASSUME SlowInv, NEW w \in Writers, CommitSlow(w) PROVE SlowInv'
<1>t. SlowTypeOK /\ PlanFollowsWindow /\ SlowStateIsWindow
  BY DEF SlowInv
<1>1. /\ slowTurn \in SlowTurns /\ slowTurn.by = w /\ slowTurn.at = "staged"
      /\ slowTurn' = [by |-> w, at |-> "committed", plan |-> slowTurn.plan]
      /\ contributed' = contributed \cup pendingSlow[w]
      /\ UNCHANGED <<slowMemory, acceptedAt>>
  BY <1>t, StageOn DEF CommitSlow, Open, TurnIs, SlowTypeOK
<1>2. /\ pendingSlow[w] \subseteq 1 .. acceptedAt
      /\ \A c \in contributed, p \in pendingSlow[w] : c < p
  BY <1>t, <1>1 DEF PlanFollowsWindow
<1>3. IsFiniteSet(pendingSlow[w]) /\ pendingSlow[w] \in SUBSET Nat
  <2>1. pendingSlow[w] \in SUBSET Nat /\ acceptedAt \in Int
    BY <1>t DEF SlowTypeOK
  <2>2. IsFiniteSet(1 .. acceptedAt)
    BY <2>1, FS_Interval
  <2>3. IsFiniteSet(pendingSlow[w])
    BY <1>2, <2>2, FS_Subset
  <2> QED BY <2>1, <2>3
<1>4. Keep(slowWindow \cup pendingSlow[w]) = Keep(contributed')
  BY <1>t, <1>1, <1>2, <1>3, FiniteWindows, KeepIsStable DEF SlowStateIsWindow
<1>5. PlanFollowsWindow'
  BY <1>1 DEF PlanFollowsWindow
<1>6. CASE slowTurn.plan = NoPlan
  <2>1. contributed' = contributed /\ UNCHANGED slowTables
    BY <1>t, <1>1, <1>6 DEF CommitSlow, PlanFollowsWindow
  <2>2. SlowTypeOK'
    BY <1>t, <1>1, <2>1 DEF SlowTypeOK, slowTables, slowMemory, SlowTurns
  <2>3. SlowStateIsWindow'
    BY <1>t, <2>1 DEF SlowStateIsWindow, slowTables
  <2> QED BY <1>5, <2>2, <2>3 DEF SlowInv
<1>7. CASE slowTurn.plan # NoPlan
  <2>1. /\ slowWindow' = Keep(slowWindow \cup pendingSlow[w])
        /\ slowStates' = Append(slowStates, slowTurn.plan)
        /\ slowTurn.plan.of = Keep(slowWindow \cup pendingSlow[w])
        /\ slowTurn.plan \in Plans
    BY <1>t, <1>1, <1>7 DEF CommitSlow, PlanFollowsWindow, SlowTurns
  <2>2. SlowTypeOK'
    <3>1. slowStates' \in Seq(Plans)
      BY <1>t, <2>1 DEF SlowTypeOK
    <3>2. slowTurn' \in SlowTurns /\ slowTurn'.by \in Writers
      BY <1>1, <2>1 DEF SlowTurns
    <3>3. contributed' \subseteq 1 .. acceptedAt'
      BY <1>t, <1>1, <1>2 DEF SlowTypeOK
    <3> QED BY <1>t, <1>1, <3>1, <3>2, <3>3 DEF SlowTypeOK, slowMemory
  <2>3. slowStates'[Len(slowStates')] = slowTurn.plan
    BY <1>t, <2>1 DEF SlowTypeOK
  <2>4. SlowStateIsWindow'
    BY <1>4, <2>1, <2>3 DEF SlowStateIsWindow
  <2> QED BY <1>5, <2>2, <2>4 DEF SlowInv
<1> QED BY <1>6, <1>7

\* Every step keeps the invariant.
LEMMA NextSlow == SlowInv /\ [SlowNext]_slowVars => SlowInv'
<1> SUFFICES ASSUME SlowInv, [SlowNext]_slowVars PROVE SlowInv'
  OBVIOUS
<1>t. /\ slowVersion \in [Writers -> Nat] /\ pendingSlow \in [Writers -> SUBSET Nat]
      /\ slowTurn \in SlowTurns
  BY DEF SlowInv, SlowTypeOK
<1>w. Cardinality(slowWindow) \in Nat
  BY FiniteWindows
<1>1. ASSUME NEW w \in Writers, BeginSlow(w) PROVE SlowInv'
  BY <1>1, <1>t, <1>w, SlowQuiet DEF BeginSlow, Reloads
<1>2. ASSUME NEW w \in Writers, NEW n \in 0 .. 2, StageSlow(w, n) PROVE SlowInv'
  BY <1>2, StageSlowKeeps
<1>3. ASSUME NEW w \in Writers, CommitSlow(w) PROVE SlowInv'
  BY <1>3, CommitSlowKeeps
<1>4. ASSUME NEW w \in Writers, CommitSlowFails(w) PROVE SlowInv'
  BY <1>4, <1>t, SlowQuiet DEF CommitSlowFails
<1>5. ASSUME NEW w \in Writers, PublishSlow(w) PROVE SlowInv'
  <2>1. slowVersion' \in [Writers -> Nat] /\ pendingSlow' \in [Writers -> SUBSET Nat]
    BY <1>5, <1>t DEF PublishSlow, slowMemory, SlowTurns, Plans
  <2> QED BY <1>5, <2>1, SlowQuiet DEF PublishSlow
<1>6. ASSUME NEW w \in Writers, PublishSlowFails(w) PROVE SlowInv'
  BY <1>6, <1>t, <1>w, SlowQuiet DEF PublishSlowFails, Reloads, slowMemory
<1>7. ASSUME NEW w \in Writers, AbortSlow(w) PROVE SlowInv'
  BY <1>7, <1>t, SlowQuiet DEF AbortSlow, slowMemory
<1>8. CASE CrashSlow
  BY <1>8, <1>w, SlowQuiet DEF CrashSlow
<1>9. CASE UNCHANGED slowVars
  BY <1>9 DEF slowVars, slowTables, slowMemory, SlowInv, SlowTypeOK, PlanFollowsWindow,
     SlowStateIsWindow
<1> QED BY <1>1, <1>2, <1>3, <1>4, <1>5, <1>6, <1>7, <1>8, <1>9 DEF SlowNext

\* Restart equivalence: through failed commits, crashes and turns of several
\* orchestrators the ledger holds the last contributions of committed turns, and
\* the last state written is their mean, for any window size.
THEOREM WindowIsExact == SlowSpec => []SlowStateIsWindow
<1>1. SlowInv => SlowStateIsWindow
  BY DEF SlowInv
<1> QED BY <1>1, InitSlow, NextSlow, PTL DEF SlowSpec
-----------------------------------------------------------------------------
(* The factual state, for any values of the dimension, any validity policy *)
(* and any number of intents, instants and turns cut short. A pass over    *)
(* the intents only ever continues the current row: its rows go up in      *)
(* version and in what they saw, and each transition follows its rows.     *)

\* Every transition among the writes follows both its rows.
LinksIn(ws) ==
    \A k \in DOMAIN ws : ws[k].kind = "link" =>
      \A v \in {ws[k].from, ws[k].to} :
        \E j \in 1 .. k - 1 : ws[j].kind = "row" /\ ws[j].row.version = v

Passes == [row : StateRow, writes : Seq(StateWrite), legal : BOOLEAN]

\* Row r continues row q, as of instant n.
Continues(r, q, n) ==
    /\ q.version <= r.version /\ q.seen <= r.seen
    /\ r.seen <= r.touched /\ r.touched <= n

\* A pass that began at row base.
PassOK(acc, base, n) ==
    /\ acc \in Passes /\ LinksIn(acc.writes) /\ Continues(acc.row, base, n)
    /\ \A q \in RowsIn(acc.writes) : Continues(q, base, n) /\ Continues(acc.row, q, n)
    /\ \A q, r \in RowsIn(acc.writes) : q.version < r.version => q.seen <= r.seen

LEMMA RowsAreRows ==
    /\ \A ws \in Seq(StateWrite) : RowsIn(ws) \subseteq StateRow
    /\ \A q \in StateRow : q.version \in Nat /\ q.seen \in Nat /\ q.touched \in Nat
<1>1. \A w \in StateWrite : w.kind = "row" => w.row \in StateRow
  BY DEF StateWrite
<1>2. ASSUME NEW ws \in Seq(StateWrite), NEW k \in DOMAIN ws PROVE ws[k] \in StateWrite
  OBVIOUS
<1>3. \A ws \in Seq(StateWrite) : RowsIn(ws) \subseteq StateRow
  BY <1>1, <1>2 DEF RowsIn
<1> QED BY <1>3 DEF StateRow

LEMMA RowsInConcat ==
    ASSUME NEW s \in Seq(StateWrite), NEW t \in Seq(StateWrite)
    PROVE  RowsIn(s \o t) = RowsIn(s) \cup RowsIn(t)
<1>1. /\ Len(s) \in Nat /\ Len(t) \in Nat /\ DOMAIN (s \o t) = 1 .. Len(s) + Len(t)
      /\ DOMAIN s = 1 .. Len(s) /\ DOMAIN t = 1 .. Len(t)
      /\ \A k \in 1 .. Len(s) + Len(t) : (s \o t)[k] = IF k <= Len(s) THEN s[k] ELSE t[k - Len(s)]
  OBVIOUS
<1>2. RowsIn(s \o t) \subseteq RowsIn(s) \cup RowsIn(t)
  BY <1>1 DEF RowsIn
<1>3. RowsIn(s) \subseteq RowsIn(s \o t)
  BY <1>1 DEF RowsIn
<1>4. RowsIn(t) \subseteq RowsIn(s \o t)
  <2> SUFFICES ASSUME NEW k \in 1 .. Len(t), t[k].kind = "row"
               PROVE  t[k].row \in RowsIn(s \o t)
    BY <1>1 DEF RowsIn
  <2>1. k + Len(s) \in DOMAIN (s \o t) /\ (s \o t)[k + Len(s)] = t[k]
    BY <1>1
  <2> QED BY <2>1 DEF RowsIn
<1> QED BY <1>2, <1>3, <1>4

LEMMA LinksInConcat ==
    ASSUME NEW s \in Seq(StateWrite), NEW t \in Seq(StateWrite), LinksIn(s), LinksIn(t)
    PROVE  LinksIn(s \o t)
<1>1. /\ Len(s) \in Nat /\ Len(t) \in Nat /\ DOMAIN (s \o t) = 1 .. Len(s) + Len(t)
      /\ DOMAIN s = 1 .. Len(s) /\ DOMAIN t = 1 .. Len(t)
      /\ \A k \in 1 .. Len(s) + Len(t) : (s \o t)[k] = IF k <= Len(s) THEN s[k] ELSE t[k - Len(s)]
  OBVIOUS
<1> SUFFICES ASSUME NEW k \in DOMAIN (s \o t), (s \o t)[k].kind = "link",
                    NEW v \in {(s \o t)[k].from, (s \o t)[k].to}
             PROVE  \E j \in 1 .. k - 1 : (s \o t)[j].kind = "row" /\ (s \o t)[j].row.version = v
  BY Zenon DEF LinksIn
<1>2. CASE k <= Len(s)
  <2>1. PICK j \in 1 .. k - 1 : s[j].kind = "row" /\ s[j].row.version = v
    BY <1>1, <1>2 DEF LinksIn
  <2>2. (s \o t)[j] = s[j]
    BY <1>1, <1>2
  <2> QED BY <2>1, <2>2
<1>3. CASE k > Len(s)
  <2>1. k - Len(s) \in 1 .. Len(t) /\ (s \o t)[k] = t[k - Len(s)]
    BY <1>1, <1>3
  <2>2. PICK j \in 1 .. (k - Len(s)) - 1 : t[j].kind = "row" /\ t[j].row.version = v
    BY <1>1, <2>1 DEF LinksIn
  <2>3. j + Len(s) \in 1 .. k - 1 /\ (s \o t)[j + Len(s)] = t[j]
    BY <1>1, <2>1
  <2> QED BY <2>2, <2>3
<1> QED BY <1>1, <1>2, <1>3

\* The writes of one transition: its rows, then it.
LEMMA MoveWritesRows ==
    ASSUME NEW q \in StateRow, NEW r \in StateRow
    PROVE  /\ MoveWrites(q, r) \in Seq(StateWrite) /\ RowsIn(MoveWrites(q, r)) = {q, r}
           /\ LinksIn(MoveWrites(q, r))
<1> DEFINE ws == MoveWrites(q, r)
<1>1. /\ Row(q) \in StateWrite /\ Row(r) \in StateWrite /\ Link(q, r) \in StateWrite
      /\ q.version \in Nat /\ r.version \in Nat
  BY DEF Row, Link, StateWrite, StateRow
<1>2. /\ ws \in Seq(StateWrite) /\ DOMAIN ws = 1 .. 3
      /\ ws[1] = Row(q) /\ ws[2] = Row(r) /\ ws[3] = Link(q, r)
  BY <1>1 DEF MoveWrites
<1> HIDE DEF ws
<1>3. /\ ws[1].kind = "row" /\ ws[1].row = q /\ ws[2].kind = "row" /\ ws[2].row = r
      /\ ws[3].kind = "link" /\ ws[3].from = q.version /\ ws[3].to = r.version
  BY <1>2 DEF Row, Link
<1>4. DOMAIN ws = {1, 2, 3}
  BY <1>2
<1>5. RowsIn(ws) = {q, r}
  BY <1>3, <1>4 DEF RowsIn
<1>6. LinksIn(ws)
  <2> SUFFICES ASSUME NEW k \in DOMAIN ws, ws[k].kind = "link", NEW v \in {ws[k].from, ws[k].to}
               PROVE  \E j \in 1 .. k - 1 : ws[j].kind = "row" /\ ws[j].row.version = v
    BY DEF LinksIn
  <2>1. k = 3 /\ v \in {q.version, r.version} /\ 1 \in 1 .. k - 1 /\ 2 \in 1 .. k - 1
    BY <1>3, <1>4
  <2> QED BY <1>3, <2>1
<1> QED BY <1>2, <1>5, <1>6 DEF ws

\* A transition continues the pass when its row continues the current one.
LEMMA ReachedKeeps ==
    ASSUME NEW n \in Nat, NEW base \in StateRow, NEW acc, PassOK(acc, base, n),
           NEW row \in StateRow, Continues(row, acc.row, n)
    PROVE  PassOK(Reached(acc, row), base, n) /\ Reached(acc, row).row = row
<1> DEFINE ws == MoveWrites(acc.row, row)
           next == Reached(acc, row)
<1>1. /\ acc \in Passes /\ acc.row \in StateRow /\ acc.writes \in Seq(StateWrite)
      /\ LinksIn(acc.writes)
  BY DEF PassOK, Passes
<1>2. ws \in Seq(StateWrite) /\ RowsIn(ws) = {acc.row, row} /\ LinksIn(ws)
  BY <1>1, MoveWritesRows
<1>0. next = [acc EXCEPT !.row = row, !.writes = acc.writes \o ws]
  BY DEF Reached
<1> HIDE DEF ws, next
<1>3. next = [row |-> row, writes |-> acc.writes \o ws, legal |-> acc.legal]
  BY <1>0, <1>1 DEF Passes
<1>4. /\ next.row = row /\ next.writes = acc.writes \o ws /\ next \in Passes
  BY <1>1, <1>2, <1>3 DEF Passes
<1>5. /\ RowsIn(next.writes) = RowsIn(acc.writes) \cup {acc.row, row}
      /\ LinksIn(next.writes)
  BY <1>1, <1>2, <1>4, RowsInConcat, LinksInConcat
<1>6. /\ \A q \in RowsIn(acc.writes) : q \in StateRow
      /\ \A q \in StateRow : q.version \in Nat /\ q.seen \in Nat /\ q.touched \in Nat
  BY <1>1, RowsAreRows
<1>p. /\ Continues(acc.row, base, n)
      /\ \A q \in RowsIn(acc.writes) : Continues(q, base, n) /\ Continues(acc.row, q, n)
      /\ \A q, r \in RowsIn(acc.writes) : q.version < r.version => q.seen <= r.seen
  BY DEF PassOK
<1>7. Continues(row, base, n)
  BY <1>1, <1>6, <1>p DEF Continues
<1>8. ASSUME NEW q \in RowsIn(next.writes) PROVE Continues(q, base, n) /\ Continues(row, q, n)
  <2>1. CASE q \in RowsIn(acc.writes)
    <3>1. Continues(q, base, n) /\ Continues(acc.row, q, n)
      BY <1>p, <2>1
    <3>2. /\ q.version \in Nat /\ q.seen \in Nat /\ acc.row.version \in Nat /\ acc.row.seen \in Nat
          /\ row.version \in Nat /\ row.seen \in Nat
      BY <1>1, <1>6, <2>1
    <3> QED BY <3>1, <3>2 DEF Continues
  <2>2. CASE q = acc.row
    BY <2>2, <1>p
  <2>3. CASE q = row
    BY <2>3, <1>6, <1>7 DEF Continues
  <2> QED BY <1>5, <2>1, <2>2, <2>3
<1>9. ASSUME NEW q \in RowsIn(next.writes), NEW r \in RowsIn(next.writes), q.version < r.version
      PROVE  q.seen <= r.seen
  <2>1. q \in StateRow /\ r \in StateRow
    BY <1>1, <1>5, <1>6
  <2>2. q # row
    BY <1>6, <1>8, <1>9, <2>1 DEF Continues
  <2>3. CASE r = row
    BY <1>8, <2>3 DEF Continues
  <2>4. CASE r # row
    <3>1. CASE q = acc.row
      <4>1. r \in RowsIn(acc.writes) => r.version <= acc.row.version
        BY <1>p DEF Continues
      <4> QED BY <1>1, <1>5, <1>6, <1>9, <2>1, <2>4, <3>1, <4>1
    <3>2. CASE q \in RowsIn(acc.writes) /\ r = acc.row
      BY <1>p, <3>2 DEF Continues
    <3>3. CASE q \in RowsIn(acc.writes) /\ r \in RowsIn(acc.writes)
      BY <1>p, <1>9, <3>3
    <3> QED BY <1>5, <2>2, <2>4, <3>1, <3>2, <3>3
  <2> QED BY <2>3, <2>4
<1> QED BY <1>4, <1>5, <1>7, <1>8, <1>9 DEF PassOK, next

\* The row the validity pass makes.
LEMMA ExpiredRow ==
    ASSUME NEW n \in Nat, NEW row \in StateRow, row.seen <= row.touched, row.touched <= n
    PROVE  Expired(row) \in StateRow /\ Continues(Expired(row), row, n)
<1>1. row.version + 1 \in Nat /\ "expired" \in RowStatuses
  BY RowsAreRows DEF RowStatuses
<1>2. Expired(row) \in StateRow
  BY <1>1 DEF Expired, StateRow
<1>3. /\ Expired(row).version = row.version + 1 /\ Expired(row).seen = row.seen
      /\ Expired(row).touched = row.touched
  BY DEF Expired, StateRow
<1> QED BY <1>2, <1>3, RowsAreRows DEF Continues

\* The rows an intent can make.
LEMMA NewRows ==
    ASSUME NEW n \in Nat \ {0}, NEW i \in Intents(1 .. n), NEW row \in StateRow,
           row.seen <= row.touched, row.touched <= n
    PROVE  /\ Fresh(i, n, 1) \in StateRow
           /\ \A v \in Nat : Fresh(i, n, v) \in StateRow
           /\ \A v \in Nat : v >= row.version /\ row.touched <= i.at
                 => Continues(Fresh(i, n, v), row, n)
           /\ \A st \in RowStatuses :
                /\ Ended(row, st, n) \in StateRow
                /\ Continues(Ended(row, st, n), row, n)
                /\ Ended(row, st, n).version = row.version + 1
                /\ Ended(row, st, n).seen = row.seen
                /\ Ended(row, st, n).touched = n
           /\ \A st \in EndedBy : row.touched <= i.at =>
                /\ [Ended(row, st, n) EXCEPT !.seen = i.at] \in StateRow
                /\ Continues([Ended(row, st, n) EXCEPT !.seen = i.at], row, n)
           /\ row.touched <= i.at =>
                Refreshed(row, i, n) \in StateRow /\ Continues(Refreshed(row, i, n), row, n)
<1>1. /\ i.at \in 1 .. n /\ i.value \in Conditions /\ i.op \in {"observed"} \cup EndedBy
      /\ Ttl \in Nat /\ MaxInstant \in Nat /\ n + Ttl \in Nat /\ Until(n) \in Nat
  BY StateAssumption DEF StateAssumption, Intents, Until, Forever
<1>2. /\ row.version \in Nat /\ row.version + 1 \in Nat /\ row.touched \in Nat /\ row.until \in Nat
      /\ row.seen \in Nat /\ row.value \in Conditions \cup {NoRow.value} /\ row.status \in RowStatuses
  BY DEF StateRow
<1>3. \A v \in Nat : /\ Fresh(i, n, v) \in StateRow
                     /\ v >= row.version /\ row.touched <= i.at => Continues(Fresh(i, n, v), row, n)
  <2> SUFFICES ASSUME NEW v \in Nat
               PROVE  /\ Fresh(i, n, v) \in StateRow
                      /\ v >= row.version /\ row.touched <= i.at => Continues(Fresh(i, n, v), row, n)
    OBVIOUS
  <2>1. Fresh(i, n, v) \in StateRow
    BY <1>1 DEF Fresh, StateRow, RowStatuses
  <2>2. /\ Fresh(i, n, v).version = v /\ Fresh(i, n, v).seen = i.at
        /\ Fresh(i, n, v).touched = n
    BY DEF Fresh
  <2> QED BY <1>1, <1>2, <2>1, <2>2 DEF Continues
<1>4. ASSUME NEW st \in RowStatuses
      PROVE  /\ Ended(row, st, n) \in StateRow
             /\ Ended(row, st, n).version = row.version + 1
             /\ Ended(row, st, n).seen = row.seen
             /\ Ended(row, st, n).touched = n
  <2>1. Ended(row, st, n) \in StateRow
    BY <1>2 DEF Ended, StateRow
  <2> QED BY <2>1 DEF Ended, StateRow
<1>5. \A st \in RowStatuses : Continues(Ended(row, st, n), row, n)
  BY <1>2, <1>4 DEF Continues
<1>6. ASSUME NEW st \in EndedBy, row.touched <= i.at
      PROVE  /\ [Ended(row, st, n) EXCEPT !.seen = i.at] \in StateRow
             /\ Continues([Ended(row, st, n) EXCEPT !.seen = i.at], row, n)
  <2> DEFINE e == Ended(row, st, n)
             f == [e EXCEPT !.seen = i.at]
  <2>1. /\ e \in StateRow /\ e.version = row.version + 1 /\ e.touched = n
    BY <1>4 DEF RowStatuses
  <2> HIDE DEF e
  <2>2. f \in StateRow
    <3>1. i.at \in Nat
      BY <1>1
    <3> QED BY <2>1, <3>1 DEF StateRow
  <2>3. f.version = row.version + 1 /\ f.seen = i.at /\ f.touched = n
    BY <2>1 DEF StateRow
  <2> HIDE DEF f
  <2>4. Continues(f, row, n)
    BY <1>1, <1>2, <1>6, <2>3 DEF Continues
  <2> QED BY <2>2, <2>4 DEF e, f
<1>7. ASSUME row.touched <= i.at
      PROVE  Refreshed(row, i, n) \in StateRow /\ Continues(Refreshed(row, i, n), row, n)
  <2> DEFINE u == IF ValidityKind = "ttl" THEN n + Ttl ELSE row.until
  <2>1. u \in Nat
    BY <1>1, <1>2
  <2>2. Refreshed(row, i, n) =
          [row EXCEPT !.version = row.version + 1, !.touched = n, !.seen = i.at, !.until = u]
    BY DEF Refreshed
  <2> HIDE DEF u
  <2>3. Refreshed(row, i, n) \in StateRow
    <3>1. i.at \in Nat /\ n \in Nat /\ row.version + 1 \in Nat
      BY <1>1, <1>2
    <3> QED BY <2>1, <2>2, <3>1 DEF StateRow
  <2>4. /\ Refreshed(row, i, n).version = row.version + 1
        /\ Refreshed(row, i, n).seen = i.at /\ Refreshed(row, i, n).touched = n
    BY <2>2 DEF StateRow
  <2> QED BY <1>1, <1>2, <1>7, <2>3, <2>4 DEF Continues
<1> QED BY <1>3, <1>4, <1>5, <1>6, <1>7

\* The validity pass continues the current row.
LEMMA StartOK ==
    ASSUME NEW n \in Nat \ {0}, NEW row \in StateRow, row.seen <= row.touched, row.touched <= n
    PROVE  PassOK(Start(row, n), row, n)
<1> DEFINE acc == [row |-> row, writes |-> <<>>, legal |-> TRUE]
<1>1. acc \in Passes /\ acc.row = row /\ acc.writes = <<>> /\ <<>> \in Seq(StateWrite)
  BY DEF Passes
<1>2. RowsIn(<<>>) = {} /\ LinksIn(<<>>)
  BY DEF RowsIn, LinksIn
<1>3. Continues(row, row, n)
  BY RowsAreRows DEF Continues
<1> HIDE DEF acc
<1>4. PassOK(acc, row, n)
  BY <1>1, <1>2, <1>3 DEF PassOK
<1>5. CASE Expires(row, n)
  <2>1. Expired(row) \in StateRow /\ Continues(Expired(row), row, n)
    BY ExpiredRow
  <2>2. Start(row, n) = Reached(acc, Expired(row))
    BY <1>5 DEF Start, acc
  <2> QED BY <1>1, <1>4, <2>1, <2>2, ReachedKeeps
<1>6. CASE ~Expires(row, n)
  BY <1>4, <1>6 DEF Start, acc
<1> QED BY <1>5, <1>6

\* So does an intent.
LEMMA ReconcileOK ==
    ASSUME NEW n \in Nat \ {0}, NEW base \in StateRow, NEW acc, PassOK(acc, base, n),
           NEW i \in Intents(1 .. n)
    PROVE  PassOK(Reconcile(acc, i, n), base, n)
<1> DEFINE row == acc.row
<1>1. /\ acc \in Passes /\ row \in StateRow /\ row.seen <= row.touched /\ row.touched <= n
      /\ base.version \in Nat /\ base.seen \in Nat /\ row.version \in Nat /\ row.seen \in Nat
      /\ row.touched \in Nat /\ i.at \in 1 .. n
  BY RowsAreRows DEF PassOK, Passes, Continues, Intents
<1> HIDE DEF row
<1>2. CASE row = NoRow
  <2>1. /\ row.version = 0 /\ row.seen = 0 /\ row.touched = 0
    BY <1>2 DEF NoRow
  <2> DEFINE f == Fresh(i, n, 1)
             next == [acc EXCEPT !.row = f]
  <2>2. f \in StateRow /\ Continues(f, row, n)
    BY <1>1, <2>1, NewRows
  <2> HIDE DEF f
  <2>3. /\ next \in Passes /\ next.row = f /\ next.writes = acc.writes
    BY <1>1, <2>2 DEF Passes
  <2>4. Reconcile(acc, i, n) = next
    BY <1>2 DEF Reconcile, row, f
  <2> HIDE DEF next
  <2>5. f.version \in Nat /\ f.seen \in Nat /\ f.touched \in Nat /\ acc.writes \in Seq(StateWrite)
    BY <1>1, <2>2, RowsAreRows DEF Passes
  <2>6. \A q \in RowsIn(acc.writes) : q.version \in Nat /\ q.seen \in Nat
    BY <2>5, RowsAreRows
  <2>7. /\ Continues(row, base, n) /\ LinksIn(acc.writes)
        /\ \A q \in RowsIn(acc.writes) : Continues(q, base, n) /\ Continues(row, q, n)
        /\ \A q, r \in RowsIn(acc.writes) : q.version < r.version => q.seen <= r.seen
    BY DEF PassOK, row
  <2>8. Continues(f, base, n)
    BY <1>1, <2>2, <2>5, <2>7 DEF Continues
  <2>9. ASSUME NEW q \in RowsIn(acc.writes) PROVE Continues(f, q, n)
    BY <1>1, <2>2, <2>5, <2>6, <2>7 DEF Continues
  <2> QED BY <2>3, <2>4, <2>7, <2>8, <2>9 DEF PassOK
<1>3. CASE row # NoRow /\ Deferred(row, i)
  BY <1>3 DEF Reconcile, row
<1>4. CASE row # NoRow /\ ~Deferred(row, i)
  <2>1. row.touched <= i.at
    BY <1>1, <1>4 DEF Deferred
  <2>2. CASE i.op \in EndedBy
    <3>1. CASE row.status \notin Terminal
      <4> DEFINE e == [Ended(row, i.op, n) EXCEPT !.seen = i.at]
      <4>1. e \in StateRow /\ Continues(e, row, n)
        BY <1>1, <2>1, <2>2, NewRows
      <4>2. Reconcile(acc, i, n) = Reached(acc, e)
        BY <1>4, <2>2, <3>1 DEF Reconcile, row
      <4> HIDE DEF e
      <4> QED BY <4>1, <4>2, ReachedKeeps DEF row
    <3>2. CASE row.status \in Terminal
      <4> DEFINE next == [acc EXCEPT !.legal = acc.legal /\ row.status = i.op]
      <4>1. next \in Passes /\ next.row = acc.row /\ next.writes = acc.writes
        BY <1>1 DEF Passes
      <4>2. Reconcile(acc, i, n) = next
        BY <1>4, <2>2, <3>2 DEF Reconcile, row
      <4> HIDE DEF next
      <4> QED BY <4>1, <4>2 DEF PassOK
    <3> QED BY <3>1, <3>2
  <2>3. CASE i.op \notin EndedBy /\ ~CurrentLike(row)
    <3>1. Fresh(i, n, row.version + 1) \in StateRow /\ Continues(Fresh(i, n, row.version + 1), row, n)
      BY <1>1, <2>1, NewRows
    <3>2. Reconcile(acc, i, n) = Reached(acc, Fresh(i, n, row.version + 1))
      BY <1>4, <2>3 DEF Reconcile, row
    <3> QED BY <3>1, <3>2, ReachedKeeps DEF row
  <2>4. CASE i.op \notin EndedBy /\ CurrentLike(row) /\ i.value # row.value
    <3> DEFINE e   == Ended(row, "superseded", n)
               f   == Fresh(i, n, row.version + 2)
               old == Reached(acc, e)
    <3>1. "superseded" \in RowStatuses
      BY DEF RowStatuses
    <3>2. /\ e \in StateRow /\ Continues(e, row, n)
          /\ e.version = row.version + 1 /\ e.seen = row.seen /\ e.touched = n
      BY <1>1, <3>1, NewRows
    <3>3. f \in StateRow /\ f.version = row.version + 2 /\ f.seen = i.at /\ f.touched = n
      <4>1. row.version + 2 \in Nat
        BY <1>1
      <4>2. f \in StateRow
        BY <1>1, <4>1, NewRows
      <4> QED BY <4>2 DEF Fresh
    <3>4. Reconcile(acc, i, n) = Reached(old, f)
      BY <1>4, <2>4 DEF Reconcile, row
    <3> HIDE DEF e, f
    <3>5. PassOK(old, base, n) /\ old.row = e
      BY <3>2, ReachedKeeps DEF row
    <3> HIDE DEF old
    <3>6. Continues(f, e, n)
      BY <1>1, <2>1, <3>2, <3>3 DEF Continues
    <3> QED BY <3>3, <3>4, <3>5, <3>6, ReachedKeeps
  <2>5. CASE i.op \notin EndedBy /\ CurrentLike(row) /\ i.value = row.value
    <3>1. CASE ValidityKind = "event_only"
      BY <1>4, <2>5, <3>1 DEF Reconcile, row
    <3>2. CASE ValidityKind # "event_only"
      <4>1. Refreshed(row, i, n) \in StateRow /\ Continues(Refreshed(row, i, n), row, n)
        BY <1>1, <2>1, NewRows
      <4>2. Reconcile(acc, i, n) = Reached(acc, Refreshed(row, i, n))
        BY <1>4, <2>5, <3>2 DEF Reconcile, row
      <4> QED BY <4>1, <4>2, ReachedKeeps DEF row
    <3> QED BY <3>1, <3>2
  <2> QED BY <2>2, <2>3, <2>4, <2>5
<1> QED BY <1>2, <1>3, <1>4

\* So does the whole pass over one or two intents.
LEMMA AppliedOK ==
    ASSUME NEW n \in Nat \ {0}, instant = n, Shown \in StateRow,
           Shown.seen <= Shown.touched, Shown.touched <= n,
           NEW intents, Len(intents) \in {1, 2},
           \A k \in 1 .. Len(intents) : intents[k] \in Intents(1 .. n)
    PROVE  PassOK(Applied(intents, n), Shown, n)
<1> DEFINE first == Reconcile(Start(Shown, n), intents[1], n)
<1>1. PassOK(first, Shown, n)
  BY StartOK, ReconcileOK
<1> HIDE DEF first
<1>2. CASE Len(intents) = 1 \/ ~first.legal
  BY <1>1, <1>2 DEF Applied, first
<1>3. CASE Len(intents) = 2 /\ first.legal
  <2>1. Applied(intents, n) = Reconcile(first, intents[2], n)
    BY <1>3 DEF Applied, first
  <2> QED BY <1>1, <1>3, <2>1, ReconcileOK
<1> QED BY <1>2, <1>3

\* The writes of a pass continue the current row, transitions after their rows.
LEMMA WritesOK ==
    ASSUME NEW n \in Nat, NEW base \in StateRow, NEW acc, PassOK(acc, base, n)
    PROVE  /\ Writes(acc) \in Seq(StateWrite) /\ LinksIn(Writes(acc))
           /\ \A q \in RowsIn(Writes(acc)) : Continues(q, base, n)
           /\ \A q, r \in RowsIn(Writes(acc)) : q.version < r.version => q.seen <= r.seen
<1> DEFINE first == <<Row(acc.row)>>
<1>1. acc.row \in StateRow /\ acc.writes \in Seq(StateWrite) /\ LinksIn(acc.writes)
  BY DEF PassOK, Passes
<1>2. Row(acc.row) \in StateWrite /\ Row(acc.row).kind = "row" /\ Row(acc.row).row = acc.row
  BY <1>1 DEF Row, StateWrite
<1>3. /\ first \in Seq(StateWrite) /\ DOMAIN first = {1} /\ first[1] = Row(acc.row)
  BY <1>2
<1> HIDE DEF first
<1>4. RowsIn(first) = {acc.row} /\ LinksIn(first)
  BY <1>2, <1>3 DEF RowsIn, LinksIn
<1>5. Writes(acc) = first \o acc.writes
  BY DEF Writes, first
<1>6. /\ Writes(acc) \in Seq(StateWrite) /\ LinksIn(Writes(acc))
      /\ RowsIn(Writes(acc)) = {acc.row} \cup RowsIn(acc.writes)
  BY <1>1, <1>3, <1>4, <1>5, RowsInConcat, LinksInConcat
<1>7. \A q \in RowsIn(Writes(acc)) : Continues(q, base, n)
  BY <1>6 DEF PassOK
<1>8. /\ \A q \in RowsIn(acc.writes) : q.version <= acc.row.version /\ q.seen <= acc.row.seen
      /\ \A q \in RowsIn(acc.writes) : q.version \in Nat /\ q.seen \in Nat
      /\ acc.row.version \in Nat /\ acc.row.seen \in Nat
  BY <1>1, RowsAreRows DEF PassOK, Continues
<1>9. \A q, r \in RowsIn(Writes(acc)) : q.version < r.version => q.seen <= r.seen
  BY <1>6, <1>8 DEF PassOK
<1> QED BY <1>6, <1>7, <1>9

\* The current row: the highest version, or none.
LEMMA ShownOK ==
    ASSUME StateInv
    PROVE  /\ Shown \in StateRow /\ Shown.seen <= Shown.touched /\ Shown.touched <= instant
           /\ \A q \in stateRows :
                /\ q.version <= Shown.version
                /\ q.version = Shown.version => q = Shown
                /\ q.seen <= Shown.seen
<1>t. stateRows \subseteq StateRow /\ instant \in Nat
  BY DEF StateInv, StateTypeOK
<1>1. CASE stateRows = {}
  <2>1. Shown = NoRow
    BY <1>1 DEF Shown
  <2>2. NoRow \in StateRow
    BY DEF NoRow, StateRow, RowStatuses
  <2>3. NoRow.seen = 0 /\ NoRow.touched = 0
    BY DEF NoRow
  <2> QED BY <1>1, <1>t, <2>1, <2>2, <2>3
<1>2. CASE stateRows # {}
  <2>1. \E r \in stateRows : \A q \in stateRows : q.version <= r.version
    BY <1>2 DEF StateInv, VersionsDistinct
  <2>2. Shown \in stateRows /\ \A q \in stateRows : q.version <= Shown.version
    BY <1>2, <2>1 DEF Shown
  <2> HIDE DEF Shown
  <2>3. Shown \in StateRow /\ Shown.seen <= Shown.touched /\ Shown.touched <= instant
    BY <1>t, <2>2 DEF StateInv, ObservedInOrder
  <2> SUFFICES ASSUME NEW q \in stateRows
               PROVE  (q.version = Shown.version => q = Shown) /\ q.seen <= Shown.seen
    BY <2>2, <2>3
  <2>4. q.version = Shown.version => q = Shown
    BY <2>2 DEF StateInv, VersionsDistinct
  <2>5. q.version < Shown.version => q.seen <= Shown.seen
    BY <2>2 DEF StateInv, ObservedInOrder
  <2>6. q.version \in Nat /\ Shown.version \in Nat /\ q.seen \in Nat
    BY <1>t, <2>3, RowsAreRows
  <2> QED BY <2>2, <2>4, <2>5, <2>6
<1> QED BY <1>1, <1>2

LEMMA InitState == StateInit => StateInv
<1> SUFFICES ASSUME StateInit PROVE StateInv
  OBVIOUS
<1>1. writing = <<>> /\ stateRows = {} /\ links = {} /\ instant = 1
  BY DEF StateInit
<1>2. RowsIn(<<>>) = {}
  BY DEF RowsIn
<1> QED
  BY <1>1, <1>2
  DEF StateInv, StateTypeOK, VersionsDistinct, ObservedInOrder, LinksFollowRows, TransitionsResolve

\* A turn plans writes that continue what is stored.
LEMMA IngestStateKeeps ==
    ASSUME StateInv, NEW intents, Len(intents) \in {1, 2},
           \A k \in 1 .. Len(intents) : intents[k] \in Intents(1 .. instant),
           instant # 0, IngestCommit(intents)
    PROVE  StateInv'
<1> DEFINE acc == Applied(intents, instant)
<1>t. instant \in Nat \ {0} /\ stateRows \subseteq StateRow
  BY DEF StateInv, StateTypeOK
<1>0. /\ Shown \in StateRow
      /\ \A q \in stateRows : q.version <= Shown.version /\ q.seen <= Shown.seen
  BY ShownOK
<1>1. PassOK(acc, Shown, instant)
  BY <1>t, ShownOK, AppliedOK
<1> HIDE DEF acc
<1>2. /\ writing' \in {Writes(acc), <<>>} /\ UNCHANGED <<stateRows, links, instant>>
  BY DEF IngestCommit, acc
<1>3. /\ writing' \in Seq(StateWrite) /\ LinksIn(writing')
      /\ \A q \in RowsIn(writing') : Continues(q, Shown, instant)
      /\ \A q, r \in RowsIn(writing') : q.version < r.version => q.seen <= r.seen
  <2>1. RowsIn(<<>>) = {} /\ LinksIn(<<>>) /\ <<>> \in Seq(StateWrite)
    BY DEF RowsIn, LinksIn
  <2> QED BY <1>1, <1>2, <1>t, <2>1, ShownOK, WritesOK
<1>4. StateTypeOK' /\ VersionsDistinct' /\ TransitionsResolve'
  BY <1>2, <1>3 DEF StateInv, StateTypeOK, VersionsDistinct, TransitionsResolve
<1>5. LinksFollowRows'
  BY <1>3 DEF LinksIn, LinksFollowRows
<1>6. ObservedInOrder'
  <2>1. \A q \in stateRows \cup RowsIn(writing') :
          q \in StateRow /\ q.version \in Nat /\ q.seen \in Nat /\ q.touched \in Nat
    BY <1>t, <1>3, RowsAreRows
  <2>2. ASSUME NEW q \in stateRows, NEW r \in RowsIn(writing')
        PROVE  q.version <= r.version /\ q.seen <= r.seen
    <3>1. Shown.version \in Nat /\ Shown.seen \in Nat
      BY <1>0, RowsAreRows
    <3>2. q.version <= Shown.version /\ q.seen <= Shown.seen
      BY <1>0
    <3>3. Shown.version <= r.version /\ Shown.seen <= r.seen
      BY <1>3 DEF Continues
    <3> QED BY <2>1, <3>1, <3>2, <3>3
  <2>3. \A q, r \in stateRows : q.version < r.version => q.seen <= r.seen
    BY DEF StateInv, ObservedInOrder
  <2>4. \A r \in stateRows \cup RowsIn(writing') : r.seen <= r.touched /\ r.touched <= instant
    BY <1>3 DEF StateInv, ObservedInOrder, Continues
  <2>5. \A q, r \in stateRows \cup RowsIn(writing') : q.version < r.version => q.seen <= r.seen
    BY <1>3, <2>1, <2>2, <2>3
  <2> QED BY <1>2, <2>4, <2>5 DEF ObservedInOrder
<1> QED BY <1>4, <1>5, <1>6 DEF StateInv

\* A write: the first of those planned, which the tables may hold already.
LEMMA WriteKeeps == ASSUME StateInv, Write PROVE StateInv'
<1> DEFINE w    == writing[1]
           rest == writing'
<1>t. /\ stateRows \subseteq StateRow /\ links \subseteq Nat \X Nat
      /\ writing \in Seq(StateWrite) /\ instant \in Nat /\ writing # <<>>
  BY DEF StateInv, StateTypeOK, Write
<1>1. /\ rest \in Seq(StateWrite) /\ Len(writing) \in Nat \ {0} /\ Len(rest) = Len(writing) - 1
      /\ \A k \in 1 .. Len(rest) : rest[k] = writing[k + 1]
      /\ Head(writing) = w /\ w \in StateWrite /\ 1 \in DOMAIN writing
      /\ instant' = instant
  BY <1>t DEF Write
<1>2. RowsIn(rest) \subseteq RowsIn(writing)
  <2> SUFFICES ASSUME NEW k \in DOMAIN rest, rest[k].kind = "row"
               PROVE  rest[k].row \in RowsIn(writing)
    BY DEF RowsIn
  <2>1. k + 1 \in DOMAIN writing /\ writing[k + 1] = rest[k]
    BY <1>1, <1>t
  <2> QED BY <2>1 DEF RowsIn
<1>3. CASE w.kind = "row"
  <2> DEFINE row == w.row
  <2>1. row \in StateRow /\ row \in RowsIn(writing)
    BY <1>1, <1>3 DEF StateWrite, RowsIn
  <2>2. /\ links' = links
        /\ stateRows' = IF \E r \in stateRows : r.version = row.version
                        THEN stateRows ELSE stateRows \cup {row}
    BY <1>1, <1>3 DEF Write
  <2> HIDE DEF row
  <2>3. /\ stateRows \subseteq stateRows' /\ stateRows' \subseteq StateRow
        /\ stateRows' \subseteq stateRows \cup {row}
        /\ \E r \in stateRows' : r.version = row.version
    BY <1>t, <2>1, <2>2
  <2>4. stateRows' \cup RowsIn(rest) \subseteq stateRows \cup RowsIn(writing)
    BY <1>2, <2>1, <2>3
  <2>5. StateTypeOK'
    BY <1>1, <1>t, <2>2, <2>3 DEF StateTypeOK
  <2>6. ObservedInOrder'
    BY <1>1, <2>4 DEF StateInv, ObservedInOrder
  <2>7. VersionsDistinct'
    <3>1. CASE stateRows' = stateRows
      BY <3>1 DEF StateInv, VersionsDistinct
    <3>2. CASE /\ stateRows' = stateRows \cup {row}
               /\ \A r \in stateRows : r.version # row.version
      <4>1. \A q, r \in stateRows' : q.version = r.version => q = r
        BY <3>2 DEF StateInv, VersionsDistinct
      <4>2. CASE stateRows = {}
        BY <3>2, <4>1, <4>2, <2>1, RowsAreRows DEF VersionsDistinct
      <4>3. CASE stateRows # {}
        <5>1. PICK top \in stateRows : \A q \in stateRows : q.version <= top.version
          BY <4>3 DEF StateInv, VersionsDistinct
        <5>2. top.version \in Nat /\ row.version \in Nat /\ \A q \in stateRows : q.version \in Nat
          BY <1>t, <2>1, RowsAreRows
        <5>3. CASE top.version <= row.version
          <6>1. \A q \in stateRows' : q.version <= row.version
            BY <3>2, <5>1, <5>2, <5>3
          <6> QED BY <3>2, <4>1, <6>1 DEF VersionsDistinct
        <5>4. CASE ~(top.version <= row.version)
          <6>1. \A q \in stateRows' : q.version <= top.version
            BY <3>2, <5>1, <5>2, <5>4
          <6> QED BY <3>2, <4>1, <6>1 DEF VersionsDistinct
        <5> QED BY <5>3, <5>4
      <4> QED BY <4>2, <4>3
    <3> QED BY <2>2, <3>1, <3>2
  <2>8. LinksFollowRows'
    <3> SUFFICES ASSUME NEW k \in DOMAIN rest, rest[k].kind = "link",
                        NEW v \in {rest[k].from, rest[k].to}
                 PROVE  \/ \E r \in stateRows' : r.version = v
                        \/ \E j \in 1 .. k - 1 : rest[j].kind = "row" /\ rest[j].row.version = v
      BY DEF LinksFollowRows
    <3>1. /\ k \in 1 .. Len(rest) /\ k + 1 \in DOMAIN writing /\ writing[k + 1] = rest[k]
      BY <1>1, <1>t
    <3>2. CASE \E r \in stateRows : r.version = v
      BY <2>3, <3>2
    <3>3. CASE \E j \in 1 .. (k + 1) - 1 : writing[j].kind = "row" /\ writing[j].row.version = v
      <4>1. PICK j \in 1 .. (k + 1) - 1 : writing[j].kind = "row" /\ writing[j].row.version = v
        BY <3>3
      <4>2. CASE j = 1
        BY <2>3, <4>1, <4>2 DEF row
      <4>3. CASE j # 1
        <5>1. j - 1 \in 1 .. k - 1 /\ j - 1 \in 1 .. Len(rest) /\ (j - 1) + 1 = j
          BY <1>1, <3>1, <4>3
        <5>2. rest[j - 1] = writing[j]
          BY <1>1, <5>1
        <5> QED BY <4>1, <5>1, <5>2
      <4> QED BY <4>2, <4>3
    <3> QED BY <3>1, <3>2, <3>3 DEF StateInv, LinksFollowRows
  <2>9. TransitionsResolve'
    BY <2>2, <2>3 DEF StateInv, TransitionsResolve
  <2> QED BY <2>5, <2>6, <2>7, <2>8, <2>9 DEF StateInv
<1>4. CASE w.kind = "link"
  <2>1. /\ stateRows' = stateRows /\ links' = links \cup {<<w.from, w.to>>}
        /\ w.from \in Nat /\ w.to \in Nat
    BY <1>1, <1>4 DEF Write, StateWrite
  <2>2. \A v \in {w.from, w.to} : \E r \in stateRows : r.version = v
    <3>1. \A v \in {w.from, w.to} :
            \/ \E r \in stateRows : r.version = v
            \/ \E j \in 1 .. 1 - 1 : writing[j].kind = "row" /\ writing[j].row.version = v
      BY <1>1, <1>4 DEF StateInv, LinksFollowRows
    <3> QED BY <3>1
  <2>3. StateTypeOK' /\ VersionsDistinct'
    BY <1>1, <1>t, <2>1 DEF StateInv, StateTypeOK, VersionsDistinct
  <2>4. ObservedInOrder'
    BY <1>1, <1>2, <2>1 DEF StateInv, ObservedInOrder
  <2>5. TransitionsResolve'
    BY <2>1, <2>2 DEF StateInv, TransitionsResolve
  <2>6. LinksFollowRows'
    <3> SUFFICES ASSUME NEW k \in DOMAIN rest, rest[k].kind = "link",
                        NEW v \in {rest[k].from, rest[k].to}
                 PROVE  \/ \E r \in stateRows' : r.version = v
                        \/ \E j \in 1 .. k - 1 : rest[j].kind = "row" /\ rest[j].row.version = v
      BY DEF LinksFollowRows
    <3>1. /\ k \in 1 .. Len(rest) /\ k + 1 \in DOMAIN writing /\ writing[k + 1] = rest[k]
      BY <1>1, <1>t
    <3>2. CASE \E r \in stateRows : r.version = v
      BY <2>1, <3>2
    <3>3. CASE \E j \in 1 .. (k + 1) - 1 : writing[j].kind = "row" /\ writing[j].row.version = v
      <4>1. PICK j \in 1 .. (k + 1) - 1 : writing[j].kind = "row" /\ writing[j].row.version = v
        BY <3>3
      <4>2. j # 1
        BY <1>4, <4>1
      <4>3. j - 1 \in 1 .. k - 1 /\ j - 1 \in 1 .. Len(rest) /\ (j - 1) + 1 = j
        BY <1>1, <3>1, <4>2
      <4>4. rest[j - 1] = writing[j]
        BY <1>1, <4>3
      <4> QED BY <4>1, <4>3, <4>4
    <3> QED BY <3>1, <3>2, <3>3 DEF StateInv, LinksFollowRows
  <2> QED BY <2>3, <2>4, <2>5, <2>6 DEF StateInv
<1> QED BY <1>1, <1>3, <1>4 DEF StateWrite

LEMMA NextState == StateInv /\ [StateNext]_stateVars => StateInv'
<1> SUFFICES ASSUME StateInv, [StateNext]_stateVars PROVE StateInv'
  OBVIOUS
<1>t. instant \in Nat /\ writing \in Seq(StateWrite)
  BY DEF StateInv, StateTypeOK
<1>1. ASSUME NEW i \in Intents(1 .. instant), IngestCommit(<<i>>) PROVE StateInv'
  <2>1. i.at \in 1 .. instant
    BY DEF Intents
  <2>2. instant # 0
    BY <1>t, <2>1
  <2> QED BY <1>1, <2>2, IngestStateKeeps
<1>2. ASSUME NEW at \in 1 .. instant, NEW i \in Intents({at}), NEW j \in Intents({at}),
             IngestCommit(<<i, j>>)
      PROVE  StateInv'
  <2>1. i \in Intents(1 .. instant) /\ j \in Intents(1 .. instant) /\ instant # 0
    BY <1>t DEF Intents
  <2>2. \A k \in 1 .. Len(<<i, j>>) : <<i, j>>[k] \in Intents(1 .. instant)
    BY <2>1
  <2> HIDE DEF Intents
  <2> QED BY <1>2, <2>1, <2>2, IngestStateKeeps
<1>3. CASE Write
  BY <1>3, WriteKeeps
<1>4. CASE TurnCutShort
  <2>1. writing' = <<>> /\ UNCHANGED <<stateRows, links, instant>> /\ RowsIn(<<>>) = {}
    BY <1>4 DEF TurnCutShort, RowsIn
  <2> QED
    BY <2>1
    DEF StateInv, StateTypeOK, VersionsDistinct, ObservedInOrder, LinksFollowRows,
        TransitionsResolve
<1>5. CASE TimePasses
  <2>1. instant' = instant + 1 /\ UNCHANGED <<stateRows, links, writing>>
    BY <1>5 DEF TimePasses
  <2>2. \A r \in stateRows \cup RowsIn(writing) : r.touched \in Nat
    BY <1>t, RowsAreRows DEF StateInv, StateTypeOK
  <2>3. ObservedInOrder'
    BY <1>t, <2>1, <2>2 DEF StateInv, ObservedInOrder, RowsIn
  <2> QED
    BY <1>t, <2>1, <2>3
    DEF StateInv, StateTypeOK, VersionsDistinct, LinksFollowRows, TransitionsResolve
<1>6. CASE UNCHANGED stateVars
  BY <1>6
  DEF stateVars, StateInv, StateTypeOK, VersionsDistinct, ObservedInOrder, LinksFollowRows,
      TransitionsResolve, RowsIn
<1> QED BY <1>1, <1>2, <1>3, <1>4, <1>5, <1>6 DEF StateNext

\* The rows still to be written continue the stored ones.
THEOREM StateInvariant == StateSpec => []StateInv
  BY InitState, NextState, PTL DEF StateSpec

\* load_transitions resolves both ends of every transition, whichever prefix of a
\* turn's writes was made.
THEOREM TransitionsHaveRows == StateSpec => []TransitionsResolve
  BY StateInvariant, PTL DEF StateInv

\* Anti-rollback (D4.5): a later version never shows what was observed earlier,
\* whichever turns were cut short and retried.
THEOREM NeverRollsBack == StateSpec => []NoRollback
<1>1. StateInv => NoRollback
  BY DEF StateInv, ObservedInOrder, NoRollback
<1> QED BY <1>1, StateInvariant, PTL
==============================================================================
