---------------------------- MODULE AppraisalPlane ----------------------------
(***************************************************************************)
(* The accepted appraisals of an interaction, from the router to the state *)
(* (ADR-0027). A turn routes semantic candidates, has each appraised by    *)
(* the model, writes what was ACCEPTED to the derived journal, evaluates   *)
(* it once into a projection written to the same journal, passes the       *)
(* projections' slow proposals to the homeostasis gate and, with the       *)
(* commit marker, writes one application receipt per applied projection    *)
(* to the canonical database. Journal and canonical database are two       *)
(* files; a turn may end at any point, and a later attempt of the same     *)
(* interaction starts from the journal and not from the model.             *)
(***************************************************************************)
EXTENDS Naturals, FiniteSets

CONSTANTS Exchanges,     \* interactions
          Candidates,    \* semantic event candidates, numbered in routing order
          Found,         \* the candidates the router can find in an interaction
          Recipe,        \* the projector's rule for a candidate's kind
          Contents,      \* what the model may understand a candidate to mean
          Histories,     \* the bounded history a turn is given
          NotAppraising  \* no turn is open

\* "none": no rule for the kind; "fast": one fast effect; "mixed": a slow
\* proposal beside it; "joint": the two are admitted together or not at all.
Recipes == {"none", "fast", "mixed", "joint"}

ASSUME AppraisalAssumption ==
    /\ Candidates \subseteq Nat
    /\ Found \in [Exchanges -> SUBSET Candidates]
    /\ Recipe \in [Candidates -> Recipes]

VARIABLES
    (* appraisal_journal.sqlite *)
    evaluations,     \* appraisal_evaluations: the accepted appraisals
    projections,     \* appraisal_projections: acceptance, history, place among its projections
    supersessions,   \* appraisal_supersessions: pairs old, new
    (* the canonical database *)
    admitted,        \* the interactions with a commit marker
    applications,    \* application_receipts
    (* the process *)
    appraising       \* the turn that holds the admission lease

appraisalVars == <<evaluations, projections, supersessions, admitted, applications, appraising>>
journalVars   == <<evaluations, projections, supersessions>>

Acceptances == [of : Exchanges, candidate : Candidates, content : Contents]
Same(x, y)  == x.of = y.of /\ x.candidate = y.candidate

Successors(x) == {y \in Acceptances : <<x, y>> \in supersessions}
IsCurrent(x)  == x \in evaluations /\ Successors(x) = {}

IsProjected(x) == \E p \in projections : p.from = x

\* Seeded fault: only what was evaluated is replayed.
AcceptedFor_Projected(i) == {x \in evaluations : x.of = i /\ IsCurrent(x) /\ IsProjected(x)}

\* The cache of an interaction: its current acceptances.
AcceptedFor(i) == {x \in evaluations : x.of = i /\ IsCurrent(x)}

\* The projection an acceptance is replayed with: its first.
Original(x) == {p \in projections : p.from = x /\
                  \A q \in projections : q.from = x => p.row <= q.row}

CandidatesOf(S) == {x.candidate : x \in S}

HasSlow(c) == Recipe[c] \in {"mixed", "joint"}

\* The fast effect is applied whatever the gate says, the slow one if accepted.
GroupOf(x) == IF x \in appraising.slow THEN "both" ELSE "fast"

AppraisalInit ==
    /\ evaluations = {} /\ supersessions = {}
    /\ projections = {}
    /\ admitted = {} /\ applications = {}
    /\ appraising = NotAppraising

\* A turn begins to appraise: the candidates of the cached acceptances if there
\* are any, what the router finds otherwise. The marker is not looked at.
BeginTransition(i, h) ==
    /\ appraising = NotAppraising
    /\ \E routed \in (IF AcceptedFor(i) = {} THEN SUBSET Found[i]
                                             ELSE {CandidatesOf(AcceptedFor(i))}) :
         appraising' = [of |-> i, history |-> h, cached |-> AcceptedFor(i), todo |-> routed,
                        held |-> {}, effects |-> {}, slow |-> {}, gated |-> FALSE]
    /\ UNCHANGED <<journalVars, admitted, applications>>

Appraising  == appraising # NotAppraising
NextCandidate(c) ==
    /\ Appraising /\ appraising.held = {}
    /\ c \in appraising.todo /\ \A d \in appraising.todo : c <= d

\* The candidate is done: with the result of evaluating x under h.
Settles(x, h) ==
    appraising' = [appraising EXCEPT !.todo = @ \ {x.candidate}, !.held = {},
                                     !.effects = @ \cup {[from |-> x, history |-> h]}]

\* The projection of x under a history is stored, unless it is there.
Materializes(x, h) ==
    LET before == {p \in projections : p.from = x} IN
    projections' = IF \E p \in before : p.history = h THEN projections
                   ELSE projections \cup
                        {[from |-> x, history |-> h, row |-> Cardinality(before) + 1]}

\* Seeded fault: a cached acceptance is evaluated again with the turn's history.
ReplayProjection_Again(c) ==
    /\ NextCandidate(c)
    /\ \E x \in appraising.cached :
         /\ x.candidate = c /\ IsProjected(x)
         /\ Settles(x, appraising.history) /\ Materializes(x, appraising.history)
    /\ UNCHANGED <<evaluations, supersessions, admitted, applications>>

\* A cached acceptance that was evaluated: its first projection, as it is.
ReplayProjection(c) ==
    /\ NextCandidate(c)
    /\ \E x \in appraising.cached : \E p \in Original(x) :
         x.candidate = c /\ Settles(x, p.history)
    /\ UNCHANGED <<journalVars, admitted, applications>>

\* materialize up to its first transaction: x is current or will be, and is stored.
PersistAcceptance(x) ==
    /\ Successors(x) = {}
    /\ \A y \in evaluations : Same(x, y) /\ IsCurrent(y) => y = x
    /\ evaluations' = evaluations \cup {x}
    /\ appraising' = [appraising EXCEPT !.held = {x}]
    /\ UNCHANGED <<projections, supersessions, admitted, applications>>

\* A cached acceptance whose evaluation was lost.
ResumeAcceptance(c) ==
    /\ NextCandidate(c)
    /\ \E x \in appraising.cached :
         x.candidate = c /\ ~IsProjected(x) /\ PersistAcceptance(x)

\* The model is asked, and its proposal is valid.
AcceptAppraisal(c, content) ==
    /\ NextCandidate(c) /\ appraising.cached = {}
    /\ PersistAcceptance([of |-> appraising.of, candidate |-> c, content |-> content])

\* The route abstains, the model fails or its proposal is refused: not stored.
DeclineAppraisal(c) ==
    /\ NextCandidate(c) /\ appraising.cached = {}
    /\ appraising' = [appraising EXCEPT !.todo = @ \ {c}]
    /\ UNCHANGED <<journalVars, admitted, applications>>

\* materialize, the second transaction: the projection of this acceptance
\* under this history, or the one already stored.
MaterializeProjection ==
    /\ Appraising
    /\ \E x \in appraising.held :
         Settles(x, appraising.history) /\ Materializes(x, appraising.history)
    /\ UNCHANGED <<evaluations, supersessions, admitted, applications>>

\* The gate judges each slow proposal; a joint group whose slow member is
\* denied ends the turn.
InvokeGate ==
    /\ Appraising /\ appraising.todo = {} /\ ~appraising.gated
    /\ \E accepted \in SUBSET {e.from : e \in {f \in appraising.effects : HasSlow(f.from.candidate)}} :
         /\ \A e \in appraising.effects : Recipe[e.from.candidate] = "joint" => e.from \in accepted
         /\ appraising' = [appraising EXCEPT !.slow = accepted, !.gated = TRUE]
    /\ UNCHANGED <<journalVars, admitted, applications>>

ReceiptsOfTurn ==
    {[from |-> e.from, history |-> e.history, group |-> GroupOf(e.from)] :
       e \in {f \in appraising.effects : Recipe[f.from.candidate] # "none"}}

\* stage and commit of the receipts: the table takes one per acceptance.
StageReceipts ==
    /\ \A r \in ReceiptsOfTurn, s \in applications : r.from # s.from
    /\ applications' = applications \cup ReceiptsOfTurn

\* Seeded fault: the marker is not looked at; the key of the table alone guards.
CommitAppraisal_NoMarkerCheck ==
    /\ Appraising /\ appraising.gated
    /\ admitted' = admitted \cup {appraising.of} /\ StageReceipts
    /\ appraising' = NotAppraising
    /\ UNCHANGED journalVars

\* The commit of the turn, one transaction with the marker; an interaction
\* that has its marker is a replay, and nothing is written.
CommitAppraisal ==
    /\ Appraising /\ appraising.gated
    /\ IF appraising.of \in admitted
       THEN UNCHANGED <<admitted, applications>>
       ELSE admitted' = admitted \cup {appraising.of} /\ StageReceipts
    /\ appraising' = NotAppraising
    /\ UNCHANGED journalVars

\* An exception anywhere ends the attempt, and so does the death of the process.
AbandonTransition ==
    /\ Appraising /\ appraising' = NotAppraising
    /\ UNCHANGED <<journalVars, admitted, applications>>

\* Seeded fault: an acceptance that was superseded may come back.
Supersede_Reactivates(old, new) ==
    /\ old \in evaluations /\ Same(old, new) /\ new # old
    /\ Successors(old) = {}
    /\ \A y \in evaluations : Same(y, old) /\ IsCurrent(y) => y = old
    /\ evaluations' = evaluations \cup {new}
    /\ supersessions' = supersessions \cup {<<old, new>>}
    /\ UNCHANGED <<projections, admitted, applications, appraising>>

\* The journal's correction of an acceptance, on any connection at any time.
Supersede(old, new) ==
    /\ old \in evaluations /\ Same(old, new) /\ new # old
    /\ Successors(old) = {} /\ Successors(new) = {}
    /\ \A y \in evaluations : Same(y, old) /\ IsCurrent(y) => y = old
    /\ evaluations' = evaluations \cup {new}
    /\ supersessions' = supersessions \cup {<<old, new>>}
    /\ UNCHANGED <<projections, admitted, applications, appraising>>

TurnStep ==
    \/ \E c \in Candidates : \/ ReplayProjection(c) \/ ResumeAcceptance(c) \/ DeclineAppraisal(c)
                             \/ \E content \in Contents : AcceptAppraisal(c, content)
    \/ MaterializeProjection
    \/ InvokeGate
    \/ CommitAppraisal
    \/ AbandonTransition

AppraisalNext ==
    \/ \E i \in Exchanges, h \in Histories : BeginTransition(i, h)
    \/ TurnStep
    \/ \E old \in evaluations, content \in Contents :
         Supersede(old, [old EXCEPT !.content = content])

AppraisalSpec == AppraisalInit /\ [][AppraisalNext]_appraisalVars
------------------------------------------------------------------------------
AppraisalTypeOK ==
    /\ evaluations \subseteq Acceptances
    /\ projections \subseteq [from : Acceptances, history : Histories, row : Nat]
    /\ supersessions \subseteq Acceptances \X Acceptances
    /\ admitted \subseteq Exchanges
    /\ applications \subseteq [from : Acceptances, history : Histories, group : {"fast", "both"}]

\* However often an interaction is attempted, and whatever the gate says on
\* each attempt, a candidate is applied at most once, by the transaction that
\* wrote the marker of its own interaction.
AppliedOnce ==
    /\ \A r \in applications : r.from.of \in admitted
    /\ \A r, s \in applications : Same(r.from, s.from) => r = s

\* An acceptance is evaluated once: an attempt that finds it in the journal
\* works with the projection of the first, not with its own history.
EvaluatedOnce == \A p, q \in projections : p.from = q.from => p = q

\* A candidate the journal holds an acceptance of has exactly one that is in
\* force, so no attempt is refused as ambiguous and none asks the model again.
OneInForce ==
    \A x \in evaluations : \E y \in evaluations :
        /\ Same(x, y) /\ IsCurrent(y)
        /\ \A z \in evaluations : Same(x, z) /\ IsCurrent(z) => z = y

\* The commit that admits an interaction applies every candidate of it the
\* journal holds accepted and the projector has a rule for: an attempt that
\* was lost between the two journal transactions leaves nothing behind.
Covers(i) ==
    \A x \in evaluations : x.of = i /\ Recipe[x.candidate] # "none" =>
        \E r \in applications' : Same(r.from, x)
CommitCoversAccepted ==
    [][\A i \in Exchanges : i \notin admitted /\ i \in admitted' => Covers(i)]_appraisalVars
==============================================================================
