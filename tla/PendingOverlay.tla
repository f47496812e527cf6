---------------------------- MODULE PendingOverlay ----------------------------
(***************************************************************************)
(* The pending working overlay: evidence a turn ingests with deferred      *)
(* admission is held in memory until it is accepted - admitted under the   *)
(* turn that brought it (FactAdmission) and then removed - or rejected, or *)
(* dropped with its turn or with the process. A turn may also ingest the   *)
(* same evidence canonically. Store calls may raise in between.            *)
(***************************************************************************)
EXTENDS FactAdmission

CONSTANTS Promoter,      \* the fact service of the orchestrator
          PendingBytes   \* the evidence accept_pending synthesizes: cut to 200 characters

ASSUME OverlayAssumption == Promoter \in Services /\ PendingBytes \in Bytes

VARIABLES
    overlay,     \* source_turn_id of an item in the overlay
    openTurn,    \* the turn that holds the lease
    turnFailed,  \* an AgentFailure set it ABORTED
    caller,      \* who is in the fact service: "accept", "ingest" or "none"
    (* observations *)
    deferred,    \* evidence whose admission was deferred since the process began
    discarded    \* items rejected, or dropped with their turn

overlayTurn == <<openTurn, turnFailed>>
overlayVars == <<factVars, overlay, overlayTurn, caller, deferred, discarded>>

FactQuiet == UNCHANGED factVars

BeginOverlayTurn(i) ==
    /\ openTurn = Absent
    /\ openTurn' = i /\ turnFailed' = FALSE
    /\ UNCHANGED <<overlay, caller, deferred, discarded>> /\ FactQuiet

\* ingest with defer_admission; add refuses an item it already has.
Defer(e) ==
    /\ openTurn # Absent /\ ~turnFailed /\ caller = "none"
    /\ overlay[e] = Absent
    /\ overlay' = [overlay EXCEPT ![e] = openTurn]
    /\ deferred' = deferred \cup {e} /\ discarded' = discarded \ {e}
    /\ UNCHANGED <<overlayTurn, caller>> /\ FactQuiet

Calling(who) ==
    /\ caller = "none"
    /\ caller' = IF call'[Promoter].at = "idle" THEN "none" ELSE who

\* Canonical ingest by the open turn.
IngestNow(e, b) ==
    /\ openTurn # Absent /\ ~turnFailed
    /\ \/ AdmitConflict(Promoter, e, b) \/ AdmitReplay(Promoter, e, b)
       \/ AdmitWrite(Promoter, e, openTurn, b) \/ AdmitDenied(Promoter, e, openTurn, b)
    /\ Calling("ingest")
    /\ UNCHANGED <<overlay, overlayTurn, deferred, discarded>>

\* accept_pending: the item's turn is the interaction; no turn need be open. A
\* refusal raises and leaves the item; an observation known already is enough.
AcceptPending(e) ==
    /\ overlay[e] # Absent
    /\ \/ AdmitConflict(Promoter, e, PendingBytes) /\ UNCHANGED overlay
       \/ AdmitReplay(Promoter, e, PendingBytes) /\ overlay' = [overlay EXCEPT ![e] = Absent]
       \/ /\ \/ AdmitWrite(Promoter, e, overlay[e], PendingBytes)
             \/ AdmitDenied(Promoter, e, overlay[e], PendingBytes)
          /\ UNCHANGED overlay
    /\ Calling("accept")
    /\ UNCHANGED <<overlayTurn, deferred, discarded>>

\* Seeded fault: an item leaves the overlay before it is admitted.
Leaves_Early(e) == TRUE
\* The item is removed when the admission has answered with an observation.
Leaves(e) == call'[Promoter].at = "idle" /\ seen'[Promoter][e] # Absent

Admission ==
    LET e == call[Promoter].ev IN
    /\ caller # "none" /\ FactStep(Promoter)
    /\ caller' = IF call'[Promoter].at = "idle" THEN "none" ELSE caller
    /\ overlay' = IF caller = "accept" /\ Leaves(e)
                  THEN [overlay EXCEPT ![e] = Absent] ELSE overlay
    /\ UNCHANGED <<overlayTurn, deferred, discarded>>

AdmissionRaises ==
    /\ caller # "none" /\ WriteRaises(Promoter) /\ caller' = "none"
    /\ UNCHANGED <<overlay, overlayTurn, deferred, discarded>>

RejectPending(e) ==
    /\ caller = "none" /\ overlay[e] # Absent
    /\ overlay' = [overlay EXCEPT ![e] = Absent]
    /\ discarded' = discarded \cup {e}
    /\ UNCHANGED <<overlayTurn, caller, deferred>> /\ FactQuiet

\* An AgentFailure of the run sets the turn ABORTED before it raises.
AgentFails ==
    /\ openTurn # Absent /\ ~turnFailed /\ caller = "none"
    /\ turnFailed' = TRUE
    /\ UNCHANGED <<overlay, openTurn, caller, deferred, discarded>> /\ FactQuiet

Of(i) == {e \in Evidences : overlay[e] = i}

\* commit_turn keeps the pending items, abort_turn drops those of the turn -
\* unless the turn is ABORTED already, which returns first.
EndTurn(how) ==
    /\ openTurn # Absent /\ caller = "none"
    /\ openTurn' = Absent /\ turnFailed' = FALSE
    /\ IF how = "abort" /\ ~turnFailed
       THEN /\ overlay' = [e \in Evidences |-> IF e \in Of(openTurn) THEN Absent ELSE overlay[e]]
            /\ discarded' = discarded \cup Of(openTurn)
       ELSE (turnFailed => how = "abort") /\ UNCHANGED <<overlay, discarded>>
    /\ UNCHANGED <<caller, deferred>> /\ FactQuiet

\* The overlay is not durable.
OverlayRestart ==
    /\ FactRestart(Promoter)
    /\ overlay' = Empties(Evidences) /\ openTurn' = Absent /\ turnFailed' = FALSE
    /\ caller' = "none" /\ deferred' = {} /\ discarded' = {}

OverlayInit ==
    /\ FactInit /\ overlay = Empties(Evidences)
    /\ openTurn = Absent /\ turnFailed = FALSE /\ caller = "none"
    /\ deferred = {} /\ discarded = {}

OverlayNext ==
    \/ \E i \in Interactions : BeginOverlayTurn(i)
    \/ \E e \in Evidences :
         \/ Defer(e) \/ AcceptPending(e) \/ RejectPending(e)
         \/ \E b \in Bytes : IngestNow(e, b)
    \/ Admission \/ AdmissionRaises \/ AgentFails
    \/ \E how \in {"commit", "abort"} : EndTurn(how)
    \/ OverlayRestart

OverlaySpec == OverlayInit /\ [][OverlayNext]_overlayVars

-----------------------------------------------------------------------------
\* What a turn deferred is not lost while the process lives: it is in the
\* overlay, or was turned down, or its observation is stored - also when the
\* admission of an accepted item is refused or its write raises.
DeferredIsKept ==
    \A e \in deferred \ discarded : overlay[e] # Absent \/ observationRow[e] # Absent
==============================================================================
