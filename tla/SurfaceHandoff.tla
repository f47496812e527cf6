---------------------------- MODULE SurfaceHandoff ----------------------------
(***************************************************************************)
(* The SURFACE_V1 handoff of one interaction, transaction by transaction:  *)
(* run records the request, the Host has each draft of the Body guarded,   *)
(* and commit acknowledges the delivery before it commits. A storage call  *)
(* may raise and the process may die between any two; the interaction is   *)
(* then begun again and meets what the earlier attempts left. TurnAdmission *)
(* has the turn around it; the daemon leaves rows with a handoff alone.    *)
(***************************************************************************)
EXTENDS Naturals

CONSTANTS MaxDrafts,  \* bound: guarded drafts
          MaxClock    \* bound: the clock

ASSUME SurfaceAssumption == MaxDrafts \in Nat /\ MaxClock \in Nat

VARIABLES
    surfaceRow,     \* delivery_requests: state, attempt count, created_at
    guardRows,      \* delivery_attempts: the verdict of each physical attempt
    surfaceReceipt, \* delivery_receipts: instant and attempt
    hostTurn,       \* the turn: its step, its request, the guard's last answer
    handedOff,      \* the interaction was committed by a turn that handed off
    clock

surfaceVars == <<surfaceRow, guardRows, surfaceReceipt, hostTurn, handedOff, clock>>

DraftNos   == 1 .. MaxDrafts
Verdicts   == {"accept", "reject"}
NoVerdict  == "none"
NoRequest  == [state |-> "ABSENT", attempts |-> 0, created |-> 0]
NoReceipt  == [at |-> 0, attempt |-> 0]
Unopened   == [at |-> "off", hand |-> FALSE, guarded |-> FALSE, verdict |-> NoVerdict]

AtHand(st)  == hostTurn.at = st
HandTo(st)  == hostTurn' = [hostTurn EXCEPT !.at = st]
EndsTurn    == hostTurn' = Unopened
RowsStay    == UNCHANGED <<surfaceRow, guardRows, surfaceReceipt, handedOff, clock>>

\* begin_turn; a committed interaction is answered from its marker.
OpenTurn == AtHand("off") /\ handedOff = "no" /\ HandTo("run") /\ RowsStay

\* run ends without a handoff: no intent was allowed in this attempt.
RunQuietly == AtHand("run") /\ HandTo("open") /\ RowsStay

\* record_request: the same request is recorded once. Another attempt builds it
\* at another instant, and other bytes under its id raise: the turn is aborted.
HandOff ==
    /\ AtHand("run")
    /\ \/ /\ surfaceRow = NoRequest
          /\ surfaceRow' = [state |-> "PENDING", attempts |-> 0, created |-> clock]
          /\ hostTurn' = [hostTurn EXCEPT !.at = "open", !.hand = TRUE]
       \/ /\ surfaceRow # NoRequest /\ surfaceRow.created = clock
          /\ hostTurn' = [hostTurn EXCEPT !.at = "open", !.hand = TRUE]
          /\ UNCHANGED surfaceRow
       \/ /\ surfaceRow # NoRequest /\ EndsTurn /\ UNCHANGED surfaceRow
    /\ UNCHANGED <<guardRows, surfaceReceipt, handedOff, clock>>

\* Seeded fault: the answer about an earlier draft stands until there is a new one.
GuardDraft_KeepsAnswer ==
    /\ AtHand("open") /\ hostTurn.hand
    /\ \/ /\ surfaceRow.state \in {"PENDING", "IN_FLIGHT"} /\ surfaceRow.attempts < MaxDrafts
          /\ \E v \in Verdicts :
               hostTurn' = [hostTurn EXCEPT !.at = IF surfaceRow.state = "PENDING"
                                                   THEN "launch" ELSE "count",
                                            !.verdict = v]
       \/ UNCHANGED hostTurn
    /\ RowsStay

\* guard_surface_provider_prose up to its first write. It may be refused, by the
\* guard or since the row is no longer in flight, after it forgot its last answer.
GuardDraft ==
    /\ AtHand("open") /\ hostTurn.hand
    /\ \/ /\ surfaceRow.state \in {"PENDING", "IN_FLIGHT"} /\ surfaceRow.attempts < MaxDrafts
          /\ \E v \in Verdicts :
               hostTurn' = [hostTurn EXCEPT !.at = IF surfaceRow.state = "PENDING"
                                                   THEN "launch" ELSE "count",
                                            !.guarded = FALSE, !.verdict = v]
       \/ hostTurn' = [hostTurn EXCEPT !.guarded = FALSE]
    /\ RowsStay

LaunchHandoff ==
    /\ AtHand("launch") /\ HandTo("count")
    /\ surfaceRow' = [surfaceRow EXCEPT !.state = "IN_FLIGHT"]
    /\ UNCHANGED <<guardRows, surfaceReceipt, handedOff, clock>>

CountDraft ==
    /\ AtHand("count") /\ HandTo("log")
    /\ surfaceRow' = [surfaceRow EXCEPT !.attempts = @ + 1]
    /\ UNCHANGED <<guardRows, surfaceReceipt, handedOff, clock>>

\* record_attempt; only then does the turn know its answer.
LogDraft ==
    /\ AtHand("log")
    /\ guardRows' = [guardRows EXCEPT ![surfaceRow.attempts] = hostTurn.verdict]
    /\ hostTurn' = [hostTurn EXCEPT !.at = "open", !.guarded = hostTurn.verdict = "accept",
                                    !.verdict = NoVerdict]
    /\ UNCHANGED <<surfaceRow, surfaceReceipt, handedOff, clock>>

\* commit_turn of the adapter: acknowledge_surface_delivery comes first. Without
\* an accepted draft it raises, and the turn is aborted.
AckHandoff ==
    /\ AtHand("open")
    /\ \/ ~hostTurn.hand /\ HandTo("commit")
       \/ hostTurn.hand /\ ~hostTurn.guarded /\ EndsTurn
       \/ /\ hostTurn.hand /\ hostTurn.guarded
          /\ HandTo(IF surfaceRow.state = "ACCEPTED" THEN "commit" ELSE "receipt")
    /\ RowsStay

\* Another attempt makes the receipt at another instant, and other bytes under
\* its id raise.
SaveReceipt ==
    LET receipt == [at |-> clock, attempt |-> surfaceRow.attempts] IN
    /\ AtHand("receipt")
    /\ IF surfaceReceipt \in {NoReceipt, receipt}
         THEN surfaceReceipt' = receipt /\ HandTo("accepted")
         ELSE UNCHANGED surfaceReceipt /\ EndsTurn
    /\ UNCHANGED <<surfaceRow, guardRows, handedOff, clock>>

AcceptHandoff ==
    /\ AtHand("accepted") /\ HandTo("commit")
    /\ surfaceRow' = [surfaceRow EXCEPT !.state = "ACCEPTED"]
    /\ UNCHANGED <<guardRows, surfaceReceipt, handedOff, clock>>

CommitHandoff ==
    /\ AtHand("commit") /\ EndsTurn
    /\ handedOff' = IF hostTurn.hand THEN "yes" ELSE "without"
    /\ UNCHANGED <<surfaceRow, guardRows, surfaceReceipt, clock>>

\* A storage error is not among the exceptions the adapter catches: the turn
\* stays open and the Host may call again.
StorageRaises ==
    /\ hostTurn.at \in {"launch", "count", "log", "receipt", "accepted", "commit"}
    /\ HandTo("open") /\ RowsStay

\* The Host aborts, the turn fails or the process dies.
HandoffLost == ~AtHand("off") /\ EndsTurn /\ RowsStay

ClockMoves == clock < MaxClock /\ clock' = clock + 1
              /\ UNCHANGED <<surfaceRow, guardRows, surfaceReceipt, hostTurn, handedOff>>

SurfaceInit ==
    /\ surfaceRow = NoRequest /\ guardRows = [n \in DraftNos |-> NoVerdict]
    /\ surfaceReceipt = NoReceipt /\ hostTurn = Unopened
    /\ handedOff = "no" /\ clock = 1

SurfaceNext ==
    \/ OpenTurn \/ RunQuietly \/ HandOff
    \/ GuardDraft \/ LaunchHandoff \/ CountDraft \/ LogDraft
    \/ AckHandoff \/ SaveReceipt \/ AcceptHandoff \/ CommitHandoff
    \/ StorageRaises \/ HandoffLost \/ ClockMoves

SurfaceSpec == SurfaceInit /\ [][SurfaceNext]_surfaceVars

-----------------------------------------------------------------------------

\* The chain from a commit back to the guard never breaks, whatever raised, was
\* retried or died between its five transactions: an interaction committed with a
\* handoff has it ACCEPTED, what is ACCEPTED has a receipt, and the receipt is of
\* a draft the guard accepted.
AcknowledgedWasGuarded ==
    /\ handedOff = "yes" => surfaceRow.state = "ACCEPTED"
    /\ surfaceRow.state = "ACCEPTED" => surfaceReceipt # NoReceipt
    /\ surfaceReceipt # NoReceipt => guardRows[surfaceReceipt.attempt] = "accept"

-----------------------------------------------------------------------------
(* The inductive invariant.                                                *)

HandoffSteps == {"off", "run", "open", "launch", "count", "log", "receipt", "accepted", "commit"}

SurfaceTypeOK ==
    /\ surfaceRow \in [state : {"ABSENT", "PENDING", "IN_FLIGHT", "ACCEPTED"},
                       attempts : 0 .. MaxDrafts, created : Nat]
    /\ guardRows \in [DraftNos -> Verdicts \cup {NoVerdict}]
    /\ surfaceReceipt \in [at : Nat, attempt : 0 .. MaxDrafts]
    /\ hostTurn \in [at : HandoffSteps, hand : BOOLEAN, guarded : BOOLEAN,
                     verdict : Verdicts \cup {NoVerdict}]
    /\ clock \in Nat \ {0}

\* What the turn knows at each of its steps: an accepted answer is about the
\* last attempt of the row.
TurnKnows ==
    /\ hostTurn.guarded => /\ surfaceRow.attempts > 0 /\ hostTurn.hand
                           /\ guardRows[surfaceRow.attempts] = "accept"
    /\ hostTurn.at \in {"launch", "count"} =>
          /\ surfaceRow.state \in {"PENDING", "IN_FLIGHT"}
          /\ surfaceRow.attempts < MaxDrafts /\ ~hostTurn.guarded
    /\ AtHand("count") => surfaceRow.state = "IN_FLIGHT"
    /\ AtHand("log") => /\ surfaceRow.state = "IN_FLIGHT" /\ ~hostTurn.guarded
                        /\ surfaceReceipt.attempt < surfaceRow.attempts
    /\ hostTurn.at \in {"launch", "count", "log"} => hostTurn.hand
    /\ hostTurn.at \in {"receipt", "accepted"} => hostTurn.guarded
    /\ AtHand("accepted") => surfaceReceipt # NoReceipt
    /\ AtHand("commit") /\ hostTurn.hand => surfaceRow.state = "ACCEPTED"
    /\ AtHand("commit") /\ hostTurn.hand => surfaceReceipt # NoReceipt

SurfaceInv ==
    /\ SurfaceTypeOK /\ TurnKnows /\ AcknowledgedWasGuarded
    /\ surfaceReceipt.attempt <= surfaceRow.attempts
    /\ handedOff = "yes" => AtHand("off")
==============================================================================
