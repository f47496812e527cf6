-------------------------- MODULE DeliveryContract --------------------------
(***************************************************************************)
(* What the durable delivery plane promises about one outbound request,    *)
(* whatever daemon, carrier or crash is involved: a request is transmitted *)
(* only while it is open, at most once per opening, at most Budget times;  *)
(* it is opened again only after the previous opening was concluded; and a *)
(* delivered or refused request is finished for good.                      *)
(***************************************************************************)
EXTENDS Naturals

CONSTANTS Requests,   \* identities of the durable requests
          Budget      \* how often one request may be transmitted

VARIABLES phase,      \* where each request is
          armed,      \* the opening has not been used for a transmission yet
          sent        \* transmissions so far

contractVars == <<phase, armed, sent>>

Phases == {"none", "queued", "open", "delivered", "refused"}

Init == /\ phase = [r \in Requests |-> "none"]
        /\ armed = [r \in Requests |-> FALSE]
        /\ sent  = [r \in Requests |-> 0]

\* A request becomes durable.
Enqueue(r) == /\ phase[r] = "none"
              /\ phase' = [phase EXCEPT ![r] = "queued"]
              /\ UNCHANGED <<armed, sent>>

\* A queued request is opened for one transmission.
Open(r) == /\ phase[r] = "queued"
           /\ sent[r] < Budget
           /\ phase' = [phase EXCEPT ![r] = "open"]
           /\ armed' = [armed EXCEPT ![r] = TRUE]
           /\ UNCHANGED sent

\* The transmission of this opening.
Transmit(r) == /\ phase[r] = "open"
               /\ armed[r]
               /\ armed' = [armed EXCEPT ![r] = FALSE]
               /\ sent'  = [sent EXCEPT ![r] = @ + 1]
               /\ UNCHANGED phase

\* A crash may lose the transmissions of openings; it never adds one.
Disarm == /\ armed' = [r \in Requests |-> FALSE]
          /\ UNCHANGED <<phase, sent>>

\* The outcome of an opening whose transmission is used up is settled.
Conclude(r) == /\ phase[r] = "open"
               /\ ~armed[r]
               /\ \E p \in {"queued", "delivered", "refused"} :
                     phase' = [phase EXCEPT ![r] = p]
               /\ UNCHANGED <<armed, sent>>

Next == \/ Disarm
        \/ \E r \in Requests : Enqueue(r) \/ Open(r) \/ Transmit(r) \/ Conclude(r)

Spec == Init /\ [][Next]_contractVars
=============================================================================
