---------------------------- MODULE IntentContract ----------------------------
(***************************************************************************)
(* What the runtime promises of an intent, whichever passes treat it, from *)
(* whatever they read before, and wherever a process dies: it goes one way *)
(* through its life, is allowed once at most, and prose for it goes out    *)
(* once at most, only after it was allowed and never after it is complete. *)
(***************************************************************************)
EXTENDS Naturals

CONSTANT Intents

VARIABLES life,      \* where each intent is in its life
          granted,   \* the intents that were allowed
          told       \* how often prose for an intent went out

contractVars == <<life, granted, told>>

Init == /\ life = [i \in Intents |-> "ABSENT"]
        /\ granted = {}
        /\ told = [i \in Intents |-> 0]

Moves(i, from, to) == life[i] = from /\ life' = [life EXCEPT ![i] = to]

Appear(i) == Moves(i, "ABSENT", "CANDIDATE") /\ UNCHANGED <<granted, told>>

\* It waits for its time, or for the next decision.
Wait(i) ==
    /\ Moves(i, "CANDIDATE", "DEFERRED") \/ Moves(i, "DEFERRED", "CANDIDATE")
    /\ UNCHANGED <<granted, told>>

\* It ends without permission.
Drop(i) ==
    /\ \/ Moves(i, "CANDIDATE", "BLOCKED")
       \/ \E from \in {"CANDIDATE", "DEFERRED"}, to \in {"EXPIRED", "SUPERSEDED"} :
            Moves(i, from, to)
    /\ UNCHANGED <<granted, told>>

Allow(i) ==
    /\ Moves(i, "CANDIDATE", "ALLOWED")
    /\ i \notin granted /\ granted' = granted \cup {i}
    /\ UNCHANGED told

\* It was done, or given up.
Close(i) ==
    /\ Moves(i, "ALLOWED", "COMPLETED") \/ Moves(i, "ALLOWED", "SUPERSEDED")
    /\ UNCHANGED <<granted, told>>

\* Prose goes out, perhaps for an intent that another pass has superseded since.
Tell(i) ==
    /\ life[i] # "COMPLETED" /\ told[i] = 0
    /\ told' = [told EXCEPT ![i] = 1]
    /\ UNCHANGED <<life, granted>>

Present == {i \in Intents : life[i] # "ABSENT"}

Next ==
    \/ \E i \in Intents : Appear(i)
    \/ \E i \in Present : Wait(i) \/ Drop(i) \/ Allow(i) \/ Close(i)
    \/ \E i \in granted : Tell(i)

Spec == Init /\ [][Next]_contractVars
=============================================================================
