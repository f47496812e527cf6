----------------------------- MODULE AtomicCalls -----------------------------
(***************************************************************************)
(* What the callers of a shared store may rely on, whichever of their      *)
(* calls overlap and die: a call takes effect at one instant, on the store *)
(* as it is then, only where it is allowed, at most once, and before it is *)
(* answered; and nothing else changes the store.                           *)
(***************************************************************************)
CONSTANTS Callers, Calls,
          Untouched,       \* the store before the first call
          Reported,        \* the calls whose answers are observed
          Allowed(_, _),   \* a call may take effect on a store
          After(_, _)      \* the store a call makes of a store

VARIABLES store,
          begun,           \* calls under way, each with its caller, without effect
          effective,       \* those that took effect and have no answer yet
          answers          \* reported calls that were answered

contractVars == <<store, begun, effective, answers>>

Init == store = Untouched /\ begun = {} /\ effective = {} /\ answers = {}

Begin(c, r) ==
    /\ \A x \in begun \cup effective : x[1] # c
    /\ begun' = begun \cup {<<c, r>>}
    /\ UNCHANGED <<store, effective, answers>>

TakeEffect(x) ==
    /\ Allowed(x[2], store)
    /\ store' = After(x[2], store)
    /\ begun' = begun \ {x} /\ effective' = effective \cup {x}
    /\ UNCHANGED answers

Answer(x) ==
    /\ effective' = effective \ {x}
    /\ answers' = answers \cup ({x[2]} \cap Reported)
    /\ UNCHANGED <<store, begun>>

\* The call is refused, or its caller dies, before its effect or after it.
GiveUp(x) ==
    /\ begun' = begun \ {x} /\ effective' = effective \ {x}
    /\ UNCHANGED <<store, answers>>

Next ==
    \/ \E c \in Callers, r \in Calls : Begin(c, r)
    \/ \E x \in begun : TakeEffect(x)
    \/ \E x \in effective : Answer(x)
    \/ \E x \in begun \cup effective : GiveUp(x)

Spec == Init /\ [][Next]_contractVars
=============================================================================
