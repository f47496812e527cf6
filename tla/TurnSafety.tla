----------------------------- MODULE TurnSafety ------------------------------
(***************************************************************************)
(* The properties of TurnAdmission.                                        *)
(***************************************************************************)
EXTENDS TurnAdmission

Steps == {"idle", "acquire", "run", "policy", "handoff", "open", "prepare", "test",
          "commit", "publish"}

\* Types of the tables and of the fields of _Turn, TurnOrchestrator and the
\* adapter; the rows are numbered without gaps from version one.
TypeOK ==
    /\ \A k \in DOMAIN rows :
          /\ rows[k].version \in Nat \ {0} /\ rows[k].at \in Nat
          /\ rows[k].turns \subseteq Interactions
    /\ markers \subseteq Interactions
    /\ intent \in [Interactions -> {"ABSENT", "CANDIDATE", "ALLOWED", "HELD"}]
    /\ born \in [Interactions -> Nat]
    /\ handoff \in [Interactions -> {"ABSENT", "PENDING", "IN_FLIGHT", "ACCEPTED"}]
    /\ checkpoint \in [Interactions -> {"NONE", "AWAITING_COMMIT"}]
    /\ lease \in Stacks \cup {None}
    /\ \A s \in Stacks :
          /\ thread[s].at \in Steps
          /\ IF At(s, "idle") THEN thread[s] = Idle ELSE Turn(s) \in Interactions
          /\ thread[s].hand \in BOOLEAN /\ thread[s].guarded \in BOOLEAN
    /\ aborted \in [Stacks -> SUBSET Interactions]
    /\ told \subseteq Interactions /\ exposed \subseteq Interactions
    /\ unleased \subseteq Interactions

-----------------------------------------------------------------------------
\* MR-RUNTIME-05: turns under the lease, each on a freshly reloaded base, are
\* serial. What a committed turn did to the canonical state is never lost to
\* another turn, a retry, a fault or a crash; only a row written while the turn
\* was open by someone without the lease can overtake it.
CommittedTurnsSurvive == \A i \in markers \ exposed : i \in Current(rows).turns

\* Marker and projected row are admitted together and once: a concurrent second
\* attempt, a replay and a crash between any two steps add no second row, while
\* every attempt that commits does so under the lease.
AdmittedOnceWithMarker ==
    \A i \in Interactions \ unleased :
        Cardinality({k \in DOMAIN rows : rows[k].by = i}) = IF i \in markers THEN 1 ELSE 0

\* The lease is never left behind: its holder has a turn that runs or that the
\* Host can still commit or abort, whatever failed before.
LeaseNeverLeaked == lease # None => ~At(lease, "idle") /\ ~At(lease, "acquire")

\* A Host that was told "committed", by the attempt that committed or by another
\* stack's, finds the marker and the row of the turn after every crash.
ToldIsDurable == \A i \in told : i \in markers /\ \E k \in DOMAIN rows : rows[k].by = i

-----------------------------------------------------------------------------
\* orchestrator.py on the staleness test: when canonical moved on, the
\* projection must not be promoted silently.
StaleIsNotPromoted ==
    [][\A s \in Stacks :
          At(s, "commit") /\ At(s, "publish")' => thread[s].proj.version > Current(rows).version]_vars

\* runtime_adapter.py calls begin_turn at-least-once: an interaction whose first
\* attempt did not commit can be begun again.
RetryIsAdmitted == [][\A s \in Stacks : At(s, "run") /\ At(s, "idle")' => failures' # failures]_vars

\* checkpoints.py: after a restart an AWAITING_COMMIT checkpoint means that the
\* projection was never committed.
AwaitingMeansUncommitted ==
    \A i \in Interactions :
        checkpoint[i] = "AWAITING_COMMIT" /\ (\A s \in Stacks : At(s, "idle"))
            => i \notin markers
==============================================================================
