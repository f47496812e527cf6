------------------------------- MODULE MCPlanes -------------------------------
(***************************************************************************)
(* Small instances of the planes that keep state of their own and are      *)
(* driven apart from each other. They share no variable, except that the   *)
(* source loop and the pending overlay each work on the fact tables; so a  *)
(* behaviour of this module is one plane moving while the rest stays as it *)
(* was installed, and the states of the instances add up.                  *)
(***************************************************************************)
EXTENDS SettledSafety, ProactiveSafety, SourceSafety, SlowPlasticity,
        FactualState, PendingOverlay, BindingRegistry, MemoryPlane, MemoryThread, AppraisalPlane,
        ShadowSync, SurfaceHandoff, TLC

CONSTANTS lasting, brief, m1,           \* intent kinds, an inspiration material
          s1, s2,                       \* fact services
          i1, i2, prod, kayla,          \* runtime identities
          u2                            \* a second understanding

VARIABLE active   \* the plane that moves

OnePhoto == {2}

\* One kind never expires, one expires an instant after it is due; the daemon's
\* configuration has a rule for the first only, the turn's engine for the second.
Lives    == lasting :> 0 @@ brief :> 1
RuleSets == [a \in {"host", "daemon", "turn"} |->
               CASE a = "host" -> {lasting, brief} [] a = "daemon" -> {lasting}
                 [] a = "turn" -> {brief}]

Environments == i1 :> prod @@ i2 :> prod
Persons      == i1 :> kayla @@ i2 :> kayla

\* Two candidates with a slow proposal in one interaction, one without a rule in the other.
Routed  == 1 :> {1, 2} @@ 2 :> {3}
RuleFor == 1 :> "mixed" @@ 2 :> "joint" @@ 3 :> "none"

\* A page ends inside a group of equal timestamps, on a message that is not recorded.
SentAt == <<1, 1, 1, 2, 2>>
Passed  == <<"plain", "blank", "plain", "hidden", "plain">>

Planes == {"settled", "proactive", "facts", "source", "overlay",
           "slow", "state", "registry", "memory", "threads", "appraisal", "sync", "surface"}

SumVars == <<vars, planeVars, factVars, loopVars, overlay, overlayTurn, caller, deferred,
             discarded, slowVars, stateVars, registryVars, memoryVars, threadVars, appraisalVars,
             syncVars, surfaceVars, active>>

\* The admissions alone: two services, one evidence, two interactions.
AdmissionBound ==
    \A s \in Services : /\ call'[s].ev \in {Absent, 1} /\ call'[s].by \in {Absent, 1, 2}
                        /\ \A e \in Evidences \ {1} : known'[s][e] = Absent
\* The overlay: one service, two pieces of evidence, two turns.
OverlayBound ==
    /\ openTurn' # 3 /\ \A e \in Evidences \cap {3} : overlay'[e] = Absent /\ known'[s1][e] = Absent

\* The appraisals: one candidate may be understood, and corrected, in two ways.
AppraisalBound == \A x \in evaluations' : x.content = u2 => x.candidate = 1

SumInit ==
    /\ Init /\ PlaneInit /\ FactInit /\ SourceInit /\ OverlayInit
    /\ SlowInit /\ StateInit /\ RegistryInit /\ MemoryInit /\ ThreadInit /\ AppraisalInit
    /\ SyncInit /\ SurfaceInit
    /\ active \in Planes
    /\ active # "settled" => deliveredAt = [r \in Receipts |-> 1]

Settled   == active = "settled"   /\ Next
Proactive == active = "proactive" /\ PlaneNext
Facts     == active = "facts"     /\ FactNext /\ AdmissionBound
Source    == active = "source"    /\ SourceNext
Overlay   == active = "overlay"   /\ OverlayNext /\ OverlayBound
Slow      == active = "slow"      /\ SlowNext
State     == active = "state"     /\ StateNext
Registry  == active = "registry"  /\ RegistryNext
MemoryAdm == active = "memory"    /\ MemoryNext
Threads   == active = "threads"   /\ ThreadNext
Appraisal == active = "appraisal" /\ AppraisalNext /\ AppraisalBound
Sync      == active = "sync"      /\ SyncNext
Surface   == active = "surface"   /\ SurfaceNext

NotSettled   == UNCHANGED vars
NotProactive == UNCHANGED planeVars
NotFacts     == UNCHANGED factVars
NotSource    == UNCHANGED loopVars
NotOverlay   == UNCHANGED <<overlay, overlayTurn, caller, deferred, discarded>>
NotSlow      == UNCHANGED slowVars
NotState     == UNCHANGED stateVars
NotRegistry  == UNCHANGED registryVars
NotMemory    == UNCHANGED <<memoryVars, threadVars>>
NotAppraisal == UNCHANGED appraisalVars
NotSync      == UNCHANGED syncVars
NotSurface   == UNCHANGED surfaceVars

SumNext ==
    /\ UNCHANGED active
    /\ \/ Settled /\ NotProactive /\ NotFacts /\ NotSource /\ NotOverlay
                  /\ NotSlow /\ NotState /\ NotRegistry /\ NotMemory /\ NotAppraisal /\ NotSync /\ NotSurface
       \/ Proactive /\ NotSettled /\ NotFacts /\ NotSource /\ NotOverlay
                    /\ NotSlow /\ NotState /\ NotRegistry /\ NotMemory /\ NotAppraisal /\ NotSync /\ NotSurface
       \/ Facts /\ NotSettled /\ NotProactive /\ NotSource /\ NotOverlay
                /\ NotSlow /\ NotState /\ NotRegistry /\ NotMemory /\ NotAppraisal /\ NotSync /\ NotSurface
       \/ Source /\ NotSettled /\ NotProactive /\ NotOverlay
                 /\ NotSlow /\ NotState /\ NotRegistry /\ NotMemory /\ NotAppraisal /\ NotSync /\ NotSurface
       \/ Overlay /\ NotSettled /\ NotProactive /\ NotSource
                  /\ NotSlow /\ NotState /\ NotRegistry /\ NotMemory /\ NotAppraisal /\ NotSync /\ NotSurface
       \/ Slow /\ NotSettled /\ NotProactive /\ NotFacts /\ NotSource /\ NotOverlay
               /\ NotState /\ NotRegistry /\ NotMemory /\ NotAppraisal /\ NotSync /\ NotSurface
       \/ State /\ NotSettled /\ NotProactive /\ NotFacts /\ NotSource /\ NotOverlay
                /\ NotSlow /\ NotRegistry /\ NotMemory /\ NotAppraisal /\ NotSync /\ NotSurface
       \/ Registry /\ NotSettled /\ NotProactive /\ NotFacts /\ NotSource /\ NotOverlay
                   /\ NotSlow /\ NotState /\ NotMemory /\ NotAppraisal /\ NotSync /\ NotSurface
       \/ MemoryAdm /\ NotSettled /\ NotProactive /\ NotFacts /\ NotSource /\ NotOverlay
                    /\ NotSlow /\ NotState /\ NotRegistry /\ UNCHANGED threadVars /\ NotAppraisal /\ NotSync /\ NotSurface
       \/ Threads /\ NotSettled /\ NotProactive /\ NotFacts /\ NotSource /\ NotOverlay
                  /\ NotSlow /\ NotState /\ NotRegistry /\ UNCHANGED memoryVars /\ NotAppraisal /\ NotSync /\ NotSurface
       \/ Appraisal /\ NotSettled /\ NotProactive /\ NotFacts /\ NotSource /\ NotOverlay
                    /\ NotSlow /\ NotState /\ NotRegistry /\ NotMemory /\ NotSync /\ NotSurface
       \/ Sync /\ NotSettled /\ NotProactive /\ NotFacts /\ NotSource /\ NotOverlay
               /\ NotSlow /\ NotState /\ NotRegistry /\ NotMemory /\ NotAppraisal /\ NotSurface
       \/ Surface /\ NotSettled /\ NotProactive /\ NotFacts /\ NotSource /\ NotOverlay
                  /\ NotSlow /\ NotState /\ NotRegistry /\ NotMemory /\ NotAppraisal /\ NotSync

SumSpec == SumInit /\ [][SumNext]_SumVars
==============================================================================
