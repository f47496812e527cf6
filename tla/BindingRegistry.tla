---------------------------- MODULE BindingRegistry ----------------------------
(***************************************************************************)
(* The binding registry: one JSON file, which any administrative process   *)
(* reads, changes and replaces under an OS lock that dies with its holder, *)
(* and the create-once artifacts of published Persona revisions that its   *)
(* pins refer to. A process may die between any two of its file operations.*)
(***************************************************************************)
EXTENDS Naturals, FiniteSets

CONSTANTS Admins,        \* administrative processes
          BindingIds,
          Identities,    \* RuntimeBinding identities
          EnvironmentOf, \* the environment of an identity
          PersonaOf,     \* the persona of an identity
          Personas, Digests,
          NoOne,         \* no holder, no store, no entry, no pin
          MaxCalls       \* bound: calls begun

\* RegistryEntry, and the store of the file by binding_id.
Entries == [identity : Identities, default : BOOLEAN, pin : Digests \cup {NoOne}]
Stores  == [BindingIds -> Entries \cup {NoOne}]

ASSUME RegistryAssumption ==
    /\ NoOne \notin Admins \cup Identities \cup Digests
    /\ NoOne \notin Entries /\ NoOne \notin Stores
    /\ PersonaOf \in [Identities -> Personas]
    /\ MaxCalls \in Nat

VARIABLES
    registryFile,  \* registry.json: entry of a binding_id, or NoOne
    tmpFile,       \* registry.json.tmp
    lockHolder,    \* the flock on .binding-registry.lock
    admin,         \* where an administrative call is
    artifacts,     \* digest of the revision in a persona's artifact slot
    calls,         \* calls begun, up to MaxCalls
    acked          \* observation: registrations, pins, publications that returned

registryVars == <<registryFile, tmpFile, lockHolder, admin, artifacts, calls, acked>>

Initialize    == [op |-> "initialize"]
Registers     == [op : {"register"}, id : BindingIds, identity : Identities]
Defaults      == [op : {"set_default"}, id : BindingIds]
Clears        == [op : {"clear_default"}, env : {EnvironmentOf[i] : i \in Identities}]
Pins          == [op : {"pin"}, id : BindingIds, persona : Personas, digest : Digests]
Publications  == [op : {"publish"}, persona : Personas, digest : Digests]
Requests      == {Initialize} \cup Registers \cup Defaults \cup Clears \cup Pins

NoStore  == [b \in BindingIds |-> NoOne]
Known(f) == {b \in BindingIds : f[b] # NoOne}
Env(f, b) == EnvironmentOf[f[b].identity]
AtRest(a) == admin[a].at = "idle"
Rests      == [at |-> "idle", request |-> Initialize, data |-> NoStore]

-----------------------------------------------------------------------------
(* What a call makes of the store it has read.                             *)

Allowed(r, f) ==
    CASE r.op = "initialize"    -> f = NoOne
      [] r.op = "register"      -> /\ f # NoOne /\ f[r.id] = NoOne
                                   /\ \A b \in Known(f) : f[b].identity # r.identity
      [] r.op = "set_default"   -> f # NoOne /\ f[r.id] # NoOne
      [] r.op = "clear_default" -> f # NoOne
      [] r.op = "pin"           -> /\ f # NoOne /\ f[r.id] # NoOne
                                   /\ PersonaOf[f[r.id].identity] = r.persona
                                   /\ f[r.id].pin \in {NoOne, r.digest}

NewEntry(r) == [identity |-> r.identity, default |-> FALSE, pin |-> NoOne]

\* Seeded fault: the previous default of the environment stays.
Defaulted_Adds(f, id) == [f EXCEPT ![id].default = TRUE]
\* Replacement within the environment of the new default.
Defaulted(f, id) ==
    [b \in BindingIds |->
       IF b \in Known(f) /\ Env(f, b) = Env(f, id)
       THEN [f[b] EXCEPT !.default = (b = id)] ELSE f[b]]

Cleared(f, env) ==
    [b \in BindingIds |-> IF b \in Known(f) /\ Env(f, b) = env
                          THEN [f[b] EXCEPT !.default = FALSE] ELSE f[b]]

After(r, f) ==
    CASE r.op = "initialize"    -> NoStore
      [] r.op = "register"      -> [f EXCEPT ![r.id] = NewEntry(r)]
      [] r.op = "set_default"   -> Defaulted(f, r.id)
      [] r.op = "clear_default" -> Cleared(f, r.env)
      [] r.op = "pin"           -> [f EXCEPT ![r.id].pin = r.digest]

-----------------------------------------------------------------------------
(* A call: lock, load, write the temporary file, replace, unlock.          *)

CallAt(a, step) == admin[a].at = step
Goes(a, step) == admin' = [admin EXCEPT ![a].at = step]

\* Seeded fault: the lock excludes nobody.
MayEnter_Always == TRUE
MayEnter == lockHolder = NoOne

Enter(a, r) ==
    /\ AtRest(a) /\ MayEnter
    /\ calls < MaxCalls /\ calls' = calls + 1
    /\ lockHolder' = a
    /\ admin' = [admin EXCEPT ![a] = [at |-> "locked", request |-> r, data |-> NoStore]]
    /\ UNCHANGED <<registryFile, tmpFile, artifacts, acked>>

\* _load_store and the checks of the call; a refusal raises and unlocks.
Load(a) ==
    LET r == admin[a].request IN
    /\ CallAt(a, "locked") /\ Allowed(r, registryFile)
    /\ admin' = [admin EXCEPT ![a] = [at |-> "loaded", request |-> r,
                                      data |-> After(r, registryFile)]]
    /\ UNCHANGED <<registryFile, tmpFile, lockHolder, artifacts, calls, acked>>

Refuse(a) ==
    /\ CallAt(a, "locked") /\ ~Allowed(admin[a].request, registryFile)
    /\ admin' = [admin EXCEPT ![a] = Rests]
    /\ lockHolder' = NoOne
    /\ UNCHANGED <<registryFile, tmpFile, artifacts, calls, acked>>

\* Seeded fault: the lock covers the temporary file only.
WriteTmp_Unlocks(a) ==
    /\ CallAt(a, "loaded")
    /\ tmpFile' = admin[a].data
    /\ Goes(a, "written")
    /\ lockHolder' = NoOne
    /\ UNCHANGED <<registryFile, artifacts, calls, acked>>
\* _save_store writes beside the store first ...
WriteTmp(a) ==
    /\ CallAt(a, "loaded")
    /\ tmpFile' = admin[a].data
    /\ Goes(a, "written")
    /\ UNCHANGED <<registryFile, lockHolder, artifacts, calls, acked>>

\* ... and replaces the store in one step.
Replace(a) ==
    /\ CallAt(a, "written") /\ tmpFile # NoOne
    /\ registryFile' = tmpFile /\ tmpFile' = NoOne
    /\ Goes(a, "saved")
    /\ UNCHANGED <<lockHolder, artifacts, calls, acked>>

Return(a) ==
    /\ CallAt(a, "saved")
    /\ admin' = [admin EXCEPT ![a] = Rests]
    /\ lockHolder' = NoOne
    /\ acked' = acked \cup ({admin[a].request} \cap (Registers \cup Pins))
    /\ UNCHANGED <<registryFile, tmpFile, artifacts, calls>>

\* The process dies; the OS releases its lock, a temporary file stays.
AdminDies(a) ==
    /\ ~AtRest(a)
    /\ admin' = [admin EXCEPT ![a] = Rests]
    /\ lockHolder' = IF lockHolder = a THEN NoOne ELSE lockHolder
    /\ UNCHANGED <<registryFile, tmpFile, artifacts, calls, acked>>

\* publish: os.link creates the artifact or fails on one that exists; the same
\* content is a success, other content a conflict. The process may die before
\* it returns.
Publish(p) ==
    /\ artifacts[p.persona] \in {NoOne, p.digest}
    /\ artifacts' = [artifacts EXCEPT ![p.persona] = p.digest]
    /\ acked' \in {acked, acked \cup {p}}
    /\ UNCHANGED <<registryFile, tmpFile, lockHolder, admin, calls>>

RegistryInit ==
    /\ registryFile = NoOne /\ tmpFile = NoOne /\ lockHolder = NoOne
    /\ admin = [a \in Admins |-> Rests]
    /\ artifacts = [p \in Personas |-> NoOne]
    /\ calls = 0 /\ acked = {}

RegistryNext ==
    \/ \E a \in Admins :
         \/ \E r \in Requests : Enter(a, r)
         \/ Load(a) \/ Refuse(a) \/ WriteTmp(a) \/ Replace(a) \/ Return(a) \/ AdminDies(a)
    \/ \E p \in Publications : Publish(p)

RegistrySpec == RegistryInit /\ [][RegistryNext]_registryVars

-----------------------------------------------------------------------------
Live == IF registryFile = NoOne THEN {} ELSE Known(registryFile)

\* The store always loads (_load_store): one binding per identity, at most one
\* default per environment, whichever calls interleave and die.
RegistryValid ==
    \A b, c \in Live : b # c =>
      /\ registryFile[b].identity # registryFile[c].identity
      /\ registryFile[b].default /\ registryFile[c].default
           => Env(registryFile, b) # Env(registryFile, c)

\* What a call was told is done stays done, whatever other processes wrote
\* meanwhile: a binding keeps its identity, a pin is for ever (create-once).
AckedCallsLast ==
    \A r \in acked :
      /\ r.op # "publish" => r.id \in Live
      /\ r.op = "register" => registryFile[r.id].identity = r.identity
      /\ r.op = "pin" => registryFile[r.id].pin = r.digest
      /\ r.op = "publish" => artifacts[r.persona] = r.digest

\* The calls in progress before and after their replacement of the store.
Begun     == {<<a, admin[a].request>> : a \in {a \in Admins : ~AtRest(a) /\ ~CallAt(a, "saved")}}
Effective == {<<a, admin[a].request>> : a \in {a \in Admins : CallAt(a, "saved")}}

Atomic == INSTANCE AtomicCalls WITH
    Callers <- Admins, Calls <- Requests, Untouched <- NoOne, Reported <- Registers \cup Pins,
    Allowed <- Allowed, After <- After,
    store <- registryFile, begun <- Begun, effective <- Effective,
    answers <- acked \cap (Registers \cup Pins)

\* Every administrative call is atomic although it reads, computes, writes a
\* temporary file and replaces the store in four steps, any of which may be the
\* last of its process: no call is lost in another, none takes effect on a store
\* it was not checked against, and an answer is given for an effect only.
ImplementsAtomicCalls == Atomic!Spec
==============================================================================
