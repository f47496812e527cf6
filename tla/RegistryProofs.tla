---------------------------- MODULE RegistryProofs ----------------------------
(***************************************************************************)
(* Theorems about BindingRegistry for any number of administrative         *)
(* processes, bindings, calls and deaths: the store always loads, and what *)
(* a call was told is done stays done.                                     *)
(***************************************************************************)
EXTENDS BindingRegistry, TLAPS

CallSteps == {"idle", "locked", "loaded", "written", "saved"}

RegistryTypeOK ==
    /\ registryFile \in Stores \cup {NoOne} /\ tmpFile \in Stores \cup {NoOne}
    /\ admin \in [Admins -> [at : CallSteps, request : Requests, data : Stores]]
    /\ artifacts \in [Personas -> Digests \cup {NoOne}]
    /\ acked \subseteq Registers \cup Pins \cup Publications

\* One binding per identity, at most one default per environment.
ValidStore(f) ==
    \A b, c \in Known(f) : b # c =>
      /\ f[b].identity # f[c].identity
      /\ f[b].default /\ f[c].default => Env(f, b) # Env(f, c)

\* What a registration or a pin does holds of store f.
Holds(r, f) ==
    /\ r.id \in Known(f)
    /\ r.op = "register" => f[r.id].identity = r.identity
    /\ r.op = "pin" => f[r.id].pin = r.digest

\* Store g keeps the bindings and pins of f.
Keeps(f, g) ==
    \A b \in Known(f) : /\ b \in Known(g) /\ g[b].identity = f[b].identity
                        /\ f[b].pin # NoOne => g[b].pin = f[b].pin

\* Only the holder of the lock is in a call; what it is about to save is what
\* its request makes of the store as it is, and what it has saved is the store.
Locked ==
    \A a \in Admins :
      /\ ~AtRest(a) => lockHolder = a
      /\ CallAt(a, "loaded") \/ CallAt(a, "written") =>
           /\ Allowed(admin[a].request, registryFile)
           /\ admin[a].data = After(admin[a].request, registryFile)
      /\ CallAt(a, "written") => tmpFile = admin[a].data
      /\ CallAt(a, "saved") =>
           /\ registryFile # NoOne
           /\ admin[a].request \in Registers \cup Pins => Holds(admin[a].request, registryFile)

Answered ==
    \A r \in acked :
      /\ r.op # "publish" => registryFile # NoOne /\ Holds(r, registryFile)
      /\ r.op = "publish" => artifacts[r.persona] = r.digest

RegistryInv ==
    /\ RegistryTypeOK /\ Locked /\ Answered
    /\ registryFile # NoOne => ValidStore(registryFile)

-----------------------------------------------------------------------------
(* What a call makes of a store.                                           *)

LEMMA KnownEntries ==
    ASSUME NEW f \in Stores, NEW b \in Known(f)
    PROVE  b \in BindingIds /\ f[b] \in Entries /\ f[b].identity \in Identities
           /\ f[b].default \in BOOLEAN /\ f[b].pin \in Digests \cup {NoOne}
<1>1. b \in BindingIds /\ f[b] \in Entries
  BY DEF Known, Stores
<1> QED BY <1>1 DEF Entries

\* A default is set or cleared in some bindings, the rest stays as it is.
LEMMA DefaultsChange ==
    ASSUME NEW f \in Stores, NEW S \in SUBSET Known(f), NEW d \in [BindingIds -> BOOLEAN]
    PROVE  LET g == [b \in BindingIds |-> IF b \in S THEN [f[b] EXCEPT !.default = d[b]] ELSE f[b]]
           IN /\ g \in Stores /\ Known(g) = Known(f) /\ Keeps(f, g)
              /\ \A b \in Known(f) : /\ g[b].identity = f[b].identity
                                     /\ g[b].default = IF b \in S THEN d[b] ELSE f[b].default
<1> DEFINE g == [b \in BindingIds |-> IF b \in S THEN [f[b] EXCEPT !.default = d[b]] ELSE f[b]]
<1>1. ASSUME NEW e \in Entries, NEW v \in BOOLEAN
      PROVE  LET u == [e EXCEPT !.default = v] IN
             /\ u \in Entries /\ u.identity = e.identity /\ u.pin = e.pin /\ u.default = v
  BY DEF Entries
<1>2. \A b \in S : b \in BindingIds /\ f[b] \in Entries /\ d[b] \in BOOLEAN
  BY KnownEntries DEF Known
<1>3. \A b \in S : /\ g[b] \in Entries /\ g[b].identity = f[b].identity /\ g[b].pin = f[b].pin
                   /\ g[b].default = d[b]
  <2> SUFFICES ASSUME NEW b \in S
               PROVE  /\ g[b] \in Entries /\ g[b].identity = f[b].identity /\ g[b].pin = f[b].pin
                      /\ g[b].default = d[b]
    OBVIOUS
  <2> DEFINE e == f[b]
             v == d[b]
  <2>1. e \in Entries /\ v \in BOOLEAN /\ g[b] = [e EXCEPT !.default = v]
    BY <1>2
  <2> HIDE DEF e, v, g
  <2>2. /\ g[b] \in Entries /\ g[b].identity = e.identity /\ g[b].pin = e.pin /\ g[b].default = v
    BY <1>1, <2>1
  <2> QED BY <2>2 DEF e, v
<1>4. \A b \in BindingIds \ S : g[b] = f[b]
  OBVIOUS
<1>5. DOMAIN g = BindingIds /\ g = [b \in BindingIds |-> g[b]]
  OBVIOUS
<1> HIDE DEF g
<1>6. g \in Stores
  BY <1>3, <1>4, <1>5 DEF Stores
<1>7. Known(g) = Known(f)
  BY <1>2, <1>3, <1>4, RegistryAssumption DEF Known, RegistryAssumption
<1>8. \A b \in Known(f) : /\ g[b].identity = f[b].identity /\ g[b].pin = f[b].pin
                          /\ g[b].default = IF b \in S THEN d[b] ELSE f[b].default
  BY <1>3, <1>4 DEF Known
<1> QED BY <1>6, <1>7, <1>8 DEF Keeps, g

\* A store after set_default is valid: one default in the environment.
LEMMA DefaultedValid ==
    ASSUME NEW f \in Stores, ValidStore(f), NEW id \in Known(f)
    PROVE  Defaulted(f, id) \in Stores /\ ValidStore(Defaulted(f, id)) /\ Keeps(f, Defaulted(f, id))
<1> DEFINE S == {b \in Known(f) : Env(f, b) = Env(f, id)}
           d == [b \in BindingIds |-> b = id]
           g == [b \in BindingIds |-> IF b \in S THEN [f[b] EXCEPT !.default = d[b]] ELSE f[b]]
<1>1. S \in SUBSET Known(f) /\ d \in [BindingIds -> BOOLEAN]
  OBVIOUS
<1>2. /\ g \in Stores /\ Known(g) = Known(f) /\ Keeps(f, g)
      /\ \A b \in Known(f) : /\ g[b].identity = f[b].identity
                             /\ g[b].default = IF b \in S THEN d[b] ELSE f[b].default
  <2> HIDE DEF S, d
  <2> QED BY <1>1, DefaultsChange
<1>3. Defaulted(f, id) = g
  BY DEF Defaulted
<1> HIDE DEF g
<1>4. \A b \in Known(f) : b \in BindingIds /\ Env(g, b) = Env(f, b)
  BY <1>2 DEF Env, Known
<1>5. \A b \in Known(f) : b \in S /\ g[b].default => b = id
  BY <1>2, <1>4
<1>6. \A b \in Known(f) : b \notin S => g[b].default = f[b].default /\ Env(f, b) # Env(f, id)
  BY <1>2
<1>7. id \in S
  OBVIOUS
<1> HIDE DEF S
<1>8. ASSUME NEW b \in Known(g), NEW c \in Known(g), b # c
      PROVE  /\ g[b].identity # g[c].identity
             /\ g[b].default /\ g[c].default => Env(g, b) # Env(g, c)
  <2>1. b \in Known(f) /\ c \in Known(f)
    BY <1>2
  <2>2. g[b].identity # g[c].identity
    BY <1>2, <1>8, <2>1 DEF ValidStore
  <2>3. ASSUME g[b].default, g[c].default PROVE Env(g, b) # Env(g, c)
    <3>1. CASE b \in S \/ c \in S
      BY <1>4, <1>5, <1>6, <1>8, <2>1, <2>3, <3>1
    <3>2. CASE b \notin S /\ c \notin S
      BY <1>4, <1>6, <1>8, <2>1, <2>3, <3>2 DEF ValidStore
    <3> QED BY <3>1, <3>2
  <2> QED BY <2>2, <2>3
<1> QED BY <1>2, <1>3, <1>8 DEF ValidStore

\* A store after clear_default is valid.
LEMMA ClearedValid ==
    ASSUME NEW f \in Stores, ValidStore(f), NEW env
    PROVE  Cleared(f, env) \in Stores /\ ValidStore(Cleared(f, env)) /\ Keeps(f, Cleared(f, env))
<1> DEFINE S == {b \in Known(f) : Env(f, b) = env}
           d == [b \in BindingIds |-> FALSE]
           g == [b \in BindingIds |-> IF b \in S THEN [f[b] EXCEPT !.default = d[b]] ELSE f[b]]
<1>1. S \in SUBSET Known(f) /\ d \in [BindingIds -> BOOLEAN]
  OBVIOUS
<1>2. /\ g \in Stores /\ Known(g) = Known(f) /\ Keeps(f, g)
      /\ \A b \in Known(f) : /\ g[b].identity = f[b].identity
                             /\ g[b].default = IF b \in S THEN d[b] ELSE f[b].default
  <2> HIDE DEF S, d
  <2> QED BY <1>1, DefaultsChange
<1>3. Cleared(f, env) = g
  BY DEF Cleared, Known
<1> HIDE DEF g
<1>4. \A b \in Known(f) : b \in BindingIds /\ Env(g, b) = Env(f, b)
  BY <1>2 DEF Env, Known
<1>5. \A b \in Known(f) : g[b].default => f[b].default
  BY <1>2, <1>4
<1>6. ValidStore(g)
  BY <1>2, <1>4, <1>5 DEF ValidStore
<1> QED BY <1>2, <1>3, <1>6

\* A store after register is valid: the new binding is of a new identity.
LEMMA RegisteredValid ==
    ASSUME NEW f \in Stores, ValidStore(f), NEW r \in Registers, Allowed(r, f)
    PROVE  /\ After(r, f) \in Stores /\ ValidStore(After(r, f)) /\ Keeps(f, After(r, f))
           /\ Holds(r, After(r, f))
<1> DEFINE g == [f EXCEPT ![r.id] = NewEntry(r)]
<1>1. r.op = "register" /\ r.id \in BindingIds /\ r.identity \in Identities
  BY DEF Registers
<1>2. After(r, f) = g
  BY <1>1 DEF After
<1>3. f[r.id] = NoOne /\ \A b \in Known(f) : f[b].identity # r.identity
  BY <1>1 DEF Allowed
<1>4. NewEntry(r) \in Entries /\ NewEntry(r).identity = r.identity /\ ~NewEntry(r).default
  BY <1>1 DEF NewEntry, Entries
<1>5. /\ g \in Stores /\ g[r.id] = NewEntry(r)
      /\ \A b \in BindingIds : b # r.id => g[b] = f[b]
  BY <1>1, <1>4 DEF Stores
<1> HIDE DEF g
<1>6. NewEntry(r) # NoOne
  BY <1>4, RegistryAssumption DEF RegistryAssumption
<1>7. Known(g) = Known(f) \cup {r.id} /\ r.id \notin Known(f)
  BY <1>1, <1>3, <1>5, <1>6 DEF Known
<1>8. \A b \in Known(f) : g[b] = f[b] /\ Env(g, b) = Env(f, b)
  BY <1>5, <1>7 DEF Known, Env
<1>9. Keeps(f, g)
  BY <1>7, <1>8 DEF Keeps
<1>10. ValidStore(g)
  BY <1>3, <1>4, <1>5, <1>7, <1>8 DEF ValidStore
<1>11. Holds(r, g)
  BY <1>1, <1>4, <1>5, <1>7 DEF Holds
<1> QED BY <1>2, <1>5, <1>9, <1>10, <1>11

\* A store after pin is valid: the pin of its binding was free or the same.
LEMMA PinnedValid ==
    ASSUME NEW f \in Stores, ValidStore(f), NEW r \in Pins, Allowed(r, f)
    PROVE  /\ After(r, f) \in Stores /\ ValidStore(After(r, f)) /\ Keeps(f, After(r, f))
           /\ Holds(r, After(r, f))
<1> DEFINE g == [f EXCEPT ![r.id].pin = r.digest]
           e == f[r.id]
           u == [e EXCEPT !.pin = r.digest]
<1>1. r.op = "pin" /\ r.id \in BindingIds /\ r.digest \in Digests
  BY DEF Pins
<1>2. After(r, f) = g
  BY <1>1 DEF After
<1>3. e # NoOne /\ e.pin \in {NoOne, r.digest}
  BY <1>1 DEF Allowed
<1>4. e \in Entries /\ r.id \in Known(f)
  BY <1>1, <1>3 DEF Stores, Known
<1>5. u \in Entries /\ u.identity = e.identity /\ u.default = e.default /\ u.pin = r.digest
  <2> HIDE DEF e
  <2> QED BY <1>1, <1>4 DEF Entries
<1>6. /\ g \in Stores /\ g[r.id] = u
      /\ \A b \in BindingIds : b # r.id => g[b] = f[b]
  BY <1>1, <1>5 DEF Stores
<1> HIDE DEF g, u
<1>7. u # NoOne
  BY <1>5, RegistryAssumption DEF RegistryAssumption
<1>8. Known(g) = Known(f)
  BY <1>1, <1>4, <1>6, <1>7 DEF Known
<1>9. \A b \in Known(f) : /\ g[b].identity = f[b].identity /\ g[b].default = f[b].default
                          /\ Env(g, b) = Env(f, b)
                          /\ f[b].pin # NoOne => g[b].pin = f[b].pin
  BY <1>3, <1>5, <1>6 DEF Known, Env
<1>10. ValidStore(g) /\ Keeps(f, g)
  BY <1>8, <1>9 DEF ValidStore, Keeps
<1>11. Holds(r, g)
  BY <1>1, <1>4, <1>5, <1>6, <1>8 DEF Holds
<1> QED BY <1>2, <1>6, <1>10, <1>11

\* Whatever a call makes of a valid store is valid, keeps what was there, and
\* does what the request says.
LEMMA AfterValid ==
    ASSUME NEW f \in Stores \cup {NoOne}, f # NoOne => ValidStore(f), NEW r \in Requests,
           Allowed(r, f)
    PROVE  /\ After(r, f) \in Stores /\ ValidStore(After(r, f))
           /\ f # NoOne => Keeps(f, After(r, f))
           /\ r \in Registers \cup Pins => Holds(r, After(r, f))
<1>1. CASE r = Initialize
  <2>1. r.op = "initialize" /\ f = NoOne
    BY <1>1 DEF Initialize, Allowed
  <2>2. After(r, f) = NoStore /\ r \notin Registers \cup Pins
    BY <2>1 DEF After, Registers, Pins
  <2>3. NoStore \in Stores /\ Known(NoStore) = {}
    BY DEF NoStore, Stores, Known
  <2> QED BY <2>1, <2>2, <2>3 DEF ValidStore
<1>2. CASE r \in Registers
  <2>1. f \in Stores /\ f # NoOne
    BY <1>2 DEF Registers, Allowed
  <2> QED BY <1>2, <2>1, RegisteredValid
<1>3. CASE r \in Defaults
  <2>1. /\ f \in Stores /\ f # NoOne /\ r.op = "set_default" /\ r.id \in Known(f)
        /\ r \notin Registers \cup Pins
    BY <1>3 DEF Defaults, Allowed, Known, Registers, Pins
  <2>2. After(r, f) = Defaulted(f, r.id)
    BY <2>1 DEF After
  <2> QED BY <2>1, <2>2, DefaultedValid
<1>4. CASE r \in Clears
  <2>1. f \in Stores /\ f # NoOne /\ r.op = "clear_default" /\ r \notin Registers \cup Pins
    BY <1>4 DEF Clears, Allowed, Registers, Pins
  <2>2. After(r, f) = Cleared(f, r.env)
    BY <2>1 DEF After
  <2> QED BY <2>1, <2>2, ClearedValid
<1>5. CASE r \in Pins
  <2>1. f \in Stores /\ f # NoOne
    BY <1>5 DEF Pins, Allowed
  <2> QED BY <1>5, <2>1, PinnedValid
<1> QED BY <1>1, <1>2, <1>3, <1>4, <1>5 DEF Requests

\* What held of a store holds of one that keeps it.
LEMMA HoldsOn ==
    ASSUME NEW f, NEW g, Keeps(f, g), NEW r \in Registers \cup Pins, Holds(r, f)
    PROVE  Holds(r, g)
<1>1. r.op = "pin" => r.digest \in Digests /\ r.digest # NoOne
  BY RegistryAssumption DEF RegistryAssumption, Registers, Pins
<1> QED BY <1>1 DEF Holds, Keeps

-----------------------------------------------------------------------------
(* The steps of a call.                                                    *)

LEMMA CallRecord ==
    ASSUME RegistryTypeOK, NEW a \in Admins, NEW l \in CallSteps
    PROVE  LET x == [at |-> l, request |-> admin[a].request, data |-> admin[a].data] IN
           /\ x \in [at : CallSteps, request : Requests, data : Stores]
           /\ [admin EXCEPT ![a].at = l] = [admin EXCEPT ![a] = x]
<1>1. admin[a] \in [at : CallSteps, request : Requests, data : Stores]
  BY DEF RegistryTypeOK
<1>2. [admin[a] EXCEPT !.at = l] = [at |-> l, request |-> admin[a].request, data |-> admin[a].data]
  BY <1>1
<1> QED BY <1>1, <1>2

\* A call moves while everybody else is at rest: what holds of it suffices.
LEMMA CallMoves ==
    ASSUME RegistryInv, NEW a \in Admins,
           NEW x \in [at : CallSteps, request : Requests, data : Stores],
           admin' = [admin EXCEPT ![a] = x],
           \A b \in Admins : b # a => AtRest(b),
           registryFile' \in Stores \cup {NoOne}, tmpFile' \in Stores \cup {NoOne},
           x.at # "idle" => lockHolder' = a,
           x.at \in {"loaded", "written"} =>
             Allowed(x.request, registryFile') /\ x.data = After(x.request, registryFile'),
           x.at = "written" => tmpFile' = x.data,
           x.at = "saved" =>
             /\ registryFile' # NoOne
             /\ x.request \in Registers \cup Pins => Holds(x.request, registryFile'),
           UNCHANGED artifacts
    PROVE  /\ Locked'
           /\ acked' \subseteq Registers \cup Pins \cup Publications => RegistryTypeOK'
<1>1. /\ admin' \in [Admins -> [at : CallSteps, request : Requests, data : Stores]]
      /\ admin'[a] = x /\ \A b \in Admins : b # a => admin'[b].at = "idle"
  BY DEF RegistryInv, RegistryTypeOK, AtRest
<1>2. Locked'
  <2> SUFFICES ASSUME NEW b \in Admins
               PROVE  /\ admin'[b].at # "idle" => lockHolder' = b
                      /\ admin'[b].at = "loaded" \/ admin'[b].at = "written" =>
                           /\ Allowed(admin'[b].request, registryFile')
                           /\ admin'[b].data = After(admin'[b].request, registryFile')
                      /\ admin'[b].at = "written" => tmpFile' = admin'[b].data
                      /\ admin'[b].at = "saved" =>
                           /\ registryFile' # NoOne
                           /\ admin'[b].request \in Registers \cup Pins =>
                                Holds(admin'[b].request, registryFile')
    BY DEF Locked, AtRest, CallAt
  <2>1. CASE b = a
    BY <1>1, <2>1
  <2>2. CASE b # a
    BY <1>1, <2>2
  <2> QED BY <2>1, <2>2
<1> QED BY <1>1, <1>2 DEF RegistryInv, RegistryTypeOK

\* While one is in a call, or nobody holds the lock, all others are at rest.
LEMMA OthersRest ==
    ASSUME Locked, NEW a \in Admins, ~AtRest(a) \/ lockHolder = NoOne
    PROVE  \A b \in Admins : b # a => AtRest(b)
  BY RegistryAssumption DEF Locked, RegistryAssumption

LEMMA RestsTyped == Rests \in [at : CallSteps, request : Requests, data : Stores] /\ Rests.at = "idle"
<1>1. NoStore \in Stores
  BY DEF NoStore, Stores
<1> QED BY <1>1 DEF Rests, CallSteps, Requests

\* Enter, Load, Refuse, WriteTmp and AdminDies leave the store as it is.
LEMMA CallKeeps ==
    ASSUME RegistryInv, NEW a \in Admins,
           \/ \E r \in Requests : Enter(a, r)
           \/ Load(a) \/ Refuse(a) \/ WriteTmp(a) \/ AdminDies(a)
    PROVE  RegistryInv'
<1>t. /\ RegistryTypeOK /\ Locked /\ Answered /\ admin \in [Admins -> [at : CallSteps, request : Requests, data : Stores]]
      /\ registryFile \in Stores \cup {NoOne} /\ tmpFile \in Stores \cup {NoOne}
      /\ acked \subseteq Registers \cup Pins \cup Publications
  BY DEF RegistryInv, RegistryTypeOK
<1>1. /\ UNCHANGED <<registryFile, artifacts, acked>>
  BY DEF Enter, Load, Refuse, WriteTmp, AdminDies
<1>2. Locked' /\ RegistryTypeOK' => RegistryInv'
  BY <1>1 DEF RegistryInv, Answered
<1>3. ASSUME NEW r \in Requests, Enter(a, r) PROVE RegistryInv'
  <2> DEFINE x == [at |-> "locked", request |-> r, data |-> NoStore]
  <2>1. /\ AtRest(a) /\ lockHolder = NoOne /\ lockHolder' = a /\ UNCHANGED tmpFile
        /\ admin' = [admin EXCEPT ![a] = x]
    BY <1>3 DEF Enter, MayEnter
  <2>2. x \in [at : CallSteps, request : Requests, data : Stores] /\ x.at = "locked"
    BY RestsTyped DEF CallSteps, Rests
  <2>3. \A b \in Admins : b # a => AtRest(b)
    BY <1>t, <2>1, OthersRest
  <2> HIDE DEF x
  <2> QED BY <1>t, <1>1, <1>2, <2>1, <2>2, <2>3, CallMoves
<1>4. CASE Load(a)
  <2> DEFINE r == admin[a].request
             x == [at |-> "loaded", request |-> r, data |-> After(r, registryFile)]
  <2>1. /\ CallAt(a, "locked") /\ Allowed(r, registryFile) /\ UNCHANGED <<tmpFile, lockHolder>>
        /\ admin' = [admin EXCEPT ![a] = x]
    BY <1>4 DEF Load
  <2>2. r \in Requests /\ ~AtRest(a) /\ lockHolder = a
    BY <1>t, <2>1 DEF CallAt, AtRest, Locked
  <2>3. After(r, registryFile) \in Stores
    BY <1>t, <2>1, <2>2, AfterValid DEF RegistryInv
  <2>4. /\ x \in [at : CallSteps, request : Requests, data : Stores] /\ x.at = "loaded"
        /\ x.request = r /\ x.data = After(r, registryFile)
    BY <2>2, <2>3 DEF CallSteps
  <2>5. \A b \in Admins : b # a => AtRest(b)
    BY <1>t, <2>2, OthersRest
  <2> HIDE DEF x, r
  <2> QED BY <1>t, <1>1, <1>2, <2>1, <2>2, <2>4, <2>5, CallMoves
<1>5. CASE Refuse(a) \/ AdminDies(a)
  <2>1. ~AtRest(a) /\ admin' = [admin EXCEPT ![a] = Rests] /\ UNCHANGED tmpFile
    BY <1>5 DEF Refuse, AdminDies, CallAt, AtRest
  <2>2. \A b \in Admins : b # a => AtRest(b)
    BY <1>t, <2>1, OthersRest
  <2> QED BY <1>t, <1>1, <1>2, <2>1, <2>2, RestsTyped, CallMoves
<1>6. CASE WriteTmp(a)
  <2> DEFINE r == admin[a].request
             d == admin[a].data
             x == [at |-> "written", request |-> r, data |-> d]
  <2>1. /\ admin[a].at = "loaded" /\ tmpFile' = d /\ UNCHANGED lockHolder
        /\ admin' = [admin EXCEPT ![a].at = "written"]
    BY <1>6 DEF WriteTmp, CallAt, Goes
  <2>2. /\ x \in [at : CallSteps, request : Requests, data : Stores]
        /\ admin' = [admin EXCEPT ![a] = x]
    BY <1>t, <2>1, CallRecord DEF CallSteps
  <2>3. x.at = "written" /\ x.request = r /\ x.data = d /\ d \in Stores
    BY <1>t
  <2>4. /\ lockHolder = a /\ ~AtRest(a)
        /\ Allowed(r, registryFile) /\ d = After(r, registryFile)
    BY <1>t, <2>1 DEF Locked, AtRest, CallAt
  <2>5. \A b \in Admins : b # a => AtRest(b)
    BY <1>t, <2>4, OthersRest
  <2> HIDE DEF x, r, d
  <2> QED BY <1>t, <1>1, <1>2, <2>1, <2>2, <2>3, <2>4, <2>5, CallMoves
<1> QED BY <1>3, <1>4, <1>5, <1>6

\* The holder's store replaces the one it was made from.
LEMMA ReplaceKeeps ==
    ASSUME RegistryInv, NEW a \in Admins, Replace(a)
    PROVE  RegistryInv'
<1> DEFINE r == admin[a].request
           d == admin[a].data
           x == [at |-> "saved", request |-> r, data |-> d]
<1>t. /\ RegistryTypeOK /\ Locked /\ Answered
      /\ admin \in [Admins -> [at : CallSteps, request : Requests, data : Stores]]
      /\ registryFile \in Stores \cup {NoOne} /\ tmpFile \in Stores \cup {NoOne}
      /\ acked \subseteq Registers \cup Pins \cup Publications
  BY DEF RegistryInv, RegistryTypeOK
<1>1. /\ admin[a].at = "written" /\ registryFile' = tmpFile /\ tmpFile' = NoOne
      /\ admin' = [admin EXCEPT ![a].at = "saved"]
      /\ UNCHANGED <<lockHolder, artifacts, acked>>
  BY DEF Replace, CallAt, Goes
<1>2. /\ x \in [at : CallSteps, request : Requests, data : Stores]
      /\ admin' = [admin EXCEPT ![a] = x]
  BY <1>t, <1>1, CallRecord DEF CallSteps
<1>3. x.at = "saved" /\ x.request = r /\ r \in Requests /\ d \in Stores
  BY <1>t
<1>4. /\ lockHolder = a /\ ~AtRest(a) /\ tmpFile = d
      /\ Allowed(r, registryFile) /\ d = After(r, registryFile)
  BY <1>t, <1>1 DEF Locked, AtRest, CallAt
<1>5. \A b \in Admins : b # a => AtRest(b)
  BY <1>t, <1>4, OthersRest
<1>6. /\ ValidStore(d) /\ (registryFile # NoOne => Keeps(registryFile, d))
      /\ r \in Registers \cup Pins => Holds(r, d)
  BY <1>t, <1>3, <1>4, AfterValid DEF RegistryInv
<1>7. d # NoOne
  BY <1>3, RegistryAssumption DEF RegistryAssumption
<1> HIDE DEF x, r, d
<1>8. Locked' /\ RegistryTypeOK'
  BY <1>t, <1>1, <1>2, <1>3, <1>4, <1>5, <1>6, <1>7, CallMoves
<1>9. Answered'
  <2> SUFFICES ASSUME NEW q \in acked
               PROVE  /\ q.op # "publish" => d # NoOne /\ Holds(q, d)
                      /\ q.op = "publish" => artifacts[q.persona] = q.digest
    BY <1>1, <1>4 DEF Answered
  <2>1. CASE q.op # "publish"
    <3>1. q \in Registers \cup Pins
      BY <1>t, <2>1 DEF Publications
    <3>2. registryFile # NoOne /\ Holds(q, registryFile)
      BY <1>t, <2>1 DEF Answered
    <3> QED BY <1>6, <1>7, <2>1, <3>1, <3>2, HoldsOn
  <2>2. CASE q.op = "publish"
    BY <1>t, <2>2 DEF Answered
  <2> QED BY <2>1, <2>2
<1> QED BY <1>1, <1>4, <1>6, <1>8, <1>9 DEF RegistryInv

\* The call returns: what it was told holds of the store.
LEMMA ReturnKeeps ==
    ASSUME RegistryInv, NEW a \in Admins, Return(a)
    PROVE  RegistryInv'
<1> DEFINE r == admin[a].request
<1>t. /\ RegistryTypeOK /\ Locked /\ Answered
      /\ registryFile \in Stores \cup {NoOne} /\ tmpFile \in Stores \cup {NoOne}
      /\ acked \subseteq Registers \cup Pins \cup Publications
  BY DEF RegistryInv, RegistryTypeOK
<1>1. /\ admin[a].at = "saved" /\ admin' = [admin EXCEPT ![a] = Rests]
      /\ acked' = acked \cup ({r} \cap (Registers \cup Pins))
      /\ UNCHANGED <<registryFile, tmpFile, artifacts>>
  BY DEF Return, CallAt
<1>2. ~AtRest(a) /\ registryFile # NoOne /\ (r \in Registers \cup Pins => Holds(r, registryFile))
  BY <1>t, <1>1 DEF Locked, AtRest, CallAt
<1>3. \A b \in Admins : b # a => AtRest(b)
  BY <1>t, <1>2, OthersRest
<1> HIDE DEF r
<1>4. Locked' /\ RegistryTypeOK'
  BY <1>t, <1>1, <1>3, RestsTyped, CallMoves
<1>5. r \in Registers \cup Pins => r.op # "publish"
  BY DEF Registers, Pins
<1>6. Answered'
  BY <1>t, <1>1, <1>2, <1>5 DEF Answered
<1> QED BY <1>1, <1>4, <1>6 DEF RegistryInv

\* A publication creates the artifact, or finds its own.
LEMMA PublishArtifactKeeps ==
    ASSUME RegistryInv, NEW p \in Publications, Publish(p)
    PROVE  RegistryInv'
<1>1. /\ p.op = "publish" /\ p.persona \in Personas /\ p.digest \in Digests
      /\ artifacts[p.persona] \in {NoOne, p.digest}
      /\ artifacts' = [artifacts EXCEPT ![p.persona] = p.digest]
      /\ acked' \in {acked, acked \cup {p}}
      /\ UNCHANGED <<registryFile, tmpFile, lockHolder, admin>>
  BY DEF Publish, Publications
<1>2. RegistryTypeOK'
  BY <1>1 DEF RegistryInv, RegistryTypeOK
<1>3. Locked'
  BY <1>1 DEF RegistryInv, Locked, AtRest, CallAt
<1>4. \A q \in acked : q.op = "publish" => q.persona \in Personas /\ q.digest # NoOne
  BY RegistryAssumption DEF RegistryInv, RegistryTypeOK, Registers, Pins, Publications, RegistryAssumption
<1>5. /\ artifacts'[p.persona] = p.digest
      /\ \A q \in Personas : q # p.persona => artifacts'[q] = artifacts[q]
  BY <1>1 DEF RegistryInv, RegistryTypeOK
<1>6. Answered'
  <2> SUFFICES ASSUME NEW q \in acked \cup {p}
               PROVE  /\ q.op # "publish" => registryFile # NoOne /\ Holds(q, registryFile)
                      /\ q.op = "publish" => artifacts'[q.persona] = q.digest
    BY <1>1 DEF Answered
  <2>1. CASE q = p
    BY <1>1, <1>5, <2>1
  <2>2. CASE q \in acked
    BY <1>1, <1>4, <1>5, <2>2 DEF RegistryInv, Answered
  <2> QED BY <2>1, <2>2
<1> QED BY <1>1, <1>2, <1>3, <1>6 DEF RegistryInv

-----------------------------------------------------------------------------
LEMMA InitRegistry == RegistryInit => RegistryInv
<1> SUFFICES ASSUME RegistryInit PROVE RegistryInv
  OBVIOUS
<1>1. RegistryTypeOK
  BY RestsTyped DEF RegistryInit, RegistryTypeOK
<1>2. Locked /\ Answered
  BY RestsTyped DEF RegistryInit, Locked, Answered, AtRest, CallAt
<1> QED BY <1>1, <1>2 DEF RegistryInit, RegistryInv

LEMMA RegistryStep == RegistryInv /\ [RegistryNext]_registryVars => RegistryInv'
<1> SUFFICES ASSUME RegistryInv, [RegistryNext]_registryVars PROVE RegistryInv'
  OBVIOUS
<1>1. CASE UNCHANGED registryVars
  BY <1>1 DEF registryVars, RegistryInv, RegistryTypeOK, Locked, Answered, AtRest, CallAt
<1>2. CASE RegistryNext
  BY <1>2, CallKeeps, ReplaceKeeps, ReturnKeeps, PublishArtifactKeeps DEF RegistryNext
<1> QED BY <1>1, <1>2

\* The inductive invariant holds whenever the registry is used.
THEOREM RegistryInvariant == RegistrySpec => []RegistryInv
  BY InitRegistry, RegistryStep, PTL DEF RegistrySpec

\* The store always loads, whichever calls interleave and die.
THEOREM RegistryAlwaysLoads == RegistrySpec => []RegistryValid
<1>1. RegistryInv => RegistryValid
  BY DEF RegistryInv, ValidStore, RegistryValid, Live, Known
<1> QED BY <1>1, RegistryInvariant, PTL

\* A binding, a pin or a publication that was acknowledged stays.
THEOREM AcknowledgedStays == RegistrySpec => []AckedCallsLast
<1>1. RegistryInv => AckedCallsLast
  BY DEF RegistryInv, Answered, AckedCallsLast, Holds, Live
<1> QED BY <1>1, RegistryInvariant, PTL
-----------------------------------------------------------------------------
(* BindingRegistry implements AtomicCalls: the effect is the replacement.  *)

\* While all others are at rest, the call of a is the only one in progress.
LEMMA OnlyCall ==
    ASSUME NEW a \in Admins, \A b \in Admins : b # a => AtRest(b)
    PROVE  /\ AtRest(a) => Begun = {} /\ Effective = {}
           /\ CallAt(a, "saved") => Begun = {} /\ Effective = {<<a, admin[a].request>>}
           /\ ~AtRest(a) /\ ~CallAt(a, "saved") =>
                Begun = {<<a, admin[a].request>>} /\ Effective = {}
  BY DEF Begun, Effective, AtRest, CallAt

LEMMA OnlyCallNext ==
    ASSUME NEW a \in Admins, \A b \in Admins : b # a => AtRest(b),
           NEW x, admin' = [admin EXCEPT ![a] = x], DOMAIN admin = Admins
    PROVE  /\ x.at = "idle" => Begun' = {} /\ Effective' = {}
           /\ x.at = "saved" => Begun' = {} /\ Effective' = {<<a, x.request>>}
           /\ x.at \notin {"idle", "saved"} => Begun' = {<<a, x.request>>} /\ Effective' = {}
<1>1. admin'[a] = x /\ \A b \in Admins : b # a => admin'[b].at = "idle"
  BY DEF AtRest
<1> QED BY <1>1 DEF Begun, Effective, AtRest, CallAt

LEMMA RegistryStarts == RegistryInit => Atomic!Init
<1> SUFFICES ASSUME RegistryInit PROVE Atomic!Init
  OBVIOUS
<1>1. \A a \in Admins : admin[a].at = "idle"
  BY RestsTyped DEF RegistryInit
<1>2. Begun = {} /\ Effective = {}
  BY <1>1 DEF Begun, Effective, AtRest, CallAt
<1> QED BY <1>2 DEF RegistryInit, Atomic!Init

\* One step of a call is one step of the contract, or none.
LEMMA CallRefines ==
    ASSUME RegistryInv, NEW a \in Admins,
           \/ \E r \in Requests : Enter(a, r)
           \/ Load(a) \/ Refuse(a) \/ WriteTmp(a) \/ Replace(a) \/ Return(a) \/ AdminDies(a)
    PROVE  Atomic!Next \/ UNCHANGED <<registryFile, Begun, Effective, acked>>
<1>t. /\ Locked /\ DOMAIN admin = Admins
      /\ admin \in [Admins -> [at : CallSteps, request : Requests, data : Stores]]
  BY DEF RegistryInv, RegistryTypeOK
<1>1. ASSUME NEW r \in Requests, Enter(a, r) PROVE Atomic!Begin(a, r)
  <2> DEFINE x == [at |-> "locked", request |-> r, data |-> NoStore]
  <2>1. /\ AtRest(a) /\ lockHolder = NoOne /\ admin' = [admin EXCEPT ![a] = x]
        /\ UNCHANGED <<registryFile, acked>>
    BY <1>1 DEF Enter, MayEnter
  <2>2. \A b \in Admins : b # a => AtRest(b)
    BY <1>t, <2>1, OthersRest
  <2>3. Begun = {} /\ Effective = {}
    BY <2>1, <2>2, OnlyCall
  <2>4. x.at = "locked" /\ x.request = r
    OBVIOUS
  <2> HIDE DEF x
  <2>5. Begun' = {<<a, r>>} /\ Effective' = {}
    BY <1>t, <2>1, <2>2, <2>4, OnlyCallNext
  <2> QED BY <2>1, <2>3, <2>5 DEF Atomic!Begin
<1>2. ASSUME ~AtRest(a), ~CallAt(a, "saved"), NEW x, admin' = [admin EXCEPT ![a] = x],
             x.at \in {"loaded", "written"}, x.request = admin[a].request,
             UNCHANGED <<registryFile, acked>>
      PROVE  UNCHANGED <<registryFile, Begun, Effective, acked>>
  <2>1. \A b \in Admins : b # a => AtRest(b)
    BY <1>t, <1>2, OthersRest
  <2>2. Begun = {<<a, admin[a].request>>} /\ Effective = {}
    BY <1>2, <2>1, OnlyCall
  <2>3. Begun' = {<<a, x.request>>} /\ Effective' = {}
    BY <1>t, <1>2, <2>1, OnlyCallNext
  <2> QED BY <1>2, <2>2, <2>3
<1>3. CASE Load(a)
  <2> DEFINE x == [at |-> "loaded", request |-> admin[a].request,
                   data |-> After(admin[a].request, registryFile)]
  <2>1. /\ admin' = [admin EXCEPT ![a] = x] /\ admin[a].at = "locked"
        /\ UNCHANGED <<registryFile, acked>>
    BY <1>3 DEF Load, CallAt
  <2>2. x.at = "loaded" /\ x.request = admin[a].request
    OBVIOUS
  <2> HIDE DEF x
  <2> QED BY <1>2, <2>1, <2>2 DEF AtRest, CallAt
<1>4. CASE WriteTmp(a)
  <2> DEFINE x == [at |-> "written", request |-> admin[a].request, data |-> admin[a].data]
  <2>1. /\ admin' = [admin EXCEPT ![a].at = "written"] /\ admin[a].at = "loaded"
        /\ UNCHANGED <<registryFile, acked>>
    BY <1>4 DEF WriteTmp, CallAt, Goes
  <2>2. x.at = "written" /\ x.request = admin[a].request
    OBVIOUS
  <2>3. admin' = [admin EXCEPT ![a] = x]
    BY <2>1, CallRecord DEF RegistryInv, CallSteps
  <2> HIDE DEF x
  <2> QED BY <1>2, <2>1, <2>2, <2>3 DEF AtRest, CallAt
<1>5. ASSUME ~AtRest(a), admin' = [admin EXCEPT ![a] = Rests]
      PROVE  /\ Begun' = {} /\ Effective' = {}
             /\ CallAt(a, "saved") => Begun = {} /\ Effective = {<<a, admin[a].request>>}
             /\ ~CallAt(a, "saved") => Begun = {<<a, admin[a].request>>} /\ Effective = {}
             /\ <<a, admin[a].request>> \in Admins \X Requests
  <2>1. \A b \in Admins : b # a => AtRest(b)
    BY <1>t, <1>5, OthersRest
  <2>2. Begun' = {} /\ Effective' = {}
    BY <1>t, <1>5, <2>1, RestsTyped, OnlyCallNext
  <2> QED BY <1>t, <1>5, <2>1, <2>2, OnlyCall
<1>6. CASE Refuse(a) \/ AdminDies(a)
  <2>1. ~AtRest(a) /\ admin' = [admin EXCEPT ![a] = Rests] /\ UNCHANGED <<registryFile, acked>>
    BY <1>6 DEF Refuse, AdminDies, CallAt, AtRest
  <2>2. Atomic!GiveUp(<<a, admin[a].request>>)
    BY <1>5, <2>1 DEF Atomic!GiveUp
  <2> QED BY <1>5, <2>1, <2>2 DEF Atomic!Next
<1>7. CASE Return(a)
  <2> DEFINE r == admin[a].request
  <2>1. /\ ~AtRest(a) /\ CallAt(a, "saved") /\ admin' = [admin EXCEPT ![a] = Rests]
        /\ acked' = acked \cup ({r} \cap (Registers \cup Pins)) /\ UNCHANGED registryFile
    BY <1>7 DEF Return, CallAt, AtRest
  <2>2. /\ Begun = {} /\ Effective = {<<a, r>>} /\ Begun' = {} /\ Effective' = {}
        /\ <<a, r>> \in Admins \X Requests
    BY <1>5, <2>1
  <2> HIDE DEF r
  <2>3. (acked \cap (Registers \cup Pins))'
          = (acked \cap (Registers \cup Pins)) \cup ({r} \cap (Registers \cup Pins))
    BY <2>1
  <2>4. Atomic!Answer(<<a, r>>)
    BY <2>1, <2>2, <2>3 DEF Atomic!Answer
  <2> QED BY <2>2, <2>4 DEF Atomic!Next
<1>8. CASE Replace(a)
  <2> DEFINE r == admin[a].request
             x == [at |-> "saved", request |-> r, data |-> admin[a].data]
  <2>1. /\ admin[a].at = "written" /\ registryFile' = tmpFile /\ UNCHANGED acked
        /\ admin' = [admin EXCEPT ![a].at = "saved"]
    BY <1>8 DEF Replace, CallAt, Goes
  <2>2. admin' = [admin EXCEPT ![a] = x]
    BY <2>1, CallRecord DEF RegistryInv, CallSteps
  <2>3. x.at = "saved" /\ x.request = r /\ r \in Requests
    BY <1>t
  <2>4. /\ tmpFile = After(r, registryFile) /\ Allowed(r, registryFile)
        /\ ~AtRest(a) /\ ~CallAt(a, "saved")
    BY <1>t, <2>1 DEF Locked, AtRest, CallAt
  <2> HIDE DEF r, x
  <2>5. \A b \in Admins : b # a => AtRest(b)
    BY <1>t, <2>4, OthersRest
  <2>6. Begun = {<<a, r>>} /\ Effective = {}
    BY <2>4, <2>5, OnlyCall DEF r
  <2>7. Begun' = {} /\ Effective' = {<<a, r>>}
    <3>1. DOMAIN admin = Admins
      BY <1>t
    <3>2. Begun' = {} /\ Effective' = {<<a, x.request>>}
      BY <2>2, <2>3, <2>5, <3>1, OnlyCallNext
    <3> QED BY <2>3, <3>2
  <2>8. Atomic!TakeEffect(<<a, r>>)
    BY <2>1, <2>4, <2>6, <2>7 DEF Atomic!TakeEffect
  <2> QED BY <2>3, <2>6, <2>8 DEF Atomic!Next
<1> QED BY <1>1, <1>3, <1>4, <1>6, <1>7, <1>8 DEF Atomic!Next

LEMMA RegistryRefines ==
    RegistryInv /\ [RegistryNext]_registryVars => [Atomic!Next]_(Atomic!contractVars)
<1> SUFFICES ASSUME RegistryInv, [RegistryNext]_registryVars,
                    ~UNCHANGED <<registryFile, Begun, Effective, acked \cap (Registers \cup Pins)>>
             PROVE  Atomic!Next
  BY DEF Atomic!contractVars
<1>1. CASE UNCHANGED registryVars
  BY <1>1 DEF registryVars, Begun, Effective, AtRest, CallAt
<1>2. ASSUME NEW p \in Publications, Publish(p) PROVE FALSE
  <2>1. /\ UNCHANGED <<registryFile, admin>> /\ acked' \in {acked, acked \cup {p}}
    BY <1>2 DEF Publish
  <2>2. p \notin Registers \cup Pins
    BY DEF Publications, Registers, Pins
  <2> QED BY <2>1, <2>2 DEF Begun, Effective, AtRest, CallAt
<1>3. ASSUME NEW a \in Admins,
             \/ \E r \in Requests : Enter(a, r)
             \/ Load(a) \/ Refuse(a) \/ WriteTmp(a) \/ Replace(a) \/ Return(a) \/ AdminDies(a)
      PROVE  Atomic!Next
  BY <1>3, CallRefines
<1> QED BY <1>1, <1>2, <1>3 DEF RegistryNext

\* An administrative call takes effect at once, or not at all, whatever other
\* administrators do meanwhile and wherever one dies.
THEOREM CallsAreAtomic == RegistrySpec => ImplementsAtomicCalls
  BY RegistryInvariant, RegistryStarts, RegistryRefines, PTL
     DEF RegistrySpec, ImplementsAtomicCalls, Atomic!Spec
==============================================================================
