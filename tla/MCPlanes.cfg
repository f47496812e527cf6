SPECIFICATION SumSpec
CONSTANTS
  NumReceipts = 3
  Photo <- OnePhoto
  MaxTime = 2

  lasting = lasting
  brief = brief
  m1 = m1
  Kinds = {lasting, brief}
  Rules <- RuleSets
  Inspired = {lasting}
  Life <- Lives
  Materials = {m1}
  Nothing = Nothing
  MaxNow = 2
  MaxFaults = 1

  s1 = s1
  s2 = s2
  Services = {s1, s2}
  Evidences = {1, 2, 3}
  Interactions = {1, 2, 3}
  Bytes = {b1, b2}
  Absent = Absent
  MaxFactFaults = 2
  Loop = s1
  AgentRows = {2}
  TypedRows = {3}
  Promoter = s1
  PendingBytes = b1

  Writers = {a, b}
  Nobody = Nobody
  WindowSize = 2
  MaxAccepted = 5
  MaxSlowFaults = 2

  Conditions = {well, ill}
  ValidityKind = "ttl"
  Ttl = 1
  EndedBy = {"resolved", "cancelled"}
  MaxInstant = 3
  MaxRows = 3
  MaxStateFaults = 2

  Admins = {a1, a2}
  BindingIds = {bx, by}
  i1 = i1
  i2 = i2
  prod = prod
  kayla = kayla
  Identities = {i1, i2}
  EnvironmentOf <- Environments
  PersonaOf <- Persons
  Personas = {kayla}
  Digests = {d1, d2}
  NoOne = NoOne
  MaxCalls = 5

  Runners = {r1, r2}
  Sources = {e1, e2}
  Texts = {t1, t2}
  NoSource = NoSource
  MaxMemoryFaults = 1

  Questions = {q1, q2}
  MaxSupport = 2
  MaxThreadTurns = 3
  MaxThreadFaults = 1

  Exchanges = {1, 2}
  Candidates = {1, 2, 3}
  Found <- Routed
  Recipe <- RuleFor
  u2 = u2
  Contents = {u1, u2}
  Histories = {h1, h2}
  NotAppraising = NotAppraising

  NumMessages = 5
  Sent <- SentAt
  Class <- Passed
  PageLimit = 2
  Syncers = {c1, c2}

  MaxDrafts = 3
  MaxClock = 3
INVARIANTS
  OneValuePerReceipt MarkerMeansFacts NeverInconsistent CounterCounts
  SentOnce CompletedAfterAccept MaterialHeld OneActivePerKind
  ConsumedOnce BoundToFirstAdmission RefusedForCause
  CommittedFactsShow FeltOnce
  SlowStateIsWindow
  TransitionsResolve NoRollback
  DeferredIsKept
  RegistryValid AckedCallsLast
  MemoryIsFrozenDraft IndexedWhenSucceeded
  CompiledBeforeRetired
  AppliedOnce EvaluatedOnce OneInForce
  NothingSkipped
  AcknowledgedWasGuarded
PROPERTIES
  ImplementsIntentContract CommitCoversAccepted
CHECK_DEADLOCK FALSE
