SPECIFICATION PartsSpec
CONSTANTS
  k1 = k1  k2 = k2  k3 = k3
  Keys = {k1, k2, k3}
  Values = {1, 2}
  Hash <- SomeCollide
  InitialCaps = {0, 1, 3}
  FirstBuckets = 2
  MaxBuckets = 8
  Streams <- MixedStreams
  Clients = 2
  MaxHeaderBytes = 10
  Slots = {"in", "mid", "out"}
  Families <- HandlerFamilies
  MaxJobs = 3
  Apps <- Applications
  ContextCap = 2
  IntMax = 15
  Procs = {p1, p2, p3}
  Serial = TRUE
  MaxCrashes = 2
CHECK_DEADLOCK FALSE
INVARIANTS
  ProbeEnds
  FindsLive
  Framing
  NothingLeftBehind
  HostReadsResult
  ReadsWhatWasSet
  AnsweredOnce
  ExactOrFails
  CacheSound
  
  
PROPERTY ImplementsOrderedMap
