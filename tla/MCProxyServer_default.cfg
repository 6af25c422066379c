SPECIFICATION Spec
CONSTANTS
  Endpoints = {"b1", "b2", "b3"}  PointHash <- MCPointHash  NoEndpoint = "none"
  max_namespace_length = 2  TooLong = {"long"}
  Concurrency = 1  Files <- MCFiles  Keys <- MCKeysOther
  MaxEdits = 0  MaxSignals = 0  MaxClients = 1  MaxQueries = 1
INVARIANTS DefaultNamespaceServes
CHECK_DEADLOCK FALSE
