SPECIFICATION Spec
CONSTANTS
Focus = {"clock", "replicas", "connection", "records", "endpoint", "startup", "maintenance", "import"}
nil = nil  undefined = undefined  nothing = nothing
n1 = n1  w1 = w1  w2 = w2  o1 = o1  p1 = p1
Nodes = {1, 2}
MaxSafe = 1
Horizon = 1
MaxStamps = 4
Nothing = nothing
Strategies = {"lww", "additive"}
MaxWrites = 3
TxCalls = {1, 2}
PlainCalls = {3}
Savepoints = {1, 2}
Connections = {"memory", "native"}
MaxStatements = 2
Notes = {n1}
Widgets = {w1, w2}
Companies = {o1}
Values = {v1, v2}
Editors = {1, 2, 3}
Nil = nil
MaxOperations = 4
Callers = {1, 2, 3}
Peers = {p1}
Undefined = undefined
Platforms = {1, 2}
Manifests <- MCManifests
CoreScripts <- MCCoreScripts
MaxFeatures = 2
Handlers <- MCHandlers
TableRows = {1, 2}
TableOf <- MCTableOf
Runs = {1, 2}
Retentions = {1, 9}
Unrepresentable = {9}
BatchSize = 1
LastDay = 1
Imports = {1, 2}
Files <- MCFiles
MaxBytes = 1
MaxSheets = 1
MaxRows = 3
MaxCells = 8
MaxLength = 1
AcceptedFormats = {"csv"}
INVARIANTS ReplicasConverge RowsAreAcknowledged OutboxReplaysNotes DeletionsLeaveTombstones
  ValuesAreUnique OneListener SchemaIsHistory BuildIsMigrated SuccessMeansPruned 
PROPERTIES StampsAdvance ConnectionIsAtomic
CHECK_DEADLOCK FALSE
