\* The bookkeeping storage: records and the type-table plugin.
SPECIFICATION Spec
CONSTANTS
  RecordIDs = {x, y}
  TypeTable = TypeTable
  Generators = {TypeTable}
  OtherPlugin = OtherPlugin
  MaxLogs = 4
CHECK_DEADLOCK FALSE
INVARIANTS
  SnapshotsCompose
  OneWriterPerVersion
SYMMETRY RecordSymmetry
