CONSTANTS
  Keys = {k1, k2, k3}
  Absent = Absent
  Empty = Empty
  Stores = {"none", "plain", "encrypted"}
  MaxStarts = 3
  MaxFailures = 2
SYMMETRY KeySymmetry
SPECIFICATION Spec
INVARIANTS TypeOK FilesOfOneKey CompleteBackupIsRestored KeySurvivesCrashes
PROPERTIES OneFailureKeepsBackup
