\* One window and the processes that commit, for the one claim of the doc comment on
\* recover_interrupted_restore.  No missing file is created anew: what is lost was committed.
SPECIFICATION Spec
CONSTANTS
  Apps = {w1}
  Kinds <- AllKinds
  Recreated <- NoKinds
  Indexed <- HashedKinds
  library = library
  sessions = sessions
  presets = presets
  MaxRevision = 2
  MaxPlans = 1
  MaxBreaks = 1
  Free = Free
PROPERTIES RollsBackOnlyRestore
CHECK_DEADLOCK FALSE
