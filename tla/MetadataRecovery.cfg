\* Two windows among the processes that commit, two restores, and two kinds of files: one
\* that is created anew and not compared by repair, one that is compared and not created.
SPECIFICATION Spec
CONSTANTS
  Apps = {w1, w2}
  Kinds <- TwoKinds
  Recreated <- CreatedKinds
  Indexed <- HashedKinds
  library = library
  sessions = sessions
  presets = presets
  MaxRevision = 2
  MaxPlans = 2
  MaxBreaks = 2
  Free = Free
PROPERTIES OverwritesOnlyBackedUp RestoresNewest
SYMMETRY Symmetric
CHECK_DEADLOCK FALSE
