\* Retained segments that hold the hard limit, as the defaults do, but so tight that
\* recording pauses; two frame lengths to tell contents apart.
CONSTANTS
  SegmentBytes = 4
  HardBytes = 7
  RetainedSegments = 2
  FrameLens = {2, 3}
  LiveReplayBytes = 5
  LiveReplayRecords = 2
  MaxLength = 1000
  MaxSeq = 7
SPECIFICATION Spec
INVARIANTS JournalInv DurableRecoverable GapHidesNothing BytesAccounted PausedOnlyAtLimit LiveReadsMatchDisk BoundsMatchReplay
PROPERTIES DurableFramesStay LogSpec
