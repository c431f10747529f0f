SPECIFICATION Spec
CONSTANTS
  Characters <- Letters
  Blocks <- TwoEnvelopes
  Pieces <- ShortPieces
  Finals <- FinalTexts
  MaxText = 6
  MaxFrames = 3
  MaxFiles = 2
  MaxFaults = 1
INVARIANT ShownIsPublic
INVARIANT AnswerIsConfirmed
INVARIANT FilesAreTold
INVARIANT FramesPassedOn
CHECK_DEADLOCK FALSE
