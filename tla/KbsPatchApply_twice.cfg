CONSTANTS
  Files <- MCFiles
  Text <- MCText
  Missing = Missing
  NoFile = NoFile
  Cases <- MCCases
  Rounds = 2
SPECIFICATION Spec
INVARIANT PatchedOnce
