CONSTANTS
  Files <- MCFiles
  Text <- MCText
  Missing = Missing
  NoFile = NoFile
  Cases <- MCAllCases
  Rounds = 2
SPECIFICATION Spec
INVARIANTS TypeOK WholeOrUntouched MatchedBeforeWritten AppliesWhatFits ParsedBeforeTouched
