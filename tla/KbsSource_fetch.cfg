SPECIFICATION FairSpec
CONSTANTS
  Pkg <- MCPkg
  Undefined = {"gone"}
  File <- MCFile
  Script <- MCScript
  Kind <- MCKind
  Hidden = {"8667ce5"}
  None = None
  MaxProcs = 4
INVARIANTS
  ArchivesWhole
  SrcdirExists
  LeavesNothingHalf
  Preserved
PROPERTIES
  Terminates
