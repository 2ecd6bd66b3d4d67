CONSTANTS
  Places <- MCPlaces
  Vars <- MCVars
  Values <- MCValues
  Default <- MCDefault
  DirOf <- MCDirOf
  Found <- MCFound
  PkgFile <- MCPkgFile
  Kits <- MCKits
  Names <- MCNames
  Commands <- MCCommands
SPECIFICATION Spec
INVARIANTS TypeOK CommandLineWins WrongOptionFirst KitsAddUp
