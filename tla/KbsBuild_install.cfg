SPECIFICATION Spec
CONSTANTS
  Pkg <- MCPkg
  Undefined = {}
  None = None
  Uses <- MCUses
  Sections <- MCSections
  SrcOf <- MCSrcOf
  Staged <- MCStaged
  Commands = {"install", "test", "distclean"}
  Switches <- Strictly
  Requests <- AskMany
  Gui = FALSE
  MaxDepth = 4
INVARIANTS
  TypeOK
  DepsLoaded
  BuildsOwnSources
  AllServed
PROPERTIES
  BuildsInOrder
  OnlyDistcleanRemoves
