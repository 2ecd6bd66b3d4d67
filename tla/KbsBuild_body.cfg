SPECIFICATION Spec
CONSTANTS
  Pkg <- MCPkg
  Undefined = {"gone"}
  None = None
  Uses <- GapUses
  Sections <- GapSections
  SrcOf <- MCSrcOf
  Staged <- MCStaged
  Commands = {"install", "distclean"}
  Switches <- Strictly
  Requests <- AskMany
  Gui = TRUE
  MaxDepth = 4
INVARIANTS
  BodyRestored
