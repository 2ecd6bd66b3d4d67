SPECIFICATION FairSpec
CONSTANTS
  Pkg <- MCPkg
  Undefined = {"gone"}
  None = None
  Uses <- GapUses
  Sections <- GapSections
  SrcOf <- MCSrcOf
  Staged <- MCStaged
  Commands = {"install", "clean", "distclean"}
  Switches <- Anyhow
  Requests <- AskMany
  Gui = TRUE
  MaxDepth = 4
INVARIANTS
  ContextMatches
  ReadyMeansLoaded
PROPERTIES
  Terminates
