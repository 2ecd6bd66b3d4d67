SPECIFICATION FairSpec
CONSTANTS
  Pkg <- MCPkg
  Selections <- MCSelections
  Dirs = {d1, d2}
  Home = d1
  None = None
  Script <- MCScript
INVARIANTS
  TypeOK
  ConfiguredHere
PROPERTIES
  CommandsOneByOne
  WidgetsReturn
