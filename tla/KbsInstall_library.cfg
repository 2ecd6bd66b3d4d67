SPECIFICATION Spec
CONSTANTS
  Tokens = {"a", "b", "c", "d", "e", "nl"}
  Files <- MCFiles
  Index = "pkgIndex.tcl"
  MaxVersion = 2
  Shipped <- MCShipped
  Gone = Gone
  Original <- MCOriginal
  Patches <- MCPatches
  After <- MCAfter
INVARIANTS
  TypeOK
  InstalledWhole
  PatchLands
PROPERTIES
  AppearsWhole
  InstallsAsPromised
