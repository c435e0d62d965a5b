SPECIFICATION LoaderSpec
CONSTANTS
  Modules <- MCModules
  Board <- MCBoard
  Firmware <- MCFirmware
  SymCap = 5
  LoadedCap = 2
  ApCap = 3
  HeapUnits = 4
  Scratch = 1
INVARIANTS LoadsAreAtomic OneAddressPerHash ApertureExclusive LinksPointToLoaded LoadedOnce
