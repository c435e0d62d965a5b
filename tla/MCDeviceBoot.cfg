SPECIFICATION BootSpec
CONSTANTS
  Modules <- BootModules
  Packs <- BootPacks
  PackCap = 3
  Board = {1, 2, 3}
  Firmware <- MCFirmware
  SymCap = 5
  LoadedCap = 3
  ApCap = 3
  HeapUnits = 6
  Scratch = 1
INVARIANTS MainRunsOnWholeImage
PROPERTY BootEnds
