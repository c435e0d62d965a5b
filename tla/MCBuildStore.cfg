\* Two builders, three builds, one edit or environment change, crashes anywhere.
CONSTANTS
  Builders = {b1, b2}
  Programs = {"app", "tool"}
  Files = {"lib", "app", "tool"}
  Graph <- ProgramGraph
  NameOf <- ModuleNames
  Imports <- ImportsOf
  Versions = {1, 2}
  Envs = {e1, e2}
  Requests = {FALSE}
  Discharged = {}
  Torn = Torn
  Empty = Empty
  None = None
  MaxBuilds = 3
  MaxEdits = 1
SPECIFICATION Spec
SYMMETRY Interchangeable
CHECK_DEADLOCK FALSE
INVARIANTS LinkedFresh EchoOfImage SoloNeverFails RebuildIsCached
