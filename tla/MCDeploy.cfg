\* One deployer, three deploys of either program, crashes between any two writes.
CONSTANTS
  Deployers = {d1}
  Programs = {"app", "tool"}
  Modules = {"lib", "app", "tool"}
  Graph <- ProgramGraph
  Stem <- Stems
  Versions = {1, 2}
  Edited = {"lib", "tool"}
  OpenAt <- OpenObligations
  Policies = {"open-ok", "no-open"}
  Modes = {"static", "dynamic"}
  Encrypting = {TRUE, FALSE}
  Signing = {TRUE, FALSE}
  MaxDeploys = 3
  None = None
SPECIFICATION Spec
CHECK_DEADLOCK FALSE
INVARIANTS PackageBinds ShipsOwnPolicy ShippedIsAuditable
