CONSTANTS
  JobVerdict <- WorkspaceVerdict
  Exported <- WorkspaceExport
  Transferred <- WorkspaceTransfer
  Imported <- WorkspaceImport
  Downloaded <- WorkspaceDownload
  Jobs = {"d", "r"}
  Writers = {"d", "r"}
  Objects <- AllObjects
  MaxPowerLosses = 1
  MaxCleanups = 1
  AllowImageTags = TRUE
  Scenarios <- AllScenarios
SPECIFICATION Spec
INVARIANTS NeverTorn TreesClosed ResultsAvailable ResultIsFinal
PROPERTIES ContainersRemoved
