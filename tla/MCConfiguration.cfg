CONSTANTS
  Missing = Missing
  SettingTable <- MCSettingTable
  PanelSettings <- MCPanel
  ToggleSettings = {"syntax"}
  Attributes <- MCAttributes
  ColumnOptions <- MCColumnOptions
  DefaultColumns <- MCDefaultColumns
  OtherCase <- MCOtherCase
  ActionNames <- MCActionNames
  UserFiles <- MCUserFiles
  SystemLines <- MCSystemLines
  WorkingDir = "/home"
  Writable = {TRUE, FALSE}
  MaxEdits = 2
  MaxSaves = 2
  MaxStarts = 2
SPECIFICATION ConfigSpec
CHECK_DEADLOCK FALSE
INVARIANTS LinesKept SavedIsRestored WalkMeetsBindings
PROPERTY ColumnsAsShown
