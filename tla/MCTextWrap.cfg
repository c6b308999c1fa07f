SPECIFICATION Spec
CHECK_DEADLOCK FALSE
CONSTANTS
  Texts <- MCTexts
  Width <- MCWidth
  MaxWidth = 4
  HardCap = 3
  HardLines = 3
  AboutCap = 5
  AboutLines = 3
  Visible = 2
INVARIANT ScreenShowsText
