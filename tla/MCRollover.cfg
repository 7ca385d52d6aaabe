CONSTANTS
  Keys <- MCTwoKeys
  Width = 3
  Rollover = TRUE
  PortSize = 2
  MaxChars = 3
  MaxHistory = 2
SPECIFICATION Spec
PROPERTY TypedAsPressed
