SPECIFICATION TermSpec
CONSTANTS
  Typed = {"a", " ", "@"}
  Keys = {"d", "c", "y", "w", "b", "e", "j", "k", "$", "^", "g", "0", "2", "Y", "D", "v", "V", "x", "P", "p", "u", "CtrlR", "i", "A", "o", "Esc", "Enter", "CtrlC", "CtrlD", "Left"}
  History <- MCHistory
  Candidates <- MCCandidates
  ModelPrefix <- MCModelPrefix
  ModePrefix <- MCModePrefix
  MaxRows = 3
  MaxKeys = 5
  MaxCount = 2
  Widths = {4, 13}
  Words <- MCWords
  Wide = {"W", "X", "Y"}
  ListKinds <- MCListKinds
  Url <- MCUrl
  MaxBlocks = 3
  MaxDepth = 5
  Chars <- MCSynChars
  Keywords <- MCKeywords
  MaxLen = 5
INVARIANTS FrameIsTrue LossIsMarked  RunsAreLexical
PROPERTIES UndoIsHistory CompletionReplacesTyped
CHECK_DEADLOCK FALSE
