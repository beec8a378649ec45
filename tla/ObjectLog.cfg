SPECIFICATION Spec
CONSTANTS
  Size = 16
  MAX_FRAGMENT_LEN = 3
  Scatter <- Messages
  Names = 6
  HdrLen = 2
  Pages = 2
  MaxLines = 2
  Width = 2
  ByteSpace = 4
  Scrolls = {0, 1, 2}
INVARIANTS
  EveryObjectReadable
  EndsMeet
  FragmentsContiguous
  PageShowsNewest
PROPERTIES
  DropsOnlyForSpace
  IsRecentLog
