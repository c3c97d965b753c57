CONSTANTS
  CMD_MAX_PARA_NUM = 3
  AreaSize = 17
  Base = 4
  NameLengths = {1, 4}
  Parameters <- MCParameters
  Pieces <- MCPieces
  Texts <- MCTexts
  Others <- MCOthers
SPECIFICATION CallSpec
INVARIANT OwnBytesBack
