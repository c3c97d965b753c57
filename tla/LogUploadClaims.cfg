CONSTANTS
  k1 = k1  k2 = k2  k0 = k0  f1 = f1  f2 = f2  g2 = g2  other = other  cwd = cwd
  KeyList <- MCKeyList
  Files <- MCFiles
  KeysOf <- MCKeysOf
  OldFiles <- MCOldFiles
  CwdFiles <- MCCwdFiles
  Limit = 4
  Looks = 3
SPECIFICATION LogSpec
INVARIANT TrueMeansUploaded
\* The other claim refuted: PROPERTY OthersRowIsKept
CHECK_DEADLOCK FALSE
