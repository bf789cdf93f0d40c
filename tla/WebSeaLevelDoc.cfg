SPECIFICATION Spec
CONSTANTS
  Text <- MCText
  Type = {"", "image/", "text/"}
  Name <- MCName
  trimStart <- MCTrimStart
  trimEnd <- MCTrimEnd
  NotAString = NotAString
  InvalidPath = InvalidPath
  Id = {"7", "007", "70", "x"}
  Digits <- MCDigits
  BigInt <- MCBigInt
  toString <- MCToString
  MaxInt64 = 69
  IndexPrefix <- MCIndexPrefix
  Folders <- MCFolders
  Keys <- MCKeys
  NewNames <- MCNewNames
  FileNames = {"f"}
  FileTypes = {"application/octet-stream"}
  UploadId = {"upload"}
  Parts = {1, 10000, 10001}
  MaxDepth = 4
  Input <- MCInput
  Trim <- MCTrim
  Links <- MCLinks
  Categories = {"image/"}
  Images <- MCImages
  MaxOps = 0
  MaxVisits = 0
  MaxActs = 0
  MaxPages = 1
  MaxFaults = 0
INVARIANTS SeaLevelIsShown
CHECK_DEADLOCK FALSE
