CONSTANTS
  InitramfsName = "initramfs"
  DevName = "dev"
  UartName = "uart"
  Tokens <- MCTokens
  AtZero = "junk"
  Archive <- MCArchive
  Digits = 2
  Garbage = {0, 7, 13}
  MaxProgramSize = 4
  Texts <- MCTexts
  MountTexts <- MCMountTexts
  ChdirTexts <- MCChdirTexts
  Skips = {0}
  MaxEntry = 3
  MaxVnodes = 13

SPECIFICATION Spec
CHECK_DEADLOCK FALSE

INVARIANTS
  TreeShape
  CreatedIsFound
  RelativeIsInside
  AbsPathCanonical
  ArchiveIntact
  WalksAgree

PROPERTIES
  PathsKept
