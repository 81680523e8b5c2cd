CONSTANTS
  InitramfsName = "initramfs"
  DevName = "dev"
  UartName = "uart"
  Tokens <- MCTokens
  AtZero = "junk"
  Archive <- MCArchive
  Digits = 2
  Garbage = {0, 7, 13}
  MaxProgramSize = 4
  Texts <- MCTmpfsTexts
  MountTexts <- MCMountTexts
  ChdirTexts <- MCTexts
  Skips = {0}
  MaxEntry = 3
  MaxVnodes = 14

SPECIFICATION Spec
CHECK_DEADLOCK FALSE

PROPERTIES
  DirectoriesStay
