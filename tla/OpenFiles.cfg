CONSTANTS
  Tasks = {t1, t2}
  Files = {f, g}
  Uart = uart
  Bytes = {0, 1}
  Unwritten = unwritten
  NoFile = none
  MaxFile = 2
  MaxOpen = 2
  Standard = 1
  MaxBuffer = 2

SYMMETRY MCSymmetry

SPECIFICATION FilesSpec
CHECK_DEADLOCK FALSE

INVARIANTS
  PosInFile
  BytesWritten
  WritesInBlock

PROPERTIES
  OtherBytesKept
