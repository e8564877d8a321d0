\* Texts of up to two letters, buffers up to one more than the longest.
SPECIFICATION Spec
CONSTANTS
  Letters <- MCLetters
  Bytes <- MCBytes
  MaxLetters = 2
  MaxBuffer = 9
CHECK_DEADLOCK FALSE
INVARIANTS
  TypeOK
  TextSurvives
  NoOverrun
  OnlyCutPairsAbort
PROPERTIES
  AskedIsEnough
