SPECIFICATION Spec

CONSTANTS
  Files <- MCFiles
  Arguments <- MCArguments
  Numbers <- MCNumbers
  Letters <- MCLetters
  Samples <- MCSamples
  MaxFills = 2
  MaxWrites = 2

\* A program may stop at a damaged file, and after the last message.
CHECK_DEADLOCK FALSE

INVARIANTS
  NothingIsMisread
  ReadIsWritten
  SizesAgree
  ConcatenationMerges
