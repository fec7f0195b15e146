\* Uploads of up to three pieces, the first of which look like the end of a
\* head, and downloads of up to three reads.
SPECIFICATION FSpec
CONSTANTS
  Piece <- SomePieces
  Body <- SomeBody
  MaxReads = 3
  PipeRoom = 2
  MaxHeader = 16
  Paths <- SomePaths
  Char <- SomeChar
  Code <- SomeCode
  Unhex <- SomeUnhex
INVARIANT RequestUnderstood
INVARIANT PathReachesGuest
INVARIANT ArchiveWhole
INVARIANT AcceptedMeansFed
PROPERTY AnswerComes
PROPERTY GuestCleansUp
\* A request is over when its handler returned and the guest closed.
CHECK_DEADLOCK FALSE
