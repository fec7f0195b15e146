\* Two attachments; chunks of up to three bytes overflow the history at once and
\* in steps, and fill channels of two chunks.
SPECIFICATION Spec
CONSTANTS
  Attachment = {a1, a2}
  a1 = a1
  a2 = a2
  HistoryBytes = 2
  SubBuffer = 2
  ReadBytes = 3
  MaxBytes = 5
INVARIANT NeverPanics
INVARIANT StreamUnbroken
INVARIANT HistoryIsNewest
INVARIANT EOFComesLast
PROPERTY PumpNeverBlocks
PROPERTY EveryReaderEnds
\* The output is bounded and the console ends closed.
CHECK_DEADLOCK FALSE
