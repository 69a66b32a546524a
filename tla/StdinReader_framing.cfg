\* Reads may end anywhere, also inside a header name.
CONSTANTS
  BUFFER_SIZE = 12
  NumMessages = 3
  BodyLengths = {1, 2, 3}
SPECIFICATION Spec
INVARIANTS TypeOK OnlyWholeMessages NoMessageLeftBehind OnceUnlessNameIsCut EofIsDetected
PROPERTY IsAChannel
CHECK_DEADLOCK FALSE
