\* A read ends inside a header name.
CONSTANTS
  BUFFER_SIZE = 13
  NumMessages = 4
  BodyLengths = {1, 2, 3}
SPECIFICATION Spec
INVARIANT NoMessageTwice
CHECK_DEADLOCK FALSE
