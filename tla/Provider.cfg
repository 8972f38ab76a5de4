SPECIFICATION ChatSpec
CONSTANTS
  Configured = 4
  RetryClamp = 3
  BaseDelay = 1
  MaxDelay = 3
  RequestTimeout = 2
  RetryAfters = {0, 2, 9}
  NoHint = NoHint
  MaxEvents = 2
  NL = NL
  DATA = DATA
  DONE = DONE
  PLAIN = PLAIN
  None = None
  text = text
  open0 = open0
  more0 = more0
  open1 = open1
  stats = stats
  hello = hello
  f = f
  x = x
  y = y
  ChunkOf <- MCChunkOf
  Texts = {hello, f, x, y}
  Payloads = {text, open0, more0, open1, stats}
  MaxIndex = 1
  Pieces <- MCPieces
  MaxBody = 10
INVARIANTS WaitBound TextAsSent CallsWhole
CHECK_DEADLOCK FALSE
