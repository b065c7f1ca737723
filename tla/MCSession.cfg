SPECIFICATION Spec
CONSTANTS
  a = a
  b = b
  Calls = {a, b}
  Via = Via
  Slash = Slash
  Prompt = Prompt
  Text = Text
  CR = CR
  LF = LF
  None = None
  PacketLimit = 2
  LineLimit = 4
  ReceiveLimit = 6
CHECK_DEADLOCK FALSE
INVARIANTS LinesMatchEndings ListAskedFor TimeoutNeverAbandons
PROPERTIES RouteOfPreviousLine SessionEnds
