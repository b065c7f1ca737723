SPECIFICATION Spec
CONSTANTS
  a = a
  b = b
  Calls = {a, b}
  Via = Via
  Slash = Slash
  Prompt = Prompt
  Text = Text
  CR = CR
  LF = LF
  None = None
  PacketLimit = 2
  LineLimit = 4
  ReceiveLimit = 2
CHECK_DEADLOCK FALSE
INVARIANTS BbsSent
