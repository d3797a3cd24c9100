SPECIFICATION Spec
CONSTANTS
  Outbound = {o1, o2}
  Chats = {c1}
  PerChat = 2
  Conns = {k1}
  LastReq = 2
  MaxParts = 3
  None = None
SYMMETRY Symmetry
INVARIANTS TypeOK AnswersOwn NoWaiterLeft AnsweredOnce ClosedAtEnd
CHECK_DEADLOCK FALSE
