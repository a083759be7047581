SPECIFICATION FairSpec
CONSTANTS
  t1 = t1
  t2 = t2
  review = review
  approve = approve
  pause = pause
  Proc = {p1, p2}
  Token = {t1, t2}
  Node = {review, approve, pause}
  Start <- MCStart
  Kind <- MCKind
  Succ <- MCSucc
  EscalatesTo <- MCEscalatesTo
  MaxFireRetries = 2
  Done = Done
  Cancelled = Cancelled
  NoOne = NoOne
  NoKey = NoKey
INVARIANTS TypeOK TokensHaveWork LeavesOnce HistoryMatchesStatus
PROPERTIES TerminalIsFinal TransactionsEnd
