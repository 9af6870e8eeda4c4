SPECIFICATION MailboxFairSpec
CONSTANTS
  Threads = {t1, t2, t3}
  Vertices = {v1}
  Messages <- MCMinMessages
  None = None
  Combine <- MCMin
  Unit = 1
INVARIANTS MailboxTypeOK MutualExclusion FirstWriterAlone CombinesIntoFullBox
PROPERTIES DeliversAtomically SendReturns
