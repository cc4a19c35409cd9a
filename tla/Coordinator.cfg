SPECIFICATION FairSpec
CONSTANTS
  a1 = a1
  a2 = a2
  Rids <- MCRids
  Addrs = {a1, a2}
  AddrsOf <- MCAddrsOf
  Slots <- MCSlots
  Timeout <- MCTimeout
  NoRid = NoRid
  NoTsn = NoTsn
  Span = 8
  MaxAllocs = 5
  ConfirmFirst = FALSE
INVARIANTS OneReply AnsweredOrOpen HandleFindsOwner
PROPERTY Answered
CHECK_DEADLOCK FALSE
