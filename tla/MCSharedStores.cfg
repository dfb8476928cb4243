SPECIFICATION Spec
CONSTANTS
  p1 = p1
  p2 = p2
  s1 = s1
  s2 = s2
  None = None
  Campaigns <- MCCampaigns
  Signatures <- MCSignatures
  Replies <- MCReplies
  Fallback <- MCFallback
  MaxLaunches = 3
  MaxCrashes = 3
SYMMETRY MCSymmetry
CHECK_DEADLOCK FALSE
INVARIANTS
  TypeOK
  ReplyIsUsed
  BootstrapIsWhole
PROPERTY
  LedgerSpec
