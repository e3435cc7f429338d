SPECIFICATION FairSpec
CONSTANTS
  known = known
  unknown = unknown
  get1 = get1
  get2 = get2
  get3 = get3
  by1 = by1
  by2 = by2
  Orders = {known, unknown}
  Missing = {unknown}
  Readers = {get1, get2, get3}
  Responders = {by1, by2}
  Wanted <- TwoIds
  MaxUpdates = 1
  MaxFailures = 1
INVARIANTS SecondReadIsCurrent PublishedOrderIsRecent
PROPERTY CallsEnd
CHECK_DEADLOCK FALSE
