\* Five pages, each with a failing call at any moment, the payment pages with two.
SPECIFICATION FairSpec
CONSTANTS
  MaxFaults = 1
  MaxPayFaults = 2
  None = None
  BlockId = {k1, k2}
  Range = {r1, r2}
  Slot = {s1, s2}
  Ops = {"add", "remove"}
  Standing <- OneBlock
  Card = {c1}
  Text = {blank, a}
  Blank = blank
  MonthLength = 2
  LastMonth = 1
  Clicks <- FirstDays
  Rivals <- LongStay
  MaxRivalry = 1
  HoldFor = 1
  MaxTime = 1
  MaxPolls = 2
  ClientRetries = 1
  MaxIntents = 2
  Fields <- Assumed
  Notices <- Edges
  Price = 101
INVARIANT PagesTypeOK
INVARIANT ScreenIsTrue
PROPERTY RefundAsPromised
PROPERTY UntouchedFieldsKept
PROPERTY ControlsComeBack
PROPERTY ScreenCatchesUp
