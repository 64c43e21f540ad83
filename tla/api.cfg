\* Quotes, search, connection pool and rate limit, each on its own.
SPECIFICATION ApiSpec
CONSTANTS
  Guests = {g1}
  Rates = {0, 4, 5, 15, 33}
  Lengths = {1, 2, 3}
  MinCharge = 10
  MaxInt = 100
  MaxRateChanges = 3
  Creates = {q1, q2}
  Others = {q3}
  Conns = 2
  Visitors = {v1, v2}
  Address <- WebServer
  Tasks = {task1, task2}
  Limit = 2
  Window = 3
  Listing = {l1, l2}
  Places = {"bay", "bayside"}
  Hits <- MCHits
  Drafts <- MCDrafts
  Searches <- Typed
  Addresses <- Visited
  Ranges <- Stays
  Windows <- Asked
  MaxWrites = 4
INVARIANT PriceIsAllIn
INVARIANT ChargedAsShown
INVARIANT HintTellsNights
INVARIANT LimitsHold
PROPERTY AnswersTheGuest
PROPERTY EveryRequestEnds
