\* Two hosts, two handlers at a time, two ranges that overlap, a lost transaction.
SPECIFICATION Spec
CONSTANTS
  Host = {h1, h2}
  Listing = {l1}
  BlockId = {k1, k2}
  Worker = {w1, w2}
  Stays <- TouchingNights
  MaxCapacity = 2
  MaxFaults = 1
  None = None
SYMMETRY Symmetric
INVARIANT TypeOK
INVARIANT BlocksDisjoint
PROPERTY OwnerOnly
PROPERTY StandingBlockHolds
