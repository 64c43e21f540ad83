\* Two ticks that may overlap, batches of two and of one, and a crash or a failing call.
SPECIFICATION AnySpec
CONSTANTS
  Row <- TwoRows
  Tick = {t1, t2}
  BatchSize = 2
  MaxFailures = 1
INVARIANT PublishedInOrder
INVARIANT NothingFabricated
PROPERTY EveryRowStamped
PROPERTY ImplementsDelivery
