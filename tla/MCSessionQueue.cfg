\* A session limit of three: the queue as initialize_unused_session leaves it.
CONSTANTS
  Sessions <- MCSessions
  s1 = s1
  s2 = s2
  s3 = s3
  Null = Null
SPECIFICATION Spec
PROPERTIES PoolRefinement
