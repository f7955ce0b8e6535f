SPECIFICATION FairSpec
CONSTANTS
  Events = {v1}
  Endpoints = {e1}
  Deliveries = {d1, d2}
  Deliverers = {x1, x2}
  Types = {t1}
  None = None
  MaxAttempts = 2
  BatchSize = 2
  MaxFailures = 1
CHECK_DEADLOCK FALSE
INVARIANTS OutcomesAreReal NeverStranded BoundedPosts
PROPERTIES SettledStays ReadableDeliveryEnds
