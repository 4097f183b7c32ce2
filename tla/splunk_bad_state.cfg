\* A query with one status request in flight at a time.
SPECIFICATION Spec
CONSTANT MaxPings = 1
PROPERTY BadStateFailsQuery
CHECK_DEADLOCK FALSE
