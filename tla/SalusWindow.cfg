SPECIFICATION WindowSpec
CONSTANT MaxNotes = 6
INVARIANT WindowTypeOK
INVARIANT ShowsTheChart
INVARIANT FreezeIsKnown
CHECK_DEADLOCK FALSE
