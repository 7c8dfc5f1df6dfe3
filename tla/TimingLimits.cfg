SPECIFICATION Spec
CONSTANTS
  Infinity = 8
  Parts = 4
  None = None
  Sections <- SomeSections
  Timers <- SomeTimers
  Lifetimes <- SomeLifetimes
  MaxHandlers = 2
INVARIANTS TypeOK TimersOrdered LimitsKept Settled
