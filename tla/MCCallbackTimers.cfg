\* Four calls of ctimer_set on two timers, an event queue of two, two foreign events.
SPECIFICATION Spec
CONSTANTS
  t1 = t1
  t2 = t2
  Other = Other
  Timers <- MCTimers
  Intervals <- MCIntervals
  NumEvents = 2
  ClockRange = 16
  MaxLate = 1
  MaxSets = 4
  MaxOthers = 2
INVARIANTS TypeOK ListSound NoTimerLost DueIsPolled NeverEarly
PROPERTIES EveryTimerCalled
