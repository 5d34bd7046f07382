\* The scheduler runs the highest-priority ready thread while thread_tick
\* recomputes the priorities.
CONSTANTS
  t1 = t1
  t2 = t2
  t3 = t3
  Threads <- MCThreads
  NiceValues <- MCNiceValues
  TIMER_FREQ = 100
  TIME_SLICE = 4
  MaxTicks = 150
SPECIFICATION Spec
PROPERTY ScheduleTakesHighest
