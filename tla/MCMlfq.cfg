\* Three CPU-bound threads over one second and a half of ticks, each of which
\* may call thread_set_nice once.
CONSTANTS
  t1 = t1
  t2 = t2
  t3 = t3
  Threads <- MCThreads
  NiceValues <- MCNiceValues
  TIMER_FREQ = 100
  TIME_SLICE = 4
  MaxTicks = 150
SPECIFICATION Spec
INVARIANT TypeOK
