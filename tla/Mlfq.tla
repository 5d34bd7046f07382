-------------------------------- MODULE Mlfq --------------------------------
(***************************************************************************)
(* The multi-level feedback queue mode of the project 1 scheduler         *)
(* (thread_mlfqs): thread_tick (threads/thread.c:145-191) updating         *)
(* recent_cpu, load_avg and the priorities in 17.14 fixed point            *)
(* (threads/thread.h:27-38), the time slice, thread_yield into the ordered *)
(* ready list, and thread_set_nice.  The threads are CPU-bound: they never *)
(* block, so the idle thread never runs.                                   *)
(***************************************************************************)
EXTENDS Integers, Sequences, SequencesExt

CONSTANTS
  Threads,     \* kernel threads (model values)
  NiceValues,  \* arguments a thread may pass to thread_set_nice
  TIMER_FREQ,  \* timer interrupts per second (devices/timer.h: 100)
  TIME_SLICE,  \* thread.c:62: 4
  MaxTicks     \* ticks the model runs for

ASSUME /\ NiceValues \subseteq -20..20
       /\ TIMER_FREQ \in Nat \ {0} /\ TIMER_FREQ % 4 = 0
       /\ TIME_SLICE \in Nat \ {0} /\ MaxTicks \in Nat

PRI_MIN == 0
PRI_MAX == 63

VARIABLES
  ticks,     \* timer_ticks()
  slice,     \* thread_ticks: ticks of the running thread's slice
  cur,       \* the running thread
  ready,     \* ready_list
  pri,       \* thread->priority
  nice,      \* thread->nice
  recent,    \* thread->recent_cpu (17.14)
  loadAvg,   \* load_avg (17.14)
  niced      \* threads whose program has called thread_set_nice

vars == <<ticks, slice, cur, ready, pri, nice, recent, loadAvg, niced>>

-----------------------------------------------------------------------------
(* 17.14 fixed point (thread.h:27-38) with C's division, which truncates  *)
(* toward zero.  The 64-bit products of MULTXY are split so that no        *)
(* intermediate exceeds 32 bits.                                           *)

F == 2^14

CDiv(x, y) == LET q == (IF x < 0 THEN -x ELSE x) \div (IF y < 0 THEN -y ELSE y)
              IN  IF (x < 0) = (y < 0) THEN q ELSE -q

TOFIXED(n) == n * F
ADDXN(x, n) == x + n * F
MULTXN(x, n) == x * n
DIVXN(x, n) == CDiv(x, n)
TOINTNEAREST(x) == IF x >= 0 THEN CDiv(x + F \div 2, F) ELSE CDiv(x - F \div 2, F)

\* ((int64_t) x) * y / F, for 0 <= x < 2^16: y is split as yh * F + yl.
MULTXY(x, y) ==
  LET ay == IF y < 0 THEN -y ELSE y
      m  == x * (ay \div F) + (x * (ay % F)) \div F
  IN  IF y < 0 THEN -m ELSE m

\* ((int64_t) x) * F / y for 0 <= x < 2^17.
DIVXY(x, y) == CDiv(x * F, y)

\* Mutant: the formula without its clamp.
PriorityOfNoClamp(rc, n) ==
  TOINTNEAREST(TOFIXED(PRI_MAX) - DIVXN(rc, 4) - MULTXN(TOFIXED(n), 2))

\* The priority formula with its clamp (thread.c:174-179, 409-413, 537-541).
PriorityOf(rc, n) ==
  LET p == TOINTNEAREST(TOFIXED(PRI_MAX) - DIVXN(rc, 4) - MULTXN(TOFIXED(n), 2))
  IN  IF p < PRI_MIN THEN PRI_MIN ELSE IF p > PRI_MAX THEN PRI_MAX ELSE p

-----------------------------------------------------------------------------
(* Scheduling.                                                              *)

\* list_insert_ordered(&ready_list, &t->elem, comparePriorities, NULL)
InsertOrdered(p, s, t) ==
  LET i == SelectInSeq(s, LAMBDA e : p[t] > p[e])
  IN  IF i = 0 THEN Append(s, t) ELSE InsertAt(s, i, t)

\* thread_yield by the running thread under priorities p: it is inserted in
\* order, schedule() pops the front, schedule_tail() starts a new slice.
YieldTo(p) ==
  LET r == InsertOrdered(p, ready, cur)
  IN  /\ cur' = Head(r)
      /\ ready' = Tail(r)
      /\ slice' = 0

\* The timer interrupt: timer_ticks() advances, then thread_tick.  The
\* running thread's recent_cpu grows by 1; every second load_avg is
\* updated from the threads ready or running and every recent_cpu decays;
\* every fourth tick every priority is recomputed, from recent_cpu before
\* that second's decay (the loop of thread.c:170-186 does the priority
\* first).  At the end of a slice the thread yields on return.
Tick ==
  LET T   == ticks + 1
      rc1 == [recent EXCEPT ![cur] = ADDXN(@, 1)]
      la  == IF T % TIMER_FREQ = 0
               THEN MULTXY(DIVXY(59, 60), loadAvg)
                      + MULTXY(DIVXY(1, 60), TOFIXED(Len(ready) + 1))
               ELSE loadAvg
      a   == DIVXY(MULTXN(la, 2), ADDXN(MULTXN(la, 2), 1))
      p2  == IF T % 4 = 0 THEN [t \in Threads |-> PriorityOf(rc1[t], nice[t])] ELSE pri
  IN
  /\ ticks < MaxTicks
  /\ ticks' = T
  /\ loadAvg' = la
  /\ pri' = p2
  /\ recent' = IF T % TIMER_FREQ = 0
                 THEN [t \in Threads |-> ADDXN(MULTXY(a, rc1[t]), nice[t])]
                 ELSE rc1
  /\ IF slice + 1 >= TIME_SLICE
       THEN YieldTo(p2)
       ELSE slice' = slice + 1 /\ UNCHANGED <<cur, ready>>
  /\ UNCHANGED <<nice, niced>>

\* thread_set_nice (thread.c:405-418) called once by the running thread's
\* program: the priority is recomputed, and the thread yields if it is now
\* below the front of the ready list.
SetNice(n) ==
  LET p2 == [pri EXCEPT ![cur] = PriorityOf(recent[cur], n)]
  IN
  /\ ticks < MaxTicks /\ cur \notin niced
  /\ nice' = [nice EXCEPT ![cur] = n]
  /\ pri' = p2
  /\ niced' = niced \cup {cur}
  /\ IF ready # <<>> /\ p2[cur] < pri[Head(ready)]
       THEN YieldTo(p2)
       ELSE UNCHANGED <<cur, ready, slice>>
  /\ UNCHANGED <<ticks, recent, loadAvg>>

-----------------------------------------------------------------------------

\* thread_init and thread_create: load_avg 0; every thread inherits nice 0
\* and recent_cpu 0 from the initial thread (init_thread, thread.c:529-541),
\* so all start at PRI_MAX, queued in creation order.
Init ==
  LET order == SetToSeq(Threads) IN
  /\ ticks = 0 /\ slice = 0 /\ loadAvg = 0
  /\ cur = Head(order) /\ ready = Tail(order)
  /\ nice = [t \in Threads |-> 0]
  /\ recent = [t \in Threads |-> 0]
  /\ pri = [t \in Threads |-> PriorityOf(0, 0)]
  /\ niced = {}

Next ==
  \/ Tick
  \/ \E n \in NiceValues : SetNice(n)
  \/ ticks = MaxTicks /\ UNCHANGED vars

Spec == Init /\ [][Next]_vars

-----------------------------------------------------------------------------

\* Every thread is either running or queued exactly once, priorities stay in
\* PRI_MIN..PRI_MAX through the clamps, and a slice never reaches TIME_SLICE.
TypeOK ==
  /\ cur \in Threads
  /\ IsInjective(ready) /\ ToSet(ready) = Threads \ {cur}
  /\ pri \in [Threads -> PRI_MIN..PRI_MAX]
  /\ nice \in [Threads -> {0} \cup NiceValues]
  /\ slice \in 0..(TIME_SLICE - 1)
  /\ loadAvg >= 0 /\ ticks \in 0..MaxTicks

\* Whenever the scheduler switches threads, at the end of a slice in
\* thread_tick or in thread_set_nice, the thread it runs has the greatest
\* priority among the ready threads (spec 4.1: the ready set selection takes
\* the thread with the greatest priority).
ScheduleTakesHighest ==
  [][cur' # cur => \A t \in ToSet(ready') : pri'[cur'] >= pri'[t]]_vars

=============================================================================
