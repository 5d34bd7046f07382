---------------------------- MODULE PrioritySync ----------------------------
(***************************************************************************)
(* The priority scheduler of threads/thread.c together with the semaphore *)
(* and the lock with nested priority donation of threads/synch.c, for one *)
(* CPU and the priority (non-MLFQ) mode.                                   *)
(*                                                                         *)
(* Every thread runs a client program that, between kernel calls, chooses *)
(* lock_acquire, lock_release, lock_try_acquire, thread_set_priority or    *)
(* thread_exit.  The kernel calls are split at the points where another   *)
(* thread can run: where the call blocks or yields, and where interrupts  *)
(* are enabled so that the timer may preempt (intr_yield_on_return).      *)
(*                                                                         *)
(*   pc = "user"        between kernel calls                              *)
(*   pc = "acq_down"    lock_acquire after the donation block, before     *)
(*                      sema_down (synch.c:232)                           *)
(*   pc = "acq_wait"    blocked inside the sema_down loop (synch.c:72-76) *)
(*   pc = "acq_set"     sema_down returned, lock->holder not yet set      *)
(*                      (synch.c:233-234)                                 *)
(*   pc = "rel_up"      lock_release after lock->holder = NULL, before    *)
(*                      sema_up (synch.c:291-292)                         *)
(*   pc = "rel_donors"  lock_release after sema_up, before the donor      *)
(*                      clean-up (synch.c:292-296)                        *)
(*   pc = "cv_down"     cond_wait after lock_release, before sema_down on *)
(*                      the waiter's own semaphore (synch.c:411)          *)
(*   pc = "cv_wait"     blocked inside that sema_down                     *)
(*   pc = "bcast"       inside the loop of cond_broadcast (synch.c:452)   *)
(*   pc = "try_set"     lock_try_acquire after a successful sema_try_down *)
(*                      (synch.c:250-252)                                 *)
(*   pc = "try_fail"    lock_try_acquire after a failed sema_try_down     *)
(*                      (synch.c:250-255)                                 *)
(*   pc = "try_walk"    inside the donation walk of lock_try_acquire      *)
(*                      (synch.c:263-273), at the thread wtemp            *)
(*                                                                         *)
(* One condition variable, used with the lock CondLock, when WithCond.    *)
(* cond_wait runs with interrupts off from its first line to its last, so *)
(* a thread inside it (inCond) is never preempted, also while it releases *)
(* and re-acquires the lock through the lock's own steps.                 *)
(***************************************************************************)
EXTENDS Integers, Sequences, SequencesExt, FiniteSets

CONSTANTS
  Threads,       \* kernel threads (model values)
  Locks,         \* locks, numbered: clients acquire them in increasing order
  Idle,          \* the idle thread
  NoThread,      \* lock->holder == NULL
  NoLock,        \* thread->locked_by == NULL
  InitPri,       \* priority each thread was created with
  Priorities,    \* priorities thread_set_priority may be called with
  Budget,        \* kernel calls each client program may start
  MAX_DEPTH,     \* bound of the donation walk (synch.c:35)
  Preemptive,    \* whether the timer may preempt at interrupt-enabled points
  WithTryAcquire,\* whether client programs call lock_try_acquire
  WithCond,      \* whether client programs use the condition variable
  CondLock       \* the lock the condition variable is used with

ASSUME /\ Locks \subseteq Nat
       /\ InitPri \in [Threads -> Priorities]
       /\ Budget \in Nat /\ MAX_DEPTH \in Nat \ {0}
       /\ Preemptive \in BOOLEAN /\ WithTryAcquire \in BOOLEAN
       /\ WithCond \in BOOLEAN /\ CondLock \in Locks

VARIABLES
  cur,        \* running_thread()
  ready,      \* ready_list, a sequence of threads
  status,     \* thread->status
  pri,        \* thread->priority (effective priority)
  base,       \* thread->base_priority
  lockedBy,   \* thread->locked_by
  donors,     \* thread->donators, a sequence of threads
  holder,     \* lock->holder
  sval,       \* lock->semaphore.value
  waiters,    \* lock->semaphore.waiters, a sequence of threads
  pc,         \* where each thread is in its client program / kernel call
  plock,      \* the lock argument of the kernel call in progress
  budget,     \* kernel calls the client program may still start
  panicked,   \* a kernel ASSERT has failed
  cwaiters,   \* cond->waiters: the semaphore_elem of each waiter, by thread
  cval,       \* cval[t]: waiter.semaphore.value of t's cond_wait
  inCond,     \* t is inside cond_wait (interrupts off)
  wtemp,      \* temp of lock_try_acquire's donation walk
  wdepth      \* depth of lock_try_acquire's donation walk

cvVars == <<cwaiters, cval, inCond>>

walkVars == <<wtemp, wdepth>>

vars == <<cur, ready, status, pri, base, lockedBy, donors, holder, sval,
          waiters, pc, plock, budget, panicked, cwaiters, cval, inCond,
          wtemp, wdepth>>

PCs == {"user", "acq_down", "acq_wait", "acq_set", "rel_up", "rel_donors",
        "cv_down", "cv_wait", "bcast", "try_set", "try_fail", "try_walk"}

-----------------------------------------------------------------------------
(* Lists ordered by comparePriorities (thread.c:665).                      *)

\* list_insert_ordered(&l, &t->elem, comparePriorities): t goes before the
\* first element of lower priority, so after all elements of equal priority.
InsertOrdered(p, s, t) ==
  LET i == SelectInSeq(s, LAMBDA e : p[t] > p[e])
  IN  IF i = 0 THEN Append(s, t) ELSE InsertAt(s, i, t)

\* list_sort(&l, comparePriorities, NULL): a stable merge sort, highest
\* priority first.
SortByPri(p, s) == FoldLeft(LAMBDA acc, e : InsertOrdered(p, acc, e), <<>>, s)

HeldBy(t) == {l \in Locks : holder[l] = t}

PriMax(S, p) == CHOOSE x \in {p[d] : d \in S} : \A d \in S : x >= p[d]

-----------------------------------------------------------------------------
(* Scheduling (thread.c:356-369, 571-579, 598-647).                        *)

\* schedule(): next_thread_to_run() pops the front of the ready list, or
\* returns the idle thread when the list is empty; schedule_tail() marks it
\* running.
SwitchTo(st, r) ==
  LET next == IF r = <<>> THEN Idle ELSE Head(r)
  IN  /\ cur' = next
      /\ ready' = IF r = <<>> THEN <<>> ELSE Tail(r)
      /\ status' = IF next = Idle THEN st ELSE [st EXCEPT ![next] = "RUNNING"]

\* thread_yield() by the running thread, priorities p being those after the
\* step: it is inserted in order into the ready list and schedule() runs.
Yield(p, st, r) == SwitchTo([st EXCEPT ![cur] = "READY"], InsertOrdered(p, r, cur))

Continue(st, r) == cur' = cur /\ ready' = r /\ status' = st

YieldIf(c, p, st, r) == IF c THEN Yield(p, st, r) ELSE Continue(st, r)

-----------------------------------------------------------------------------
(* Priority donation.                                                       *)

\* The donation walk of lock_acquire (synch.c:217-227): follow "holder of
\* the lock I am blocked on" at most MAX_DEPTH times, raising each holder
\* whose priority is lower.  ok is FALSE when the walk meets a lock without
\* holder (ASSERT at synch.c:220).
\* Mutant: a walk that donates only to the direct holder, not along chains.
DonateChainFlat(t, lb, p, depth) ==
  IF lb[t] = NoLock THEN [pri |-> p, ok |-> TRUE]
  ELSE LET h == holder[lb[t]]
       IN  IF h = NoThread THEN [pri |-> p, ok |-> FALSE]
           ELSE IF p[t] > p[h] THEN [pri |-> [p EXCEPT ![h] = p[t]], ok |-> TRUE]
                ELSE [pri |-> p, ok |-> TRUE]

RECURSIVE DonateChain(_, _, _, _)
DonateChain(t, lb, p, depth) ==
  IF lb[t] = NoLock \/ depth >= MAX_DEPTH THEN [pri |-> p, ok |-> TRUE]
  ELSE LET h == holder[lb[t]]
       IN  IF h = NoThread THEN [pri |-> p, ok |-> FALSE]
           ELSE IF p[t] > p[h]
                THEN DonateChain(h, lb, [p EXCEPT ![h] = p[t]], depth + 1)
                ELSE [pri |-> p, ok |-> TRUE]

\* thread_set_priority(new) of the running thread t whose donator list is
\* dl (thread.c:373-394).
SetPriority(t, new, dl) ==
  LET np == IF dl = <<>> \/ new > pri[t] THEN new ELSE pri[t]
      p2 == [pri EXCEPT ![t] = np]
  IN  /\ pri' = p2
      /\ base' = [base EXCEPT ![t] = new]
      /\ YieldIf(ready # <<>> /\ p2[Head(ready)] > np, p2, status, ready)

-----------------------------------------------------------------------------
(* Steps of the running thread t.                                           *)

Running(t) == cur = t /\ status[t] = "RUNNING" /\ ~panicked

\* The donation block of lock_acquire (synch.c:203-227): a held lock makes
\* t a donator of its holder and walks the chain; a free one clears
\* locked_by.  Then on to sema_down (pc "acq_down").
Donate(t, l) ==
  /\ IF holder[l] # NoThread
       THEN LET lb == [lockedBy EXCEPT ![t] = l]
                r  == DonateChain(t, lb, pri, 0)
            IN  /\ lockedBy' = lb
                /\ donors' = [donors EXCEPT ![holder[l]] = Append(@, t)]
                /\ pri' = r.pri
                /\ panicked' = ~r.ok
       ELSE /\ lockedBy' = [lockedBy EXCEPT ![t] = NoLock]
            /\ UNCHANGED <<donors, pri, panicked>>
  /\ pc' = [pc EXCEPT ![t] = "acq_down"]
  /\ plock' = [plock EXCEPT ![t] = l]

\* lock_acquire called by the client program (synch.c:203-232).  The
\* client acquires locks in increasing order, which rules out lock-order
\* deadlock.
LockAcquire(t, l) ==
  /\ Running(t) /\ pc[t] = "user" /\ budget[t] > 0
  /\ holder[l] # t
  /\ \A k \in HeldBy(t) : k < l
  /\ Donate(t, l)
  /\ budget' = [budget EXCEPT ![t] = @ - 1]
  /\ UNCHANGED <<cur, ready, status, base, holder, sval, waiters>>
  /\ UNCHANGED cvVars /\ UNCHANGED walkVars

\* Mutant: an "if" instead of the "while" of sema_down, so a woken thread
\* takes the semaphore without re-checking its value.
SemaDownIf(t) ==
  LET l == plock[t] IN
  /\ Running(t) /\ pc[t] \in {"acq_down", "acq_wait"}
  /\ IF sval[l] = 0 /\ pc[t] = "acq_down"
       THEN /\ waiters' = [waiters EXCEPT ![l] = InsertOrdered(pri, @, t)]
            /\ pc' = [pc EXCEPT ![t] = "acq_wait"]
            /\ SwitchTo([status EXCEPT ![t] = "BLOCKED"], ready)
            /\ UNCHANGED sval
       ELSE /\ sval' = [sval EXCEPT ![l] = @ - 1]
            /\ pc' = [pc EXCEPT ![t] = "acq_set"]
            /\ UNCHANGED <<cur, ready, status, waiters>>
  /\ UNCHANGED <<pri, base, lockedBy, donors, holder, plock, budget, panicked>>
  /\ UNCHANGED cvVars /\ UNCHANGED walkVars

\* sema_down(&lock->semaphore) (synch.c:63-79): block while the value is 0,
\* re-checking it each time the thread is woken.
SemaDown(t) ==
  LET l == plock[t] IN
  /\ Running(t) /\ pc[t] \in {"acq_down", "acq_wait"}
  /\ IF sval[l] = 0
       THEN /\ waiters' = [waiters EXCEPT ![l] = InsertOrdered(pri, @, t)]
            /\ pc' = [pc EXCEPT ![t] = "acq_wait"]
            /\ SwitchTo([status EXCEPT ![t] = "BLOCKED"], ready)
            /\ UNCHANGED sval
       ELSE /\ sval' = [sval EXCEPT ![l] = @ - 1]
            /\ pc' = [pc EXCEPT ![t] = "acq_set"]
            /\ UNCHANGED <<cur, ready, status, waiters>>
  /\ UNCHANGED <<pri, base, lockedBy, donors, holder, plock, budget, panicked>>
  /\ UNCHANGED cvVars /\ UNCHANGED walkVars

\* lock->holder = current (synch.c:234, and 253 in lock_try_acquire); in
\* cond_wait, the lock_acquire of its last line returns and so does
\* cond_wait (synch.c:412-413).
LockSetHolder(t) ==
  /\ Running(t) /\ pc[t] = "acq_set"
  /\ holder' = [holder EXCEPT ![plock[t]] = t]
  /\ pc' = [pc EXCEPT ![t] = "user"]
  /\ inCond' = [inCond EXCEPT ![t] = FALSE]
  /\ UNCHANGED <<cur, ready, status, pri, base, lockedBy, donors, sval,
                 waiters, plock, budget, panicked, cwaiters, cval, wtemp, wdepth>>

\* Mutants of sema_up: the value is not incremented; the woken waiter is
\* left in the waiters list; the waiter is taken off the list but never
\* unblocked.
SemaUpNoInc(t, l) ==
  /\ UNCHANGED sval
  /\ IF waiters[l] # <<>>
       THEN LET s == SortByPri(pri, waiters[l])
                w == Head(s)
            IN  /\ waiters' = [waiters EXCEPT ![l] = Tail(s)]
                /\ YieldIf(pri[w] > pri[t], pri, [status EXCEPT ![w] = "READY"],
                           InsertOrdered(pri, ready, w))
       ELSE UNCHANGED waiters /\ Continue(status, ready)

SemaUpNoPop(t, l) ==
  /\ sval' = [sval EXCEPT ![l] = @ + 1]
  /\ IF waiters[l] # <<>>
       THEN LET w == Head(SortByPri(pri, waiters[l]))
            IN  /\ UNCHANGED waiters
                /\ YieldIf(pri[w] > pri[t], pri, [status EXCEPT ![w] = "READY"],
                           InsertOrdered(pri, ready, w))
       ELSE UNCHANGED waiters /\ Continue(status, ready)

SemaUpNoWake(t, l) ==
  /\ sval' = [sval EXCEPT ![l] = @ + 1]
  /\ waiters' = [waiters EXCEPT ![l] = IF @ = <<>> THEN @ ELSE Tail(SortByPri(pri, @))]
  /\ Continue(status, ready)

\* sema_up(&lock->semaphore) run by t (synch.c:112-130): the waiters are
\* re-sorted, the first is unblocked (inserted in order into the ready
\* list), the value is incremented, and t yields if the woken thread has a
\* higher priority.
SemaUp(t, l) ==
  /\ sval' = [sval EXCEPT ![l] = @ + 1]
  /\ IF waiters[l] # <<>>
       THEN LET s == SortByPri(pri, waiters[l])
                w == Head(s)
            IN  /\ waiters' = [waiters EXCEPT ![l] = Tail(s)]
                /\ YieldIf(pri[w] > pri[t], pri, [status EXCEPT ![w] = "READY"],
                           InsertOrdered(pri, ready, w))
       ELSE UNCHANGED waiters /\ Continue(status, ready)

\* The first part of lock_release inside cond_wait (synch.c:291-292, 410),
\* where interrupts are off: clear the holder and sema_up the lock's
\* semaphore, then on to the donor clean-up.
Release(t, l) ==
  /\ holder' = [holder EXCEPT ![l] = NoThread]
  /\ SemaUp(t, l)
  /\ pc' = [pc EXCEPT ![t] = "rel_donors"]
  /\ plock' = [plock EXCEPT ![t] = l]

\* lock_release called by the client program: lock->holder = NULL
\* (synch.c:291), with interrupts on, then on to sema_up.
LockRelease(t, l) ==
  /\ Running(t) /\ pc[t] = "user" /\ holder[l] = t
  /\ holder' = [holder EXCEPT ![l] = NoThread]
  /\ pc' = [pc EXCEPT ![t] = "rel_up"]
  /\ plock' = [plock EXCEPT ![t] = l]
  /\ UNCHANGED <<cur, ready, status, pri, base, lockedBy, donors, sval,
                 waiters, budget, panicked>>
  /\ UNCHANGED cvVars /\ UNCHANGED walkVars

\* sema_up (&lock->semaphore) of lock_release (synch.c:292), then on to
\* the donor clean-up.
LockReleaseUp(t) ==
  /\ Running(t) /\ pc[t] = "rel_up"
  /\ SemaUp(t, plock[t])
  /\ pc' = [pc EXCEPT ![t] = "rel_donors"]
  /\ UNCHANGED <<pri, base, lockedBy, donors, holder, plock, budget, panicked>>
  /\ UNCHANGED cvVars /\ UNCHANGED walkVars

\* Mutants of the donor clean-up: the donators of the released lock stay
\* in the list; their locked_by is not cleared.
KeptDonorsAll(t) == donors[t]

LeavingNone(t) == {}

\* The donators of t that wait for another lock than the one t releases,
\* and those that wait for it (synch.c:300-312).
KeptDonors(t) == SelectSeq(donors[t], LAMBDA d : lockedBy[d] # plock[t])

Leaving(t) == {d \in ToSet(donors[t]) : lockedBy[d] = plock[t]}

\* Mutant: the tests "m > -1" and "base_priority > m" are dropped.
RestorePriorityNoGuard(t, keep) ==
  LET m == IF keep = <<>> THEN -1 ELSE PriMax(ToSet(keep), pri)
  IN  /\ pri' = [pri EXCEPT ![t] = m]
      /\ Yield([pri EXCEPT ![t] = m], status, ready)
      /\ UNCHANGED base

\* The priority of t after dropping the donators of the released lock
\* (synch.c:318-330): m is the best priority of the donators kept; if one
\* exists and the base priority is not above it, the priority becomes m and
\* t yields, otherwise thread_set_priority(base_priority).
RestorePriority(t, keep) ==
  LET m  == IF keep = <<>> THEN -1 ELSE PriMax(ToSet(keep), pri)
      p2 == [pri EXCEPT ![t] = m]
  IN  IF m > -1 /\ base[t] <= m
        THEN /\ pri' = p2
             /\ Yield(p2, status, ready)
             /\ UNCHANGED base
        ELSE SetPriority(t, base[t], keep)

\* The donor clean-up of lock_release (synch.c:296-332): donators waiting
\* for the lock are dropped and their locked_by cleared, then the priority
\* is restored.  In cond_wait the thread goes on to sema_down.
LockReleaseDonors(t) ==
  /\ Running(t) /\ pc[t] = "rel_donors"
  /\ lockedBy' = [d \in Threads |-> IF d \in Leaving(t) THEN NoLock ELSE lockedBy[d]]
  /\ donors' = [donors EXCEPT ![t] = KeptDonors(t)]
  /\ RestorePriority(t, KeptDonors(t))
  /\ pc' = [pc EXCEPT ![t] = IF inCond[t] THEN "cv_down" ELSE "user"]
  /\ UNCHANGED <<holder, sval, waiters, plock, budget, panicked>>
  /\ UNCHANGED cvVars /\ UNCHANGED walkVars

\* lock_try_acquire called by the client program: sema_try_down
\* (synch.c:250, 86-104) takes the semaphore if its value is positive.
\* The rest of the call runs with interrupts on.
LockTryAcquire(t, l) ==
  /\ WithTryAcquire
  /\ Running(t) /\ pc[t] = "user" /\ budget[t] > 0
  /\ holder[l] # t
  /\ \A k \in HeldBy(t) : k < l
  /\ IF sval[l] > 0
       THEN /\ sval' = [sval EXCEPT ![l] = @ - 1]
            /\ pc' = [pc EXCEPT ![t] = "try_set"]
       ELSE /\ UNCHANGED sval
            /\ pc' = [pc EXCEPT ![t] = "try_fail"]
  /\ plock' = [plock EXCEPT ![t] = l]
  /\ budget' = [budget EXCEPT ![t] = @ - 1]
  /\ UNCHANGED <<cur, ready, status, pri, base, lockedBy, donors, holder,
                 waiters, panicked>>
  /\ UNCHANGED cvVars /\ UNCHANGED walkVars

\* Success: locked_by = NULL (synch.c:252); lock->holder is set next
\* (LockSetHolder, synch.c:253).
TryClearLockedBy(t) ==
  /\ Running(t) /\ pc[t] = "try_set"
  /\ lockedBy' = [lockedBy EXCEPT ![t] = NoLock]
  /\ pc' = [pc EXCEPT ![t] = "acq_set"]
  /\ UNCHANGED <<cur, ready, status, pri, base, donors, holder, sval,
                 waiters, plock, budget, panicked>>
  /\ UNCHANGED cvVars /\ UNCHANGED walkVars

\* Failure (synch.c:256-264): ASSERT (lock->holder != NULL), locked_by =
\* lock, donor_elem pushed onto the holder's donators (the ASSERT and the
\* push read lock->holder in one step), and the walk starts at the caller,
\* although it does not wait.
TryRegister(t) ==
  LET l == plock[t] IN
  /\ Running(t) /\ pc[t] = "try_fail"
  /\ IF holder[l] = NoThread
       THEN /\ panicked' = TRUE
            /\ UNCHANGED <<lockedBy, donors, pc, wtemp>>
       ELSE /\ lockedBy' = [lockedBy EXCEPT ![t] = l]
            /\ donors' = [donors EXCEPT ![holder[l]] = Append(@, t)]
            /\ pc' = [pc EXCEPT ![t] = "try_walk"]
            /\ wtemp' = [wtemp EXCEPT ![t] = t]
            /\ UNCHANGED panicked
  /\ UNCHANGED <<cur, ready, status, pri, base, holder, sval, waiters,
                 plock, budget, wdepth>>
  /\ UNCHANGED cvVars

\* The walk of lock_try_acquire returns to the client program.
WalkDone(t) ==
  /\ pc' = [pc EXCEPT ![t] = "user"]
  /\ wtemp' = [wtemp EXCEPT ![t] = NoThread]
  /\ wdepth' = [wdepth EXCEPT ![t] = 0]
  /\ UNCHANGED <<pri, panicked>>

\* One iteration of the walk of lock_try_acquire (synch.c:265-273), run
\* with interrupts on: stop at a temp not locked; ASSERT that the lock it
\* waits for has a holder and that depth++ < MAX_DEPTH; raise a lower
\* holder and move to it, or stop.
TryWalk(t) ==
  LET tmp == wtemp[t]
      lb  == lockedBy[tmp]
      h   == IF lb = NoLock THEN NoThread ELSE holder[lb]
  IN  /\ Running(t) /\ pc[t] = "try_walk"
      /\ CASE lb = NoLock -> WalkDone(t)
            [] h = NoThread \/ wdepth[t] >= MAX_DEPTH ->
                 panicked' = TRUE /\ UNCHANGED <<pri, pc, wtemp, wdepth>>
            [] pri[tmp] > pri[h] ->
                 /\ pri' = [pri EXCEPT ![h] = pri[tmp]]
                 /\ wtemp' = [wtemp EXCEPT ![t] = h]
                 /\ wdepth' = [wdepth EXCEPT ![t] = @ + 1]
                 /\ UNCHANGED <<pc, panicked>>
            [] OTHER -> WalkDone(t)
      /\ UNCHANGED <<cur, ready, status, base, lockedBy, donors, holder, sval,
                     waiters, plock, budget>>
      /\ UNCHANGED cvVars

\* thread_set_priority called by the client program.
ThreadSetPriority(t, new) ==
  /\ Running(t) /\ pc[t] = "user" /\ budget[t] > 0
  /\ SetPriority(t, new, donors[t])
  /\ budget' = [budget EXCEPT ![t] = @ - 1]
  /\ UNCHANGED <<lockedBy, donors, holder, sval, waiters, pc, plock, panicked>>
  /\ UNCHANGED cvVars /\ UNCHANGED walkVars

\* thread_exit (thread.c:336-350), once the program holds no lock.
ThreadExit(t) ==
  /\ Running(t) /\ pc[t] = "user" /\ HeldBy(t) = {}
  /\ SwitchTo([status EXCEPT ![t] = "DYING"], ready)
  /\ UNCHANGED <<pri, base, lockedBy, donors, holder, sval, waiters, pc,
                 plock, budget, panicked>>
  /\ UNCHANGED cvVars /\ UNCHANGED walkVars

\* The timer interrupt at the end of a time slice (thread_tick,
\* thread.c:189-190) makes the running thread yield, wherever interrupts
\* are enabled (not inside cond_wait).
Preempt(t) ==
  /\ Preemptive
  /\ Running(t)
  /\ pc[t] \in {"user", "acq_down", "acq_set", "rel_up", "rel_donors",
               "try_set", "try_fail", "try_walk"}
  /\ ~inCond[t]
  /\ Yield(pri, status, ready)
  /\ UNCHANGED <<pri, base, lockedBy, donors, holder, sval, waiters, pc,
                 plock, budget, panicked>>
  /\ UNCHANGED cvVars /\ UNCHANGED walkVars

-----------------------------------------------------------------------------
(* The condition variable (synch.c:385-455), used with CondLock.          *)

\* The waiter elems the insertion loop of cond_wait visits (synch.c:396-
\* 406): all of them up to and including the first whose front thread has
\* a lower priority than t, before which t's elem is then linked.
Visited(t) ==
  LET i == SelectInSeq(cwaiters, LAMBDA e : pri[t] > pri[e])
  IN  ToSet(IF i = 0 THEN cwaiters ELSE SubSeq(cwaiters, 1, i))

\* list_front (&sema->waiters) for the elem of waiter w: w is the only
\* thread that can be on its semaphore's list, and only once it blocks in
\* its sema_down; list_front of an empty list fails its ASSERT (list.c).
FrontEmpty(w) == pc[w] # "cv_wait"

\* cond_wait up to lock_release (synch.c:385-410): interrupts off, the
\* waiter semaphore at 0, its elem linked in priority order, and the lock
\* released, whose sema_up may yield to a woken waiter of the lock.  The
\* client waits holding the condition's lock and no other.
CondWait(t) ==
  /\ WithCond
  /\ Running(t) /\ pc[t] = "user" /\ budget[t] > 0
  /\ HeldBy(t) = {CondLock}
  /\ budget' = [budget EXCEPT ![t] = @ - 1]
  /\ IF \E w \in Visited(t) : FrontEmpty(w)
       THEN /\ panicked' = TRUE
            /\ UNCHANGED <<cur, ready, status, pri, base, lockedBy, donors,
                           holder, sval, waiters, pc, plock, cvVars>>
       ELSE /\ cwaiters' = InsertOrdered(pri, cwaiters, t)
            /\ cval' = [cval EXCEPT ![t] = 0]
            /\ inCond' = [inCond EXCEPT ![t] = TRUE]
            /\ Release(t, CondLock)
            /\ UNCHANGED <<pri, base, lockedBy, donors, panicked>>
  /\ UNCHANGED walkVars

\* sema_down (&waiter.semaphore) (synch.c:411, 63-79): block while the
\* value is 0; once it is 1 take it, and lock_acquire (lock) (synch.c:412)
\* runs its donation block at once, interrupts being off.
CondSemaDown(t) ==
  /\ Running(t) /\ pc[t] \in {"cv_down", "cv_wait"}
  /\ IF cval[t] = 0
       THEN /\ pc' = [pc EXCEPT ![t] = "cv_wait"]
            /\ SwitchTo([status EXCEPT ![t] = "BLOCKED"], ready)
            /\ UNCHANGED <<pri, lockedBy, donors, plock, panicked, cval>>
       ELSE /\ cval' = [cval EXCEPT ![t] = @ - 1]
            /\ Donate(t, CondLock)
            /\ UNCHANGED <<cur, ready, status>>
  /\ UNCHANGED <<base, holder, sval, waiters, budget, cwaiters, inCond, wtemp, wdepth>>

\* sema_up (&waiter->semaphore) run by t for the elem of thread w
\* (synch.c:112-130): the value goes up; w, if blocked on it, is unblocked
\* and t yields when w's priority is higher.
CondSemaUp(t, w) ==
  /\ cval' = [cval EXCEPT ![w] = @ + 1]
  /\ IF status[w] = "BLOCKED" /\ pc[w] = "cv_wait"
       THEN YieldIf(pri[w] > pri[t], pri, [status EXCEPT ![w] = "READY"],
                    InsertOrdered(pri, ready, w))
       ELSE Continue(status, ready)

\* Mutant: the elem is unlinked but its semaphore is never upped.
SignalFrontNoUp(t) ==
  /\ cwaiters' = Tail(cwaiters)
  /\ Continue(status, ready)
  /\ UNCHANGED cval

\* The body of cond_signal on a non-empty list (synch.c:432-435): pop the
\* front elem and up its semaphore.
SignalFront(t) ==
  /\ cwaiters' = Tail(cwaiters)
  /\ CondSemaUp(t, Head(cwaiters))

\* cond_signal called by the client program, holding the lock (an empty
\* list changes nothing and is left out).
CondSignal(t) ==
  /\ WithCond
  /\ Running(t) /\ pc[t] = "user" /\ budget[t] > 0
  /\ holder[CondLock] = t /\ cwaiters # <<>>
  /\ SignalFront(t)
  /\ budget' = [budget EXCEPT ![t] = @ - 1]
  /\ UNCHANGED <<pri, base, lockedBy, donors, holder, sval, waiters, pc,
                 plock, panicked, inCond, wtemp, wdepth>>

\* cond_broadcast called by the client program: its first cond_signal.
CondBroadcast(t) ==
  /\ WithCond
  /\ Running(t) /\ pc[t] = "user" /\ budget[t] > 0
  /\ holder[CondLock] = t /\ cwaiters # <<>>
  /\ SignalFront(t)
  /\ pc' = [pc EXCEPT ![t] = "bcast"]
  /\ budget' = [budget EXCEPT ![t] = @ - 1]
  /\ UNCHANGED <<pri, base, lockedBy, donors, holder, sval, waiters,
                 plock, panicked, inCond, wtemp, wdepth>>

\* The loop of cond_broadcast (synch.c:452-453), resumed when the thread
\* runs again after a sema_up that yielded: signal while the list is not
\* empty, then return.
BroadcastNext(t) ==
  /\ Running(t) /\ pc[t] = "bcast"
  /\ IF cwaiters = <<>>
       THEN /\ pc' = [pc EXCEPT ![t] = "user"]
            /\ UNCHANGED <<cur, ready, status, cwaiters, cval>>
       ELSE SignalFront(t) /\ UNCHANGED pc
  /\ UNCHANGED <<pri, base, lockedBy, donors, holder, sval, waiters,
                 plock, budget, panicked, inCond, wtemp, wdepth>>

-----------------------------------------------------------------------------

\* The threads were created in priority order by thread_create, which
\* inserts each in order into the ready list; the first one runs.
Init ==
  LET order == SortByPri(InitPri, SetToSeq(Threads))
  IN  /\ cur = Head(order)
      /\ ready = Tail(order)
      /\ status = [t \in Threads |-> IF t = Head(order) THEN "RUNNING" ELSE "READY"]
      /\ pri = InitPri
      /\ base = InitPri
      /\ lockedBy = [t \in Threads |-> NoLock]
      /\ donors = [t \in Threads |-> <<>>]
      /\ holder = [l \in Locks |-> NoThread]
      /\ sval = [l \in Locks |-> 1]
      /\ waiters = [l \in Locks |-> <<>>]
      /\ pc = [t \in Threads |-> "user"]
      /\ plock = [t \in Threads |-> NoLock]
      /\ budget = [t \in Threads |-> Budget]
      /\ panicked = FALSE
      /\ cwaiters = <<>>
      /\ cval = [t \in Threads |-> 0]
      /\ inCond = [t \in Threads |-> FALSE]
      /\ wtemp = [t \in Threads |-> NoThread]
      /\ wdepth = [t \in Threads |-> 0]

Step(t) ==
  \/ \E l \in Locks : LockAcquire(t, l) \/ LockRelease(t, l) \/ LockTryAcquire(t, l)
  \/ SemaDown(t) \/ LockSetHolder(t) \/ LockReleaseUp(t) \/ LockReleaseDonors(t)
  \/ TryClearLockedBy(t) \/ TryRegister(t) \/ TryWalk(t)
  \/ \E p \in Priorities : ThreadSetPriority(t, p)
  \/ ThreadExit(t)
  \/ CondWait(t) \/ CondSemaDown(t) \/ CondSignal(t) \/ CondBroadcast(t)
  \/ BroadcastNext(t)

\* Every thread has exited: the kernel idles.  After a kernel panic the
\* machine stops as well (Next below).
Finished == \A t \in Threads : status[t] = "DYING"

\* Every thread has exited or is blocked in cond_wait with no thread left
\* to signal it: the kernel idles as well.
CondStranded ==
  \A t \in Threads : status[t] = "DYING" \/ (status[t] = "BLOCKED" /\ pc[t] = "cv_wait")

Next ==
  \/ \E t \in Threads : Step(t) \/ Preempt(t)
  \/ (CondStranded \/ panicked) /\ UNCHANGED vars

\* A thread that is scheduled again and again executes its next step: a
\* time slice always runs some instructions of the thread.
Fairness == \A t \in Threads : SF_vars(Step(t))

Spec == Init /\ [][Next]_vars /\ Fairness

-----------------------------------------------------------------------------
(* Properties.                                                              *)

Count(s, x) == Len(SelectSeq(s, LAMBDA y : y = x))

TypeOK ==
  /\ cur \in Threads \cup {Idle}
  /\ ready \in Seq(Threads)
  /\ status \in [Threads -> {"RUNNING", "READY", "BLOCKED", "DYING"}]
  /\ pri \in [Threads -> Priorities] /\ base \in [Threads -> Priorities]
  /\ lockedBy \in [Threads -> Locks \cup {NoLock}]
  /\ donors \in [Threads -> Seq(Threads)]
  /\ holder \in [Locks -> Threads \cup {NoThread}]
  /\ sval \in [Locks -> Nat]
  /\ waiters \in [Locks -> Seq(Threads)]
  /\ pc \in [Threads -> PCs] /\ plock \in [Threads -> Locks \cup {NoLock}]
  /\ budget \in [Threads -> 0..Budget] /\ panicked \in BOOLEAN
  /\ cwaiters \in Seq(Threads) /\ cval \in [Threads -> Nat]
  /\ inCond \in [Threads -> BOOLEAN]
  /\ wtemp \in [Threads -> Threads \cup {NoThread}]
  /\ wdepth \in [Threads -> 0..MAX_DEPTH]

\* The threads that own lock l: its holder, and a thread whose sema_down
\* has returned but which has not yet set lock->holder.
Owners(l) ==
  {t \in Threads : pc[t] \in {"acq_set", "try_set", "rel_up"} /\ plock[t] = l}
    \cup (IF holder[l] # NoThread THEN {holder[l]} ELSE {})

\* Mutual exclusion of lock_acquire / lock_release: at most one thread owns
\* a lock, and the lock's semaphore counts 1 exactly when nobody does, over
\* every interleaving of sema_down's re-check loop, sema_up's hand-off and
\* lock_try_acquire.
LockMutex ==
  \A l \in Locks : Cardinality(Owners(l)) <= 1 /\ sval[l] + Cardinality(Owners(l)) = 1

\* Every thread is in exactly the queue its status says (thread.h: the elem
\* link is in the ready list or one semaphore's waiters, never both): the
\* running thread is cur, a READY thread is once in ready_list, a BLOCKED one
\* is once in the waiters of the lock it waits for, in no other queue.
QueuesConsistent ==
  \A t \in Threads :
    /\ (status[t] = "RUNNING") <=> (cur = t)
    /\ Count(ready, t) = IF status[t] = "READY" THEN 1 ELSE 0
    /\ \A l \in Locks :
         Count(waiters[l], t) =
           IF status[t] = "BLOCKED" /\ pc[t] = "acq_wait" /\ plock[t] = l THEN 1 ELSE 0
    /\ status[t] = "BLOCKED" => pc[t] \in {"acq_wait", "cv_wait"}

\* A thread's donor_elem is linked in at most one donators list, at most
\* once: lock_acquire pushes it onto the holder's list (synch.c:214), and
\* only the clean-up of lock_release unlinks it (synch.c:309).
DonorElemUnique ==
  \A d \in Threads : FoldSeq(LAMBDA h, n : n + Count(donors[h], d), 0,
                              SetToSeq(Threads)) <= 1

\* Priority donation ceiling for registered donors: a thread waiting for a
\* lock, whose locked_by still names that lock, never has a higher
\* priority than the lock's holder (the donation of synch.c:217-227 and
\* the recomputation of synch.c:298-328 keep the holder at least as high).
RegisteredDonationCeiling ==
  \A l \in Locks, w \in Threads :
    (w \in ToSet(waiters[l]) /\ lockedBy[w] = l /\ holder[l] # NoThread)
      => pri[holder[l]] >= pri[w]

\* The spec's P2: every thread blocked on a lock has a priority no higher
\* than the holder's effective priority.
DonationCeiling ==
  \A l \in Locks, w \in Threads :
    (w \in ToSet(waiters[l]) /\ holder[l] # NoThread) => pri[holder[l]] >= pri[w]

\* The spec's P1: next_thread_to_run() (the front of ready_list) is a READY
\* thread of the highest priority.
ReadyFrontIsHighest ==
  ready # <<>> => \A t \in ToSet(ready) : pri[Head(ready)] >= pri[t]

\* No kernel ASSERT of the donation code fails (synch.c:220, 257, 267).
NoKernelPanic == ~panicked

\* The donators of t that stay after releasing its current lock.
RemainingDonors(t) == SelectSeq(donors[t], LAMBDA d : lockedBy[d] # plock[t])

\* Section 4.2 of the spec: after the donor clean-up of lock_release the
\* releaser's priority is its base priority if no donator remains, and
\* otherwise max(base, best remaining donator).
ReleaseRestoresPriority ==
  [][\A t \in Threads :
       (pc[t] = "rel_donors" /\ pc'[t] = "user") =>
         pri'[t] = IF RemainingDonors(t) = <<>> THEN base[t]
                   ELSE LET m == PriMax(ToSet(RemainingDonors(t)), pri)
                        IN  IF base[t] > m THEN base[t] ELSE m]_vars

\* A thread blocked in lock_acquire eventually holds the lock.
WaiterAcquires ==
  \A t \in Threads, l \in Locks :
    (pc[t] = "acq_wait" /\ plock[t] = l) ~> (holder[l] = t)

\* Every client program runs to its thread_exit.
AllExit == <>Finished

\* A thread between the start of cond_wait and its sema_down returning.
CondWaiting(t) == inCond[t] /\ pc[t] \in {"rel_donors", "cv_down", "cv_wait"}

\* The hand-off of cond_wait and cond_signal loses and doubles no wakeup:
\* a thread waiting on the condition is either still linked in
\* cond->waiters, once and with its semaphore at 0, or has been popped by
\* cond_signal / cond_broadcast and its semaphore is 1, never both and
\* never neither, whatever yields the lock's and the waiter's sema_up make.
CondWaitersAccounted ==
  /\ \A t \in ToSet(cwaiters) : CondWaiting(t) /\ Count(cwaiters, t) = 1
  /\ \A t \in Threads :
       CondWaiting(t) => IF t \in ToSet(cwaiters) THEN cval[t] = 0 ELSE cval[t] = 1

=============================================================================
