# TLA+ models of the Pintos kernel projects

This directory holds TLA+ models of the kernel in `src/`, checked with TLC. The
repository has four Pintos projects. Each one extends the one before:

| Project | Directory | What it adds |
|---|---|---|
| 1 | `src/Project 1 - Threads` | priority scheduler, priority donation, MLFQ (`thread.c`, `synch.c`) |
| 2 | `src/Project 2 - User programs` | system calls, process exit/wait (`syscall.c`) |
| 3 | `src/Project 3 - Virtual memory` | supplemental page table, frame table, swap, mmap (`vm/`) |
| 4 | `src/Project 4 - File system` | buffer cache, indexed inodes, directories (`filesys/`) |

## The system and how its parts interact

* **Scheduler** (`thread.c`). One CPU. `ready_list` is kept ordered by
  `comparePriorities` (higher priority first, FIFO among equals), and
  `next_thread_to_run` pops its front. `thread_yield`, `thread_block` and
  `thread_exit` call `schedule`. `thread_set_priority` yields when the front of
  the ready list is now higher. `thread_tick` forces a yield through
  `intr_yield_on_return` after `TIME_SLICE` ticks. That yield happens the next
  time interrupts are on.
* **Synchronization** (`synch.c`). `sema_down` loops while the value is 0: it
  inserts the thread into `waiters` in order and blocks. `sema_up` re-sorts the
  waiters, unblocks the front one, increments the value, and yields if the
  woken thread is higher.
  * `lock_acquire` donates first. It sets `locked_by`, links `donor_elem` into
    the holder's `donators`, and walks "holder of the lock I am blocked on" up
    to `MAX_DEPTH`, raising lower holders. Then it runs `sema_down` and sets
    `holder`.
  * `lock_release` clears `holder`, runs `sema_up`, drops the donators waiting
    for the lock (clearing their `locked_by`), and recomputes the priority.
  * `lock_try_acquire` uses `sema_try_down`. On failure it still registers a
    donation.
  * Condition variables build on locks and semaphores.
* **User processes** (projects 2–4). `syscall_handler` decodes each call
  from the user stack. In project 3 a process's files are the `open_files`
  array, indexed by fd, and `mmap` installs MMAP pages over a reopened file.
  `exit_process` writes the exit status into the child record that the parent
  allocated, and ups the record's `wait_lock` if the parent is already
  waiting. `process_wait` and `unmap` live in `process.c`, which is not in
  the repository.
* **Virtual memory** (project 3). Pages are described in a per-process
  supplemental page table. Frames come from `allocate_frame`, which evicts a
  victim to swap when `palloc` fails. `mmap` installs file-backed pages.
* **File system** (project 4). `inode_read_at` and `inode_write_at` go through
  a 64-entry buffer cache, with `cache_get_sector` first and
  `cache_fetch_sector` on a miss. The inode maps offsets to sectors through
  direct, indirect and doubly indirect blocks, and `inode_expand` grows a file.
  Directories are inodes holding entries, and `dir_from_path` resolves paths.

The synchronization layer is what every other part relies on. The kernel's
concurrency comes from timer preemption of kernel threads and from blocking on
locks and semaphores. That is why it is modelled first.

## Modules

### `PrioritySync.tla`: scheduler, semaphores, locks with donation

This module models the priority scheduler and the lock of project 1 as used by
a set of client threads. Between kernel calls, each thread chooses to call
`lock_acquire`, `lock_release`, `lock_try_acquire`, `thread_set_priority`,
`cond_wait`, `cond_signal`, `cond_broadcast` or `thread_exit`.

State (each variable is the code's field of the same role):

| Variable | Code |
|---|---|
| `cur` | `running_thread()` (or the idle thread) |
| `ready` | `ready_list`, a sequence |
| `status` | `thread->status` |
| `pri`, `base` | `thread->priority`, `thread->base_priority` |
| `lockedBy`, `donors` | `thread->locked_by`, `thread->donators` (a sequence) |
| `holder`, `sval`, `waiters` | `lock->holder`, `lock->semaphore.value`, `lock->semaphore.waiters` |
| `pc`, `plock` | where each thread is inside a kernel call, and on which lock |
| `budget` | how many more calls the thread's program may start (a bound) |
| `panicked` | a kernel `ASSERT` has failed |
| `cwaiters` | `cond->waiters`: the `semaphore_elem` of each waiter, named by its thread |
| `cval` | the value of each thread's `waiter.semaphore` in `cond_wait` |
| `inCond` | the thread is inside `cond_wait`, where interrupts are off |

A kernel call is split into actions at the points where another thread can
run:

* where it blocks (`sema_down`);
* where it yields (`sema_up`, `thread_set_priority`, the donor clean-up);
* where interrupts are enabled, so that the timer may preempt.

Actions and the code they model:

| Action | Code it models |
|---|---|
| `LockAcquire` | `lock_acquire` up to `sema_down`, including the donation walk `DonateChain` |
| `SemaDown` | one pass of the `sema_down` loop |
| `LockSetHolder` | `lock->holder = current` |
| `LockRelease` | `lock->holder = NULL` (synch.c:291), interrupts on |
| `LockReleaseUp` | the `sema_up` of `lock_release` (`SemaUp`, synch.c:292) |
| `LockReleaseDonors` | the donor clean-up (`KeptDonors`, `Leaving`, `RestorePriority`) |
| `LockTryAcquire` | `lock_try_acquire` up to `sema_try_down` (synch.c:250) |
| `TryClearLockedBy` | on success, `locked_by = NULL`; `LockSetHolder` then sets the holder (synch.c:252-253) |
| `TryRegister` | on failure, `ASSERT (lock->holder != NULL)`, `locked_by = lock` and the push onto the holder's donators (synch.c:256-260) |
| `TryWalk` | one iteration of the donation walk of `lock_try_acquire` (synch.c:265-273), with its `ASSERT`; `WalkDone` is the loop's exit |
| `ThreadSetPriority` | `thread_set_priority` |
| `ThreadExit` | `thread_exit` |
| `Preempt` | the yield forced by `thread_tick` |
| `CondWait` | `cond_wait` up to `lock_release` (synch.c:385-410): the insertion loop (`Visited`, `FrontEmpty`), then `Release`. The lock's donor clean-up follows as `LockReleaseDonors` |
| `CondSemaDown` | one pass of `sema_down (&waiter.semaphore)`; once it succeeds, the donation block of `lock_acquire (lock)` (`Donate`). `SemaDown` and `LockSetHolder` then finish the re-acquire |
| `CondSignal` | `cond_signal`: pop the front elem and `sema_up` its semaphore (`SignalFront`, `CondSemaUp`) |
| `CondBroadcast`, `BroadcastNext` | the first and the later passes of the `cond_broadcast` loop. Each `sema_up` may yield, and the loop resumes when the thread runs again |

Helpers:

* `InsertOrdered` and `SortByPri` are `list_insert_ordered` and `list_sort` with
  `comparePriorities`. The sort is stable, like the code's merge sort.
* `SwitchTo` and `Yield` are `schedule`/`next_thread_to_run` and
  `thread_yield`.

The constants select what the client programs may do:

* `Preemptive` enables `Preempt`.
* `WithTryAcquire` enables `LockTryAcquire`.

`lock_release` runs with interrupts on until its donor clean-up, and
`lock_try_acquire` runs with interrupts on except inside `sema_try_down`.
So `Preempt` may fire at pc `"rel_up"` (holder cleared, `sema_up` not yet
run), `"try_set"` and `"acq_set"` (semaphore taken, holder not yet set),
`"try_fail"` (after a failed `sema_try_down`) and `"try_walk"` (between two
iterations of the walk), as well as at `"user"`, `"acq_down"` and
`"rel_donors"`. Two groups of statements stay one step: the `ASSERT` and the
push of `TryRegister`, which both read `lock->holder`, and the statements of
one walk iteration. Inside `cond_wait`, with interrupts off, `Release` does
the holder clearing and the `sema_up` in one step.
* `WithCond` enables the condition variable, which is used with the lock
  `CondLock` (lock 2). A client calls `cond_wait` holding that lock and no
  other, as a monitor is used.

`cond_wait` disables interrupts on its first line and restores them on its
last. While `inCond` holds, the thread's lock steps (`LockReleaseDonors`,
`SemaDown`, `LockSetHolder`) are therefore never preempted, though a `sema_up`
or the donor clean-up can still yield. A waiter whose sema_down blocks stays
in `cv_wait` until it is signalled. When every thread has exited or waits
there, the kernel idles (`CondStranded`).

Clients take locks in increasing order, which keeps lock-order deadlock out of
the model. `Init` is the state after `thread_create` has created all threads:
they sit in priority order, and the highest one runs.

`PROJECT.json` `"map"` gives the source lines of every definition.

## Runs

`MCPrioritySync.tla` instantiates the module with three threads of priorities
0, 1 and 2, and two locks. Every run uses `MAX_DEPTH = 8`, as in the code.

| Run | cfg | Expect | What it shows |
|---|---|---|---|
| `sync_cooperative` | `MCPrioritySync.cfg` | pass | No preemption. The lock stays exclusive, no `donor_elem` is linked twice, a registered donor never outranks its holder, no ASSERT fails, and all threads get their locks and exit (`AllExit`, which needs every woken waiter to acquire). |
| `sync_preemptive` | `MCPrioritySyncPreempt.cfg` | pass | Timer preemption at every interrupt-enabled point of the lock calls listed above, plus `lock_try_acquire` and the condition variable. Mutual exclusion and queue consistency still hold; the `while` re-check in `sema_down` is what keeps them. A thread in `cond_wait` is either still in `cond->waiters` with its semaphore at 0, or has been signalled once and its semaphore is 1 (`CondWaitersAccounted`), through the yields of `lock_release`, `cond_signal` and the `cond_broadcast` loop. `LockMutex` counts as owner of a lock also a thread in the window between taking the semaphore and setting the holder, and a releasing thread between clearing the holder and `sema_up`. 419,974 states. |
| `cond_front_panic` | `MCPrioritySyncCondPanic.cfg` | violation | No preemption, and each program may start 3 calls. `t3` lowers its priority while holding lock 2, and `t2` blocks on the lock and donates to it. `t3` calls `cond_wait`, and the donor clean-up of its `lock_release` yields to `t2` before `t3` has blocked on its waiter semaphore. `t2` takes the lock and calls `cond_wait`. Its insertion loop calls `list_front` on `t3`'s empty semaphore list, and the `ASSERT` there fails (synch.c:399). |

The `"findings"` of `PROJECT.json` explain each violation at its source line.
Briefly:

* `cond_wait` reads the front thread of each queued waiter's semaphore. A
  waiter is queued before it has blocked on that semaphore, and its
  `lock_release` can yield in between.
* Configurations outside the run list (see "Further counterexamples") show
  six more:
  * a `lock_try_acquire` preempted after its `sema_try_down` and before it
    sets the holder lets a second `lock_try_acquire` of the lock fail the
    `ASSERT (lock->holder != NULL)` of synch.c:256;
  * preemption between `sema_up` and the donor clean-up leaves `locked_by`
    stale, and a later donation walk fails the `ASSERT` of synch.c:220;
  * `lock_release` clears `locked_by` for all waiters of the lock, not only
    the one that gets it, so the spec's P2 fails;
  * donation does not re-sort the ready list, so P1 fails;
  * a failed `lock_try_acquire` registers a donation anyway;
  * `thread_set_priority(base)` keeps a donated priority.

The donation properties are checked in the cooperative run only. Under
preemption the code breaks them, as `MCPrioritySyncPanic.cfg` shows.

`TypeOK` is the type invariant. Every property has a mutant in `PROJECT.json`:
a plausible bug in a mapped definition that TLC catches. Each mutant operator
sits in the module just before the definition it replaces:

| Mutant | Bug it introduces |
|---|---|
| `SemaDownIf` | `if` in place of `while` in `sema_down` |
| `SemaUpNoInc` | `sema_up` does not increment the value |
| `SemaUpNoPop` | `sema_up` leaves the woken waiter in `waiters` |
| `SemaUpNoWake` | `sema_up` pops a waiter but never unblocks it |
| `DonateChainFlat` | donation goes only to the direct holder |
| `KeptDonorsAll` | released donors are not removed from the list |
| `LeavingNone` | `locked_by` of released donors is not cleared |
| `RestorePriorityNoGuard` | the `m > -1` and `base > m` tests are dropped |
| `SignalFrontNoUp` | `cond_signal` unlinks the front elem but never ups its semaphore |

### Bounds and why they are enough

* **Three threads and two locks.** This is the smallest setting with a nested
  donation chain: a thread holds lock 1 and waits for lock 2, whose holder a
  third thread waits behind. It also allows two waiters on one lock, which is
  the case where `lock_release` chooses one of them.
* **Priorities 0..2.** These give distinct priorities with both strict and
  equal comparisons, through `thread_set_priority`.
* **`Budget`.** Each program may start 2 kernel calls (3 in
  `MCPrioritySyncRestore.cfg` and `MCPrioritySyncCondPanic.cfg`). That allows a lock to be acquired, released and taken
  again, which is what the stale-state violations need. With the condition
  variable, two calls let a thread take the lock and wait, and let another
  thread take it and signal or broadcast to two waiters. The `cond_wait`
  panic needs a third call, to lower a priority so that a donation happens.
* **`MAX_DEPTH`.** A donation walk over three threads is at most 2 steps long,
  so the depth limit of 8 is never reached. A walk over stale `locked_by`
  links can form a cycle, but it stops as soon as priorities are equal. For
  the same reason the depth `ASSERT` of `lock_try_acquire` (synch.c:267) cannot
  fire in these bounds.

### Fairness

`Fairness` is strong fairness on the steps of each thread. A thread that the
scheduler runs again and again executes its next instruction, because a time
slice always runs some of it. Strong fairness is needed because a thread's step
is enabled only while it is the running thread, so it is enabled
intermittently. The scheduler itself is not given fairness: which thread runs
is decided by the code's priority order, and that order is what the liveness
properties check.

### `BufferCache.tla` and `SectorStore.tla`: the buffer cache of project 4

`SectorStore` is the abstract specification of the cache. It is a store of
sectors in which each read or write takes effect at one instant. A read copies
the sector's last written contents into the caller's buffer.

`BufferCache` models `filesys/cache.c` as its callers use it. Each call is one
sector-sized chunk of `inode_read_at`/`inode_write_at`, made from a system
call:

* `READ` and `WRITE` hold `filesys_lock`.
* `READDIR` (`syscall.c:259`) does not. The constant `Unlocked` names the
  threads that make READDIR calls.

State:

| Variable | Code |
|---|---|
| `cache` | `buffer_cache`: a sequence of entries with the fields of `struct cache_entry`; a payload is a model value |
| `disk` | the on-disk sectors |
| `ticks` | `timer_ticks()` |
| `cacheLock`, `fsLock` | the two lock holders |
| `buf` | each caller's buffer |

Each call goes through these steps:

| Action | Code |
|---|---|
| `Begin` | the system call, taking `filesys_lock` |
| `Get` | `cache_get_sector`, which takes no lock |
| `Fetch` | `cache_fetch_sector` up to the disk I/O: lock, new entry or `victim_sector`, write-back |
| `Relabel` | the entry's fields are set |
| `ReadDone` | `disk_read` completes and the lock is released |
| `Copy` | the `memcpy` and the end of the call |

Two more actions are not tied to a call: `FreeCache` (`filesys_done`) and
`Tick`.

A freshly malloc'ed entry is linked into the list before its fields are set.
Its `sector_num` is whatever the memory held, and `FreshSectors` says which
values that may be.

The refinement mapping gives a sector's contents:

* the payload of the first cache entry for it that no fetch is refilling;
* otherwise, the disk's contents.

`CacheImplementsStore` checks `SectorStore!Spec` under this mapping. It says:

* every WRITE changes its sector at its `memcpy`;
* every READ returns the current contents;
* eviction, write-back and `free_cache` change nothing a reader can see.

`MCBufferCache` uses two threads, three sectors, two written values, a
2-entry cache (64 in the code) and two calls per thread. The cache is smaller
than the set of sectors, so eviction and write-back of dirty entries happen.
Timer ticks 0..1 give both equal and different access times, so both branches
of `victim_sector` are taken.

| Run | cfg | Expect | What it shows |
|---|---|---|---|
| `cache_serialized` | `MCBufferCache.cfg` | pass | Every call under `filesys_lock`. The cache implements the store, never holds a sector twice, and every call finishes. |

`MCBufferCacheRace.cfg` and `MCBufferCacheDup.cfg` (see "Further
counterexamples") let READDIR run without `filesys_lock`, as the code does,
and find the two races of the cache. Both use `FreshSectors = {NoSector}`, so neither counterexample depends on
uninitialized memory matching a sector.

Fairness is weak fairness on each thread's steps. A thread that can go on
(not waiting for a lock) is eventually scheduled, and every lock holder
releases within its own call. Shutdown (`FreeCache`) is also weakly fair,
because the kernel runs `filesys_done` once the calls are over.

The mutants of `cache_serialized` each introduce one bug:

| Mutant | Bug it introduces |
|---|---|
| `HasRoomOffByOne` | `<=` in place of `<` for the size test |
| `FindSectorSkipLast` | the scan stops one entry early |
| `WriteBackNever` | dirty entries are not written back |
| `ReadDoneKeepLock` | the lock is not released |

### `Mlfq.tla`: the MLFQ scheduler of project 1

`Mlfq` models the `thread_mlfqs` mode of `thread.c` for CPU-bound threads that
are all created at boot. All of them start with `nice` 0 and `recent_cpu` 0, so
all start at `PRI_MAX`. The macros of `thread.h:27-38` are operators on integers
in 17.14 fixed point:

* `CDiv` is C's division, which truncates toward zero where `\div` floors.
* `MULTXY` splits its second argument so that no intermediate value needs the
  64 bits the C code uses.

State: `ticks`, `slice` (`thread_ticks`), `cur`, `ready` (`ready_list`), `pri`,
`nice`, `recent` (`recent_cpu`), `loadAvg` and `niced`. `niced` is the set of
threads that have already called `thread_set_nice` once.

| Action | Code |
|---|---|
| `Tick` | `thread_tick`, including the yield on return from the interrupt |
| `SetNice(n)` | `thread_set_nice` |

`Tick` does everything `thread_tick` does, in the code's order:

1. The running thread's `recent_cpu` grows by 1.
2. At a second boundary, `load_avg` is updated.
3. On ticks that are a multiple of 4, every priority is recomputed. At a second
   boundary this happens before `recent_cpu` decays, because the loop handles
   the priority first.
4. At a second boundary, every `recent_cpu` decays.
5. The slice ends with an ordered insert into `ready_list` and a pop of its
   front.

`MCMlfq` uses three threads and the real `TIMER_FREQ` of 100 and `TIME_SLICE`
of 4. It runs for 150 ticks, so there is one `load_avg` update and one decay,
and priorities are recomputed on both sides of the decay. Each thread may set
its nice once, to -20 or 20, at any of the ticks it runs.

`MCMlfq.cfg` checks only `TypeOK`: through the clamps of `thread.c:176-179`
the priorities stay in 0..63, and each thread is running or queued exactly
once. It passes (a mutant `PriorityOfNoClamp` that drops the clamp breaks
it), but it says little beyond the clamp, so it is kept beside the project
runs rather than among them. The question the module really asks is
`MCMlfqHighest.cfg` (see "Further counterexamples").

Not modelled:

* blocking threads and the idle thread's effect on `load_avg`;
* threads created later, which inherit `recent_cpu` through
  `thread_get_recent_cpu`;
* the overflow of `100*recent_cpu` in `thread_get_recent_cpu`, which needs far
  more ticks than TLC can enumerate.

### `Vm.tla` and `VirtualMemory.tla`: paging in project 3

`VirtualMemory` is what paging promises a user process: each process sees its
own pages as plain memory. A read returns the last value written, or the
page's initial contents: the executable's data for a file page, zeros for a
stack page. At exit, the address space disappears.

`Vm` is the implementation in `vm/page.c`, `vm/frame.c` and `vm/swap.c`. Each
process is one user thread that reads and writes its pages. An access without
a present PTE faults, and the fault handler runs `load_page` in that thread.
Threads of different processes interleave at every step, because the timer
may preempt the kernel anywhere outside `frame_table_lock`.

State:

| Variable | Code |
|---|---|
| `spt[p][g]` | the SPTE: in the hash (`ins`), `type`, `loaded`, `file != NULL`, `map_id != -1` (`mapped`), `index` |
| `pte[p][g]` | the hardware PTE: present, frame, accessed and dirty bits |
| `frameTable` | `frame_table`, in list order: frame, owner, and the SPTE it holds |
| `freeFrames` | the user pool of `palloc` |
| `frameData`, `swapData` | the contents of frames and swap sectors |
| `swapBits` | `swap_table` |
| `frameLock` | the holder of `frame_table_lock` |
| `pc`, `fpage`, `fkind`, `fframe`, `slot` | where each fault handler is, with its locals |

| Action | Code |
|---|---|
| `ReadPage`, `WritePage` | a user load or store through a present PTE; the MMU sets the A and D bits |
| `Fault(p, g)` | `get_page`, `allocate_page_stack` for a new stack page, and the dispatch of `load_page` |
| `Alloc(p)` | `allocate_frame` up to `victim_frame`: `palloc` and `insert_frame`, or the lock and the choice of a victim |
| `SwapOut(p)` | `swap_out` of the victim, with the `PANIC` when the bitmap has no free run |
| `Retarget(p)` | `frame.c:42-54`: the victim's SPTE becomes SWAPPED, its owner's PTE is cleared, the entry is retargeted, and the lock is released |
| `Fill(p)` | `file_read_at` (`FileFill`), `hash_insert` of a stack SPTE, or `swap_in` |
| `Map(p)` | `pagedir_set_page`, `loaded = true`, and the reclassification of `load_page_swap` |
| `Exit(p)` | `destroy_spt`: `free_frame` of every loaded page's frame |

`allocate_page_stack` does not set `file` or `map_id`. Reading them is
undefined, so `Fault` chooses both fields nondeterministically. The loader's
FILE pages (`process.c`, outside `src/`) are the initial state.
`load_page_file` reads only `read_bytes` into a frame that `allocate_frame`
zeroes only when `zero_bytes == PGSIZE`, and the `memset` of the tail is
commented out (`page.c:135`). `FileFill` models this: a page of
`PartialPages` (0 < `read_bytes` < `PGSIZE`) gets a correct zero tail only
when its frame was zeroed before; otherwise the tail may hold the frame's
old bytes (`StaleTail`). A fresh frame's contents are undefined, so they may
be anything. When `palloc` succeeds, `Alloc` takes the frame and links it
into the frame table in one step, which waits for `frame_table_lock` as
`insert_frame` does (`frame.c:60-68`). In the code `palloc_get_page` runs
before that lock is taken; the model's order only delays taking a free frame
while another process evicts, which it does only when the pool was empty.

`MCVm.tla` gives the constants. `SECTORS_PER_PAGE` is 2, not 8. A slot is still
a run of sectors, but there are fewer sectors to enumerate.

| Run | cfg | Expect | What it shows |
|---|---|---|---|
| `vm_single_process` | `MCVm.cfg` | pass | One process with two whole file pages (`PartialPages = {}`) and two stack pages on two frames and two swap slots. The SPT, the frame table and the PTEs agree while the process's faults evict its own other pages (`FrameSpteBiconditional`). `Vm` refines `VirtualMemory` through every eviction, swap-out and swap-in. With one process only: two processes break both properties (`MCVmSteal.cfg`, `MCVmLostWrite.cfg`), and a partial file page breaks the refinement (`MCVmPartial.cfg`). The process finishes unless swap fills up and the kernel panics (`AllDone`). |

The refinement mapping maps a page to its frame's contents when its PTE is
present, to its swap slot when the SPTE is SWAPPED, and otherwise to its
initial contents. A fault changes none of these, so the fault steps are
stuttering steps of `VirtualMemory`.

Bounds:

* Four pages on two frames force evictions of every kind of page.
* Two slots let swap fill up, which reaches the panic.
* Five accesses are enough to evict a written page and read it back after a
  swap-in.

The two-process runs use one file page and one stack page each.

Fairness is weak fairness on each process's steps. A user thread that can
run is eventually scheduled by timer preemption, and a fault handler never
waits except on `frame_table_lock`, which is released in the same call.

Mutants of `vm_single_process`:

| Mutant | Bug it introduces | Property broken |
|---|---|---|
| `SwapOutNoCheck` | the `BITMAP_ERROR` test is dropped | `TypeOK` |
| `SwapOutNoFlip` | `bitmap_scan` in place of `bitmap_scan_and_flip` | `MemoryImplementsVirtualMemory` |
| `RetargetNoClear` | the owner's `pagedir_clear_page` is dropped | `FrameSpteBiconditional` |
| `RetargetKeepLock` | `frame_table_lock` is not released | `AllDone` |

Not modelled:

* memory-mapped files (`allocate_page_mmap`, `load_page_mmap`, `munmap`);
* the failure branches of `load_page`, because no modelled state reaches them;
* stack growth checks in the fault handler (`exception.c`, outside `src/`).

### `Inode.tla` and `FileStore.tla`: indexed inodes of project 4

`Inode` models `filesys/inode.c` with the calls that use it:

* `filesys_create`, `filesys_open`, `close`, and `filesys_remove` with
  `dir_remove`;
* `inode_read_at` and `inode_write_at`, including `inode_expand` for a write
  past the end.

Every system call holds `filesys_lock`, so calls never interleave. A create
or a write that grows a file takes one step per iteration of
`inode_expand`'s loops, then a finishing step, and the other calls wait
meanwhile. The directory is a single map from names to inode sectors.

| Variable | Code |
|---|---|
| `used` | the free map (`free_map_allocate`, `free_map_release`) |
| `inodeDisk[s]` | the `struct inode_disk` in sector `s` |
| `ptrDisk[s]` | sector `s` read as an index block |
| `dataDisk[s]` | sector `s` read as bytes |
| `cache[s]` | the payload of the buffer-cache entry of `s` |
| `oi[s]` | the open `struct inode` of sector `s`: counters, `blocks[]`, `open_cnt`, `removed` |
| `dirent[n]` | the root directory's entry `n` |
| `fd[n]` | a handle opened through `n` |
| `ex` | the create or write inside `inode_expand`, with `block`, `block_ptrs` and `index` |

| Action | Code |
|---|---|
| `Create`, `CreateDone` | `filesys_create`: inode sector, `inode_create`'s expand, inode write, `dir_add`, release on failure |
| `DirectStep` | `inode.c:513-523` |
| `IndirectStart`, `IndirectStep` | `inode.c:525-545` |
| `DoubleStart`, `DoubleStep`, `LeafStep` | `inode.c:547-586` |
| `WriteAt`, `WriteDone`, `WriteBytes` | `inode_write_at` |
| `ReadAt` | `inode_read_at` |
| `Open`, `Close`, `Remove` | `filesys_open`, `file_close`/`inode_close`, `dir_remove`/`inode_remove` |

`byte_to_sector` is `ByteToSector`. `inode_free_resources` is `DataBlocks`:
it frees the data sectors only. A pointer that was never written (`Junk`) is
left out of the set: in the code `free_map_release` of such a garbage
sector number would free an unrelated sector or fail the bitmap's range
`ASSERT`, which the model does not follow.

Abstractions:

* `inode_expand` zeroes new data sectors and writes index blocks with
  `disk_write`, past the cache. Each sector has two views, bytes and
  pointers, so that an index block read as data is `Garbage` and a zeroed
  sector read as pointers is all 0s.
* An uninitialized sector number on the stack (`block[]`, `block_ptrs[]`
  before they are filled, `blocks[]` of a fresh inode) is the model value
  `Junk`. A read or write through it may reach any sector.
* The cache has 64 entries and the model at most 14 sectors, so it never
  evicts while the model runs. `BufferCache.tla` covers eviction.

`FileStore` is the promise of the spec's file sections. A file is a
sequence of bytes named by an inode number. A new file and the gap a
write leaves read as zeros. A read returns what was written. A removed file
lives until its last close. A write on a full disk stops at the old end.
`InodeImplementsFileStore` maps each live inode to the bytes that
`inode_read_at` would return.

| Run | cfg | Expect | What it shows |
|---|---|---|---|
| `inode_ops` | `MCInode.cfg` | pass | Six calls over two names on a 14-sector disk reach all three block levels (writes at offset 8 need the doubly indirect blocks). Every sector a live file relies on (its inode, its data blocks, and the index blocks in between) is allocated, outside the reserved sectors, and claimed once (`BlockMapSound`). |
| `inode_store` | `MCInodeStore.cfg` | violation | A file is removed while open, written, and closed. A new file gets its data sector back; `inode_expand` zeroes the sector on disk, but the cache entry still holds the old byte, and the new file reads it. |

Bounds: `DIRECT_BLOCKS = 2`, `PTRS = 2` and a sector size of 2 bytes keep
all of the structure of 12 / 128 / 128x128 while letting a few one- or
two-byte writes reach the indirect and doubly indirect blocks. On the pass
run's 14 sectors most calls succeed, but the disk can fill by the sixth
call, so `BlockMapSound` is also checked after some failed allocations; the
8-sector disk of `MCInodeFull.cfg` (see "Further counterexamples") reaches
the early returns within fewer calls. `MaxOps` bounds the calls; there is no liveness property
here, since every call finishes in a bounded number of steps.

Mutants of `inode_ops`:

| Mutant | Bug it introduces | Property broken |
|---|---|---|
| `DirectStepOverrun` | the direct loop runs to `direct <= 12` | `TypeOK` |
| `RemoveFreeWhileOpen` | `dir_remove` frees the blocks though the file is open | `BlockMapSound` |

Not modelled here: `inode_deny_write`, and directory inodes (`isFile`,
`parent_sector`), which `Namespace.tla` models. Leaks are real
(`inode_free_resources` never frees index blocks; `filesys_create` releases
only the inode's sector when `dir_add` fails) but no property here forbids
them; `MCNamespaceLeak.cfg` shows the second one.

### `ProcessWait.tla`: exit and wait in project 3

The child record joins a parent and each child. `exit_process`
(`userprog/syscall.c:358-396` of project 3) is translated from the code.
`process_execute` and `process_wait` are in `process.c`, which is not in the
repository. They are modelled from the contract of spec.md 4.5.

| Variable | Code |
|---|---|
| `rec[c]` | the `struct child` of `c`: `exit_status`, `waited_by_parent`, the value of `wait_lock`; `NoRec` before spawn and after wait releases it |
| `cpc[c]` | where child `c` is: not spawned, running, between the two steps of `exit_process`, finished |
| `code[c]` | the code `c` passed to `exit` (history, for the property) |
| `ppc`, `waitingOn` | the parent: idle, blocked in wait for `waitingOn`, or exited |
| `got[c]` | what the parent's last `wait(c)` returned |

| Action | Code |
|---|---|
| `ExitRecord(c, k)` | `curr->cp->exit_status = status` (line 373) |
| `ExitWake(c)` | `if (curr->cp->waited_by_parent) sema_up (...)`, then `thread_exit` (374-395) |
| `ParentExit` | the parent's own `exit_process`: it has no parent, and the loop that would free its children's records is commented out (363-370) |
| `Spawn(c)`, `WaitRefused(c)`, `WaitStart(c)`, `WaitReturn` | spec.md 4.5: spawn enrolls the record; wait refuses a tid that is not a child or was already waited, otherwise flags the record, downs the semaphore, reads the status and releases the record |

The kernel is preemptive and `exit_process` runs with interrupts on. So the
child's two steps and the parent's flag-then-down interleave in every order.
`MCProcessWait.tla` has three interchangeable children (symmetry) and exit codes
0 and 1. Every action fires in the pass run. The model stops when every
process has finished or is blocked, so `CHECK_DEADLOCK` is off. The fairness is
weak fairness on each child's steps and on the parent's wakeup: a runnable
thread is eventually scheduled.

| Run | cfg | Expect | What it shows |
|---|---|---|---|
| `process_wait` | `MCProcessWait.cfg` | pass | No record is released while its child is still in `exit_process` (`RecordOutlivesChild`). A wait that returns a status returns the child's exit code (`WaitGetsExitCode`), whether the child's check comes before or after the parent's flag. |

`MCProcessWaitLive.cfg` (see "Further counterexamples") shows the lost
wakeup.

| Mutant | Bug it introduces | Property broken |
|---|---|---|
| `ParentExitFreeing` | the commented-out loop freeing the children's records is put back | `RecordOutlivesChild` |
| `ExitWakeEarly` | `sema_up` without the pc guard: before the status is written, or twice | `WaitGetsExitCode`, `TypeOK` |

### `FdTable.tla`: the file table and mmap of project 3

One process's `open_files` array and its MMAP entries, from
`userprog/syscall.c` of project 3. The process's calls run one at a time.
`NFD` scales the 128 slots to 4, so slots 2 and 3 are the user's. A
`struct file *` is a member of `Handles`, and `live` holds the handles not yet
closed.

| Definition | Code |
|---|---|
| `Read(fd, g)` | `thread_current()->open_files[fd]`. Past the array, the read is undefined: it yields `g`, which `Next` chooses from `NULL` and `Garbage` |
| `FreeFd` | `get_free_fd` (220-227) |
| `Open(f)` | `SYS_OPEN` (77-95). On a full table the handle stays open |
| `Inspect(fd, g)` | `SYS_FILESIZE` (97-107). `SEEK` and `TELL` have the same control and change nothing else |
| `Close(fd, g)` | `SYS_CLOSE` (201-213) |
| `Mmap(fd, g, a)`, `Reopened`, `MapLoop`, `MapPages`, `StopPoints`, `Abort` | `mmap` (229-268): fd lookup, `file_reopen`, the zero-length exit, `++map_id`, and the page loop. The loop stops at the first page that collides in `hash_insert` or whose `allocate_page_mmap` fails, and then calls `munmap` |
| `Munmap(id)`, `Unmapped`, `MapHandles` | `munmap` (271-273). It calls `unmap`, which spec.md 4.3 describes: drop the id's pages and close the handle they name |

A file-layer call on a pointer that is not a live handle sets `wild`. The
behaviour then goes on with the table as it was. Only valid, page-aligned
addresses are passed to `mmap`, because the others return -1 and change
nothing. Files of 0, 1 and 2 pages reach the zero-length exit, collisions
and the page at `PHYS_BASE`.

| Run | cfg | Expect | What it shows |
|---|---|---|---|
| `fd_table` | `MCFdTable.cfg` | pass | With fds 0, 2, 3 and 4 (past the array), three map ids and four handles: no fd or page names a closed handle (`NoDanglingHandle`); no handle has two owners (`OneOwner`); every mapping covers exactly its file's pages (`MappingWhole`). |

| Mutant | Bug it introduces | Property broken |
|---|---|---|
| `FreeFdFromZero` | `get_free_fd` starts at 0 | `TypeOK` (stdin/stdout slots stay NULL) |
| `CloseKeepSlot` | `SYS_CLOSE` closes the file but leaves the slot | `NoDanglingHandle` |
| `ReopenedSame` | `mmap` maps the fd's own handle | `OneOwner` |
| `AbortKeep` | the failure exit of the loop returns without `munmap` | `MappingWhole` |

`MCFdTableWild.cfg` (see "Further counterexamples") shows the unchecked
index.

### `FdList.tla` and `FdMap.tla`: the file table of project 2

Project 2 keeps a process's open files in a list, not an array
(`userprog/syscall.c` of project 2). Each `file_wrapper` carries an fd and a
`struct file *`. `FdMap.tla` states what the table promises (spec.md 3 and
6). A user fd indexes a per-process table, so OPEN returns an fd that names
no open file. CLOSE and WRITE act on the file the fd was opened on. A file a
running process was loaded from is denied writes.

| Variable | Code |
|---|---|
| `files` | `open_files`, the wrappers `[fd, fp]` in open order |
| `nopen` | `num_open_files`, the counter fds are taken from |
| `currFd`, `parentFd` | `curr_open_fd`, `parent_open_fd` |
| `live`, `hf` | the handles not yet closed, and the file each was opened on |
| `written` | the files a `file_write` has reached |

| Definition | Code |
|---|---|
| `SearchFd(fd)` | `search_fd` (226-238): the first wrapper with the fd |
| `MatchesSelf`, `MatchesParent` | the two `strcmp` tests of `SYS_OPEN` (79-82). With no parent, `match_parent` stays false, so every name passes the parent test |
| `Open(n)` | `SYS_OPEN` (73-102): fd = `num_open_files++`, append, record the executable fd |
| `Close(fd)` | `SYS_CLOSE` (194-219): remove the first match, `num_open_files--`, `file_close`, clear the executable fd |
| `Refused`, `Write(fd)` | `SYS_WRITE` (140-169): `search_fd`, the two executable checks, `file_write` |

`init_thread` is in `thread.c`, which is not in the repository. Fds 0 and 1
are the console, so the counter starts at 2, and both executable fds start at
-1. Calls that change nothing are left out of `Next`: READ, SEEK and TELL, a
failed `filesys_open`, and a CLOSE or WRITE of an unknown fd. The refinement
mapping takes an fd to the handle that `search_fd` finds for it.

| Run | cfg | Expect | What it shows |
|---|---|---|---|
| `fd_list_reuse` | `MCFdList.cfg` | violation | Two data files, fds 2..4. The sequence is OPEN (fd 2), OPEN (fd 3), CLOSE 2, then OPEN. CLOSE brought `num_open_files` back to 3, so the last OPEN returns 3, the fd of a file that is still open. From then on, `search_fd` and CLOSE see only the older wrapper (`syscall.c:92, 205`). |

The run opens data files only. If the process may also open its own
executable, TLC's shortest counterexample is a different one. The process
opens its executable twice, and `curr_open_fd` keeps only the second fd, so a
WRITE to the first fd reaches the executable. Whether that write lands depends
on the loader's `file_deny_write`, and the loader is in `process.c`, which is
not in the repository. So that trace is not reported as a finding.

### `Namespace.tla`: directories and paths of project 4

Project 4 keeps a tree of directories. The CREATE, MKDIR, OPEN, CLOSE,
REMOVE and CHDIR system calls all run `filesys_create`, `filesys_open`,
`filesys_remove` or `filesys_chdir` under `filesys_lock`, so each call is
one atomic step. A sector is an integer: `Root` (`ROOT_DIR_SECTOR`) and a
`Pool` that `free_map_allocate` hands out lowest first. 0 stands for NULL.

| Variable | Code |
|---|---|
| `used` | the free map |
| `isFile`, `parent`, `ents`, `slots`, `data` | the disk inode: `isFile`, `parent_sector`, the in-use entries of a directory (name to sector), the entry slots its data holds, its data sector |
| `cnt`, `removed` | the in-memory inode: `open_cnt` and `removed` |
| `cwd`, `fds` | `thread->cur_dir` and the inode of each `open_files` slot |

| Definition | Code |
|---|---|
| `FromPath`, `Walk` | `dir_from_path` (`directory.c:277-310`): start at the root or `dir_reopen(cur_dir)`, then every component but the last. `.` is skipped. `..` opens the parent, then fails the lookup of the name `..` and returns NULL. A missing name returns NULL. A file is skipped. A directory replaces the current one. The early returns close nothing. |
| `LastDir` | `dir_last_dir` |
| `Create` | `filesys_create`: refuses `.` and `..`, allocates the inode sector, then `inode_create` (a file's data sector), then `dir_add` (name check, `inode_make_parent`, a data sector for the first entry). On failure only the inode sector is released. |
| `Target`, `Resolved`, `Itself` | the shared shape of `filesys_open` and `filesys_chdir`: `..` gives `parent_sector`; `.`, or `""` at the root, gives the directory itself, still open; otherwise the lookup's inode, then `dir_close(dir)` |
| `Open`, `Close`, `FreeFd` | `SYS_OPEN` with `get_free_fd` (the opened inode stays open when no slot is free), `SYS_CLOSE` |
| `FilesysRemove`, `Removable`, `Unlink` | `filesys_remove` and `dir_remove`: a directory must be empty and open nowhere else, the entry is erased, then `inode_remove` and `inode_close` |
| `Chdir` | `filesys_chdir`: the `.` case keeps the old `cur_dir` open. Otherwise `dir_open` of the target, whatever its kind, then the old directory is closed. |
| `FreeIfLast` | `inode_close` of the last opener of a removed inode |

File contents, READ, WRITE, SEEK, TELL, READDIR, ISDIR and INUMBER are left
out: they change no state of this model. `malloc` never fails.
The `file_deny_write` that the OPEN system call applies to a directory
(`syscall.c:86-87`) is left out as well: the model has no `deny_write_cnt`,
so it does not check the `ASSERT (deny_write_cnt <= open_cnt)` of
`inode_deny_write` (`inode.c:446`), which repeated opens of one directory
may trip.

`MCNamespace` uses one process, two names `a` and `b`, three free sectors
and one fd slot. Three sectors are the fewest that hold a nested tree: a
directory, its data sector and a child. A second process would add only a
second `cur_dir` and fd table, because every call holds `filesys_lock`. The
path arguments are `a`, `b`, `a/b`, `/a`, `..`, `.` and `../b`, which cover
each branch of `dir_from_path`, the `.` and `..` cases, absolute and relative
resolution, and a `..` before the last component. The leaks make `open_cnt`
unbounded, so `CountBound` is a state constraint: an inode's count may be
at most `MaxCnt = 1`, or at most the number of its holders (current
directory and fd slot). So a directory held both as `cur_dir` and by an fd,
with `open_cnt = 2`, is explored, and so are CLOSE, CHDIR away from and
REMOVE of such a doubly held directory; a leak of one is explored on an
inode held at most once. That is enough for an open directory to be refused
by `dir_remove` and for a removed file to stay allocated while it is held. In
the pass run CREATE makes empty files (`FileSizes = {0}`); directories still
take data sectors. `MCNamespaceLeak.cfg` allows one-sector files.

| Run | cfg | Expect | What it shows |
|---|---|---|---|
| `dir_tree` | `MCNamespace.cfg` | pass | 167,915 states. The namespace is a tree: every reachable inode is allocated, and named once, by the directory its `parent_sector` records (`NamespaceIsTree`). `open_cnt` is at least the number of current directories and fd slots holding the inode (`RefsCounted`). |
| `chdir_into_file` | `MCNamespaceChdirFile.cfg` | violation | CREATE `a`, CHDIR `a` (a file), MKDIR `b` inside it, CHDIR `b`, REMOVE `/a`. A file is removed without any check, and no one has `a` open, so its sector is freed. OPEN `..` then follows `b`'s `parent_sector` into the freed sector, which `HeldLive` forbids. |

| Mutant | Bug it introduces | Property broken |
|---|---|---|
| `MakeParentNone` | `filesys_create` does not call `inode_make_parent`, so `parent_sector` stays `ROOT` | `NamespaceIsTree` |
| `ResolvedCloseAll` | `dir_close(dir)` also in the `.` case, where `dir` is the result | `RefsCounted` |

`RefsCounted` is an inequality because the code leaks counts. These leaks
are the early returns of `dir_from_path` (`directory.c:299`) and the `.`
case of `filesys_chdir` (`filesys.c:155`). A leak never frees anything
early; it leaves a directory that can no longer be removed.

## Further counterexamples

These configurations are in the directory, but are not among the runs of
`PROJECT.json`. Each one checks one property that TLC finds violated. The
`"hazards"` of `PROJECT.json` name them.

| cfg | Property | What the counterexample shows |
|---|---|---|
| `MCPrioritySyncPanic.cfg` | `NoKernelPanic` | With preemption, a woken waiter runs before the donor clean-up of `lock_release`, with its `locked_by` still naming the lock it now owns. After it releases that lock, a thread blocking on it walks the chain into a lock with no holder, and `ASSERT` (synch.c:220) fails. |
| `MCPrioritySyncCeiling.cfg` | `DonationCeiling` | P2 of the spec fails. `lock_release` drops every waiter's `locked_by`, so the new holder can lower its priority below a blocked waiter's. |
| `MCPrioritySyncReadyOrder.cfg` | `ReadyFrontIsHighest` | P1 fails. Donation raises a READY holder without re-inserting it, so the front of the ready list is not the highest READY thread. |
| `MCPrioritySyncTryDonor.cfg` | `DonorElemUnique` | A failed `lock_try_acquire` followed by `lock_acquire` links `donor_elem` twice. |
| `MCPrioritySyncRestore.cfg` | `ReleaseRestoresPriority` | After `lock_release`, the priority is not max(base, remaining donors), as spec 4.2 says it should be. |
| `MCBufferCacheDup.cfg` | `EntryUnique` | Two calls missing on one sector create two entries for it. |
| `MCVmLostWrite.cfg` | `MemoryImplementsVirtualMemory` | With two processes, the shortest trace is the frame steal. If frames being loaded are excluded from eviction, a write between `swap_out` and `pagedir_clear_page` (`frame.c:41-45`) is lost. |
| `MCVmPolicy.cfg` | `VictimFollowsPolicy` | Both frames are accessed and clean. The last `else` of `victim_frame` (`frame.c:142`) files the second frame as class 0, so the second is evicted, not the first. |
| `MCVmLeak.cfg` | `SwapSlotsOwned` | A process exits with a page swapped out. `destroy_spt` frees frames only (`page.c:243`), so the slot stays in use with no page in it. |
| `MCVmKind.cfg` | `KindRestored` | A swapped-in stack page whose uninitialized `file` field is non-NULL comes back as a FILE page (`page.c:213`). |
| `MCMlfqHighest.cfg` | `ScheduleTakesHighest` | `thread_tick` changes the priorities of queued threads without re-sorting `ready_list` (`thread.c:174`). At tick 104, a thread of priority 18 is scheduled while one of priority 21 is ready. |
| `MCBufferCacheRace.cfg` | `CacheImplementsStore` | A READDIR, which runs without `filesys_lock`, copies the payload of an entry whose `disk_read` has not completed: `cache.c:57` sets `sector_num` before `cache.c:58` reads the data. |
| `MCNamespaceLeak.cfg` | `SectorsAccounted` | CREATE of `a` (0 bytes), then CREATE of `a` with one sector: `inode_create` takes the data sector, `dir_add` refuses the name, and `filesys_create` (`filesys.c:68`) gives back only the inode sector. |
| `MCVmPartial.cfg` | `MemoryImplementsVirtualMemory` | `g2` is a partial FILE page. Its first fault gets a frame without `PAL_ZERO`, and `file_read_at` fills only `read_bytes` of it (`page.c:120-135`). The process reads the page: its tail holds the frame's old bytes, not the zeroes of the executable's bss. |
| `MCPrioritySyncTryPanic.cfg` | `NoKernelPanic` | With preemption, `t3`'s `lock_try_acquire` takes the semaphore of lock 1 and is preempted before it sets `lock->holder` (synch.c:250-253). `t2`'s `lock_try_acquire` of the same lock fails `sema_try_down` and then `ASSERT (lock->holder != NULL)` (synch.c:256). |
| `MCVmSteal.cfg` | `FrameSpteBiconditional` | Two processes, two frames. `p1` is filling a frame when `p2`'s fault evicts it: frames being loaded are not pinned (`frame.c:39`). `p1` then maps a frame that the frame table gives to `p2`. |
| `MCInodeFull.cfg` | `BlockMapSound` | On an 8-sector disk, a write runs out of sectors inside the indirect loop and returns before writing the indirect block back (`inode.c:535`), though `inode->indirect` already counts the new pointer. After a remove frees a sector, the next write reads the stale block back, maps file bytes to sector 0 (the free map), and writes the user's byte into it. |
| `MCProcessWaitLive.cfg` | `WaitTerminates` | A child finishes `exit_process` before its parent calls wait. `waited_by_parent` was still false, so nobody ups `wait_lock`, and the parent's wait blocks forever (`syscall.c:374`, project 3). |
| `MCFdTableLeak.cfg` | `HandlesAccounted` | An `mmap` whose first page fails finds no page to unmap, so the reopened handle stays open with nothing naming it (`syscall.c:254`). The same leak follows an empty file (line 240) and `SYS_OPEN` on a full table (line 86). |
| `MCFdTableWild.cfg` | `NoWildPointer` | `FILESIZE(4)` reads past `open_files` and passes what it finds to `file_length` (`syscall.c:99`, project 3). Spec 7 says a missing fd gives 0. |
| `MCFdTableKernel.cfg` | `MapsUserPages` | A two-page file mapped at the last user page gets an MMAP entry at `PHYS_BASE`: only the first page is checked (`syscall.c:236`). |

## What is not modelled (yet)

`PROJECT.json` lists every component, with its status and the reason:

* MLFQ with blocking threads and threads created after boot;
* the project 2 system calls other than OPEN, CLOSE and WRITE, and, in
  project 4, READDIR's position, ISDIR and INUMBER (no state beyond the
  position) and the deny-write that OPEN applies to a directory;
* pointer validation (`validate_addr`, `validate_string`,
  `validate_buffer`), which checks user pointers against the page table;
* loading MMAP pages and the write-back of `unmap`;
* `inode_deny_write` and executables being written;
* the `malloc` failure of `cache_fetch_sector` (`cache.c:42-44`), which
  returns NULL still holding `buffer_cache_lock`: `Fetch` assumes `malloc`
  succeeds.

These are planned as further modules. The `"hazards"` list marks what each
model should catch.

Some parts are out of the models' reach and are not planned:

* device drivers, the ELF loader and argument passing: pure I/O;
* the list and hash libraries: outside `src/`.
