--------------------------- MODULE VirtualMemory ---------------------------
(***************************************************************************)
(* What the virtual-memory layer of project 3 (vm/page.c, vm/frame.c,     *)
(* vm/swap.c) promises to user processes: each process sees its own pages *)
(* as plain memory.  A read returns the page's last written contents; a    *)
(* page never written holds its initial contents (the executable's data   *)
(* for a file page, zeros for a stack page); eviction and swap are         *)
(* invisible.  At exit the address space disappears.                       *)
(***************************************************************************)
EXTENDS Naturals

CONSTANTS
  Procs,      \* user processes
  Pages,      \* user virtual pages (the same addresses in every process)
  Data,       \* possible page contents
  Initial,    \* Initial[g]: the contents of page g before it is written
  NoValue,    \* a buffer not yet read into, or a page of an exited process
  MaxOps      \* memory accesses each process performs

VARIABLES
  mem,        \* mem[p][g]: the contents of page g of process p
  left,       \* accesses each process has still to perform
  buf         \* the value each process read last

vars == <<mem, left, buf>>

Init ==
  /\ mem = [p \in Procs |-> Initial]
  /\ left = [p \in Procs |-> MaxOps]
  /\ buf = [p \in Procs |-> NoValue]

Read(p, g) ==
  /\ left[p] > 0
  /\ buf' = [buf EXCEPT ![p] = mem[p][g]]
  /\ left' = [left EXCEPT ![p] = @ - 1]
  /\ UNCHANGED mem

Write(p, g, v) ==
  /\ left[p] > 0
  /\ mem' = [mem EXCEPT ![p][g] = v]
  /\ left' = [left EXCEPT ![p] = @ - 1]
  /\ UNCHANGED buf

Exit(p) ==
  /\ left[p] = 0
  /\ mem' = [mem EXCEPT ![p] = [g \in Pages |-> NoValue]]
  /\ UNCHANGED <<left, buf>>

Next == \E p \in Procs :
          \/ Exit(p)
          \/ \E g \in Pages : Read(p, g) \/ \E v \in Data : Write(p, g, v)

Spec == Init /\ [][Next]_vars

=============================================================================
