---------------------------- MODULE SectorStore ----------------------------
(***************************************************************************)
(* What the buffer cache of filesys/cache.c promises to inode_read_at and *)
(* inode_write_at: a store of disk sectors in which every read or write of *)
(* a sector takes effect at one instant, a read returning the sector's     *)
(* last written contents.  Each caller performs at most MaxOps operations. *)
(***************************************************************************)
EXTENDS Naturals

CONSTANTS
  Procs,      \* threads calling into the file system
  Sectors,    \* disk sectors
  Values,     \* possible sector contents
  V0,         \* contents of every sector at boot
  NoValue,    \* contents of a caller's buffer before its first read
  MaxOps      \* operations each caller performs

VARIABLES
  content,    \* the contents of each sector
  left,       \* operations each caller has still to perform
  buf         \* the caller's buffer: what its last read returned

vars == <<content, left, buf>>

Init ==
  /\ content = [s \in Sectors |-> V0]
  /\ left = [p \in Procs |-> MaxOps]
  /\ buf = [p \in Procs |-> NoValue]

Write(p, s, v) ==
  /\ left[p] > 0
  /\ content' = [content EXCEPT ![s] = v]
  /\ left' = [left EXCEPT ![p] = @ - 1]
  /\ UNCHANGED buf

Read(p, s) ==
  /\ left[p] > 0
  /\ buf' = [buf EXCEPT ![p] = content[s]]
  /\ left' = [left EXCEPT ![p] = @ - 1]
  /\ UNCHANGED content

Next == \E p \in Procs, s \in Sectors :
          Read(p, s) \/ \E v \in Values : Write(p, s, v)

Spec == Init /\ [][Next]_vars

=============================================================================
