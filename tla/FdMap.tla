------------------------------- MODULE FdMap -------------------------------
(***************************************************************************)
(* What a process's file table promises (spec.md 3 and 6): a user fd is an *)
(* index into a per-process table, so OPEN returns an fd that names no     *)
(* other open file, and FILESIZE, READ, WRITE, SEEK, TELL and CLOSE on that *)
(* fd reach the file it was opened on.  A file that a running process was  *)
(* loaded from is denied writes (the deny-write counter of the in-memory   *)
(* inode, spec.md 3).  The table's capacity is not part of the promise.    *)
(***************************************************************************)
EXTENDS FiniteSets, TLC

CONSTANTS
    FdSpace,     \* the fds OPEN may return
    Handles,     \* struct file objects
    Names,       \* files OPEN can find
    Running      \* the files a running process was loaded from

VARIABLES
    table,       \* table[fd]: the handle the fd names
    live,        \* handles open and not yet closed
    hf,          \* hf[h]: the file h was opened on
    written      \* files a WRITE has reached

vars == <<table, live, hf, written>>

Init ==
    /\ table = <<>>
    /\ live = {}
    /\ hf \in [Handles -> Names]
    /\ written = {}

\* OPEN: a fresh handle under an fd that names nothing.
Open(fd, h, n) ==
    /\ fd \in FdSpace \ DOMAIN table
    /\ h \in Handles \ live
    /\ table' = (fd :> h) @@ table
    /\ live' = live \cup {h}
    /\ hf' = [hf EXCEPT ![h] = n]
    /\ UNCHANGED written

\* CLOSE: the fd's handle is closed and the fd names nothing again.
Close(fd) ==
    /\ fd \in DOMAIN table
    /\ table' = [x \in DOMAIN table \ {fd} |-> table[x]]
    /\ live' = live \ {table[fd]}
    /\ UNCHANGED <<hf, written>>

\* WRITE: the fd's file, unless a running process was loaded from it.
Write(fd) ==
    /\ fd \in DOMAIN table
    /\ hf[table[fd]] \notin Running
    /\ written' = written \cup {hf[table[fd]]}
    /\ UNCHANGED <<table, live, hf>>

Next ==
    \/ \E fd \in FdSpace, h \in Handles, n \in Names : Open(fd, h, n)
    \/ \E fd \in FdSpace : Close(fd) \/ Write(fd)

Spec == Init /\ [][Next]_vars

=============================================================================
