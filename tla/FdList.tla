------------------------------- MODULE FdList -------------------------------
(***************************************************************************)
(* The file table of Project 2 (userprog/syscall.c): a list of             *)
(* file_wrapper {fd, fp} in open order, the counter num_open_files that    *)
(* hands out fds, and the fds curr_open_fd and parent_open_fd that WRITE   *)
(* refuses because they were opened on the process's own executable or its *)
(* parent's.  One process is modelled: its system calls run one at a time. *)
(* The initial values of the counter and the two fds are set in thread.c,  *)
(* which is not in the repository: fds 0 and 1 are the console (spec.md   *)
(* 6), so the counter starts at 2, and -1 means "no such fd".              *)
(*                                                                         *)
(* Calls that change nothing are left out: an OPEN that filesys_open       *)
(* fails, a CLOSE, FILESIZE, READ, SEEK or TELL of an fd in no wrapper,   *)
(* and every READ, SEEK and TELL (they touch only the file's position).    *)
(***************************************************************************)
EXTENDS Integers, SequencesExt

CONSTANTS
    Handles,     \* struct file objects filesys_open can hand out
    Names,       \* names OPEN is called with, all of existing files
    Self,        \* thread_current()->name
    Parent,      \* thread_current()->parent->name, or NoParent
    NoParent,    \* the process has no parent
    FdArgs,      \* fds passed to CLOSE and WRITE
    MaxFd        \* bound on num_open_files

ASSUME MaxFd \in Nat

VARIABLES
    files,       \* open_files: a sequence of [fd, fp]
    nopen,       \* num_open_files
    currFd,      \* curr_open_fd
    parentFd,    \* parent_open_fd
    live,        \* handles filesys_open returned and file_close has not closed
    hf,          \* hf[h]: the file h was opened on
    written      \* files a file_write has reached

vars == <<files, nopen, currFd, parentFd, live, hf, written>>

\* init_thread (thread.c, not in the repository).
Init ==
    /\ files = <<>>
    /\ nopen = 2
    /\ currFd = -1 /\ parentFd = -1
    /\ live = {}
    /\ hf \in [Handles -> Names]
    /\ written = {}

-----------------------------------------------------------------------------
\* search_fd: the position of the first wrapper with the fd, 0 if none.
SearchFd(fd) == SelectInSeq(files, LAMBDA w : w.fd = fd)

\* !match_current: strcmp found the name equal to the thread's own.
MatchesSelf(n) == n = Self

\* !match_parent: match_parent stays false when there is no parent, so
\* the test passes for every name; otherwise strcmp found the names equal.
MatchesParent(n) == Parent = NoParent \/ n = Parent

\* SYS_OPEN of a file filesys_open finds: the wrapper takes the counter's
\* value as its fd, is appended, and its fd becomes curr_open_fd or
\* parent_open_fd when the name is the thread's own or its parent's.
Open(n) ==
    /\ nopen < MaxFd
    /\ \E h \in Handles \ live :
         /\ files' = Append(files, [fd |-> nopen, fp |-> h])
         /\ live' = live \cup {h}
         /\ hf' = [hf EXCEPT ![h] = n]
    /\ nopen' = nopen + 1
    /\ currFd' = IF MatchesSelf(n) THEN nopen ELSE currFd
    /\ parentFd' = IF ~MatchesSelf(n) /\ MatchesParent(n) THEN nopen ELSE parentFd
    /\ UNCHANGED written

\* A mutant of Close: the counter is left alone.
CloseKeepCount(fd) ==
    LET i == SearchFd(fd) IN
    /\ i > 0
    /\ files' = RemoveAt(files, i)
    /\ live' = live \ {files[i].fp}
    /\ currFd' = IF fd = currFd THEN -1 ELSE currFd
    /\ parentFd' = IF fd # currFd /\ fd = parentFd THEN -1 ELSE parentFd
    /\ UNCHANGED <<nopen, hf, written>>

\* SYS_CLOSE: the loop removes the first wrapper with the fd and decrements
\* num_open_files; the handle is closed, and the fd stops being
\* curr_open_fd or else parent_open_fd.
Close(fd) ==
    LET i == SearchFd(fd) IN
    /\ i > 0
    /\ files' = RemoveAt(files, i)
    /\ nopen' = nopen - 1
    /\ live' = live \ {files[i].fp}
    /\ currFd' = IF fd = currFd THEN -1 ELSE currFd
    /\ parentFd' = IF fd # currFd /\ fd = parentFd THEN -1 ELSE parentFd
    /\ UNCHANGED <<hf, written>>

\* The executable checks of SYS_WRITE: the wrapper's fd is curr_open_fd or
\* parent_open_fd (neither being -1).
Refused(w) ==
    \/ currFd # -1 /\ w.fd = currFd
    \/ parentFd # -1 /\ w.fd = parentFd

\* SYS_WRITE to an fd other than 1: search_fd, the two checks, file_write.
Write(fd) ==
    LET i == SearchFd(fd) IN
    /\ fd # 1 /\ i > 0
    /\ ~Refused(files[i])
    /\ written' = written \cup {hf[files[i].fp]}
    /\ UNCHANGED <<files, nopen, currFd, parentFd, live, hf>>

Next ==
    \/ \E n \in Names : Open(n)
    \/ \E fd \in FdArgs : Close(fd) \/ Write(fd)

Spec == Init /\ [][Next]_vars

-----------------------------------------------------------------------------
(* Properties.                                                             *)

TypeOK ==
    /\ files \in Seq([fd : 2..MaxFd, fp : Handles])
    /\ nopen \in 2..MaxFd
    /\ currFd \in {-1} \cup 2..MaxFd /\ parentFd \in {-1} \cup 2..MaxFd
    /\ live \subseteq Handles
    /\ written \subseteq Names

\* The table as the process sees it: an fd names the handle of the first
\* wrapper that carries it, the one search_fd returns.
Fds == {files[i].fd : i \in 1..Len(files)}
Table == [fd \in Fds |-> files[SearchFd(fd)].fp]

\* The files a running process was loaded from: its own and its parent's.
RunningFiles == {Self, Parent} \cap Names

Abstract == INSTANCE FdMap WITH FdSpace <- 2..MaxFd, Running <- RunningFiles,
                                 table <- Table

\* The list, the counter and the two guard fds implement the file table of
\* spec.md 6: every OPEN returns an fd that names no open file, CLOSE and
\* WRITE act on the file the fd was opened on, and no WRITE reaches the
\* executable of the process or of its parent, whatever order OPEN, CLOSE
\* and WRITE come in.
FdListImplementsFdMap == Abstract!Spec

=============================================================================
