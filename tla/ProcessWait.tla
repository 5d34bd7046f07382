---------------------------- MODULE ProcessWait ----------------------------
(***************************************************************************)
(* The child-process record shared by a parent and its children, and the   *)
(* two calls that use it: exit (userprog/syscall.c exit_process of Project *)
(* 3) on the child's side and wait (process_wait) on the parent's.         *)
(*                                                                         *)
(* userprog/process.c is not in the repository, so spawn and process_wait  *)
(* are taken from the contract of spec.md 4.5: spawn enrolls a record;     *)
(* wait refuses a tid that is not a recorded child or was already waited,  *)
(* otherwise flags the record as waited, downs its semaphore, reads the    *)
(* exit status and releases the record.  exit_process is translated from   *)
(* the code: it writes the status into curr->cp and ups the semaphore only *)
(* if the parent has already flagged the record.  The kernel is preemptive *)
(* and exit_process runs with interrupts on, so the child's two steps and  *)
(* the parent's steps interleave freely.  The loop that would free the     *)
(* records of an exiting parent is commented out in the code (the TODO at  *)
(* syscall.c:363), so a parent's exit leaves its records alone.            *)
(***************************************************************************)
EXTENDS Integers

CONSTANTS
    Children,   \* the processes the parent may spawn
    Codes,      \* exit codes a child may pass to exit()
    Unset,      \* the status of a record no exit has written yet
    NoRec,      \* a child that has no record (not spawned, or released)
    None        \* no wait has returned for this child yet

ASSUME Unset \notin Codes /\ None \notin Codes \cup {-1}

VARIABLES
    rec,        \* rec[c]: the child record of c, or NoRec
    cpc,        \* cpc[c]: where child c is: "unborn", "run", "check", "dead"
    code,       \* code[c]: the code c passed to exit (Unset before it exits)
    ppc,        \* the parent: "idle", "down" (blocked in wait) or "exited"
    waitingOn,  \* the child the parent is waiting for while ppc = "down"
    got         \* got[c]: what the last wait(c) returned, or None

vars == <<rec, cpc, code, ppc, waitingOn, got>>

Record == [status : Codes \cup {Unset}, waited : BOOLEAN, sema : 0..1]

TypeOK ==
    /\ rec \in [Children -> Record \cup {NoRec}]
    /\ cpc \in [Children -> {"unborn", "run", "check", "dead"}]
    /\ code \in [Children -> Codes \cup {Unset}]
    /\ ppc \in {"idle", "down", "exited"}
    /\ waitingOn \in Children \cup {None}
    /\ got \in [Children -> Codes \cup {Unset, -1, None}]

Init ==
    /\ rec = [c \in Children |-> NoRec]
    /\ cpc = [c \in Children |-> "unborn"]
    /\ code = [c \in Children |-> Unset]
    /\ ppc = "idle"
    /\ waitingOn = None
    /\ got = [c \in Children |-> None]

-----------------------------------------------------------------------------
(* Parent side (spec.md 4.5).                                              *)

\* spawn: the parent enrolls the child's record before the child runs.
Spawn(c) ==
    /\ ppc = "idle"
    /\ cpc[c] = "unborn"
    /\ rec' = [rec EXCEPT ![c] = [status |-> Unset, waited |-> FALSE, sema |-> 0]]
    /\ cpc' = [cpc EXCEPT ![c] = "run"]
    /\ UNCHANGED <<code, ppc, waitingOn, got>>

\* wait(c) on a tid with no record, or one already waited: returns -1.
WaitRefused(c) ==
    /\ ppc = "idle"
    /\ \/ rec[c] = NoRec
       \/ rec[c] # NoRec /\ rec[c].waited
    /\ got' = [got EXCEPT ![c] = -1]
    /\ UNCHANGED <<rec, cpc, code, ppc, waitingOn>>

\* wait(c): flag the record as waited, then block on its semaphore.
WaitStart(c) ==
    /\ ppc = "idle"
    /\ rec[c] # NoRec /\ ~rec[c].waited
    /\ rec' = [rec EXCEPT ![c].waited = TRUE]
    /\ ppc' = "down"
    /\ waitingOn' = c
    /\ UNCHANGED <<cpc, code, got>>

\* The semaphore is up: read the exit status, release the record, return.
WaitReturn ==
    /\ ppc = "down"
    /\ rec[waitingOn].sema > 0
    /\ got' = [got EXCEPT ![waitingOn] = rec[waitingOn].status]
    /\ rec' = [rec EXCEPT ![waitingOn] = NoRec]
    /\ ppc' = "idle"
    /\ waitingOn' = None
    /\ UNCHANGED <<cpc, code>>

\* A mutant of ParentExit: the record-freeing loop of exit_process put back.
ParentExitFreeing ==
    /\ ppc = "idle"
    /\ ppc' = "exited"
    /\ rec' = [c \in Children |-> NoRec]
    /\ UNCHANGED <<cpc, code, waitingOn, got>>

\* The parent exits.  It has no parent of its own, and the loop that would
\* free its children's records is commented out, so nothing else changes.
ParentExit ==
    /\ ppc = "idle"
    /\ ppc' = "exited"
    /\ UNCHANGED <<rec, cpc, code, waitingOn, got>>

-----------------------------------------------------------------------------
(* Child side: exit_process.                                               *)

\* curr->cp->exit_status = status;
ExitRecord(c, k) ==
    /\ cpc[c] = "run"
    /\ rec' = [rec EXCEPT ![c].status = k]
    /\ code' = [code EXCEPT ![c] = k]
    /\ cpc' = [cpc EXCEPT ![c] = "check"]
    /\ UNCHANGED <<ppc, waitingOn, got>>

\* A mutant of ExitWake: the pc guard dropped, so the semaphore can be upped
\* before the status is written, or twice.
ExitWakeEarly(c) ==
    /\ cpc[c] # "unborn"
    /\ rec[c] # NoRec
    /\ rec' = IF rec[c].waited THEN [rec EXCEPT ![c].sema = rec[c].sema + 1] ELSE rec
    /\ cpc' = [cpc EXCEPT ![c] = "dead"]
    /\ UNCHANGED <<code, ppc, waitingOn, got>>

\* if (curr->cp->waited_by_parent) sema_up (&curr->cp->wait_lock);
\* then thread_exit.
ExitWake(c) ==
    /\ cpc[c] = "check"
    /\ rec' = IF rec[c].waited THEN [rec EXCEPT ![c].sema = rec[c].sema + 1] ELSE rec
    /\ cpc' = [cpc EXCEPT ![c] = "dead"]
    /\ UNCHANGED <<code, ppc, waitingOn, got>>

Next ==
    \/ \E c \in Children : Spawn(c) \/ WaitRefused(c) \/ WaitStart(c)
    \/ WaitReturn
    \/ ParentExit
    \/ \E c \in Children, k \in Codes : ExitRecord(c, k)
    \/ \E c \in Children : ExitWake(c)

Fairness ==
    /\ WF_vars(WaitReturn)
    /\ \A c \in Children : WF_vars(ExitWake(c)) /\ WF_vars(\E k \in Codes : ExitRecord(c, k))

Spec == Init /\ [][Next]_vars /\ Fairness

-----------------------------------------------------------------------------
(* Properties.                                                             *)

\* exit_process writes through curr->cp until it has upped the semaphore:
\* the record of a child that has not finished exit_process is never
\* released, whichever of parent exit and wait happens first.
RecordOutlivesChild ==
    \A c \in Children : cpc[c] \in {"run", "check"} => rec[c] # NoRec

\* A wait that returns a child's status returns the code the child passed
\* to exit: the parent never reads the record before exit_process has
\* written it, however the parent's flag and the child's check interleave.
WaitGetsExitCode ==
    \A c \in Children : got[c] \notin {None, -1} => got[c] \in Codes /\ got[c] = code[c]

\* A parent blocked in wait(c) eventually returns: the child's exit wakes it
\* whether it exits before or after the parent flagged the record.
WaitTerminates ==
    \A c \in Children : (ppc = "down" /\ waitingOn = c) ~> (ppc = "idle")

=============================================================================
