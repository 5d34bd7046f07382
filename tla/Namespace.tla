----------------------------- MODULE Namespace -----------------------------
(***************************************************************************)
(* The directory layer of Project 4: path resolution (dir_from_path,       *)
(* dir_last_dir), dir_add, dir_remove and the filesys_create, filesys_open, *)
(* filesys_remove and filesys_chdir that the CREATE, MKDIR, OPEN, REMOVE,  *)
(* CHDIR and CLOSE system calls run under filesys_lock (userprog/syscall.c *)
(* of project 4), so each call is one atomic step.  Processes share the    *)
(* namespace and each has a current directory and a few fd slots.         *)
(*                                                                         *)
(* A sector is an integer: Root, and the Pool the free map allocates from, *)
(* lowest first.  An inode's state is its disk fields (isFile, parent,     *)
(* its entries and entry slots, its data sector) and its in-memory open    *)
(* count and removed flag.  0 stands for NULL and for "no sector".  Files  *)
(* and directories hold at most one data sector, which their sizes here   *)
(* (0 or 1 sector, two entries) never exceed.  Byte contents are left out: *)
(* READ, WRITE, SEEK, TELL, READDIR, ISDIR and INUMBER change no modelled  *)
(* state.  malloc never fails.                                             *)
(***************************************************************************)
EXTENDS Integers, Sequences, FiniteSetsExt

CONSTANTS
    Procs,      \* user processes
    Names,      \* file names a path component can be (all short enough)
    Root,       \* ROOT_DIR_SECTOR
    Pool,       \* sectors the free map can hand out
    FdSlots,    \* user fd slots of open_files (2..127 in the code)
    PathArgs,   \* the path arguments the programs pass (members of Paths)
    FileSizes,  \* data sectors a CREATE's initial_size takes (0 or 1)
    MaxCnt      \* bound on open_cnt, which the leaks grow (CountBound)

Sectors == Pool \cup {Root}
Comps == Names \cup {".", ".."}

\* A path: whether it starts with "/", and its "/"-separated components
\* (strtok_r skips empty ones, so "a//b" is <<"a", "b">>).
Paths == [abs : BOOLEAN, toks : Seq(Comps)]

ASSUME PathArgs \subseteq Paths /\ Root \notin Pool /\ 0 \notin Pool \cup {Root} /\ FdSlots \subseteq 2..127
       /\ FileSizes \subseteq {0, 1}

VARIABLES
    used,       \* the free map: sectors of Pool in use
    isFile,     \* isFile[s]
    parent,     \* parent[s]: parent_sector
    ents,       \* ents[s][n]: sector of the in-use entry named n, or 0
    slots,      \* slots[s]: entry slots s's data holds
    data,       \* data[s]: the data sector of s, or 0
    cnt,        \* cnt[s]: open_cnt of the in-memory inode (0: not open)
    removed,    \* removed[s]
    cwd,        \* cwd[p]: the inode of thread->cur_dir, or 0
    fds         \* fds[p][i]: the inode of open_files[i], or 0

vars == <<used, isFile, parent, ents, slots, data, cnt, removed, cwd, fds>>

\* do_format: the root directory with 16 entry slots, its data outside Pool.
Init ==
    /\ used = {}
    /\ isFile = [s \in Sectors |-> FALSE]
    /\ parent = [s \in Sectors |-> Root]
    /\ ents = [s \in Sectors |-> [n \in Names |-> 0]]
    /\ slots = [s \in Sectors |-> IF s = Root THEN 16 ELSE 0]
    /\ data = [s \in Sectors |-> 0]
    /\ cnt = [s \in Sectors |-> 0]
    /\ removed = [s \in Sectors |-> FALSE]
    /\ cwd = [p \in Procs |-> 0]
    /\ fds = [p \in Procs |-> [i \in FdSlots |-> 0]]

-----------------------------------------------------------------------------
Inc(c, s) == [c EXCEPT ![s] = @ + 1]
Dec(c, s) == [c EXCEPT ![s] = @ - 1]

\* free_map_allocate (1, ...): the lowest free sector, 0 if none.
Alloc(u) == IF Pool \ u = {} THEN 0 ELSE Min(Pool \ u)

\* lookup: the in-use entry named n; "", "." and ".." are never names.
Lookup(d, n) == IF n \in Names THEN ents[d][n] ELSE 0

Entries(d) == {n \in Names : ents[d][n] # 0}

\* dir_last_dir: the last component, "" when there is none.
LastDir(path) == IF path.toks = <<>> THEN "" ELSE path.toks[Len(path.toks)]

\* The loop of dir_from_path over every component but the last, from the
\* open directory d with open counts c.  "." is skipped; ".." opens the
\* parent and then looks up the name "..", which no directory has, and
\* returns NULL; a missing name returns NULL; a file is opened, closed and
\* skipped; a directory is opened and the previous one closed.  The early
\* returns close nothing.  No close here is the last of a removed inode.
RECURSIVE Walk(_, _, _)
Walk(d, ts, c) ==
    IF Len(ts) <= 1 THEN [dir |-> d, cnt |-> c]
    ELSE LET t == Head(ts)
             e == Lookup(d, t)
         IN CASE t = "."   -> Walk(d, Tail(ts), c)
              [] t = ".."  -> [dir |-> 0, cnt |-> Inc(c, parent[d])]
              [] e = 0     -> [dir |-> 0, cnt |-> c]
              [] isFile[e] -> Walk(d, Tail(ts), c)
              [] OTHER     -> Walk(e, Tail(ts), Dec(Inc(c, e), d))

\* dir_from_path: from the root for an absolute path or an unset current
\* directory (dir_open_root), else from dir_reopen (cur_dir).
FromPath(p, path) ==
    LET start == IF path.abs \/ cwd[p] = 0 THEN Root ELSE cwd[p]
    IN  Walk(start, path.toks, Inc(cnt, start))

\* The "." case of open and chdir: the directory dir_from_path returned
\* is itself the result.
Itself(d, last) == (d = Root /\ last = "") \/ last = "."

\* inode_close of s's last opener when s is removed: inode_free_resources
\* and free_map_release give back its data and inode sectors.
FreeIfLast(c, s) ==
    IF c[s] = 0 /\ removed[s]
    THEN /\ used' = used \ {s, data[s]}
         /\ removed' = [removed EXCEPT ![s] = FALSE]
    ELSE UNCHANGED <<used, removed>>

\* A mutant of MakeParent: the parent sector stays the ROOT that
\* inode_create wrote.
MakeParentNone(s, d) == [parent EXCEPT ![s] = Root]

\* inode_make_parent: the new inode's parent_sector is the directory.
MakeParent(s, d) == [parent EXCEPT ![s] = d]

\* The checks of dir_remove on the inode c it opened, n being its open
\* count before that open: a directory must be empty (dir_readdir finds
\* no entry) and open nowhere else (open_cnt > 1 refuses).
Removable(c, n) == isFile[c] \/ (Entries(c) = {} /\ n + 1 <= 1)

\* inode_remove then inode_close of the inode c dir_remove opened: when no
\* one else has it open its data and inode sectors go back to the free
\* map, else it is marked removed and freed by its last inode_close.
Unlink(c, n) ==
    IF n = 0
    THEN used' = used \ {c, data[c]} /\ UNCHANGED removed
    ELSE removed' = [removed EXCEPT ![c] = TRUE] /\ UNCHANGED used

-----------------------------------------------------------------------------
(* The system calls.                                                       *)

\* filesys_create (filesys.c:55-78) for CREATE (a file of `size` sectors)
\* and MKDIR (an empty directory): resolve, refuse "." and "..", allocate
\* the inode sector, inode_create (whose inode_expand takes the file's
\* data sector), then dir_add: refuse "" and a name in use, record the
\* parent (inode_make_parent), and write the entry into a free slot or at
\* the end, which for an empty directory takes a data sector.  On failure
\* the inode sector goes back to the free map; nothing else does.
Create(p, path, file, size) ==
    LET w     == FromPath(p, path)
        d     == w.dir
        last  == LastDir(path)
        try   == d # 0 /\ last \notin {".", ".."}
        s     == Alloc(used)
        fdat  == IF size = 0 THEN 0 ELSE Alloc(used \cup {s})
        made  == s # 0 /\ (size = 0 \/ fdat # 0)
        u1    == (used \cup {s, fdat}) \ {0}
        grow  == Cardinality(Entries(d)) >= slots[d]
        ddat  == IF grow /\ data[d] = 0 THEN Alloc(u1) ELSE data[d]
        added == made /\ last \in Names /\ ents[d][last] = 0 /\ (~grow \/ ddat # 0)
    IN
    /\ cnt' = IF d = 0 THEN w.cnt ELSE Dec(w.cnt, d)
    /\ IF try /\ added
       THEN /\ used' = (u1 \cup {ddat}) \ {0}
            /\ isFile' = [isFile EXCEPT ![s] = file]
            /\ parent' = MakeParent(s, d)
            /\ ents' = [ents EXCEPT ![d][last] = s, ![s] = [n \in Names |-> 0]]
            /\ slots' = [slots EXCEPT ![d] = IF grow THEN @ + 1 ELSE @, ![s] = 0]
            /\ data' = [data EXCEPT ![d] = ddat, ![s] = fdat]
       ELSE /\ used' = IF try /\ made THEN u1 \ {s} ELSE used
            /\ UNCHANGED <<isFile, parent, ents, slots, data>>
    /\ UNCHANGED <<removed, cwd, fds>>

\* The inode filesys_open (filesys.c:86-124) and filesys_chdir
\* (filesys.c:143-177) go on with: the parent for "..", the directory
\* itself for "." and for "" at the root, else the entry named last.
Target(d, last) ==
    CASE d = 0              -> 0
      [] last = ".."        -> parent[d]
      [] Itself(d, last)    -> d
      [] OTHER              -> Lookup(d, last)

\* A mutant of Resolved: dir (dir) is closed in the "." case too.
ResolvedCloseAll(w, last) ==
    LET t == Target(w.dir, last) IN
    CASE w.dir = 0              -> w.cnt
      [] Itself(w.dir, last)    -> Dec(w.cnt, w.dir)
      [] t = 0                  -> Dec(w.cnt, w.dir)
      [] OTHER                  -> Dec(Inc(w.cnt, t), w.dir)

\* Their open counts once the result is open: dir_get_parent or
\* dir_lookup opens the target, then dir_close (dir) closes the directory,
\* except in the "." case, where it is the result.
Resolved(w, last) ==
    LET t == Target(w.dir, last) IN
    CASE w.dir = 0              -> w.cnt
      [] Itself(w.dir, last)    -> w.cnt
      [] t = 0                  -> Dec(w.cnt, w.dir)
      [] OTHER                  -> Dec(Inc(w.cnt, t), w.dir)

\* get_free_fd: the lowest NULL slot, 0 if none.
FreeFd(p) == LET free == {i \in FdSlots : fds[p][i] = 0}
             IN IF free = {} THEN 0 ELSE Min(free)

\* SYS_OPEN (syscall.c:75-107): filesys_open of a non-empty path, then
\* the lowest free fd; with no free fd the call returns -1 and the opened
\* file or directory stays open.
Open(p, path) ==
    LET w == FromPath(p, path)
        t == Target(w.dir, LastDir(path))
        c == Resolved(w, LastDir(path))
        i == FreeFd(p)
    IN
    /\ path.abs \/ path.toks # <<>>
    /\ cnt' = c
    /\ fds' = IF t # 0 /\ i # 0 THEN [fds EXCEPT ![p][i] = t] ELSE fds
    /\ UNCHANGED <<used, isFile, parent, ents, slots, data, removed, cwd>>

\* SYS_CLOSE (syscall.c:212-230): file_close or dir_close, then the slot
\* is cleared.
Close(p, i) ==
    LET s == fds[p][i] IN
    /\ s # 0
    /\ cnt' = Dec(cnt, s)
    /\ FreeIfLast(cnt', s)
    /\ fds' = [fds EXCEPT ![p][i] = 0]
    /\ UNCHANGED <<isFile, parent, ents, slots, data, cwd>>

\* filesys_remove (filesys.c:131-141) with dir_remove (directory.c:181-221):
\* the entry named last is opened; a directory that has entries, or that
\* someone else has open (open_cnt > 1), is refused; otherwise the entry
\* is erased, the inode marked removed and closed, which frees it if this
\* was its last opener.  Then dir_close (dir).
FilesysRemove(p, path) ==
    LET w    == FromPath(p, path)
        d    == w.dir
        last == LastDir(path)
        c    == IF d = 0 THEN 0 ELSE Lookup(d, last)
        ok   == c # 0 /\ Removable(c, w.cnt[c])
    IN
    /\ cnt' = IF d = 0 THEN w.cnt ELSE Dec(w.cnt, d)
    /\ IF ok
       THEN /\ ents' = [ents EXCEPT ![d][last] = 0]
            /\ Unlink(c, w.cnt[c])
       ELSE UNCHANGED <<ents, used, removed>>
    /\ UNCHANGED <<isFile, parent, slots, data, cwd, fds>>

\* SYS_CHDIR, filesys_chdir (filesys.c:143-177): in the "." case the
\* directory dir_from_path returned becomes cur_dir and the old one is
\* not closed; otherwise the target, whatever its kind, is opened as a
\* directory, the old cur_dir closed (dir_close of NULL does nothing), and
\* the target becomes cur_dir.
Chdir(p, path) ==
    LET w    == FromPath(p, path)
        last == LastDir(path)
        t    == Target(w.dir, last)
        c    == Resolved(w, last)
        old  == cwd[p]
    IN
    /\ IF t # 0 /\ ~Itself(w.dir, last)
       THEN /\ cnt' = IF old = 0 THEN c ELSE Dec(c, old)
            /\ IF old = 0 THEN UNCHANGED <<used, removed>> ELSE FreeIfLast(cnt', old)
       ELSE /\ cnt' = c
            /\ UNCHANGED <<used, removed>>
    /\ cwd' = IF t = 0 THEN cwd ELSE [cwd EXCEPT ![p] = t]
    /\ UNCHANGED <<isFile, parent, ents, slots, data, fds>>

Next ==
    \E p \in Procs :
        \/ \E path \in PathArgs : \/ \E file \in BOOLEAN, size \in FileSizes :
                                     Create(p, path, file, IF file THEN size ELSE 0)
                               \/ Open(p, path)
                               \/ FilesysRemove(p, path)
                               \/ Chdir(p, path)
        \/ \E i \in FdSlots : Close(p, i)

Spec == Init /\ [][Next]_vars

-----------------------------------------------------------------------------
(* Properties.                                                             *)

\* The inodes an in-use entry of an inode in S names.
Children(S) == {ents[x[1]][x[2]] : x \in S \X Names} \ {0}

\* The inodes reached from S in at most k lookups.
RECURSIVE ReachIn(_, _)
ReachIn(S, k) == IF k = 0 THEN S ELSE ReachIn(S \cup Children(S), k - 1)

\* The inodes a path from the root can reach (a path through Pool is at
\* most Cardinality(Pool) lookups long).
Reachable == ReachIn({Root}, Cardinality(Pool))

\* The entries of reachable inodes that name s.
NamedBy(s) == {x \in Reachable \X Names : ents[x[1]][x[2]] = s}

\* How many current directories and fd slots hold s.
Holders(s) ==
    Cardinality({p \in Procs : cwd[p] = s})
      + Cardinality({x \in Procs \X FdSlots : fds[x[1]][x[2]] = s})

Held(s) == Holders(s) > 0

\* The bound on open_cnt, a state constraint (the leaks of dir_from_path
\* and filesys_chdir let counts grow without end): an inode's count is at
\* most MaxCnt, or at most the current directories and fd slots holding
\* it, so that every holder can be counted while leaks stay bounded.
CountBound == \A s \in Sectors : cnt[s] <= MaxCnt \/ cnt[s] <= Holders(s)

\* The namespace stays a tree whose ".." links point up: every inode a
\* path reaches is allocated, the root has no name, and any other is named
\* by exactly one entry, of the directory its parent_sector records.  It
\* rests on filesys_create recording the parent (inode_make_parent) and on
\* dir_remove erasing the entry before the sector can be handed out again
\* by a later CREATE or MKDIR.
NamespaceIsTree ==
    /\ Reachable \subseteq used \cup {Root}
    /\ NamedBy(Root) = {}
    /\ \A s \in Reachable \ {Root} : \E n \in Names : NamedBy(s) = {<<parent[s], n>>}

\* open_cnt counts every current directory and every fd slot holding the
\* inode: the leaks of dir_from_path and chdir(".") only over-count, and
\* no path of open, chdir or close (the "." cases, where the directory
\* dir_from_path opened is itself the result, included) closes an inode
\* it did not open.
RefsCounted == \A s \in Sectors : cnt[s] >= Holders(s)

\* An inode a current directory or an fd holds keeps its sector, and a
\* held directory is never removed: filesys_remove of an open file only
\* marks it, and dir_remove refuses a directory whose open_cnt is above
\* the one its own lookup took.
HeldLive ==
    \A s \in Pool : Held(s) => s \in used /\ (removed[s] => isFile[s])

\* Every allocated sector is the inode or the data sector of an inode a
\* path reaches or someone has open: a failed CREATE gives back all it
\* took, and no removal leaves a subtree behind.
SectorsAccounted ==
    LET live == Reachable \cup {s \in Sectors : cnt[s] > 0}
    IN  used \subseteq live \cup {data[s] : s \in live}
=============================================================================
