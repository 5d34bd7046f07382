----------------------------- MODULE FileStore -----------------------------
(***************************************************************************)
(* What the file-system calls of project 4 promise a user program (spec   *)
(* sections on files): a file is a sequence of bytes named by an inode    *)
(* number; a name in the directory refers to one; create gives a new file *)
(* of the requested length, all zeros; a write past the end grows the     *)
(* file, zero-filling any gap, unless the disk is full, in which case it  *)
(* writes only up to the old end; a read returns the bytes last written.  *)
(* A removed file stays readable through a handle opened before, and      *)
(* disappears at its last close.                                           *)
(***************************************************************************)
EXTENDS Naturals, Sequences

CONSTANTS
  Names,     \* file names the programs use
  Inums,     \* inode numbers the file system may hand out
  Bytes,     \* byte values
  Zero,      \* the zero byte
  NoFile,    \* files[i] of an inode number not in use
  NoInum,    \* names[n] or handles[n] with no file
  Lens,      \* initial sizes passed to create
  Offsets,   \* offsets passed to a read or write
  Sizes      \* sizes passed to a read or write

VARIABLES
  files,     \* files[i]: the contents of file i, or NoFile
  names,     \* names[n]: the file the directory entry n refers to
  handles,   \* handles[n]: the file a program opened through name n
  rbuf       \* rbuf[n]: the bytes the last read through handle n returned

vars == <<files, names, handles, rbuf>>

Zeros(k) == [j \in 1..k |-> Zero]

\* An inode number still in use: named, or open.
InUse(i) == \E n \in Names : names[n] = i \/ handles[n] = i

Init ==
  /\ files = [i \in Inums |-> NoFile]
  /\ names = [n \in Names |-> NoInum]
  /\ handles = [n \in Names |-> NoInum]
  /\ rbuf = [n \in Names |-> <<>>]

\* A successful create: a fresh inode number with len zero bytes.
Create(n, i, len) ==
  /\ names[n] = NoInum /\ files[i] = NoFile
  /\ files' = [files EXCEPT ![i] = Zeros(len)]
  /\ names' = [names EXCEPT ![n] = i]
  /\ UNCHANGED <<handles, rbuf>>

Open(n) ==
  /\ names[n] # NoInum /\ handles[n] = NoInum
  /\ handles' = [handles EXCEPT ![n] = names[n]]
  /\ UNCHANGED <<files, names, rbuf>>

\* The file goes when neither a name nor a handle refers to it.
Drop(i, nm, hd) ==
  IF \E m \in Names : nm[m] = i \/ hd[m] = i THEN files
  ELSE [files EXCEPT ![i] = NoFile]

Close(n) ==
  LET i == handles[n]
      hd == [handles EXCEPT ![n] = NoInum]
  IN
  /\ i # NoInum
  /\ handles' = hd
  /\ files' = Drop(i, names, hd)
  /\ UNCHANGED <<names, rbuf>>

Remove(n) ==
  LET i == names[n]
      nm == [names EXCEPT ![n] = NoInum]
  IN
  /\ i # NoInum
  /\ names' = nm
  /\ files' = Drop(i, nm, handles)
  /\ UNCHANGED <<handles, rbuf>>

\* A write of size bytes of value v at off: the file grows to off + size
\* (grow), or, only when that is past the end, stays as long as it was and
\* takes the bytes up to its end.
Written(c, off, size, v, grow) ==
  LET len == IF grow THEN off + size ELSE Len(c) IN
  [j \in 1..len |-> IF j > off /\ j <= off + size THEN v
                    ELSE IF j <= Len(c) THEN c[j] ELSE Zero]

Write(n, off, size, v) ==
  LET i == handles[n] IN
  /\ i # NoInum
  /\ \E grow \in BOOLEAN :
       /\ grow => off + size > Len(files[i])
       /\ files' = [files EXCEPT ![i] = Written(files[i], off, size, v,
                                                 grow /\ off + size > Len(files[i]))]
  /\ UNCHANGED <<names, handles, rbuf>>

Read(n, off, size) ==
  LET i == handles[n]
      c == files[i]
  IN
  /\ i # NoInum
  /\ rbuf' = [rbuf EXCEPT ![n] =
               IF off >= Len(c) THEN <<>>
               ELSE SubSeq(c, off + 1, IF off + size < Len(c) THEN off + size ELSE Len(c))]
  /\ UNCHANGED <<files, names, handles>>

Next ==
  \/ \E n \in Names, i \in Inums, len \in Lens : Create(n, i, len)
  \/ \E n \in Names : Open(n) \/ Close(n) \/ Remove(n)
  \/ \E n \in Names, off \in Offsets, size \in Sizes :
       \/ Read(n, off, size)
       \/ \E v \in Bytes : Write(n, off, size, v)

Spec == Init /\ [][Next]_vars

=============================================================================
