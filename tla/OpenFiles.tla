----------------------------- MODULE OpenFiles -----------------------------
(***************************************************************************)
(* Open files: the file descriptor tables of the tasks (sysc_open to       *)
(* sysc_read of lib/exception.c), the file handles and the contents of     *)
(* tmpfs files (lib/tmpfs.c).                                              *)
(*                                                                         *)
(* A system call runs with interrupts masked, so each is one step; calls   *)
(* of several tasks interleave, and one file may be open many times.  The  *)
(* tree in which vfs_open finds a file is module FileSystem: here a path   *)
(* is a file that exists or does not.  A handle belongs to one descriptor  *)
(* of one task, as fork opens new ones for the child, so it is kept in the *)
(* descriptor table.                                                       *)
(***************************************************************************)
EXTENDS Integers

CONSTANTS
  Tasks,
  Files,     \* the paths that programs open, other than /dev/uart
  Uart,      \* the file of devfs
  Bytes,
  Unwritten, \* what memory holds that was not written
  NoFile,    \* NULL
  MaxFile,   \* TMPFS_MAX_FILE_SIZE
  MaxOpen,   \* VFS_PROCESS_MAX_OPEN_FILE
  Standard,  \* how many descriptors task_create opens
  MaxBuffer  \* bound: the longest buffer of a read or write

ASSUME OpenFilesAssumption ==
  /\ Uart \notin Files
  /\ NoFile \notin [file : Files \cup {Uart}, pos : Nat]
  /\ Unwritten \notin Bytes
  /\ MaxFile \in Nat /\ MaxOpen \in Nat /\ Standard \in Nat /\ MaxBuffer \in Nat

VARIABLES
  exists,    \* the files that have been created
  len,       \* component->len of each file
  data,      \* component->data: the block of len bytes
  fd_table,  \* the file handles of each task, or NoFile
  crash      \* "null": a handle that is NULL was followed, "overrun": a
             \* write left its block

fileVars == <<exists, len, data, fd_table, crash>>

Descriptors == 0..MaxOpen - 1

Intact == crash = "none"

FilesInit ==
  /\ exists = {}
  /\ len = [f \in Files |-> 0]
  /\ data = [f \in Files |-> <<>>]
  /\ fd_table = [t \in Tasks |-> [fd \in Descriptors |->
                   IF fd < Standard THEN [file |-> Uart, pos |-> 0] ELSE NoFile]]
  /\ crash = "none"

-----------------------------------------------------------------------------
Idle(t) == {fd \in Descriptors : fd_table[t][fd] = NoFile}

(* get_task_idle_fd.                                                       *)
IdleFd(t) == CHOOSE fd \in Idle(t) : \A other \in Idle(t) : fd <= other

(* Fault: O_CREAT of a file that exists empties it.                        *)
OpenTruncating(t, f, creat) ==
  /\ Intact
  /\ Idle(t) # {}
  /\ IF f \in exists \cup {Uart} \/ creat
     THEN /\ exists' = exists \cup ({f} \ {Uart})
          /\ fd_table' = [fd_table EXCEPT ![t][IdleFd(t)] = [file |-> f, pos |-> 0]]
     ELSE UNCHANGED <<exists, fd_table>>
  /\ len' = [g \in Files |-> IF g = f /\ creat THEN 0 ELSE len[g]]
  /\ data' = [g \in Files |-> IF g = f /\ creat THEN <<>> ELSE data[g]]
  /\ UNCHANGED crash

(* sysc_open: the lowest idle descriptor.  If the file can not be opened,  *)
(* NULL is stored and the descriptor is returned all the same.             *)
Open(t, f, creat) ==
  /\ Intact
  /\ Idle(t) # {}
  /\ IF f \in exists \cup {Uart} \/ creat
     THEN /\ exists' = exists \cup ({f} \ {Uart})
          /\ fd_table' = [fd_table EXCEPT ![t][IdleFd(t)] = [file |-> f, pos |-> 0]]
     ELSE UNCHANGED <<exists, fd_table>>
  /\ UNCHANGED <<len, data, crash>>

(* A call with a descriptor that is not open follows NULL.                 *)
CallClosed(t, fd) ==
  /\ Intact
  /\ fd_table[t][fd] = NoFile
  /\ crash' = "null"
  /\ UNCHANGED <<exists, len, data, fd_table>>

(* sysc_close: the handle is freed.                                        *)
Close(t, fd) ==
  /\ Intact
  /\ fd_table[t][fd] # NoFile
  /\ fd_table' = [fd_table EXCEPT ![t][fd] = NoFile]
  /\ UNCHANGED <<exists, len, data, crash>>

-----------------------------------------------------------------------------
Minimum(a, b) == IF a < b THEN a ELSE b

(* The block of a file as tmpfs_write leaves it before it copies the       *)
(* buffer: a larger one, with what the old one held, if the file grows.    *)
NewLen(f, end) ==
  IF end > len[f] /\ len[f] < MaxFile THEN Minimum(end, MaxFile) ELSE len[f]

(* Fault: what the old block held is not copied.                           *)
BlockUncopied(f, end) ==
  [i \in 1..NewLen(f, end) |-> IF NewLen(f, end) = len[f] THEN data[f][i] ELSE Unwritten]

Block(f, end) ==
  [i \in 1..NewLen(f, end) |-> IF i <= len[f] THEN data[f][i] ELSE Unwritten]

(* Fault: the copy is not cut at the largest size of a file.               *)
WritableUncut(pos, n) == n

(* How many bytes tmpfs_write copies.                                      *)
Writable(pos, n) == IF pos + n >= MaxFile THEN MaxFile - pos ELSE n

(* sysc_write on a tmpfs file.  devfs_write and devfs_read change nothing   *)
(* that is kept: they send to the UART and wait for it.                    *)
Write(t, fd, size, buf) ==
  LET f == fd_table[t][fd].file
      pos == fd_table[t][fd].pos
      n == Writable(pos, size)
      block == Block(f, pos + size)
      end == NewLen(f, pos + size)
  IN /\ Intact
     /\ fd_table[t][fd] # NoFile
     /\ f # Uart
     /\ len' = [len EXCEPT ![f] = end]
     /\ data' = [data EXCEPT ![f] =
                   [i \in 1..end |-> IF i \in pos + 1..pos + n THEN buf[i - pos] ELSE block[i]]]
     /\ crash' = IF pos + n > end THEN "overrun" ELSE "none"
     /\ fd_table' = [fd_table EXCEPT ![t][fd].pos = pos + n]
     /\ UNCHANGED exists

(* Fault: a read is not limited to what the file has.                      *)
ReadableUncut(f, pos, n) == n

(* How many bytes tmpfs_read copies, and where it takes them: always from  *)
(* the start of the file.                                                  *)
Readable(f, pos, n) == IF pos + n >= len[f] THEN len[f] - pos ELSE n

BytesRead(f, pos, n) == [i \in 1..Readable(f, pos, n) |-> data[f][i]]

(* sysc_read on a tmpfs file, into a buffer of n bytes.                    *)
Read(t, fd, n) ==
  LET f == fd_table[t][fd].file
      pos == fd_table[t][fd].pos
  IN /\ Intact
     /\ fd_table[t][fd] # NoFile
     /\ f # Uart
     /\ fd_table' = [fd_table EXCEPT ![t][fd].pos = pos + Readable(f, pos, n)]
     /\ UNCHANGED <<exists, len, data, crash>>

FilesNext ==
  \E t \in Tasks :
    \/ \E f \in Files \cup {Uart}, creat \in BOOLEAN : Open(t, f, creat)
    \/ \E fd \in Descriptors :
         \/ CallClosed(t, fd)
         \/ Close(t, fd)
         \/ \E size \in 0..MaxBuffer : \E buf \in [1..size -> Bytes] : Write(t, fd, size, buf)
         \/ \E n \in 0..MaxBuffer : Read(t, fd, n)

FilesSpec == FilesInit /\ [][FilesNext]_fileVars

-----------------------------------------------------------------------------
(* Types: contents with a length up to TMPFS_MAX_FILE_SIZE, and handles of *)
(* files (vfs.h:41-46).                                                    *)
TypeOK ==
  /\ exists \subseteq Files
  /\ len \in [Files -> 0..MaxFile]
  /\ DOMAIN data = Files
  /\ \A f \in Files : data[f] \in [1..len[f] -> Bytes \cup {Unwritten}]
  /\ fd_table \in [Tasks -> [Descriptors -> [file : Files \cup {Uart}, pos : Nat] \cup {NoFile}]]
  /\ crash \in {"none", "null", "overrun"}

(* The position of a handle is never behind the end of its file, although  *)
(* other handles, of other tasks, write to the same file: len - f_pos, the *)
(* unsigned number of bytes that tmpfs_read copies, and MAX - f_pos of     *)
(* tmpfs_write do not wrap around (tmpfs.c:69, 96).                        *)
PosInFile ==
  \A t \in Tasks, fd \in Descriptors :
    LET h == fd_table[t][fd] IN
    h # NoFile => h.pos <= (IF h.file = Uart THEN 0 ELSE len[h.file])

(* Every byte of a file was written by a task: no write leaves a byte of   *)
(* the new block as malloc_ returned it (tmpfs.c:57-70).                   *)
BytesWritten ==
  \A f \in Files : \A i \in 1..len[f] : data[f][i] \in Bytes

(* A step changes at most the bytes from the position of one handle up to  *)
(* where it leaves it, of one file; other bytes stay, also when the file   *)
(* moves to a larger block (tmpfs.c:58-68).                                *)
OtherBytesKept ==
  [][\A f \in Files : \A i \in 1..len[f] :
       \/ i <= len'[f] /\ data'[f][i] = data[f][i]
       \/ \E t \in Tasks, fd \in Descriptors :
            /\ fd_table[t][fd] # NoFile
            /\ fd_table[t][fd].file = f
            /\ fd_table'[t][fd] # NoFile
            /\ i \in fd_table[t][fd].pos + 1..fd_table'[t][fd].pos]_fileVars

(* No write leaves its block, wherever other handles have moved the end of *)
(* the file (tmpfs.c:59-70).                                               *)
WritesInBlock == crash # "overrun"

(* "RW position of this file handle" (vfs.h:43): a read returns the bytes  *)
(* at the position of the handle (tmpfs.c:97).                             *)
ReadAtPosition ==
  \A t \in Tasks, fd \in Descriptors, n \in 0..MaxBuffer :
    LET h == fd_table[t][fd] IN
    h # NoFile /\ h.file # Uart =>
      \A i \in DOMAIN BytesRead(h.file, h.pos, n) :
        BytesRead(h.file, h.pos, n)[i] = data[h.file][h.pos + i]

=============================================================================
