----------------------------- MODULE FileSystem -----------------------------
(***************************************************************************)
(* The tree of the virtual file system: lookup_path, vfs_open, vfs_mkdir   *)
(* and vfs_mount of lib/vfs.c with the directory operations of tmpfs,      *)
(* devfs and initramfs (lib/tmpfs.c, lib/devfs.c, lib/cpio.c), and the     *)
(* system calls of a program that has a working directory.                 *)
(*                                                                         *)
(* Every system call runs with interrupts masked, and the shell alone, so  *)
(* each call is one step.  A path is the same object to the code whichever *)
(* task uses it, but for cwd: one program is followed, and what the shell  *)
(* and all others do to the tree goes with it.                             *)
(*                                                                         *)
(* The operators work on a tree and return the tree after the call, as the *)
(* initial tree is made by the calls of main.  PathTranslation takes paths *)
(* apart, Cpio reads the archive.                                          *)
(***************************************************************************)
EXTENDS PathTranslation, Cpio

CONSTANTS
  InitramfsName,   \* "initramfs", the name mounted at boot and special-cased
  DevName,         \* "dev", likewise
  UartName,        \* "uart", the file of devfs
  Texts,           \* what programs open, write and make directories at
  MountTexts,      \* where programs mount
  ChdirTexts,      \* where programs change to
  Skips,           \* where the loop of lookup_path may start
  MaxEntry,        \* TMPFS_MAX_ENTRY
  MaxVnodes        \* bound: how many vnodes are created

ASSUME FileSystemAssumption ==
  /\ {InitramfsName, DevName, UartName} \subseteq Names
  /\ InitramfsName # DevName
  /\ Texts \cup MountTexts \cup ChdirTexts \subseteq Seq(Tokens)
  /\ \A text \in Texts \cup MountTexts \cup ChdirTexts : WellFormed(text)
  /\ \A i \in DOMAIN Archive : Archive[i].path \in Seq(Tokens) \ {<<>>}
  /\ Skips \subseteq Nat
  /\ MaxEntry \in Nat \ {0}
  /\ MaxVnodes \in Nat

VARIABLES
  tree,      \* the vnodes, rootfs->root and the static variable mounted
  cwd,       \* the working directory of the program
  boot,      \* how many file systems main has mounted
  damaged,   \* an open made a file of a vnode that it had not created
  fault      \* a NULL pointer was followed

vars == <<tree, cwd, boot, damaged, fault>>

None == 0

(* What component->data points to: nothing, a block that a write allocated *)
(* or else the offset of a file of the archive.                            *)
NoData == 0
HeapBlock == 1

-----------------------------------------------------------------------------
(* A vnode with its component.  entries and data share their memory, which *)
(* is cleared when an open writes data; len is both the number of entries  *)
(* and the size of the file.                                               *)
NewVnode(name, type, fs) ==
  [name |-> name, type |-> type, fs |-> fs, len |-> 0,
   entries |-> <<>>, data |-> NoData, mount |-> None]

Vnodes(t) == 1..Len(t.node)

(* The next vnode to be created.                                           *)
Fresh(t) == Len(t.node) + 1

IsDir(t, v) == t.node[v].type = "DIR"

(* Fault: a mount on the entry is left to lookup_path.                     *)
TmpfsLookupBare(t, dir, name) ==
  LET i == SelectInSeq(t.node[dir].entries, LAMBDA e : t.node[e].name = name)
  IN IF ~IsDir(t, dir) \/ i = 0 THEN None ELSE t.node[dir].entries[i]

(* tmpfs_lookup, the lookup of all file systems: the entry of that name    *)
(* or, if something is mounted on it, the root of what is mounted.         *)
TmpfsLookup(t, dir, name) ==
  LET entries == t.node[dir].entries
      i == SelectInSeq(entries, LAMBDA e : t.node[e].name = name)
  IN IF ~IsDir(t, dir) \/ i = 0 THEN None
     ELSE IF t.node[entries[i]].mount = None THEN entries[i]
     ELSE t.node[entries[i]].mount

(* Fault: the array of entries is allocated anew for each of them.         *)
AddEntryAnew(t, dir, vnode) ==
  LET d == [t.node[dir] EXCEPT !.entries = <<Fresh(t)>>, !.len = @ + 1]
  IN [t EXCEPT !.node = Append([@ EXCEPT ![dir] = d], vnode)]

(* tmpfs_create of a new name.                                             *)
AddEntry(t, dir, vnode) ==
  LET d == [t.node[dir] EXCEPT !.entries = Append(@, Fresh(t)), !.len = @ + 1]
  IN [t EXCEPT !.node = Append([@ EXCEPT ![dir] = d], vnode)]

(* devfs_mkdir, and initramfs_mkdir after the first mount, create nothing. *)
Refuses(t, dir) ==
  \/ t.node[dir].fs = "devfs"
  \/ t.node[dir].fs = "initramfs" /\ t.mounted

(* Fault: mkdir does not look for the name first.                          *)
MkdirInBlind(t, dir, name, target) ==
  IF Refuses(t, dir) \/ ~IsDir(t, dir) \/ t.node[dir].len >= MaxEntry
  THEN [tree |-> t, ok |-> FALSE, target |-> target]
  ELSE [tree |-> AddEntry(t, dir, NewVnode(name, "DIR", t.node[dir].fs)),
        ok |-> TRUE, target |-> Fresh(t)]

(* v_ops->mkdir of a directory: the entry that exists or a new one.  If it *)
(* fails it leaves target as it was.                                       *)
MkdirIn(t, dir, name, target) ==
  LET found == TmpfsLookup(t, dir, name) IN
  IF Refuses(t, dir) \/ ~IsDir(t, dir)
  THEN [tree |-> t, ok |-> FALSE, target |-> target]
  ELSE IF found # None THEN [tree |-> t, ok |-> TRUE, target |-> found]
  ELSE IF t.node[dir].len >= MaxEntry
  THEN [tree |-> t, ok |-> FALSE, target |-> target]
  ELSE [tree |-> AddEntry(t, dir, NewVnode(name, "DIR", t.node[dir].fs)),
        ok |-> TRUE, target |-> Fresh(t)]

(* lookup_path(path, start, &target, 1): mkdir for each component that is  *)
(* not blank, from the skip-th on.  After a mkdir that fails the loop goes *)
(* on in the same directory, and the result is 0 in any case.              *)
MakeComponent(before, name) ==
  LET o == MkdirIn(before.tree, before.dir, name, before.target) IN
  [tree |-> o.tree, target |-> o.target, dir |-> IF o.ok THEN o.target ELSE before.dir]

CreatePath(t, start, path, skip, target) ==
  LET comps == Split(path)
      made[n \in 0..Len(comps)] ==
        IF n = 0 THEN [tree |-> t, target |-> target, dir |-> start]
        ELSE IF n <= skip \/ comps[n] = Blank THEN made[n - 1]
        ELSE MakeComponent(made[n - 1], comps[n])
  IN made[Len(comps)]

(* Where lookup_path goes on from a vnode: in what is mounted on it.       *)
Enter(t, vnode) ==
  LET enter[v \in Vnodes(t)] ==
        IF t.node[v].mount = None THEN v ELSE enter[t.node[v].mount]
  IN enter[vnode]

(* lookup_path(path, root, &target, 0), component by component.  target is *)
(* the last vnode found, also if the path is not; None if the first        *)
(* component is not.                                                       *)
FindComponent(t, before, name) ==
  LET dir == IF before.target = None THEN t.root ELSE before.target
      entry == TmpfsLookup(t, Enter(t, dir), name)
  IN IF before.ok /\ IsDir(t, dir) /\ entry # None
     THEN [ok |-> TRUE, target |-> entry]
     ELSE [before EXCEPT !.ok = FALSE]

Found(t, comps) ==
  LET found[n \in 0..Len(comps)] ==
        IF n = 0 THEN [ok |-> TRUE, target |-> None]
        ELSE FindComponent(t, found[n - 1], comps[n])
  IN found

Search(t, comps) == Found(t, comps)[Len(comps)]

(* vfs_lookup.                                                             *)
Lookup(t, path) ==
  IF path = <<Slash>> THEN [ok |-> TRUE, target |-> t.root] ELSE Search(t, SearchComps(path))

-----------------------------------------------------------------------------
(* vfs_mkdir: whatever is found, the components that do not exist are made.*)
Mkdir(t, path, skip) == CreatePath(t, t.root, path, skip, None).tree

(* A vnode becomes an empty file: its type and the first word of its       *)
(* component are written, its len is not.                                  *)
MakeFile(t, vnode) ==
  [t EXCEPT !.node[vnode] = [@ EXCEPT !.type = "FILE", !.entries = <<>>, !.data = NoData]]

(* vfs_open(path, O_CREAT): what is not found is made, starting with the   *)
(* target that vfs_lookup left, and the last vnode becomes a file.  ok if  *)
(* the file is then open; null if there is no last vnode.                  *)
OpenCreate(t, path, skip) ==
  LET found == Lookup(t, path)
      made == CreatePath(t, t.root, path, skip, found.target)
  IN IF found.ok
     THEN [tree |-> t, ok |-> ~IsDir(t, found.target), vnode |-> found.target, null |-> FALSE]
     ELSE IF made.target = None
     THEN [tree |-> made.tree, ok |-> FALSE, vnode |-> None, null |-> TRUE]
     ELSE [tree |-> MakeFile(made.tree, made.target), ok |-> TRUE, vnode |-> made.target,
           null |-> FALSE]

(* What all setup_mounts begin with.                                       *)
NewRoot(t, fs) == [t EXCEPT !.node = Append(@, NewVnode("", "DIR", fs))]

(* A file of the list.  If its path can not be made, it replaces what the  *)
(* file before it had made.                                                *)
AddArchived(before, start, file) ==
  LET made == CreatePath(before.tree, start, file.path, 0, before.target) IN
  [tree |-> [MakeFile(made.tree, made.target) EXCEPT
               !.node[made.target] = [@ EXCEPT !.data = file.data, !.len = file.size]],
   target |-> made.target]

(* A new mount: initramfs is empty, but see BootMount.                     *)
Setup(t, fs) ==
  IF fs = "devfs"
  THEN AddEntry(NewRoot(t, "devfs"), Fresh(t), NewVnode(UartName, "FILE", "devfs"))
  ELSE NewRoot(t, fs)

(* Fault: the directories of the archive, of size 0, become files too.     *)
InsertAll(t, root, garbage) ==
  LET files == Front(CpioParse(garbage))
      filled[n \in 0..Len(files)] ==
        IF n = 0 THEN [tree |-> t, target |-> None]
        ELSE AddArchived(filled[n - 1], root, files[n])
  IN [filled[Len(files)].tree EXCEPT !.mounted = TRUE]

(* The second part of initramfs_setup_mount, only on the first mount: all  *)
(* files of the list with data are inserted, but for the last.             *)
Insert(t, root, garbage) ==
  LET files == Front(CpioParse(garbage))
      filled[n \in 0..Len(files)] ==
        IF n = 0 THEN [tree |-> t, target |-> None]
        ELSE IF files[n].size > 0 THEN AddArchived(filled[n - 1], root, files[n])
        ELSE filled[n - 1]
  IN [filled[Len(files)].tree EXCEPT !.mounted = TRUE]

(* A file system is mounted on a vnode.  A second mount on a path is put   *)
(* on the root of the first one, a third one takes the place of the second.*)
MountOn(t, vnode, fs) == [Setup(t, fs) EXCEPT !.node[vnode].mount = Fresh(t)]

(* vfs_mount(path, "tmpfs"): the root of everything is replaced; the two   *)
(* special names are made and get their own file systems, whatever the     *)
(* argument; other paths must exist.  (Another argument than "tmpfs" makes *)
(* the code call a setup_mount that nobody has set, vfs.c:19-20.)          *)
InitramfsPath == <<Slash, InitramfsName>>
DevPath == <<Slash, DevName>>

Special(path) == path \in {InitramfsPath, DevPath}

Prepared(t, path) == IF Special(path) THEN Mkdir(t, path, 0) ELSE t

MountAt(t, path) ==
  LET found == Lookup(t, path)
      fs == CASE path = InitramfsPath -> "initramfs"
              [] path = DevPath -> "devfs"
              [] OTHER -> "tmpfs"
  IN IF path = <<Slash>> THEN [NewRoot(t, "tmpfs") EXCEPT !.root = Fresh(t)]
     ELSE IF found.ok THEN MountOn(t, found.target, fs)
     ELSE t

-----------------------------------------------------------------------------
(* The first of the three mounts of main, vfs_mount("/", "tmpfs").         *)
Init ==
  /\ tree = NewRoot([node |-> <<>>, root |-> 1, mounted |-> FALSE], "tmpfs")
  /\ cwd = <<Slash>>
  /\ boot = 1
  /\ damaged = FALSE
  /\ fault = FALSE

(* The other two, before any program or the shell runs: initramfs, with    *)
(* the files of the archive, and devfs.                                    *)
BootMount ==
  /\ \/ /\ boot = 1
        /\ \E t \in {Prepared(tree, InitramfsPath)}, garbage \in Garbage :
           \E mounted \in {MountAt(t, InitramfsPath)} :
             tree' = Insert(mounted, Len(mounted.node), garbage)
     \/ /\ boot = 2
        /\ \E t \in {Prepared(tree, DevPath)} : tree' = MountAt(t, DevPath)
  /\ boot' = boot + 1
  /\ UNCHANGED <<cwd, damaged, fault>>

Running == boot = 3 /\ ~fault

(* The path of a call: the shell passes what it has read, the system calls *)
(* translate it.                                                           *)
PathsOf(text) == {text, AbsPath(cwd, text)}

(* The mkdir system call and shell command.                                *)
MkdirCall(text) ==
  /\ Running
  /\ \E path \in PathsOf(text), skip \in Skips : tree' = Mkdir(tree, path, skip)
  /\ Len(tree'.node) <= MaxVnodes
  /\ UNCHANGED <<cwd, boot, damaged, fault>>

(* The open system call with O_CREAT and the shell command open.           *)
OpenCall(text) ==
  /\ Running
  /\ \E path \in PathsOf(text), skip \in Skips : \E o \in {OpenCreate(tree, path, skip)} :
       /\ tree' = o.tree
       /\ fault' = o.null
       /\ damaged' = (damaged \/ (o.tree # tree /\ o.vnode \in Vnodes(tree)))
  /\ Len(tree'.node) <= MaxVnodes
  /\ UNCHANGED <<cwd, boot>>

(* open without O_CREAT and write of one byte.  Only tmpfs files change:   *)
(* an empty one gets memory, one that lost its memory is written at NULL.  *)
WriteCall(text) ==
  LET found == Lookup(tree, AbsPath(cwd, text))
      v == found.target
  IN
  /\ Running
  /\ found.ok
  /\ ~IsDir(tree, v)
  /\ tree.node[v].fs = "tmpfs"
  /\ \/ /\ tree.node[v].len = 0
        /\ tree' = [tree EXCEPT !.node[v] = [@ EXCEPT !.len = 1, !.data = HeapBlock]]
        /\ UNCHANGED fault
     \/ /\ tree.node[v].len > 0
        /\ fault' = (tree.node[v].data = NoData)
        /\ UNCHANGED tree
  /\ UNCHANGED <<cwd, boot, damaged>>

(* The mount system call and shell command.                                *)
MountCall(text) ==
  /\ Running
  /\ \E path \in PathsOf(text) :
       \E t \in {Prepared(tree, path)} : tree' = MountAt(t, path)
  /\ Len(tree'.node) <= MaxVnodes
  /\ UNCHANGED <<cwd, boot, damaged, fault>>

(* Fault: no slash is appended.                                            *)
ChdirCallBare(text) ==
  LET path == AbsPath(cwd, text) IN
  /\ Running
  /\ Lookup(tree, path).ok
  /\ cwd' = path
  /\ UNCHANGED <<tree, boot, damaged, fault>>

(* The chdir system call.  Anything that is found will do, also a file.    *)
ChdirCall(text) ==
  LET path == AbsPath(cwd, text) IN
  /\ Running
  /\ Lookup(tree, path).ok
  /\ cwd' = IF Last(path) = Slash THEN path ELSE Append(path, Slash)
  /\ UNCHANGED <<tree, boot, damaged, fault>>

(* The program forks and its child is followed: a task begins in "/".      *)
TaskCreate ==
  /\ Running
  /\ cwd' = <<Slash>>
  /\ UNCHANGED <<tree, boot, damaged, fault>>

Next ==
  \/ BootMount
  \/ \E text \in Texts : MkdirCall(text) \/ OpenCall(text) \/ WriteCall(text)
  \/ \E text \in MountTexts : MountCall(text)
  \/ \E text \in ChdirTexts : ChdirCall(text)
  \/ TaskCreate

Spec == Init /\ [][Next]_vars

-----------------------------------------------------------------------------
(* The vnodes form trees, whatever the calls: entries and mounts are       *)
(* vnodes; a directory has as many entries as its len says and no more     *)
(* than its array holds, none without a name and no name twice             *)
(* (tmpfs_create, tmpfs.c:147-169); a vnode has one place, as an entry, as *)
(* the root of a mount or as the root of everything; no directory or mount *)
(* leads back to an older vnode; and at most two mounts lie on each other  *)
(* (vfs_mount, vfs.c:23-74).                                               *)
Below(t, v) == ToSet(t.node[v].entries) \cup ({t.node[v].mount} \ {None})

DirShape(t, n) ==
  /\ n.len = Len(n.entries)
  /\ n.len <= MaxEntry
  /\ \A i \in DOMAIN n.entries : t.node[n.entries[i]].name # Blank
  /\ \A i, j \in DOMAIN n.entries :
       t.node[n.entries[i]].name = t.node[n.entries[j]].name => i = j

Shape(t) ==
  /\ t.root \in Vnodes(t)
  /\ t.node[t.root].mount = None
  /\ \A v \in Vnodes(t) :
       /\ t.node[v].type \in {"DIR", "FILE"}
       /\ IsDir(t, v) => DirShape(t, t.node[v])
       /\ \A c \in Below(t, v) : c \in Vnodes(t) /\ v < c
       /\ t.root \notin Below(t, v)
       /\ t.node[v].mount \notin ToSet(t.node[v].entries)
       /\ \A w \in Vnodes(t) \ {v} : Below(t, v) \cap Below(t, w) = {}
  /\ \A v, w, u \in Vnodes(t) :
       t.node[v].mount = w /\ t.node[w].mount = u => t.node[u].mount = None

TreeShape == Shape(tree)

(* A path that open can make: from the last directory that exists, which   *)
(* is one of tmpfs with room for an entry.  The loop that creates asks     *)
(* every directory on the way for mkdir, so none of them may refuse, as    *)
(* those of initramfs do.  Two mounts on one directory are left out: the   *)
(* loop enters only the first of them.  So are adjacent slashes, which the *)
(* search and the loop take differently.                                   *)
Clean(path) == path # <<>> /\ Blank \notin ToSet(SearchComps(path))

Longest(comps) ==
  CHOOSE k \in 0..Len(comps) :
    /\ Found(tree, comps)[k].ok
    /\ k < Len(comps) => ~Found(tree, comps)[k + 1].ok

Creatable(path) ==
  LET comps == SearchComps(path)
      k == Longest(comps)
      dir(j) == IF j = 0 THEN tree.root ELSE Found(tree, comps)[j].target
  IN
  /\ Clean(path)
  /\ IsDir(tree, dir(k))
  /\ tree.node[dir(k)].fs = "tmpfs"
  /\ tree.node[dir(k)].len < MaxEntry
  /\ \A j \in 0..k :
       /\ ~Refuses(tree, dir(j))
       /\ tree.node[dir(j)].mount # None =>
            \A v \in Vnodes(tree) : tree.node[v].mount # dir(j)

(* What open(O_CREAT) makes is found again at the same path, and is an     *)
(* empty file of its own (lookup_path walks the path in two different      *)
(* ways, vfs.c:91-118, which must agree on components and on mounts).      *)
CreatedIsFound ==
  \A path \in UNION {PathsOf(text) : text \in Texts}, skip \in Skips :
    Running /\ ~Lookup(tree, path).ok /\ Creatable(path) =>
      \A o \in {OpenCreate(tree, path, skip)} :
        /\ o.ok
        /\ o.vnode \notin Vnodes(tree)
        /\ Lookup(o.tree, path) = [ok |-> TRUE, target |-> o.vnode]
        /\ ~IsDir(o.tree, o.vnode)
        /\ o.tree.node[o.vnode].len = 0

(* The step mounts something on the way of a path.                         *)
Covered(path) ==
  LET comps == SearchComps(path) IN
  \/ tree'.root # tree.root
  \/ \E k \in 1..Len(comps) :
       LET found == Found(tree, comps)[k] IN
       found.ok /\ tree'.node[found.target].mount # tree.node[found.target].mount

(* A path that is found keeps its vnode and its type, whatever is made     *)
(* elsewhere in the tree, the working directory among them: only a mount   *)
(* on the way changes what it names (tmpfs_create, tmpfs.c:140-171,        *)
(* vfs_mount, vfs.c:23-74), as long as no open has made a file of a vnode  *)
(* that it had not created.                                                *)
PathsKept ==
  [][\A path \in Texts \cup {cwd} :
       ~damaged' /\ Lookup(tree, path).ok /\ ~Covered(path) =>
         LET v == Lookup(tree, path).target IN
         /\ Lookup(tree', path) = [ok |-> TRUE, target |-> v]
         /\ tree'.node[v].type = tree.node[v].type]_vars

(* What a program calls a name in its working directory is the entry of    *)
(* that name in the directory which cwd leads to (sysc_chdir,              *)
(* exception.c:305-318, to_abs_path, vfs.c:246-293), whatever it has       *)
(* changed to and whatever was mounted since: cwd stays a text that        *)
(* to_abs_path accepts and that the search and the tokenizer take alike.   *)
(* But for a directory that is called ".." or ".": mkdir makes one and     *)
(* chdir goes to it, if the path begins with a slash.                      *)
RelativeIsInside ==
  Running /\ Lookup(tree, cwd).ok /\ {ParentDir, CurrentDir} \cap ToSet(cwd) = {} =>
    \A name \in {tree.node[v].name : v \in Vnodes(tree)} \ {Blank, ParentDir, CurrentDir} :
      LET dir == Lookup(tree, cwd).target IN
      Lookup(tree, AbsPath(cwd, <<name>>)).ok =
        (IsDir(tree, dir) /\ TmpfsLookup(tree, Enter(tree, dir), name) # None)

(* to_abs_path returns the path in which every ".." has cancelled the name *)
(* before it, and only ".." that lead above the root are left (vfs.c:      *)
(* 266-285), for every working directory that a program gets into.  A path *)
(* that ends with a slash or with "." is left out: the loop runs over it.  *)
AbsPathCanonical ==
  \A text \in Texts \cup ChdirTexts :
    text # <<>> /\ text[1] # Slash /\ Last(text) \notin {Slash, CurrentDir} =>
      AbsPath(cwd, text) = Join(Canonical(Split(cwd \o text)))

(* The files of the archive which are inserted: those with data, but not   *)
(* the last file.                                                          *)
Inserted == {i \in 1..Len(Archive) - 1 : Archive[i].size > 0}

(* The archive of a file tree: no path of a file with data is the way to   *)
(* another one, each is a row of names, and no directory is larger than    *)
(* tmpfs makes them.                                                       *)
WithData == {i \in DOMAIN Archive : Archive[i].size > 0}

NamesOf(i) == SearchComps(Archive[i].path)

EntriesBehind(i, k) ==
  {NamesOf(j)[k + 1] :
     j \in {j \in Inserted : k < Len(NamesOf(j)) /\ \A m \in 1..k : NamesOf(j)[m] = NamesOf(i)[m]}}

ArchiveFits ==
  /\ \A i \in WithData :
       LET path == Archive[i].path IN
       WellFormed(path) /\ Clean(path) /\ Last(path) # Slash
  /\ \A i, j \in WithData : i # j => ~IsPrefix(NamesOf(i), NamesOf(j))
  /\ \A i \in Inserted : \A k \in 0..Len(NamesOf(i)) - 1 :
       Cardinality(EntriesBehind(i, k)) <= MaxEntry

(* The files of the archive which are inserted keep their data, also when  *)
(* initramfs or the root is mounted again (cpio.c:189-206), as long as no  *)
(* open has made a file of a vnode that it had not created; they are found *)
(* as soon as main has mounted initramfs.                                  *)
ArchiveIntact ==
  \A i \in Inserted :
    /\ boot > 1 /\ ~damaged =>
         \E v \in Vnodes(tree) :
           tree.node[v] = [NewVnode(Last(Archive[i].path), "FILE", "initramfs") EXCEPT
                             !.data = DataAt(i), !.len = RoundUp(Archive[i].size),
                             !.mount = tree.node[v].mount]
    /\ boot = 2 => Lookup(tree, InitramfsPath \o <<Slash>> \o Archive[i].path).ok

(* The shell and the file system read the same archive: whatever the       *)
(* uninitialised digit of read_header (cpio.c:82-89), cpio_ls prints every *)
(* file, and cpio_cat and load_program, which fill up names in another way *)
(* than cpio_parse (cpio.c:38, 98), find the data that initramfs shows     *)
(* under the path.                                                         *)
WalksAgree ==
  boot = 2 =>
    \A garbage \in Garbage :
      /\ CpioLs(garbage) = [i \in DOMAIN Archive |-> Archive[i].path]
      /\ \A i \in DOMAIN Archive :
           Archive[i].size > 0 =>
             LET shown == Lookup(tree, InitramfsPath \o <<Slash>> \o Archive[i].path)
                 file == CpioCat(Archive[i].path, garbage)
             IN
             /\ file = [path |-> Archive[i].path, data |-> DataAt(i),
                        size |-> RoundUp(Archive[i].size)]
             /\ LoadProgram(Archive[i].path, garbage) =
                  IF file.size > MaxProgramSize THEN Lost ELSE file
             /\ i \in Inserted =>
                  shown.ok /\ tree.node[shown.target].data = file.data

(* A directory never becomes a file: when the path of a new file can not   *)
(* be made, "create new file error" is reported (vfs.c:143).               *)
DirectoriesStay ==
  [][\A v \in Vnodes(tree) : IsDir(tree, v) => IsDir(tree', v)]_vars

=============================================================================
