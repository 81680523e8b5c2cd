----------------------------- MODULE VfsProofs -----------------------------
(***************************************************************************)
(* Proofs about the virtual file system.                                   *)
(*                                                                         *)
(* Module FileSystem, for every archive, every set of paths and every      *)
(* bound: the vnodes form trees whatever the calls (TreeShape), and a path *)
(* that is found keeps its vnode until something is mounted on its way     *)
(* (PathsKept).  The invariant is about the tree as a whole; what the      *)
(* calls do to it is one of four changes, each with its lemma: a vnode     *)
(* without a place (AppendVnode), an entry (AddEntryAdds), a vnode that is *)
(* written (WriteVnode), another root (NewRootShape).  The recursions over *)
(* paths and over the archive are shown to exist step by step with         *)
(* DataLemmas!Solvable, from what one step does.                           *)
(*                                                                         *)
(* A path is taken apart in three ways, by the search, by the loop that    *)
(* creates and by the tokenizer; they are compared by counting the names   *)
(* of the text (Counts, Skims).  So what open creates is found             *)
(* (CreatedIsFound), and a relative name leads into the directory that cwd *)
(* leads to (RelativeIsInside).  The stack of to_abs_path holds the names  *)
(* that no ".." has cancelled (DataLemmas!Stacked), so a relative path     *)
(* becomes the one that its names spell (AbsPathCanonical).                *)
(*                                                                         *)
(* The walks through the archive agree with each other and with the tree   *)
(* that boot makes of it (WalksAgree), and every file with data keeps its  *)
(* place and its data after boot (ArchiveIntact), for every archive of a   *)
(* file tree (ArchiveFits): behind the root of the mount every vnode is    *)
(* named by the beginning of a path of the archive (Labels).               *)
(*                                                                         *)
(* Module OpenFiles, for every number of tasks, descriptors and files and  *)
(* every limit: positions stay in their files, every byte of a file was    *)
(* written, and no write leaves its block.                                 *)
(***************************************************************************)
EXTENDS FileSystem, OpenFiles, DataLemmas, FiniteSetTheorems

-----------------------------------------------------------------------------
(* What cpio_parse puts into its list.                                     *)
Parsed(i, garbage) == FileAt(i, garbage, FALSE)

ParsedFiles == {Lost} \cup {Parsed(i, garbage) : i \in DOMAIN Archive, garbage \in Garbage}

(* Sizes, places of data: whatever stands in the headers.                  *)
Word == Nat \cup {f.data : f \in ParsedFiles} \cup {f.size : f \in ParsedFiles}

(* The file systems that vfs.c registers.                                  *)
FileSystems == {"tmpfs", "devfs", "initramfs"}

(* A vnode with its component.                                             *)
VnodeType ==
  [name : Names \cup {Blank}, type : {"DIR", "FILE"}, fs : FileSystems, len : Word, entries : Seq(Nat),
   data : Word, mount : Nat]

(* What the operators of FileSystem work on.                               *)
TreeType == [node : Seq(VnodeType), root : Nat, mounted : BOOLEAN]

(* A tree with a vnode more.                                               *)
Extends(t, u, vnode) ==
  /\ u \in TreeType
  /\ u.root = t.root
  /\ u.mounted = t.mounted
  /\ Len(u.node) = Len(t.node) + 1
  /\ u.node[Fresh(t)] = vnode
  /\ Fresh(t) \in Vnodes(u)
  /\ \A v \in Vnodes(t) : v \in Vnodes(u) /\ v < Fresh(t)
  /\ \A v \in Vnodes(u) : v \in Vnodes(t) \/ v = Fresh(t)

(* The other vnodes stay.                                                  *)
OthersStay(t, u, vnode) == \A v \in Vnodes(t) : v # vnode => u.node[v] = t.node[v]

(* The vnodes of a tree, and the next one that is created (tmpfs_create,   *)
(* tmpfs.c:156-166).                                                       *)
LEMMA TreeFacts ==
  ASSUME NEW t \in TreeType
  PROVE  /\ t.node \in Seq(VnodeType) /\ Len(t.node) \in Nat
         /\ t.root \in Nat /\ t.mounted \in BOOLEAN
         /\ \A v \in Vnodes(t) : t.node[v] \in VnodeType /\ v \in Nat \ {0} /\ v < Fresh(t)
         /\ Fresh(t) \in Nat \ {0} /\ Fresh(t) \notin Vnodes(t)
BY DEF TreeType, Vnodes, Fresh

(* A new vnode is one (tmpfs_create, tmpfs.c:156-166).                     *)
LEMMA NewVnodeType ==
  ASSUME NEW name \in Names \cup {Blank}, NEW type \in {"DIR", "FILE"}, NEW fs \in FileSystems
  PROVE  NewVnode(name, type, fs) \in VnodeType
BY DEF NewVnode, VnodeType, Word, None, NoData

(* What a new vnode without a place changes (tmpfs_setup_mount,            *)
(* tmpfs.c:6-35).                                                          *)
LEMMA AppendVnode ==
  ASSUME NEW t \in TreeType, NEW vnode \in VnodeType
  PROVE  /\ Extends(t, [t EXCEPT !.node = Append(@, vnode)], vnode)
         /\ OthersStay(t, [t EXCEPT !.node = Append(@, vnode)], 0)
<1> DEFINE node == Append(t.node, vnode)
           u == [t EXCEPT !.node = node]
<1>1. t.node \in Seq(VnodeType) /\ Len(t.node) \in Nat /\ t.root \in Nat /\ t.mounted \in BOOLEAN
  BY TreeFacts
<1>2. /\ node \in Seq(VnodeType) /\ Len(node) = Len(t.node) + 1
      /\ node[Len(t.node) + 1] = vnode /\ \A v \in 1..Len(t.node) : node[v] = t.node[v]
  BY <1>1, AppendProperties
<1> HIDE DEF node
<1>3. u.node = node /\ u.root = t.root /\ u.mounted = t.mounted
  BY DEF TreeType
<1>4. u \in TreeType
  BY <1>1, <1>2 DEF TreeType
<1> HIDE DEF u
<1>5. Extends(t, u, vnode)
  BY <1>1, <1>2, <1>3, <1>4 DEF Extends, Fresh, Vnodes
<1>6. OthersStay(t, u, 0)
  BY <1>1, <1>2, <1>3 DEF OthersStay, Vnodes
<1> QED
  BY <1>5, <1>6 DEF u, node

(* A vnode is written.                                                     *)
Written(t, u, v, vnode) ==
  /\ u \in TreeType
  /\ u.root = t.root
  /\ u.mounted = t.mounted
  /\ Len(u.node) = Len(t.node)
  /\ Vnodes(u) = Vnodes(t)
  /\ u.node[v] = vnode
  /\ OthersStay(t, u, v)

(* What writing a vnode changes (vfs_open, vfs.c:139-140).                 *)
LEMMA WriteVnode ==
  ASSUME NEW t \in TreeType, NEW v \in Vnodes(t), NEW vnode \in VnodeType
  PROVE  Written(t, [t EXCEPT !.node[v] = vnode], v, vnode)
<1> DEFINE node == [t.node EXCEPT ![v] = vnode]
           u == [t EXCEPT !.node = node]
<1>1. t.node \in Seq(VnodeType) /\ Len(t.node) \in Nat /\ t.root \in Nat /\ t.mounted \in BOOLEAN
  BY TreeFacts
<1>2. /\ node \in Seq(VnodeType) /\ Len(node) = Len(t.node)
      /\ node[v] = vnode /\ \A w \in 1..Len(t.node) : w # v => node[w] = t.node[w]
  BY <1>1 DEF Vnodes
<1> HIDE DEF node
<1>3. u.node = node /\ u.root = t.root /\ u.mounted = t.mounted
  BY DEF TreeType
<1>4. u \in TreeType
  BY <1>1, <1>2 DEF TreeType
<1>5. u = [t EXCEPT !.node[v] = vnode]
  BY DEF node
<1> HIDE DEF u
<1>6. Written(t, u, v, vnode)
  BY <1>1, <1>2, <1>3, <1>4 DEF Written, OthersStay, Vnodes
<1> QED
  BY <1>5, <1>6

(* Nothing is written at NULL.                                             *)
LEMMA WriteNone ==
  ASSUME NEW t \in TreeType, NEW vnode
  PROVE  [t EXCEPT !.node[None] = vnode] = t
<1>1. t.node \in Seq(VnodeType) /\ None \notin DOMAIN t.node
  BY TreeFacts DEF None
<1>2. [t.node EXCEPT ![None] = vnode] = t.node
  BY <1>1
<1> QED
  BY <1>2 DEF TreeType

(* A directory with one entry more (tmpfs_create, tmpfs.c:167-169).        *)
LEMMA WithEntry ==
  ASSUME NEW n \in VnodeType, NEW c \in Nat, n.len \in Nat
  PROVE  LET d == [n EXCEPT !.entries = Append(@, c), !.len = @ + 1] IN
         /\ d \in VnodeType
         /\ d.name = n.name /\ d.type = n.type /\ d.fs = n.fs /\ d.mount = n.mount
         /\ d.entries = Append(n.entries, c) /\ d.len = n.len + 1 /\ d.data = n.data
<1>1. n.len + 1 \in Word
  BY DEF Word
<1>2. Append(n.entries, c) \in Seq(Nat)
  BY AppendProperties DEF VnodeType
<1> QED
  BY <1>1, <1>2 DEF VnodeType

(* tmpfs_create.                                                           *)
Added(t, u, dir, vnode) ==
  /\ Extends(t, u, vnode)
  /\ OthersStay(t, u, dir)
  /\ u.node[dir].name = t.node[dir].name
  /\ u.node[dir].type = t.node[dir].type
  /\ u.node[dir].fs = t.node[dir].fs
  /\ u.node[dir].mount = t.node[dir].mount
  /\ u.node[dir].data = t.node[dir].data
  /\ u.node[dir].entries = Append(t.node[dir].entries, Fresh(t))
  /\ u.node[dir].len = t.node[dir].len + 1

(* tmpfs_create changes its directory and adds a vnode (tmpfs.c:140-171).  *)
LEMMA AddEntryAdds ==
  ASSUME NEW t \in TreeType, NEW dir \in Vnodes(t), t.node[dir].len \in Nat, NEW vnode \in VnodeType
  PROVE  Added(t, AddEntry(t, dir, vnode), dir, vnode)
<1> DEFINE d == [t.node[dir] EXCEPT !.entries = Append(@, Fresh(t)), !.len = @ + 1]
           w == [t EXCEPT !.node[dir] = d]
           u == [w EXCEPT !.node = Append(@, vnode)]
<1>1. /\ d \in VnodeType
      /\ d.name = t.node[dir].name /\ d.type = t.node[dir].type /\ d.fs = t.node[dir].fs
      /\ d.mount = t.node[dir].mount /\ d.data = t.node[dir].data
      /\ d.entries = Append(t.node[dir].entries, Fresh(t)) /\ d.len = t.node[dir].len + 1
  <2>1. t.node[dir] \in VnodeType /\ Fresh(t) \in Nat
    BY TreeFacts
  <2> QED
    BY <2>1, WithEntry
<1> HIDE DEF d
<1>2. Written(t, w, dir, d)
  BY <1>1, WriteVnode
<1>3. AddEntry(t, dir, vnode) = u
  BY DEF AddEntry, d, TreeType
<1> HIDE DEF w
<1>4. Extends(w, u, vnode) /\ OthersStay(w, u, 0)
  BY <1>2, AppendVnode DEF Written
<1> HIDE DEF u
<1>5. Fresh(w) = Fresh(t) /\ Vnodes(w) = Vnodes(t) /\ dir # 0 /\ 0 \notin Vnodes(t)
  BY <1>2, TreeFacts DEF Written, Fresh
<1>6. Extends(t, u, vnode)
  BY <1>2, <1>4, <1>5 DEF Extends, Written
<1>7. OthersStay(t, u, dir) /\ u.node[dir] = d
  BY <1>2, <1>4, <1>5 DEF OthersStay, Written
<1> QED
  BY <1>1, <1>3, <1>6, <1>7 DEF Added

(* Vnodes that are equal have the same below them.                         *)
LEMMA SameBelow ==
  ASSUME NEW t, NEW u, NEW v, NEW w, u.node[w].entries = t.node[v].entries, u.node[w].mount = t.node[v].mount
  PROVE  Below(u, w) = Below(t, v)
BY DEF Below

(* What is below a vnode: entries and what is mounted (vfs.h:23-38).       *)
LEMMA BelowFacts ==
  ASSUME NEW t, NEW v
  PROVE  /\ \A c \in Below(t, v) : c \in ToSet(t.node[v].entries) \/ (c = t.node[v].mount /\ c # None)
         /\ ToSet(t.node[v].entries) \subseteq Below(t, v)
         /\ t.node[v].mount # None => t.node[v].mount \in Below(t, v)
BY DEF Below

(* A new vnode has nothing below it.                                       *)
LEMMA NothingBelow ==
  ASSUME NEW t, NEW v, t.node[v].entries = <<>>, t.node[v].mount = None
  PROVE  Below(t, v) = {}
BY DEF Below, ToSet

(* The parts of Shape.                                                     *)
Placed(t, v) ==
  /\ t.node[v].type \in {"DIR", "FILE"}
  /\ \A c \in Below(t, v) : c \in Vnodes(t) /\ v < c
  /\ t.root \notin Below(t, v)
  /\ t.node[v].mount \notin ToSet(t.node[v].entries)

(* Nothing has two places in the tree.                                     *)
Apart(t) == \A v \in Vnodes(t) : \A w \in Vnodes(t) \ {v} : Below(t, v) \cap Below(t, w) = {}

(* At most two mounts lie on each other.                                   *)
TwoMounts(t) ==
  \A v, w, u \in Vnodes(t) :
    t.node[v].mount = w /\ t.node[w].mount = u => t.node[u].mount = None

(* Shape by parts, as the steps use it (vfs.c:23-74, tmpfs.c:140-171).     *)
LEMMA ShapeParts ==
  ASSUME NEW t
  PROVE  Shape(t) <=>
           /\ t.root \in Vnodes(t)
           /\ t.node[t.root].mount = None
           /\ \A v \in Vnodes(t) : Placed(t, v)
           /\ \A v \in Vnodes(t) : IsDir(t, v) => DirShape(t, t.node[v])
           /\ Apart(t)
           /\ TwoMounts(t)
BY DEF Shape, Placed, Apart, TwoMounts

(* The array of entries (vfs.h:30-38).                                     *)
LEMMA EntriesFacts ==
  ASSUME NEW t \in TreeType, NEW v \in Vnodes(t)
  PROVE  /\ t.node[v].entries \in Seq(Nat)
         /\ Len(t.node[v].entries) \in Nat
         /\ DOMAIN t.node[v].entries = 1..Len(t.node[v].entries)
         /\ \A i \in DOMAIN t.node[v].entries : t.node[v].entries[i] \in ToSet(t.node[v].entries)
         /\ \A c \in ToSet(t.node[v].entries) : c \in Nat /\ \E i \in DOMAIN t.node[v].entries : t.node[v].entries[i] = c
         /\ t.node[v].mount \in Nat
<1>1. t.node[v].entries \in Seq(Nat) /\ t.node[v].mount \in Nat
  BY TreeFacts DEF VnodeType
<1>2. \A c : c \in ToSet(t.node[v].entries) <=> \E i \in DOMAIN t.node[v].entries : t.node[v].entries[i] = c
  BY SetOf
<1> QED
  BY <1>1, <1>2

(* The entries of a directory are vnodes.                                  *)
LEMMA EntriesAreVnodes ==
  ASSUME NEW t \in TreeType, Shape(t), NEW v \in Vnodes(t)
  PROVE  \A i \in DOMAIN t.node[v].entries : t.node[v].entries[i] \in Vnodes(t)
<1>1. Placed(t, v)
  BY ShapeParts
<1> QED
  BY <1>1, EntriesFacts, BelowFacts DEF Placed

(* A new entry is below its directory and nowhere else (tmpfs_create,      *)
(* tmpfs.c:167-169).                                                       *)
LEMMA AddedBelow ==
  ASSUME NEW t \in TreeType, NEW u, NEW dir \in Vnodes(t), NEW vnode, Added(t, u, dir, vnode),
         vnode.entries = <<>>, vnode.mount = None
  PROVE  /\ Below(u, dir) = Below(t, dir) \cup {Fresh(t)}
         /\ Below(u, Fresh(t)) = {}
         /\ \A v \in Vnodes(t) : v # dir => Below(u, v) = Below(t, v)
<1>1. t.node[dir].entries \in Seq(Nat) /\ Fresh(t) \in Nat
  BY TreeFacts, EntriesFacts
<1>2. ToSet(u.node[dir].entries) = ToSet(t.node[dir].entries) \cup {Fresh(t)}
  BY <1>1, AppendSet DEF Added
<1>3. u.node[dir].mount = t.node[dir].mount
  BY DEF Added
<1>4. Below(u, dir) = Below(t, dir) \cup {Fresh(t)}
  BY <1>2, <1>3 DEF Below
<1>5. Below(u, Fresh(t)) = {}
  BY NothingBelow DEF Added, Extends
<1>6. \A v \in Vnodes(t) : v # dir => Below(u, v) = Below(t, v)
  BY SameBelow DEF Added, OthersStay
<1> QED
  BY <1>4, <1>5, <1>6

(* A directory with room that has no such name may get an entry            *)
(* (tmpfs_create, tmpfs.c:147-169).                                        *)
LEMMA AddedShape ==
  ASSUME NEW t \in TreeType, Shape(t), NEW u, NEW dir \in Vnodes(t), NEW vnode \in VnodeType,
         Added(t, u, dir, vnode), IsDir(t, dir), t.node[dir].len < MaxEntry,
         vnode.entries = <<>>, vnode.mount = None, vnode.len = 0, vnode.name # Blank,
         \A i \in DOMAIN t.node[dir].entries : t.node[t.node[dir].entries[i]].name # vnode.name
  PROVE  Shape(u)
<1> DEFINE f == Fresh(t)
<1>1. /\ u \in TreeType /\ u.root = t.root /\ u.node[f] = vnode /\ f \in Vnodes(u)
      /\ \A v \in Vnodes(t) : v \in Vnodes(u) /\ v < f /\ v # f
      /\ \A v \in Vnodes(u) : v \in Vnodes(t) \/ v = f
      /\ f \notin Vnodes(t) /\ f \in Nat \ {0}
  BY TreeFacts DEF Added, Extends
<1>2. /\ Below(u, dir) = Below(t, dir) \cup {f}
      /\ Below(u, f) = {}
      /\ \A v \in Vnodes(t) : v # dir => Below(u, v) = Below(t, v)
  <2>1. t \in TreeType /\ dir \in Vnodes(t) /\ Added(t, u, dir, vnode)
    OBVIOUS
  <2>2. vnode.entries = <<>> /\ vnode.mount = None
    OBVIOUS
  <2> QED
    BY ONLY <2>1, <2>2, AddedBelow
<1>3. /\ t.root \in Vnodes(t) /\ t.node[t.root].mount = None
      /\ \A v \in Vnodes(t) : Placed(t, v)
      /\ \A v \in Vnodes(t) : IsDir(t, v) => DirShape(t, t.node[v])
      /\ Apart(t) /\ TwoMounts(t)
  BY ShapeParts
<1>4. \A v \in Vnodes(t) : v # dir => u.node[v] = t.node[v]
  BY DEF Added, OthersStay
<1>5. /\ u.node[dir].name = t.node[dir].name /\ u.node[dir].type = t.node[dir].type
      /\ u.node[dir].mount = t.node[dir].mount
      /\ u.node[dir].entries = Append(t.node[dir].entries, f)
      /\ u.node[dir].len = t.node[dir].len + 1
  BY DEF Added
<1>6. /\ \A v \in Vnodes(t) : u.node[v].mount = t.node[v].mount /\ u.node[v].name = t.node[v].name
      /\ \A v \in Vnodes(t) : u.node[v].type = t.node[v].type
  BY <1>4, <1>5
<1> HIDE DEF f
<1>7. u.root \in Vnodes(u) /\ u.node[u.root].mount = None
  BY <1>1, <1>3, <1>6
<1>8. ASSUME NEW v \in Vnodes(u) PROVE Placed(u, v)
  <2>1. CASE v = f
    <3>1. ToSet(u.node[v].entries) = {}
      BY <1>1, <2>1 DEF ToSet
    <3> QED
      BY <1>1, <1>2, <2>1, <3>1 DEF Placed, VnodeType
  <2>2. CASE v = dir
    <3>1. Placed(t, dir) /\ t.root # f
      BY <1>1, <1>3
    <3>2. ToSet(u.node[dir].entries) = ToSet(t.node[dir].entries) \cup {f}
      <4>1. t.node[dir].entries \in Seq(Nat)
        BY EntriesFacts
      <4>2. ToSet(Append(t.node[dir].entries, f)) = ToSet(t.node[dir].entries) \cup {f}
        BY <1>1, <4>1, AppendSet
      <4> QED
        BY <1>5, <4>2
    <3>3. t.node[dir].mount # f
      BY <1>1, <3>1, BelowFacts DEF Placed, None
    <3> QED
      BY <1>1, <1>2, <1>5, <2>2, <3>1, <3>2, <3>3 DEF Placed
  <2>3. CASE v # f /\ v # dir
    <3>1. v \in Vnodes(t) /\ Placed(t, v)
      BY <1>1, <1>3, <2>3
    <3> QED
      BY <1>1, <1>2, <1>4, <2>3, <3>1 DEF Placed
  <2> QED
    BY <2>1, <2>2, <2>3
<1>9. ASSUME NEW v \in Vnodes(u), IsDir(u, v) PROVE DirShape(u, u.node[v])
  <2>1. CASE v = f
    <3>1. u.node[v].entries = <<>> /\ u.node[v].len = 0
      BY <1>1, <2>1
    <3> QED
      BY <3>1, FileSystemAssumption DEF DirShape
  <2>2. CASE v = dir
    <3>1. /\ DirShape(t, t.node[dir])
          /\ t.node[dir].entries \in Seq(Nat)
          /\ \A i \in DOMAIN t.node[dir].entries : t.node[dir].entries[i] \in Vnodes(t)
      BY <1>3, EntriesFacts, EntriesAreVnodes
    <3> DEFINE e == t.node[dir].entries
               d == u.node[dir].entries
    <3>2. /\ Len(d) = Len(e) + 1 /\ DOMAIN d = 1..(Len(e) + 1) /\ d[Len(e) + 1] = f
          /\ \A i \in 1..Len(e) : d[i] = e[i]
          /\ DOMAIN e = 1..Len(e) /\ Len(e) \in Nat
      <4>1. e \in Seq(Nat) /\ d = Append(e, f) /\ f \in Nat
        BY <1>1, <1>5, <3>1
      <4> HIDE DEF e, d
      <4> QED
        BY <4>1
    <3>6. /\ \A k \in 1..Len(e) : t.node[e[k]].name # Blank
          /\ \A k, m \in 1..Len(e) : t.node[e[k]].name = t.node[e[m]].name => k = m
      BY <3>1, <3>2 DEF DirShape
    <3>3. Len(d) <= MaxEntry /\ u.node[dir].len = Len(d)
      BY <1>5, <3>1, <3>2, FileSystemAssumption DEF DirShape
    <3>4. ASSUME NEW i \in DOMAIN d, NEW j \in DOMAIN d, u.node[d[i]].name = u.node[d[j]].name
          PROVE  i = j
      <4>1. \A k \in 1..Len(e) : d[k] = e[k] /\ u.node[d[k]].name = t.node[e[k]].name
                                 /\ u.node[d[k]].name # vnode.name
        BY <1>6, <3>1, <3>2
      <4>2. u.node[d[Len(e) + 1]].name = vnode.name
        BY <1>1, <3>2
      <4>3. CASE i \in 1..Len(e) /\ j \in 1..Len(e)
        <5> HIDE DEF e, d
        <5> QED
          BY <3>4, <3>6, <4>1, <4>3
      <4>4. CASE i = Len(e) + 1 /\ j = Len(e) + 1
        BY <4>4
      <4>5. CASE i = Len(e) + 1 /\ j \in 1..Len(e)
        BY <3>4, <4>1, <4>2, <4>5
      <4>6. CASE i \in 1..Len(e) /\ j = Len(e) + 1
        BY <3>4, <4>1, <4>2, <4>6
      <4> QED
        <5> HIDE DEF e, d
        <5> QED
          BY <3>2, <4>3, <4>4, <4>5, <4>6
    <3>5. ASSUME NEW i \in DOMAIN d PROVE u.node[d[i]].name # Blank
      <4>1. \A k \in 1..Len(e) : u.node[d[k]].name # Blank
        <5>1. \A k \in 1..Len(e) : d[k] = e[k] /\ e[k] \in Vnodes(t)
          BY <3>1, <3>2
        <5> HIDE DEF e, d
        <5> QED
          BY <1>6, <3>6, <5>1
      <4>2. u.node[d[Len(e) + 1]].name # Blank
        BY <1>1, <3>2
      <4> QED
        <5> HIDE DEF e, d
        <5> QED
          BY <3>2, <4>1, <4>2
    <3> QED
      BY <2>2, <3>3, <3>4, <3>5 DEF DirShape
  <2>3. CASE v # f /\ v # dir
    <3>1. v \in Vnodes(t) /\ u.node[v] = t.node[v] /\ IsDir(t, v)
      BY <1>1, <1>4, <1>9, <2>3 DEF IsDir
    <3>2. DirShape(t, t.node[v]) /\ \A i \in DOMAIN t.node[v].entries : t.node[v].entries[i] \in Vnodes(t)
      BY <1>3, <3>1, EntriesAreVnodes
    <3>3. \A i \in DOMAIN t.node[v].entries : u.node[t.node[v].entries[i]].name = t.node[t.node[v].entries[i]].name
      BY <1>6, <3>2
    <3> QED
      BY <3>1, <3>2, <3>3 DEF DirShape
  <2> QED
    BY <2>1, <2>2, <2>3
<1>10. Apart(u)
  <2> SUFFICES ASSUME NEW v \in Vnodes(u), NEW w \in Vnodes(u) \ {v}, NEW c \in Below(u, v), c \in Below(u, w)
               PROVE  FALSE
    BY DEF Apart
  <2>1. v \in Vnodes(t) /\ w \in Vnodes(t)
    BY <1>1, <1>2
  <2>2. c # f => c \in Below(t, v) /\ c \in Below(t, w)
    BY <1>2, <2>1
  <2>3. f \notin Below(t, v) /\ f \notin Below(t, w)
    BY <1>1, <1>3, <2>1 DEF Placed
  <2>4. c = f => v = dir /\ w = dir
    BY <1>2, <2>1, <2>3
  <2> QED
    BY <1>3, <2>1, <2>2, <2>4 DEF Apart
<1>11. TwoMounts(u)
  <2> SUFFICES ASSUME NEW v \in Vnodes(u), NEW w \in Vnodes(u), NEW x \in Vnodes(u),
                      u.node[v].mount = w, u.node[w].mount = x
               PROVE  u.node[x].mount = None
    BY DEF TwoMounts
  <2>1. u.node[f].mount = None /\ x # None /\ w # None
    BY <1>1, TreeFacts DEF None
  <2>2. v \in Vnodes(t) /\ w \in Vnodes(t)
    BY <1>1, <2>1
  <2> QED
    BY <1>1, <1>3, <1>6, <2>1, <2>2 DEF TwoMounts
<1> QED
  BY <1>7, <1>8, <1>9, <1>10, <1>11, ShapeParts

(* What a lookup may find: an entry on which nothing is mounted, or the    *)
(* root of what is mounted on an entry.                                    *)
Reached(t, v) ==
  /\ v \in Vnodes(t)
  /\ \E dir \in Vnodes(t) : \E e \in ToSet(t.node[dir].entries) :
       \/ e = v /\ t.node[v].mount = None
       \/ t.node[e].mount = v

(* A vnode has one place (tmpfs_create, tmpfs.c:167-169, vfs_mount,        *)
(* vfs.c:23-74).                                                           *)
LEMMA OnlyOneAbove ==
  ASSUME NEW t \in TreeType, Shape(t), NEW v \in Vnodes(t), NEW w \in Vnodes(t), NEW c \in Below(t, v), c \in Below(t, w)
  PROVE  v = w
BY ShapeParts DEF Apart

(* Two mounts lie on each other only above an entry.                       *)
LEMMA ReachedIsLow ==
  ASSUME NEW t \in TreeType, Shape(t), NEW v, Reached(t, v)
  PROVE  /\ v # t.root
         /\ \A w, x \in Vnodes(t) : ~(t.node[x].mount = w /\ t.node[w].mount = v)
<1>0. PICK dir \in Vnodes(t) : \E e \in ToSet(t.node[dir].entries) :
        (e = v /\ t.node[v].mount = None) \/ t.node[e].mount = v
  BY DEF Reached
<1>1. PICK e \in ToSet(t.node[dir].entries) :
        (e = v /\ t.node[v].mount = None) \/ t.node[e].mount = v
  BY <1>0
<1>2. v \in Vnodes(t) /\ v # None /\ Placed(t, dir) /\ e \in Below(t, dir) /\ e \in Vnodes(t) /\ Placed(t, e)
  <2>1. v \in Vnodes(t) /\ v # None
    BY TreeFacts DEF Reached, None
  <2>2. Placed(t, dir) /\ e \in Below(t, dir)
    BY ShapeParts, BelowFacts
  <2>3. e \in Vnodes(t)
    BY <2>2 DEF Placed
  <2> QED
    BY <2>1, <2>2, <2>3, ShapeParts
<1>3. v # t.root
  <2>1. CASE e = v
    BY <1>2, <2>1 DEF Placed
  <2>2. CASE t.node[e].mount = v
    <3>1. v \in Below(t, e)
      BY <1>2, <2>2, BelowFacts
    <3> QED
      BY <1>2, <3>1 DEF Placed
  <2> QED
    BY <1>1, <2>1, <2>2
<1>4. ASSUME NEW w \in Vnodes(t), NEW x \in Vnodes(t), t.node[x].mount = w, t.node[w].mount = v PROVE FALSE
  <2>1. v \in Below(t, w) /\ w \in Below(t, x) /\ w # None
    BY <1>2, <1>4, BelowFacts, TreeFacts DEF None
  <2>2. CASE e = v
    <3>1. dir = w
      BY <1>2, <2>1, <2>2, OnlyOneAbove
    <3> QED
      BY <1>2, <1>4, <2>2, <3>1 DEF Placed
  <2>3. CASE t.node[e].mount = v
    <3>1. v \in Below(t, e)
      BY <1>2, <2>3, BelowFacts
    <3>2. e = w
      BY <1>2, <2>1, <3>1, OnlyOneAbove
    <3>3. x = dir
      BY <1>2, <2>1, <3>2, OnlyOneAbove
    <3> QED
      BY <1>2, <1>4, <3>2, <3>3 DEF Placed
  <2> QED
    BY <1>1, <2>2, <2>3
<1> QED
  BY <1>3, <1>4

(* A file is written, or made of a directory.                              *)
LEMMA FileShape ==
  ASSUME NEW t \in TreeType, Shape(t), NEW v \in Vnodes(t), NEW n, NEW u, Written(t, u, v, n),
         n.type = "FILE", n.name = t.node[v].name, n.mount = t.node[v].mount,
         n.entries = <<>> \/ n.entries = t.node[v].entries
  PROVE  Shape(u)
<1>1. /\ u \in TreeType /\ u.root = t.root /\ Vnodes(u) = Vnodes(t) /\ u.node[v] = n
      /\ \A w \in Vnodes(t) : w # v => u.node[w] = t.node[w]
  BY DEF Written, OthersStay
<1>2. \A w \in Vnodes(t) : u.node[w].name = t.node[w].name /\ u.node[w].mount = t.node[w].mount
  BY <1>1
<1>3. \A w \in Vnodes(t) : ToSet(u.node[w].entries) \subseteq ToSet(t.node[w].entries)
  <2>1. ToSet(<<>>) = {}
    BY DEF ToSet
  <2> QED
    BY <1>1, <2>1
<1>4. \A w \in Vnodes(t) : Below(u, w) \subseteq Below(t, w)
  BY <1>2, <1>3 DEF Below
<1>5. /\ t.root \in Vnodes(t) /\ t.node[t.root].mount = None
      /\ \A w \in Vnodes(t) : Placed(t, w)
      /\ \A w \in Vnodes(t) : IsDir(t, w) => DirShape(t, t.node[w])
      /\ Apart(t) /\ TwoMounts(t)
  BY ShapeParts
<1>6. ASSUME NEW w \in Vnodes(t) PROVE Placed(u, w)
  <2>1. u.node[w].type \in {"DIR", "FILE"}
    BY <1>1, <1>5, <1>6 DEF Placed
  <2> QED
    BY <1>1, <1>2, <1>3, <1>4, <1>5, <2>1 DEF Placed
<1>7. ASSUME NEW w \in Vnodes(t), IsDir(u, w) PROVE DirShape(u, u.node[w])
  <2>1. w # v /\ u.node[w] = t.node[w] /\ IsDir(t, w)
    BY <1>1, <1>7 DEF IsDir
  <2>2. DirShape(t, t.node[w]) /\ \A i \in DOMAIN t.node[w].entries : t.node[w].entries[i] \in Vnodes(t)
    BY <1>5, <2>1, EntriesAreVnodes
  <2>3. \A i \in DOMAIN t.node[w].entries : u.node[t.node[w].entries[i]].name = t.node[t.node[w].entries[i]].name
    BY <1>2, <2>2
  <2> QED
    BY <2>1, <2>2, <2>3 DEF DirShape
<1>8. Apart(u)
  BY <1>1, <1>4, <1>5 DEF Apart
<1>9. TwoMounts(u)
  BY <1>1, <1>2, <1>5 DEF TwoMounts
<1> QED
  BY <1>1, <1>2, <1>5, <1>6, <1>7, <1>8, <1>9, ShapeParts

(* The root of a file system, before it is mounted.                        *)
LEMMA RootShape ==
  ASSUME NEW t \in TreeType, Shape(t), NEW vnode, NEW u, Extends(t, u, vnode), OthersStay(t, u, 0),
         vnode.type \in {"DIR", "FILE"}, vnode.entries = <<>>, vnode.mount = None, vnode.len = 0
  PROVE  /\ Shape(u)
         /\ \A v \in Vnodes(u) : Fresh(t) \notin Below(u, v)
<1> DEFINE f == Fresh(t)
<1>1. /\ u \in TreeType /\ u.root = t.root /\ u.node[f] = vnode /\ f \in Vnodes(u)
      /\ \A v \in Vnodes(t) : v \in Vnodes(u) /\ v < f /\ v # f /\ v # 0
      /\ \A v \in Vnodes(u) : v \in Vnodes(t) \/ v = f
      /\ f \notin Vnodes(t) /\ f \in Nat \ {0}
  BY TreeFacts DEF Extends
<1>2. \A v \in Vnodes(t) : u.node[v] = t.node[v]
  BY <1>1 DEF OthersStay
<1>3. Below(u, f) = {} /\ ToSet(u.node[f].entries) = {}
  <2>1. ToSet(u.node[f].entries) = {}
    BY <1>1 DEF ToSet
  <2> QED
    BY <1>1, <2>1, NothingBelow
<1>4. \A v \in Vnodes(t) : Below(u, v) = Below(t, v)
  BY <1>2, SameBelow
<1>5. /\ t.root \in Vnodes(t) /\ t.node[t.root].mount = None
      /\ \A v \in Vnodes(t) : Placed(t, v)
      /\ \A v \in Vnodes(t) : IsDir(t, v) => DirShape(t, t.node[v])
      /\ Apart(t) /\ TwoMounts(t)
  BY ShapeParts
<1> HIDE DEF f
<1>6. ASSUME NEW v \in Vnodes(u) PROVE Placed(u, v)
  <2>1. CASE v = f
    BY <1>1, <1>3, <2>1 DEF Placed
  <2>2. CASE v # f
    <3>1. v \in Vnodes(t) /\ Placed(t, v)
      BY <1>1, <1>5, <2>2
    <3> QED
      BY <1>1, <1>2, <1>4, <3>1 DEF Placed
  <2> QED
    BY <2>1, <2>2
<1>7. ASSUME NEW v \in Vnodes(u), IsDir(u, v) PROVE DirShape(u, u.node[v])
  <2>1. CASE v = f
    BY <1>1, <2>1, FileSystemAssumption DEF DirShape
  <2>2. CASE v # f
    <3>1. v \in Vnodes(t) /\ u.node[v] = t.node[v] /\ IsDir(t, v)
      BY <1>1, <1>2, <1>7, <2>2 DEF IsDir
    <3>2. DirShape(t, t.node[v]) /\ \A i \in DOMAIN t.node[v].entries : t.node[v].entries[i] \in Vnodes(t)
      BY <1>5, <3>1, EntriesAreVnodes
    <3>3. \A i \in DOMAIN t.node[v].entries : u.node[t.node[v].entries[i]].name = t.node[t.node[v].entries[i]].name
      BY <1>2, <3>2
    <3> QED
      BY <3>1, <3>2, <3>3 DEF DirShape
  <2> QED
    BY <2>1, <2>2
<1>8. Apart(u)
  <2> SUFFICES ASSUME NEW v \in Vnodes(u), NEW w \in Vnodes(u) \ {v}, NEW c \in Below(u, v), c \in Below(u, w)
               PROVE  FALSE
    BY DEF Apart
  <2>1. v \in Vnodes(t) /\ w \in Vnodes(t)
    BY <1>1, <1>3
  <2> QED
    BY <1>4, <1>5, <2>1 DEF Apart
<1>9. TwoMounts(u)
  <2> SUFFICES ASSUME NEW v \in Vnodes(u), NEW w \in Vnodes(u), NEW x \in Vnodes(u),
                      u.node[v].mount = w, u.node[w].mount = x
               PROVE  u.node[x].mount = None
    BY DEF TwoMounts
  <2>1. u.node[f].mount = None /\ x # None /\ w # None
    BY <1>1, TreeFacts DEF None
  <2>2. v \in Vnodes(t) /\ w \in Vnodes(t)
    BY <1>1, <2>1
  <2>3. CASE x = f
    BY <2>1, <2>3
  <2>4. CASE x # f
    <3>1. x \in Vnodes(t) /\ t.node[v].mount = w /\ t.node[w].mount = x
      BY <1>1, <1>2, <2>2, <2>4
    <3>2. t.node[x].mount = None
      BY <1>5, <2>2, <3>1 DEF TwoMounts
    <3> QED
      BY <1>2, <3>1, <3>2
  <2> QED
    BY <2>3, <2>4
<1>10. \A v \in Vnodes(u) : f \notin Below(u, v)
  BY <1>1, <1>3, <1>4, <1>5 DEF Placed
<1> QED
  BY <1>1, <1>2, <1>5, <1>6, <1>7, <1>8, <1>9, <1>10, ShapeParts DEF f

(* A root of a file system becomes the root of everything.                 *)
LEMMA NewRootShape ==
  ASSUME NEW t \in TreeType, Shape(t), NEW r \in Vnodes(t), t.node[r].mount = None,
         \A v \in Vnodes(t) : r \notin Below(t, v)
  PROVE  [t EXCEPT !.root = r] \in TreeType /\ Shape([t EXCEPT !.root = r])
<1> DEFINE u == [t EXCEPT !.root = r]
<1>1. u \in TreeType /\ u.node = t.node /\ u.root = r /\ Vnodes(u) = Vnodes(t)
  BY TreeFacts DEF TreeType, Vnodes
<1> HIDE DEF u
<1>2. \A v : Below(u, v) = Below(t, v) /\ IsDir(u, v) = IsDir(t, v) /\ DirShape(u, u.node[v]) = DirShape(t, t.node[v])
  BY <1>1 DEF Below, IsDir, DirShape
<1>3. \A v \in Vnodes(t) : Placed(u, v)
  BY <1>1, <1>2, ShapeParts DEF Placed
<1>4. Apart(u) /\ TwoMounts(u)
  BY <1>1, <1>2, ShapeParts DEF Apart, TwoMounts
<1> QED
  BY <1>1, <1>2, <1>3, <1>4, ShapeParts DEF u

(* Something is mounted on what was found.                                 *)
LEMMA MountShape ==
  ASSUME NEW t \in TreeType, Shape(t), NEW v, Reached(t, v), NEW m \in Vnodes(t), t.node[m].mount = None,
         m # t.root, v < m, \A w \in Vnodes(t) : m \notin Below(t, w), NEW u, Written(t, u, v, [t.node[v] EXCEPT !.mount = m])
  PROVE  Shape(u)
<1>1. v \in Vnodes(t) /\ t.node[v] \in VnodeType /\ m # None /\ v # None /\ m # v
  BY TreeFacts DEF Reached, None
<1> DEFINE n == [t.node[v] EXCEPT !.mount = m]
<1>2. n.mount = m /\ n.entries = t.node[v].entries /\ n.name = t.node[v].name /\ n.type = t.node[v].type /\ n.len = t.node[v].len
  BY <1>1 DEF VnodeType
<1>3. /\ u \in TreeType /\ u.root = t.root /\ Vnodes(u) = Vnodes(t) /\ u.node[v] = n
      /\ \A w \in Vnodes(t) : w # v => u.node[w] = t.node[w]
  BY DEF Written, OthersStay
<1> HIDE DEF n
<1>4. \A w \in Vnodes(t) : /\ u.node[w].name = t.node[w].name /\ u.node[w].entries = t.node[w].entries
                           /\ u.node[w].type = t.node[w].type /\ u.node[w].len = t.node[w].len
                           /\ w # v => u.node[w].mount = t.node[w].mount
  BY <1>2, <1>3
<1>5. /\ Below(u, v) \subseteq Below(t, v) \cup {m}
      /\ \A w \in Vnodes(t) : w # v => Below(u, w) = Below(t, w)
  <2>1. \A w \in Vnodes(t) : w # v => Below(u, w) = Below(t, w)
    BY <1>3, SameBelow
  <2>2. Below(u, v) \subseteq Below(t, v) \cup {m}
    BY <1>2, <1>3 DEF Below
  <2> QED
    BY <2>1, <2>2
<1>6. /\ t.root \in Vnodes(t) /\ t.node[t.root].mount = None
      /\ \A w \in Vnodes(t) : Placed(t, w)
      /\ \A w \in Vnodes(t) : IsDir(t, w) => DirShape(t, t.node[w])
      /\ Apart(t) /\ TwoMounts(t)
  BY ShapeParts
<1>7. v # t.root /\ \A w, x \in Vnodes(t) : ~(t.node[x].mount = w /\ t.node[w].mount = v)
  BY ReachedIsLow
<1>8. ASSUME NEW w \in Vnodes(t) PROVE Placed(u, w)
  <2>1. CASE w = v
    <3>1. m \notin ToSet(t.node[v].entries)
      BY <1>1, BelowFacts
    <3>2. Placed(t, v)
      BY <1>1, <1>6
    <3> QED
      BY <1>1, <1>2, <1>3, <1>4, <1>5, <2>1, <3>1, <3>2 DEF Placed
  <2>2. CASE w # v
    BY <1>3, <1>4, <1>5, <1>6, <2>2 DEF Placed
  <2> QED
    BY <2>1, <2>2
<1>9. ASSUME NEW w \in Vnodes(t), IsDir(u, w) PROVE DirShape(u, u.node[w])
  <2>1. IsDir(t, w)
    BY <1>4, <1>9 DEF IsDir
  <2>2. DirShape(t, t.node[w]) /\ \A i \in DOMAIN t.node[w].entries : t.node[w].entries[i] \in Vnodes(t)
    BY <1>6, <2>1, EntriesAreVnodes
  <2>3. \A i \in DOMAIN t.node[w].entries : u.node[t.node[w].entries[i]].name = t.node[t.node[w].entries[i]].name
    BY <1>4, <2>2
  <2>4. u.node[w].entries = t.node[w].entries /\ u.node[w].len = t.node[w].len
    BY <1>4
  <2> QED
    BY <2>2, <2>3, <2>4 DEF DirShape
<1>10. Apart(u)
  <2> SUFFICES ASSUME NEW w \in Vnodes(t), NEW x \in Vnodes(t) \ {w}, NEW c \in Below(u, w), c \in Below(u, x)
               PROVE  FALSE
    BY <1>3 DEF Apart
  <2>1. CASE c = m
    BY <1>5, <2>1
  <2>2. CASE c # m
    <3>1. c \in Below(t, w) /\ c \in Below(t, x)
      BY <1>5, <2>2
    <3> QED
      BY <1>6, <3>1 DEF Apart
  <2> QED
    BY <2>1, <2>2
<1>11. TwoMounts(u)
  <2> SUFFICES ASSUME NEW w \in Vnodes(t), NEW x \in Vnodes(t), NEW y \in Vnodes(t),
                      u.node[w].mount = x, u.node[x].mount = y
               PROVE  u.node[y].mount = None
    BY <1>3 DEF TwoMounts
  <2>1. CASE x = v
    <3>1. y = m
      BY <1>1, <1>2, <1>3, <2>1
    <3> QED
      BY <1>1, <1>4, <3>1
  <2>2. CASE w = v
    <3>1. x = m
      BY <1>1, <1>2, <1>3, <2>2
    <3>2. u.node[m].mount = None
      BY <1>1, <1>4
    <3> QED
      BY <3>1, <3>2, TreeFacts DEF None
  <2>3. CASE w # v /\ x # v
    <3>1. t.node[w].mount = x /\ t.node[x].mount = y
      BY <1>4, <2>3
    <3>2. y # v /\ t.node[y].mount = None
      BY <1>6, <1>7, <3>1 DEF TwoMounts
    <3> QED
      BY <1>4, <3>2
  <2> QED
    BY <2>1, <2>2, <2>3
<1>12. u.root \in Vnodes(u) /\ u.node[u.root].mount = None
  BY <1>3, <1>4, <1>6, <1>7
<1> QED
  BY <1>3, <1>8, <1>9, <1>10, <1>11, <1>12, ShapeParts

(* The first entry of a name.                                              *)
EntryAt(t, dir, name) == SelectInSeq(t.node[dir].entries, LAMBDA e : t.node[e].name = name)

(* The loop of tmpfs_lookup stops at the first entry of the name           *)
(* (tmpfs.c:173-187).                                                      *)
LEMMA FirstEntry ==
  ASSUME NEW t \in TreeType, NEW dir \in Vnodes(t), NEW name
  PROVE  LET e == t.node[dir].entries
             i == EntryAt(t, dir, name)
         IN \/ i = 0 /\ \A j \in DOMAIN e : t.node[e[j]].name # name
            \/ i \in DOMAIN e /\ t.node[e[i]].name = name /\ \A j \in DOMAIN e : t.node[e[j]].name = name => i <= j
<1> DEFINE e == t.node[dir].entries
           I == {j \in 1..Len(e) : t.node[e[j]].name = name}
<1>1. DOMAIN e = 1..Len(e) /\ Len(e) \in Nat
  BY EntriesFacts
<1>2. EntryAt(t, dir, name) = IF I # {} THEN Min(I) ELSE 0
  BY DEF EntryAt, SelectInSeq
<1>3. CASE I = {}
  BY <1>1, <1>2, <1>3
<1>4. CASE I # {}
  <2>1. \E i \in I : \A j \in I : i <= j
    <3>1. I \in SUBSET Nat
      BY <1>1
    <3> HIDE DEF I
    <3> QED
      BY <1>4, <3>1, Least
  <2>2. Min(I) \in I /\ \A j \in I : Min(I) <= j
    <3> HIDE DEF I
    <3> QED
      BY <2>1 DEF Min
  <2> QED
    BY <1>1, <1>2, <1>4, <2>2
<1> QED
  BY <1>3, <1>4

(* What lookup returns: nothing, or an entry of that name or its mount.    *)
LEMMA LookupFinds ==
  ASSUME NEW t \in TreeType, Shape(t), NEW dir \in Vnodes(t), NEW name
  PROVE  LET e == t.node[dir].entries
             i == EntryAt(t, dir, name)
             v == TmpfsLookup(t, dir, name)
         IN /\ ~IsDir(t, dir) \/ i = 0 => v = None
            /\ IsDir(t, dir) /\ i # 0 =>
                 /\ v # None /\ Reached(t, v)
                 /\ i \in DOMAIN e /\ e[i] \in Vnodes(t)
                 /\ t.node[e[i]].name = name
                 /\ \/ t.node[e[i]].mount = None /\ v = e[i]
                    \/ t.node[e[i]].mount # None /\ v = t.node[e[i]].mount
<1> DEFINE e == t.node[dir].entries
           i == EntryAt(t, dir, name)
           v == TmpfsLookup(t, dir, name)
<1>1. v = IF ~IsDir(t, dir) \/ i = 0 THEN None
          ELSE IF t.node[e[i]].mount = None THEN e[i] ELSE t.node[e[i]].mount
  BY DEF TmpfsLookup, EntryAt
<1>2. \/ i = 0
      \/ i \in DOMAIN e /\ t.node[e[i]].name = name
  BY FirstEntry
<1> HIDE DEF v, i
<1>3. ASSUME IsDir(t, dir), i # 0
      PROVE  /\ v # None /\ Reached(t, v) /\ i \in DOMAIN e /\ e[i] \in Vnodes(t) /\ t.node[e[i]].name = name
             /\ \/ t.node[e[i]].mount = None /\ v = e[i]
                \/ t.node[e[i]].mount # None /\ v = t.node[e[i]].mount
  <2>1. i \in DOMAIN e /\ t.node[e[i]].name = name /\ e[i] \in Vnodes(t) /\ e[i] \in ToSet(e)
    BY <1>2, <1>3, EntriesFacts, EntriesAreVnodes
  <2>2. CASE t.node[e[i]].mount = None
    <3>1. v = e[i]
      BY <1>1, <1>3, <2>2
    <3>2. Reached(t, v)
      BY <2>1, <2>2, <3>1 DEF Reached
    <3>3. v # None
      BY <2>1, <3>1, TreeFacts DEF None
    <3> QED
      BY <2>1, <2>2, <3>1, <3>2, <3>3
  <2>3. CASE t.node[e[i]].mount # None
    <3>1. v = t.node[e[i]].mount
      BY <1>1, <1>3, <2>3
    <3>2. v \in Vnodes(t)
      BY <2>1, <2>3, <3>1, ShapeParts, BelowFacts DEF Placed
    <3>3. Reached(t, v)
      BY <2>1, <3>1, <3>2 DEF Reached
    <3> QED
      BY <2>1, <2>3, <3>1, <3>3
  <2> QED
    BY <2>2, <2>3
<1> QED
  BY <1>1, <1>3 DEF v, i

(* Following the mounts on a vnode.                                        *)
LEMMA EnterDefined ==
  ASSUME NEW t \in TreeType, Shape(t), NEW v \in Vnodes(t)
  PROVE  /\ Enter(t, v) \in Vnodes(t)
         /\ t.node[v].mount = None => Enter(t, v) = v
         /\ t.node[v].mount # None =>
              t.node[v].mount \in Vnodes(t) /\ Enter(t, v) = Enter(t, t.node[v].mount)
<1> DEFINE N == Len(t.node)
           S == Vnodes(t)
           mount(i) == t.node[i].mount
           F == [i \in 1..N |-> [g \in [i + 1..N -> S] |-> IF mount(i) = None THEN i ELSE g[mount(i)]]]
           U(f) == f = [i \in Vnodes(t) |-> IF mount(i) = None THEN i ELSE f[mount(i)]]
<1>1. N \in Nat
  BY TreeFacts
<1>0. S = 1..N /\ Vnodes(t) = 1..N
  BY DEF Vnodes
<1>2. \A i \in 1..N : mount(i) = None \/ mount(i) \in i + 1..N
  <2> SUFFICES ASSUME NEW i \in 1..N, mount(i) # None PROVE mount(i) \in i + 1..N
    OBVIOUS
  <2>1. mount(i) \in Vnodes(t) /\ i < mount(i)
    BY <1>0, <1>1, ShapeParts, BelowFacts DEF Placed
  <2> QED
    BY <1>0, <1>1, <2>1
<1> HIDE DEF mount, S, N
<1>3. \A i \in 1..N : \A g \in [i + 1..N -> S] : F[i][g] = (IF mount(i) = None THEN i ELSE g[mount(i)]) /\ F[i][g] \in S
  BY <1>0, <1>1, <1>2
<1>4. PICK g \in [1..N -> S] : \A i \in 1..N : g[i] = F[i][[j \in i + 1..N |-> g[j]]]
  <2>1. BackWithin(N, S, F)
    BY <1>3 DEF BackWithin
  <2> HIDE DEF F
  <2> QED
    BY <1>1, <2>1, Descent
<1>5. ASSUME NEW i \in 1..N PROVE g[i] = IF mount(i) = None THEN i ELSE g[mount(i)]
  <2> DEFINE h == [j \in i + 1..N |-> g[j]]
  <2>1. h \in [i + 1..N -> S]
    <3>1. \A j \in i + 1..N : j \in 1..N
      BY <1>1
    <3> QED
      BY <3>1
  <2>2. mount(i) # None => h[mount(i)] = g[mount(i)]
    BY <1>2
  <2>3. g[i] = F[i][h]
    BY <1>4
  <2> HIDE DEF F, h
  <2> QED
    BY <1>3, <2>1, <2>2, <2>3
<1>6. U(g)
  BY <1>0, <1>5
<1> DEFINE f == CHOOSE f : U(f)
<1>7. \A x : Enter(t, x) = f[x]
  BY Zenon DEF Enter, mount
<1>8. U(f)
  <2> HIDE DEF U
  <2> QED
    BY <1>6
<1> HIDE DEF f
<1>9. \A i \in 1..N : f[i] = IF mount(i) = None THEN i ELSE f[mount(i)]
  BY <1>0, <1>8
<1>10. \A i \in 1..N : f[i] \in S
  <2> DEFINE T == {k \in 0..N : \A i \in 1..N : N - k < i => f[i] \in S}
  <2>1. 0 \in T
    BY <1>1
  <2>2. ASSUME NEW k \in 1..N, k - 1 \in T PROVE k \in T
    <3> SUFFICES ASSUME NEW i \in 1..N, N - k < i PROVE f[i] \in S
      BY <1>1
    <3>1. mount(i) # None => mount(i) \in 1..N /\ N - (k - 1) < mount(i)
      BY <1>1, <1>2
    <3>2. mount(i) # None => f[mount(i)] \in S
      BY <2>2, <3>1
    <3> QED
      BY <1>0, <1>1, <1>9, <3>2
  <2>3. N \in T
    <3> HIDE DEF T
    <3> QED
      BY <1>1, <2>1, <2>2, UpTo
  <2> QED
    BY <1>1, <2>3
<1>11. v \in 1..N /\ (mount(v) # None => mount(v) \in 1..N)
  BY <1>0, <1>2
<1> QED
  BY <1>0, <1>7, <1>9, <1>10, <1>11 DEF mount

(* What the search may have found.                                         *)
Findings(t) == [ok : BOOLEAN, target : {None} \cup {v \in Vnodes(t) : Reached(t, v)}]

(* The directory in which it goes on.                                      *)
FindIn(t, before) == IF before.target = None THEN t.root ELSE before.target

(* One component of a path: what lookup_path finds is nothing or reached   *)
(* (vfs.c:77-119).                                                         *)
LEMMA FindStep ==
  ASSUME NEW t \in TreeType, Shape(t), NEW before \in Findings(t), NEW name
  PROVE  LET dir == FindIn(t, before)
             entry == TmpfsLookup(t, Enter(t, dir), name)
             f == FindComponent(t, before, name)
         IN /\ dir \in Vnodes(t) /\ Enter(t, dir) \in Vnodes(t)
            /\ entry = None \/ Reached(t, entry)
            /\ f \in Findings(t)
            /\ f.ok <=> before.ok /\ IsDir(t, dir) /\ entry # None
            /\ f.target = IF f.ok THEN entry ELSE before.target
            /\ f.ok => f.target # None
<1> DEFINE dir == FindIn(t, before)
           entry == TmpfsLookup(t, Enter(t, dir), name)
           f == FindComponent(t, before, name)
<1>1. before.ok \in BOOLEAN /\ before.target \in {None} \cup {v \in Vnodes(t) : Reached(t, v)}
  BY DEF Findings
<1>2. dir \in Vnodes(t)
  BY <1>1, ShapeParts DEF FindIn
<1>3. Enter(t, dir) \in Vnodes(t)
  BY <1>2, EnterDefined
<1>4. entry = None \/ (entry \in Vnodes(t) /\ Reached(t, entry))
  BY <1>3, LookupFinds DEF Reached
<1>5. f = IF before.ok /\ IsDir(t, dir) /\ entry # None
          THEN [ok |-> TRUE, target |-> entry] ELSE [before EXCEPT !.ok = FALSE]
  BY DEF FindComponent, FindIn
<1> HIDE DEF f, dir, entry
<1> DEFINE here == before.ok /\ IsDir(t, dir) /\ entry # None
<1>6. /\ f \in Findings(t)
      /\ f.ok <=> here
      /\ f.target = IF f.ok THEN entry ELSE before.target
      /\ f.ok => f.target # None
  <2>1. CASE here
    <3>1. f \in Findings(t) /\ f.ok = TRUE /\ f.target = entry
      BY <1>4, <1>5, <2>1 DEF Findings
    <3> QED
      BY <2>1, <3>1
  <2>2. CASE ~here
    <3>1. f = [before EXCEPT !.ok = FALSE]
      BY <1>5, <2>2
    <3>2. f \in Findings(t) /\ f.ok = FALSE /\ f.target = before.target
      BY <1>1, <3>1 DEF Findings
    <3> HIDE DEF here
    <3> QED
      BY <2>2, <3>2
  <2> QED
    BY <2>1, <2>2
<1> QED
  BY <1>2, <1>3, <1>4, <1>6 DEF f, dir, entry

(* lookup_path, component by component (vfs.c:77-119).                     *)
LEMMA FoundDefined ==
  ASSUME NEW t \in TreeType, Shape(t), NEW comps \in Seq(Tokens)
  PROVE  /\ Found(t, comps)[0] = [ok |-> TRUE, target |-> None]
         /\ \A n \in 1..Len(comps) :
              Found(t, comps)[n] = FindComponent(t, Found(t, comps)[n - 1], comps[n])
         /\ \A n \in 0..Len(comps) : Found(t, comps)[n] \in Findings(t)
<1> DEFINE N == Len(comps)
           first == [ok |-> TRUE, target |-> None]
           Values == Findings(t)
           step(v, n) == FindComponent(t, v, comps[n])
           S == [n \in 0..N |-> Values]
           F == [n \in 1..N |-> [v \in Values |-> step(v, n)]]
<1>1. N \in Nat
  OBVIOUS
<1>2. first \in Values
  BY DEF Findings
<1>3. \A n \in 1..N : \A v \in Values : step(v, n) \in Values
  BY FindStep
<1> HIDE DEF Values, step
<1>4. StepsWithin(N, S, F)
  BY <1>1, <1>3 DEF StepsWithin
<1>5. /\ \A n \in 1..N : \A v \in Values : F[n][v] = step(v, n)
      /\ \A n \in 0..N : S[n] = Values
  OBVIOUS
<1> HIDE DEF S, F, first
<1>6. first \in S[0]
  BY <1>1, <1>2, <1>5
<1>7. PICK g : Solution(g, N, S, F, first)
  BY <1>1, <1>4, <1>6, Solvable
<1>8. /\ g = [n \in 0..N |-> IF n = 0 THEN first ELSE F[n][g[n - 1]]]
      /\ \A n \in 0..N : g[n] \in Values
  BY <1>5, <1>7, Zenon DEF Solution
<1> DEFINE U(h) == h = [n \in 0..N |-> IF n = 0 THEN first ELSE step(h[n - 1], n)]
<1>9. U(g)
  <2>1. ASSUME NEW n \in 0..N, n # 0 PROVE F[n][g[n - 1]] = step(g[n - 1], n)
    <3>1. n \in 1..N /\ n - 1 \in 0..N
      BY <1>1, <2>1
    <3> QED
      BY <1>5, <1>8, <3>1
  <2> QED
    BY <1>8, <2>1
<1> DEFINE f == CHOOSE h : U(h)
<1>10. U(f)
  <2> HIDE DEF U
  <2> QED
    BY <1>9
<1>11. Found(t, comps) = f
  BY Zenon DEF Found, step, first
<1> HIDE DEF f
<1>12. f[0] = first /\ \A n \in 1..N : f[n] = step(f[n - 1], n)
  BY <1>1, <1>10
<1> DEFINE T == {n \in 0..N : f[n] \in Values}
<1>13. 0..N \subseteq T
  <2>1. 0 \in T
    BY <1>1, <1>2, <1>12
  <2>2. \A n \in 1..N : n - 1 \in T => n \in T
    BY <1>1, <1>3, <1>12
  <2> HIDE DEF T
  <2> QED
    BY <1>1, <2>1, <2>2, UpTo
<1> QED
  BY <1>11, <1>12, <1>13 DEF first, Values, step

(* Paths and parts of paths.                                               *)
Text == Seq(Tokens)

(* What a path is taken apart into: names and blanks.                      *)
Components == Seq(Names \cup {Blank})

(* The slash, the blank name and what stands at address 0 are tokens       *)
(* (vfs.c:266-285).                                                        *)
LEMMA SpecialTokens == Slash \in Tokens /\ Blank \in Tokens /\ AtZero \in Tokens
BY PathAssumption

(* They are texts.                                                         *)
LEMMA ComponentsAreText ==
  ASSUME NEW comps \in Components
  PROVE  comps \in Text
<1>1. Names \cup {Blank} \subseteq Tokens
  BY SpecialTokens DEF Names
<1> QED
  BY <1>1 DEF Components, Text

(* Lists of names too.                                                     *)
LEMMA NamesAreText ==
  ASSUME NEW names \in Seq(Names)
  PROVE  /\ names \in Components /\ names \in Text
         /\ Len(names) \in Nat /\ \A n \in 1..Len(names) : names[n] \in Names
<1>1. names \in Components
  BY DEF Components
<1> QED
  BY <1>1, ComponentsAreText

(* And components none of which is blank are names.                        *)
LEMMA ComponentsWithoutBlank ==
  ASSUME NEW comps \in Components, Blank \notin ToSet(comps)
  PROVE  comps \in Seq(Names)
<1>1. Len(comps) \in Nat /\ DOMAIN comps = 1..Len(comps) /\ comps \in [1..Len(comps) -> Names \cup {Blank}]
  BY DEF Components
<1>2. \A i \in 1..Len(comps) : comps[i] # Blank
  BY <1>1, SetOf
<1>3. comps \in [1..Len(comps) -> Names]
  BY <1>1, <1>2
<1> QED
  BY <1>1, <1>3, SeqDef

(* The calls of strtok, token by token (string.c:87-169).                  *)
LEMMA SplitSteps ==
  ASSUME NEW text \in Text
  PROVE  \E f : /\ f[0] = <<Blank>>
                /\ \A n \in 1..Len(text) : f[n] = Strtok(f[n - 1], text[n])
                /\ \A n \in 0..Len(text) : f[n] \in Text
                /\ Split(text) = f[Len(text)]
<1> DEFINE N == Len(text)
           first == <<Blank>>
           Values == Seq(Tokens)
           step(v, n) == Strtok(v, text[n])
           S == [n \in 0..N |-> Values]
           F == [n \in 1..N |-> [v \in Values |-> step(v, n)]]
<1>1. N \in Nat
  BY DEF Text
<1>2. first \in Values
  BY SpecialTokens
<1>3. \A n \in 1..N : \A v \in Values : step(v, n) \in Values
  <2> SUFFICES ASSUME NEW n \in 1..N, NEW v \in Seq(Tokens) PROVE Strtok(v, text[n]) \in Seq(Tokens)
    OBVIOUS
  <2>1. text[n] \in Tokens
    BY DEF Text
  <2>2. Append(v, Blank) \in Seq(Tokens)
    BY SpecialTokens
  <2>3. [v EXCEPT ![Len(v)] = text[n]] \in Seq(Tokens)
    BY <2>1, ReplaceType
  <2> QED
    BY <2>2, <2>3 DEF Strtok
<1> HIDE DEF Values, step
<1>4. StepsWithin(N, S, F)
  BY <1>1, <1>3 DEF StepsWithin
<1>5. /\ \A n \in 1..N : \A v \in Values : F[n][v] = step(v, n)
      /\ \A n \in 0..N : S[n] = Values
  OBVIOUS
<1> HIDE DEF S, F, first
<1>6. first \in S[0]
  BY <1>1, <1>2, <1>5
<1>7. PICK g : Solution(g, N, S, F, first)
  BY <1>1, <1>4, <1>6, Solvable
<1>8. /\ g = [n \in 0..N |-> IF n = 0 THEN first ELSE F[n][g[n - 1]]]
      /\ \A n \in 0..N : g[n] \in Values
  BY <1>5, <1>7, Zenon DEF Solution
<1> DEFINE U(h) == h = [n \in 0..N |-> IF n = 0 THEN first ELSE step(h[n - 1], n)]
<1>9. U(g)
  <2>1. ASSUME NEW n \in 0..N, n # 0 PROVE F[n][g[n - 1]] = step(g[n - 1], n)
    <3>1. n \in 1..N /\ n - 1 \in 0..N
      BY <1>1, <2>1
    <3> QED
      BY <1>5, <1>8, <3>1
  <2> QED
    BY <1>8, <2>1
<1> DEFINE f == CHOOSE h : U(h)
<1>10. U(f)
  <2> HIDE DEF U
  <2> QED
    BY <1>9
<1>11. Split(text) = f[N]
  BY Zenon DEF Split, step, first
<1> HIDE DEF f
<1>12. f[0] = first /\ \A n \in 1..N : f[n] = step(f[n - 1], n)
  BY <1>1, <1>10
<1> DEFINE T == {n \in 0..N : f[n] \in Values}
<1>13. 0..N \subseteq T
  <2>1. 0 \in T
    BY <1>1, <1>2, <1>12
  <2>2. \A n \in 1..N : n - 1 \in T => n \in T
    BY <1>1, <1>3, <1>12
  <2> HIDE DEF T
  <2> QED
    BY <1>1, <2>1, <2>2, UpTo
<1> QED
  <2>1. \A n \in 0..N : f[n] \in Text
    BY <1>13 DEF Values, Text
  <2> QED
    BY <1>11, <1>12, <2>1 DEF step, first

(* Components consist of the tokens of the text that are no slashes, and   *)
(* of blanks (strtok, string.c:87-140).                                    *)
LEMMA SplitOver ==
  ASSUME NEW text \in Text, NEW S, Blank \in S, \A n \in 1..Len(text) : text[n] = Slash \/ text[n] \in S
  PROVE  Split(text) \in Seq(S)
<1> DEFINE N == Len(text)
<1>1. N \in Nat /\ \A n \in 1..N : text[n] \in Tokens
  BY DEF Text
<1>2. PICK f : /\ f[0] = <<Blank>>
               /\ \A n \in 1..N : f[n] = Strtok(f[n - 1], text[n])
               /\ Split(text) = f[N]
  BY SplitSteps
<1> DEFINE T == {n \in 0..N : f[n] \in Seq(S)}
<1>3. 0 \in T
  <2>1. <<Blank>> \in Seq(S)
    OBVIOUS
  <2>2. 0 \in 0..N
    BY <1>1
  <2> QED
    BY <1>2, <2>1, <2>2, Zenon
<1>4. ASSUME NEW n \in 1..N, n - 1 \in T PROVE n \in T
  <2> DEFINE v == f[n - 1]
  <2>1. v \in Seq(S) /\ f[n] = Strtok(v, text[n]) /\ n \in 0..N
    BY <1>1, <1>2, <1>4
  <2> HIDE DEF v
  <2>2. CASE text[n] = Slash
    <3>1. f[n] = Append(v, Blank)
      BY <2>1, <2>2 DEF Strtok
    <3>2. Append(v, Blank) \in Seq(S)
      BY <2>1
    <3> QED
      BY <2>1, <3>1, <3>2
  <2>3. CASE text[n] # Slash
    <3>1. text[n] \in S
      BY <2>3
    <3>2. [v EXCEPT ![Len(v)] = text[n]] \in Seq(S)
      BY <2>1, <3>1, ReplaceType
    <3>3. f[n] = [v EXCEPT ![Len(v)] = text[n]]
      BY <2>1, <2>3 DEF Strtok
    <3> QED
      BY <2>1, <3>2, <3>3
  <2> QED
    BY <2>2, <2>3
<1> HIDE DEF T
<1>5. 0..N \subseteq T
  BY <1>1, <1>3, <1>4, UpTo
<1>6. N \in T
  BY <1>1, <1>5
<1> QED
  BY <1>2, <1>6 DEF T

(* spilt_strings makes names and blanks (string.c:87-169).                 *)
LEMMA SplitNames ==
  ASSUME NEW text \in Text
  PROVE  Split(text) \in Components
<1>1. \A n \in 1..Len(text) : text[n] = Slash \/ text[n] \in Names \cup {Blank}
  BY DEF Text, Names
<1>2. Split(text) \in Seq(Names \cup {Blank})
  BY <1>1, SplitOver
<1> QED
  BY <1>2 DEF Components

(* spilt_strings makes components of a text (string.c:87-169).             *)
LEMMA SplitType ==
  ASSUME NEW text \in Text
  PROVE  Split(text) \in Text
BY SplitNames, ComponentsAreText

(* The path, component by component (vfs.c:287-291).                       *)
LEMMA JoinSteps ==
  ASSUME NEW comps \in Text
  PROVE  \E f : /\ f[0] = <<>>
                /\ \A n \in 1..Len(comps) : f[n] = f[n - 1] \o <<Slash, comps[n]>>
                /\ \A n \in 0..Len(comps) : f[n] \in Text
                /\ Join(comps) = f[Len(comps)]
<1> DEFINE N == Len(comps)
           first == <<>>
           Values == Seq(Tokens)
           step(v, n) == v \o <<Slash, comps[n]>>
           S == [n \in 0..N |-> Values]
           F == [n \in 1..N |-> [v \in Values |-> step(v, n)]]
<1>1. N \in Nat
  BY DEF Text
<1>2. first \in Values
  OBVIOUS
<1>3. \A n \in 1..N : \A v \in Values : step(v, n) \in Values
  <2> SUFFICES ASSUME NEW n \in 1..N, NEW v \in Seq(Tokens) PROVE v \o <<Slash, comps[n]>> \in Seq(Tokens)
    OBVIOUS
  <2>1. comps[n] \in Tokens
    BY DEF Text
  <2>2. <<Slash, comps[n]>> \in Seq(Tokens)
    BY <2>1, SpecialTokens
  <2> QED
    BY <2>2
<1> HIDE DEF Values, step
<1>4. StepsWithin(N, S, F)
  BY <1>1, <1>3 DEF StepsWithin
<1>5. /\ \A n \in 1..N : \A v \in Values : F[n][v] = step(v, n)
      /\ \A n \in 0..N : S[n] = Values
  OBVIOUS
<1> HIDE DEF S, F, first
<1>6. first \in S[0]
  BY <1>1, <1>2, <1>5
<1>7. PICK g : Solution(g, N, S, F, first)
  BY <1>1, <1>4, <1>6, Solvable
<1>8. /\ g = [n \in 0..N |-> IF n = 0 THEN first ELSE F[n][g[n - 1]]]
      /\ \A n \in 0..N : g[n] \in Values
  BY <1>5, <1>7, Zenon DEF Solution
<1> DEFINE U(h) == h = [n \in 0..N |-> IF n = 0 THEN first ELSE step(h[n - 1], n)]
<1>9. U(g)
  <2>1. ASSUME NEW n \in 0..N, n # 0 PROVE F[n][g[n - 1]] = step(g[n - 1], n)
    <3>1. n \in 1..N /\ n - 1 \in 0..N
      BY <1>1, <2>1
    <3> QED
      BY <1>5, <1>8, <3>1
  <2> QED
    BY <1>8, <2>1
<1> DEFINE f == CHOOSE h : U(h)
<1>10. U(f)
  <2> HIDE DEF U
  <2> QED
    BY <1>9
<1>11. Join(comps) = f[N]
  BY Zenon DEF Join, step, first
<1> HIDE DEF f
<1>12. f[0] = first /\ \A n \in 1..N : f[n] = step(f[n - 1], n)
  BY <1>1, <1>10
<1> DEFINE T == {n \in 0..N : f[n] \in Values}
<1>13. 0..N \subseteq T
  <2>1. 0 \in T
    BY <1>1, <1>2, <1>12
  <2>2. \A n \in 1..N : n - 1 \in T => n \in T
    BY <1>1, <1>3, <1>12
  <2> HIDE DEF T
  <2> QED
    BY <1>1, <2>1, <2>2, UpTo
<1> QED
  <2>1. \A n \in 0..N : f[n] \in Text
    BY <1>13 DEF Values, Text
  <2> QED
    BY <1>11, <1>12, <2>1 DEF step, first

(* The components of to_abs_path make a text (vfs.c:287-291).              *)
LEMMA JoinType ==
  ASSUME NEW comps \in Text
  PROVE  Join(comps) \in Text
<1>1. Len(comps) \in 0..Len(comps)
  BY DEF Text
<1> QED
  BY <1>1, JoinSteps

(* The stack of to_abs_path, component by component (vfs.c:266-285).       *)
LEMMA TranslateSteps ==
  ASSUME NEW Parts, NEW comps \in Seq(Parts \cup {Blank})
  PROVE  \E f : /\ f[0] = <<>>
                /\ \A n \in 1..Len(comps) : f[n] = Push(f[n - 1], comps[n])
                /\ \A n \in 0..Len(comps) : f[n] \in Seq(Parts)
                /\ Translate(comps) = IF Last(comps) \in {Blank, CurrentDir}
                                      THEN Append(f[Len(comps)], AtZero) ELSE f[Len(comps)]
<1> DEFINE N == Len(comps)
           first == <<>>
           Values == Seq(Parts)
           step(v, n) == Push(v, comps[n])
           S == [n \in 0..N |-> Values]
           F == [n \in 1..N |-> [v \in Values |-> step(v, n)]]
<1>1. N \in Nat
  OBVIOUS
<1>2. first \in Values
  OBVIOUS
<1>3. \A n \in 1..N : \A v \in Values : step(v, n) \in Values
  <2> SUFFICES ASSUME NEW n \in 1..N, NEW v \in Seq(Parts) PROVE Push(v, comps[n]) \in Seq(Parts)
    OBVIOUS
  <2>1. comps[n] \in Parts \cup {Blank}
    OBVIOUS
  <2>2. CASE comps[n] = Blank
    BY <2>2 DEF Push, Blank, ParentDir
  <2>3. CASE comps[n] \in Parts
    <3>1. Append(v, comps[n]) \in Seq(Parts) /\ Front(v) \in Seq(Parts)
      BY <2>3, FrontType
    <3> QED
      BY <3>1 DEF Push
  <2> QED
    BY <2>1, <2>2, <2>3
<1> HIDE DEF Values, step
<1>4. StepsWithin(N, S, F)
  BY <1>1, <1>3 DEF StepsWithin
<1>5. /\ \A n \in 1..N : \A v \in Values : F[n][v] = step(v, n)
      /\ \A n \in 0..N : S[n] = Values
  OBVIOUS
<1> HIDE DEF S, F, first
<1>6. first \in S[0]
  BY <1>1, <1>2, <1>5
<1>7. PICK g : Solution(g, N, S, F, first)
  BY <1>1, <1>4, <1>6, Solvable
<1>8. /\ g = [n \in 0..N |-> IF n = 0 THEN first ELSE F[n][g[n - 1]]]
      /\ \A n \in 0..N : g[n] \in Values
  BY <1>5, <1>7, Zenon DEF Solution
<1> DEFINE U(h) == h = [n \in 0..N |-> IF n = 0 THEN first ELSE step(h[n - 1], n)]
<1>9. U(g)
  <2>1. ASSUME NEW n \in 0..N, n # 0 PROVE F[n][g[n - 1]] = step(g[n - 1], n)
    <3>1. n \in 1..N /\ n - 1 \in 0..N
      BY <1>1, <2>1
    <3> QED
      BY <1>5, <1>8, <3>1
  <2> QED
    BY <1>8, <2>1
<1> DEFINE f == CHOOSE h : U(h)
<1>10. U(f)
  <2> HIDE DEF U
  <2> QED
    BY <1>9
<1>11. Translate(comps) = IF Last(comps) \in {Blank, CurrentDir} THEN Append(f[N], AtZero) ELSE f[N]
  BY Zenon DEF Translate, step, first
<1> HIDE DEF f
<1>12. f[0] = first /\ \A n \in 1..N : f[n] = step(f[n - 1], n)
  BY <1>1, <1>10
<1> DEFINE T == {n \in 0..N : f[n] \in Values}
<1>13. 0..N \subseteq T
  <2>1. 0 \in T
    BY <1>1, <1>2, <1>12
  <2>2. \A n \in 1..N : n - 1 \in T => n \in T
    BY <1>1, <1>3, <1>12
  <2> HIDE DEF T
  <2> QED
    BY <1>1, <2>1, <2>2, UpTo
<1> QED
  <2>1. \A n \in 0..N : f[n] \in Seq(Parts)
    BY <1>13 DEF Values
  <2> QED
    BY <1>11, <1>12, <2>1 DEF step, first

(* The loop of to_abs_path keeps components (vfs.c:266-285).               *)
LEMMA TranslateType ==
  ASSUME NEW Parts, AtZero \in Parts, NEW comps \in Seq(Parts \cup {Blank})
  PROVE  Translate(comps) \in Seq(Parts)
<1> DEFINE N == Len(comps)
<1>1. N \in 0..N
  OBVIOUS
<1>2. PICK f : /\ f[N] \in Seq(Parts)
               /\ Translate(comps) = IF Last(comps) \in {Blank, CurrentDir} THEN Append(f[N], AtZero) ELSE f[N]
  BY <1>1, TranslateSteps
<1>3. Append(f[N], AtZero) \in Seq(Parts)
  BY <1>2
<1> QED
  BY <1>2, <1>3

(* to_abs_path makes a text of two (vfs.c:246-293).                        *)
LEMMA AbsPathType ==
  ASSUME NEW dir \in Text, NEW text \in Text
  PROVE  AbsPath(dir, text) \in Text
<1>1. dir \o text \in Text /\ <<>> \in Text
  BY DEF Text
<1>2. Translate(Split(dir \o text)) \in Text
  <2>1. Tokens \cup {Blank} = Tokens /\ AtZero \in Tokens
    BY SpecialTokens
  <2>2. Split(dir \o text) \in Seq(Tokens \cup {Blank})
    BY <1>1, <2>1, SplitType DEF Text
  <2> QED
    BY <2>1, <2>2, TranslateType DEF Text
<1>3. Join(Translate(Split(dir \o text))) \in Text
  BY <1>2, JoinType
<1> QED
  BY <1>1, <1>3 DEF AbsPath

(* The component that begins at the i-th place, and where the next begins. *)
FirstAt(text, i) == IF i \in DOMAIN text /\ text[i] = Slash THEN i + 1 ELSE i
(* first_component ends there.                                             *)
EndAt(text, i) ==
  IF FirstAt(text, i) \in DOMAIN text /\ text[FirstAt(text, i)] # Slash
  THEN FirstAt(text, i) + 1 ELSE FirstAt(text, i)
(* pop_first_component goes on there.                                      *)
RestAt(text, i) ==
  IF EndAt(text, i) \in DOMAIN text /\ text[EndAt(text, i)] = Slash
  THEN EndAt(text, i) + 1 ELSE EndAt(text, i)
(* The component that it takes, if any.                                    *)
NameAt(text, i) ==
  IF FirstAt(text, i) \in DOMAIN text /\ text[FirstAt(text, i)] # Slash
  THEN text[FirstAt(text, i)] ELSE Blank

(* pop_first_component moves forward (vfs.c:198-219).                      *)
LEMMA RestIsBehind ==
  ASSUME NEW text \in Text, NEW i \in 1..Len(text) + 1
  PROVE  /\ NameAt(text, i) \in Names \cup {Blank}
         /\ RestAt(text, i) \in DOMAIN text => RestAt(text, i) \in i + 1..Len(text) + 1
<1>1. Len(text) \in Nat /\ DOMAIN text = 1..Len(text) /\ \A j \in 1..Len(text) : text[j] \in Tokens
  BY DEF Text
<1>2. NameAt(text, i) \in Names \cup {Blank}
  BY <1>1 DEF NameAt, FirstAt, Names
<1>3. FirstAt(text, i) \in Nat /\ FirstAt(text, i) >= i
  BY <1>1 DEF FirstAt
<1>4. EndAt(text, i) \in Nat /\ EndAt(text, i) >= FirstAt(text, i)
  BY <1>1, <1>3 DEF EndAt
<1>5. RestAt(text, i) \in Nat /\ RestAt(text, i) >= EndAt(text, i)
  BY <1>1, <1>4 DEF RestAt
<1>6. ASSUME RestAt(text, i) \in DOMAIN text PROVE RestAt(text, i) # i
  <2> SUFFICES ASSUME RestAt(text, i) = i PROVE FALSE
    OBVIOUS
  <2>1. EndAt(text, i) = i /\ FirstAt(text, i) = i
    BY <1>3, <1>4, <1>5
  <2>2. i \in DOMAIN text
    BY <1>6
  <2>3. text[i] # Slash
    BY <1>1, <2>1, <2>2 DEF FirstAt
  <2> QED
    BY <1>1, <2>1, <2>2, <2>3 DEF EndAt
<1> QED
  BY <1>1, <1>2, <1>3, <1>4, <1>5, <1>6

(* The components from the i-th place on.                                  *)
SearchFrom(text) ==
  LET slash(i) == i \in DOMAIN text /\ text[i] = Slash
      name(i) == i \in DOMAIN text /\ text[i] # Slash
      from[i \in 1..Len(text) + 1] ==
        LET first == IF slash(i) THEN i + 1 ELSE i
            end == IF name(first) THEN first + 1 ELSE first
            rest == IF slash(end) THEN end + 1 ELSE end
        IN <<IF name(first) THEN text[first] ELSE Blank>> \o
           (IF rest \in DOMAIN text THEN from[rest] ELSE <<>>)
  IN from

(* The components from a position, by recursion on the rest of the text    *)
(* (vfs.c:198-219).                                                        *)
LEMMA SearchFromDefined ==
  ASSUME NEW text \in Text
  PROVE  /\ SearchComps(text) = SearchFrom(text)[1]
         /\ \A i \in 1..Len(text) + 1 :
              /\ SearchFrom(text)[i] \in Components \ {<<>>}
              /\ SearchFrom(text)[i] \in Text \ {<<>>}
              /\ SearchFrom(text)[i] =
                   <<NameAt(text, i)>> \o
                   (IF RestAt(text, i) \in DOMAIN text THEN SearchFrom(text)[RestAt(text, i)] ELSE <<>>)
<1> DEFINE N == Len(text) + 1
           S == Components \ {<<>>}
           name(i) == NameAt(text, i)
           more(i) == RestAt(text, i) \in DOMAIN text
           rest(i) == RestAt(text, i)
           F == [i \in 1..N |-> [g \in [i + 1..N -> S] |->
                   <<name(i)>> \o (IF more(i) THEN g[rest(i)] ELSE <<>>)]]
           U(f) == f = [i \in 1..Len(text) + 1 |->
                          <<name(i)>> \o (IF more(i) THEN f[rest(i)] ELSE <<>>)]
<1>1. N \in Nat
  BY DEF Text
<1>2. \A i \in 1..N : name(i) \in Names \cup {Blank} /\ (more(i) => rest(i) \in i + 1..N)
  BY RestIsBehind
<1>3. \A v \in Names \cup {Blank}, s \in S : <<v>> \o s \in S /\ <<v>> \o <<>> \in S
  <2> HIDE DEF Names
  <2> QED
    BY DEF Components
<1> DEFINE f == CHOOSE h : U(h)
<1>4. SearchFrom(text) = f
  BY Zenon DEF SearchFrom, NameAt, RestAt, EndAt, FirstAt
<1>5. SearchComps(text) = SearchFrom(text)[1]
  BY Zenon DEF SearchFrom, SearchComps
<1> HIDE DEF name, more, rest, S
<1>6. \A i \in 1..N : \A g \in [i + 1..N -> S] :
        /\ F[i][g] = <<name(i)>> \o (IF more(i) THEN g[rest(i)] ELSE <<>>)
        /\ F[i][g] \in S
  <2> SUFFICES ASSUME NEW i \in 1..N, NEW g \in [i + 1..N -> S]
               PROVE  /\ F[i][g] = <<name(i)>> \o (IF more(i) THEN g[rest(i)] ELSE <<>>)
                      /\ F[i][g] \in S
    OBVIOUS
  <2>1. F[i][g] = <<name(i)>> \o (IF more(i) THEN g[rest(i)] ELSE <<>>)
    OBVIOUS
  <2>2. more(i) => g[rest(i)] \in S
    BY <1>2
  <2>3. S # {} => <<name(i)>> \o <<>> \in S
    BY <1>2, <1>3
  <2>4. S # {}
    <3>1. <<Blank>> \in S
      <4>1. Blank \in Names \cup {Blank}
        OBVIOUS
      <4>2. \A X : Blank \in X => <<Blank>> \in Seq(X) \ {<<>>}
        OBVIOUS
      <4> QED
        BY <4>1, <4>2 DEF S, Components
    <3> QED
      BY <3>1
  <2> HIDE DEF F
  <2> QED
    BY <1>2, <1>3, <2>1, <2>2, <2>3, <2>4
<1>7. PICK g \in [1..N -> S] : \A i \in 1..N : g[i] = F[i][[j \in i + 1..N |-> g[j]]]
  <2>1. BackWithin(N, S, F)
    BY <1>6 DEF BackWithin
  <2> HIDE DEF F
  <2> QED
    BY <1>1, <2>1, Descent
<1>8. ASSUME NEW i \in 1..N PROVE g[i] = <<name(i)>> \o (IF more(i) THEN g[rest(i)] ELSE <<>>)
  <2> DEFINE h == [j \in i + 1..N |-> g[j]]
  <2>1. h \in [i + 1..N -> S]
    <3>1. \A j \in i + 1..N : j \in 1..N
      BY <1>1
    <3> QED
      BY <3>1
  <2>2. more(i) => h[rest(i)] = g[rest(i)]
    BY <1>2
  <2>3. g[i] = F[i][h]
    BY <1>7
  <2> HIDE DEF F, h
  <2> QED
    BY <1>6, <2>1, <2>2, <2>3
<1>9. U(g)
  BY <1>8
<1>10. U(f)
  <2> HIDE DEF U
  <2> QED
    BY <1>9
<1> HIDE DEF f
<1>11. \A i \in 1..N : f[i] = <<name(i)>> \o (IF more(i) THEN f[rest(i)] ELSE <<>>)
  BY <1>10
<1>12. \A i \in 1..N : f[i] \in S
  <2> DEFINE T == {k \in 0..N : \A i \in 1..N : N - k < i => f[i] \in S}
  <2>1. 0 \in T
    BY <1>1
  <2>2. ASSUME NEW k \in 1..N, k - 1 \in T PROVE k \in T
    <3> SUFFICES ASSUME NEW i \in 1..N, N - k < i PROVE f[i] \in S
      BY <1>1
    <3>1. more(i) => rest(i) \in 1..N /\ N - (k - 1) < rest(i)
      BY <1>1, <1>2
    <3>2. more(i) => f[rest(i)] \in S
      BY <2>2, <3>1
    <3>3. g[1] \in S
      BY <1>1, <1>7
    <3>4. \A s \in S : <<name(i)>> \o s \in S /\ <<name(i)>> \o <<>> \in S
      BY <1>2, <1>3
    <3> HIDE DEF T
    <3> QED
      BY <1>11, <3>2, <3>3, <3>4
  <2>3. N \in T
    <3> HIDE DEF T, N
    <3> QED
      BY <1>1, <2>1, <2>2, UpTo
  <2> QED
    BY <1>1, <2>3
<1> QED
  BY <1>4, <1>5, <1>11, <1>12, ComponentsAreText DEF name, more, rest, S

(* A path has a component.                                                 *)
LEMMA SearchCompsType ==
  ASSUME NEW text \in Text
  PROVE  SearchComps(text) \in Text \ {<<>>} /\ SearchComps(text) \in Components
<1>1. 1 \in 1..Len(text) + 1
  BY DEF Text
<1> QED
  BY <1>1, SearchFromDefined

(* An old vnode, when directories are made.                                *)
Stays(t, u, v) ==
  /\ u.node[v].name = t.node[v].name
  /\ u.node[v].type = t.node[v].type
  /\ u.node[v].fs = t.node[v].fs
  /\ u.node[v].mount = t.node[v].mount
  /\ u.node[v].data = t.node[v].data
  /\ Prefix(t.node[v].entries, u.node[v].entries)
  /\ ~IsDir(t, v) => u.node[v] = t.node[v]

(* What making directories does to a tree: nothing old is lost.            *)
Grown(t, u) ==
  /\ u \in TreeType
  /\ Shape(u)
  /\ u.root = t.root
  /\ u.mounted = t.mounted
  /\ Vnodes(t) \subseteq Vnodes(u)
  /\ \A v \in Vnodes(t) : Stays(t, u, v)

(* A mkdir that fails changes nothing (tmpfs_mkdir, tmpfs.c:123-138).      *)
LEMMA GrownRefl ==
  ASSUME NEW t \in TreeType, Shape(t)
  PROVE  Grown(t, t)
<1>1. \A v \in Vnodes(t) : Stays(t, t, v)
  BY EntriesFacts, PrefixRefl DEF Stays
<1> QED
  BY <1>1 DEF Grown

(* Two mkdir in a row (lookup_path, vfs.c:77-119).                         *)
LEMMA GrownTrans ==
  ASSUME NEW t \in TreeType, NEW u, NEW w, Grown(t, u), Grown(u, w)
  PROVE  Grown(t, w)
<1>1. u \in TreeType /\ w \in TreeType /\ Shape(w) /\ Vnodes(t) \subseteq Vnodes(u) /\ Vnodes(u) \subseteq Vnodes(w)
  BY DEF Grown
<1>2. ASSUME NEW v \in Vnodes(t) PROVE Stays(t, w, v)
  <2>1. Stays(t, u, v) /\ Stays(u, w, v)
    BY <1>1 DEF Grown
  <2>2. t.node[v].entries \in Seq(Nat) /\ u.node[v].entries \in Seq(Nat) /\ w.node[v].entries \in Seq(Nat)
    BY <1>1, EntriesFacts
  <2>3. Prefix(t.node[v].entries, w.node[v].entries)
    BY <2>1, <2>2, PrefixTrans DEF Stays
  <2> QED
    BY <2>1, <2>3 DEF Stays, IsDir
<1> QED
  BY <1>1, <1>2 DEF Grown

(* A mkdir that makes an entry (tmpfs_create, tmpfs.c:140-171).            *)
LEMMA AddedGrown ==
  ASSUME NEW t \in TreeType, Shape(t), NEW u, NEW dir \in Vnodes(t), NEW vnode \in VnodeType,
         Added(t, u, dir, vnode), Shape(u), IsDir(t, dir), vnode.mount = None
  PROVE  Grown(t, u) /\ Reached(u, Fresh(t))
<1>1. /\ u \in TreeType /\ u.root = t.root /\ u.mounted = t.mounted /\ u.node[Fresh(t)] = vnode
      /\ Fresh(t) \in Vnodes(u) /\ Vnodes(t) \subseteq Vnodes(u) /\ Fresh(t) \in Nat
  BY TreeFacts DEF Added, Extends
<1>2. ASSUME NEW v \in Vnodes(t) PROVE Stays(t, u, v)
  <2>1. t.node[v].entries \in Seq(Nat)
    BY EntriesFacts
  <2>2. CASE v = dir
    <3>1. Prefix(t.node[v].entries, u.node[v].entries)
      BY <1>1, <2>1, <2>2, PrefixAppend DEF Added
    <3> QED
      BY <2>2, <3>1 DEF Stays, Added
  <2>3. CASE v # dir
    BY <2>1, <2>3, PrefixRefl DEF Stays, Added, OthersStay
  <2> QED
    BY <2>2, <2>3
<1>3. ToSet(u.node[dir].entries) = ToSet(t.node[dir].entries) \cup {Fresh(t)}
  <2>1. t.node[dir].entries \in Seq(Nat)
    BY EntriesFacts
  <2>2. ToSet(Append(t.node[dir].entries, Fresh(t))) = ToSet(t.node[dir].entries) \cup {Fresh(t)}
    BY <1>1, <2>1, AppendSet
  <2> QED
    BY <2>2 DEF Added
<1>4. Reached(u, Fresh(t))
  BY <1>1, <1>3 DEF Reached
<1> QED
  BY <1>1, <1>2, <1>4 DEF Grown

(* A target: nothing or what a lookup may find.                            *)
Target(t, v) == v = None \/ Reached(t, v)

(* A new vnode is empty (tmpfs_create, tmpfs.c:156-166).                   *)
LEMMA NewVnodeFacts ==
  ASSUME NEW name, NEW type, NEW fs
  PROVE  LET n == NewVnode(name, type, fs) IN
         /\ n.name = name /\ n.type = type /\ n.fs = fs /\ n.len = 0
         /\ n.entries = <<>> /\ n.data = NoData /\ n.mount = None
BY DEF NewVnode

(* v_ops->mkdir.                                                           *)
LEMMA MkdirInMakes ==
  ASSUME NEW t \in TreeType, Shape(t), NEW dir \in Vnodes(t), NEW name \in Names, NEW target
  PROVE  LET o == MkdirIn(t, dir, name, target) IN
         /\ Grown(t, o.tree)
         /\ o.ok \in BOOLEAN
         /\ o.ok => Reached(o.tree, o.target)
         /\ ~o.ok => o.tree = t /\ o.target = target
<1> DEFINE o == MkdirIn(t, dir, name, target)
           found == TmpfsLookup(t, dir, name)
           vnode == NewVnode(name, "DIR", t.node[dir].fs)
           u == AddEntry(t, dir, vnode)
           refuses == Refuses(t, dir) \/ ~IsDir(t, dir)
           full == t.node[dir].len >= MaxEntry
<1>1. o = IF refuses THEN [tree |-> t, ok |-> FALSE, target |-> target]
          ELSE IF found # None THEN [tree |-> t, ok |-> TRUE, target |-> found]
          ELSE IF full THEN [tree |-> t, ok |-> FALSE, target |-> target]
          ELSE [tree |-> u, ok |-> TRUE, target |-> Fresh(t)]
  BY DEF MkdirIn
<1>2. Grown(t, t)
  BY GrownRefl
<1>3. CASE refuses \/ (found = None /\ full)
  <2>1. o = [tree |-> t, ok |-> FALSE, target |-> target]
    BY <1>1, <1>3
  <2> HIDE DEF o
  <2> QED
    BY <1>2, <2>1 DEF o
<1>4. CASE ~refuses /\ found # None
  <2>1. o = [tree |-> t, ok |-> TRUE, target |-> found]
    BY <1>1, <1>4
  <2>2. Reached(t, found)
    BY <1>4, LookupFinds
  <2> HIDE DEF o, found
  <2> QED
    BY <1>2, <2>1, <2>2 DEF o
<1>5. CASE ~refuses /\ found = None /\ ~full
  <2>1. o = [tree |-> u, ok |-> TRUE, target |-> Fresh(t)]
    BY <1>1, <1>5
  <2>2. IsDir(t, dir) /\ t.node[dir].len \in Nat /\ t.node[dir].len < MaxEntry
    <3>1. DirShape(t, t.node[dir]) /\ Len(t.node[dir].entries) \in Nat
      BY <1>5, ShapeParts, EntriesFacts
    <3> QED
      BY <1>5, <3>1, FileSystemAssumption DEF DirShape
  <2>3. vnode \in VnodeType
    <3>1. t.node[dir].fs \in FileSystems
      BY TreeFacts DEF VnodeType
    <3> QED
      BY <3>1, NewVnodeType
  <2>4. /\ vnode.name = name /\ vnode.type = "DIR" /\ vnode.len = 0
        /\ vnode.entries = <<>> /\ vnode.mount = None /\ vnode.name # Blank
    BY NewVnodeFacts DEF Names
  <2> HIDE DEF vnode
  <2>5. Added(t, u, dir, vnode)
    BY <2>2, <2>3, AddEntryAdds
  <2>6. \A i \in DOMAIN t.node[dir].entries : t.node[t.node[dir].entries[i]].name # vnode.name
    <3>1. EntryAt(t, dir, name) = 0
      BY <1>5, <2>2, LookupFinds
    <3>2. EntryAt(t, dir, name) \notin DOMAIN t.node[dir].entries
      BY <3>1, EntriesFacts
    <3> QED
      BY <2>4, <3>1, <3>2, FirstEntry
  <2> HIDE DEF u
  <2>7. Shape(u)
    BY <2>2, <2>3, <2>4, <2>5, <2>6, AddedShape
  <2>8. Grown(t, u) /\ Reached(u, Fresh(t))
    BY <2>2, <2>3, <2>4, <2>5, <2>7, AddedGrown
  <2> HIDE DEF o
  <2> QED
    BY <2>1, <2>8 DEF o
<1> QED
  BY <1>3, <1>4, <1>5

(* How far the loop that creates has come.                                 *)
Makings(t) ==
  {a \in [tree : TreeType, target : Nat, dir : Nat] :
     Grown(t, a.tree) /\ Target(a.tree, a.target) /\ a.dir \in Vnodes(a.tree)}

(* What lookups find is no NULL (tmpfs_lookup, tmpfs.c:173-187).           *)
LEMMA ReachedIsVnode ==
  ASSUME NEW t \in TreeType, NEW v, Reached(t, v)
  PROVE  v \in Vnodes(t) /\ v \in Nat \ {0}
BY TreeFacts DEF Reached

(* One component of a path that is made (lookup_path, vfs.c:77-119).       *)
LEMMA MakeStep ==
  ASSUME NEW t \in TreeType, Shape(t), NEW a \in Makings(t), NEW name \in Names
  PROVE  MakeComponent(a, name) \in Makings(t)
<1> DEFINE o == MkdirIn(a.tree, a.dir, name, a.target)
<1>1. /\ a.tree \in TreeType /\ Grown(t, a.tree) /\ Target(a.tree, a.target) /\ a.dir \in Vnodes(a.tree)
      /\ a.target \in Nat /\ a.dir \in Nat
  BY DEF Makings
<1>2. Shape(a.tree)
  BY <1>1 DEF Grown
<1>3. /\ Grown(a.tree, o.tree)
      /\ o.ok \in BOOLEAN
      /\ o.ok => Reached(o.tree, o.target)
      /\ ~o.ok => o.tree = a.tree /\ o.target = a.target
  BY <1>1, <1>2, MkdirInMakes
<1>4. MakeComponent(a, name) = [tree |-> o.tree, target |-> o.target, dir |-> IF o.ok THEN o.target ELSE a.dir]
  BY DEF MakeComponent
<1> HIDE DEF o
<1>5. Grown(t, o.tree) /\ o.tree \in TreeType
  <2>1. Grown(t, o.tree)
    BY <1>1, <1>3, GrownTrans
  <2> QED
    BY <2>1 DEF Grown
<1>6. CASE o.ok
  <2>1. Reached(o.tree, o.target) /\ o.target \in Vnodes(o.tree) /\ o.target \in Nat
    BY <1>3, <1>5, <1>6, ReachedIsVnode
  <2>2. MakeComponent(a, name) = [tree |-> o.tree, target |-> o.target, dir |-> o.target]
    BY <1>4, <1>6
  <2> QED
    BY <1>5, <2>1, <2>2 DEF Makings, Target
<1>7. CASE ~o.ok
  <2>1. MakeComponent(a, name) = [tree |-> a.tree, target |-> a.target, dir |-> a.dir]
    BY <1>3, <1>4, <1>7
  <2> QED
    BY <1>1, <2>1 DEF Makings
<1> QED
  BY <1>6, <1>7

(* The rounds of lookup_path with create.                                  *)
MakingSteps(f, t, start, path, skip, target) ==
  /\ f[0] = [tree |-> t, target |-> target, dir |-> start]
  /\ \A n \in 1..Len(Split(path)) :
       f[n] = IF n <= skip \/ Split(path)[n] = Blank THEN f[n - 1]
              ELSE MakeComponent(f[n - 1], Split(path)[n])
  /\ \A n \in 0..Len(Split(path)) : f[n] \in Makings(t)

(* lookup_path with create, component by component (vfs.c:91-118).         *)
LEMMA CreatePathSteps ==
  ASSUME NEW t \in TreeType, Shape(t), NEW start \in Vnodes(t), NEW path \in Text, NEW skip,
         NEW target, Target(t, target)
  PROVE  \E f : /\ MakingSteps(f, t, start, path, skip, target)
                /\ CreatePath(t, start, path, skip, target) = f[Len(Split(path))]
<1>0. Split(path) \in Text
  BY SplitType
<1> DEFINE N == Len(Split(path))
           first == [tree |-> t, target |-> target, dir |-> start]
           Values == Makings(t)
           step(v, n) == IF n <= skip \/ Split(path)[n] = Blank THEN v ELSE MakeComponent(v, Split(path)[n])
           S == [n \in 0..N |-> Values]
           F == [n \in 1..N |-> [v \in Values |-> step(v, n)]]
<1>1. N \in Nat
  BY <1>0 DEF Text
<1>2. first \in Values
  <2>1. start \in Nat /\ target \in Nat
    BY TreeFacts, ReachedIsVnode DEF Target, None
  <2>2. Grown(t, t)
    BY GrownRefl
  <2> QED
    BY <2>1, <2>2 DEF Makings
<1>3. \A n \in 1..N : \A v \in Values : step(v, n) \in Values
  <2>1. \A n \in 1..N : Split(path)[n] = Blank \/ Split(path)[n] \in Names
    BY SplitNames DEF Components
  <2> QED
    BY <2>1, MakeStep
<1> HIDE DEF Values, step
<1>4. StepsWithin(N, S, F)
  BY <1>1, <1>3 DEF StepsWithin
<1>5. /\ \A n \in 1..N : \A v \in Values : F[n][v] = step(v, n)
      /\ \A n \in 0..N : S[n] = Values
  OBVIOUS
<1> HIDE DEF S, F, first
<1>6. first \in S[0]
  BY <1>1, <1>2, <1>5
<1>7. PICK g : Solution(g, N, S, F, first)
  BY <1>1, <1>4, <1>6, Solvable
<1>8. /\ g = [n \in 0..N |-> IF n = 0 THEN first ELSE F[n][g[n - 1]]]
      /\ \A n \in 0..N : g[n] \in Values
  BY <1>5, <1>7, Zenon DEF Solution
<1> DEFINE U(h) == h = [n \in 0..N |-> IF n = 0 THEN first ELSE step(h[n - 1], n)]
<1>9. U(g)
  <2>1. ASSUME NEW n \in 0..N, n # 0 PROVE F[n][g[n - 1]] = step(g[n - 1], n)
    <3>1. n \in 1..N /\ n - 1 \in 0..N
      BY <1>1, <2>1
    <3> QED
      BY <1>5, <1>8, <3>1
  <2> QED
    BY <1>8, <2>1
<1> DEFINE f == CHOOSE h : U(h)
<1>10. U(f)
  <2> HIDE DEF U
  <2> QED
    BY <1>9
<1>11. CreatePath(t, start, path, skip, target) = f[N]
  BY Zenon DEF CreatePath, step, first
<1> HIDE DEF f
<1>12. f[0] = first /\ \A n \in 1..N : f[n] = step(f[n - 1], n)
  BY <1>1, <1>10
<1> DEFINE T == {n \in 0..N : f[n] \in Values}
<1>13. 0..N \subseteq T
  <2>1. 0 \in T
    BY <1>1, <1>2, <1>12
  <2>2. \A n \in 1..N : n - 1 \in T => n \in T
    BY <1>1, <1>3, <1>12
  <2> HIDE DEF T
  <2> QED
    BY <1>1, <2>1, <2>2, UpTo
<1> QED
  <2>1. \A n \in 0..N : f[n] \in Makings(t)
    BY <1>13 DEF Values
  <2>2. MakingSteps(f, t, start, path, skip, target)
    BY <1>12, <2>1 DEF step, first, MakingSteps
  <2> QED
    BY <1>11, <2>2

(* lookup_path with create only makes directories, and its target is a     *)
(* vnode that a lookup may find (vfs.c:77-119).                            *)
LEMMA CreatePathMakes ==
  ASSUME NEW t \in TreeType, Shape(t), NEW start \in Vnodes(t), NEW path \in Text, NEW skip,
         NEW target, Target(t, target)
  PROVE  CreatePath(t, start, path, skip, target) \in Makings(t)
<1>1. Len(Split(path)) \in 0..Len(Split(path))
  BY SplitType DEF Text
<1>2. PICK f : /\ MakingSteps(f, t, start, path, skip, target)
               /\ CreatePath(t, start, path, skip, target) = f[Len(Split(path))]
  BY CreatePathSteps
<1> QED
  BY <1>1, <1>2 DEF MakingSteps

(* What a path that is found may rely on when the tree changes: old vnodes *)
(* keep name, type and entries, and mounts are put only on what lookups    *)
(* find.                                                                   *)
Relies(t, u, v) ==
  /\ u.node[v].name = t.node[v].name
  /\ u.node[v].type = t.node[v].type
  /\ Prefix(t.node[v].entries, u.node[v].entries)
  /\ u.node[v].mount = t.node[v].mount \/ Reached(t, v)

(* The whole tree, for paths that are found.                               *)
Preserves(t, u) ==
  /\ Vnodes(t) \subseteq Vnodes(u)
  /\ \A v \in Vnodes(t) : Relies(t, u, v)

(* Nothing was mounted on the way.                                         *)
Uncovered(t, u, comps) ==
  \A k \in 1..Len(comps) :
    Found(t, comps)[k].ok =>
      u.node[Found(t, comps)[k].target].mount = t.node[Found(t, comps)[k].target].mount

(* Mounts do not hide below entries.                                       *)
LEMMA MountedEntry ==
  ASSUME NEW t \in TreeType, Shape(t), NEW dir \in Vnodes(t), NEW e \in ToSet(t.node[dir].entries),
         t.node[e].mount # None
  PROVE  ~Reached(t, e)
<1> SUFFICES ASSUME Reached(t, e) PROVE FALSE
  OBVIOUS
<1>1. PICK d \in Vnodes(t) : \E f \in ToSet(t.node[d].entries) : t.node[f].mount = e
  BY DEF Reached
<1>2. PICK f \in ToSet(t.node[d].entries) : t.node[f].mount = e
  BY <1>1
<1>3. Placed(t, d) /\ Placed(t, dir) /\ f \in Vnodes(t) /\ e \in Vnodes(t) /\ e # None
  <2>1. Placed(t, d) /\ Placed(t, dir)
    BY ShapeParts
  <2>2. f \in Vnodes(t) /\ e \in Vnodes(t)
    BY <2>1, BelowFacts DEF Placed
  <2> QED
    BY <2>1, <2>2, TreeFacts DEF None
<1>4. e \in Below(t, f) /\ e \in Below(t, dir)
  BY <1>2, <1>3, BelowFacts
<1>5. f = dir
  BY <1>3, <1>4, OnlyOneAbove
<1> QED
  BY <1>2, <1>3, <1>5 DEF Placed

(* tmpfs_lookup finds the same entry, whatever was added behind it         *)
(* (tmpfs.c:173-187).                                                      *)
LEMMA LookupKept ==
  ASSUME NEW t \in TreeType, Shape(t), NEW u \in TreeType, Shape(u), Preserves(t, u),
         NEW dir \in Vnodes(t), NEW name, NEW v, v = TmpfsLookup(t, dir, name), v # None,
         u.node[v].mount = t.node[v].mount
  PROVE  TmpfsLookup(u, dir, name) = v
<1> DEFINE e == t.node[dir].entries
           d == u.node[dir].entries
           i == EntryAt(t, dir, name)
           j == EntryAt(u, dir, name)
<1>1. /\ IsDir(t, dir) /\ i # 0
      /\ i \in DOMAIN e /\ e[i] \in Vnodes(t) /\ t.node[e[i]].name = name
      /\ \/ t.node[e[i]].mount = None /\ v = e[i]
         \/ t.node[e[i]].mount # None /\ v = t.node[e[i]].mount
  <2>1. IsDir(t, dir) /\ i # 0
    BY LookupFinds
  <2> QED
    BY <2>1, LookupFinds
<1>2. dir \in Vnodes(u) /\ IsDir(u, dir) /\ Prefix(e, d)
  BY <1>1 DEF Preserves, Relies, IsDir
<1>3. /\ DOMAIN e = 1..Len(e) /\ Len(e) \in Nat /\ DOMAIN d = 1..Len(d) /\ Len(d) \in Nat
      /\ \A k \in DOMAIN e : e[k] \in Vnodes(t) /\ e[k] \in ToSet(e)
  BY <1>2, EntriesFacts, EntriesAreVnodes
<1>4. \A k \in DOMAIN e : k \in DOMAIN d /\ d[k] = e[k]
  BY <1>2, <1>3 DEF Prefix
<1>5. \A k \in DOMAIN e : u.node[d[k]].name = t.node[e[k]].name
  BY <1>3, <1>4 DEF Preserves, Relies
<1>6. \A k \in DOMAIN e : t.node[e[k]].name = name => i <= k
  BY <1>1, FirstEntry
<1>7. \/ j = 0 /\ \A k \in DOMAIN d : u.node[d[k]].name # name
      \/ j \in DOMAIN d /\ u.node[d[j]].name = name /\ \A k \in DOMAIN d : u.node[d[k]].name = name => j <= k
  BY <1>2, FirstEntry
<1> HIDE DEF i, j, e, d
<1>8. i \in DOMAIN d /\ u.node[d[i]].name = name /\ d[i] = e[i]
  BY <1>1, <1>4, <1>5
<1>9. j \in DOMAIN d /\ u.node[d[j]].name = name /\ j <= i
  BY <1>7, <1>8
<1>10. j \in DOMAIN e
  BY <1>1, <1>3, <1>9
<1>11. j = i
  BY <1>1, <1>3, <1>5, <1>6, <1>9, <1>10
<1>12. j # 0
  BY <1>3, <1>9
<1>13. u.node[e[i]].mount = t.node[e[i]].mount
  <2>1. CASE t.node[e[i]].mount = None
    BY <1>1, <2>1
  <2>2. CASE t.node[e[i]].mount # None
    <3>1. ~Reached(t, e[i])
      BY <1>1, <1>3, <2>2, MountedEntry DEF e
    <3> QED
      BY <1>1, <3>1 DEF Preserves, Relies
  <2> QED
    BY <2>1, <2>2
<1>14. TmpfsLookup(u, dir, name) = IF u.node[d[j]].mount = None THEN d[j] ELSE u.node[d[j]].mount
  BY <1>2, <1>12 DEF TmpfsLookup, EntryAt, d, j
<1> QED
  BY <1>1, <1>8, <1>11, <1>13, <1>14

(* lookup_path goes on in the same mount: the third one takes the place of *)
(* the second, which no lookup finds (vfs.c:82-84).                        *)
LEMMA EnterKept ==
  ASSUME NEW t \in TreeType, Shape(t), NEW u \in TreeType, Shape(u), Preserves(t, u), u.root = t.root,
         NEW v \in Vnodes(t), v = t.root \/ Reached(t, v), u.node[v].mount = t.node[v].mount
  PROVE  Enter(u, v) = Enter(t, v)
<1>1. v \in Vnodes(u)
  BY DEF Preserves
<1>2. CASE t.node[v].mount = None
  BY <1>1, <1>2, EnterDefined
<1>3. CASE t.node[v].mount # None
  <2> DEFINE w == t.node[v].mount
  <2>1. w \in Vnodes(t) /\ w \in Vnodes(u) /\ Enter(t, v) = Enter(t, w) /\ Enter(u, v) = Enter(u, w)
    BY <1>1, <1>3, EnterDefined
  <2>2. Reached(t, v)
    BY <1>3, ShapeParts
  <2>3. PICK dir \in Vnodes(t) : \E e \in ToSet(t.node[dir].entries) : t.node[e].mount = v
    BY <1>3, <2>2 DEF Reached
  <2>4. PICK e \in ToSet(t.node[dir].entries) : t.node[e].mount = v
    BY <2>3
  <2>5. e \in Vnodes(t)
    BY BelowFacts, ShapeParts DEF Placed
  <2>6. t.node[w].mount = None
    BY <2>1, <2>4, <2>5, ShapeParts DEF TwoMounts
  <2>7. ~Reached(t, w)
    BY <2>1, <2>4, <2>5, ReachedIsLow
  <2>8. u.node[w].mount = None
    BY <2>1, <2>6, <2>7 DEF Preserves, Relies
  <2> HIDE DEF w
  <2>9. Enter(t, w) = w /\ Enter(u, w) = w
    BY <2>1, <2>6, <2>8, EnterDefined
  <2> QED
    BY <2>1, <2>9
<1> QED
  BY <1>2, <1>3

(* A path that is found is found again.                                    *)
LEMMA FoundKept ==
  ASSUME NEW t \in TreeType, Shape(t), NEW u \in TreeType, Shape(u), Preserves(t, u), u.root = t.root,
         NEW comps \in Text, Uncovered(t, u, comps)
  PROVE  \A k \in 0..Len(comps) : Found(t, comps)[k].ok => Found(u, comps)[k] = Found(t, comps)[k]
<1> DEFINE N == Len(comps)
           f(k) == Found(t, comps)[k]
           g(k) == Found(u, comps)[k]
<1>1. /\ N \in Nat
      /\ f(0) = [ok |-> TRUE, target |-> None] /\ g(0) = [ok |-> TRUE, target |-> None]
      /\ \A k \in 1..N : f(k) = FindComponent(t, f(k - 1), comps[k])
      /\ \A k \in 1..N : g(k) = FindComponent(u, g(k - 1), comps[k])
      /\ \A k \in 0..N : f(k) \in Findings(t) /\ g(k) \in Findings(u)
  <2>1. comps \in Seq(Tokens)
    BY DEF Text
  <2>2. /\ f(0) = [ok |-> TRUE, target |-> None]
        /\ \A k \in 1..N : f(k) = FindComponent(t, f(k - 1), comps[k])
        /\ \A k \in 0..N : f(k) \in Findings(t)
    BY <2>1, FoundDefined
  <2>3. /\ g(0) = [ok |-> TRUE, target |-> None]
        /\ \A k \in 1..N : g(k) = FindComponent(u, g(k - 1), comps[k])
        /\ \A k \in 0..N : g(k) \in Findings(u)
    BY <2>1, FoundDefined
  <2>4. N \in Nat
    BY <2>1
  <2> HIDE DEF f, g
  <2> QED
    BY <2>2, <2>3, <2>4
<1>2. \A k \in 1..N : f(k).ok => u.node[f(k).target].mount = t.node[f(k).target].mount
  BY DEF Uncovered
<1> HIDE DEF f, g
<1> DEFINE T == {k \in 0..N : f(k).ok => g(k) = f(k)}
<1>3. 0 \in T
  <2>1. g(0) = f(0)
    BY <1>1, Zenon
  <2>2. 0 \in 0..N
    BY <1>1
  <2> QED
    BY <2>1, <2>2
<1>4. ASSUME NEW k \in 1..N, k - 1 \in T PROVE k \in T
  <2> SUFFICES ASSUME f(k).ok PROVE g(k) = f(k)
    BY <1>1
  <2> DEFINE before == f(k - 1)
             dir == FindIn(t, before)
             name == comps[k]
             entry == TmpfsLookup(t, Enter(t, dir), name)
  <2>1. before \in Findings(t) /\ k - 1 \in 0..N
    BY <1>1
  <2> HIDE DEF before
  <2>2. f(k) = FindComponent(t, before, name)
    BY <1>1 DEF before
  <2>3. /\ dir \in Vnodes(t) /\ Enter(t, dir) \in Vnodes(t)
        /\ FindComponent(t, before, name).ok <=> before.ok /\ IsDir(t, dir) /\ entry # None
        /\ FindComponent(t, before, name).target = IF FindComponent(t, before, name).ok THEN entry ELSE before.target
    BY <2>1, FindStep
  <2>4. before.ok /\ IsDir(t, dir) /\ entry # None /\ f(k).target = entry
    BY <2>2, <2>3
  <2>5. g(k - 1) = before
    BY <1>4, <2>4 DEF before
  <2>6. dir = t.root \/ Reached(t, dir)
    BY <2>1 DEF FindIn, Findings
  <2>7. u.node[dir].mount = t.node[dir].mount
    <3>1. CASE before.target = None
      <4>1. dir = t.root
        BY <3>1 DEF FindIn
      <4> QED
        BY <4>1, ShapeParts
    <3>2. CASE before.target # None
      <4>1. dir = before.target
        BY <3>2 DEF FindIn
      <4>2. k - 1 \in 1..N
        <5>1. k - 1 # 0
          BY <1>1, <3>2 DEF before
        <5> QED
          BY <2>1, <5>1
      <4> QED
        BY <1>2, <2>4, <4>1, <4>2 DEF before
    <3> QED
      BY <3>1, <3>2
  <2>8. FindIn(u, before) = dir /\ IsDir(u, dir)
    BY <2>3, <2>4 DEF FindIn, Preserves, Relies, IsDir
  <2> HIDE DEF dir, entry
  <2>9. Enter(u, dir) = Enter(t, dir)
    BY <2>3, <2>6, <2>7, EnterKept
  <2>10. u.node[entry].mount = t.node[entry].mount
    BY <1>2, <2>4
  <2>11. TmpfsLookup(u, Enter(t, dir), name) = entry
    BY <2>3, <2>4, <2>10, LookupKept DEF entry
  <2>12. g(k) = FindComponent(u, before, name) /\ before \in Findings(u)
    BY <1>1, <2>1, <2>5
  <2>13. g(k) \in Findings(u) /\ g(k).ok /\ g(k).target = entry
    <3>1. LET d == FindIn(u, before)
              x == TmpfsLookup(u, Enter(u, d), name)
              y == FindComponent(u, before, name)
          IN y \in Findings(u) /\ (y.ok <=> before.ok /\ IsDir(u, d) /\ x # None)
             /\ y.target = (IF y.ok THEN x ELSE before.target)
      BY <2>12, FindStep
    <3> QED
      BY <2>4, <2>8, <2>9, <2>11, <2>12, <3>1
  <2>14. f(k) \in Findings(t)
    BY <1>1
  <2> QED
    BY <2>4, <2>13, <2>14 DEF Findings
<1>5. 0..N \subseteq T
  <2> HIDE DEF T
  <2> QED
    BY <1>1, <1>3, <1>4, UpTo
<1> QED
  BY <1>5 DEF f, g

(* What vfs_lookup returns.                                                *)
LEMMA LookupResult ==
  ASSUME NEW t \in TreeType, Shape(t), NEW path \in Text
  PROVE  /\ path = <<Slash>> => Lookup(t, path).ok /\ Lookup(t, path).target = t.root
         /\ path # <<Slash>> =>
              /\ Lookup(t, path) = Found(t, SearchComps(path))[Len(SearchComps(path))]
              /\ Lookup(t, path) \in Findings(t)
              /\ Lookup(t, path).ok => Reached(t, Lookup(t, path).target)
              /\ Target(t, Lookup(t, path).target)
<1> DEFINE comps == SearchComps(path)
           N == Len(comps)
           f(k) == Found(t, comps)[k]
<1>1. comps \in Seq(Tokens) /\ N \in Nat /\ N # 0
  BY SearchCompsType DEF Text
<1>2. N \in 1..N /\ N - 1 \in 0..N /\ N \in 0..N
  BY <1>1
<1> HIDE DEF comps
<1>3. f(N) = FindComponent(t, f(N - 1), comps[N]) /\ f(N) \in Findings(t) /\ f(N - 1) \in Findings(t)
  BY <1>1, <1>2, FoundDefined
<1>4. f(N).ok => f(N).target # None
  BY <1>3, FindStep
<1>5. Target(t, f(N).target) /\ (f(N).ok => Reached(t, f(N).target))
  BY <1>3, <1>4 DEF Findings, Target
<1>6. Lookup(t, path) = IF path = <<Slash>> THEN [ok |-> TRUE, target |-> t.root] ELSE f(N)
  BY DEF Lookup, Search, comps
<1> HIDE DEF f
<1>7. CASE path = <<Slash>>
  BY <1>6, <1>7
<1>8. CASE path # <<Slash>>
  <2>1. Lookup(t, path) = f(N)
    BY <1>6, <1>8
  <2> QED
    BY <1>3, <1>5, <1>8, <2>1 DEF f, comps
<1> QED
  BY <1>7, <1>8

(* A lookup finds a vnode.                                                 *)
LEMMA LookupOk ==
  ASSUME NEW t \in TreeType, Shape(t), NEW path \in Text, Lookup(t, path).ok
  PROVE  Lookup(t, path).target \in Vnodes(t)
BY LookupResult, ShapeParts DEF Reached

(* A vnode that vfs_open makes a file.                                     *)
FileOf(n) == [n EXCEPT !.type = "FILE", !.entries = <<>>, !.data = NoData]

(* It stays a vnode (vfs_open, vfs.c:139-140).                             *)
LEMMA FileOfType ==
  ASSUME NEW n \in VnodeType
  PROVE  /\ FileOf(n) \in VnodeType /\ FileOf(n).type = "FILE" /\ FileOf(n).entries = <<>>
         /\ FileOf(n).name = n.name /\ FileOf(n).mount = n.mount
<1>1. <<>> \in Seq(Nat) /\ NoData \in Word
  BY DEF NoData, Word
<1> QED
  BY <1>1 DEF FileOf, VnodeType

(* A vnode becomes a file; the tree keeps its shape, as entries are only   *)
(* lost (vfs_open, vfs.c:139-140).                                         *)
LEMMA MakeFileWrites ==
  ASSUME NEW t \in TreeType, Shape(t), NEW v \in Vnodes(t)
  PROVE  /\ Written(t, MakeFile(t, v), v, FileOf(t.node[v]))
         /\ MakeFile(t, v) \in TreeType /\ Shape(MakeFile(t, v))
<1> DEFINE n == FileOf(t.node[v])
           u == MakeFile(t, v)
<1>1. /\ n \in VnodeType /\ n.type = "FILE" /\ n.entries = <<>>
      /\ n.name = t.node[v].name /\ n.mount = t.node[v].mount
  BY TreeFacts, FileOfType
<1>2. u = [t EXCEPT !.node[v] = n]
  BY DEF MakeFile, FileOf
<1> HIDE DEF n, u
<1>3. Written(t, u, v, n)
  BY <1>1, <1>2, WriteVnode
<1>4. Shape(u)
  BY <1>1, <1>3, FileShape
<1> QED
  BY <1>3, <1>4 DEF n, u, Written

(* A vnode that is made a file stays where it is.                          *)
LEMMA StillReached ==
  ASSUME NEW t \in TreeType, Shape(t), NEW v, Reached(t, v), NEW u \in TreeType,
         Vnodes(u) = Vnodes(t), OthersStay(t, u, v), u.node[v].mount = t.node[v].mount
  PROVE  Reached(u, v)
<1>1. PICK dir \in Vnodes(t) : \E e \in ToSet(t.node[dir].entries) :
        (e = v /\ t.node[v].mount = None) \/ t.node[e].mount = v
  BY DEF Reached
<1>2. PICK e \in ToSet(t.node[dir].entries) : (e = v /\ t.node[v].mount = None) \/ t.node[e].mount = v
  BY <1>1
<1>3. e \in Vnodes(t) /\ dir < e /\ (t.node[e].mount = v /\ v # None => e < v) /\ v \in Nat \ {0}
  <2>1. e \in Vnodes(t) /\ dir < e
    BY ShapeParts, BelowFacts DEF Placed
  <2> QED
    BY <2>1, ShapeParts, BelowFacts, ReachedIsVnode DEF Placed
<1>4. dir # v /\ (e = v \/ (e # v /\ t.node[e].mount = v))
  <2>1. dir \in Nat /\ e \in Nat /\ v \in Nat \ {0} /\ dir < e
    BY <1>3, TreeFacts
  <2>2. CASE e = v
    BY <2>1, <2>2
  <2>3. CASE t.node[e].mount = v
    <3>1. e < v
      BY <1>3, <2>1, <2>3 DEF None
    <3> QED
      BY <2>1, <2>3, <3>1
  <2> QED
    BY <1>2, <2>2, <2>3
<1>5. u.node[dir] = t.node[dir] /\ (e # v => u.node[e] = t.node[e])
  BY <1>3, <1>4 DEF OthersStay
<1> QED
  BY <1>2, <1>4, <1>5 DEF Reached

(* A file of the archive.                                                  *)
RootType(t) == t.node[t.root].type

(* Trees while the archive is inserted.                                    *)
Insertions == {a \in [tree : TreeType, target : Nat] : Shape(a.tree) /\ Target(a.tree, a.target)}

(* A vnode that gets a file of the archive.                                *)
ArchivedFile(n, file) == [n EXCEPT !.data = file.data, !.len = file.size]

(* It stays a vnode (initramfs_setup_mount, cpio.c:189-206).               *)
LEMMA ArchivedFileType ==
  ASSUME NEW n \in VnodeType, NEW file, file.data \in Word, file.size \in Word
  PROVE  /\ ArchivedFile(n, file) \in VnodeType /\ ArchivedFile(n, file).type = n.type
         /\ ArchivedFile(n, file).entries = n.entries
         /\ ArchivedFile(n, file).name = n.name /\ ArchivedFile(n, file).mount = n.mount
BY DEF ArchivedFile, VnodeType

(* A file of the archive is inserted, never in place of the root           *)
(* (initramfs_setup_mount, cpio.c:189-206).                                *)
LEMMA AddArchivedAdds ==
  ASSUME NEW a \in Insertions, NEW start \in Vnodes(a.tree), NEW file,
         file.path \in Text, file.data \in Word, file.size \in Word
  PROVE  /\ AddArchived(a, start, file) \in Insertions
         /\ Vnodes(a.tree) \subseteq Vnodes(AddArchived(a, start, file).tree)
         /\ AddArchived(a, start, file).tree.root = a.tree.root
         /\ RootType(AddArchived(a, start, file).tree) = RootType(a.tree)
<1> DEFINE made == CreatePath(a.tree, start, file.path, 0, a.target)
           t == made.tree
           v == made.target
           w == MakeFile(t, v)
           n == ArchivedFile(w.node[v], file)
           u == [w EXCEPT !.node[v] = n]
           r == AddArchived(a, start, file)
<1>1. a.tree \in TreeType /\ Shape(a.tree) /\ Target(a.tree, a.target)
  BY DEF Insertions
<1>2. made \in Makings(a.tree)
  BY <1>1, CreatePathMakes
<1>3. r = [tree |-> u, target |-> v]
  BY DEF AddArchived, ArchivedFile
<1> HIDE DEF made, r
<1>4. /\ t \in TreeType /\ Shape(t) /\ Target(t, v) /\ v \in Nat
      /\ Vnodes(a.tree) \subseteq Vnodes(t) /\ t.root = a.tree.root
      /\ RootType(t) = RootType(a.tree)
  <2>1. a.tree.root \in Vnodes(a.tree)
    BY <1>1, ShapeParts
  <2> QED
    BY <1>2, <2>1 DEF Makings, Grown, Stays, RootType
<1>5. CASE v = None
  <2>1. w = t
    BY <1>4, <1>5, WriteNone DEF MakeFile
  <2>2. u = t
    BY <1>4, <1>5, <2>1, WriteNone
  <2>3. r = [tree |-> t, target |-> v]
    BY <1>3, <2>2
  <2> HIDE DEF u, t, v
  <2>4. r \in Insertions /\ r.tree = t
    BY <1>4, <2>3 DEF Insertions
  <2> QED
    BY <1>4, <2>4 DEF r
<1>6. CASE Reached(t, v)
  <2>1. v \in Vnodes(t)
    BY <1>6 DEF Reached
  <2> HIDE DEF w
  <2>2. Written(t, w, v, FileOf(t.node[v])) /\ w \in TreeType /\ Shape(w)
    BY <1>4, <2>1, MakeFileWrites DEF w
  <2>3. FileOf(t.node[v]).type = "FILE" /\ FileOf(t.node[v]).mount = t.node[v].mount
    BY <1>4, <2>1, TreeFacts, FileOfType
  <2>4. w.node[v] \in VnodeType /\ w.node[v].type = "FILE" /\ w.node[v].mount = t.node[v].mount
        /\ Vnodes(w) = Vnodes(t) /\ w.root = t.root /\ OthersStay(t, w, v)
    BY <2>1, <2>2, <2>3, TreeFacts DEF Written
  <2>5. n \in VnodeType /\ n.type = "FILE" /\ n.entries = w.node[v].entries
        /\ n.name = w.node[v].name /\ n.mount = w.node[v].mount
    BY <2>4, ArchivedFileType
  <2> HIDE DEF n
  <2>6. Written(w, u, v, n)
    BY <2>1, <2>2, <2>4, <2>5, WriteVnode
  <2> HIDE DEF u
  <2>7. Shape(u)
    BY <2>1, <2>2, <2>4, <2>5, <2>6, FileShape
  <2>8. /\ u \in TreeType /\ Vnodes(u) = Vnodes(t) /\ OthersStay(t, u, v) /\ u.root = t.root
        /\ u.node[v].mount = t.node[v].mount
    BY <2>4, <2>5, <2>6 DEF Written, OthersStay
  <2>11. RootType(u) = RootType(t)
    <3>1. v # t.root /\ t.root \in Vnodes(t)
      BY <1>4, <1>6, ReachedIsLow, ShapeParts
    <3> QED
      BY <2>8, <3>1 DEF OthersStay, RootType
  <2>9. Reached(u, v)
    BY <1>4, <1>6, <2>8, StillReached
  <2> HIDE DEF t, v
  <2>10. r \in Insertions /\ r.tree = u
    BY <1>3, <1>4, <2>7, <2>8, <2>9 DEF Insertions, Target
  <2> QED
    BY <1>4, <2>8, <2>10, <2>11 DEF r
<1> QED
  BY <1>4, <1>5, <1>6 DEF Target, r, made

(* cpio_parse.                                                             *)
Walks(garbage) ==
  [files : Seq(ParsedFiles), header : {0} \cup {f.data + f.size : f \in ParsedFiles}, ended : BOOLEAN]

(* One header of the archive (cpio_parse, cpio.c:125-153).                 *)
LEMMA WalkStep ==
  ASSUME NEW garbage \in Garbage, NEW walk \in Walks(garbage)
  PROVE  WalkOn(walk, garbage, FALSE) \in Walks(garbage)
<1> DEFINE here == {i \in DOMAIN Archive : Offset[i] = walk.header}
           f == IF here = {} THEN Lost ELSE FileAt(CHOOSE i \in here : TRUE, garbage, FALSE)
<1>1. f \in ParsedFiles
  <2>1. CASE here = {}
    BY <2>1 DEF ParsedFiles
  <2>2. CASE here # {}
    <3> DEFINE i == CHOOSE i \in here : TRUE
    <3>1. i \in DOMAIN Archive
      BY <2>2
    <3>2. f = Parsed(i, garbage)
      BY <2>2 DEF Parsed
    <3> HIDE DEF i, f
    <3>3. Parsed(i, garbage) \in ParsedFiles
      BY <3>1 DEF ParsedFiles
    <3> QED
      BY <3>2, <3>3
  <2> QED
    BY <2>1, <2>2
<1>2. WalkOn(walk, garbage, FALSE) =
        IF walk.ended \/ walk.header = Offset[Trailer] THEN [walk EXCEPT !.ended = TRUE]
        ELSE [files |-> Append(walk.files, f), header |-> f.data + f.size, ended |-> here = {}]
  BY DEF WalkOn
<1>3. (here = {}) \in BOOLEAN
  OBVIOUS
<1> HIDE DEF f, here
<1>4. Append(walk.files, f) \in Seq(ParsedFiles)
  BY <1>1 DEF Walks
<1>5. f.data + f.size \in {0} \cup {g.data + g.size : g \in ParsedFiles}
  BY <1>1
<1> DEFINE header == f.data + f.size
           ended == here = {}
           files == Append(walk.files, f)
<1> HIDE DEF header, ended, files
<1>6. [files |-> files, header |-> header, ended |-> ended] \in Walks(garbage)
  BY <1>3, <1>4, <1>5 DEF Walks, header, ended, files
<1>7. [walk EXCEPT !.ended = TRUE] \in Walks(garbage)
  BY DEF Walks
<1> QED
  BY <1>2, <1>6, <1>7 DEF header, ended, files

(* The list of cpio_parse, whatever the uninitialised digit is             *)
(* (cpio.c:82-89, 125-153).                                                *)
LEMMA ParseType ==
  ASSUME NEW garbage \in Garbage
  PROVE  CpioParse(garbage) \in Seq(ParsedFiles)
<1> DEFINE N == Trailer
           first == [files |-> <<>>, header |-> 0, ended |-> FALSE]
           Values == Walks(garbage)
           step(v, n) == WalkOn(v, garbage, FALSE)
           S == [n \in 0..N |-> Values]
           F == [n \in 1..N |-> [v \in Values |-> step(v, n)]]
<1>1. N \in Nat
  BY CpioAssumption DEF Trailer
<1>2. first \in Values
  BY DEF Walks
<1>3. \A n \in 1..N : \A v \in Values : step(v, n) \in Values
  BY WalkStep
<1> HIDE DEF Values, step
<1>4. StepsWithin(N, S, F)
  BY <1>1, <1>3 DEF StepsWithin
<1>5. /\ \A n \in 1..N : \A v \in Values : F[n][v] = step(v, n)
      /\ \A n \in 0..N : S[n] = Values
  OBVIOUS
<1> HIDE DEF S, F, first
<1>6. first \in S[0]
  BY <1>1, <1>2, <1>5
<1>7. PICK g : Solution(g, N, S, F, first)
  BY <1>1, <1>4, <1>6, Solvable
<1>8. /\ g = [n \in 0..N |-> IF n = 0 THEN first ELSE F[n][g[n - 1]]]
      /\ \A n \in 0..N : g[n] \in Values
  BY <1>5, <1>7, Zenon DEF Solution
<1> DEFINE U(h) == h = [n \in 0..N |-> IF n = 0 THEN first ELSE step(h[n - 1], n)]
<1>9. U(g)
  <2>1. ASSUME NEW n \in 0..N, n # 0 PROVE F[n][g[n - 1]] = step(g[n - 1], n)
    <3>1. n \in 1..N /\ n - 1 \in 0..N
      BY <1>1, <2>1
    <3> QED
      BY <1>5, <1>8, <3>1
  <2> QED
    BY <1>8, <2>1
<1> DEFINE f == CHOOSE h : U(h)
<1>10. U(f)
  <2> HIDE DEF U
  <2> QED
    BY <1>9
<1>11. CpioParse(garbage) = f[N].files
  BY Zenon DEF CpioParse, Walk, step, first
<1> HIDE DEF f
<1>12. f[0] = first /\ \A n \in 1..N : f[n] = step(f[n - 1], n)
  BY <1>1, <1>10
<1> DEFINE T == {n \in 0..N : f[n] \in Values}
<1>13. 0..N \subseteq T
  <2>1. 0 \in T
    BY <1>1, <1>2, <1>12
  <2>2. \A n \in 1..N : n - 1 \in T => n \in T
    BY <1>1, <1>3, <1>12
  <2> HIDE DEF T
  <2> QED
    BY <1>1, <2>1, <2>2, UpTo
<1> QED
  <2>1. N \in 0..N
    BY <1>1
  <2> QED
    BY <1>11, <1>13, <2>1 DEF Values, Walks

(* A file of the list (cpio_parse, cpio.c:125-153).                        *)
LEMMA ParsedFilesType ==
  ASSUME NEW file \in ParsedFiles
  PROVE  file.path \in Text /\ file.data \in Word /\ file.size \in Word
<1>1. file.path \in Text
  <2>1. CASE file = Lost
    BY <2>1 DEF Lost, Text
  <2>2. CASE file # Lost
    <3>1. PICK i \in DOMAIN Archive, garbage \in Garbage : file = Parsed(i, garbage)
      BY <2>2 DEF ParsedFiles
    <3>2. file.path = Archive[i].path
      BY <3>1 DEF FileAt, Parsed
    <3> QED
      BY <3>2, FileSystemAssumption DEF Text
  <2> QED
    BY <2>1, <2>2
<1> QED
  BY <1>1 DEF Word

(* initramfs_setup_mount.                                                  *)
LEMMA InsertInserts ==
  ASSUME NEW t \in TreeType, Shape(t), NEW start \in Vnodes(t), NEW garbage \in Garbage
  PROVE  /\ Insert(t, start, garbage) \in TreeType
         /\ Shape(Insert(t, start, garbage))
         /\ Vnodes(t) \subseteq Vnodes(Insert(t, start, garbage))
         /\ Insert(t, start, garbage).root = t.root
         /\ RootType(Insert(t, start, garbage)) = RootType(t)
<1> DEFINE files == Front(CpioParse(garbage))
<1>0. files \in Seq(ParsedFiles)
  BY ParseType, FrontType
<1> DEFINE N == Len(files)
           first == [tree |-> t, target |-> None]
           Values == {a \in Insertions : Vnodes(t) \subseteq Vnodes(a.tree) /\ a.tree.root = t.root
                              /\ RootType(a.tree) = RootType(t)}
           step(v, n) == IF files[n].size > 0 THEN AddArchived(v, start, files[n]) ELSE v
           S == [n \in 0..N |-> Values]
           F == [n \in 1..N |-> [v \in Values |-> step(v, n)]]
<1>1. N \in Nat
  BY <1>0
<1>2. first \in Values
  <2>1. None \in Nat
    BY DEF None
  <2> QED
    BY <2>1 DEF Insertions, Target
<1>3. \A n \in 1..N : \A v \in Values : step(v, n) \in Values
  <2> SUFFICES ASSUME NEW n \in 1..N, NEW v \in Values PROVE AddArchived(v, start, files[n]) \in Values
    OBVIOUS
  <2>1. v \in Insertions /\ Vnodes(t) \subseteq Vnodes(v.tree) /\ v.tree.root = t.root /\ RootType(v.tree) = RootType(t) /\ start \in Vnodes(v.tree)
    OBVIOUS
  <2>2. files[n] \in ParsedFiles
    BY <1>0
  <2> DEFINE file == files[n]
             u == AddArchived(v, start, file)
  <2>3. file.path \in Text /\ file.data \in Word /\ file.size \in Word
    BY <2>2, ParsedFilesType
  <2> HIDE DEF file
  <2>4. u \in Insertions /\ Vnodes(v.tree) \subseteq Vnodes(u.tree) /\ u.tree.root = v.tree.root /\ RootType(u.tree) = RootType(v.tree)
    BY <2>1, <2>3, AddArchivedAdds
  <2> HIDE DEF u
  <2>5. u \in Values
    BY <2>1, <2>4
  <2> QED
    BY <2>5 DEF u, file
<1> HIDE DEF Values, step
<1>4. StepsWithin(N, S, F)
  BY <1>1, <1>3 DEF StepsWithin
<1>5. /\ \A n \in 1..N : \A v \in Values : F[n][v] = step(v, n)
      /\ \A n \in 0..N : S[n] = Values
  OBVIOUS
<1> HIDE DEF S, F, first
<1>6. first \in S[0]
  BY <1>1, <1>2, <1>5
<1>7. PICK g : Solution(g, N, S, F, first)
  BY <1>1, <1>4, <1>6, Solvable
<1>8. /\ g = [n \in 0..N |-> IF n = 0 THEN first ELSE F[n][g[n - 1]]]
      /\ \A n \in 0..N : g[n] \in Values
  BY <1>5, <1>7, Zenon DEF Solution
<1> DEFINE U(h) == h = [n \in 0..N |-> IF n = 0 THEN first ELSE step(h[n - 1], n)]
<1>9. U(g)
  <2>1. ASSUME NEW n \in 0..N, n # 0 PROVE F[n][g[n - 1]] = step(g[n - 1], n)
    <3>1. n \in 1..N /\ n - 1 \in 0..N
      BY <1>1, <2>1
    <3> QED
      BY <1>5, <1>8, <3>1
  <2> QED
    BY <1>8, <2>1
<1> DEFINE f == CHOOSE h : U(h)
<1>10. U(f)
  <2> HIDE DEF U
  <2> QED
    BY <1>9
<1>11. Insert(t, start, garbage) = [f[N].tree EXCEPT !.mounted = TRUE]
  BY Zenon DEF Insert, step, first
<1> HIDE DEF f
<1>12. f[0] = first /\ \A n \in 1..N : f[n] = step(f[n - 1], n)
  BY <1>1, <1>10
<1> DEFINE T == {n \in 0..N : f[n] \in Values}
<1>13. 0..N \subseteq T
  <2>1. 0 \in T
    BY <1>1, <1>2, <1>12
  <2>2. \A n \in 1..N : n - 1 \in T => n \in T
    BY <1>1, <1>3, <1>12
  <2> HIDE DEF T
  <2> QED
    BY <1>1, <2>1, <2>2, UpTo
<1> QED
  <2>1. f[N] \in Insertions /\ Vnodes(t) \subseteq Vnodes(f[N].tree) /\ f[N].tree.root = t.root
       /\ RootType(f[N].tree) = RootType(t)
    <3>1. N \in 0..N
      BY <1>1
    <3> QED
      BY <1>13, <3>1 DEF Values
  <2> DEFINE w == f[N].tree
             u == [w EXCEPT !.mounted = TRUE]
  <2>2. w \in TreeType /\ Shape(w) /\ Vnodes(t) \subseteq Vnodes(w) /\ w.root = t.root
        /\ RootType(w) = RootType(t)
    BY <2>1 DEF Insertions
  <2>3. Insert(t, start, garbage) = u
    BY <1>11
  <2> HIDE DEF w
  <2>4. u \in TreeType /\ u.node = w.node /\ u.root = w.root
    BY <2>2 DEF TreeType
  <2> HIDE DEF u
  <2>5. Vnodes(u) = Vnodes(w) /\ RootType(u) = RootType(w)
    BY <2>4 DEF Vnodes, RootType
  <2>6. Shape(u)
    <3>1. \A v : Below(u, v) = Below(w, v) /\ IsDir(u, v) = IsDir(w, v) /\ DirShape(u, u.node[v]) = DirShape(w, w.node[v])
      BY <2>4 DEF Below, IsDir, DirShape
    <3>4. \A v \in Vnodes(w) : Placed(w, v)
      BY <2>2, ShapeParts
    <3>2. \A v \in Vnodes(w) : Placed(u, v)
      BY <2>2, <2>4, <2>5, <3>1, <3>4 DEF Placed
    <3>3. Apart(u) /\ TwoMounts(u)
      BY <2>2, <2>4, <2>5, <3>1, ShapeParts DEF Apart, TwoMounts
    <3> QED
      BY <2>2, <2>4, <2>5, <3>1, <3>2, <3>3, ShapeParts
  <2> QED
    BY <2>2, <2>3, <2>4, <2>5, <2>6

(* Where t was, u has the same vnodes.                                     *)
SameVnodes(t, u) == Vnodes(t) \subseteq Vnodes(u) /\ \A v \in Vnodes(t) : u.node[v] = t.node[v]

(* Files that are not of tmpfs keep all but their mounts.                  *)
KeepsFile(t, u, v) ==
  ~IsDir(t, v) /\ t.node[v].fs # "tmpfs" =>
    u.node[v] = [t.node[v] EXCEPT !.mount = u.node[v].mount]

(* The same of a whole tree.                                               *)
KeepsFiles(t, u) == \A v \in Vnodes(t) : v \in Vnodes(u) /\ KeepsFile(t, u, v)

(* A vnode with its own mount is itself.                                   *)
LEMMA SameFile ==
  ASSUME NEW t \in TreeType, NEW v \in Vnodes(t), NEW u, u.node[v] = t.node[v]
  PROVE  KeepsFile(t, u, v)
BY TreeFacts DEF KeepsFile, VnodeType

(* A tree that only gets more vnodes keeps its paths (tmpfs_setup_mount,   *)
(* tmpfs.c:6-35).                                                          *)
LEMMA SamePreserves ==
  ASSUME NEW t \in TreeType, NEW u, SameVnodes(t, u)
  PROVE  Preserves(t, u) /\ KeepsFiles(t, u)
<1>1. Preserves(t, u)
  BY EntriesFacts, PrefixRefl DEF SameVnodes, Preserves, Relies
<1>2. KeepsFiles(t, u)
  BY SameFile DEF SameVnodes, KeepsFiles
<1> QED
  BY <1>1, <1>2

(* mkdir keeps all paths (tmpfs_create, tmpfs.c:140-171).                  *)
LEMMA GrownPreserves ==
  ASSUME NEW t \in TreeType, NEW u, Grown(t, u)
  PROVE  Preserves(t, u) /\ KeepsFiles(t, u)
<1>1. Preserves(t, u)
  BY DEF Grown, Stays, Preserves, Relies
<1>2. ASSUME NEW v \in Vnodes(t) PROVE v \in Vnodes(u) /\ KeepsFile(t, u, v)
  <2>1. v \in Vnodes(u) /\ Stays(t, u, v)
    BY DEF Grown
  <2>2. CASE IsDir(t, v)
    BY <2>1, <2>2 DEF KeepsFile
  <2>3. CASE ~IsDir(t, v)
    BY <2>1, <2>3, SameFile DEF Stays
  <2> QED
    BY <2>1, <2>2, <2>3
<1> QED
  BY <1>1, <1>2 DEF KeepsFiles

(* A new root of a mount has no place yet (tmpfs_setup_mount,              *)
(* tmpfs.c:6-35).                                                          *)
LEMMA NewRootMakes ==
  ASSUME NEW t \in TreeType, Shape(t), NEW fs \in FileSystems
  PROVE  LET u == NewRoot(t, fs) IN
         /\ u \in TreeType /\ Shape(u) /\ u.root = t.root
         /\ SameVnodes(t, u)
         /\ Fresh(t) \in Vnodes(u)
         /\ u.node[Fresh(t)] = NewVnode("", "DIR", fs)
         /\ \A v \in Vnodes(u) : Fresh(t) \notin Below(u, v)
<1> DEFINE vnode == NewVnode("", "DIR", fs)
           u == NewRoot(t, fs)
<1>1. /\ vnode \in VnodeType /\ vnode.type = "DIR" /\ vnode.entries = <<>>
      /\ vnode.mount = None /\ vnode.len = 0
  <2>1. "" \in Names \cup {Blank}
    BY DEF Blank
  <2>2. vnode \in VnodeType
    BY <2>1, NewVnodeType
  <2> QED
    BY <2>2 DEF NewVnode
<1>2. u = [t EXCEPT !.node = Append(@, vnode)]
  BY DEF NewRoot
<1> HIDE DEF vnode, u
<1>3. Extends(t, u, vnode) /\ OthersStay(t, u, 0)
  BY <1>1, <1>2, AppendVnode
<1>4. Shape(u) /\ \A v \in Vnodes(u) : Fresh(t) \notin Below(u, v)
  BY <1>1, <1>3, RootShape
<1>5. /\ u \in TreeType /\ u.root = t.root /\ u.node[Fresh(t)] = vnode /\ Fresh(t) \in Vnodes(u)
      /\ \A v \in Vnodes(t) : v \in Vnodes(u) /\ v # 0
  BY <1>3, TreeFacts DEF Extends
<1>6. SameVnodes(t, u)
  BY <1>3, <1>5 DEF SameVnodes, OthersStay
<1> QED
  BY <1>4, <1>5, <1>6 DEF u, vnode

(* The setup_mount of each file system; that of devfs adds the uart        *)
(* (devfs.c:11-44).                                                        *)
LEMMA SetupMakes ==
  ASSUME NEW t \in TreeType, Shape(t), NEW fs \in FileSystems
  PROVE  LET u == Setup(t, fs) IN
         /\ u \in TreeType /\ Shape(u) /\ u.root = t.root
         /\ SameVnodes(t, u)
         /\ Fresh(t) \in Vnodes(u)
         /\ u.node[Fresh(t)].mount = None
         /\ \A v \in Vnodes(u) : Fresh(t) \notin Below(u, v)
<1> DEFINE r == NewRoot(t, fs)
           f == Fresh(t)
           u == Setup(t, fs)
<1>1. /\ r \in TreeType /\ Shape(r) /\ r.root = t.root
      /\ SameVnodes(t, r)
      /\ f \in Vnodes(r)
      /\ r.node[f] = NewVnode("", "DIR", fs)
      /\ \A v \in Vnodes(r) : f \notin Below(r, v)
  BY NewRootMakes
<1>2. r.node[f].mount = None /\ r.node[f].type = "DIR" /\ r.node[f].len = 0 /\ r.node[f].entries = <<>>
  <2> DEFINE n == NewVnode("", "DIR", fs)
  <2>1. n.mount = None /\ n.type = "DIR" /\ n.len = 0 /\ n.entries = <<>>
    BY DEF NewVnode
  <2>2. r.node[f] = n
    BY <1>1
  <2> HIDE DEF n, r, f
  <2> QED
    BY <2>1, <2>2
<1>3. CASE fs # "devfs"
  <2>1. u = r
    BY <1>3 DEF Setup
  <2> HIDE DEF r, u, f
  <2> QED
    BY <1>1, <1>2, <2>1 DEF u, f
<1>4. CASE fs = "devfs"
  <2> DEFINE vnode == NewVnode(UartName, "FILE", "devfs")
  <2>1. u = AddEntry(r, f, vnode)
    BY <1>4 DEF Setup
  <2>2. /\ vnode \in VnodeType /\ vnode.entries = <<>> /\ vnode.mount = None /\ vnode.len = 0
        /\ vnode.name = UartName /\ vnode.name # Blank
    <3>1. UartName \in Names /\ "devfs" \in FileSystems
      BY FileSystemAssumption DEF FileSystems
    <3>2. vnode \in VnodeType
      BY <3>1, NewVnodeType
    <3> QED
      BY <3>1, <3>2, NewVnodeFacts DEF Names
  <2> HIDE DEF r, u, f, vnode
  <2>3. Added(r, u, f, vnode)
    <3>1. r \in TreeType /\ f \in Vnodes(r)
      BY <1>1
    <3>2. r.node[f].len \in Nat
      BY <1>2
    <3> QED
      BY <2>1, <2>2, <3>1, <3>2, AddEntryAdds
  <2>4. IsDir(r, f) /\ r.node[f].len < MaxEntry
    BY <1>2, FileSystemAssumption DEF IsDir
  <2>5. \A i \in DOMAIN r.node[f].entries : r.node[r.node[f].entries[i]].name # vnode.name
    BY <1>2
  <2>6. Shape(u)
    BY <1>1, <2>2, <2>3, <2>4, <2>5, AddedShape
  <2>7. /\ u \in TreeType /\ u.root = r.root /\ u.node[f].mount = r.node[f].mount
        /\ \A v \in Vnodes(r) : v \in Vnodes(u) /\ v < Fresh(r)
        /\ \A v \in Vnodes(u) : v \in Vnodes(r) \/ v = Fresh(r)
        /\ \A v \in Vnodes(r) : v # f => u.node[v] = r.node[v]
    BY <2>3 DEF Added, Extends, OthersStay
  <2>8. f \notin Vnodes(t)
    BY TreeFacts DEF f
  <2>9. SameVnodes(t, u)
    BY <1>1, <2>7, <2>8 DEF SameVnodes
  <2>10. ASSUME NEW v \in Vnodes(u) PROVE f \notin Below(u, v)
    <3>1. /\ Below(u, f) = Below(r, f) \cup {Fresh(r)}
          /\ Below(u, Fresh(r)) = {}
          /\ \A w \in Vnodes(r) : w # f => Below(u, w) = Below(r, w)
      <4>1. r \in TreeType /\ f \in Vnodes(r) /\ vnode.entries = <<>> /\ vnode.mount = None
        BY <1>1, <2>2
      <4> QED
        BY <2>3, <4>1, AddedBelow
    <3>2. Fresh(r) # f
      BY <1>1, TreeFacts
    <3> QED
      BY <1>1, <2>7, <3>1, <3>2
  <2> QED
    BY <1>1, <1>2, <2>6, <2>7, <2>9, <2>10 DEF u, f
<1> QED
  BY <1>3, <1>4

(* A mount covers only what was found.                                     *)
LEMMA MountOnMounts ==
  ASSUME NEW t \in TreeType, Shape(t), NEW v, Reached(t, v), NEW fs \in FileSystems
  PROVE  /\ MountOn(t, v, fs) \in TreeType /\ Shape(MountOn(t, v, fs))
         /\ MountOn(t, v, fs).root = t.root
         /\ Preserves(t, MountOn(t, v, fs)) /\ KeepsFiles(t, MountOn(t, v, fs))
<1> DEFINE s == Setup(t, fs)
           f == Fresh(t)
           n == [s.node[v] EXCEPT !.mount = f]
           u == MountOn(t, v, fs)
<1>1. /\ s \in TreeType /\ Shape(s) /\ s.root = t.root
      /\ SameVnodes(t, s)
      /\ f \in Vnodes(s)
      /\ s.node[f].mount = None
      /\ \A w \in Vnodes(s) : f \notin Below(s, w)
  BY SetupMakes
<1>2. u = [s EXCEPT !.node[v] = n]
  BY DEF MountOn
<1> HIDE DEF s, u
<1>3. v \in Vnodes(t) /\ v \in Vnodes(s) /\ v < f /\ f \in Nat /\ f \notin Vnodes(t) /\ t.root \in Vnodes(t)
  BY <1>1, TreeFacts, ShapeParts DEF SameVnodes, Reached
<1> HIDE DEF f
<1>4. Reached(s, v)
  <2>1. PICK dir \in Vnodes(t) : \E e \in ToSet(t.node[dir].entries) :
          (e = v /\ t.node[v].mount = None) \/ t.node[e].mount = v
    BY DEF Reached
  <2>2. PICK e \in ToSet(t.node[dir].entries) : (e = v /\ t.node[v].mount = None) \/ t.node[e].mount = v
    BY <2>1
  <2>3. e \in Vnodes(t)
    BY ShapeParts, BelowFacts DEF Placed
  <2>4. s.node[dir] = t.node[dir] /\ s.node[v] = t.node[v] /\ s.node[e] = t.node[e] /\ dir \in Vnodes(s)
    BY <1>1, <1>3, <2>3 DEF SameVnodes
  <2> QED
    BY <1>3, <2>2, <2>4 DEF Reached
<1>5. /\ n \in VnodeType /\ n.mount = f /\ n.name = s.node[v].name /\ n.type = s.node[v].type
      /\ n.entries = s.node[v].entries
  <2>1. s.node[v] \in VnodeType
    BY <1>1, <1>3, TreeFacts
  <2> QED
    BY <1>3, <2>1 DEF VnodeType
<1>6. Written(s, u, v, n)
  <2> HIDE DEF n
  <2> QED
    BY <1>1, <1>2, <1>3, <1>5, WriteVnode
<1>7. Shape(u)
  <2>1. f # s.root
    BY <1>1, <1>3
  <2> QED
    BY <1>1, <1>3, <1>4, <1>6, <2>1, MountShape
<1> HIDE DEF n
<1>8. u \in TreeType /\ u.root = t.root /\ Vnodes(u) = Vnodes(s) /\ u.node[v] = n /\ OthersStay(s, u, v)
  BY <1>1, <1>6 DEF Written
<1>9. Preserves(t, u)
  <2>1. Vnodes(t) \subseteq Vnodes(u)
    BY <1>1, <1>8 DEF SameVnodes
  <2>2. ASSUME NEW w \in Vnodes(t) PROVE Relies(t, u, w)
    <3>1. s.node[w] = t.node[w] /\ w \in Vnodes(s)
      BY <1>1 DEF SameVnodes
    <3>2. Prefix(t.node[w].entries, t.node[w].entries)
      BY EntriesFacts, PrefixRefl
    <3>3. CASE w = v
      BY <1>5, <1>8, <3>1, <3>2, <3>3 DEF Relies
    <3>4. CASE w # v
      <4>1. u.node[w] = t.node[w]
        BY <1>8, <3>1, <3>4 DEF OthersStay
      <4> QED
        BY <3>2, <4>1 DEF Relies
    <3> QED
      BY <3>3, <3>4
  <2> QED
    BY <2>1, <2>2 DEF Preserves
<1>10. KeepsFiles(t, u)
  <2>1. Vnodes(t) \subseteq Vnodes(u)
    BY <1>1, <1>8 DEF SameVnodes
  <2>2. ASSUME NEW w \in Vnodes(t) PROVE KeepsFile(t, u, w)
    <3>1. s.node[w] = t.node[w] /\ w \in Vnodes(s)
      BY <1>1 DEF SameVnodes
    <3>2. CASE w = v
      <4>1. u.node[w] = [t.node[w] EXCEPT !.mount = f]
        BY <1>8, <3>1, <3>2 DEF n
      <4>2. u.node[w].mount = f
        BY <1>5, <1>8, <3>2
      <4> QED
        BY <4>1, <4>2 DEF KeepsFile
    <3>3. CASE w # v
      <4>1. u.node[w] = t.node[w]
        BY <1>8, <3>1, <3>3 DEF OthersStay
      <4> QED
        BY <4>1, SameFile
    <3> QED
      BY <3>2, <3>3
  <2> QED
    BY <2>1, <2>2 DEF KeepsFiles
<1> QED
  BY <1>7, <1>8, <1>9, <1>10 DEF u

(* vfs_mkdir.                                                              *)
LEMMA MkdirGrows ==
  ASSUME NEW t \in TreeType, Shape(t), NEW path \in Text, NEW skip
  PROVE  Grown(t, Mkdir(t, path, skip))
<1>1. t.root \in Vnodes(t) /\ Target(t, None)
  BY ShapeParts DEF Target
<1> DEFINE made == CreatePath(t, t.root, path, skip, None)
<1>2. made \in Makings(t)
  BY <1>1, CreatePathMakes
<1> HIDE DEF made
<1>3. Grown(t, made.tree)
  BY <1>2 DEF Makings
<1> QED
  BY <1>3 DEF Mkdir, made

(* vfs_mount makes the two special names (vfs.c:23-74).                    *)
LEMMA PreparedGrows ==
  ASSUME NEW t \in TreeType, Shape(t), NEW path \in Text
  PROVE  Grown(t, Prepared(t, path))
BY MkdirGrows, GrownRefl DEF Prepared

(* vfs_mount.                                                              *)
LEMMA MountAtMounts ==
  ASSUME NEW t \in TreeType, Shape(t), NEW path \in Text
  PROVE  /\ MountAt(t, path) \in TreeType /\ Shape(MountAt(t, path))
         /\ Preserves(t, MountAt(t, path)) /\ KeepsFiles(t, MountAt(t, path))
<1> DEFINE found == Lookup(t, path)
           fs == CASE path = InitramfsPath -> "initramfs"
                   [] path = DevPath -> "devfs"
                   [] OTHER -> "tmpfs"
           r == NewRoot(t, "tmpfs")
           u == MountAt(t, path)
<1>1. u = IF path = <<Slash>> THEN [r EXCEPT !.root = Fresh(t)]
          ELSE IF found.ok THEN MountOn(t, found.target, fs) ELSE t
  BY DEF MountAt
<1>2. fs \in FileSystems
  BY DEF FileSystems
<1> HIDE DEF fs, found, r, u
<1>3. CASE path = <<Slash>>
  <2>1. "tmpfs" \in FileSystems
    BY DEF FileSystems
  <2>2. /\ r \in TreeType /\ Shape(r) /\ SameVnodes(t, r) /\ Fresh(t) \in Vnodes(r)
        /\ r.node[Fresh(t)] = NewVnode("", "DIR", "tmpfs")
        /\ \A v \in Vnodes(r) : Fresh(t) \notin Below(r, v)
    BY <2>1, NewRootMakes DEF r
  <2>3. r.node[Fresh(t)].mount = None
    <3> DEFINE n == NewVnode("", "DIR", "tmpfs")
    <3>1. n.mount = None
      BY DEF NewVnode
    <3>2. r.node[Fresh(t)] = n
      BY <2>2
    <3> HIDE DEF n
    <3> QED
      BY <3>1, <3>2
  <2>4. u = [r EXCEPT !.root = Fresh(t)]
    BY <1>1, <1>3
  <2>5. u \in TreeType /\ Shape(u)
    BY <2>2, <2>3, <2>4, NewRootShape
  <2>6. u.node = r.node /\ Vnodes(u) = Vnodes(r)
    BY <2>2, <2>4 DEF TreeType, Vnodes
  <2>7. SameVnodes(t, u)
    BY <2>2, <2>6 DEF SameVnodes
  <2> QED
    BY <2>5, <2>7, SamePreserves DEF u
<1>4. CASE path # <<Slash>> /\ found.ok
  <2>1. Reached(t, found.target)
    BY <1>4, LookupResult DEF found
  <2>2. u = MountOn(t, found.target, fs)
    BY <1>1, <1>4
  <2> QED
    BY <1>2, <2>1, <2>2, MountOnMounts DEF u
<1>5. CASE path # <<Slash>> /\ ~found.ok
  <2>1. u = t
    BY <1>1, <1>5
  <2>2. Preserves(t, t) /\ KeepsFiles(t, t)
    BY GrownRefl, GrownPreserves
  <2> QED
    BY <2>1, <2>2 DEF u
<1> QED
  BY <1>3, <1>4, <1>5

(* vfs_open with O_CREAT: unless the vnode that becomes a file was there   *)
(* before, what was there stays.                                           *)
LEMMA OpenCreateOpens ==
  ASSUME NEW t \in TreeType, Shape(t), NEW path \in Text, NEW skip
  PROVE  LET o == OpenCreate(t, path, skip) IN
         /\ o.tree \in TreeType /\ Shape(o.tree) /\ o.tree.root = t.root
         /\ \/ o.tree = t
            \/ o.vnode \in Vnodes(t)
            \/ /\ Preserves(t, o.tree) /\ KeepsFiles(t, o.tree)
               /\ \A v \in Vnodes(t) : o.tree.node[v].mount = t.node[v].mount
<1> DEFINE found == Lookup(t, path)
           made == CreatePath(t, t.root, path, skip, found.target)
           w == made.tree
           v == made.target
           u == MakeFile(w, v)
           o == OpenCreate(t, path, skip)
           same == [tree |-> t, ok |-> ~IsDir(t, found.target), vnode |-> found.target, null |-> FALSE]
           none == [tree |-> w, ok |-> FALSE, vnode |-> None, null |-> TRUE]
           file == [tree |-> u, ok |-> TRUE, vnode |-> v, null |-> FALSE]
<1>1. o = IF found.ok THEN same ELSE IF v = None THEN none ELSE file
  BY DEF OpenCreate
<1>2. same.tree = t /\ none.tree = w /\ file.tree = u /\ file.vnode = v
  OBVIOUS
<1>3. found.ok \/ Target(t, found.target)
  BY LookupResult
<1>4. t.root \in Vnodes(t)
  BY ShapeParts
<1> HIDE DEF o, same, none, file, u, w, v, found
<1>5. CASE found.ok
  <2>1. o.tree = t
    BY <1>1, <1>2, <1>5
  <2> QED
    BY <2>1 DEF o
<1>6. CASE ~found.ok
  <2>1. made \in Makings(t)
    BY <1>3, <1>4, <1>6, CreatePathMakes
  <2> HIDE DEF made
  <2>2. w \in TreeType /\ Grown(t, w) /\ Target(w, v) /\ Shape(w) /\ w.root = t.root
    BY <2>1 DEF Makings, Grown, w, v
  <2>3. /\ Preserves(t, w) /\ KeepsFiles(t, w)
        /\ \A x \in Vnodes(t) : x \in Vnodes(w) /\ w.node[x].mount = t.node[x].mount
    BY <2>2, GrownPreserves DEF Grown, Stays
  <2>4. CASE v = None
    <3>1. o.tree = w
      BY <1>1, <1>2, <1>6, <2>4
    <3> QED
      BY <2>2, <2>3, <3>1 DEF o
  <2>5. CASE v # None
    <3>1. o.tree = u /\ o.vnode = v
      BY <1>1, <1>2, <1>6, <2>5
    <3>2. v \in Vnodes(w)
      BY <2>2, <2>5, ReachedIsVnode DEF Target
    <3>3. Written(w, u, v, FileOf(w.node[v])) /\ u \in TreeType /\ Shape(u)
      BY <2>2, <3>2, MakeFileWrites DEF u
    <3>4. u.root = t.root /\ Vnodes(u) = Vnodes(w) /\ OthersStay(w, u, v)
      BY <2>2, <3>3 DEF Written
    <3>5. CASE v \notin Vnodes(t)
      <4>1. \A x \in Vnodes(t) : u.node[x] = w.node[x]
        BY <2>3, <3>4, <3>5 DEF OthersStay
      <4>2. Preserves(t, u) /\ \A x \in Vnodes(t) : u.node[x].mount = t.node[x].mount
        BY <2>3, <3>4, <4>1 DEF Preserves, Relies
      <4>3. KeepsFiles(t, u)
        BY <2>3, <3>4, <4>1 DEF KeepsFiles, KeepsFile
      <4> QED
        BY <3>1, <3>3, <3>4, <4>2, <4>3 DEF o
    <3>6. CASE v \in Vnodes(t)
      BY <3>1, <3>3, <3>4, <3>6 DEF o
    <3> QED
      BY <3>5, <3>6
  <2> QED
    BY <2>4, <2>5
<1> QED
  BY <1>5, <1>6

(* The inductive invariant: the tree, a working directory that is a text,  *)
(* and nothing but the root at the beginning.                              *)
TreeIInv ==
  /\ tree \in TreeType
  /\ Shape(tree)
  /\ cwd \in Text
  /\ boot = 1 => \A v \in Vnodes(tree) : tree.node[v].entries = <<>>

(* The paths of the calls are texts (vfs_mount, vfs.c:23-74).              *)
LEMMA PathTexts ==
  /\ InitramfsPath \in Text /\ DevPath \in Text /\ <<Slash>> \in Text
  /\ Texts \subseteq Text /\ MountTexts \subseteq Text /\ ChdirTexts \subseteq Text
BY SpecialTokens, FileSystemAssumption DEF Text, Names, InitramfsPath, DevPath

(* So are the paths that the system calls translate (to_abs_path,          *)
(* vfs.c:246-293).                                                         *)
LEMMA PathsOfTexts ==
  ASSUME NEW text \in Text, cwd \in Text
  PROVE  PathsOf(text) \subseteq Text
BY AbsPathType DEF PathsOf

(* The first mount of main (vfs_mount, vfs.c:23-74).                       *)
LEMMA InitTreeIInv == Init => TreeIInv
<1> SUFFICES ASSUME Init PROVE TreeIInv
  OBVIOUS
<1> DEFINE vnode == NewVnode("", "DIR", "tmpfs")
<1>1. /\ vnode \in VnodeType /\ vnode.type = "DIR" /\ vnode.entries = <<>>
      /\ vnode.mount = None /\ vnode.len = 0
  <2>1. "" \in Names \cup {Blank} /\ "tmpfs" \in FileSystems
    BY DEF Blank, FileSystems
  <2>2. vnode \in VnodeType
    BY <2>1, NewVnodeType
  <2> QED
    BY <2>2 DEF NewVnode
<1> DEFINE empty == [node |-> <<>>, root |-> 1, mounted |-> FALSE]
<1>2. empty \in TreeType /\ empty.root = 1 /\ Len(empty.node) = 0
  BY DEF TreeType
<1>3. tree = [empty EXCEPT !.node = Append(@, vnode)]
  BY DEF Init, NewRoot
<1> HIDE DEF vnode, empty
<1>4. /\ tree \in TreeType /\ tree.root = 1 /\ Vnodes(tree) = {1} /\ tree.node[1] = vnode
  BY <1>1, <1>2, <1>3, AppendVnode DEF Extends, Fresh, Vnodes
<1>5. Below(tree, 1) = {}
  BY <1>1, <1>4, NothingBelow
<1>6. Placed(tree, 1)
  BY <1>1, <1>4, <1>5 DEF Placed, ToSet
<1>7. DirShape(tree, tree.node[1])
  BY <1>1, <1>4, FileSystemAssumption DEF DirShape
<1>8. Apart(tree) /\ TwoMounts(tree)
  BY <1>1, <1>4 DEF Apart, TwoMounts
<1>9. Shape(tree)
  BY <1>1, <1>4, <1>6, <1>7, <1>8, ShapeParts
<1> QED
  BY <1>1, <1>4, <1>9, PathTexts DEF TreeIInv, Init

(* The two mounts at boot.                                                 *)
LEMMA InitramfsMounts ==
  ASSUME NEW t \in TreeType, Shape(t), NEW garbage \in Garbage
  PROVE  LET m == MountAt(Prepared(t, InitramfsPath), InitramfsPath)
             u == Insert(m, Len(m.node), garbage)
         IN /\ u \in TreeType /\ Shape(u)
            /\ u.root = t.root => RootType(u) = RootType(t)
<1> DEFINE p == Prepared(t, InitramfsPath)
           m == MountAt(p, InitramfsPath)
           start == Len(m.node)
           u == Insert(m, start, garbage)
<1>1. Grown(t, p)
  BY PathTexts, PreparedGrows
<1>2. p \in TreeType /\ Shape(p)
  BY <1>1 DEF Grown
<1> HIDE DEF p
<1>3. m \in TreeType /\ Shape(m) /\ Preserves(p, m)
  BY <1>2, PathTexts, MountAtMounts
<1> HIDE DEF m
<1>4. start \in Vnodes(m)
  <2>1. m.root \in Vnodes(m) /\ Len(m.node) \in Nat
    BY <1>3, ShapeParts, TreeFacts
  <2> QED
    BY <2>1 DEF Vnodes
<1> HIDE DEF start
<1>5. u \in TreeType /\ Shape(u) /\ u.root = m.root /\ RootType(u) = RootType(m)
  BY <1>3, <1>4, InsertInserts
<1> HIDE DEF u
<1>6. ASSUME u.root = t.root PROVE RootType(u) = RootType(t)
  <2>1. m.root = t.root /\ p.root = t.root /\ t.root \in Vnodes(t) /\ t.root \in Vnodes(p)
    BY <1>1, <1>5, <1>6, ShapeParts DEF Grown
  <2>2. p.node[t.root].type = t.node[t.root].type
    BY <1>1, <2>1 DEF Grown, Stays
  <2>3. m.node[t.root].type = p.node[t.root].type
    BY <1>3, <2>1 DEF Preserves, Relies
  <2> QED
    BY <1>5, <2>1, <2>2, <2>3 DEF RootType
<1> QED
  BY <1>5, <1>6 DEF u, start, m, p

(* A mount of a program or of main: what it prepares, then the mount.      *)
LEMMA MountMounts ==
  ASSUME NEW t \in TreeType, Shape(t), NEW path \in Text
  PROVE  LET p == Prepared(t, path) IN
         /\ Grown(t, p)
         /\ MountAt(p, path) \in TreeType /\ Shape(MountAt(p, path))
         /\ Preserves(p, MountAt(p, path)) /\ KeepsFiles(p, MountAt(p, path))
<1> DEFINE p == Prepared(t, path)
<1>1. Grown(t, p)
  BY PreparedGrows
<1>2. p \in TreeType /\ Shape(p)
  BY <1>1 DEF Grown
<1> HIDE DEF p
<1>3. /\ MountAt(p, path) \in TreeType /\ Shape(MountAt(p, path))
      /\ Preserves(p, MountAt(p, path)) /\ KeepsFiles(p, MountAt(p, path))
  BY <1>2, MountAtMounts
<1> QED
  BY <1>1, <1>3 DEF p

(* A write to a file of tmpfs.                                             *)
LEMMA WriteWrites ==
  ASSUME NEW t \in TreeType, Shape(t), NEW v \in Vnodes(t), ~IsDir(t, v)
  PROVE  LET u == [t EXCEPT !.node[v] = [@ EXCEPT !.len = 1, !.data = HeapBlock]] IN
         /\ u \in TreeType /\ Shape(u) /\ u.root = t.root
         /\ Preserves(t, u)
         /\ t.node[v].fs = "tmpfs" => KeepsFiles(t, u)
<1> DEFINE n == [t.node[v] EXCEPT !.len = 1, !.data = HeapBlock]
           u == [t EXCEPT !.node[v] = n]
<1>1. t.node[v] \in VnodeType /\ t.node[v].type = "FILE"
  BY TreeFacts DEF VnodeType, IsDir
<1>2. 1 \in Word /\ HeapBlock \in Word
  BY DEF Word, HeapBlock
<1>3. n \in VnodeType /\ n.type = "FILE" /\ n.name = t.node[v].name /\ n.mount = t.node[v].mount
      /\ n.entries = t.node[v].entries
  BY <1>1, <1>2 DEF VnodeType
<1> HIDE DEF n
<1>4. Written(t, u, v, n)
  BY <1>3, WriteVnode
<1>5. [t EXCEPT !.node[v] = [@ EXCEPT !.len = 1, !.data = HeapBlock]] = u
  BY DEF n
<1> HIDE DEF u
<1>6. Shape(u)
  BY <1>3, <1>4, FileShape
<1>7. u \in TreeType /\ u.root = t.root /\ Vnodes(u) = Vnodes(t) /\ u.node[v] = n /\ OthersStay(t, u, v)
  BY <1>4 DEF Written
<1>8. ASSUME NEW w \in Vnodes(t) PROVE Relies(t, u, w)
  <2>1. Prefix(t.node[w].entries, t.node[w].entries)
    BY EntriesFacts, PrefixRefl
  <2>2. CASE w = v
    BY <1>1, <1>3, <1>7, <2>1, <2>2 DEF Relies
  <2>3. CASE w # v
    BY <1>7, <2>1, <2>3 DEF Relies, OthersStay
  <2> QED
    BY <2>2, <2>3
<1>9. Preserves(t, u)
  BY <1>7, <1>8 DEF Preserves
<1>10. ASSUME t.node[v].fs = "tmpfs" PROVE KeepsFiles(t, u)
  <2>1. ASSUME NEW w \in Vnodes(t) PROVE KeepsFile(t, u, w)
    <3>1. CASE w = v
      BY <1>10, <3>1 DEF KeepsFile
    <3>2. CASE w # v
      BY <1>7, <3>2, SameFile DEF OthersStay
    <3> QED
      BY <3>1, <3>2
  <2> QED
    BY <1>7, <2>1 DEF KeepsFiles
<1> QED
  BY <1>5, <1>6, <1>7, <1>9, <1>10

(* Each system call and each mount of main keeps the invariant             *)
(* (vfs.c:23-158, tmpfs.c, cpio.c:189-206).                                *)
LEMMA NextTreeIInv == TreeIInv /\ [Next]_vars => TreeIInv'
<1> SUFFICES ASSUME TreeIInv, [Next]_vars PROVE TreeIInv'
  OBVIOUS
<1>1. tree \in TreeType /\ Shape(tree) /\ cwd \in Text
  BY DEF TreeIInv
<1>2. CASE BootMount
  <2>1. CASE boot = 1
    <3>1. PICK garbage \in Garbage :
            LET m == MountAt(Prepared(tree, InitramfsPath), InitramfsPath)
            IN tree' = Insert(m, Len(m.node), garbage)
      BY <1>2, <2>1 DEF BootMount
    <3>2. tree' \in TreeType /\ Shape(tree')
      BY <1>1, <3>1, InitramfsMounts
    <3> QED
      BY <1>1, <1>2, <2>1, <3>2 DEF TreeIInv, BootMount
  <2>2. CASE boot = 2
    <3>1. tree' = MountAt(Prepared(tree, DevPath), DevPath)
      BY <1>2, <2>2 DEF BootMount
    <3>2. tree' \in TreeType /\ Shape(tree')
      BY <1>1, <3>1, PathTexts, MountMounts
    <3> QED
      BY <1>1, <1>2, <2>2, <3>2 DEF TreeIInv, BootMount
  <2> QED
    BY <1>2, <2>1, <2>2 DEF BootMount
<1>3. ASSUME NEW text \in Texts, MkdirCall(text) PROVE TreeIInv'
  <2>1. PICK path \in PathsOf(text), skip \in Skips : tree' = Mkdir(tree, path, skip)
    BY <1>3 DEF MkdirCall
  <2>2. path \in Text
    BY <1>1, PathTexts, PathsOfTexts
  <2>3. tree' \in TreeType /\ Shape(tree')
    BY <1>1, <2>1, <2>2, MkdirGrows DEF Grown
  <2> QED
    BY <1>1, <1>3, <2>3 DEF TreeIInv, MkdirCall, Running
<1>4. ASSUME NEW text \in Texts, OpenCall(text) PROVE TreeIInv'
  <2>1. PICK path \in PathsOf(text), skip \in Skips : tree' = OpenCreate(tree, path, skip).tree
    BY <1>4 DEF OpenCall
  <2>2. path \in Text
    BY <1>1, PathTexts, PathsOfTexts
  <2>3. tree' \in TreeType /\ Shape(tree')
    BY <1>1, <2>1, <2>2, OpenCreateOpens
  <2> QED
    BY <1>1, <1>4, <2>3 DEF TreeIInv, OpenCall, Running
<1>5. ASSUME NEW text \in Texts, WriteCall(text) PROVE TreeIInv'
  <2> DEFINE v == Lookup(tree, AbsPath(cwd, text)).target
  <2>1. /\ ~IsDir(tree, v) /\ Lookup(tree, AbsPath(cwd, text)).ok
        /\ \/ tree' = [tree EXCEPT !.node[v] = [@ EXCEPT !.len = 1, !.data = HeapBlock]]
           \/ tree' = tree
    BY <1>5 DEF WriteCall
  <2>2. AbsPath(cwd, text) \in Text
    BY <1>1, PathTexts, AbsPathType
  <2>3. v \in Vnodes(tree)
    BY <1>1, <2>1, <2>2, LookupOk
  <2> HIDE DEF v
  <2>4. tree' \in TreeType /\ Shape(tree')
    BY <1>1, <2>1, <2>3, WriteWrites
  <2> QED
    BY <1>1, <1>5, <2>4 DEF TreeIInv, WriteCall, Running
<1>6. ASSUME NEW text \in MountTexts, MountCall(text) PROVE TreeIInv'
  <2>1. PICK path \in PathsOf(text) : tree' = MountAt(Prepared(tree, path), path)
    BY <1>6 DEF MountCall
  <2>2. path \in Text
    BY <1>1, PathTexts, PathsOfTexts
  <2>3. tree' \in TreeType /\ Shape(tree')
    BY <1>1, <2>1, <2>2, MountMounts
  <2> QED
    BY <1>1, <1>6, <2>3 DEF TreeIInv, MountCall, Running
<1>7. ASSUME NEW text \in ChdirTexts, ChdirCall(text) PROVE TreeIInv'
  <2> DEFINE path == AbsPath(cwd, text)
  <2>1. path \in Text
    BY <1>1, PathTexts, AbsPathType
  <2>2. cwd' = path \/ cwd' = Append(path, Slash)
    BY <1>7 DEF ChdirCall
  <2> HIDE DEF path
  <2>3. cwd' \in Text
    BY <2>1, <2>2, SpecialTokens DEF Text
  <2> QED
    BY <1>1, <1>7, <2>3 DEF TreeIInv, ChdirCall, Running
<1>8. CASE TaskCreate
  BY <1>1, <1>8, PathTexts DEF TreeIInv, TaskCreate, Running
<1>9. CASE UNCHANGED vars
  BY <1>9 DEF TreeIInv, vars
<1> QED
  BY <1>2, <1>3, <1>4, <1>5, <1>6, <1>7, <1>8, <1>9 DEF Next

(* Whatever the calls, the tree keeps its types and its shape, and the     *)
(* working directory is a text (vfs.c:23-158, tmpfs.c:140-171).            *)
THEOREM TreeInductive == Spec => []TreeIInv
BY InitTreeIInv, NextTreeIInv, PTL DEF Spec

(* The vnodes form trees: one place for each, no name twice in a           *)
(* directory, no cycle, at most MaxEntry entries (tmpfs_create,            *)
(* tmpfs.c:147-169, vfs_mount, vfs.c:23-74).                               *)
THEOREM Trees == Spec => []TreeShape
<1>1. TreeIInv => TreeShape
  BY DEF TreeIInv, TreeShape
<1> QED
  BY <1>1, TreeInductive, PTL

(* Every prefix of a path that is found is found.                          *)
LEMMA FoundDown ==
  ASSUME NEW t \in TreeType, Shape(t), NEW comps \in Text, Found(t, comps)[Len(comps)].ok
  PROVE  \A k \in 0..Len(comps) : Found(t, comps)[k].ok
<1> DEFINE N == Len(comps)
           f(k) == Found(t, comps)[k]
<1>1. comps \in Seq(Tokens) /\ N \in Nat
  BY DEF Text
<1>2. /\ \A k \in 1..N : f(k) = FindComponent(t, f(k - 1), comps[k])
      /\ \A k \in 0..N : f(k) \in Findings(t)
  BY <1>1, FoundDefined
<1>3. f(N).ok
  OBVIOUS
<1> HIDE DEF f, N
<1>4. ASSUME NEW k \in 1..N, f(k).ok PROVE f(k - 1).ok
  <2> DEFINE before == f(k - 1)
  <2>1. before \in Findings(t) /\ k - 1 \in 0..N
    BY <1>1, <1>2
  <2>2. FindComponent(t, before, comps[k]).ok
    BY <1>2, <1>4
  <2> HIDE DEF before
  <2>3. before.ok
    BY <2>1, <2>2, FindStep
  <2> QED
    BY <2>3 DEF before
<1> DEFINE T == {k \in 0..N : f(N - k).ok}
<1>5. 0 \in T
  BY <1>1, <1>3
<1>6. ASSUME NEW k \in 1..N, k - 1 \in T PROVE k \in T
  <2> DEFINE j == N - (k - 1)
  <2>1. j \in 1..N /\ j - 1 = N - k /\ f(j).ok
    BY <1>1, <1>6
  <2> HIDE DEF j
  <2>2. f(j - 1).ok
    BY <1>4, <2>1
  <2> QED
    BY <1>1, <2>1, <2>2
<1> HIDE DEF T
<1>7. 0..N \subseteq T
  BY <1>1, <1>5, <1>6, UpTo
<1>8. ASSUME NEW k \in 0..N PROVE f(k).ok
  <2>1. N - k \in 0..N /\ N - (N - k) = k
    BY <1>1
  <2>2. N - k \in T
    BY <1>7, <2>1
  <2> QED
    BY <2>1, <2>2 DEF T
<1> QED
  BY <1>8 DEF f, N

(* A path that is found in t is found after a step that first makes        *)
(* directories, with result p, and then writes or mounts, with result u.   *)
LEMMA PathKept ==
  ASSUME NEW t \in TreeType, Shape(t), NEW p, Grown(t, p),
         NEW u \in TreeType, Shape(u), Preserves(p, u), u.root = t.root,
         NEW path \in Text, Lookup(t, path).ok, Uncovered(t, u, SearchComps(path))
  PROVE  /\ Lookup(u, path) = [ok |-> TRUE, target |-> Lookup(t, path).target]
         /\ u.node[Lookup(t, path).target].type = t.node[Lookup(t, path).target].type
<1> DEFINE v == Lookup(t, path).target
<1>1. /\ p \in TreeType /\ Shape(p) /\ p.root = t.root
      /\ \A w \in Vnodes(t) : w \in Vnodes(p) /\ w \in Vnodes(u) /\ p.node[w].mount = t.node[w].mount
                              /\ p.node[w].type = t.node[w].type /\ u.node[w].type = p.node[w].type
  BY DEF Grown, Stays, Preserves, Relies
<1>2. v \in Vnodes(t)
  BY LookupOk
<1>3. u.node[v].type = t.node[v].type
  BY <1>1, <1>2
<1>4. CASE path = <<Slash>>
  <2>1. v = t.root /\ Lookup(u, path) = [ok |-> TRUE, target |-> u.root]
    BY <1>4 DEF Lookup
  <2> QED
    BY <1>3, <2>1
<1>5. CASE path # <<Slash>>
  <2> DEFINE comps == SearchComps(path)
             N == Len(comps)
  <2>1. comps \in Text /\ N \in 0..N
    BY SearchCompsType DEF Text
  <2>2. Lookup(t, path) = Found(t, comps)[N] /\ Lookup(u, path) = Found(u, comps)[N]
        /\ Lookup(t, path) \in Findings(t)
    BY <1>5, LookupResult
  <2>0. Uncovered(t, u, comps)
    OBVIOUS
  <2> HIDE DEF comps
  <2>3. \A k \in 0..N : Found(t, comps)[k].ok /\ Found(t, comps)[k] \in Findings(t)
    <3>1. Found(t, comps)[N].ok
      BY <2>2
    <3>2. comps \in Seq(Tokens)
      BY <2>1 DEF Text
    <3> QED
      BY <2>1, <3>1, <3>2, FoundDown, FoundDefined
  <2>10. ASSUME NEW k \in 1..N PROVE Found(t, comps)[k].target \in Vnodes(t)
    <3> DEFINE before == Found(t, comps)[k - 1]
               name == comps[k]
    <3>1. k \in 0..N /\ k - 1 \in 0..N /\ comps \in Seq(Tokens)
      BY <2>1 DEF Text
    <3>2. before \in Findings(t) /\ Found(t, comps)[k].ok /\ Found(t, comps)[k] \in Findings(t)
      BY <2>3, <3>1
    <3>3. Found(t, comps)[k] = FindComponent(t, before, name)
      BY <3>1, FoundDefined
    <3> HIDE DEF before, name
    <3>4. Found(t, comps)[k].target # None
      BY <3>2, <3>3, FindStep
    <3> QED
      BY <3>2, <3>4 DEF Findings
  <2>4. Uncovered(t, p, comps)
    BY <1>1, <2>10 DEF Uncovered
  <2>5. Preserves(t, p)
    BY GrownPreserves
  <2>6. \A k \in 0..N : Found(p, comps)[k] = Found(t, comps)[k]
    BY <1>1, <2>1, <2>3, <2>4, <2>5, FoundKept
  <2>7. Uncovered(p, u, comps)
    <3>1. ASSUME NEW k \in 1..N
          PROVE  u.node[Found(p, comps)[k].target].mount = p.node[Found(p, comps)[k].target].mount
      <4>1. Found(p, comps)[k] = Found(t, comps)[k] /\ Found(t, comps)[k].ok
        BY <2>1, <2>3, <2>6
      <4>2. u.node[Found(t, comps)[k].target].mount = t.node[Found(t, comps)[k].target].mount
        BY <2>0, <4>1 DEF Uncovered
      <4> QED
        BY <1>1, <2>10, <4>1, <4>2
    <3> QED
      BY <3>1 DEF Uncovered
  <2>8. \A k \in 0..N : Found(u, comps)[k] = Found(p, comps)[k]
    BY <1>1, <2>1, <2>3, <2>6, <2>7, FoundKept
  <2>9. Lookup(u, path) = Lookup(t, path)
    BY <2>1, <2>2, <2>6, <2>8
  <2> QED
    BY <1>3, <2>2, <2>9 DEF Findings
<1> QED
  BY <1>4, <1>5

(* What PathsKept says of one path.                                        *)
Kept(path) ==
  ~damaged' /\ Lookup(tree, path).ok /\ ~Covered(path) =>
    LET v == Lookup(tree, path).target IN
    /\ Lookup(tree', path) = [ok |-> TRUE, target |-> v]
    /\ tree'.node[v].type = tree.node[v].type

(* What PathsKept assumes, for the search of a path (lookup_path,          *)
(* vfs.c:77-119).                                                          *)
LEMMA UncoveredIf ==
  ASSUME NEW path, ~Covered(path)
  PROVE  tree'.root = tree.root /\ Uncovered(tree, tree', SearchComps(path))
BY DEF Covered, Uncovered

(* A step that first makes directories, then writes or mounts.             *)
LEMMA KeptBy ==
  ASSUME TreeIInv, NEW p, Grown(tree, p), NEW u \in TreeType, Shape(u), Preserves(p, u), tree' = u,
         NEW path \in Text
  PROVE  Kept(path)
<1> SUFFICES ASSUME Lookup(tree, path).ok, ~Covered(path)
             PROVE  /\ Lookup(u, path) = [ok |-> TRUE, target |-> Lookup(tree, path).target]
                    /\ u.node[Lookup(tree, path).target].type = tree.node[Lookup(tree, path).target].type
  BY DEF Kept
<1>1. u.root = tree.root /\ Uncovered(tree, u, SearchComps(path))
  BY UncoveredIf
<1>2. tree \in TreeType /\ Shape(tree)
  BY DEF TreeIInv
<1> QED
  BY <1>1, <1>2, PathKept

(* chdir and fork do not touch the tree (sysc_chdir, exception.c:305-318). *)
LEMMA KeptUnchanged ==
  ASSUME TreeIInv, UNCHANGED tree, NEW path \in Text
  PROVE  Kept(path)
<1>1. tree \in TreeType /\ Shape(tree) /\ Grown(tree, tree) /\ Preserves(tree, tree) /\ tree' = tree
  BY GrownRefl, GrownPreserves DEF TreeIInv
<1> QED
  BY <1>1, KeptBy

(* The mount of initramfs, when nothing but the root is there.             *)
LEMMA KeptAtBoot ==
  ASSUME TreeIInv, boot = 1, BootMount, NEW path \in Text
  PROVE  Kept(path)
<1> SUFFICES ASSUME Lookup(tree, path).ok, ~Covered(path)
             PROVE  /\ Lookup(tree', path) = [ok |-> TRUE, target |-> Lookup(tree, path).target]
                    /\ tree'.node[Lookup(tree, path).target].type = tree.node[Lookup(tree, path).target].type
  BY DEF Kept
<1>1. tree \in TreeType /\ Shape(tree) /\ \A v \in Vnodes(tree) : tree.node[v].entries = <<>>
  BY DEF TreeIInv
<1>2. PICK garbage \in Garbage :
        LET m == MountAt(Prepared(tree, InitramfsPath), InitramfsPath)
        IN tree' = Insert(m, Len(m.node), garbage)
  BY DEF BootMount
<1>3. tree'.root = tree.root
  BY UncoveredIf
<1>4. RootType(tree') = RootType(tree)
  BY <1>1, <1>2, <1>3, InitramfsMounts
<1>5. path = <<Slash>>
  <2>1. \A v : ~Reached(tree, v)
    BY <1>1 DEF Reached, ToSet
  <2> QED
    BY <1>1, <2>1, LookupResult
<1>6. Lookup(tree, path).target = tree.root /\ Lookup(tree', path) = [ok |-> TRUE, target |-> tree'.root]
  BY <1>5 DEF Lookup
<1> QED
  BY <1>3, <1>4, <1>6 DEF RootType

(* Each system call and each mount of main keeps the paths that it does    *)
(* not cover (vfs.c:23-158).                                               *)
LEMMA StepKeeps ==
  ASSUME TreeIInv, Next, NEW path \in Text
  PROVE  Kept(path)
<1>1. tree \in TreeType /\ Shape(tree) /\ cwd \in Text /\ Grown(tree, tree) /\ Preserves(tree, tree)
  BY GrownRefl, GrownPreserves DEF TreeIInv
<1>2. CASE BootMount
  <2>1. CASE boot = 1
    BY <1>2, <2>1, KeptAtBoot
  <2>2. CASE boot = 2
    <3>1. tree' = MountAt(Prepared(tree, DevPath), DevPath)
      BY <1>2, <2>2 DEF BootMount
    <3> QED
      BY <1>1, <3>1, PathTexts, MountMounts, KeptBy
  <2> QED
    BY <1>2, <2>1, <2>2 DEF BootMount
<1>3. ASSUME NEW text \in Texts, MkdirCall(text) PROVE Kept(path)
  <2>1. PICK made \in PathsOf(text), skip \in Skips : tree' = Mkdir(tree, made, skip)
    BY <1>3 DEF MkdirCall
  <2>2. made \in Text
    BY <1>1, PathTexts, PathsOfTexts
  <2> DEFINE u == Mkdir(tree, made, skip)
  <2>3. Grown(tree, u)
    BY <1>1, <2>2, MkdirGrows
  <2>4. tree' = u
    BY <2>1
  <2> HIDE DEF u
  <2>5. u \in TreeType /\ Shape(u) /\ Preserves(tree, u)
    BY <1>1, <2>3, GrownPreserves DEF Grown
  <2> QED
    BY <1>1, <2>4, <2>5, KeptBy
<1>4. ASSUME NEW text \in Texts, OpenCall(text) PROVE Kept(path)
  <2>1. PICK made \in PathsOf(text), skip \in Skips :
          /\ tree' = OpenCreate(tree, made, skip).tree
          /\ damaged' = (damaged \/ (OpenCreate(tree, made, skip).tree # tree
                                       /\ OpenCreate(tree, made, skip).vnode \in Vnodes(tree)))
    BY <1>4 DEF OpenCall
  <2>2. made \in Text
    BY <1>1, PathTexts, PathsOfTexts
  <2> DEFINE o == OpenCreate(tree, made, skip)
             u == o.tree
  <2>3. /\ u \in TreeType /\ Shape(u)
        /\ \/ u = tree
           \/ o.vnode \in Vnodes(tree)
           \/ Preserves(tree, u)
    BY <1>1, <2>2, OpenCreateOpens
  <2>4. tree' = u /\ (damaged' \/ u = tree \/ o.vnode \notin Vnodes(tree))
    BY <2>1
  <2> HIDE DEF o, u
  <2>5. CASE u = tree
    BY <2>4, <2>5, KeptUnchanged
  <2>6. CASE Preserves(tree, u)
    BY <1>1, <2>3, <2>4, <2>6, KeptBy
  <2>7. CASE damaged'
    BY <2>7 DEF Kept
  <2> QED
    BY <2>3, <2>4, <2>5, <2>6, <2>7
<1>5. ASSUME NEW text \in Texts, WriteCall(text) PROVE Kept(path)
  <2> DEFINE v == Lookup(tree, AbsPath(cwd, text)).target
             u == [tree EXCEPT !.node[v] = [@ EXCEPT !.len = 1, !.data = HeapBlock]]
  <2>1. ~IsDir(tree, v) /\ Lookup(tree, AbsPath(cwd, text)).ok /\ (tree' = u \/ tree' = tree)
    BY <1>5 DEF WriteCall
  <2>2. AbsPath(cwd, text) \in Text
    BY <1>1, PathTexts, AbsPathType
  <2>3. v \in Vnodes(tree)
    BY <1>1, <2>1, <2>2, LookupOk
  <2> HIDE DEF v
  <2>4. u \in TreeType /\ Shape(u) /\ Preserves(tree, u)
    BY <1>1, <2>1, <2>3, WriteWrites
  <2> HIDE DEF u
  <2> QED
    BY <1>1, <2>1, <2>4, KeptBy, KeptUnchanged
<1>6. ASSUME NEW text \in MountTexts, MountCall(text) PROVE Kept(path)
  <2>1. PICK at \in PathsOf(text) : tree' = MountAt(Prepared(tree, at), at)
    BY <1>6 DEF MountCall
  <2>2. at \in Text
    BY <1>1, PathTexts, PathsOfTexts
  <2> QED
    BY <1>1, <2>1, <2>2, MountMounts, KeptBy
<1>7. ASSUME NEW text \in ChdirTexts, ChdirCall(text) PROVE Kept(path)
  BY <1>7, KeptUnchanged DEF ChdirCall
<1>8. CASE TaskCreate
  BY <1>8, KeptUnchanged DEF TaskCreate
<1> QED
  BY <1>2, <1>3, <1>4, <1>5, <1>6, <1>7, <1>8 DEF Next

(* A path that is found keeps its vnode and its type through every call    *)
(* that mounts nothing on its way (tmpfs_create, tmpfs.c:140-171,          *)
(* vfs_mount, vfs.c:23-74).                                                *)
THEOREM FoundPathsStay == Spec => PathsKept
<1>1. TreeIInv /\ [Next]_vars =>
        [\A path \in Texts \cup {cwd} : Kept(path)]_vars
  <2> SUFFICES ASSUME TreeIInv, Next, NEW path \in Texts \cup {cwd} PROVE Kept(path)
    OBVIOUS
  <2>1. path \in Text
    BY PathTexts DEF TreeIInv
  <2> QED
    BY <2>1, StepKeeps
<1>2. PathsKept <=> [][\A path \in Texts \cup {cwd} : Kept(path)]_vars
  BY DEF PathsKept, Kept
<1> QED
  BY <1>1, <1>2, TreeInductive, PTL DEF Spec

(* A file of the archive is in the tree, with its data.                    *)
Holds(t, i) ==
  \E v \in Vnodes(t) :
    t.node[v] = [NewVnode(Last(Archive[i].path), "FILE", "initramfs") EXCEPT
                   !.data = DataAt(i), !.len = RoundUp(Archive[i].size),
                   !.mount = t.node[v].mount]

(* A tree that keeps its files holds what it held.                         *)
LEMMA HoldsKept ==
  ASSUME NEW t \in TreeType, NEW u, KeepsFiles(t, u), NEW i, Holds(t, i)
  PROVE  Holds(u, i)
<1> DEFINE n == NewVnode(Last(Archive[i].path), "FILE", "initramfs")
           file(m) == [n EXCEPT !.data = DataAt(i), !.len = RoundUp(Archive[i].size), !.mount = m]
<1>1. PICK v \in Vnodes(t) : t.node[v] = file(t.node[v].mount)
  BY Zenon DEF Holds
<1>2. \A m : /\ file(m).type = "FILE" /\ file(m).fs = "initramfs"
             /\ \A k : [file(m) EXCEPT !.mount = k] = file(k)
  BY DEF NewVnode
<1> HIDE DEF file
<1>3. ~IsDir(t, v) /\ t.node[v].fs # "tmpfs"
  BY <1>1, <1>2 DEF IsDir
<1>4. v \in Vnodes(u) /\ u.node[v] = [t.node[v] EXCEPT !.mount = u.node[v].mount]
  BY <1>3 DEF KeepsFiles, KeepsFile
<1>5. u.node[v] = file(u.node[v].mount)
  BY <1>1, <1>2, <1>4
<1> QED
  BY <1>4, <1>5, Zenon DEF Holds, file

(* Each call, and the mount of devfs, keeps the files of the archive       *)
(* (vfs.c:23-158, tmpfs.c:37-73, 140-171).                                 *)
LEMMA StepHolds ==
  ASSUME TreeIInv, Next, boot # 1, ~damaged', NEW i, Holds(tree, i)
  PROVE  Holds(tree', i)
<1>1. tree \in TreeType /\ Shape(tree) /\ cwd \in Text
  BY DEF TreeIInv
<1>2. ASSUME NEW path \in Text, tree' = MountAt(Prepared(tree, path), path) PROVE Holds(tree', i)
  <2> DEFINE p == Prepared(tree, path)
             u == MountAt(p, path)
  <2>1. Grown(tree, p) /\ KeepsFiles(p, u)
    BY <1>1, MountMounts
  <2>2. tree' = u
    BY <1>2
  <2> HIDE DEF p, u
  <2>3. p \in TreeType /\ KeepsFiles(tree, p)
    BY <1>1, <2>1, GrownPreserves DEF Grown
  <2>4. Holds(p, i)
    BY <1>1, <2>3, HoldsKept
  <2> QED
    BY <2>1, <2>2, <2>3, <2>4, HoldsKept
<1>3. CASE BootMount
  <2>1. tree' = MountAt(Prepared(tree, DevPath), DevPath)
    BY <1>3 DEF BootMount
  <2> QED
    BY <1>2, <2>1, PathTexts
<1>4. ASSUME NEW text \in Texts, MkdirCall(text) PROVE Holds(tree', i)
  <2>1. PICK path \in PathsOf(text), skip \in Skips : tree' = Mkdir(tree, path, skip)
    BY <1>4 DEF MkdirCall
  <2>2. path \in Text
    BY <1>1, PathTexts, PathsOfTexts
  <2>3. KeepsFiles(tree, tree')
    BY <1>1, <2>1, <2>2, MkdirGrows, GrownPreserves
  <2> QED
    BY <1>1, <2>3, HoldsKept
<1>5. ASSUME NEW text \in Texts, OpenCall(text) PROVE Holds(tree', i)
  <2>1. PICK path \in PathsOf(text), skip \in Skips :
          /\ tree' = OpenCreate(tree, path, skip).tree
          /\ damaged' = (damaged \/ (OpenCreate(tree, path, skip).tree # tree
                                       /\ OpenCreate(tree, path, skip).vnode \in Vnodes(tree)))
    BY <1>5 DEF OpenCall
  <2>2. path \in Text
    BY <1>1, PathTexts, PathsOfTexts
  <2>3. tree' = tree \/ KeepsFiles(tree, tree')
    BY <1>1, <2>1, <2>2, OpenCreateOpens
  <2> QED
    BY <1>1, <2>3, HoldsKept
<1>6. ASSUME NEW text \in Texts, WriteCall(text) PROVE Holds(tree', i)
  <2> DEFINE v == Lookup(tree, AbsPath(cwd, text)).target
             u == [tree EXCEPT !.node[v] = [@ EXCEPT !.len = 1, !.data = HeapBlock]]
  <2>1. /\ ~IsDir(tree, v) /\ Lookup(tree, AbsPath(cwd, text)).ok /\ tree.node[v].fs = "tmpfs"
        /\ tree' = u \/ tree' = tree
    BY <1>6 DEF WriteCall
  <2>2. AbsPath(cwd, text) \in Text
    BY <1>1, PathTexts, AbsPathType
  <2>3. v \in Vnodes(tree)
    BY <1>1, <2>1, <2>2, LookupOk
  <2> HIDE DEF v
  <2>4. KeepsFiles(tree, u)
    BY <1>1, <2>1, <2>3, WriteWrites
  <2> HIDE DEF u
  <2> QED
    BY <1>1, <2>1, <2>4, HoldsKept
<1>7. ASSUME NEW text \in MountTexts, MountCall(text) PROVE Holds(tree', i)
  <2>1. PICK path \in PathsOf(text) : tree' = MountAt(Prepared(tree, path), path)
    BY <1>7 DEF MountCall
  <2>2. path \in Text
    BY <1>1, PathTexts, PathsOfTexts
  <2> QED
    BY <1>2, <2>1, <2>2
<1>8. ASSUME NEW text \in ChdirTexts, ChdirCall(text) PROVE Holds(tree', i)
  BY <1>8 DEF ChdirCall
<1>9. CASE TaskCreate
  BY <1>9 DEF TaskCreate
<1> QED
  BY <1>3, <1>4, <1>5, <1>6, <1>7, <1>8, <1>9 DEF Next

(* The first part of ArchiveIntact, once main has mounted initramfs: what  *)
(* the tree holds of the archive it holds for good, as long as no open has *)
(* made a file of a vnode that it had not created (cpio.c:189-206, vfs.c:  *)
(* 131-159).                                                               *)
THEOREM ArchiveStays ==
  Spec => [][boot # 1 /\ ~damaged' =>
               \A i \in Inserted : Holds(tree, i) => Holds(tree, i)']_vars
<1>1. TreeIInv /\ [Next]_vars =>
        [boot # 1 /\ ~damaged' =>
           \A i \in Inserted : Holds(tree, i) => Holds(tree, i)']_vars
  <2> SUFFICES ASSUME TreeIInv, Next, boot # 1, ~damaged', NEW i \in Inserted, Holds(tree, i)
               PROVE  Holds(tree', i)
    BY DEF Holds
  <2> QED
    BY StepHolds
<1> QED
  BY <1>1, TreeInductive, PTL DEF Spec

(* Powers are positive numbers, one 16 times the one before.               *)
LEMMA PowerFacts ==
  /\ Power \in [0..Digits -> Nat \ {0}]
  /\ Power[0] = 1
  /\ \A k \in 1..Digits : Power[k] = 16 * Power[k - 1]
<1> DEFINE S == [n \in 0..Digits |-> Nat \ {0}]
           F == [n \in 1..Digits |-> [p \in Nat \ {0} |-> 16 * p]]
           Is(g) == g = [n \in 0..Digits |-> IF n = 0 THEN 1 ELSE 16 * g[n - 1]]
<1>1. Digits \in Nat
  BY CpioAssumption
<1>2. 1 \in S[0] /\ StepsWithin(Digits, S, F)
  BY <1>1 DEF StepsWithin
<1>3. /\ \A n \in 0..Digits : S[n] = Nat \ {0}
      /\ \A n \in 1..Digits, p \in Nat \ {0} : F[n][p] = 16 * p
  OBVIOUS
<1> HIDE DEF S, F
<1>4. PICK g : Solution(g, Digits, S, F, 1)
  BY <1>1, <1>2, Solvable
<1>5. \A n \in 0..Digits : g[n] \in Nat \ {0}
  BY <1>3, <1>4 DEF Solution
<1>6. \A n \in 0..Digits : g[n] = IF n = 0 THEN 1 ELSE 16 * g[n - 1]
  <2> SUFFICES ASSUME NEW n \in 0..Digits PROVE g[n] = IF n = 0 THEN 1 ELSE 16 * g[n - 1]
    OBVIOUS
  <2>1. g[n] = IF n = 0 THEN 1 ELSE F[n][g[n - 1]]
    BY <1>4 DEF Solution
  <2>2. CASE n = 0
    BY <2>1, <2>2
  <2>3. CASE n # 0
    <3>1. n \in 1..Digits /\ n - 1 \in 0..Digits
      BY <1>1, <2>3
    <3> QED
      BY <1>3, <1>5, <2>1, <2>3, <3>1
  <2> QED
    BY <2>2, <2>3
<1>7. g = [n \in 0..Digits |-> g[n]]
  BY <1>4 DEF Solution
<1>8. Is(g)
  BY <1>6, <1>7
<1>9. Is(Power)
  <2>1. \E h : Is(h)
    BY <1>8
  <2>2. Power = CHOOSE h : Is(h)
    BY Zenon DEF Power
  <2> QED
    BY <2>1, <2>2, Zenon
<1> DEFINE T == {n \in 0..Digits : Power[n] \in Nat \ {0}}
<1>10. \A n \in 0..Digits : Power[n] = IF n = 0 THEN 1 ELSE 16 * Power[n - 1]
  BY <1>9
<1>11. 0 \in T
  BY <1>1, <1>10
<1>12. ASSUME NEW n \in 1..Digits, n - 1 \in T PROVE n \in T
  <2>1. n \in 0..Digits /\ n # 0 /\ Power[n - 1] \in Nat \ {0}
    BY <1>1, <1>12
  <2> QED
    BY <1>10, <2>1
<1>13. 0..Digits \subseteq T
  <2> HIDE DEF T
  <2> QED
    BY <1>1, <1>11, <1>12, UpTo
<1>14. Power \in [0..Digits -> Nat \ {0}]
  <2>1. DOMAIN Power = 0..Digits /\ Power = [n \in 0..Digits |-> Power[n]]
    BY <1>9
  <2> QED
    BY <1>13, <2>1
<1> QED
  BY <1>1, <1>10, <1>14

(* A number divided by 16 p is the number divided by p without its last    *)
(* digit.                                                                  *)
LEMMA NextDigit ==
  ASSUME NEW n \in Nat, NEW p \in Nat \ {0}
  PROVE  n \div p = 16 * (n \div (16 * p)) + ((n \div p) % 16)
<1> DEFINE a == n \div p
           q == n \div (16 * p)
<1>1. a \in Nat /\ p * a <= n /\ n < p * (a + 1)
  OBVIOUS
<1>2. q \in Nat /\ (16 * p) * q <= n /\ n < (16 * p) * (q + 1)
  OBVIOUS
<1> HIDE DEF a, q
<1>3. ~(a < 16 * q)
  <2> SUFFICES ASSUME a + 1 <= 16 * q PROVE FALSE
    BY <1>1, <1>2
  <2>1. p * (a + 1) <= p * (16 * q)
    BY <1>1, <1>2
  <2>2. p * (16 * q) = (16 * p) * q
    BY <1>2
  <2> QED
    BY <1>1, <1>2, <2>1, <2>2
<1>4. ~(a >= 16 * q + 16)
  <2> SUFFICES ASSUME a >= 16 * (q + 1) PROVE FALSE
    BY <1>1, <1>2
  <2>1. p * a >= p * (16 * (q + 1))
    BY <1>1, <1>2
  <2>2. p * (16 * (q + 1)) = (16 * p) * (q + 1)
    BY <1>2
  <2> QED
    BY <1>1, <1>2, <2>1, <2>2
<1>5. a = 16 * q + (a % 16)
  BY <1>1, <1>2, <1>3, <1>4
<1> QED
  BY <1>5 DEF a, q

(* What two numbers below M differ by is no multiple of M but 0.           *)
LEMMA SameRest ==
  ASSUME NEW M \in Nat \ {0}, NEW a \in 0..M - 1, NEW b \in 0..M - 1, NEW q \in Int, a = b + q * M
  PROVE  a = b
<1>1. ASSUME q >= 1 PROVE FALSE
  <2>1. q * M >= M
    BY <1>1
  <2> QED
    BY <2>1
<1>2. ASSUME q <= -1 PROVE FALSE
  <2>1. q * M <= -M
    BY <1>2
  <2> QED
    BY <2>1
<1>3. q = 0
  BY <1>1, <1>2
<1> QED
  BY <1>3

(* myHex2Int digit by digit (string.c:72-84).                              *)
Reads(g, digits) ==
  /\ g \in [0..Len(digits) -> 0..Power[Digits] - 1]
  /\ g[0] = 0
  /\ \A n \in 1..Len(digits) : g[n] = (g[n - 1] * 16 + digits[n]) % Power[Digits]

(* The recursion of MyHex2Int has such values (string.c:72-84).            *)
LEMMA HexRead ==
  ASSUME NEW digits \in Seq(Int)
  PROVE  \E g : Reads(g, digits) /\ MyHex2Int(digits) = g[Len(digits)]
<1> DEFINE M == Power[Digits]
           N == Len(digits)
           S == [n \in 0..N |-> 0..M - 1]
           F == [n \in 1..N |-> [r \in 0..M - 1 |-> (r * 16 + digits[n]) % M]]
           Is(g) == g = [n \in 0..N |-> IF n = 0 THEN 0 ELSE (g[n - 1] * 16 + digits[n]) % M]
<1>1. N \in Nat /\ M \in Nat \ {0}
  BY PowerFacts, CpioAssumption
<1>2. ASSUME NEW n \in 1..N, NEW r \in 0..M - 1 PROVE (r * 16 + digits[n]) % M \in 0..M - 1
  <2>1. r * 16 + digits[n] \in Int
    OBVIOUS
  <2> HIDE DEF M, N
  <2> QED
    BY <1>1, <2>1
<1>3. /\ \A n \in 0..N : S[n] = 0..M - 1
      /\ \A n \in 1..N, r \in 0..M - 1 : F[n][r] = (r * 16 + digits[n]) % M
  BY <1>1
<1>4. \A g : Is(g) => MyHex2Int(digits) = (CHOOSE h : Is(h))[N]
  BY Zenon DEF MyHex2Int
<1>5. 0 \in S[0] /\ StepsWithin(N, S, F)
  <2> HIDE DEF S, F, M, N
  <2>1. 0 \in 0..M - 1 /\ 0 \in 0..N
    BY <1>1
  <2>2. ASSUME NEW n \in 1..N, NEW r \in S[n - 1] PROVE F[n][r] \in S[n]
    <3>1. n - 1 \in 0..N /\ n \in 0..N
      BY <1>1
    <3>2. r \in 0..M - 1
      BY <1>3, <3>1
    <3>3. F[n][r] = (r * 16 + digits[n]) % M /\ S[n] = 0..M - 1
      BY <1>3, <3>1, <3>2
    <3> QED
      BY <1>2, <3>2, <3>3
  <2> QED
    BY <1>3, <2>1, <2>2 DEF StepsWithin
<1> HIDE DEF S, F, M, N
<1>6. PICK g : Solution(g, N, S, F, 0)
  BY <1>1, <1>5, Solvable
<1>7. \A n \in 0..N : g[n] \in 0..M - 1
  BY <1>3, <1>6 DEF Solution
<1>8. \A n \in 0..N : g[n] = IF n = 0 THEN 0 ELSE (g[n - 1] * 16 + digits[n]) % M
  <2> SUFFICES ASSUME NEW n \in 0..N
               PROVE  g[n] = IF n = 0 THEN 0 ELSE (g[n - 1] * 16 + digits[n]) % M
    OBVIOUS
  <2>1. g[n] = IF n = 0 THEN 0 ELSE F[n][g[n - 1]]
    BY <1>6 DEF Solution
  <2>2. CASE n # 0
    <3>1. n \in 1..N /\ n - 1 \in 0..N
      BY <1>1, <2>2
    <3> QED
      BY <1>3, <1>7, <2>1, <2>2, <3>1
  <2> QED
    BY <2>1, <2>2
<1>9. g = [n \in 0..N |-> g[n]]
  BY <1>6 DEF Solution
<1>10. Is(g)
  BY <1>8, <1>9
<1> DEFINE h == CHOOSE h : Is(h)
<1>11. Is(h)
  BY <1>10, Zenon
<1>12. MyHex2Int(digits) = h[N]
  BY <1>4, <1>10
<1> HIDE DEF h
<1>13. \A n \in 0..N : h[n] = IF n = 0 THEN 0 ELSE (h[n - 1] * 16 + digits[n]) % M
  BY <1>11
<1> DEFINE T == {n \in 0..N : h[n] \in 0..M - 1}
<1>14. 0 \in T
  BY <1>1, <1>13
<1>15. ASSUME NEW n \in 1..N, n - 1 \in T PROVE n \in T
  <2>1. n \in 0..N /\ n # 0 /\ h[n - 1] \in 0..M - 1
    BY <1>1, <1>15
  <2> QED
    BY <1>2, <1>13, <2>1
<1>16. 0..N \subseteq T
  <2> HIDE DEF T
  <2> QED
    BY <1>1, <1>14, <1>15, UpTo
<1>17. h \in [0..N -> 0..M - 1]
  <2>1. h = [n \in 0..N |-> h[n]]
    BY <1>11
  <2> QED
    BY <1>16, <2>1
<1>18. Reads(h, digits)
  <2>1. 0 \in 0..N /\ \A n \in 1..N : n \in 0..N /\ n # 0
    BY <1>1
  <2> QED
    BY <1>13, <1>17, <2>1 DEF Reads, M, N
<1> QED
  BY <1>12, <1>18 DEF N

(* The digits of a number, read with any digit before them, are the number:*)
(* what stands before them is shifted out of the int (read_header,         *)
(* cpio.c:82-89, myHex2Int, string.c:72-84).                               *)
LEMMA HeaderRead ==
  ASSUME NEW n \in 0..Power[Digits] - 1, NEW garbage \in Int
  PROVE  ReadHeader(FieldOf(n), garbage) = n
<1> DEFINE M == Power[Digits]
           field == FieldOf(n)
           digits == IF garbage = 0 THEN field ELSE <<garbage>> \o field
           off == IF garbage = 0 THEN 0 ELSE 1
<1>1. Digits \in Nat \ {0} /\ M \in Nat \ {0} /\ off \in {0, 1} /\ n \in Nat
  BY PowerFacts, CpioAssumption
<1>2. \A k \in 1..Digits : /\ Power[k] \in Nat \ {0} /\ Power[k - 1] \in Nat \ {0}
                           /\ Power[Digits - k] \in Nat \ {0}
                           /\ Power[k] = 16 * Power[k - 1]
                           /\ Power[Digits - (k - 1)] = 16 * Power[Digits - k]
  <2> SUFFICES ASSUME NEW k \in 1..Digits
               PROVE  /\ Power[k] \in Nat \ {0} /\ Power[k - 1] \in Nat \ {0}
                      /\ Power[Digits - k] \in Nat \ {0}
                      /\ Power[k] = 16 * Power[k - 1]
                      /\ Power[Digits - (k - 1)] = 16 * Power[Digits - k]
    OBVIOUS
  <2>1. /\ k \in 0..Digits /\ k - 1 \in 0..Digits /\ Digits - k \in 0..Digits
        /\ Digits - (k - 1) \in 1..Digits /\ (Digits - (k - 1)) - 1 = Digits - k
    BY <1>1
  <2> QED
    BY <2>1, PowerFacts
<1>3. /\ field \in Seq(Int) /\ Len(field) = Digits
      /\ \A k \in 1..Digits : field[k] = (n \div Power[Digits - k]) % 16 /\ field[k] \in Int
  <2>1. \A k \in 1..Digits : (n \div Power[Digits - k]) % 16 \in Int
    BY <1>1, <1>2
  <2> QED
    BY <1>1, <2>1 DEF FieldOf
<1> HIDE DEF field
<1>4. /\ digits \in Seq(Int) /\ Len(digits) = off + Digits
      /\ \A k \in 1..Digits : digits[off + k] = field[k]
  <2>1. CASE garbage = 0
    BY <1>1, <1>3, <2>1
  <2>2. CASE garbage # 0
    BY <1>1, <1>3, <2>2
  <2> QED
    BY <2>1, <2>2
<1>5. ReadHeader(FieldOf(n), garbage) = MyHex2Int(digits)
  BY DEF ReadHeader, field
<1> HIDE DEF digits, off
<1>6. PICK g : Reads(g, digits) /\ MyHex2Int(digits) = g[Len(digits)]
  BY <1>4, HexRead
<1> HIDE DEF M
<1>7. /\ \A k \in 0..Digits : g[off + k] \in 0..M - 1
      /\ \A k \in 1..Digits : g[off + k] = (g[off + (k - 1)] * 16 + field[k]) % M
  <2>1. /\ \A k \in 0..off + Digits : g[k] \in 0..M - 1
        /\ \A k \in 1..off + Digits : g[k] = (g[k - 1] * 16 + digits[k]) % M
    BY <1>4, <1>6 DEF Reads, M
  <2>2. \A k \in 0..Digits : off + k \in 0..off + Digits
    BY <1>1
  <2>3. \A k \in 1..Digits : off + k \in 1..off + Digits /\ (off + k) - 1 = off + (k - 1)
    BY <1>1
  <2> QED
    BY <1>4, <2>1, <2>2, <2>3
<1> DEFINE G == g[off]
           At(k, q) == g[off + k] = G * Power[k] + (n \div Power[Digits - k]) - q * M
           T == {k \in 0..Digits : \E q \in Int : At(k, q)}
<1>8. G \in 0..M - 1
  <2>1. off + 0 = off /\ 0 \in 0..Digits
    BY <1>1
  <2> QED
    BY <1>7, <2>1
<1>9. 0 \in T
  <2>1. Power[0] = 1 /\ off + 0 = off /\ Digits - 0 = Digits /\ 0 \in 0..Digits
    BY <1>1, PowerFacts
  <2>2. n \div M = 0
    BY <1>1 DEF M
  <2>3. At(0, 0)
    <3>1. g[off + 0] = G /\ Power[0] = 1 /\ n \div Power[Digits - 0] = 0
      BY <2>1, <2>2 DEF M
    <3> HIDE DEF G
    <3>2. G = G * 1 + 0 - 0 * M
      BY <1>1, <1>8
    <3> QED
      BY <3>1, <3>2
  <2> QED
    BY <2>1, <2>3
<1>10. ASSUME NEW k \in 1..Digits, k - 1 \in T PROVE k \in T
  <2>1. PICK q \in Int : At(k - 1, q)
    BY <1>10
  <2> DEFINE x == g[off + (k - 1)] * 16 + field[k]
             a == n \div Power[Digits - k]
             b == n \div Power[Digits - (k - 1)]
             p == Power[k - 1]
  <2>2. k - 1 \in 0..Digits /\ k \in 0..Digits
    BY <1>1
  <2>3. g[off + (k - 1)] \in Int /\ field[k] \in Int /\ x \in Int
    BY <1>3, <1>7, <2>2
  <2>4. x % M = x - (x \div M) * M /\ x \div M \in Int
    <3> HIDE DEF x
    <3> QED
      BY <1>1, <2>3
  <2>5. a = 16 * b + field[k]
    <3>1. Power[Digits - k] \in Nat \ {0}
      BY <1>2
    <3>2. a = 16 * (n \div (16 * Power[Digits - k])) + (a % 16)
      BY <1>1, <3>1, NextDigit
    <3>3. b = n \div (16 * Power[Digits - k]) /\ field[k] = a % 16
      BY <1>2, <1>3
    <3> QED
      BY <3>2, <3>3
  <2>6. a \in Int /\ b \in Int /\ p \in Int /\ Power[k] = 16 * p
    BY <1>1, <1>2
  <2>7. g[off + (k - 1)] = G * p + b - q * M
    BY <2>1
  <2>8. g[off + k] = x - (x \div M) * M
    BY <1>7, <2>4
  <2> DEFINE e == x \div M
             y == g[off + (k - 1)]
             f == field[k]
             z == g[off + k]
  <2>9. y = G * p + b - q * M /\ z = (y * 16 + f) - e * M /\ a = 16 * b + f /\ e \in Int /\ f \in Int
    BY <2>3, <2>4, <2>5, <2>7, <2>8
  <2>10. G * Power[k] = 16 * (G * p)
    BY <1>8, <2>6
  <2> HIDE DEF a, b, p, e, f, y, z, G
  <2>11. G * p \in Int /\ q * M \in Int /\ e * M \in Int
    BY <1>1, <1>8, <2>6, <2>9
  <2>12. (16 * q + e) * M = 16 * (q * M) + e * M
    BY <1>1, <2>9
  <2>13. z = 16 * (G * p) + a - (16 * (q * M) + e * M)
    BY <2>6, <2>9, <2>11
  <2>14. z = G * Power[k] + a - (16 * q + e) * M
    BY <2>10, <2>12, <2>13
  <2>15. At(k, 16 * q + e) /\ 16 * q + e \in Int
    BY <2>9, <2>14 DEF z, a, G
  <2> QED
    BY <2>2, <2>15
<1>11. Digits \in T
  <2>1. Digits \in 0..Digits
    BY <1>1
  <2> HIDE DEF T
  <2> QED
    BY <1>1, <1>9, <1>10, <2>1, UpTo
<1>12. PICK q \in Int : At(Digits, q)
  BY <1>11
<1>13. Digits \in 0..Digits /\ Digits - Digits = 0 /\ n \div 1 = n
  BY <1>1
<1>14. g[off + Digits] = n + (G - q) * M /\ G - q \in Int
  <2>1. g[off + Digits] = G * M + n - q * M
    BY <1>12, <1>13, PowerFacts DEF M
  <2> HIDE DEF G
  <2> QED
    BY <1>1, <1>8, <2>1
<1>15. g[off + Digits] \in 0..M - 1 /\ n \in 0..M - 1
  BY <1>7, <1>13 DEF M
<1>16. g[off + Digits] = n
  <2> HIDE DEF G
  <2> QED
    BY <1>1, <1>14, <1>15, SameRest
<1> QED
  BY <1>4, <1>5, <1>6, <1>16

(* The archive is a list of files with their sizes (the format of cpio).   *)
LEMMA ArchiveFacts ==
  /\ Len(Archive) \in Nat \ {0} /\ DOMAIN Archive = 1..Len(Archive) /\ Trailer \in Nat
  /\ \A i \in 1..Len(Archive) :
       /\ Archive[i].namesize \in Nat /\ Archive[i].namesize \in 0..Power[Digits] - 1
       /\ Archive[i].size \in Nat /\ Archive[i].size \in 0..Power[Digits] - 1
<1> DEFINE R == [path : Seq(STRING), namesize : 1..Power[Digits] - 1, size : 0..Power[Digits] - 1]
<1>1. Archive \in Seq(R) /\ Archive # <<>>
  BY CpioAssumption
<1>2. \A f \in R : /\ f.namesize \in Nat /\ f.namesize \in 0..Power[Digits] - 1
                   /\ f.size \in Nat /\ f.size \in 0..Power[Digits] - 1
  <2>1. Power[Digits] \in Nat
    BY PowerFacts, CpioAssumption
  <2> QED
    BY <2>1
<1> HIDE DEF R
<1> QED
  BY <1>1, <1>2 DEF Trailer

(* What fills up words.                                                    *)
LEMMA RoundUpFacts ==
  ASSUME NEW n \in Nat
  PROVE  RoundUp(n) \in Nat /\ n <= RoundUp(n)
BY DEF RoundUp

(* From one header to the next one.                                        *)
Behind(i) == DataAt(i) + RoundUp(Archive[i].size)

(* The headers in the order of the files (the format of cpio).             *)
LEMMA OffsetFacts ==
  /\ Offset \in [1..Trailer -> Nat]
  /\ Offset[1] = 0
  /\ \A i \in 1..Len(Archive) : Offset[i + 1] = Behind(i) /\ Offset[i] < Offset[i + 1]
<1> DEFINE N == Len(Archive)
           size(i) == RoundUp(HeaderSize + Archive[i].namesize) + RoundUp(Archive[i].size)
           S == [n \in 0..N |-> Nat]
           F == [n \in 1..N |-> [v \in Nat |-> v + size(n)]]
           U(h) == h = [i \in 1..Trailer |-> IF i = 1 THEN 0
                     ELSE h[i - 1] + RoundUp(HeaderSize + Archive[i - 1].namesize)
                          + RoundUp(Archive[i - 1].size)]
<1>1. N \in Nat /\ Trailer = N + 1
  BY ArchiveFacts DEF Trailer
<1>2. \A i \in 1..N : /\ RoundUp(HeaderSize + Archive[i].namesize) \in Nat \ {0}
                      /\ RoundUp(Archive[i].size) \in Nat
  <2> SUFFICES ASSUME NEW i \in 1..N
               PROVE  /\ RoundUp(HeaderSize + Archive[i].namesize) \in Nat \ {0}
                      /\ RoundUp(Archive[i].size) \in Nat
    OBVIOUS
  <2>1. Archive[i].namesize \in Nat /\ Archive[i].size \in Nat
    BY ArchiveFacts
  <2>2. HeaderSize + Archive[i].namesize \in Nat /\ HeaderSize + Archive[i].namesize > 0
    BY <2>1 DEF HeaderSize
  <2> DEFINE x == HeaderSize + Archive[i].namesize
             y == Archive[i].size
  <2>3. x \in Nat /\ x > 0 /\ y \in Nat
    BY <2>1, <2>2
  <2> HIDE DEF x, y
  <2>4. RoundUp(x) \in Nat \ {0} /\ RoundUp(y) \in Nat
    BY <2>3, RoundUpFacts
  <2> QED
    BY <2>4 DEF x, y
<1>3. \A i \in 1..N : size(i) \in Nat \ {0}
  BY <1>2
<1> HIDE DEF N
<1>4. 0 \in S[0] /\ StepsWithin(N, S, F)
  <2> HIDE DEF size
  <2> QED
    BY <1>1, <1>3 DEF StepsWithin
<1>5. /\ \A n \in 1..N, v \in Nat : F[n][v] = v + size(n)
      /\ \A n \in 0..N : S[n] = Nat
  OBVIOUS
<1> HIDE DEF S, F
<1>6. PICK g : Solution(g, N, S, F, 0)
  BY <1>1, <1>4, Solvable
<1>7. g[0] = 0 /\ (\A n \in 0..N : g[n] \in Nat) /\ \A n \in 1..N : g[n] = g[n - 1] + size(n)
  <2> HIDE DEF size
  <2>1. \A n \in 0..N : g[n] \in Nat
    BY <1>5, <1>6 DEF Solution
  <2>2. \A n \in 0..N : g[n] = IF n = 0 THEN 0 ELSE F[n][g[n - 1]]
    BY <1>6 DEF Solution
  <2>3. ASSUME NEW n \in 1..N PROVE g[n] = g[n - 1] + size(n)
    <3>1. n \in 0..N /\ n # 0 /\ n - 1 \in 0..N
      BY <1>1
    <3> QED
      BY <1>5, <2>1, <2>2, <3>1
  <2> QED
    BY <1>1, <2>1, <2>2, <2>3
<1> DEFINE h == [i \in 1..Trailer |-> g[i - 1]]
<1>8. U(h)
  <2> DEFINE e(i) == IF i = 1 THEN 0
                     ELSE h[i - 1] + RoundUp(HeaderSize + Archive[i - 1].namesize)
                          + RoundUp(Archive[i - 1].size)
  <2>1. ASSUME NEW i \in 1..Trailer PROVE h[i] = e(i)
    <3>1. CASE i = 1
      BY <1>7, <3>1
    <3>2. CASE i # 1
      <4>1. i - 1 \in 1..N /\ i - 1 \in 1..Trailer /\ h[i] = g[i - 1] /\ h[i - 1] = g[(i - 1) - 1]
        BY <1>1, <3>2
      <4>2. /\ g[i - 1] = g[(i - 1) - 1] + size(i - 1) /\ g[(i - 1) - 1] \in Nat
        <5>1. (i - 1) - 1 \in 0..N
          BY <1>1, <4>1
        <5> QED
          BY <1>7, <4>1, <5>1
      <4> QED
        BY <1>2, <3>2, <4>1, <4>2
    <3> QED
      BY <3>1, <3>2
  <2>2. h = [i \in 1..Trailer |-> h[i]]
    OBVIOUS
  <2> HIDE DEF h
  <2>3. h = [i \in 1..Trailer |-> e(i)]
    <3> HIDE DEF e
    <3> QED
      BY <2>1, <2>2
  <2> QED
    BY <2>3, Zenon
<1>9. U(Offset)
  <2>1. Offset = CHOOSE f : U(f)
    BY Zenon DEF Offset
  <2> HIDE DEF U
  <2> QED
    BY <1>8, <2>1
<1>10. \A i \in 1..Trailer : Offset[i] =
         IF i = 1 THEN 0 ELSE Offset[i - 1] + RoundUp(HeaderSize + Archive[i - 1].namesize)
                              + RoundUp(Archive[i - 1].size)
  BY <1>9
<1>11. Offset[1] = 0
  <2>1. 1 \in 1..Trailer
    BY <1>1
  <2> QED
    BY <1>10, <2>1, Zenon
<1>12. \A i \in 1..N : Offset[i + 1] = Behind(i)
  <2> SUFFICES ASSUME NEW i \in 1..N PROVE Offset[i + 1] = Behind(i)
    OBVIOUS
  <2>1. i + 1 \in 1..Trailer /\ i + 1 # 1 /\ (i + 1) - 1 = i
    BY <1>1
  <2> QED
    BY <1>10, <2>1 DEF Behind, DataAt
<1> DEFINE T == {n \in 0..N : Offset[n + 1] \in Nat}
<1>13. 0 \in T
  BY <1>1, <1>11
<1>14. ASSUME NEW n \in 1..N, n - 1 \in T PROVE n \in T
  <2>1. Offset[n] \in Nat
    BY <1>14
  <2> QED
    BY <1>1, <1>2, <1>12, <2>1 DEF Behind, DataAt
<1>15. 0..N \subseteq T
  <2> HIDE DEF T
  <2> QED
    BY <1>1, <1>13, <1>14, UpTo
<1>16. \A i \in 1..Trailer : Offset[i] \in Nat
  <2> SUFFICES ASSUME NEW i \in 1..Trailer PROVE Offset[i] \in Nat
    OBVIOUS
  <2>1. i - 1 \in 0..N /\ (i - 1) + 1 = i
    BY <1>1
  <2> QED
    BY <1>15, <2>1
<1>17. Offset \in [1..Trailer -> Nat]
  <2>1. Offset = [i \in 1..Trailer |-> Offset[i]]
    BY <1>9
  <2> QED
    BY <1>16, <2>1
<1>18. \A i \in 1..N : Offset[i] < Offset[i + 1]
  <2> SUFFICES ASSUME NEW i \in 1..N PROVE Offset[i] < Offset[i + 1]
    OBVIOUS
  <2>1. Offset[i] \in Nat
    BY <1>1, <1>16
  <2> QED
    BY <1>2, <1>12, <2>1 DEF Behind, DataAt
<1> QED
  BY <1>11, <1>12, <1>17, <1>18 DEF N

(* So no two files have the same header.                                   *)
LEMMA OffsetsGrow ==
  ASSUME NEW i \in 1..Trailer, NEW j \in 1..Trailer, i < j
  PROVE  Offset[i] < Offset[j]
<1> DEFINE T == {k \in 0..Len(Archive) : i < k + 1 => Offset[i] < Offset[k + 1]}
<1>1. Len(Archive) \in Nat /\ Trailer = Len(Archive) + 1
  BY ArchiveFacts DEF Trailer
<1>2. 0 \in T
  BY <1>1
<1>3. ASSUME NEW k \in 1..Len(Archive), k - 1 \in T PROVE k \in T
  <2>1. /\ (k - 1) + 1 = k /\ Offset[k] < Offset[k + 1]
        /\ Offset[k] \in Nat /\ Offset[k + 1] \in Nat /\ Offset[i] \in Nat
    BY <1>1, OffsetFacts
  <2>2. i < k => Offset[i] < Offset[k]
    BY <1>3, <2>1
  <2>3. i < k + 1 => i = k \/ i < k
    BY <1>1
  <2> QED
    BY <1>1, <2>1, <2>2, <2>3
<1>4. j - 1 \in 0..Len(Archive) /\ (j - 1) + 1 = j
  BY <1>1
<1>5. 0..Len(Archive) \subseteq T
  <2> HIDE DEF T
  <2> QED
    BY <1>1, <1>2, <1>3, UpTo
<1> QED
  BY <1>4, <1>5

(* A file of the archive as the program has to see it.                     *)
FileIn(i) == [path |-> Archive[i].path, data |-> DataAt(i), size |-> RoundUp(Archive[i].size)]

(* Both ways to fill up a name end where the data begin (cpio.c:37-44,     *)
(* 97-105, 131-139).                                                       *)
LEMMA NamePadded ==
  ASSUME NEW n \in Nat
  PROVE  /\ HeaderSize + PaddedName(n) = RoundUp(HeaderSize + n)
         /\ HeaderSize + PaddedName(n + (n % 2)) = RoundUp(HeaderSize + n)
         /\ Padded(n) = RoundUp(n)
<1>1. HeaderSize + PaddedName(n) = RoundUp(HeaderSize + n)
  BY DEF HeaderSize, PaddedName, RoundUp
<1>2. HeaderSize + PaddedName(n + (n % 2)) = RoundUp(HeaderSize + n)
  BY DEF HeaderSize, PaddedName, RoundUp
<1>3. Padded(n) = RoundUp(n)
  BY DEF Padded, RoundUp
<1> QED
  BY <1>1, <1>2, <1>3

(* A header is read as it was written (cpio.c:82-89, 125-153).             *)
LEMMA FileRead ==
  ASSUME NEW i \in 1..Len(Archive), NEW garbage \in Garbage, NEW even \in BOOLEAN
  PROVE  FileAt(i, garbage, even) = FileIn(i)
<1> DEFINE n == Archive[i].namesize
           s == Archive[i].size
<1>1. n \in Nat /\ s \in Nat /\ Offset[i] \in Nat
  BY ArchiveFacts, OffsetFacts DEF Trailer
<1>2. ReadHeader(FieldOf(n), garbage) = n /\ ReadHeader(FieldOf(s), garbage) = s
  <2>1. garbage \in Int
    BY CpioAssumption
  <2> QED
    BY <2>1, ArchiveFacts, HeaderRead
<1> DEFINE name == PaddedName(IF even THEN n + (n % 2) ELSE n)
<1>3. HeaderSize + name = RoundUp(HeaderSize + n) /\ Padded(s) = RoundUp(s)
  BY <1>1, NamePadded
<1>4. name \in Int
  <2>1. n + (n % 2) \in Nat
    BY <1>1
  <2>2. \A m \in Nat : PaddedName(m) \in Int
    BY DEF PaddedName, HeaderSize
  <2> QED
    BY <1>1, <2>1, <2>2
<1>5. FileAt(i, garbage, even) =
        [path |-> Archive[i].path, data |-> Offset[i] + HeaderSize + name, size |-> Padded(s)]
  BY <1>2 DEF FileAt
<1> HIDE DEF name
<1>6. Offset[i] + HeaderSize + name = DataAt(i)
  <2>1. HeaderSize \in Nat
    BY DEF HeaderSize
  <2>2. Offset[i] + HeaderSize + name = Offset[i] + (HeaderSize + name)
    BY <1>1, <1>4, <2>1
  <2> QED
    BY <1>3, <2>2 DEF DataAt
<1> QED
  BY <1>3, <1>5, <1>6 DEF FileIn

(* A walk after n files.                                                   *)
Walked(n) == [files |-> [i \in 1..n |-> FileIn(i)], header |-> Offset[n + 1], ended |-> FALSE]

(* From one file to the next one (cpio.c:18-29, 125-153).                  *)
LEMMA WalkRound ==
  ASSUME NEW n \in 1..Len(Archive), NEW garbage \in Garbage, NEW even \in BOOLEAN
  PROVE  WalkOn(Walked(n - 1), garbage, even) = Walked(n)
<1> DEFINE walk == Walked(n - 1)
           here == {i \in DOMAIN Archive : Offset[i] = walk.header}
           f == IF here = {} THEN Lost ELSE FileAt(CHOOSE i \in here : TRUE, garbage, even)
<1>1. /\ Len(Archive) \in Nat \ {0} /\ DOMAIN Archive = 1..Len(Archive)
      /\ Trailer = Len(Archive) + 1 /\ (n - 1) + 1 = n
  BY ArchiveFacts DEF Trailer
<1>2. /\ walk.files = [i \in 1..n - 1 |-> FileIn(i)]
      /\ walk.header = Offset[n] /\ walk.ended = FALSE
  BY <1>1 DEF Walked
<1> HIDE DEF walk
<1>3. here = {n}
  <2>1. ASSUME NEW i \in 1..Len(Archive), Offset[i] = Offset[n] PROVE i = n
    <3>1. i \in 1..Trailer /\ n \in 1..Trailer /\ Offset[i] \in Nat /\ Offset[n] \in Nat
      BY <1>1, OffsetFacts
    <3>2. CASE i < n
      <4>1. Offset[i] < Offset[n]
        BY <3>1, <3>2, OffsetsGrow
      <4> QED
        BY <2>1, <3>1, <4>1
    <3>3. CASE n < i
      <4>1. Offset[n] < Offset[i]
        BY <3>1, <3>3, OffsetsGrow
      <4> QED
        BY <2>1, <3>1, <4>1
    <3> QED
      BY <1>1, <3>2, <3>3
  <2> QED
    BY <1>1, <1>2, <2>1
<1>4. f = FileIn(n)
  <2>1. here # {} /\ (CHOOSE i \in here : TRUE) = n
    BY <1>3
  <2> QED
    BY <2>1, FileRead
<1>5. walk.header # Offset[Trailer]
  <2>1. n \in 1..Trailer /\ Trailer \in 1..Trailer /\ n < Trailer
    BY <1>1
  <2>2. Offset[n] < Offset[Trailer] /\ Offset[n] \in Nat /\ Offset[Trailer] \in Nat
    BY <2>1, OffsetsGrow, OffsetFacts
  <2> QED
    BY <1>2, <2>2
<1>6. WalkOn(walk, garbage, even) =
        [files |-> Append(walk.files, f), header |-> f.data + f.size, ended |-> here = {}]
  BY <1>2, <1>5 DEF WalkOn
<1> DEFINE files == Append(walk.files, f)
<1>7. files = [i \in 1..n |-> FileIn(i)]
  <2> DEFINE q == [i \in 1..n - 1 |-> FileIn(i)]
             all == {FileIn(i) : i \in 1..n}
  <2>1. q \in Seq(all) /\ Len(q) = n - 1
    BY <1>1
  <2>2. \A i \in 1..n - 1 : q[i] = FileIn(i)
    OBVIOUS
  <2> HIDE DEF q
  <2>3. f \in all
    <3>1. n \in 1..n
      BY <1>1
    <3> QED
      BY <1>4, <3>1, Zenon
  <2>4. files = Append(q, f)
    BY <1>2 DEF q
  <2> HIDE DEF all, f, files
  <2>5. DOMAIN Append(q, f) = 1..n /\ \A i \in 1..n : Append(q, f)[i] = IF i = n THEN f ELSE q[i]
    BY <1>1, <2>1, <2>3
  <2>6. ASSUME NEW i \in 1..n PROVE files[i] = FileIn(i)
    <3>1. CASE i = n
      BY <1>4, <2>4, <2>5, <3>1
    <3>2. CASE i # n
      <4>1. i \in 1..n - 1
        BY <3>2
      <4> QED
        BY <2>2, <2>4, <2>5, <3>2, <4>1
    <3> QED
      BY <3>1, <3>2
  <2>7. files = [i \in 1..n |-> files[i]]
    <3>1. Append(q, f) \in Seq(all)
      BY <2>1, <2>3
    <3> DEFINE a == Append(q, f)
    <3> HIDE DEF a
    <3>2. a \in Seq(all) /\ Len(a) = n
      BY <1>1, <2>1, <2>3, <3>1 DEF a
    <3>3. a = [i \in 1..n |-> a[i]]
      BY <3>2
    <3> QED
      BY <2>4, <3>3 DEF a
  <2> QED
    BY <2>6, <2>7
<1>8. f.data + f.size = Offset[n + 1]
  <2>1. f.data = DataAt(n) /\ f.size = RoundUp(Archive[n].size)
    BY <1>4 DEF FileIn
  <2> QED
    BY <2>1, OffsetFacts DEF Behind
<1>9. (here = {}) = FALSE
  BY <1>3
<1> HIDE DEF f, here
<1> QED
  BY <1>6, <1>7, <1>8, <1>9 DEF Walked, walk

(* At the trailer it ends.                                                 *)
LEMMA WalkEnd ==
  ASSUME NEW garbage, NEW even
  PROVE  WalkOn(Walked(Len(Archive)), garbage, even).files = [i \in 1..Len(Archive) |-> FileIn(i)]
<1> DEFINE walk == Walked(Len(Archive))
<1>1. walk.header = Offset[Trailer] /\ walk.files = [i \in 1..Len(Archive) |-> FileIn(i)]
  BY DEF Walked, Trailer
<1>2. WalkOn(walk, garbage, even) = [walk EXCEPT !.ended = TRUE]
  BY <1>1 DEF WalkOn
<1> QED
  BY <1>1, <1>2 DEF Walked

(* The whole list (cpio_ls, cpio_cat, load_program, cpio_parse).           *)
LEMMA WalkList ==
  ASSUME NEW garbage \in Garbage, NEW even \in BOOLEAN
  PROVE  Walk(garbage, even) = [i \in 1..Len(Archive) |-> FileIn(i)]
<1> DEFINE N == Len(Archive)
           first == [files |-> <<>>, header |-> 0, ended |-> FALSE]
           last == WalkOn(Walked(N), garbage, even)
           step(w) == WalkOn(w, garbage, even)
           U(h) == h = [n \in 0..Trailer |-> IF n = 0 THEN first ELSE step(h[n - 1])]
           g == [n \in 0..Trailer |-> IF n = Trailer THEN last ELSE Walked(n)]
<1>1. N \in Nat /\ Trailer = N + 1
  BY ArchiveFacts DEF Trailer
<1>2. Walked(0) = first
  <2>1. [i \in 1..0 |-> FileIn(i)] = <<>> /\ Offset[0 + 1] = 0
    BY OffsetFacts
  <2> QED
    BY <2>1 DEF Walked
<1>3. \A n \in 1..N : step(Walked(n - 1)) = Walked(n)
  BY WalkRound
<1>4. Walk(garbage, even) = (CHOOSE h : U(h))[Trailer].files
  BY Zenon DEF Walk
<1> HIDE DEF first, step, N
<1>5. last = step(Walked(N))
  BY DEF step
<1> HIDE DEF last
<1>6. U(g)
  <2>1. ASSUME NEW n \in 0..Trailer PROVE g[n] = IF n = 0 THEN first ELSE step(g[n - 1])
    <3>1. CASE n = 0
      BY <1>1, <1>2, <3>1
    <3>2. CASE n = Trailer
      <4>1. n # 0 /\ n - 1 = N /\ N \in 0..Trailer /\ N # Trailer
        BY <1>1, <3>2
      <4> QED
        BY <1>5, <3>2, <4>1
    <3>3. CASE n # 0 /\ n # Trailer
      <4>1. n \in 1..N /\ n - 1 \in 0..Trailer /\ n - 1 # Trailer
        BY <1>1, <3>3
      <4> QED
        BY <1>3, <3>3, <4>1
    <3> QED
      BY <3>1, <3>2, <3>3
  <2>2. g = [n \in 0..Trailer |-> g[n]]
    OBVIOUS
  <2> HIDE DEF g
  <2> QED
    BY <2>1, <2>2
<1> DEFINE f == CHOOSE h : U(h)
<1>7. U(f)
  <2> HIDE DEF U
  <2> QED
    BY <1>6
<1>8. Walk(garbage, even) = f[Trailer].files
  BY <1>4
<1> HIDE DEF f
<1>9. \A n \in 0..Trailer : f[n] = IF n = 0 THEN first ELSE step(f[n - 1])
  BY <1>7
<1> DEFINE T == {n \in 0..N : f[n] = Walked(n)}
<1>10. 0 \in T
  BY <1>1, <1>2, <1>9
<1>11. ASSUME NEW n \in 1..N, n - 1 \in T PROVE n \in T
  <2>1. n \in 0..Trailer /\ n # 0 /\ f[n - 1] = Walked(n - 1) /\ n \in 0..N
    BY <1>1, <1>11
  <2> QED
    BY <1>3, <1>9, <2>1
<1>12. f[N] = Walked(N)
  <2>1. N \in 0..N
    BY <1>1
  <2> HIDE DEF T
  <2>2. N \in T
    BY <1>1, <1>10, <1>11, <2>1, UpTo
  <2> QED
    BY <2>2 DEF T
<1>13. f[Trailer] = last
  <2>1. Trailer \in 0..Trailer /\ Trailer # 0 /\ Trailer - 1 = N
    BY <1>1
  <2> QED
    BY <1>5, <1>9, <1>12, <2>1
<1>14. last.files = [i \in 1..N |-> FileIn(i)]
  BY WalkEnd DEF last, N
<1> QED
  BY <1>8, <1>13, <1>14 DEF N

(* Two parts of WalksAgree, for every archive, every width of the fields   *)
(* and whatever the uninitialised digit of read_header holds (cpio.c:82-89)*)
(* cpio_ls prints every file of the archive, and the list of cpio_parse    *)
(* says of each file where its data begin and how long they are.           *)
THEOREM EveryFileListed ==
  ASSUME NEW garbage \in Garbage
  PROVE  /\ CpioLs(garbage) = [i \in DOMAIN Archive |-> Archive[i].path]
         /\ CpioParse(garbage) = [i \in DOMAIN Archive |-> FileIn(i)]
<1> DEFINE w == Walk(garbage, FALSE)
<1>1. w = [i \in 1..Len(Archive) |-> FileIn(i)] /\ DOMAIN Archive = 1..Len(Archive)
  BY WalkList, ArchiveFacts
<1> HIDE DEF w
<1>2. DOMAIN w = DOMAIN Archive /\ \A i \in DOMAIN Archive : w[i].path = Archive[i].path
  BY <1>1 DEF FileIn
<1>3. CpioLs(garbage) = [i \in DOMAIN w |-> w[i].path]
  BY DEF CpioLs, w
<1> QED
  BY <1>1, <1>2, <1>3 DEF CpioParse, w

(* cpio_cat and load_program, which fill up names in another way than      *)
(* cpio_parse (cpio.c:38, 98), find the data of the first file with that   *)
(* path that has data.                                                     *)
THEOREM FirstFileFound ==
  ASSUME NEW garbage \in Garbage, NEW i \in DOMAIN Archive, Archive[i].size > 0,
         \A j \in DOMAIN Archive :
           Archive[j].path = Archive[i].path /\ Archive[j].size > 0 => i <= j
  PROVE  /\ CpioCat(Archive[i].path, garbage) = FileIn(i)
         /\ LoadProgram(Archive[i].path, garbage) =
              IF RoundUp(Archive[i].size) > MaxProgramSize THEN Lost ELSE FileIn(i)
<1> DEFINE w == Walk(garbage, TRUE)
           path == Archive[i].path
           I == {j \in 1..Len(w) : w[j].path = path /\ w[j].size # 0}
<1>1. w = [j \in 1..Len(Archive) |-> FileIn(j)] /\ DOMAIN Archive = 1..Len(Archive) /\ Len(Archive) \in Nat
  BY WalkList, ArchiveFacts
<1>0. I \in SUBSET Nat /\ 0 \notin I
  <2> HIDE DEF w
  <2>1. Len(w) = Len(Archive)
    BY <1>1
  <2> QED
    BY <1>1, <2>1
<1>2. CpioCat(path, garbage) = IF I # {} THEN w[Min(I)] ELSE Lost
  <2>1. SelectInSeq(w, LAMBDA f : f.path = path /\ f.size # 0) = IF I # {} THEN Min(I) ELSE 0
    BY DEF SelectInSeq
  <2>2. ASSUME I # {} PROVE Min(I) # 0
    <3> HIDE DEF I
    <3>1. \E j \in I : \A k \in I : j <= k
      BY <1>0, <2>2, Least
    <3> QED
      BY <1>0, <3>1 DEF Min
  <2> HIDE DEF w, I
  <2> QED
    BY <2>1, <2>2 DEF CpioCat, w
<1> HIDE DEF w
<1>3. Len(w) = Len(Archive)
  BY <1>1
<1>4. \A j \in 1..Len(Archive) : /\ w[j].path = Archive[j].path
                                 /\ w[j].size # 0 <=> Archive[j].size > 0
  <2> SUFFICES ASSUME NEW j \in 1..Len(Archive)
               PROVE  /\ w[j].path = Archive[j].path
                      /\ w[j].size # 0 <=> Archive[j].size > 0
    OBVIOUS
  <2>1. w[j].path = Archive[j].path /\ w[j].size = RoundUp(Archive[j].size) /\ Archive[j].size \in Nat
    BY <1>1, ArchiveFacts DEF FileIn
  <2>2. \A n \in Nat : RoundUp(n) # 0 <=> n > 0
    BY DEF RoundUp
  <2> QED
    BY <2>1, <2>2
<1>5. i \in I /\ \A j \in I : i <= j
  BY <1>1, <1>3, <1>4
<1>6. Min(I) = i
  <2> HIDE DEF I
  <2>1. Min(I) \in I /\ \A j \in I : Min(I) <= j
    BY <1>5 DEF Min
  <2> DEFINE m == Min(I)
  <2> HIDE DEF m
  <2>2. m \in Nat /\ i \in Nat /\ m <= i /\ i <= m
    BY <1>0, <1>5, <2>1 DEF m
  <2>3. m = i
    BY <2>2
  <2> QED
    BY <2>3 DEF m
<1>7. CpioCat(path, garbage) = FileIn(i)
  <2> HIDE DEF I
  <2> QED
    BY <1>1, <1>2, <1>5, <1>6
<1> QED
  BY <1>7 DEF LoadProgram, FileIn

(* c[n] is the number of names among the first n tokens.                   *)
Counts(c, text) ==
  /\ c \in [0..Len(text) -> Nat]
  /\ c[0] = 0
  /\ \A n \in 1..Len(text) : c[n] = c[n - 1] + IF text[n] = Slash THEN 0 ELSE 1

(* The names of a text can be counted.                                     *)
LEMMA CountsExist ==
  ASSUME NEW text \in Text
  PROVE  \E c : Counts(c, text)
<1> DEFINE N == Len(text)
           add(n) == IF text[n] = Slash THEN 0 ELSE 1
           S == [n \in 0..N |-> Nat]
           F == [n \in 1..N |-> [v \in Nat |-> v + add(n)]]
<1>1. N \in Nat /\ \A n \in 1..N : add(n) \in {0, 1}
  BY DEF Text
<1>2. 0 \in S[0] /\ StepsWithin(N, S, F)
  BY <1>1 DEF StepsWithin
<1>3. /\ \A n \in 1..N, v \in Nat : F[n][v] = v + add(n)
      /\ \A n \in 0..N : S[n] = Nat
  OBVIOUS
<1> HIDE DEF S, F, add
<1>4. PICK g : Solution(g, N, S, F, 0)
  BY <1>1, <1>2, Solvable
<1>5. /\ g = [n \in 0..N |-> IF n = 0 THEN 0 ELSE F[n][g[n - 1]]]
      /\ \A n \in 0..N : g[n] \in Nat
  BY <1>3, <1>4, Zenon DEF Solution
<1>6. g \in [0..N -> Nat] /\ g[0] = 0
  BY <1>1, <1>5
<1>7. ASSUME NEW n \in 1..N PROVE g[n] = g[n - 1] + add(n)
  <2>1. n \in 0..N /\ n # 0 /\ n - 1 \in 0..N
    BY <1>1
  <2> QED
    BY <1>3, <1>5, <2>1
<1> QED
  BY <1>6, <1>7 DEF Counts, add

(* The names of a text, from place i on.                                   *)
SpellsFrom(names, text, c, i) ==
  /\ names \in Text
  /\ Len(names) = c[Len(text)] - c[i - 1]
  /\ \A n \in i..Len(text) :
       text[n] # Slash => /\ c[n] - c[i - 1] \in 1..Len(names)
                          /\ names[c[n] - c[i - 1]] = text[n]

(* The names of a whole text, in their order.                              *)
Spells(names, text, c) == Counts(c, text) /\ SpellsFrom(names, text, c, 1)

(* A search that meets no blank component visits the names of the text     *)
(* (first_component, pop_first_component, vfs.c:198-219).                  *)
LEMMA SearchRound ==
  ASSUME NEW text \in Text, WellFormed(text), NEW c, Counts(c, text), NEW i \in 1..Len(text) + 1,
         Blank \notin ToSet(SearchFrom(text)[i]),
         LET r == RestAt(text, i) IN
           r \in DOMAIN text /\ Blank \notin ToSet(SearchFrom(text)[r]) =>
             SpellsFrom(SearchFrom(text)[r], text, c, r)
  PROVE  SpellsFrom(SearchFrom(text)[i], text, c, i)
<1> DEFINE N == Len(text)
           r == RestAt(text, i)
           first == FirstAt(text, i)
           end == EndAt(text, i)
           comps == SearchFrom(text)[i]
           behind == SearchFrom(text)[r]
<1>1. N \in Nat /\ DOMAIN text = 1..N /\ \A n \in 1..N : text[n] \in Tokens
  BY DEF Text
<1>2. comps = <<NameAt(text, i)>> \o (IF r \in DOMAIN text THEN behind ELSE <<>>) /\ comps \in Text
  BY SearchFromDefined
<1>3. r \in DOMAIN text => r \in i + 1..N /\ behind \in Text
  <2> SUFFICES ASSUME r \in DOMAIN text PROVE r \in i + 1..N /\ behind \in Text
    OBVIOUS
  <2>1. r \in i + 1..N + 1 /\ r \in 1..N
    BY <1>1, RestIsBehind
  <2> HIDE DEF r
  <2>2. r \in i + 1..N /\ r \in 1..N + 1
    BY <1>1, <2>1
  <2> QED
    BY <2>2, SearchFromDefined
<1>4. NameAt(text, i) \in Tokens
  BY RestIsBehind, SpecialTokens DEF Names
<1> HIDE DEF comps, behind, r
<1>5. NameAt(text, i) # Blank /\ (r \in DOMAIN text => Blank \notin ToSet(behind))
  <2>1. Blank \notin ToSet(comps)
    BY DEF comps
  <2>2. CASE r \in DOMAIN text
    <3>1. comps = <<NameAt(text, i)>> \o behind /\ behind \in Seq(Tokens)
      BY <1>2, <1>3, <2>2 DEF Text
    <3>2. /\ 1 \in DOMAIN comps /\ comps[1] = NameAt(text, i)
          /\ \A k \in DOMAIN behind : k + 1 \in DOMAIN comps /\ comps[k + 1] = behind[k]
      BY <1>4, <3>1
    <3> QED
      BY <2>1, <3>2 DEF ToSet
  <2>3. CASE r \notin DOMAIN text
    <3>1. comps = <<NameAt(text, i)>>
      BY <1>2, <1>4, <2>3
    <3> QED
      BY <2>1, <2>3, <3>1 DEF ToSet
  <2> QED
    BY <2>2, <2>3
<1>6. first \in 1..N /\ text[first] # Slash /\ NameAt(text, i) = text[first] /\ end = first + 1
  BY <1>1, <1>5 DEF NameAt, EndAt
<1>7. first = i \/ (first = i + 1 /\ text[i] = Slash)
  BY DEF FirstAt
<1> HIDE DEF first, end
<1>8. r = IF end \in DOMAIN text /\ text[end] = Slash THEN end + 1 ELSE end
  BY DEF RestAt, r, end
<1>9. end \in 1..N => text[end] = Slash
  <2> SUFFICES ASSUME end \in 1..N PROVE text[end] = Slash
    OBVIOUS
  <2>1. first \in 1..N - 1
    BY <1>1, <1>6
  <2> QED
    BY <1>6, <2>1 DEF WellFormed
<1>10. /\ \A n \in 0..N : c[n] \in Nat
       /\ \A n \in 1..N : c[n] = c[n - 1] + IF text[n] = Slash THEN 0 ELSE 1
  BY DEF Counts, N
<1>11. c[first] = c[i - 1] + 1 /\ c[i - 1] \in Nat /\ c[first] \in Nat
  <2>1. i - 1 \in 0..N /\ i \in 1..N /\ first - 1 \in 0..N /\ first \in 1..N /\ first \in 0..N
    BY <1>1, <1>6, <1>7
  <2>2. c[first] = c[first - 1] + 1
    BY <1>6, <1>10
  <2>3. c[first - 1] = c[i - 1]
    <3>1. CASE first = i
      BY <3>1
    <3>2. CASE first = i + 1 /\ text[i] = Slash
      <4>1. first - 1 = i /\ c[i] = c[i - 1] + 0
        BY <1>10, <2>1, <3>2
      <4> QED
        BY <1>10, <2>1, <4>1
    <3> QED
      BY <1>7, <3>1, <3>2
  <2> QED
    BY <1>10, <2>1, <2>2, <2>3
<1>12. \A n \in i..N : n = first \/ n >= end \/ text[n] = Slash
  BY <1>1, <1>6, <1>7
<1> HIDE DEF N
<1>13. CASE r \in DOMAIN text
  <2>1. end \in 1..N /\ r = end + 1 /\ r \in 1..N /\ r - 1 = end /\ end - 1 = first
    BY <1>1, <1>6, <1>8, <1>9, <1>13, <1>3
  <2>2. c[r - 1] = c[i - 1] + 1
    <3>1. c[end] = c[end - 1] + 0
      BY <1>9, <1>10, <2>1
    <3> QED
      BY <1>11, <2>1, <3>1
  <2>3. SpellsFrom(behind, text, c, r)
    BY <1>5, <1>13 DEF behind, r
  <2>4. /\ behind \in Seq(Tokens)
        /\ Len(behind) = c[N] - (c[i - 1] + 1)
        /\ \A n \in r..N : text[n] # Slash => /\ c[n] - (c[i - 1] + 1) \in 1..Len(behind)
                                              /\ behind[c[n] - (c[i - 1] + 1)] = text[n]
    BY <2>2, <2>3 DEF SpellsFrom, N, Text
  <2>5. comps = <<text[first]>> \o behind
    BY <1>2, <1>6, <1>13
  <2>6. /\ Len(comps) = Len(behind) + 1 /\ comps[1] = text[first] /\ Len(behind) \in Nat
        /\ \A k \in 1..Len(behind) : comps[k + 1] = behind[k]
    BY <1>1, <1>6, <2>4, <2>5
  <2>7. Len(comps) = c[N] - c[i - 1]
    <3>1. c[N] \in Nat
      BY <1>1, <1>10
    <3> QED
      BY <1>11, <2>4, <2>6, <3>1
  <2>8. ASSUME NEW n \in i..N, text[n] # Slash
        PROVE  c[n] - c[i - 1] \in 1..Len(comps) /\ comps[c[n] - c[i - 1]] = text[n]
    <3>1. CASE n = first
      <4>1. c[n] - c[i - 1] = 1
        BY <1>11, <3>1
      <4> QED
        BY <2>6, <3>1, <4>1
    <3>2. CASE n # first
      <4>1. n \in r..N /\ c[n] \in Nat
        BY <1>1, <1>9, <1>10, <1>12, <2>1, <2>8, <3>2
      <4> DEFINE k == c[n] - (c[i - 1] + 1)
      <4>2. k \in 1..Len(behind) /\ behind[k] = text[n]
        BY <2>4, <2>8, <4>1
      <4>3. k + 1 = c[n] - c[i - 1]
        BY <1>11, <4>1
      <4> QED
        BY <2>6, <4>2, <4>3
    <3> QED
      BY <3>1, <3>2
  <2> QED
    BY <1>2, <2>7, <2>8 DEF SpellsFrom, comps, N
<1>14. CASE r \notin DOMAIN text
  <2>1. comps = <<text[first]>>
    <3>1. text[first] \in Tokens /\ comps = <<text[first]>> \o <<>>
      BY <1>1, <1>2, <1>6, <1>14
    <3> QED
      BY <3>1
  <2>2. Len(comps) = 1 /\ comps[1] = text[first]
    BY <2>1
  <2>3. first = N \/ (end = N /\ text[end] = Slash)
    BY <1>1, <1>6, <1>8, <1>9, <1>14
  <2>4. c[N] = c[first]
    <3>1. CASE end = N /\ text[end] = Slash
      <4>1. N \in 1..N /\ N - 1 = first /\ c[N] = c[N - 1] + 0
        BY <1>1, <1>6, <1>10, <3>1
      <4> QED
        BY <1>11, <4>1
    <3> QED
      BY <2>3, <3>1
  <2>5. ASSUME NEW n \in i..N, text[n] # Slash PROVE n = first
    BY <1>1, <1>6, <1>12, <2>3, <2>5
  <2>6. c[N] - c[i - 1] = 1 /\ c[first] - c[i - 1] = 1
    BY <1>11, <2>4
  <2> QED
    BY <1>2, <2>2, <2>5, <2>6 DEF SpellsFrom, comps, N
<1> QED
  BY <1>13, <1>14

(* A search that meets no blank component visits all names of the text in  *)
(* their order (first_component, pop_first_component, vfs.c:198-219).      *)
LEMMA SearchSpells ==
  ASSUME NEW text \in Text, WellFormed(text), NEW c, Counts(c, text), Blank \notin ToSet(SearchComps(text))
  PROVE  Spells(SearchComps(text), text, c)
<1> DEFINE N == Len(text)
           Right(i) == Blank \notin ToSet(SearchFrom(text)[i]) => SpellsFrom(SearchFrom(text)[i], text, c, i)
           T == {k \in 0..N + 1 : \A i \in 1..N + 1 : N + 1 - k < i => Right(i)}
<1>1. N \in Nat /\ DOMAIN text = 1..N
  BY DEF Text
<1>2. ASSUME NEW i \in 1..N + 1, \A j \in i + 1..N + 1 : Right(j) PROVE Right(i)
  <2> SUFFICES ASSUME Blank \notin ToSet(SearchFrom(text)[i])
               PROVE  SpellsFrom(SearchFrom(text)[i], text, c, i)
    OBVIOUS
  <2>1. RestAt(text, i) \in DOMAIN text => RestAt(text, i) \in i + 1..N + 1
    BY RestIsBehind
  <2>2. RestAt(text, i) \in DOMAIN text => Right(RestAt(text, i))
    BY <1>2, <2>1
  <2> QED
    BY <2>2, SearchRound
<1> HIDE DEF Right, N
<1>3. 0 \in T
  BY <1>1
<1>4. ASSUME NEW k \in 1..N + 1, k - 1 \in T PROVE k \in T
  <2> SUFFICES ASSUME NEW i \in 1..N + 1, N + 1 - k < i PROVE Right(i)
    BY <1>1
  <2>1. \A j \in i + 1..N + 1 : j \in 1..N + 1 /\ N + 1 - (k - 1) < j
    BY <1>1
  <2>2. \A j \in i + 1..N + 1 : Right(j)
    BY <1>4, <2>1
  <2> QED
    BY <1>2, <2>2
<1>5. N + 1 \in T
  <2>1. N + 1 \in Nat /\ N + 1 \in 0..N + 1
    BY <1>1
  <2> HIDE DEF T
  <2> QED
    BY <1>3, <1>4, <2>1, UpTo
<1>6. Right(1)
  BY <1>1, <1>5
<1> QED
  BY <1>6, SearchFromDefined DEF Right, Spells

(* Where a list of components, blank ones among them, is in a list of      *)
(* names.                                                                  *)
Skims(q, comps, names, k) ==
  /\ q \in [0..Len(comps) -> Nat]
  /\ q[0] = 0
  /\ \A m \in 1..Len(comps) :
       IF comps[m] = Blank THEN q[m] = q[m - 1]
       ELSE q[m] = q[m - 1] + 1 /\ q[m] \in 1..Len(names) /\ names[q[m]] = comps[m]
  /\ q[Len(comps)] = k

(* A slash begins a blank component (strtok, string.c:87-140).             *)
LEMMA SkimSlash ==
  ASSUME NEW comps \in Text, NEW names, NEW k, NEW q, Skims(q, comps, names, k)
  PROVE  \E p : Skims(p, Append(comps, Blank), names, k)
<1> DEFINE L == Len(comps)
           p == [m \in 0..L + 1 |-> IF m = L + 1 THEN k ELSE q[m]]
           d == Append(comps, Blank)
<1>1. L \in Nat /\ Len(d) = L + 1 /\ d[L + 1] = Blank /\ \A m \in 1..L : d[m] = comps[m]
  BY SpecialTokens DEF Text
<1>2. /\ \A m \in 0..L : q[m] \in Nat
      /\ q[0] = 0 /\ q[L] = k
      /\ \A m \in 1..L :
           IF comps[m] = Blank THEN q[m] = q[m - 1]
           ELSE q[m] = q[m - 1] + 1 /\ q[m] \in 1..Len(names) /\ names[q[m]] = comps[m]
  BY DEF Skims
<1> HIDE DEF L, d
<1>3. k \in Nat /\ p[L + 1] = k /\ \A m \in 0..L : p[m] = q[m]
  BY <1>1, <1>2
<1>4. p \in [0..L + 1 -> Nat]
  BY <1>1, <1>2, <1>3
<1> HIDE DEF p
<1>5. ASSUME NEW m \in 1..L + 1
      PROVE  IF d[m] = Blank THEN p[m] = p[m - 1]
             ELSE p[m] = p[m - 1] + 1 /\ p[m] \in 1..Len(names) /\ names[p[m]] = d[m]
  <2>1. CASE m = L + 1
    <3>1. m - 1 \in 0..L /\ m - 1 = L
      BY <1>1, <2>1
    <3> QED
      BY <1>1, <1>2, <1>3, <2>1, <3>1
  <2>2. CASE m # L + 1
    <3>1. m \in 1..L /\ m \in 0..L /\ m - 1 \in 0..L
      BY <1>1, <2>2
    <3> QED
      BY <1>1, <1>2, <1>3, <3>1
  <2> QED
    BY <2>1, <2>2
<1>6. p[0] = 0
  BY <1>1, <1>2, <1>3
<1>7. Skims(p, d, names, k)
  BY <1>1, <1>3, <1>4, <1>5, <1>6 DEF Skims
<1> QED
  BY <1>7 DEF d

(* A name takes the place of a blank component (strtok, string.c:87-140).  *)
LEMMA SkimName ==
  ASSUME NEW comps \in Text, comps # <<>>, comps[Len(comps)] = Blank, NEW names, NEW k, NEW q,
         Skims(q, comps, names, k), NEW x \in Tokens, x # Blank, k + 1 \in 1..Len(names), names[k + 1] = x
  PROVE  \E p : Skims(p, [comps EXCEPT ![Len(comps)] = x], names, k + 1)
<1> DEFINE L == Len(comps)
           p == [m \in 0..L |-> IF m = L THEN k + 1 ELSE q[m]]
           d == [comps EXCEPT ![L] = x]
<1>1. L \in Nat \ {0} /\ DOMAIN comps = 1..L
  BY DEF Text
<1>2. Len(d) = L /\ d[L] = x /\ \A m \in 1..L : m # L => d[m] = comps[m]
  <2>1. d \in Seq(Tokens)
    BY ReplaceType DEF Text
  <2>2. DOMAIN d = 1..L
    BY <1>1
  <2>3. d[L] = x /\ \A m \in 1..L : m # L => d[m] = comps[m]
    <3>1. L \in DOMAIN comps
      BY <1>1
    <3> HIDE DEF L
    <3> QED
      BY <1>1, <3>1
  <2> HIDE DEF d, L
  <2>4. Len(d) = L
    BY <1>1, <2>1, <2>2
  <2> QED
    BY <2>3, <2>4
<1>3. /\ \A m \in 0..L : q[m] \in Nat
      /\ q[0] = 0 /\ q[L] = k
      /\ \A m \in 1..L :
           IF comps[m] = Blank THEN q[m] = q[m - 1]
           ELSE q[m] = q[m - 1] + 1 /\ q[m] \in 1..Len(names) /\ names[q[m]] = comps[m]
  BY DEF Skims
<1>9. comps[L] = Blank
  OBVIOUS
<1> HIDE DEF L, d
<1>4. k \in Nat /\ p[L] = k + 1 /\ \A m \in 0..L : m # L => p[m] = q[m]
  BY <1>1, <1>3
<1>5. p \in [0..L -> Nat]
  BY <1>1, <1>3, <1>4
<1> HIDE DEF p
<1>6. ASSUME NEW m \in 1..L
      PROVE  IF d[m] = Blank THEN p[m] = p[m - 1]
             ELSE p[m] = p[m - 1] + 1 /\ p[m] \in 1..Len(names) /\ names[p[m]] = d[m]
  <2>1. CASE m = L
    <3>1. m - 1 \in 0..L /\ m - 1 # L /\ q[L] = q[L - 1] /\ m \in 0..L
      BY <1>1, <1>3, <1>9, <2>1
    <3>2. p[m - 1] = k /\ p[m] = k + 1 /\ d[m] = x
      BY <1>2, <1>3, <1>4, <2>1, <3>1
    <3> QED
      BY <3>2
  <2>2. CASE m # L
    <3>1. m \in 0..L /\ m - 1 \in 0..L /\ m - 1 # L
      BY <1>1, <2>2
    <3> QED
      BY <1>2, <1>3, <1>4, <2>2, <3>1
  <2> QED
    BY <2>1, <2>2
<1>7. p[0] = 0
  BY <1>1, <1>3, <1>4
<1>8. Skims(p, d, names, k + 1)
  BY <1>2, <1>4, <1>5, <1>6, <1>7 DEF Skims
<1> QED
  BY <1>8 DEF d, L

(* The tokenizer and the search agree on the names of a text (string.c:    *)
(* 87-169, vfs.c:198-219).                                                 *)
LEMMA SplitSkims ==
  ASSUME NEW text \in Text, WellFormed(text), NEW names, NEW c, Spells(names, text, c)
  PROVE  \E q : Skims(q, Split(text), names, Len(names))
<1> DEFINE N == Len(text)
<1>1. N \in Nat /\ \A n \in 1..N : text[n] \in Tokens
  BY DEF Text
<1>2. PICK f : /\ f[0] = <<Blank>>
               /\ \A n \in 1..N : f[n] = Strtok(f[n - 1], text[n])
               /\ \A n \in 0..N : f[n] \in Text
               /\ Split(text) = f[N]
  BY SplitSteps
<1>3. /\ \A n \in 0..N : c[n] \in Nat
      /\ c[0] = 0
      /\ \A n \in 1..N : c[n] = c[n - 1] + IF text[n] = Slash THEN 0 ELSE 1
  BY DEF Spells, Counts, N
<1>4. /\ names \in Text /\ Len(names) = c[N]
      /\ \A n \in 1..N : text[n] # Slash => c[n] \in 1..Len(names) /\ names[c[n]] = text[n]
  <2>1. 1 - 1 = 0 /\ \A n \in 0..N : c[n] - c[1 - 1] = c[n]
    BY <1>3
  <2>2. \A n \in 1..N : n \in 0..N
    BY <1>1
  <2>3. N \in 0..N
    BY <1>1
  <2> QED
    BY <2>1, <2>2, <2>3 DEF Spells, SpellsFrom, N
<1>5. \A n \in 1..N : text[n] # Blank
  BY <1>1 DEF WellFormed, ToSet, N, Text
<1>6. \A n \in 1..N - 1 : text[n] = Slash \/ text[n + 1] = Slash
  BY DEF WellFormed, N
<1> HIDE DEF N
<1> DEFINE Between(n) == n = 0 \/ text[n] = Slash
           T == {n \in 0..N : /\ \E q : Skims(q, f[n], names, c[n])
                              /\ f[n] # <<>>
                              /\ Between(n) => f[n][Len(f[n])] = Blank}
<1>7. 0 \in T
  <2> DEFINE q == [m \in 0..1 |-> 0]
             one == <<Blank>>
  <2>1. Len(one) = 1 /\ one[1] = Blank /\ one # <<>>
    BY SpecialTokens
  <2> HIDE DEF one
  <2>2. Skims(q, one, names, 0)
    BY <2>1 DEF Skims
  <2>3. f[0] = one
    BY <1>2 DEF one
  <2> QED
    BY <1>1, <1>3, <2>1, <2>2, <2>3
<1>8. ASSUME NEW n \in 1..N, n - 1 \in T PROVE n \in T
  <2> DEFINE comps == f[n - 1]
  <2>1. n \in 0..N /\ n - 1 \in 0..N /\ comps \in Text /\ f[n] \in Text /\ f[n] = Strtok(comps, text[n])
    BY <1>1, <1>2
  <2>2. PICK q : Skims(q, comps, names, c[n - 1])
    BY <1>8
  <2>3. comps # <<>> /\ (Between(n - 1) => comps[Len(comps)] = Blank)
    BY <1>8
  <2> HIDE DEF comps
  <2>4. CASE text[n] = Slash
    <3>1. f[n] = Append(comps, Blank)
      BY <2>1, <2>4 DEF Strtok
    <3>2. \E p : Skims(p, f[n], names, c[n - 1])
      BY <2>1, <2>2, <3>1, SkimSlash
    <3>3. c[n] = c[n - 1]
      BY <1>3, <2>1, <2>4
    <3>4. f[n] # <<>> /\ f[n][Len(f[n])] = Blank
      BY <2>1, <3>1, SpecialTokens DEF Text
    <3> QED
      BY <2>1, <3>2, <3>3, <3>4
  <2>5. CASE text[n] # Slash
    <3>1. Between(n - 1)
      <4>1. CASE n = 1
        BY <4>1
      <4>2. CASE n # 1
        <5>1. n - 1 \in 1..N - 1 /\ (n - 1) + 1 = n
          BY <1>1, <4>2
        <5> QED
          BY <1>6, <2>5, <5>1
      <4> QED
        BY <4>1, <4>2
    <3>2. f[n] = [comps EXCEPT ![Len(comps)] = text[n]]
      BY <2>1, <2>5 DEF Strtok
    <3>3. c[n] = c[n - 1] + 1 /\ c[n] \in 1..Len(names) /\ names[c[n]] = text[n]
      BY <1>3, <1>4, <2>5
    <3>4. \E p : Skims(p, f[n], names, c[n - 1] + 1)
      BY <1>1, <1>5, <2>1, <2>2, <2>3, <3>1, <3>2, <3>3, SkimName
    <3>5. f[n] # <<>>
      BY <2>1, <2>3, <3>2 DEF Text
    <3>6. ~Between(n)
      BY <1>1, <2>5
    <3> QED
      BY <2>1, <3>3, <3>4, <3>5, <3>6
  <2> QED
    BY <2>4, <2>5
<1>9. N \in T
  <2>1. N \in 0..N
    BY <1>1
  <2> HIDE DEF T
  <2> QED
    BY <1>1, <1>7, <1>8, <2>1, UpTo
<1> QED
  BY <1>2, <1>4, <1>9

(* lookup_path with create along a list of names.                          *)
MakesAlong(w, t, start, names, target) ==
  /\ w[0] = [tree |-> t, target |-> target, dir |-> start]
  /\ \A k \in 1..Len(names) : w[k] = MakeComponent(w[k - 1], names[k])
  /\ \A k \in 0..Len(names) : w[k] \in Makings(t)

(* lookup_path with create skips the blank components of spilt_strings and *)
(* makes the names (vfs.c:91-118).                                         *)
LEMMA CreateAlong ==
  ASSUME NEW t \in TreeType, Shape(t), NEW start \in Vnodes(t), NEW path \in Text,
         NEW target, Target(t, target), NEW names \in Seq(Names), NEW q, Skims(q, Split(path), names, Len(names))
  PROVE  \E w : /\ MakesAlong(w, t, start, names, target)
                /\ CreatePath(t, start, path, 0, target) = w[Len(names)]
<1> DEFINE K == Len(names)
           first == [tree |-> t, target |-> target, dir |-> start]
           Values == Makings(t)
           step(v, n) == MakeComponent(v, names[n])
           S == [n \in 0..K |-> Values]
           F == [n \in 1..K |-> [v \in Values |-> step(v, n)]]
           N == Len(Split(path))
<1>1. K \in Nat /\ N \in Nat /\ \A n \in 1..K : names[n] \in Names
  BY SplitType, NamesAreText DEF Text
<1>2. PICK f : /\ MakingSteps(f, t, start, path, 0, target)
               /\ CreatePath(t, start, path, 0, target) = f[N]
  BY CreatePathSteps
<1>3. /\ f[0] = first /\ first \in Values
      /\ \A n \in 1..N : f[n] = IF n <= 0 \/ Split(path)[n] = Blank THEN f[n - 1]
                                ELSE MakeComponent(f[n - 1], Split(path)[n])
  <2>1. 0 \in 0..N
    BY <1>1
  <2> HIDE DEF step, S, F, Values
  <2>2. f[0] \in Values
    BY <1>2, <2>1 DEF MakingSteps, Values
  <2> QED
    BY <1>2, <2>2 DEF MakingSteps
<1>4. \A n \in 1..K : \A v \in Values : step(v, n) \in Values
  BY <1>1, MakeStep
<1> HIDE DEF Values, step, first
<1>5. first \in S[0] /\ StepsWithin(K, S, F)
  BY <1>1, <1>3, <1>4 DEF StepsWithin
<1>6. /\ \A n \in 1..K : \A v \in Values : F[n][v] = step(v, n)
      /\ \A n \in 0..K : S[n] = Values
  OBVIOUS
<1> HIDE DEF S, F
<1>7. PICK w : Solution(w, K, S, F, first)
  BY <1>1, <1>5, Solvable
<1>8. \A n \in 0..K : w[n] \in Values
  BY <1>6, <1>7, Zenon DEF Solution
<1>9. w[0] = first
  BY <1>1, <1>7 DEF Solution
<1>10. ASSUME NEW n \in 1..K PROVE w[n] = step(w[n - 1], n)
  <2>1. n \in 0..K /\ n # 0 /\ n - 1 \in 0..K
    BY <1>1
  <2>2. w[n] = F[n][w[n - 1]]
    BY <1>7, <2>1 DEF Solution
  <2> QED
    BY <1>6, <1>8, <2>1, <2>2
<1>11. MakesAlong(w, t, start, names, target)
  BY <1>8, <1>9, <1>10 DEF MakesAlong, Values, step, first
<1>12. /\ \A m \in 0..N : q[m] \in Nat
       /\ q[0] = 0 /\ q[N] = K
       /\ \A m \in 1..N :
            IF Split(path)[m] = Blank THEN q[m] = q[m - 1]
            ELSE q[m] = q[m - 1] + 1 /\ q[m] \in 1..K /\ names[q[m]] = Split(path)[m]
  BY DEF Skims
<1> HIDE DEF K, N
<1> DEFINE T == {m \in 0..N : f[m] = w[q[m]]}
<1>13. 0 \in T
  BY <1>1, <1>3, <1>9, <1>12
<1>14. ASSUME NEW m \in 1..N, m - 1 \in T PROVE m \in T
  <2>1. m \in 0..N /\ m - 1 \in 0..N /\ ~(m <= 0) /\ f[m - 1] = w[q[m - 1]]
    BY <1>1, <1>14
  <2>2. CASE Split(path)[m] = Blank
    BY <1>3, <1>12, <2>1, <2>2
  <2>3. CASE Split(path)[m] # Blank
    <3>1. f[m] = MakeComponent(w[q[m - 1]], Split(path)[m])
      BY <1>3, <2>1, <2>3
    <3>2. q[m] \in 1..K /\ q[m] - 1 = q[m - 1] /\ names[q[m]] = Split(path)[m]
      <4>1. q[m] = q[m - 1] + 1 /\ q[m] \in 1..K /\ names[q[m]] = Split(path)[m]
        BY <1>12, <2>3
      <4>2. q[m - 1] \in Nat
        BY <1>12, <2>1
      <4> QED
        BY <4>1, <4>2
    <3>3. w[q[m]] = MakeComponent(w[q[m] - 1], names[q[m]])
      BY <1>10, <3>2 DEF step
    <3> QED
      BY <2>1, <3>1, <3>2, <3>3
  <2> QED
    BY <2>2, <2>3
<1>15. f[N] = w[q[N]]
  <2>1. N \in 0..N
    BY <1>1
  <2>2. 0..N \subseteq T
    <3> HIDE DEF T
    <3> QED
      BY <1>1, <1>13, <1>14, UpTo
  <2> QED
    BY <2>1, <2>2
<1> QED
  BY <1>2, <1>11, <1>12, <1>15 DEF K

(* Directories that lead from one to the next by their names, and that     *)
(* mkdir asks without making any.                                          *)
Chain(t, D, names, k) ==
  /\ D \in [0..k -> Vnodes(t)]
  /\ \A i \in 1..k :
       /\ IsDir(t, D[i - 1])
       /\ ~Refuses(t, D[i - 1])
       /\ TmpfsLookup(t, D[i - 1], names[i]) = D[i]

(* They stay as they are (lookup_path, vfs.c:104-112, tmpfs_mkdir,         *)
(* tmpfs.c:123-138).                                                       *)
LEMMA AlongChain ==
  ASSUME NEW t \in TreeType, NEW start, NEW names \in Text, NEW target, NEW w,
         MakesAlong(w, t, start, names, target),
         NEW k \in 0..Len(names), NEW D, Chain(t, D, names, k), D[0] = start
  PROVE  w[k].tree = t /\ w[k].dir = D[k] /\ (k > 0 => w[k].target = D[k])
<1> DEFINE T == {j \in 0..k : w[j].tree = t /\ w[j].dir = D[j] /\ (j > 0 => w[j].target = D[j])}
<1>1. Len(names) \in Nat
  BY DEF Text
<1>2. 0 \in T
  BY <1>1 DEF MakesAlong
<1>3. ASSUME NEW j \in 1..k, j - 1 \in T PROVE j \in T
  <2> DEFINE a == w[j - 1]
             o == MkdirIn(a.tree, a.dir, names[j], a.target)
  <2>1. j \in 0..k /\ j - 1 \in 0..k /\ j \in 1..Len(names) /\ a.tree = t /\ a.dir = D[j - 1]
    BY <1>1, <1>3
  <2>2. w[j] = [tree |-> o.tree, target |-> o.target, dir |-> IF o.ok THEN o.target ELSE a.dir]
    BY <2>1 DEF MakesAlong, MakeComponent
  <2>3. /\ IsDir(t, D[j - 1]) /\ ~Refuses(t, D[j - 1])
        /\ TmpfsLookup(t, D[j - 1], names[j]) = D[j] /\ D[j] \in Vnodes(t)
    BY <2>1 DEF Chain
  <2>4. D[j] # None
    BY <2>3, TreeFacts DEF None
  <2>5. o = [tree |-> t, ok |-> TRUE, target |-> D[j]]
    BY <2>1, <2>3, <2>4 DEF MkdirIn
  <2> HIDE DEF o, a
  <2> QED
    BY <2>1, <2>2, <2>5
<1>4. k \in T
  <2>1. k \in Nat /\ k \in 0..k
    BY <1>1
  <2> HIDE DEF T
  <2> QED
    BY <1>2, <1>3, <2>1, UpTo
<1> QED
  BY <1>4

(* A name that is not there is made (tmpfs_mkdir, tmpfs.c:123-171).        *)
LEMMA MakeNew ==
  ASSUME NEW t \in TreeType, Shape(t), NEW dir \in Vnodes(t), IsDir(t, dir), ~Refuses(t, dir),
         t.node[dir].len < MaxEntry, NEW name \in Names, TmpfsLookup(t, dir, name) = None,
         NEW a, a.tree = t, a.dir = dir
  PROVE  LET n == NewVnode(name, "DIR", t.node[dir].fs)
             u == AddEntry(t, dir, n)
             b == MakeComponent(a, name)
         IN /\ b.tree = u /\ b.target = Fresh(t) /\ b.dir = Fresh(t)
            /\ Added(t, u, dir, n) /\ Grown(t, u)
            /\ TmpfsLookup(u, dir, name) = Fresh(t)
<1> DEFINE n == NewVnode(name, "DIR", t.node[dir].fs)
           u == AddEntry(t, dir, n)
           b == MakeComponent(a, name)
           o == MkdirIn(t, dir, name, a.target)
<1>1. ~(t.node[dir].len >= MaxEntry) /\ t.node[dir].len = Len(t.node[dir].entries) /\ t.node[dir].len \in Nat
  <2>1. DirShape(t, t.node[dir])
    BY ShapeParts
  <2>2. t.node[dir].len = Len(t.node[dir].entries) /\ Len(t.node[dir].entries) \in Nat
    BY <2>1, EntriesFacts DEF DirShape
  <2> QED
    BY <2>2, FileSystemAssumption
<1>2. o = [tree |-> u, ok |-> TRUE, target |-> Fresh(t)]
  BY <1>1 DEF MkdirIn
<1>3. b = [tree |-> o.tree, target |-> o.target, dir |-> IF o.ok THEN o.target ELSE a.dir]
  BY DEF MakeComponent
<1>4. b.tree = u /\ b.target = Fresh(t) /\ b.dir = Fresh(t)
  <2> HIDE DEF o, u
  <2> QED
    BY <1>2, <1>3
<1>5. n \in VnodeType /\ n.name = name /\ n.name # Blank /\ n.type = "DIR" /\ n.len = 0 /\ n.entries = <<>> /\ n.mount = None
  <2>1. t.node[dir].fs \in FileSystems
    BY TreeFacts DEF VnodeType
  <2> QED
    BY <2>1, NewVnodeType DEF NewVnode, Names
<1> HIDE DEF n, o
<1>6. Added(t, u, dir, n)
  BY <1>1, <1>5, AddEntryAdds
<1> HIDE DEF u
<1>7. EntryAt(t, dir, name) = 0
  BY LookupFinds
<1>8. \A i \in DOMAIN t.node[dir].entries : t.node[t.node[dir].entries[i]].name # n.name
  <2>1. 0 \notin DOMAIN t.node[dir].entries
    BY EntriesFacts
  <2> QED
    BY <1>5, <1>7, <2>1, FirstEntry
<1>9. Shape(u)
  BY <1>5, <1>6, <1>8, AddedShape
<1>10. Grown(t, u)
  BY <1>5, <1>6, <1>9, AddedGrown
<1>11. u \in TreeType /\ dir \in Vnodes(u) /\ IsDir(u, dir) /\ u.node[Fresh(t)] = n
  BY <1>6 DEF Added, Extends, IsDir
<1> DEFINE e == u.node[dir].entries
           i == EntryAt(u, dir, name)
           l == Len(t.node[dir].entries) + 1
<1>12. l \in DOMAIN e /\ e[l] = Fresh(t)
  <2>1. e = Append(t.node[dir].entries, Fresh(t)) /\ t.node[dir].entries \in Seq(Nat) /\ Fresh(t) \in Nat
    BY <1>6, EntriesFacts, TreeFacts DEF Added
  <2> DEFINE s == t.node[dir].entries
  <2>2. s \in Seq(Nat)
    BY <2>1
  <2>3. l \in DOMAIN Append(s, Fresh(t)) /\ Append(s, Fresh(t))[l] = Fresh(t)
    BY <2>1, <2>2, AppendLast
  <2> QED
    BY <2>1, <2>3, Zenon
<1>13. i \in DOMAIN e /\ u.node[e[i]].name = name
  <2> HIDE DEF e, l
  <2>1. u.node[e[l]].name = name
    BY <1>5, <1>11, <1>12
  <2> QED
    BY <1>11, <1>12, <2>1, FirstEntry DEF e
<1>14. i = l
  <2>1. DirShape(u, u.node[dir])
    BY <1>9, <1>11, ShapeParts
  <2>2. u.node[e[l]].name = name
    BY <1>5, <1>11, <1>12
  <2> HIDE DEF i, l
  <2> QED
    BY <1>12, <1>13, <2>1, <2>2 DEF DirShape
<1>15. TmpfsLookup(u, dir, name) = Fresh(t)
  <2>1. i # 0
    BY <1>13, EntriesFacts, <1>11
  <2>2. u.node[e[i]].mount = None /\ e[i] = Fresh(t)
    BY <1>5, <1>11, <1>12, <1>14
  <2>3. TmpfsLookup(u, dir, name) = IF ~IsDir(u, dir) \/ i = 0 THEN None
          ELSE IF u.node[e[i]].mount = None THEN e[i] ELSE u.node[e[i]].mount
    BY DEF TmpfsLookup, EntryAt
  <2> HIDE DEF i, e
  <2> QED
    BY <1>11, <2>1, <2>2, <2>3
<1> QED
  BY <1>4, <1>6, <1>10, <1>15 DEF n, u

(* A chain of directories stays one when the tree grows (tmpfs_lookup,     *)
(* tmpfs.c:173-187).                                                       *)
LEMMA ChainKept ==
  ASSUME NEW t \in TreeType, Shape(t), NEW u, Grown(t, u), NEW names, NEW k \in Nat, NEW D,
         Chain(t, D, names, k)
  PROVE  Chain(u, D, names, k)
<1>1. u \in TreeType /\ Shape(u) /\ Preserves(t, u) /\ Vnodes(t) \subseteq Vnodes(u)
  BY GrownPreserves DEF Grown
<1>2. D \in [0..k -> Vnodes(u)]
  BY <1>1 DEF Chain
<1>3. ASSUME NEW i \in 1..k
      PROVE  /\ IsDir(u, D[i - 1]) /\ ~Refuses(u, D[i - 1])
             /\ TmpfsLookup(u, D[i - 1], names[i]) = D[i]
  <2>1. i - 1 \in 0..k /\ i \in 0..k
    OBVIOUS
  <2>2. /\ D[i - 1] \in Vnodes(t) /\ D[i] \in Vnodes(t) /\ IsDir(t, D[i - 1])
        /\ ~Refuses(t, D[i - 1]) /\ TmpfsLookup(t, D[i - 1], names[i]) = D[i]
    BY <2>1 DEF Chain
  <2>3. Stays(t, u, D[i - 1]) /\ Stays(t, u, D[i]) /\ u.mounted = t.mounted
    BY <2>2 DEF Grown
  <2>4. D[i] # None
    BY <2>2, TreeFacts DEF None
  <2>5. TmpfsLookup(u, D[i - 1], names[i]) = D[i]
    BY <1>1, <2>2, <2>3, <2>4, LookupKept DEF Stays
  <2> QED
    BY <2>2, <2>3, <2>5 DEF Stays, IsDir, Refuses
<1> QED
  BY <1>2, <1>3 DEF Chain

(* It gets one link more.                                                  *)
LEMMA ChainGrows ==
  ASSUME NEW u, NEW names, NEW k \in Nat, NEW D, Chain(u, D, names, k),
         IsDir(u, D[k]), ~Refuses(u, D[k]), NEW v \in Vnodes(u), TmpfsLookup(u, D[k], names[k + 1]) = v
  PROVE  Chain(u, [i \in 0..k + 1 |-> IF i = k + 1 THEN v ELSE D[i]], names, k + 1)
<1> DEFINE E == [i \in 0..k + 1 |-> IF i = k + 1 THEN v ELSE D[i]]
<1>1. E \in [0..k + 1 -> Vnodes(u)]
  <2>1. \A i \in 0..k + 1 : i # k + 1 => i \in 0..k
    OBVIOUS
  <2> QED
    BY <2>1 DEF Chain
<1>2. E[k + 1] = v /\ \A i \in 0..k : E[i] = D[i]
  OBVIOUS
<1> HIDE DEF E
<1>3. ASSUME NEW i \in 1..k + 1
      PROVE  /\ IsDir(u, E[i - 1]) /\ ~Refuses(u, E[i - 1])
             /\ TmpfsLookup(u, E[i - 1], names[i]) = E[i]
  <2>1. CASE i = k + 1
    <3>1. i - 1 = k /\ k \in 0..k
      BY <2>1
    <3> QED
      BY <1>2, <2>1, <3>1
  <2>2. CASE i # k + 1
    <3>1. i \in 1..k /\ i - 1 \in 0..k /\ i \in 0..k
      BY <2>2
    <3> QED
      BY <1>2, <3>1 DEF Chain
  <2> QED
    BY <2>1, <2>2
<1>4. Chain(u, E, names, k + 1)
  BY <1>1, <1>3 DEF Chain
<1> QED
  BY <1>4 DEF E

(* In an empty directory nothing is found (tmpfs_lookup, tmpfs.c:173-187). *)
LEMMA LookupEmpty ==
  ASSUME NEW t \in TreeType, Shape(t), NEW v \in Vnodes(t), t.node[v].entries = <<>>, NEW name
  PROVE  TmpfsLookup(t, v, name) = None
<1>1. EntryAt(t, v, name) = 0
  <2>1. DOMAIN t.node[v].entries = {}
    OBVIOUS
  <2> QED
    BY <2>1, FirstEntry
<1> QED
  BY <1>1, LookupFinds

(* The tree when the k-th directory of a chain has got new ones below it,  *)
(* which go on to the j-th name.                                           *)
Sprouts(t, D, names, k, u, E, j) ==
  /\ Grown(t, u)
  /\ Chain(u, E, names, j)
  /\ \A i \in 0..k : E[i] = D[i]
  /\ \A i \in k + 1..j : E[i] \notin Vnodes(t)
  /\ \A i \in 0..j - 1 : E[i] # E[j]
  /\ u.node[E[j]] = NewVnode(names[j], "DIR", t.node[D[k]].fs)
  /\ \A v \in Vnodes(t) : v # D[k] => u.node[v] = t.node[v]
  /\ u.node[D[k]].len = t.node[D[k]].len + 1
  /\ u.node[D[k]].entries = Append(t.node[D[k]].entries, E[k + 1])
  /\ \A v \in Vnodes(u) \ Vnodes(t) :
       /\ u.node[v].type = "DIR" /\ u.node[v].fs = t.node[D[k]].fs /\ u.node[v].mount = None
       /\ u.node[v].len \in {0, 1}
       /\ \E i \in k + 1..j : v = E[i]

(* The first of them.                                                      *)
LEMMA FirstSprout ==
  ASSUME NEW t \in TreeType, Shape(t), NEW names \in Seq(Names), NEW k \in Nat, k + 1 \in 1..Len(names),
         NEW D, Chain(t, D, names, k), IsDir(t, D[k]), ~Refuses(t, D[k]), t.node[D[k]].len < MaxEntry,
         TmpfsLookup(t, D[k], names[k + 1]) = None, NEW a, a.tree = t, a.dir = D[k]
  PROVE  \E E : /\ Sprouts(t, D, names, k, MakeComponent(a, names[k + 1]).tree, E, k + 1)
                /\ MakeComponent(a, names[k + 1]).dir = E[k + 1]
                /\ MakeComponent(a, names[k + 1]).target = E[k + 1]
<1> DEFINE dir == D[k]
           name == names[k + 1]
           n == NewVnode(name, "DIR", t.node[dir].fs)
           u == AddEntry(t, dir, n)
           b == MakeComponent(a, name)
           E == [i \in 0..k + 1 |-> IF i = k + 1 THEN Fresh(t) ELSE D[i]]
<1>1. dir \in Vnodes(t) /\ name \in Names /\ \A i \in 0..k : D[i] \in Vnodes(t)
  <2>1. D[k] \in Vnodes(t)
    <3>1. k \in 0..k
      OBVIOUS
    <3> QED
      BY <3>1 DEF Chain
  <2>2. names[k + 1] \in Names
    BY NamesAreText
  <2>3. \A i \in 0..k : D[i] \in Vnodes(t)
    BY DEF Chain
  <2> QED
    BY <2>1, <2>2, <2>3, Zenon
<1>2. /\ b.tree = u /\ b.target = Fresh(t) /\ b.dir = Fresh(t)
      /\ Added(t, u, dir, n) /\ Grown(t, u)
      /\ TmpfsLookup(u, dir, name) = Fresh(t)
  BY <1>1, MakeNew
<1>3. n.type = "DIR" /\ n.fs = t.node[dir].fs /\ n.mount = None /\ n.len = 0
  BY DEF NewVnode
<1> HIDE DEF u, b, n
<1>4. E[k + 1] = Fresh(t) /\ \A i \in 0..k : E[i] = D[i]
  OBVIOUS
<1>5. Chain(u, E, names, k + 1)
  <2>1. Chain(u, D, names, k)
    BY <1>2, ChainKept
  <2>2. IsDir(u, dir) /\ ~Refuses(u, dir) /\ Fresh(t) \in Vnodes(u)
    BY <1>1, <1>2 DEF Added, Extends, IsDir, Refuses
  <2> QED
    BY <1>2, <2>1, <2>2, ChainGrows
<1> HIDE DEF E
<1>6. Fresh(t) \notin Vnodes(t)
  BY TreeFacts
<1>7. \A i \in 0..(k + 1) - 1 : E[i] # E[k + 1]
  <2>1. (k + 1) - 1 = k
    OBVIOUS
  <2> QED
    BY <1>1, <1>4, <1>6, <2>1
<1>8. /\ u.node[Fresh(t)] = n
      /\ \A v \in Vnodes(t) : v # dir => u.node[v] = t.node[v]
      /\ u.node[dir].len = t.node[dir].len + 1
      /\ u.node[dir].entries = Append(t.node[dir].entries, Fresh(t))
      /\ \A v \in Vnodes(u) \ Vnodes(t) : v = Fresh(t)
  BY <1>2 DEF Added, Extends, OthersStay
<1>10. \A i \in k + 1..k + 1 : E[i] \notin Vnodes(t)
  <2>1. \A i \in k + 1..k + 1 : i = k + 1
    OBVIOUS
  <2> QED
    BY <1>4, <1>6, <2>1
<1>11. k + 1 \in k + 1..k + 1
  OBVIOUS
<1>9. Sprouts(t, D, names, k, u, E, k + 1)
  BY <1>11, <1>10, <1>2, <1>3, <1>4, <1>5, <1>6, <1>7, <1>8 DEF Sprouts, n
<1> QED
  BY <1>2, <1>4, <1>9 DEF b

(* The next one: a new directory is empty, so it has no such name and has  *)
(* room for it.                                                            *)
LEMMA NextSprout ==
  ASSUME NEW t \in TreeType, Shape(t), NEW names \in Seq(Names), NEW k \in Nat, NEW D, D[k] \in Vnodes(t),
         ~Refuses(t, D[k]), NEW j \in Nat, j > k, j + 1 \in 1..Len(names), NEW a, NEW E0,
         Sprouts(t, D, names, k, a.tree, E0, j), a.dir = E0[j]
  PROVE  \E E : /\ Sprouts(t, D, names, k, MakeComponent(a, names[j + 1]).tree, E, j + 1)
                /\ MakeComponent(a, names[j + 1]).dir = E[j + 1]
                /\ MakeComponent(a, names[j + 1]).target = E[j + 1]
<1> DEFINE s == a.tree
           dir == E0[j]
           name == names[j + 1]
           fs == t.node[D[k]].fs
           n == NewVnode(name, "DIR", s.node[dir].fs)
           u == AddEntry(s, dir, n)
           b == MakeComponent(a, name)
           E == [i \in 0..j + 1 |-> IF i = j + 1 THEN Fresh(s) ELSE E0[i]]
<1>1. /\ Grown(t, s) /\ s \in TreeType /\ Shape(s) /\ Chain(s, E0, names, j)
      /\ dir \in Vnodes(s) /\ dir \notin Vnodes(t) /\ name \in Names
      /\ \A i \in 0..j : E0[i] \in Vnodes(s)
  <2>1. Grown(t, s) /\ Chain(s, E0, names, j) /\ dir \notin Vnodes(t)
    <3>1. j \in k + 1..j
      OBVIOUS
    <3> QED
      BY <3>1 DEF Sprouts
  <2>2. E0 \in [0..j -> Vnodes(s)]
    BY <2>1 DEF Chain
  <2>3. name \in Names
    OBVIOUS
  <2> QED
    BY <2>1, <2>2, <2>3 DEF Grown
<1>2. /\ s.node[dir].type = "DIR" /\ s.node[dir].fs = fs /\ s.node[dir].len = 0
      /\ s.node[dir].entries = <<>> /\ s.node[dir].mount = None
  <2>1. s.node[dir] = NewVnode(names[j], "DIR", fs)
    BY DEF Sprouts
  <2> HIDE DEF s, dir, fs
  <2> QED
    BY <2>1 DEF NewVnode
<1>3. /\ \A i \in 0..k : E0[i] = D[i]
      /\ \A v \in Vnodes(t) : v # D[k] => s.node[v] = t.node[v]
      /\ s.node[D[k]].len = t.node[D[k]].len + 1
      /\ s.node[D[k]].entries = Append(t.node[D[k]].entries, E0[k + 1])
      /\ \A v \in Vnodes(s) \ Vnodes(t) :
           /\ s.node[v].type = "DIR" /\ s.node[v].fs = fs /\ s.node[v].mount = None
           /\ s.node[v].len \in {0, 1}
           /\ \E i \in k + 1..j : v = E0[i]
  BY DEF Sprouts
<1>4. IsDir(s, dir) /\ ~Refuses(s, dir) /\ s.node[dir].len < MaxEntry
  <2>1. s.mounted = t.mounted
    BY <1>1 DEF Grown
  <2> QED
    BY <1>2, <2>1, FileSystemAssumption DEF IsDir, Refuses
<1>5. TmpfsLookup(s, dir, name) = None
  BY <1>1, <1>2, LookupEmpty
<1> HIDE DEF s, dir
<1>6. a.tree = s /\ a.dir = dir /\ dir = E0[j]
  BY DEF s, dir
<1>7. /\ b.tree = u /\ b.target = Fresh(s) /\ b.dir = Fresh(s)
      /\ Added(s, u, dir, n) /\ Grown(s, u)
      /\ TmpfsLookup(u, dir, name) = Fresh(s)
  BY <1>1, <1>4, <1>5, <1>6, MakeNew, SMTT(60)
<1>8. n.type = "DIR" /\ n.fs = fs /\ n.mount = None /\ n.len = 0 /\ n = NewVnode(name, "DIR", fs)
  BY <1>2 DEF NewVnode
<1> HIDE DEF u, b, n
<1>9. E[j + 1] = Fresh(s) /\ \A i \in 0..j : E[i] = E0[i]
  OBVIOUS
<1>10. Chain(u, E, names, j + 1)
  <2>1. Chain(u, E0, names, j)
    BY <1>1, <1>7, ChainKept
  <2>2. IsDir(u, dir) /\ ~Refuses(u, dir) /\ Fresh(s) \in Vnodes(u)
    BY <1>1, <1>4, <1>7 DEF Added, Extends, IsDir, Refuses
  <2>3. IsDir(u, E0[j]) /\ ~Refuses(u, E0[j]) /\ TmpfsLookup(u, E0[j], names[j + 1]) = Fresh(s)
    BY <1>6, <1>7, <2>2
  <2> QED
    BY <2>1, <2>2, <2>3, ChainGrows
<1> HIDE DEF E
<1>11. Fresh(s) \notin Vnodes(s) /\ Vnodes(t) \subseteq Vnodes(s)
  BY <1>1, TreeFacts DEF Grown
<1>12. \A i \in 0..(j + 1) - 1 : E[i] # E[j + 1]
  <2>1. (j + 1) - 1 = j
    OBVIOUS
  <2> QED
    BY <1>1, <1>9, <1>11, <2>1
<1>13. /\ u.node[Fresh(s)] = n
       /\ \A v \in Vnodes(s) : v # dir => u.node[v] = s.node[v]
       /\ u.node[dir].len = 1 /\ u.node[dir].type = "DIR" /\ u.node[dir].fs = fs /\ u.node[dir].mount = None
       /\ \A v \in Vnodes(u) : v \in Vnodes(s) \/ v = Fresh(s)
  <2>1. s.node[dir].len + 1 = 1
    BY <1>2
  <2> QED
    BY <1>2, <1>7, <2>1 DEF Added, Extends, OthersStay
<1>14. Grown(t, u)
  BY <1>1, <1>7, GrownTrans
<1>15. \A i \in 0..k : E[i] = D[i]
  <2>1. \A i \in 0..k : i \in 0..j
    OBVIOUS
  <2> QED
    BY <1>3, <1>9, <2>1
<1>16. /\ \A v \in Vnodes(t) : v # D[k] => u.node[v] = t.node[v]
       /\ u.node[D[k]].len = t.node[D[k]].len + 1
       /\ u.node[D[k]].entries = Append(t.node[D[k]].entries, E[k + 1])
  <2>1. k + 1 \in 0..j
    OBVIOUS
  <2>2. E[k + 1] = E0[k + 1] /\ D[k] # dir /\ D[k] \in Vnodes(s)
    BY <1>1, <1>9, <1>11, <2>1
  <2> QED
    BY <1>1, <1>3, <1>11, <1>13, <2>2
<1>17. ASSUME NEW v \in Vnodes(u) \ Vnodes(t)
       PROVE  /\ u.node[v].type = "DIR" /\ u.node[v].fs = fs /\ u.node[v].mount = None
              /\ u.node[v].len \in {0, 1}
  <2>1. CASE v = Fresh(s)
    BY <1>8, <1>13, <2>1
  <2>2. CASE v = dir
    BY <1>13, <2>2
  <2>3. CASE v # Fresh(s) /\ v # dir
    BY <1>3, <1>13, <2>3
  <2> QED
    BY <2>1, <2>2, <2>3
<1>20. ASSUME NEW v \in Vnodes(u) \ Vnodes(t) PROVE \E i \in k + 1..j + 1 : v = E[i]
  <2>1. CASE v = Fresh(s)
    <3>1. j + 1 \in k + 1..j + 1
      OBVIOUS
    <3> QED
      BY <1>9, <2>1, <3>1
  <2>2. CASE v # Fresh(s)
    <3>1. v \in Vnodes(s) \ Vnodes(t)
      BY <1>13, <2>2
    <3>2. PICK i \in k + 1..j : v = E0[i]
      BY <1>3, <3>1
    <3>3. i \in k + 1..j + 1 /\ i \in 0..j
      OBVIOUS
    <3> QED
      BY <1>9, <3>2, <3>3
  <2> QED
    BY <2>1, <2>2
<1>19. ASSUME NEW i \in k + 1..j + 1 PROVE E[i] \notin Vnodes(t)
  <2>1. CASE i = j + 1
    BY <1>9, <1>11, <2>1
  <2>2. CASE i # j + 1
    <3>1. i \in k + 1..j /\ i \in 0..j
      BY <2>2
    <3> QED
      BY <1>9, <3>1 DEF Sprouts
  <2> QED
    BY <2>1, <2>2
<1> HIDE DEF fs
<1>18. Sprouts(t, D, names, k, u, E, j + 1)
  BY <1>20, <1>19, <1>8, <1>9, <1>10, <1>11, <1>12, <1>13, <1>14, <1>15, <1>16, <1>17 DEF Sprouts, fs
<1> QED
  BY <1>7, <1>9, <1>18 DEF b

(* All of them: lookup_path with create makes a path from the last         *)
(* directory that exists (vfs.c:91-118).                                   *)
LEMMA PathMade ==
  ASSUME NEW t \in TreeType, Shape(t), NEW start \in Vnodes(t), NEW path \in Text,
         NEW target, Target(t, target), NEW names \in Seq(Names), NEW q, Skims(q, Split(path), names, Len(names)),
         NEW k \in Nat, k < Len(names), NEW D, Chain(t, D, names, k), D[0] = start,
         IsDir(t, D[k]), ~Refuses(t, D[k]), t.node[D[k]].len < MaxEntry,
         TmpfsLookup(t, D[k], names[k + 1]) = None
  PROVE  LET made == CreatePath(t, start, path, 0, target) IN
         \E E : Sprouts(t, D, names, k, made.tree, E, Len(names)) /\ made.target = E[Len(names)]
<1> DEFINE K == Len(names)
<1>1. K \in Nat /\ k \in 0..K /\ k + 1 \in 1..K /\ names \in Text
  BY NamesAreText
<1>2. PICK w : /\ MakesAlong(w, t, start, names, target)
               /\ CreatePath(t, start, path, 0, target) = w[K]
  BY CreateAlong
<1>3. w[k].tree = t /\ w[k].dir = D[k]
  BY <1>1, <1>2, AlongChain
<1>4. \A j \in 1..K : w[j] = MakeComponent(w[j - 1], names[j])
  BY <1>2 DEF MakesAlong
<1>5. D[k] \in Vnodes(t)
  BY DEF Chain
<1> DEFINE Done(j) == \E E : Sprouts(t, D, names, k, w[j].tree, E, j) /\ w[j].dir = E[j] /\ w[j].target = E[j]
           T == {i \in 0..K - (k + 1) : Done(k + 1 + i)}
<1>6. Done(k + 1)
  <2>1. w[k + 1] = MakeComponent(w[k], names[k + 1])
    BY <1>1, <1>4
  <2> QED
    BY <1>1, <1>3, <2>1, FirstSprout
<1>7. ASSUME NEW j \in Nat, j > k, j + 1 \in 1..K, Done(j) PROVE Done(j + 1)
  <2>1. w[j + 1] = MakeComponent(w[j], names[j + 1])
    BY <1>4, <1>7
  <2>2. PICK E0 : Sprouts(t, D, names, k, w[j].tree, E0, j) /\ w[j].dir = E0[j]
    BY <1>7
  <2> QED
    BY <1>5, <1>7, <2>1, <2>2, NextSprout
<1> HIDE DEF Done, K
<1>8. 0 \in T
  BY <1>1, <1>6
<1>9. ASSUME NEW i \in 1..K - (k + 1), i - 1 \in T PROVE i \in T
  <2>1. /\ k + 1 + (i - 1) \in Nat /\ k + 1 + (i - 1) > k
        /\ (k + 1 + (i - 1)) + 1 = k + 1 + i /\ k + 1 + i \in 1..K
    BY <1>1
  <2>2. Done(k + 1 + (i - 1))
    BY <1>9
  <2> QED
    BY <1>1, <1>7, <2>1, <2>2
<1>10. Done(K)
  <2>1. K - (k + 1) \in Nat /\ K - (k + 1) \in 0..K - (k + 1) /\ k + 1 + (K - (k + 1)) = K
    BY <1>1
  <2>2. K - (k + 1) \in T
    <3> HIDE DEF T
    <3> QED
      BY <1>8, <1>9, <2>1, UpTo
  <2> QED
    BY <2>1, <2>2
<1> QED
  BY <1>2, <1>10 DEF Done, K

(* Vnodes that a search passes, none of them with a mount.                 *)
Leads(t, D, comps, k) ==
  /\ D \in [0..k -> Vnodes(t)]
  /\ D[0] = t.root
  /\ \A i \in 1..k :
       /\ IsDir(t, D[i - 1])
       /\ t.node[D[i - 1]].mount = None
       /\ TmpfsLookup(t, D[i - 1], comps[i]) = D[i]

(* It finds the last of them (lookup_path, vfs.c:77-119).                  *)
LEMMA LeadsFound ==
  ASSUME NEW t \in TreeType, Shape(t), NEW comps \in Text, NEW k \in 1..Len(comps), NEW D, Leads(t, D, comps, k)
  PROVE  Found(t, comps)[k] = [ok |-> TRUE, target |-> D[k]]
<1> DEFINE f == Found(t, comps)
           T == {i \in 0..k : f[i].ok /\ FindIn(t, f[i]) = D[i] /\ (i > 0 => f[i].target = D[i])}
<1>1. Len(comps) \in Nat /\ k \in Nat
  BY DEF Text
<1>2. /\ f[0] = [ok |-> TRUE, target |-> None]
      /\ \A n \in 1..Len(comps) : f[n] = FindComponent(t, f[n - 1], comps[n])
      /\ \A n \in 0..Len(comps) : f[n] \in Findings(t)
  BY FoundDefined DEF Text
<1> HIDE DEF f
<1>3. 0 \in T
  BY <1>1, <1>2 DEF FindIn, Leads
<1>4. ASSUME NEW i \in 1..k, i - 1 \in T PROVE i \in T
  <2>1. i \in 0..k /\ i - 1 \in 0..k /\ i \in 1..Len(comps) /\ i - 1 \in 0..Len(comps) /\ i > 0
    BY <1>1
  <2>2. /\ D[i - 1] \in Vnodes(t) /\ D[i] \in Vnodes(t) /\ IsDir(t, D[i - 1])
        /\ t.node[D[i - 1]].mount = None /\ TmpfsLookup(t, D[i - 1], comps[i]) = D[i]
    BY <2>1 DEF Leads
  <2>3. f[i - 1].ok /\ FindIn(t, f[i - 1]) = D[i - 1] /\ f[i - 1] \in Findings(t)
    BY <1>2, <1>4, <2>1
  <2>4. D[i] # None
    BY <2>2, TreeFacts DEF None
  <2>5. Enter(t, D[i - 1]) = D[i - 1]
    BY <2>2, EnterDefined
  <2>6. f[i] = FindComponent(t, f[i - 1], comps[i])
    BY <1>2, <2>1
  <2>7. f[i].ok /\ f[i].target = D[i]
    BY <2>2, <2>3, <2>4, <2>5, <2>6, FindStep
  <2>8. FindIn(t, f[i]) = D[i]
    BY <2>4, <2>7 DEF FindIn
  <2> QED
    BY <2>1, <2>7, <2>8
<1>5. k \in T
  <2>1. k \in 0..k
    BY <1>1
  <2> HIDE DEF T
  <2> QED
    BY <1>1, <1>3, <1>4, <2>1, UpTo
<1>6. f[k] \in Findings(t) /\ f[k].ok /\ f[k].target = D[k]
  BY <1>1, <1>2, <1>5
<1>7. f[k] = [ok |-> TRUE, target |-> D[k]]
  BY <1>6 DEF Findings
<1> QED
  BY <1>7 DEF f

(* A directory whose entries keep their names and mounts shows the same    *)
(* (tmpfs_lookup, tmpfs.c:173-187).                                        *)
LEMMA LookupSame ==
  ASSUME NEW t \in TreeType, Shape(t), NEW u, NEW dir \in Vnodes(t),
         u.node[dir].entries = t.node[dir].entries, u.node[dir].type = t.node[dir].type,
         \A w \in Vnodes(t) : u.node[w].name = t.node[w].name /\ u.node[w].mount = t.node[w].mount,
         NEW name
  PROVE  TmpfsLookup(u, dir, name) = TmpfsLookup(t, dir, name)
<1> DEFINE e == t.node[dir].entries
           I == {j \in 1..Len(e) : t.node[e[j]].name = name}
           J == {j \in 1..Len(e) : u.node[e[j]].name = name}
           i == IF I # {} THEN Min(I) ELSE 0
<1>1. DOMAIN e = 1..Len(e) /\ \A j \in 1..Len(e) : e[j] \in Vnodes(t)
  BY EntriesFacts, EntriesAreVnodes
<1>2. I = J
  BY <1>1
<1>3. EntryAt(t, dir, name) = i
  BY DEF EntryAt, SelectInSeq
<1>4. EntryAt(u, dir, name) = IF J # {} THEN Min(J) ELSE 0
  BY DEF EntryAt, SelectInSeq
<1>5. i = 0 \/ i \in 1..Len(e)
  BY <1>1, <1>3, FirstEntry
<1> HIDE DEF I, J, i
<1>6. EntryAt(u, dir, name) = i
  BY <1>2, <1>3, <1>4 DEF i
<1>7. TmpfsLookup(t, dir, name) = IF ~IsDir(t, dir) \/ i = 0 THEN None
        ELSE IF t.node[e[i]].mount = None THEN e[i] ELSE t.node[e[i]].mount
  BY <1>3 DEF TmpfsLookup, EntryAt
<1>8. TmpfsLookup(u, dir, name) = IF ~IsDir(u, dir) \/ i = 0 THEN None
        ELSE IF u.node[e[i]].mount = None THEN e[i] ELSE u.node[e[i]].mount
  BY <1>6 DEF TmpfsLookup, EntryAt
<1>9. IsDir(u, dir) <=> IsDir(t, dir)
  BY DEF IsDir
<1>10. i # 0 => u.node[e[i]].mount = t.node[e[i]].mount
  BY <1>1, <1>5
<1> QED
  BY <1>7, <1>8, <1>9, <1>10

(* What has been found was found component by component (lookup_path,      *)
(* vfs.c:77-119).                                                          *)
LEMMA FoundBefore ==
  ASSUME NEW t \in TreeType, Shape(t), NEW comps \in Text, NEW k \in 0..Len(comps), Found(t, comps)[k].ok
  PROVE  \A j \in 0..k : Found(t, comps)[j].ok
<1> DEFINE f == Found(t, comps)
           T == {i \in 0..k : f[k - i].ok}
<1>1. Len(comps) \in Nat /\ k \in Nat
  BY DEF Text
<1>2. /\ \A n \in 1..Len(comps) : f[n] = FindComponent(t, f[n - 1], comps[n])
      /\ \A n \in 0..Len(comps) : f[n] \in Findings(t)
  BY FoundDefined DEF Text
<1>3. f[k].ok
  OBVIOUS
<1> HIDE DEF f
<1>4. 0 \in T
  BY <1>1, <1>3
<1>5. ASSUME NEW i \in 1..k, i - 1 \in T PROVE i \in T
  <2> DEFINE n == k - (i - 1)
  <2>1. n \in 1..Len(comps) /\ n - 1 \in 0..Len(comps) /\ n - 1 = k - i /\ i \in 0..k
    BY <1>1
  <2>2. f[n].ok
    BY <1>5
  <2> HIDE DEF n
  <2>3. f[n - 1].ok
    <3>1. f[n] = FindComponent(t, f[n - 1], comps[n]) /\ f[n - 1] \in Findings(t)
      BY <1>2, <2>1
    <3> QED
      BY <2>2, <3>1, FindStep
  <2> QED
    BY <2>1, <2>3
<1>6. 0..k \subseteq T
  <2> HIDE DEF T
  <2> QED
    BY <1>1, <1>4, <1>5, UpTo
<1>7. ASSUME NEW j \in 0..k PROVE f[j].ok
  <2>1. k - j \in 0..k /\ k - (k - j) = j
    BY <1>1
  <2> QED
    BY <1>6, <2>1
<1> QED
  BY <1>7 DEF f

(* A path that is not found is found up to some component.                 *)
LEMMA LongestExists ==
  ASSUME NEW comps \in Text, tree \in TreeType, Shape(tree)
  PROVE  LET k == Longest(comps) IN
         /\ k \in 0..Len(comps)
         /\ Found(tree, comps)[k].ok
         /\ k < Len(comps) => ~Found(tree, comps)[k + 1].ok
<1> DEFINE N == Len(comps)
           f == Found(tree, comps)
           Is(k) == f[k].ok /\ (k < N => ~f[k + 1].ok)
           S == {n \in 0..N : ~f[n].ok}
<1>1. N \in Nat /\ f[0].ok
  BY FoundDefined DEF Text
<1> HIDE DEF f, N
<1>2. \E k \in 0..N : Is(k)
  <2>1. CASE S = {}
    <3>1. N \in 0..N /\ ~(N < N)
      BY <1>1
    <3> QED
      BY <2>1, <3>1
  <2>2. CASE S # {}
    <3>1. PICK n \in S : \A m \in S : n <= m
      <4>1. S \in SUBSET Nat
        BY <1>1
      <4> HIDE DEF S
      <4> QED
        BY <2>2, <4>1, Least
    <3>2. n \in 1..N /\ n - 1 \in 0..N /\ (n - 1) + 1 = n
      BY <1>1, <3>1
    <3>3. f[n - 1].ok
      BY <3>1, <3>2
    <3> QED
      BY <3>1, <3>2, <3>3
  <2> QED
    BY <2>1, <2>2
<1>3. Longest(comps) = CHOOSE k \in 0..N : Is(k)
  BY DEF Longest, N, f
<1>4. Longest(comps) \in 0..N /\ Is(Longest(comps))
  <2> HIDE DEF Is
  <2> QED
    BY <1>2, <1>3
<1> QED
  BY <1>4 DEF N, f

(* The directories of a path that open can make: the search and the loop   *)
(* that creates take the same way through them.                            *)
LEMMA CreatableChain ==
  ASSUME tree \in TreeType, Shape(tree), NEW path \in Text, Creatable(path), ~Lookup(tree, path).ok
  PROVE  LET comps == SearchComps(path)
             k == Longest(comps)
         IN \E D : /\ k \in Nat /\ k < Len(comps)
                   /\ Chain(tree, D, comps, k)
                   /\ Leads(tree, D, comps, k)
                   /\ tree.node[D[k]].mount = None
                   /\ IsDir(tree, D[k]) /\ ~Refuses(tree, D[k]) /\ tree.node[D[k]].len < MaxEntry
                   /\ TmpfsLookup(tree, D[k], comps[k + 1]) = None
<1> DEFINE comps == SearchComps(path)
           k == Longest(comps)
           f == Found(tree, comps)
           dir(j) == IF j = 0 THEN tree.root ELSE f[j].target
           D == [j \in 0..k |-> dir(j)]
<1>1. comps \in Text /\ Len(comps) \in Nat
  BY SearchCompsType DEF Text
<1>2. /\ IsDir(tree, dir(k)) /\ tree.node[dir(k)].len < MaxEntry
      /\ \A j \in 0..k : /\ ~Refuses(tree, dir(j))
                         /\ tree.node[dir(j)].mount # None =>
                              \A v \in Vnodes(tree) : tree.node[v].mount # dir(j)
  BY DEF Creatable
<1>3. k \in 0..Len(comps) /\ f[k].ok /\ (k < Len(comps) => ~f[k + 1].ok)
  BY <1>1, LongestExists
<1>4. ~f[Len(comps)].ok
  <2>1. path # <<Slash>>
    BY LookupResult
  <2> QED
    BY <2>1, LookupResult
<1>5. /\ f[0] = [ok |-> TRUE, target |-> None]
      /\ \A n \in 1..Len(comps) : f[n] = FindComponent(tree, f[n - 1], comps[n])
      /\ \A n \in 0..Len(comps) : f[n] \in Findings(tree)
  BY <1>1, FoundDefined DEF Text
<1>6. \A j \in 0..k : f[j].ok
  BY <1>1, <1>3, FoundBefore
<1>7. \A j \in 0..k : D[j] = dir(j)
  OBVIOUS
<1> HIDE DEF comps, k, f
<1>8. k \in Nat /\ k < Len(comps)
  BY <1>1, <1>3, <1>4
<1>9. ASSUME NEW j \in 0..k
      PROVE  /\ dir(j) = FindIn(tree, f[j]) /\ dir(j) \in Vnodes(tree)
             /\ dir(j) = tree.root \/ Reached(tree, dir(j))
  <2>1. j \in 0..Len(comps) /\ f[j] \in Findings(tree)
    BY <1>5, <1>8
  <2>2. CASE j = 0
    <3>1. dir(j) = tree.root /\ f[j].target = None
      BY <1>5, <2>2
    <3> QED
      BY <3>1, ShapeParts DEF FindIn
  <2>3. CASE j # 0
    <3>1. j \in 1..Len(comps) /\ j - 1 \in 0..Len(comps)
      BY <1>8, <2>3
    <3>2. f[j] = FindComponent(tree, f[j - 1], comps[j]) /\ f[j - 1] \in Findings(tree)
      BY <1>5, <3>1
    <3>3. f[j].target # None
      BY <1>6, <3>2, FindStep
    <3>4. dir(j) = f[j].target /\ Reached(tree, f[j].target)
      BY <2>1, <2>3, <3>3 DEF Findings
    <3> QED
      BY <3>3, <3>4 DEF FindIn, Reached
  <2> QED
    BY <2>2, <2>3
<1>10. ASSUME NEW j \in 0..k PROVE tree.node[dir(j)].mount = None
  <2>1. CASE dir(j) = tree.root
    BY <2>1, ShapeParts
  <2>2. CASE Reached(tree, dir(j))
    <3>1. PICK d \in Vnodes(tree) : \E e \in ToSet(tree.node[d].entries) :
            \/ e = dir(j) /\ tree.node[dir(j)].mount = None
            \/ tree.node[e].mount = dir(j)
      BY <2>2 DEF Reached
    <3>2. PICK e \in ToSet(tree.node[d].entries) :
            \/ e = dir(j) /\ tree.node[dir(j)].mount = None
            \/ tree.node[e].mount = dir(j)
      BY <3>1
    <3>3. e \in Vnodes(tree)
      <4>1. PICK i \in DOMAIN tree.node[d].entries : tree.node[d].entries[i] = e
        BY EntriesFacts
      <4> QED
        BY <4>1, EntriesAreVnodes
    <3> QED
      BY <1>2, <3>2, <3>3
  <2> QED
    BY <1>9, <2>1, <2>2
<1>11. ASSUME NEW j \in 0..k
       PROVE  LET entry == TmpfsLookup(tree, dir(j), comps[j + 1]) IN
              f[j + 1].ok <=> IsDir(tree, dir(j)) /\ entry # None
  <2>1. j + 1 \in 1..Len(comps) /\ (j + 1) - 1 = j /\ j \in 0..Len(comps)
    BY <1>8
  <2>2. f[j + 1] = FindComponent(tree, f[j], comps[j + 1]) /\ f[j] \in Findings(tree) /\ f[j].ok
    BY <1>5, <1>6, <2>1
  <2>3. Enter(tree, dir(j)) = dir(j)
    BY <1>9, <1>10, EnterDefined
  <2>4. dir(j) = FindIn(tree, f[j])
    BY <1>9
  <2> HIDE DEF dir
  <2> QED
    BY <2>2, <2>3, <2>4, FindStep
<1>12. ASSUME NEW j \in 1..k
       PROVE  /\ IsDir(tree, dir(j - 1)) /\ ~Refuses(tree, dir(j - 1)) /\ tree.node[dir(j - 1)].mount = None
              /\ TmpfsLookup(tree, dir(j - 1), comps[j]) = dir(j)
  <2>1. j - 1 \in 0..k /\ (j - 1) + 1 = j /\ j \in 0..k /\ j # 0 /\ j \in 1..Len(comps) /\ j - 1 \in 0..Len(comps)
    BY <1>8
  <2>2. IsDir(tree, dir(j - 1)) /\ f[j].ok
    BY <1>6, <1>11, <2>1
  <2>3. f[j] = FindComponent(tree, f[j - 1], comps[j]) /\ f[j - 1] \in Findings(tree)
    BY <1>5, <2>1
  <2>4. Enter(tree, dir(j - 1)) = dir(j - 1) /\ dir(j - 1) = FindIn(tree, f[j - 1])
    BY <1>9, <1>10, <2>1, EnterDefined
  <2>5. f[j].target = TmpfsLookup(tree, dir(j - 1), comps[j])
    <3> HIDE DEF dir
    <3> QED
      BY <2>2, <2>3, <2>4, FindStep
  <2> QED
    BY <1>2, <1>10, <2>1, <2>2, <2>5
<1>13. \A j \in 1..k : j - 1 \in 0..k /\ j \in 0..k
  BY <1>8
<1>14. D \in [0..k -> Vnodes(tree)] /\ D[0] = tree.root
  BY <1>8, <1>9
<1> HIDE DEF D, dir
<1>15. Chain(tree, D, comps, k) /\ Leads(tree, D, comps, k)
  BY <1>7, <1>12, <1>13, <1>14 DEF Chain, Leads
<1>16. k \in 0..k
  BY <1>8
<1>17. TmpfsLookup(tree, dir(k), comps[k + 1]) = None
  BY <1>2, <1>3, <1>8, <1>11, <1>16
<1> QED
  BY <1>2, <1>7, <1>8, <1>10, <1>15, <1>16, <1>17 DEF comps, k

(* open with O_CREAT makes it, and the search finds it again (vfs_open,    *)
(* vfs.c:131-159).                                                         *)
LEMMA CreatableIsMade ==
  ASSUME tree \in TreeType, Shape(tree), NEW path \in Text, WellFormed(path), Creatable(path),
         ~Lookup(tree, path).ok
  PROVE  LET o == OpenCreate(tree, path, 0) IN
         /\ o.ok
         /\ o.vnode \notin Vnodes(tree)
         /\ Lookup(o.tree, path) = [ok |-> TRUE, target |-> o.vnode]
         /\ ~IsDir(o.tree, o.vnode)
         /\ o.tree.node[o.vnode].len = 0
<1> DEFINE comps == SearchComps(path)
           N == Len(comps)
           k == Longest(comps)
           target == Lookup(tree, path).target
           made == CreatePath(tree, tree.root, path, 0, target)
           u == made.tree
           x == made.target
           o == OpenCreate(tree, path, 0)
           s == MakeFile(u, x)
<1>1. comps \in Text /\ N \in Nat /\ Blank \notin ToSet(comps)
  BY SearchCompsType DEF Text, Creatable, Clean
<1>19. comps \in Seq(Names)
  BY <1>1, SearchCompsType, ComponentsWithoutBlank
<1>2. path # <<Slash>> /\ Target(tree, target) /\ tree.root \in Vnodes(tree)
  BY LookupResult, ShapeParts
<1>3. PICK D : /\ k \in Nat /\ k < N
               /\ Chain(tree, D, comps, k)
               /\ Leads(tree, D, comps, k)
               /\ tree.node[D[k]].mount = None
               /\ IsDir(tree, D[k]) /\ ~Refuses(tree, D[k]) /\ tree.node[D[k]].len < MaxEntry
               /\ TmpfsLookup(tree, D[k], comps[k + 1]) = None
  BY CreatableChain
<1>4. PICK q : Skims(q, Split(path), comps, N)
  <2>1. PICK c : Counts(c, path)
    BY CountsExist
  <2>2. Spells(comps, path, c)
    BY <1>1, <2>1, SearchSpells
  <2> QED
    BY <2>2, SplitSkims
<1>5. D[0] = tree.root
  BY <1>3 DEF Leads
<1>6. PICK E : Sprouts(tree, D, comps, k, u, E, N) /\ x = E[N]
  <2> HIDE DEF comps, k, target
  <2> QED
    BY <1>1, <1>2, <1>3, <1>4, <1>5, <1>19, PathMade
<1> HIDE DEF made, k
<1>7. /\ Grown(tree, u) /\ u \in TreeType /\ Shape(u) /\ Chain(u, E, comps, N)
      /\ x \in Vnodes(u) /\ x \notin Vnodes(tree) /\ E[0] = tree.root
      /\ u.node[x] = NewVnode(comps[N], "DIR", tree.node[D[k]].fs)
      /\ u.root = tree.root
  <2>1. Grown(tree, u) /\ Chain(u, E, comps, N)
    BY <1>6 DEF Sprouts
  <2>2. N \in 0..N /\ 0 \in 0..k /\ N \in k + 1..N
    BY <1>1, <1>3
  <2>3. E[N] \in Vnodes(u)
    BY <2>1, <2>2 DEF Chain
  <2>4. E[0] = D[0] /\ x \notin Vnodes(tree)
    BY <1>6, <2>2 DEF Sprouts
  <2>5. u.node[x] = NewVnode(comps[N], "DIR", tree.node[D[k]].fs)
    BY <1>6 DEF Sprouts
  <2> QED
    BY <1>5, <1>6, <2>1, <2>3, <2>4, <2>5 DEF Grown
<1>8. x # None
  BY <1>7, TreeFacts DEF None
<1>9. o = [tree |-> s, ok |-> TRUE, vnode |-> x, null |-> FALSE]
  BY <1>8 DEF OpenCreate, made
<1> HIDE DEF u, x, o
<1>10. /\ Written(u, s, x, FileOf(u.node[x])) /\ s \in TreeType /\ Shape(s)
       /\ u.node[x] \in VnodeType
  BY <1>7, MakeFileWrites, TreeFacts
<1> HIDE DEF s
<1>11. s.node[x] = FileOf(u.node[x]) /\ (\A v \in Vnodes(u) : v # x => s.node[v] = u.node[v])
       /\ Vnodes(s) = Vnodes(u) /\ s.root = u.root
  BY <1>10 DEF Written, OthersStay
<1>12. \A v \in Vnodes(u) : s.node[v].name = u.node[v].name /\ s.node[v].mount = u.node[v].mount
  BY <1>10, <1>11, FileOfType
<1>13. s.node[x].type = "FILE" /\ s.node[x].len = 0
  BY <1>7, <1>11 DEF FileOf, NewVnode
<1>14. Leads(s, E, comps, N)
  <2>1. E \in [0..N -> Vnodes(s)] /\ E[0] = s.root
    BY <1>7, <1>11 DEF Chain
  <2>2. ASSUME NEW i \in 1..N
        PROVE  /\ IsDir(s, E[i - 1]) /\ s.node[E[i - 1]].mount = None
               /\ TmpfsLookup(s, E[i - 1], comps[i]) = E[i]
    <3> DEFINE d == E[i - 1]
    <3>1. i - 1 \in 0..N /\ i - 1 \in 0..N - 1
      BY <1>1
    <3>2. d \in Vnodes(u) /\ IsDir(u, d) /\ TmpfsLookup(u, d, comps[i]) = E[i]
      BY <1>7, <3>1 DEF Chain
    <3>3. d # x
      BY <1>6, <3>1 DEF Sprouts
    <3>4. u.node[d].mount = None
      <4>1. CASE i - 1 \in 0..k
        <5>1. d = D[i - 1]
          BY <1>6, <4>1 DEF Sprouts
        <5>2. D[i - 1] \in Vnodes(tree) /\ tree.node[D[i - 1]].mount = None
          <6>1. CASE i - 1 = k
            BY <1>3, <4>1, <6>1 DEF Leads
          <6>2. CASE i - 1 # k
            <7>1. i \in 1..k
              BY <1>3, <4>1, <6>2
            <7> QED
              BY <1>3, <4>1, <7>1 DEF Leads
          <6> QED
            BY <6>1, <6>2
        <5>3. Stays(tree, u, d)
          BY <1>7, <5>1, <5>2 DEF Grown
        <5> QED
          BY <5>1, <5>2, <5>3 DEF Stays
      <4>2. CASE i - 1 \in k + 1..N
        <5>1. d \notin Vnodes(tree)
          BY <1>6, <4>2 DEF Sprouts
        <5> QED
          BY <1>6, <3>2, <5>1 DEF Sprouts
      <4> QED
        BY <1>1, <1>3, <3>1, <4>1, <4>2
    <3> HIDE DEF d
    <3>5. s.node[d] = u.node[d]
      BY <1>11, <3>2, <3>3
    <3>6. TmpfsLookup(s, d, comps[i]) = TmpfsLookup(u, d, comps[i])
      BY <1>7, <1>12, <3>2, <3>5, LookupSame
    <3>7. IsDir(s, d) /\ s.node[d].mount = None /\ TmpfsLookup(s, d, comps[i]) = E[i]
      BY <3>2, <3>4, <3>5, <3>6 DEF IsDir
    <3> QED
      BY <3>7 DEF d
  <2> QED
    BY <2>1, <2>2 DEF Leads
<1>15. Found(s, comps)[N] = [ok |-> TRUE, target |-> x]
  <2>1. N \in 1..N
    BY <1>1, <1>3
  <2> QED
    BY <1>1, <1>6, <1>10, <1>14, <2>1, LeadsFound
<1>16. Lookup(s, path) = [ok |-> TRUE, target |-> x]
  BY <1>2, <1>15 DEF Lookup, Search
<1>17. ~IsDir(s, x)
  BY <1>13 DEF IsDir
<1>18. o.tree = s /\ o.ok /\ o.vnode = x
  BY <1>9
<1> QED
  BY <1>7, <1>13, <1>16, <1>17, <1>18 DEF o

(* The path that to_abs_path puts together has a slash before each name    *)
(* (vfs.c:287-291).                                                        *)
LEMMA JoinWellFormed ==
  ASSUME NEW comps \in Seq(Names)
  PROVE  WellFormed(Join(comps))
<1> DEFINE N == Len(comps)
<1>1. comps \in Text /\ N \in Nat /\ \A n \in 1..N : comps[n] \in Names
  <2>1. Names \subseteq Tokens
    BY DEF Names
  <2> QED
    BY <2>1 DEF Text
<1>2. PICK f : /\ f[0] = <<>>
               /\ \A n \in 1..N : f[n] = f[n - 1] \o <<Slash, comps[n]>>
               /\ \A n \in 0..N : f[n] \in Text
               /\ Join(comps) = f[N]
  BY <1>1, JoinSteps
<1> DEFINE Good(t) == /\ \A i \in 1..Len(t) : t[i] # Blank
                      /\ \A i \in 1..Len(t) - 1 : t[i] = Slash \/ t[i + 1] = Slash
           T == {n \in 0..N : Good(f[n])}
<1>3. 0 \in T
  BY <1>1, <1>2
<1>4. ASSUME NEW n \in 1..N, n - 1 \in T PROVE n \in T
  <2> DEFINE v == f[n - 1]
             w == v \o <<Slash, comps[n]>>
  <2>1. v \in Text /\ Good(v) /\ f[n] = w /\ n \in 0..N
    <3>1. n - 1 \in 0..N
      BY <1>1
    <3> QED
      BY <1>2, <1>4, <3>1
  <2>2. comps[n] # Blank
    BY <1>1 DEF Names
  <2> HIDE DEF v
  <2>3. /\ Len(v) \in Nat /\ Len(w) = Len(v) + 2
        /\ \A i \in 1..Len(v) : w[i] = v[i]
        /\ w[Len(v) + 1] = Slash /\ w[Len(v) + 2] = comps[n]
    BY <1>1, <2>1, SpecialTokens DEF Text, Names
  <2> HIDE DEF w
  <2>4. \A i \in 1..Len(w) : i \in 1..Len(v) \/ i = Len(v) + 1 \/ i = Len(v) + 2
    BY <2>3
  <2>5. \A i \in 1..Len(w) : w[i] # Blank
    BY <2>1, <2>2, <2>3, <2>4 DEF Slash, Blank
  <2>6. ASSUME NEW i \in 1..Len(w) - 1 PROVE w[i] = Slash \/ w[i + 1] = Slash
    <3>1. CASE i < Len(v)
      <4>1. i \in 1..Len(v) - 1 /\ i \in 1..Len(v) /\ i + 1 \in 1..Len(v)
        BY <2>3, <3>1
      <4> QED
        BY <2>1, <2>3, <4>1
    <3>2. CASE i = Len(v) \/ i = Len(v) + 1
      BY <2>3, <3>2
    <3> QED
      BY <2>3, <3>1, <3>2
  <2>7. Good(w)
    BY <2>5, <2>6
  <2> HIDE DEF Good
  <2> QED
    BY <2>1, <2>7
<1> HIDE DEF T
<1>5. 0..N \subseteq T
  BY <1>1, <1>3, <1>4, UpTo
<1>6. Good(f[N]) /\ f[N] \in Text
  BY <1>1, <1>2, <1>5 DEF T
<1>7. Blank \notin ToSet(f[N])
  <2>1. DOMAIN f[N] = 1..Len(f[N])
    BY <1>6 DEF Text
  <2> QED
    BY <1>6, <2>1, SetOf
<1> QED
  BY <1>2, <1>6, <1>7 DEF WellFormed

(* So to_abs_path makes a text that is well formed again (vfs.c:246-293).  *)
LEMMA AbsPathWellFormed ==
  ASSUME NEW dir \in Text, NEW text \in Text, WellFormed(text)
  PROVE  WellFormed(AbsPath(dir, text))
<1>1. dir \o text \in Text
  BY DEF Text
<1>2. AtZero \in Names
  BY PathAssumption DEF Names
<1>3. Translate(Split(dir \o text)) \in Seq(Names)
  <2>1. Split(dir \o text) \in Seq(Names \cup {Blank})
    BY <1>1, SplitNames DEF Components
  <2> HIDE DEF Names
  <2> QED
    BY <1>2, <2>1, TranslateType
<1>4. WellFormed(Join(Translate(Split(dir \o text))))
  BY <1>3, JoinWellFormed
<1>5. WellFormed(<<>>)
  <2>1. DOMAIN <<>> = {} /\ Len(<<>>) = 0
    OBVIOUS
  <2>2. Blank \notin ToSet(<<>>)
    BY <2>1, SetOf
  <2> QED
    BY <2>1, <2>2 DEF WellFormed
<1> QED
  BY <1>4, <1>5 DEF AbsPath

(* What open(O_CREAT) makes is found again at the same path, and is an     *)
(* empty file of its own, if its loop starts at the first component        *)
(* (lookup_path, vfs.c:91-118, vfs_open, vfs.c:131-159).                   *)
THEOREM CreatedFound ==
  ASSUME Skips = {0}
  PROVE  Spec => []CreatedIsFound
<1>1. TreeIInv => CreatedIsFound
  <2> SUFFICES ASSUME TreeIInv, NEW text \in Texts, NEW path \in PathsOf(text),
                      ~Lookup(tree, path).ok, Creatable(path)
               PROVE  LET o == OpenCreate(tree, path, 0) IN
                      /\ o.ok
                      /\ o.vnode \notin Vnodes(tree)
                      /\ Lookup(o.tree, path) = [ok |-> TRUE, target |-> o.vnode]
                      /\ ~IsDir(o.tree, o.vnode)
                      /\ o.tree.node[o.vnode].len = 0
    BY DEF CreatedIsFound
  <2>1. tree \in TreeType /\ Shape(tree) /\ cwd \in Text
    BY DEF TreeIInv
  <2>2. text \in Text /\ WellFormed(text)
    BY PathTexts, FileSystemAssumption
  <2>3. path \in Text
    BY <2>1, <2>2, PathsOfTexts
  <2>4. WellFormed(path)
    BY <2>1, <2>2, AbsPathWellFormed DEF PathsOf
  <2> QED
    BY <2>1, <2>3, <2>4, CreatableIsMade
<1> QED
  BY <1>1, TreeInductive, PTL

(* The path that to_abs_path puts together: slashes and names in turn      *)
(* (vfs.c:287-291).                                                        *)
LEMMA JoinForm ==
  ASSUME NEW names \in Seq(Names)
  PROVE  /\ Join(names) \in Text
         /\ Len(Join(names)) = 2 * Len(names)
         /\ \A i \in 1..Len(names) : Join(names)[2 * i - 1] = Slash /\ Join(names)[2 * i] = names[i]
<1> DEFINE N == Len(names)
<1>1. names \in Text /\ N \in Nat /\ \A n \in 1..N : names[n] \in Tokens
  BY NamesAreText DEF Names
<1>2. PICK f : /\ f[0] = <<>>
               /\ \A n \in 1..N : f[n] = f[n - 1] \o <<Slash, names[n]>>
               /\ \A n \in 0..N : f[n] \in Text
               /\ Join(names) = f[N]
  BY <1>1, JoinSteps
<1> DEFINE Formed(t, n) == Len(t) = 2 * n /\ \A i \in 1..n : t[2 * i - 1] = Slash /\ t[2 * i] = names[i]
           T == {n \in 0..N : Formed(f[n], n)}
<1>3. 0 \in T
  BY <1>1, <1>2
<1>4. ASSUME NEW n \in 1..N, n - 1 \in T PROVE n \in T
  <2> DEFINE v == f[n - 1]
             w == v \o <<Slash, names[n]>>
  <2>1. v \in Text /\ Formed(v, n - 1) /\ f[n] = w /\ n \in 0..N
    <3>1. n - 1 \in 0..N
      BY <1>1
    <3> QED
      BY <1>2, <1>4, <3>1
  <2> HIDE DEF v
  <2>2. /\ Len(v) = 2 * (n - 1) /\ Len(w) = Len(v) + 2
        /\ \A i \in 1..Len(v) : w[i] = v[i]
        /\ w[Len(v) + 1] = Slash /\ w[Len(v) + 2] = names[n]
    BY <1>1, <2>1, SpecialTokens DEF Text
  <2> HIDE DEF w
  <2>3. Len(w) = 2 * n
    BY <1>1, <2>2
  <2>4. ASSUME NEW i \in 1..n PROVE w[2 * i - 1] = Slash /\ w[2 * i] = names[i]
    <3>1. CASE i = n
      <4>1. 2 * i - 1 = Len(v) + 1 /\ 2 * i = Len(v) + 2
        BY <1>1, <2>2, <3>1
      <4> QED
        BY <2>2, <3>1, <4>1
    <3>2. CASE i # n
      <4>1. i \in 1..n - 1 /\ 2 * i - 1 \in 1..Len(v) /\ 2 * i \in 1..Len(v)
        BY <1>1, <2>2, <3>2
      <4> QED
        BY <2>1, <2>2, <4>1
    <3> QED
      BY <3>1, <3>2
  <2>5. Formed(w, n)
    BY <2>3, <2>4
  <2> HIDE DEF Formed
  <2> QED
    BY <2>1, <2>5
<1> HIDE DEF T
<1>5. 0..N \subseteq T
  BY <1>1, <1>3, <1>4, UpTo
<1>6. N \in T /\ f[N] \in Text
  BY <1>1, <1>2, <1>5
<1> QED
  BY <1>2, <1>6 DEF T

(* The search takes it apart again (vfs.c:198-219).                        *)
LEMMA JoinSearched ==
  ASSUME NEW names \in Seq(Names), names # <<>>
  PROVE  SearchComps(Join(names)) = names
<1> DEFINE N == Len(names)
           J == Join(names)
           place(i) == IF i = 1 THEN 1 ELSE 2 * i
           g(i) == SearchFrom(J)[place(i)]
           Right(i) == Len(g(i)) = N - i + 1 /\ \A m \in 1..N - i + 1 : g(i)[m] = names[i + m - 1]
           T == {k \in 0..N - 1 : Right(N - k)}
<1>1. N \in Nat \ {0} /\ \A i \in 1..N : names[i] \in Names /\ names[i] # Slash
  BY NamesAreText DEF Names
<1>2. /\ J \in Text /\ Len(J) = 2 * N /\ DOMAIN J = 1..2 * N
      /\ \A i \in 1..N : J[2 * i - 1] = Slash /\ J[2 * i] = names[i]
  BY <1>1, JoinForm DEF Text
<1> HIDE DEF J
<1>3. ASSUME NEW i \in 1..N
      PROVE  /\ place(i) \in 1..Len(J) + 1
             /\ g(i) \in Components
             /\ g(i) = <<names[i]>> \o (IF i < N THEN g(i + 1) ELSE <<>>)
  <2> DEFINE p == place(i)
             rest == RestAt(J, p)
  <2>1. p \in 1..Len(J) + 1 /\ 2 * i \in DOMAIN J /\ J[2 * i] # Slash /\ J[2 * i] = names[i]
    BY <1>1, <1>2
  <2>2. FirstAt(J, p) = 2 * i
    <3>1. CASE i = 1
      <4>1. 2 * i - 1 = 1 /\ 2 * i = 2 /\ 1 \in DOMAIN J
        BY <1>1, <1>2, <3>1
      <4>2. J[1] = Slash
        BY <1>2, <3>1, <4>1
      <4> QED
        BY <3>1, <4>1, <4>2 DEF FirstAt
    <3>2. CASE i # 1
      BY <2>1, <3>2 DEF FirstAt
    <3> QED
      BY <3>1, <3>2
  <2> HIDE DEF p
  <2>3. EndAt(J, p) = 2 * i + 1 /\ NameAt(J, p) = names[i]
    BY <2>1, <2>2 DEF EndAt, NameAt
  <2>4. CASE i < N
    <3>1. i + 1 \in 1..N /\ 2 * (i + 1) - 1 = 2 * i + 1 /\ 2 * i + 1 \in DOMAIN J
      BY <1>1, <1>2, <2>4
    <3>2. J[2 * i + 1] = Slash
      BY <1>2, <3>1
    <3>3. rest = 2 * i + 2
      BY <2>3, <3>1, <3>2 DEF RestAt
    <3>4. rest = place(i + 1) /\ rest \in DOMAIN J
      BY <1>1, <1>2, <2>4, <3>3
    <3> HIDE DEF rest, place
    <3> QED
      BY <1>2, <2>1, <2>3, <2>4, <3>4, SearchFromDefined DEF rest, p
  <2>5. CASE ~(i < N)
    <3>1. 2 * i + 1 \notin DOMAIN J
      BY <1>1, <1>2, <2>5
    <3>2. rest \notin DOMAIN J
      BY <2>3, <3>1 DEF RestAt
    <3> HIDE DEF rest, place
    <3> QED
      BY <1>2, <2>1, <2>3, <2>5, <3>2, SearchFromDefined DEF rest, p
  <2> QED
    BY <2>4, <2>5
<1> HIDE DEF g
<1>4. 0 \in T
  <2>1. N - 0 = N /\ N \in 1..N /\ ~(N < N)
    BY <1>1
  <2>2. g(N) = <<names[N]>> \o <<>>
    BY <1>3, <2>1
  <2>3. Right(N)
    BY <1>1, <2>2
  <2> QED
    BY <1>1, <2>1, <2>3
<1>5. ASSUME NEW k \in 1..N - 1, k - 1 \in T PROVE k \in T
  <2> DEFINE i == N - k
  <2>1. i \in 1..N /\ i + 1 \in 1..N /\ i < N /\ N - (k - 1) = i + 1 /\ k \in 0..N - 1
    BY <1>1
  <2>2. Right(i + 1)
    BY <1>5, <2>1
  <2> HIDE DEF i
  <2>3. g(i) = <<names[i]>> \o g(i + 1) /\ g(i + 1) \in Components
    BY <1>3, <2>1
  <2>4. /\ Len(g(i)) = 1 + Len(g(i + 1)) /\ g(i)[1] = names[i]
        /\ \A m \in 1..Len(g(i + 1)) : g(i)[1 + m] = g(i + 1)[m]
    <3> HIDE DEF Right
    <3> QED
      BY <2>3 DEF Components
  <2>5. Len(g(i)) = N - i + 1
    <3>1. Len(g(i + 1)) = N - (i + 1) + 1 /\ Len(g(i)) = 1 + Len(g(i + 1))
      BY <2>2, <2>4
    <3>2. i \in Int /\ N \in Int
      BY <1>1, <2>1
    <3> QED
      BY <3>1, <3>2
  <2>6. ASSUME NEW m \in 1..N - i + 1 PROVE g(i)[m] = names[i + m - 1]
    <3>1. CASE m = 1
      BY <2>1, <2>4, <3>1
    <3>2. CASE m # 1
      <4>1. m - 1 \in 1..N - (i + 1) + 1 /\ 1 + (m - 1) = m /\ (i + 1) + (m - 1) - 1 = i + m - 1
        BY <1>1, <2>1, <3>2
      <4>2. g(i)[1 + (m - 1)] = g(i + 1)[m - 1]
        BY <2>2, <2>4, <4>1
      <4>3. g(i + 1)[m - 1] = names[(i + 1) + (m - 1) - 1]
        BY <2>2, <4>1
      <4> QED
        BY <4>1, <4>2, <4>3
    <3> QED
      BY <3>1, <3>2
  <2>7. Right(i)
    BY <2>5, <2>6
  <2> QED
    BY <2>1, <2>7 DEF i
<1>6. Right(1)
  <2>1. N - 1 \in 0..N - 1 /\ N - (N - 1) = 1 /\ N - 1 \in Nat
    BY <1>1
  <2>2. 0..N - 1 \subseteq T
    <3> HIDE DEF T
    <3> QED
      BY <1>4, <1>5, <2>1, UpTo
  <2> QED
    BY <2>1, <2>2
<1>7. SearchComps(J) = g(1)
  BY <1>2, SearchFromDefined DEF g
<1>8. Len(g(1)) = N /\ g(1) \in Components /\ \A m \in 1..N : g(1)[m] = names[m]
  <2>1. N - 1 + 1 = N /\ 1 \in 1..N /\ \A m \in 1..N : 1 + m - 1 = m
    BY <1>1
  <2>2. g(1) \in Components
    BY <1>3, <2>1
  <2> QED
    BY <1>6, <2>1, <2>2
<1>9. g(1) = names
  BY <1>1, <1>8 DEF Components
<1> QED
  BY <1>7, <1>9 DEF J

(* Without "." and ".." the stack of to_abs_path only grows, by what is    *)
(* not blank (vfs.c:266-285).                                              *)
LEMMA TranslateSkims ==
  ASSUME NEW comps \in Seq((Names \ {CurrentDir, ParentDir}) \cup {Blank}), NEW names \in Seq(Names),
         NEW q, Skims(q, comps, names, Len(names)), comps # <<>>, Last(comps) # Blank
  PROVE  Translate(comps) = names
<1> DEFINE N == Len(comps)
           P == Names \ {CurrentDir, ParentDir}
<1>1. N \in Nat \ {0} /\ (\A n \in 1..N : comps[n] = Blank \/ comps[n] \in P) /\ Last(comps) = comps[N]
  BY DEF Last
<1>2. PICK f : /\ f[0] = <<>>
               /\ \A n \in 1..N : f[n] = Push(f[n - 1], comps[n])
               /\ \A n \in 0..N : f[n] \in Seq(P)
               /\ Translate(comps) = IF Last(comps) \in {Blank, CurrentDir} THEN Append(f[N], AtZero) ELSE f[N]
  <2> HIDE DEF P
  <2>1. comps \in Seq(P \cup {Blank})
    BY DEF P
  <2> QED
    BY <2>1, TranslateSteps
<1>3. /\ \A m \in 0..N : q[m] \in Nat
      /\ q[0] = 0 /\ q[N] = Len(names)
      /\ \A m \in 1..N : IF comps[m] = Blank THEN q[m] = q[m - 1]
                         ELSE q[m] = q[m - 1] + 1 /\ names[q[m]] = comps[m]
  BY DEF Skims
<1> DEFINE Right(s, k) == Len(s) = k /\ \A i \in 1..k : s[i] = names[i]
           T == {n \in 0..N : Right(f[n], q[n])}
<1>4. 0 \in T
  BY <1>1, <1>2, <1>3
<1>5. ASSUME NEW n \in 1..N, n - 1 \in T PROVE n \in T
  <2> DEFINE v == f[n - 1]
             k == q[n - 1]
  <2>1. v \in Seq(P) /\ Right(v, k) /\ f[n] = Push(v, comps[n]) /\ n \in 0..N /\ k \in Nat
    <3>1. n - 1 \in 0..N
      BY <1>1
    <3> QED
      BY <1>2, <1>3, <1>5, <3>1
  <2> HIDE DEF v
  <2>2. CASE comps[n] = Blank
    <3>1. f[n] = v
      BY <2>1, <2>2 DEF Push, Blank, ParentDir
    <3>2. q[n] = k
      BY <1>3, <2>2
    <3> HIDE DEF k, Right
    <3> QED
      BY <2>1, <3>1, <3>2
  <2>3. CASE comps[n] # Blank
    <3>1. comps[n] \notin {Blank, CurrentDir} /\ comps[n] # ParentDir
      BY <1>1, <2>3
    <3>2. f[n] = Append(v, comps[n])
      BY <2>1, <3>1 DEF Push
    <3>3. q[n] = k + 1 /\ names[q[n]] = comps[n]
      BY <1>3, <2>3
    <3> HIDE DEF k
    <3>4. /\ Len(f[n]) = Len(v) + 1 /\ f[n][Len(v) + 1] = comps[n]
          /\ \A i \in 1..Len(v) : f[n][i] = v[i]
      BY <2>1, <3>2
    <3>5. ASSUME NEW i \in 1..k + 1 PROVE f[n][i] = names[i]
      <4>1. CASE i = k + 1
        BY <2>1, <3>3, <3>4, <4>1
      <4>2. CASE i # k + 1
        <5>1. i \in 1..k
          BY <2>1, <4>2
        <5> QED
          BY <2>1, <3>4, <5>1
      <4> QED
        BY <4>1, <4>2
    <3>6. Right(f[n], k + 1)
      BY <2>1, <3>4, <3>5
    <3> HIDE DEF Right
    <3> QED
      BY <2>1, <3>3, <3>6
  <2> QED
    BY <2>2, <2>3
<1>6. N \in T
  <2>1. N \in 0..N
    BY <1>1
  <2> HIDE DEF T
  <2> QED
    BY <1>1, <1>4, <1>5, <2>1, UpTo
<1>7. Translate(comps) = f[N]
  <2>1. Last(comps) # CurrentDir
    BY <1>1
  <2> QED
    BY <1>2, <2>1
<1>8. f[N] = names
  <2>1. N \in 0..N /\ f[N] \in Seq(P)
    BY <1>1, <1>2
  <2> HIDE DEF P
  <2>2. Len(f[N]) = Len(names) /\ \A i \in 1..Len(names) : f[N][i] = names[i]
    BY <1>3, <1>6
  <2> QED
    BY <2>1, <2>2
<1> QED
  BY <1>7, <1>8

(* What is behind a text with its slash is one name more.                  *)
LEMMA SpellsOneMore ==
  ASSUME NEW text \in Text, NEW names \in Seq(Names), NEW c, Spells(names, text, c), NEW name \in Names
  PROVE  \E d : Spells(Append(names, name), Append(text, name), d)
<1> DEFINE N == Len(text)
           more == Append(text, name)
           all == Append(names, name)
           d == [n \in 0..N + 1 |-> IF n = N + 1 THEN c[N] + 1 ELSE c[n]]
<1>1. /\ N \in Nat /\ Len(more) = N + 1 /\ more[N + 1] = name /\ name # Slash
      /\ \A n \in 1..N : more[n] = text[n]
  BY DEF Text, Names
<1>2. /\ Len(names) \in Nat /\ Len(all) = Len(names) + 1 /\ all[Len(names) + 1] = name
      /\ \A n \in 1..Len(names) : all[n] = names[n]
  OBVIOUS
<1>3. /\ c[0] = 0 /\ \A n \in 0..N : c[n] \in Nat
      /\ \A n \in 1..N : c[n] = c[n - 1] + IF text[n] = Slash THEN 0 ELSE 1
      /\ Len(names) = c[N]
      /\ \A n \in 1..N : text[n] # Slash => c[n] \in 1..Len(names) /\ names[c[n]] = text[n]
  <2>1. /\ c \in [0..N -> Nat] /\ c[0] = 0
        /\ \A n \in 1..N : c[n] = c[n - 1] + IF text[n] = Slash THEN 0 ELSE 1
    BY DEF Spells, Counts
  <2>2. /\ Len(names) = c[N] - c[1 - 1]
        /\ \A n \in 1..N : text[n] # Slash => c[n] - c[1 - 1] \in 1..Len(names) /\ names[c[n] - c[1 - 1]] = text[n]
    BY DEF Spells, SpellsFrom
  <2>3. 1 - 1 = 0 /\ \A n \in 0..N : c[n] \in Nat /\ c[n] - 0 = c[n]
    BY <1>1, <2>1
  <2>4. \A n \in 1..N : n \in 0..N
    BY <1>1
  <2>5. N \in 0..N
    BY <1>1
  <2> QED
    BY <2>1, <2>2, <2>3, <2>4, <2>5
<1>4. more \in Text /\ all \in Text
  <2>1. name \in Tokens /\ names \in Text
    BY NamesAreText DEF Names
  <2> QED
    BY <2>1 DEF Text
<1> HIDE DEF more, all
<1>5. d[0] = 0 /\ d[N + 1] = c[N] + 1 /\ (\A n \in 0..N : d[n] = c[n]) /\ d \in [0..N + 1 -> Nat]
  BY <1>1, <1>3
<1> HIDE DEF d
<1>6. Counts(d, more)
  <2>1. ASSUME NEW n \in 1..N + 1 PROVE d[n] = d[n - 1] + IF more[n] = Slash THEN 0 ELSE 1
    <3>1. CASE n = N + 1
      <4>1. n - 1 = N /\ N \in 0..N
        BY <1>1, <3>1
      <4> QED
        BY <1>1, <1>5, <3>1, <4>1
    <3>2. CASE n # N + 1
      <4>1. n \in 1..N /\ n \in 0..N /\ n - 1 \in 0..N
        BY <1>1, <3>2
      <4> QED
        BY <1>1, <1>3, <1>5, <4>1
    <3> QED
      BY <3>1, <3>2
  <2> QED
    BY <1>1, <1>5, <2>1 DEF Counts
<1>7. SpellsFrom(all, more, d, 1)
  <2>1. Len(all) = d[N + 1] - d[0]
    BY <1>2, <1>3, <1>5
  <2>2. ASSUME NEW n \in 1..N + 1, more[n] # Slash
        PROVE  d[n] - d[0] \in 1..Len(all) /\ all[d[n] - d[0]] = more[n]
    <3>1. CASE n = N + 1
      <4>1. d[n] - d[0] = Len(names) + 1
        BY <1>2, <1>3, <1>5, <3>1
      <4> QED
        BY <1>1, <1>2, <3>1, <4>1
    <3>2. CASE n # N + 1
      <4>1. n \in 1..N /\ n \in 0..N
        BY <1>1, <3>2
      <4>2. d[n] - d[0] = c[n] /\ text[n] # Slash /\ more[n] = text[n]
        BY <1>1, <1>3, <1>5, <2>2, <4>1
      <4>3. c[n] \in 1..Len(names) /\ names[c[n]] = text[n]
        BY <1>3, <4>1, <4>2
      <4> QED
        BY <1>2, <4>2, <4>3
    <3> QED
      BY <3>1, <3>2
  <2>3. 1 - 1 = 0
    OBVIOUS
  <2> QED
    BY <1>1, <1>4, <2>1, <2>2, <2>3 DEF SpellsFrom
<1> QED
  BY <1>6, <1>7 DEF Spells, more, all

(* A path that is found has no blank component: no entry has that name     *)
(* (lookup_path, vfs.c:77-119, tmpfs_lookup, tmpfs.c:173-187).             *)
LEMMA FoundIsClean ==
  ASSUME NEW t \in TreeType, Shape(t), NEW path \in Text, path # <<Slash>>, Lookup(t, path).ok
  PROVE  Blank \notin ToSet(SearchComps(path))
<1> DEFINE comps == SearchComps(path)
           f == Found(t, comps)
<1>1. comps \in Text /\ Len(comps) \in Nat /\ DOMAIN comps = 1..Len(comps)
  BY SearchCompsType DEF Text
<1>2. f[Len(comps)].ok
  BY LookupResult
<1>3. /\ \A n \in 1..Len(comps) : f[n] = FindComponent(t, f[n - 1], comps[n])
      /\ \A n \in 0..Len(comps) : f[n] \in Findings(t)
  BY <1>1, FoundDefined DEF Text
<1>4. \A n \in 0..Len(comps) : f[n].ok
  <2>1. Len(comps) \in 0..Len(comps)
    BY <1>1
  <2> QED
    BY <1>1, <1>2, <2>1, FoundBefore
<1> HIDE DEF f, comps
<1>5. ASSUME NEW n \in 1..Len(comps) PROVE comps[n] # Blank
  <2> DEFINE before == f[n - 1]
             dir == Enter(t, FindIn(t, before))
             i == EntryAt(t, dir, comps[n])
  <2>1. n \in 0..Len(comps) /\ n - 1 \in 0..Len(comps)
    BY <1>1
  <2>2. before \in Findings(t) /\ FindComponent(t, before, comps[n]).ok
    BY <1>3, <1>4, <2>1
  <2> HIDE DEF before
  <2>3. dir \in Vnodes(t) /\ TmpfsLookup(t, dir, comps[n]) # None
    BY <2>2, FindStep
  <2> HIDE DEF dir
  <2>4. IsDir(t, dir) /\ i \in DOMAIN t.node[dir].entries /\ t.node[t.node[dir].entries[i]].name = comps[n]
    BY <2>3, LookupFinds
  <2>5. DirShape(t, t.node[dir])
    BY <2>3, <2>4, ShapeParts
  <2> QED
    BY <2>4, <2>5 DEF DirShape
<1> QED
  BY <1>1, <1>5, SetOf DEF comps

(* The search finds the same on the way of a longer path (lookup_path,     *)
(* vfs.c:77-119).                                                          *)
LEMMA FoundOnTheWay ==
  ASSUME NEW t \in TreeType, Shape(t), NEW comps \in Text, NEW name \in Tokens
  PROVE  Found(t, Append(comps, name))[Len(comps)] = Found(t, comps)[Len(comps)]
<1> DEFINE N == Len(comps)
           more == Append(comps, name)
           f == Found(t, comps)
           g == Found(t, more)
           T == {n \in 0..N : g[n] = f[n]}
<1>1. N \in Nat /\ more \in Text /\ Len(more) = N + 1 /\ \A n \in 1..N : more[n] = comps[n]
  BY DEF Text
<1> HIDE DEF more
<1>2. f[0] = g[0] /\ (\A n \in 1..N : f[n] = FindComponent(t, f[n - 1], comps[n]))
      /\ \A n \in 1..N + 1 : g[n] = FindComponent(t, g[n - 1], more[n])
  BY <1>1, FoundDefined DEF Text
<1> HIDE DEF f, g
<1>3. 0 \in T
  BY <1>1, <1>2
<1>4. ASSUME NEW n \in 1..N, n - 1 \in T PROVE n \in T
  BY <1>1, <1>2, <1>4
<1>5. N \in T
  <2>1. N \in 0..N
    BY <1>1
  <2> HIDE DEF T
  <2> QED
    BY <1>1, <1>3, <1>4, <2>1, UpTo
<1> QED
  BY <1>5 DEF f, g, more

(* What a working directory looks like (sysc_chdir, exception.c:305-318).  *)
CwdForm(dir) ==
  /\ dir \in Text /\ dir # <<>>
  /\ WellFormed(dir)
  /\ dir[1] = Slash
  /\ Last(dir) = Slash

(* What begins with a slash and is found makes one.                        *)
LEMMA AppendSlash ==
  ASSUME NEW path \in Text, WellFormed(path), NEW name \in Tokens \ {Blank}, path = <<>> \/ Last(path) = Slash \/ name = Slash
  PROVE  WellFormed(Append(path, name))
<1> DEFINE N == Len(path)
           more == Append(path, name)
<1>1. /\ N \in Nat /\ Len(more) = N + 1 /\ more[N + 1] = name /\ DOMAIN more = 1..N + 1
      /\ DOMAIN path = 1..N /\ \A n \in 1..N : more[n] = path[n]
  BY DEF Text
<1>2. path = <<>> => N = 0
  OBVIOUS
<1>3. path # <<>> => Last(path) = path[N]
  BY DEF Last
<1> HIDE DEF more, N
<1>4. (\A n \in 1..N : path[n] # Blank) /\ \A n \in 1..N - 1 : path[n] = Slash \/ path[n + 1] = Slash
  BY <1>1, SetOf DEF WellFormed, N
<1>5. \A n \in 1..N + 1 : more[n] # Blank
  <2>1. \A n \in 1..N + 1 : n \in 1..N \/ n = N + 1
    BY <1>1
  <2> QED
    BY <1>1, <1>4, <2>1
<1>6. ASSUME NEW n \in 1..N PROVE more[n] = Slash \/ more[n + 1] = Slash
  <2>1. CASE n = N
    BY <1>1, <1>2, <1>3, <2>1
  <2>2. CASE n # N
    <3>1. n \in 1..N - 1 /\ n + 1 \in 1..N
      BY <1>1, <2>2
    <3> QED
      BY <1>1, <1>4, <3>1
  <2> QED
    BY <2>1, <2>2
<1>7. Blank \notin ToSet(more)
  BY <1>1, <1>5, SetOf
<1>8. Len(more) - 1 = N
  BY <1>1
<1> QED
  BY <1>6, <1>7, <1>8 DEF WellFormed, more

(* A path that is found begins with a slash, if to_abs_path has made it    *)
(* (vfs.c:246-293).                                                        *)
LEMMA FoundBegins ==
  ASSUME NEW t \in TreeType, Shape(t), NEW dir \in Text, NEW text \in Text,
         Lookup(t, AbsPath(dir, text)).ok
  PROVE  AbsPath(dir, text) # <<>> /\ AbsPath(dir, text)[1] = Slash
<1> DEFINE path == AbsPath(dir, text)
           names == Translate(Split(dir \o text))
<1>1. path \in Text
  BY AbsPathType
<1>2. path # <<>>
  <2> SUFFICES ASSUME path = <<>> PROVE FALSE
    OBVIOUS
  <2> HIDE DEF path
  <2>1. path # <<Slash>> /\ Len(path) = 0 /\ DOMAIN path = {} /\ 1 \in 1..Len(path) + 1
    OBVIOUS
  <2>2. NameAt(path, 1) = Blank /\ RestAt(path, 1) \notin DOMAIN path
    BY <2>1 DEF NameAt, FirstAt
  <2>3. SearchComps(path) = <<Blank>>
    <3>1. SearchComps(path) = <<Blank>> \o <<>>
      <4>1. SearchFrom(path)[1] =
              <<NameAt(path, 1)>> \o
              (IF RestAt(path, 1) \in DOMAIN path THEN SearchFrom(path)[RestAt(path, 1)] ELSE <<>>)
        BY <1>1, <2>1, SearchFromDefined
      <4>2. SearchComps(path) = SearchFrom(path)[1]
        BY <1>1, SearchFromDefined
      <4> QED
        BY <2>2, <4>1, <4>2, Zenon
    <3>2. <<Blank>> \o <<>> = <<Blank>>
      OBVIOUS
    <3> QED
      BY <3>1, <3>2
  <2>4. Blank \in ToSet(<<Blank>>)
    <3>1. 1 \in DOMAIN <<Blank>> /\ <<Blank>>[1] = Blank
      OBVIOUS
    <3> QED
      BY <3>1, SetOf
  <2>5. Blank \notin ToSet(SearchComps(path))
    BY <1>1, <2>1, FoundIsClean DEF path
  <2> QED
    BY <2>3, <2>4, <2>5
<1>3. CASE text # <<>> /\ text[1] = Slash
  BY <1>3 DEF AbsPath
<1>4. CASE path = Join(names)
  <2>1. dir \o text \in Text
    BY DEF Text
  <2>2. Split(dir \o text) \in Seq(Names \cup {Blank}) /\ AtZero \in Names
    BY <2>1, SplitNames, PathAssumption DEF Components, Names
  <2>3. names \in Seq(Names)
    <3> QED
      BY <2>2, TranslateType
  <2> HIDE DEF names, path
  <2>4. Len(path) = 2 * Len(names) /\ Len(names) \in Nat
    BY <1>4, <2>3, JoinForm
  <2>5. 1 \in 1..Len(names)
    BY <1>1, <1>2, <2>4 DEF Text
  <2>6. 2 * 1 - 1 = 1
    OBVIOUS
  <2>7. path[2 * 1 - 1] = Slash
    BY <1>4, <2>3, <2>5, JoinForm
  <2> QED
    BY <1>2, <2>6, <2>7 DEF path
<1>5. (path = text /\ text # <<>> /\ text[1] = Slash) \/ path = <<>> \/ path = Join(names)
  BY DEF AbsPath
<1> QED
  BY <1>2, <1>3, <1>4, <1>5

(* A task begins in "/" (task_create, scheduler.c:57).                     *)
LEMMA RootCwdForm == CwdForm(<<Slash>>)
<1> DEFINE dir == <<Slash>>
<1>1. dir \in Text /\ Len(dir) = 1 /\ dir[1] = Slash /\ DOMAIN dir = {1}
  BY SpecialTokens DEF Text
<1>2. dir # <<>> /\ Last(dir) = Slash
  BY <1>1 DEF Last
<1> HIDE DEF dir
<1>3. Blank \notin ToSet(dir)
  <2>1. Blank # Slash
    BY DEF Slash, Blank
  <2> QED
    BY <1>1, <2>1, SetOf
<1>4. WellFormed(dir)
  <2>1. Len(dir) - 1 = 0 /\ \A i \in 1..0 : FALSE
    BY <1>1
  <2> QED
    BY <1>3, <2>1 DEF WellFormed
<1> QED
  BY <1>1, <1>2, <1>4 DEF CwdForm, dir

(* chdir leads to what is found, with a slash behind it; the other calls   *)
(* leave cwd alone (sysc_chdir, exception.c:305-318).                      *)
LEMMA NextCwdForm ==
  ASSUME TreeIInv, CwdForm(cwd), Next
  PROVE  CwdForm(cwd')
<1>1. tree \in TreeType /\ Shape(tree) /\ cwd \in Text
  BY DEF TreeIInv
<1>2. CASE BootMount
  BY <1>2 DEF BootMount
<1>3. ASSUME NEW text \in Texts, MkdirCall(text) PROVE CwdForm(cwd')
  BY <1>3 DEF MkdirCall
<1>4. ASSUME NEW text \in Texts, OpenCall(text) PROVE CwdForm(cwd')
  BY <1>4 DEF OpenCall
<1>5. ASSUME NEW text \in Texts, WriteCall(text) PROVE CwdForm(cwd')
  BY <1>5 DEF WriteCall
<1>6. ASSUME NEW text \in MountTexts, MountCall(text) PROVE CwdForm(cwd')
  BY <1>6 DEF MountCall
<1>7. ASSUME NEW text \in ChdirTexts, ChdirCall(text) PROVE CwdForm(cwd')
  <2> DEFINE path == AbsPath(cwd, text)
  <2>1. text \in Text /\ WellFormed(text)
    BY PathTexts, FileSystemAssumption
  <2>2. path \in Text /\ WellFormed(path)
    BY <1>1, <2>1, AbsPathType, AbsPathWellFormed
  <2>3. path # <<>> /\ path[1] = Slash
    BY <1>1, <1>7, <2>1, FoundBegins DEF ChdirCall
  <2>4. cwd' = IF Last(path) = Slash THEN path ELSE Append(path, Slash)
    BY <1>7 DEF ChdirCall
  <2> HIDE DEF path
  <2>5. CASE Last(path) = Slash
    BY <2>2, <2>3, <2>4, <2>5 DEF CwdForm
  <2>6. CASE Last(path) # Slash
    <3> DEFINE more == Append(path, Slash)
    <3>1. Slash \in Tokens \ {Blank}
      BY SpecialTokens DEF Slash, Blank
    <3>2. WellFormed(more)
      BY <2>2, <3>1, AppendSlash
    <3>3. Len(path) \in Nat \ {0}
      BY <2>2, <2>3 DEF Text
    <3>4. more \in Text /\ Len(more) = Len(path) + 1 /\ more[1] = path[1] /\ more[Len(path) + 1] = Slash
      BY <2>2, <3>1, <3>3 DEF Text
    <3> HIDE DEF more
    <3>5. more # <<>> /\ Last(more) = Slash
      BY <3>3, <3>4 DEF Last
    <3>6. CwdForm(more)
      BY <2>3, <3>2, <3>4, <3>5 DEF CwdForm
    <3> QED
      BY <2>4, <2>6, <3>6 DEF more
  <2> QED
    BY <2>5, <2>6
<1>8. CASE TaskCreate
  <2>1. cwd' = <<Slash>>
    BY <1>8 DEF TaskCreate
  <2> QED
    BY <2>1, RootCwdForm
<1> QED
  BY <1>2, <1>3, <1>4, <1>5, <1>6, <1>7, <1>8 DEF Next

(* The last component of spilt_strings is the name at the end of the text  *)
(* (string.c:87-169).                                                      *)
LEMMA SplitEnds ==
  ASSUME NEW text \in Text, text # <<>>, text[Len(text)] # Slash
  PROVE  Split(text) # <<>> /\ Last(Split(text)) = text[Len(text)]
<1> DEFINE N == Len(text)
<1>1. N \in Nat \ {0} /\ N \in 1..N
  BY DEF Text
<1>2. PICK f : /\ f[0] = <<Blank>>
               /\ \A n \in 1..N : f[n] = Strtok(f[n - 1], text[n])
               /\ \A n \in 0..N : f[n] \in Text
               /\ Split(text) = f[N]
  BY SplitSteps
<1> DEFINE T == {n \in 0..N : f[n] # <<>>}
<1>3. 0 \in T
  <2>1. <<Blank>> # <<>> /\ 0 \in 0..N
    BY <1>1
  <2> QED
    BY <1>2, <2>1
<1>4. ASSUME NEW n \in 1..N, n - 1 \in T PROVE n \in T
  <2> DEFINE v == f[n - 1]
  <2>1. v \in Text /\ v # <<>> /\ f[n] = Strtok(v, text[n]) /\ n \in 0..N
    <3>1. n - 1 \in 0..N
      BY <1>1
    <3> QED
      BY <1>1, <1>2, <1>4, <3>1
  <2> HIDE DEF v
  <2>2. Len(v) \in Nat \ {0} /\ Len(Append(v, Blank)) = Len(v) + 1
    BY <2>1, SpecialTokens DEF Text
  <2>3. Append(v, Blank) # <<>>
    <3> DEFINE more == Append(v, Blank)
    <3>1. Len(more) # 0 /\ Len(<<>>) = 0
      BY <2>2
    <3> HIDE DEF more
    <3>2. more # <<>>
      BY <3>1
    <3> QED
      BY <3>2 DEF more
  <2>4. [v EXCEPT ![Len(v)] = text[n]] \in Text
    <3>1. text[n] \in Tokens
      BY DEF Text
    <3> QED
      BY <2>1, <3>1, ReplaceType DEF Text
  <2>5. DOMAIN [v EXCEPT ![Len(v)] = text[n]] = DOMAIN v /\ 1 \in DOMAIN v
    BY <2>1, <2>2 DEF Text
  <2>6. [v EXCEPT ![Len(v)] = text[n]] # <<>>
    BY <2>5
  <2> QED
    BY <2>1, <2>3, <2>6 DEF Strtok
<1>5. N - 1 \in T
  <2>1. N - 1 \in 0..N
    BY <1>1
  <2> HIDE DEF T
  <2> QED
    BY <1>1, <1>3, <1>4, <2>1, UpTo
<1> DEFINE v == f[N - 1]
           w == [v EXCEPT ![Len(v)] = text[N]]
<1>6. v \in Text /\ v # <<>> /\ Split(text) = Strtok(v, text[N])
  <2>1. N - 1 \in 0..N
    BY <1>1
  <2> QED
    BY <1>1, <1>2, <1>5, <2>1
<1> HIDE DEF v
<1>7. Split(text) = w
  BY <1>6 DEF Strtok
<1>8. Len(v) \in DOMAIN v /\ DOMAIN v = 1..Len(v) /\ Len(v) \in Nat
  BY <1>6 DEF Text
<1>9. w \in Text
  <2>1. text[N] \in Tokens
    BY <1>1 DEF Text
  <2> QED
    BY <1>6, <2>1, ReplaceType DEF Text
<1>10. DOMAIN w = DOMAIN v /\ w[Len(v)] = text[N]
  BY <1>8
<1>11. Len(w) = Len(v)
  BY <1>8, <1>9, <1>10 DEF Text
<1> HIDE DEF w
<1> QED
  BY <1>7, <1>8, <1>10, <1>11 DEF Last

(* The working directory is found along the names of its text, the root    *)
(* along none (vfs_lookup, vfs.c:122-128).                                 *)
LEMMA CwdNames ==
  ASSUME NEW t \in TreeType, Shape(t), NEW dir, CwdForm(dir), Lookup(t, dir).ok
  PROVE  \E w \in Seq(Names) :
           /\ \E c : Spells(w, dir, c)
           /\ Found(t, w)[Len(w)].ok
           /\ Found(t, w)[Len(w)] \in Findings(t)
           /\ FindIn(t, Found(t, w)[Len(w)]) = Lookup(t, dir).target
<1>1. dir \in Text /\ WellFormed(dir)
  BY DEF CwdForm
<1>2. PICK c : Counts(c, dir)
  BY <1>1, CountsExist
<1>3. CASE dir = <<Slash>>
  <2> DEFINE w == <<>>
  <2>1. w \in Seq(Names) /\ Len(w) = 0 /\ w \in Text
    BY DEF Text
  <2>2. Len(dir) = 1 /\ dir[1] = Slash
    BY <1>3
  <2>3. c[0] = 0 /\ c[1] = c[0] + 0 /\ c[0] \in Nat
    <3>1. 1 \in 1..Len(dir) /\ 1 - 1 = 0 /\ 0 \in 0..Len(dir)
      BY <2>2
    <3> QED
      BY <1>2, <2>2, <3>1 DEF Counts
  <2> HIDE DEF w
  <2>4. Spells(w, dir, c)
    <3>1. Len(w) = c[Len(dir)] - c[1 - 1]
      BY <2>1, <2>2, <2>3
    <3>2. \A n \in 1..Len(dir) : dir[n] = Slash
      BY <2>2
    <3> QED
      BY <1>2, <2>1, <3>1, <3>2 DEF Spells, SpellsFrom
  <2>5. /\ Found(t, w)[Len(w)] = [ok |-> TRUE, target |-> None]
        /\ Found(t, w)[Len(w)] \in Findings(t)
    <3>1. w \in Seq(Tokens) /\ Len(w) \in 0..Len(w)
      BY <2>1 DEF Text
    <3> QED
      BY <2>1, <3>1, FoundDefined
  <2>6. Lookup(t, dir).target = t.root
    BY <1>1, <1>3, LookupResult
  <2>7. FindIn(t, Found(t, w)[Len(w)]) = t.root /\ Found(t, w)[Len(w)].ok
    BY <2>5 DEF FindIn
  <2> QED
    BY <2>1, <2>4, <2>5, <2>6, <2>7
<1>4. CASE dir # <<Slash>>
  <2> DEFINE w == SearchComps(dir)
             f == Found(t, w)
             N == Len(w)
  <2>1. Blank \notin ToSet(w)
    BY <1>1, <1>4, FoundIsClean
  <2>2. w \in Seq(Names) /\ w \in Text /\ w # <<>>
    BY <1>1, <2>1, SearchCompsType, ComponentsWithoutBlank
  <2>3. Spells(w, dir, c)
    BY <1>1, <1>2, <2>1, SearchSpells
  <2>4. Lookup(t, dir) = f[N]
    BY <1>1, <1>4, LookupResult
  <2> HIDE DEF w
  <2>5. N \in 1..N /\ N \in 0..N /\ N - 1 \in 0..N
    BY <2>2 DEF Text
  <2>6. f[N] = FindComponent(t, f[N - 1], w[N]) /\ f[N - 1] \in Findings(t) /\ f[N] \in Findings(t)
    BY <2>2, <2>5, FoundDefined DEF Text
  <2> HIDE DEF f, N
  <2>7. f[N].ok /\ f[N].target # None
    BY <2>4, <2>6, FindStep
  <2>8. FindIn(t, f[N]) = Lookup(t, dir).target
    BY <2>4, <2>7 DEF FindIn
  <2> QED
    BY <2>2, <2>3, <2>6, <2>7, <2>8 DEF f, N
<1> QED
  BY <1>3, <1>4

(* What a program calls a name in its working directory is, translated,    *)
(* the names of the working directory and this one (to_abs_path, vfs.c:    *)
(* 246-293).                                                               *)
LEMMA RelativePath ==
  ASSUME NEW dir, CwdForm(dir), {ParentDir, CurrentDir} \cap ToSet(dir) = {},
         NEW w \in Seq(Names), NEW c, Spells(w, dir, c), NEW name \in Names \ {ParentDir, CurrentDir}
  PROVE  AbsPath(dir, <<name>>) = Join(Append(w, name))
<1> DEFINE text == Append(dir, name)
           names == Append(w, name)
           P == Names \ {CurrentDir, ParentDir}
           comps == Split(text)
<1>1. dir \in Text /\ WellFormed(dir) /\ dir # <<>> /\ dir[1] = Slash /\ Last(dir) = Slash
  BY DEF CwdForm
<1>2. name \in Tokens \ {Blank} /\ name # Slash /\ name \in P
  BY DEF Names
<1>3. text \in Text /\ WellFormed(text)
  <2>1. text \in Text
    BY <1>1, <1>2 DEF Text
  <2> QED
    BY <1>1, <1>2, <2>1, AppendSlash
<1>4. names \in Seq(Names)
  OBVIOUS
<1>5. PICK d : Spells(names, text, d)
  BY <1>1, SpellsOneMore
<1>6. PICK q : Skims(q, comps, names, Len(names))
  <2> HIDE DEF text, names
  <2> QED
    BY <1>3, <1>5, SplitSkims
<1>7. /\ Len(dir) \in Nat /\ Len(text) = Len(dir) + 1 /\ text[Len(dir) + 1] = name
      /\ \A n \in 1..Len(dir) : text[n] = dir[n]
  BY <1>1 DEF Text
<1>8. dir \o <<name>> = text
  BY <1>1, <1>2 DEF Text
<1> HIDE DEF text, names
<1>9. \A n \in 1..Len(text) : text[n] = Slash \/ text[n] \in P \cup {Blank}
  <2> SUFFICES ASSUME NEW n \in 1..Len(text), text[n] # Slash PROVE text[n] \in P
    OBVIOUS
  <2>1. CASE n = Len(dir) + 1
    BY <1>2, <1>7, <2>1
  <2>2. CASE n # Len(dir) + 1
    <3>1. n \in 1..Len(dir) /\ n \in DOMAIN dir
      BY <1>1, <1>7, <2>2 DEF Text
    <3>2. dir[n] \in ToSet(dir) /\ dir[n] \in Tokens
      <4>1. dir[n] \in Tokens
        BY <1>1, <3>1 DEF Text
      <4> QED
        BY <3>1, <4>1, SetOf
    <3>3. dir[n] # Blank /\ dir[n] \notin {ParentDir, CurrentDir}
      BY <1>1, <3>2 DEF WellFormed
    <3> QED
      BY <1>7, <2>2, <3>1, <3>2, <3>3 DEF Names
  <2> QED
    BY <2>1, <2>2
<1>10. comps \in Seq(P \cup {Blank})
  <2> HIDE DEF P
  <2> QED
    BY <1>3, <1>9, SplitOver
<1>11. comps # <<>> /\ Last(comps) = name
  <2>1. text # <<>> /\ text[Len(text)] = name
    BY <1>3, <1>7
  <2> QED
    BY <1>2, <1>3, <2>1, SplitEnds
<1> HIDE DEF comps
<1>12. Translate(comps) = names
  BY <1>2, <1>4, <1>6, <1>10, <1>11, TranslateSkims
<1>13. <<name>> # <<>> /\ <<name>>[1] = name
  OBVIOUS
<1>14. AbsPath(dir, <<name>>) = Join(Translate(Split(dir \o <<name>>)))
  BY <1>1, <1>2, <1>13 DEF AbsPath
<1> QED
  BY <1>8, <1>12, <1>14 DEF comps, names

(* A relative name is looked up in the working directory (lookup_path,     *)
(* vfs.c:77-119).                                                          *)
LEMMA NameIsInside ==
  ASSUME NEW t \in TreeType, Shape(t), NEW dir, CwdForm(dir), Lookup(t, dir).ok,
         {ParentDir, CurrentDir} \cap ToSet(dir) = {}, NEW name \in Names \ {ParentDir, CurrentDir}
  PROVE  LET v == Lookup(t, dir).target IN
         /\ Lookup(t, AbsPath(dir, <<name>>)) \in Findings(t)
         /\ Lookup(t, AbsPath(dir, <<name>>)).ok <=>
              IsDir(t, v) /\ TmpfsLookup(t, Enter(t, v), name) # None
<1>1. PICK w \in Seq(Names) :
        /\ \E c : Spells(w, dir, c)
        /\ Found(t, w)[Len(w)].ok
        /\ Found(t, w)[Len(w)] \in Findings(t)
        /\ FindIn(t, Found(t, w)[Len(w)]) = Lookup(t, dir).target
  BY CwdNames
<1> DEFINE names == Append(w, name)
           path == AbsPath(dir, <<name>>)
           g == Found(t, names)
           N == Len(w)
<1>2. path = Join(names)
  BY <1>1, RelativePath
<1>3. /\ names \in Seq(Names) /\ names # <<>> /\ Len(names) = N + 1 /\ N \in Nat
      /\ names[N + 1] = name /\ N + 1 - 1 = N
  OBVIOUS
<1>4. w \in Text /\ names \in Text /\ name \in Tokens
  BY <1>3, NamesAreText DEF Names
<1> HIDE DEF names, path
<1>5. SearchComps(path) = names /\ path \in Text /\ path # <<Slash>>
  <2>1. Len(path) = 2 * Len(names) /\ path \in Text
    BY <1>2, <1>3, JoinForm
  <2>2. Len(path) # 1 /\ Len(<<Slash>>) = 1
    BY <1>3, <2>1
  <2>3. path # <<Slash>>
    BY <2>2
  <2> QED
    BY <1>2, <1>3, <2>1, <2>3, JoinSearched
<1>6. Lookup(t, path) = g[N + 1]
  BY <1>3, <1>5, LookupResult
<1>7. g[N + 1] = FindComponent(t, g[N], name)
  <2>1. N + 1 \in 1..Len(names)
    BY <1>3
  <2> QED
    BY <1>3, <1>4, <2>1, FoundDefined DEF Text
<1>8. g[N] = Found(t, w)[N]
  BY <1>4, FoundOnTheWay DEF names
<1> HIDE DEF g, N
<1>9. g[N].ok /\ g[N] \in Findings(t) /\ FindIn(t, g[N]) = Lookup(t, dir).target
  BY <1>1, <1>8 DEF N
<1>10. /\ FindComponent(t, g[N], name) \in Findings(t)
       /\ FindComponent(t, g[N], name).ok <=>
            IsDir(t, FindIn(t, g[N])) /\ TmpfsLookup(t, Enter(t, FindIn(t, g[N])), name) # None
  BY <1>9, FindStep
<1> QED
  BY <1>6, <1>7, <1>9, <1>10 DEF path

(* The working directory keeps its form, beside the invariant of the tree  *)
(* (sysc_chdir, exception.c:305-318).                                      *)
LEMMA CwdStays == Spec => [](TreeIInv /\ CwdForm(cwd))
<1>1. Init => CwdForm(cwd)
  BY RootCwdForm DEF Init
<1>2. TreeIInv /\ CwdForm(cwd) /\ [Next]_vars => CwdForm(cwd)'
  <2>1. UNCHANGED vars => UNCHANGED cwd
    BY DEF vars
  <2> QED
    BY <2>1, NextCwdForm DEF CwdForm
<1> QED
  BY <1>1, <1>2, TreeInductive, PTL DEF Spec

(* What a program calls a name in its working directory is the entry of    *)
(* that name in the directory which cwd leads to, whatever it has changed  *)
(* to and whatever was mounted since (sysc_chdir, exception.c:305-318,     *)
(* to_abs_path, vfs.c:246-293).                                            *)
THEOREM RelativeNames == Spec => []RelativeIsInside
<1>1. TreeIInv /\ CwdForm(cwd) => RelativeIsInside
  <2> SUFFICES ASSUME TreeIInv, CwdForm(cwd), Lookup(tree, cwd).ok, {ParentDir, CurrentDir} \cap ToSet(cwd) = {},
                      NEW v \in Vnodes(tree), tree.node[v].name \notin {Blank, ParentDir, CurrentDir}
               PROVE  LET name == tree.node[v].name
                          dir == Lookup(tree, cwd).target
                      IN Lookup(tree, AbsPath(cwd, <<name>>)).ok =
                           (IsDir(tree, dir) /\ TmpfsLookup(tree, Enter(tree, dir), name) # None)
    BY DEF RelativeIsInside
  <2>1. tree \in TreeType /\ Shape(tree)
    BY DEF TreeIInv
  <2>2. tree.node[v].name \in Names \ {ParentDir, CurrentDir}
    <3>1. tree.node[v] \in VnodeType
      BY <2>1, TreeFacts
    <3>2. tree.node[v].name \in Names \cup {Blank}
      BY <3>1 DEF VnodeType
    <3> QED
      BY <3>2
  <2> DEFINE name == tree.node[v].name
             dir == Lookup(tree, cwd).target
             found == Lookup(tree, AbsPath(cwd, <<name>>))
  <2>3. /\ found \in Findings(tree)
        /\ found.ok <=> IsDir(tree, dir) /\ TmpfsLookup(tree, Enter(tree, dir), name) # None
    <3> HIDE DEF name
    <3>1. name \in Names \ {ParentDir, CurrentDir}
      BY <2>2 DEF name
    <3> QED
      BY <2>1, <3>1, NameIsInside
  <2> HIDE DEF found, name, dir
  <2>4. found.ok \in BOOLEAN
    BY <2>3 DEF Findings
  <2>5. found.ok = (IsDir(tree, dir) /\ TmpfsLookup(tree, Enter(tree, dir), name) # None)
    BY <2>3, <2>4
  <2> QED
    BY <2>5, Zenon DEF found, name, dir
<1> QED
  BY <1>1, CwdStays, PTL

(* The files with data, when the archive is that of a file tree.           *)
LEMMA NamesOfFile ==
  ASSUME ArchiveFits, NEW i \in WithData
  PROVE  /\ i \in DOMAIN Archive /\ Archive[i].path \in Text /\ Archive[i].path # <<>>
         /\ NamesOf(i) \in Seq(Names) /\ NamesOf(i) # <<>>
         /\ Len(NamesOf(i)) \in Nat \ {0}
         /\ \E c : Spells(NamesOf(i), Archive[i].path, c)
         /\ NamesOf(i)[Len(NamesOf(i))] = Last(Archive[i].path)
<1> DEFINE path == Archive[i].path
           names == NamesOf(i)
<1>1. i \in DOMAIN Archive /\ path \in Text /\ path # <<>>
  BY FileSystemAssumption DEF WithData, Text
<1>2. WellFormed(path) /\ Blank \notin ToSet(SearchComps(path)) /\ Last(path) # Slash
  BY DEF ArchiveFits, Clean
<1> HIDE DEF path
<1>3. names = SearchComps(path)
  BY DEF NamesOf, path
<1> HIDE DEF names
<1>4. names \in Seq(Names) /\ names # <<>>
  BY <1>1, <1>2, <1>3, SearchCompsType, ComponentsWithoutBlank
<1>5. PICK c : Spells(names, path, c)
  BY <1>1, <1>2, <1>3, CountsExist, SearchSpells
<1>6. Len(names) \in Nat \ {0}
  BY <1>4
<1>7. names[Len(names)] = Last(path)
  <2> DEFINE N == Len(path)
  <2>1. N \in 1..N /\ N \in Nat /\ Last(path) = path[N] /\ 1 - 1 = 0 /\ 0 \in 0..N /\ N \in 0..N
    BY <1>1 DEF Text, Last
  <2>2. /\ c \in [0..N -> Nat] /\ c[0] = 0
        /\ Len(names) = c[N] - c[1 - 1]
        /\ \A n \in 1..N : path[n] # Slash => names[c[n] - c[1 - 1]] = path[n]
    BY <1>5 DEF Spells, SpellsFrom, Counts
  <2>3. c[N] - c[1 - 1] = Len(names)
    BY <2>1, <2>2
  <2> QED
    BY <1>2, <2>1, <2>2, <2>3
<1> QED
  BY <1>1, <1>4, <1>5, <1>6, <1>7 DEF path, names

(* A file that is inserted is one with data, and not the last              *)
(* (initramfs_setup_mount, cpio.c:189-206).                                *)
LEMMA InsertedFiles ==
  ASSUME NEW i \in Inserted
  PROVE  i \in WithData /\ i \in 1..Len(Archive) - 1
BY ArchiveFacts DEF Inserted, WithData

(* No path of the archive is the way to another one.                       *)
LEMMA NoPathOnTheWay ==
  ASSUME ArchiveFits, NEW i \in WithData, NEW j \in WithData, i # j
  PROVE  ~Prefix(NamesOf(i), NamesOf(j))
<1> SUFFICES ASSUME Prefix(NamesOf(i), NamesOf(j)) PROVE FALSE
  OBVIOUS
<1> DEFINE e == NamesOf(i)
           d == NamesOf(j)
<1>1. e \in Seq(Names) /\ d \in Seq(Names) /\ Prefix(e, d) /\ ~IsPrefix(e, d)
  BY NamesOfFile DEF ArchiveFits
<1> HIDE DEF e, d
<1>2. /\ Len(e) \in Nat /\ Len(d) \in Nat /\ Len(e) <= Len(d)
      /\ \A n \in 1..Len(e) : d[n] = e[n]
  BY <1>1 DEF Prefix
<1>3. SubSeq(e, 1, Len(e)) = SubSeq(d, 1, Len(e))
  BY <1>1, <1>2
<1> QED
  BY <1>1, <1>2, <1>3 DEF IsPrefix

(* What is behind the root of the mount of initramfs, which was made last. *)
Inside(s, r) == {v \in Vnodes(s) : r <= v}

(* Every vnode there has a path: that of its directory and its name.  It   *)
(* leads to a file that was inserted, or is the path of one.               *)
Labels(s, r, n, P) ==
  /\ P \in [Inside(s, r) -> Seq(Names)]
  /\ P[r] = <<>>
  /\ \A v \in Inside(s, r) : IsDir(s, v) =>
       \A e \in ToSet(s.node[v].entries) :
         e \in Inside(s, r) /\ P[e] = Append(P[v], s.node[e].name)
  /\ \A v \in Inside(s, r) \ {r} : \E j \in Inserted :
       j <= n /\ Prefix(P[v], NamesOf(j)) /\ (IsDir(s, v) \/ P[v] = NamesOf(j))

(* While the archive is inserted nothing is mounted there.                 *)
Filling(s, r) ==
  /\ s \in TreeType /\ Shape(s) /\ r \in Vnodes(s) /\ IsDir(s, r) /\ s.mounted = FALSE
  /\ \A v \in Inside(s, r) : s.node[v].fs = "initramfs" /\ s.node[v].mount = None

(* The first names of a path.                                              *)
FirstNames(names, k) == [m \in 1..k |-> names[m]]

(* They are a path, and one name more makes the next one.                  *)
LEMMA FirstNamesFacts ==
  ASSUME NEW names \in Seq(Names), NEW k \in 0..Len(names)
  PROVE  /\ FirstNames(names, k) \in Seq(Names)
         /\ Len(FirstNames(names, k)) = k
         /\ DOMAIN FirstNames(names, k) = 1..k
         /\ \A m \in 1..k : FirstNames(names, k)[m] = names[m]
         /\ k < Len(names) => FirstNames(names, k + 1) = Append(FirstNames(names, k), names[k + 1])
<1> DEFINE F(n) == FirstNames(names, n)
<1>1. \A n \in 0..Len(names) : F(n) \in Seq(Names) /\ Len(F(n)) = n /\ DOMAIN F(n) = 1..n
                               /\ \A m \in 1..n : F(n)[m] = names[m]
  BY DEF FirstNames
<1>2. ASSUME k < Len(names) PROVE F(k + 1) = Append(F(k), names[k + 1])
  <2> DEFINE e == Append(F(k), names[k + 1])
             d == F(k + 1)
  <2>1. k + 1 \in 0..Len(names) /\ k \in 0..Len(names) /\ names[k + 1] \in Names
    BY <1>2
  <2>2. d \in Seq(Names) /\ Len(d) = k + 1 /\ \A m \in 1..k + 1 : d[m] = names[m]
    BY <1>1, <2>1
  <2>3. F(k) \in Seq(Names) /\ Len(F(k)) = k /\ \A m \in 1..k : F(k)[m] = names[m]
    BY <1>1, <2>1
  <2> HIDE DEF F
  <2>4. e \in Seq(Names) /\ Len(e) = k + 1 /\ e[k + 1] = names[k + 1] /\ \A m \in 1..k : e[m] = names[m]
    BY <2>1, <2>3
  <2> HIDE DEF e, d
  <2>5. \A m \in 1..k + 1 : e[m] = d[m]
    <3>1. \A m \in 1..k + 1 : m \in 1..k \/ m = k + 1
      OBVIOUS
    <3> QED
      BY <2>2, <2>4, <3>1
  <2>6. e = d
    BY <2>2, <2>4, <2>5
  <2> QED
    BY <2>6 DEF e, d
<1> QED
  BY <1>1, <1>2

(* A lookup there leads to the entry itself.                               *)
LEMMA LookupInside ==
  ASSUME NEW s, NEW r, Filling(s, r), NEW n, NEW P, Labels(s, r, n, P),
         NEW dir \in Inside(s, r), NEW name, NEW v \in Vnodes(s), TmpfsLookup(s, dir, name) = v
  PROVE  v \in Inside(s, r) /\ v # r /\ P[v] = Append(P[dir], name) /\ s.node[v].name = name /\ dir < v
<1> DEFINE e == s.node[dir].entries
           i == EntryAt(s, dir, name)
<1>1. s \in TreeType /\ Shape(s) /\ dir \in Vnodes(s) /\ v # None
  BY TreeFacts DEF Filling, Inside, None
<1>2. IsDir(s, dir) /\ i # 0
  BY <1>1, LookupFinds
<1>3. i \in DOMAIN e /\ e[i] \in Vnodes(s) /\ s.node[e[i]].name = name
      /\ (s.node[e[i]].mount = None => v = e[i])
      /\ (s.node[e[i]].mount # None => v = s.node[e[i]].mount)
  BY <1>1, <1>2, LookupFinds
<1>4. e[i] \in ToSet(e)
  BY <1>3, SetOf
<1>5. e[i] \in Inside(s, r) /\ P[e[i]] = Append(P[dir], name)
  BY <1>2, <1>3, <1>4 DEF Labels
<1>6. v = e[i]
  BY <1>3, <1>5 DEF Filling
<1>7. dir < v
  <2>1. v \in Below(s, dir)
    BY <1>4, <1>6, BelowFacts
  <2> QED
    BY <1>1, <2>1, ShapeParts DEF Placed
<1>8. v # r
  <2>1. r <= dir /\ dir \in Nat /\ v \in Nat /\ r \in Nat
    <3>1. r \in Vnodes(s)
      BY DEF Filling
    <3> QED
      BY <1>1, <3>1, TreeFacts DEF Inside
  <2> QED
    BY <1>7, <2>1
<1> QED
  BY <1>3, <1>5, <1>6, <1>7, <1>8

(* The path of what a chain of lookups leads to is the names on the way.   *)
LEMMA ChainLabels ==
  ASSUME NEW s, NEW r, Filling(s, r), NEW n, NEW P, Labels(s, r, n, P), NEW names \in Seq(Names),
         NEW k \in 0..Len(names), NEW D, Chain(s, D, names, k), D[0] = r
  PROVE  \A i \in 0..k : D[i] \in Inside(s, r) /\ P[D[i]] = FirstNames(names, i)
<1> DEFINE T == {i \in 0..k : D[i] \in Inside(s, r) /\ P[D[i]] = FirstNames(names, i)}
<1>1. /\ D \in [0..k -> Vnodes(s)]
      /\ \A i \in 1..k : TmpfsLookup(s, D[i - 1], names[i]) = D[i]
  BY DEF Chain
<1>2. 0 \in T
  <2>1. r \in Inside(s, r)
    <3>1. r \in Vnodes(s) /\ s \in TreeType
      BY DEF Filling
    <3>2. r \in Nat
      BY <3>1, TreeFacts
    <3> QED
      BY <3>1, <3>2 DEF Inside
  <2>2. P[r] = <<>>
    BY DEF Labels
  <2>3. FirstNames(names, 0) = <<>>
    <3>1. 0 \in 0..Len(names)
      OBVIOUS
    <3>2. FirstNames(names, 0) \in Seq(Names) /\ Len(FirstNames(names, 0)) = 0
      BY <3>1, FirstNamesFacts
    <3> QED
      BY <3>2
  <2> QED
    BY <2>1, <2>2, <2>3
<1>3. ASSUME NEW i \in 1..k, i - 1 \in T PROVE i \in T
  <2>1. D[i - 1] \in Inside(s, r) /\ P[D[i - 1]] = FirstNames(names, i - 1) /\ i \in 0..k
    BY <1>3
  <2>2. D[i] \in Vnodes(s) /\ TmpfsLookup(s, D[i - 1], names[i]) = D[i]
    BY <1>1, <2>1
  <2>3. D[i] \in Inside(s, r) /\ P[D[i]] = Append(P[D[i - 1]], names[i])
    <3>1. D[i - 1] \in Inside(s, r)
      BY <2>1
    <3>2. D[i] \in Vnodes(s)
      BY <2>2
    <3>3. TmpfsLookup(s, D[i - 1], names[i]) = D[i]
      BY <2>2
    <3>4. Filling(s, r) /\ Labels(s, r, n, P)
      OBVIOUS
    <3> DEFINE dir == D[i - 1]
               v == D[i]
               name == names[i]
    <3>5. dir \in Inside(s, r) /\ v \in Vnodes(s) /\ TmpfsLookup(s, dir, name) = v
      BY <3>1, <3>2, <3>3
    <3>6. v \in Inside(s, r) /\ P[v] = Append(P[dir], name)
      <4> HIDE DEF T, dir, v, name
      <4> QED
        BY <3>4, <3>5, LookupInside
    <3> QED
      BY <3>6
  <2>4. i - 1 \in 0..Len(names) /\ i - 1 < Len(names) /\ i - 1 + 1 = i
    OBVIOUS
  <2>5. FirstNames(names, i - 1 + 1) = Append(FirstNames(names, i - 1), names[i - 1 + 1])
    BY <2>4, FirstNamesFacts
  <2>6. P[D[i]] = FirstNames(names, i)
    BY <2>1, <2>3, <2>4, <2>5
  <2> QED
    BY <2>1, <2>3, <2>6
<1>4. 0..k \subseteq T
  <2>1. k \in Nat
    OBVIOUS
  <2> HIDE DEF T
  <2> QED
    BY <1>2, <1>3, <2>1, UpTo
<1> QED
  BY <1>4

(* How far a path exists (lookup_path, vfs.c:91-118).                      *)
LEMMA LongestChain ==
  ASSUME NEW s \in TreeType, Shape(s), NEW r \in Vnodes(s), NEW names \in Seq(Names)
  PROVE  \E k \in 0..Len(names) : \E D :
           /\ Chain(s, D, names, k) /\ D[0] = r
           /\ k < Len(names) /\ IsDir(s, D[k]) /\ ~Refuses(s, D[k]) => TmpfsLookup(s, D[k], names[k + 1]) = None
<1> DEFINE N == Len(names)
           Is(k) == \E D : Chain(s, D, names, k) /\ D[0] = r
           S == {n \in 0..N : ~Is(n)}
<1>1. N \in Nat
  OBVIOUS
<1>2. Is(0)
  <2> DEFINE D == [i \in 0..0 |-> r]
  <2>1. D \in [0..0 -> Vnodes(s)] /\ D[0] = r
    OBVIOUS
  <2> HIDE DEF D
  <2>2. Chain(s, D, names, 0)
    BY <2>1 DEF Chain
  <2> QED
    BY <2>1, <2>2
<1>3. \E k \in 0..N : Is(k) /\ (k < N => ~Is(k + 1))
  <2> HIDE DEF Is
  <2>1. CASE S = {}
    <3>1. N \in 0..N /\ ~(N < N)
      BY <1>1
    <3> QED
      BY <2>1, <3>1
  <2>2. CASE S # {}
    <3>1. PICK n \in S : \A m \in S : n <= m
      <4>1. S \in SUBSET Nat
        BY <1>1
      <4> HIDE DEF S
      <4> QED
        BY <2>2, <4>1, Least
    <3>2. n \in 1..N /\ n - 1 \in 0..N /\ (n - 1) + 1 = n
      BY <1>1, <1>2, <3>1
    <3>3. Is(n - 1)
      BY <3>1, <3>2
    <3> QED
      BY <3>1, <3>2, <3>3
  <2> QED
    BY <2>1, <2>2
<1>4. PICK k \in 0..N : Is(k) /\ (k < N => ~Is(k + 1))
  BY <1>3
<1>5. PICK D : Chain(s, D, names, k) /\ D[0] = r
  BY <1>4
<1>6. ASSUME k < N, IsDir(s, D[k]), ~Refuses(s, D[k]), TmpfsLookup(s, D[k], names[k + 1]) # None
      PROVE  FALSE
  <2> DEFINE v == TmpfsLookup(s, D[k], names[k + 1])
             E == [i \in 0..k + 1 |-> IF i = k + 1 THEN v ELSE D[i]]
  <2>1. D[k] \in Vnodes(s) /\ k \in Nat
    BY <1>1, <1>5 DEF Chain
  <2>2. v \in Vnodes(s)
    BY <1>6, <2>1, LookupFinds DEF Reached
  <2>3. Chain(s, E, names, k + 1)
    <3> HIDE DEF v
    <3>1. TmpfsLookup(s, D[k], names[k + 1]) = v
      BY DEF v
    <3> QED
      BY <1>5, <1>6, <2>1, <2>2, <3>1, ChainGrows
  <2>4. E[0] = r
    <3> HIDE DEF v
    <3>1. 0 # k + 1 /\ 0 \in 0..k + 1
      BY <2>1
    <3> QED
      BY <1>5, <3>1
  <2> HIDE DEF E
  <2> QED
    BY <1>4, <1>6, <2>3, <2>4
<1> QED
  BY <1>4, <1>5, <1>6

(* The way to a file ends in a directory before the file, as no path of    *)
(* the archive is the way to another one.                                  *)
LEMMA WayOpen ==
  ASSUME ArchiveFits, NEW s, NEW r, Filling(s, r), NEW n \in Nat, NEW P, Labels(s, r, n, P),
         NEW j \in Inserted, n < j, NEW k \in 0..Len(NamesOf(j)), NEW D, Chain(s, D, NamesOf(j), k), D[0] = r
  PROVE  /\ k < Len(NamesOf(j))
         /\ D[k] \in Inside(s, r) /\ P[D[k]] = FirstNames(NamesOf(j), k)
         /\ IsDir(s, D[k]) /\ ~Refuses(s, D[k])
<1> DEFINE names == NamesOf(j)
           N == Len(names)
           v == D[k]
<1>1. names \in Seq(Names) /\ names # <<>> /\ N \in Nat \ {0}
  BY InsertedFiles, NamesOfFile
<1> HIDE DEF names
<1>2. v \in Inside(s, r) /\ P[v] = FirstNames(names, k)
  <2>1. k \in 0..k /\ k \in 0..Len(names) /\ Chain(s, D, names, k)
    BY DEF names
  <2> HIDE DEF N, v
  <2> QED
    BY <1>1, <2>1, ChainLabels DEF v
<1>3. /\ FirstNames(names, k) \in Seq(Names) /\ Len(FirstNames(names, k)) = k
      /\ DOMAIN FirstNames(names, k) = 1..k
      /\ \A m \in 1..k : FirstNames(names, k)[m] = names[m]
      /\ k \in Nat /\ k <= N
  <2>1. k \in 0..Len(names)
    BY DEF names
  <2> QED
    BY <1>1, <2>1, FirstNamesFacts
<1> HIDE DEF v
<1>4. IsDir(s, v) /\ k < N
  <2>1. CASE v = r
    <3>1. P[r] = <<>> /\ IsDir(s, r)
      BY DEF Labels, Filling
    <3>2. k = 0
      BY <1>2, <1>3, <2>1, <3>1
    <3> QED
      BY <1>1, <2>1, <3>1, <3>2
  <2>2. CASE v # r
    <3>1. PICK i \in Inserted : i <= n /\ Prefix(P[v], NamesOf(i)) /\ (IsDir(s, v) \/ P[v] = NamesOf(i))
      BY <1>2, <2>2 DEF Labels
    <3>2. i # j /\ i \in WithData /\ j \in WithData
      <4>1. i \in Nat /\ j \in Nat
        BY InsertedFiles
      <4> QED
        BY <3>1, <4>1, InsertedFiles
    <3>3. ~Prefix(NamesOf(i), names) /\ ~Prefix(names, NamesOf(i))
      BY <3>2, NoPathOnTheWay DEF names
    <3>4. P[v] # NamesOf(i)
      <4> SUFFICES ASSUME P[v] = NamesOf(i) PROVE FALSE
        OBVIOUS
      <4>1. Prefix(FirstNames(names, k), names)
        BY <1>3 DEF Prefix, N
      <4> QED
        BY <1>2, <3>3, <4>1
    <3>5. k # N
      <4> SUFFICES ASSUME k = N PROVE FALSE
        OBVIOUS
      <4>1. FirstNames(names, k) = names
        BY <1>1, <1>3 DEF N
      <4> QED
        BY <1>2, <3>1, <3>3, <4>1
    <3> QED
      BY <1>3, <3>1, <3>4, <3>5
  <2> QED
    BY <2>1, <2>2
<1>5. ~Refuses(s, v)
  BY <1>2 DEF Filling, Refuses
<1> QED
  BY <1>2, <1>4, <1>5 DEF v, N, names

(* A directory of the archive has finitely many names.                     *)
LEMMA EntriesBehindFinite ==
  ASSUME NEW i, NEW k
  PROVE  IsFiniteSet(EntriesBehind(i, k))
<1> DEFINE S == {j \in Inserted : k < Len(NamesOf(j)) /\ \A m \in 1..k : NamesOf(j)[m] = NamesOf(i)[m]}
           T == {NamesOf(j)[k + 1] : j \in S}
           f == [j \in S |-> NamesOf(j)[k + 1]]
<1>1. S \in SUBSET Nat /\ \A j \in S : j <= Len(Archive)
  BY ArchiveFacts, InsertedFiles
<1> HIDE DEF S
<1>2. IsFiniteSet(S)
  BY <1>1, ArchiveFacts, FS_BoundedSetOfNaturals
<1>3. f \in Surjection(S, T)
  BY DEF Surjection
<1> HIDE DEF f, T
<1>4. IsFiniteSet(T)
  BY <1>2, <1>3, FS_Surjection
<1> QED
  BY <1>4, Zenon DEF EntriesBehind, T, S

(* There is an entry left for the name of a file that is not there yet: the*)
(* entries of its directory are on the way of files (tmpfs_create, tmpfs.c:*)
(* 147-154).                                                               *)
LEMMA RoomLeft ==
  ASSUME ArchiveFits, NEW s, NEW r, Filling(s, r), NEW n, NEW P, Labels(s, r, n, P),
         NEW j \in Inserted, NEW k \in Nat, k < Len(NamesOf(j)),
         NEW dir \in Inside(s, r), P[dir] = FirstNames(NamesOf(j), k), IsDir(s, dir),
         TmpfsLookup(s, dir, NamesOf(j)[k + 1]) = None
  PROVE  s.node[dir].len < MaxEntry
<1> DEFINE names == NamesOf(j)
           last == names[k + 1]
           e == s.node[dir].entries
           L == Len(e)
           T == EntriesBehind(j, k)
           f == [x \in 1..L |-> s.node[e[x]].name]
<1>1. s \in TreeType /\ Shape(s) /\ dir \in Vnodes(s)
  BY DEF Filling, Inside
<1>2. names \in Seq(Names) /\ k \in 0..Len(names) /\ k \in 0..Len(names) - 1 /\ k + 1 \in 1..Len(names)
  BY InsertedFiles, NamesOfFile
<1>3. L \in Nat /\ DOMAIN e = 1..L /\ \A x \in 1..L : e[x] \in ToSet(e)
  BY <1>1, EntriesFacts
<1>4. /\ s.node[dir].len = L
      /\ \A x, y \in 1..L : s.node[e[x]].name = s.node[e[y]].name => x = y
  BY <1>1, <1>3, ShapeParts DEF DirShape
<1>5. /\ FirstNames(names, k) \in Seq(Names) /\ Len(FirstNames(names, k)) = k
      /\ \A m \in 1..k : FirstNames(names, k)[m] = names[m]
  BY <1>2, FirstNamesFacts
<1>6. IsFiniteSet(T) /\ Cardinality(T) <= MaxEntry /\ Cardinality(T) \in Nat
  <2>1. Cardinality(T) <= MaxEntry
    BY <1>2 DEF ArchiveFits
  <2> QED
    BY <2>1, EntriesBehindFinite, FS_CardinalityType
<1> HIDE DEF T, e, L
<1>7. last \in T
  BY <1>2 DEF T, EntriesBehind
<1>8. ASSUME NEW x \in 1..L PROVE s.node[e[x]].name \in T \ {last}
  <2> DEFINE c == e[x]
             name == s.node[c].name
             path == P[c]
  <2>1. c \in Inside(s, r) /\ path = Append(FirstNames(names, k), name)
    BY <1>3 DEF Labels, e
  <2>2. path \in Seq(Names)
    BY <2>1 DEF Labels
  <2>3. name \in Names
    <3>1. s.node[c] \in VnodeType /\ \A y \in DOMAIN s.node[dir].entries : s.node[s.node[dir].entries[y]].name # Blank
      <4>1. c \in Vnodes(s)
        BY <2>1 DEF Inside
      <4> QED
        BY <1>1, <4>1, TreeFacts, ShapeParts DEF DirShape
    <3>2. name # Blank
      BY <1>3, <3>1 DEF e
    <3> QED
      BY <3>1, <3>2 DEF VnodeType
  <2> HIDE DEF name, path
  <2>4. Len(path) = k + 1 /\ path[k + 1] = name /\ DOMAIN path = 1..k + 1 /\ \A m \in 1..k : path[m] = names[m]
    BY <1>5, <2>1, <2>3
  <2>5. c # r
    <3>1. P[r] = <<>> /\ Len(<<>>) = 0
      BY DEF Labels
    <3> QED
      BY <2>4, <3>1 DEF path
  <2>6. PICK i \in Inserted : Prefix(path, NamesOf(i))
    BY <2>1, <2>5 DEF Labels, path
  <2>7. k < Len(NamesOf(i)) /\ NamesOf(i)[k + 1] = name /\ \A m \in 1..k : NamesOf(i)[m] = names[m]
    <3>1. Len(NamesOf(i)) \in Nat
      BY InsertedFiles, NamesOfFile
    <3> QED
      BY <2>4, <2>6, <3>1 DEF Prefix
  <2>8. name \in T
    BY <2>7 DEF T, EntriesBehind
  <2>9. name # last
    <3> SUFFICES ASSUME name = last PROVE FALSE
      OBVIOUS
    <3>1. x \in DOMAIN s.node[dir].entries /\ s.node[s.node[dir].entries[x]].name = last
      BY <1>3 DEF e, name
    <3>2. EntryAt(s, dir, last) # 0
      <4>1. 0 \notin DOMAIN s.node[dir].entries
        BY <1>3 DEF e
      <4> QED
        BY <1>1, <3>1, <4>1, FirstEntry
    <3> QED
      BY <1>1, <3>2, LookupFinds
  <2> QED
    BY <2>8, <2>9 DEF name
<1>9. f \in Injection(1..L, T \ {last})
  <2>1. f \in [1..L -> T \ {last}]
    BY <1>8
  <2>2. \A x, y \in 1..L : f[x] = f[y] => x = y
    BY <1>4 DEF e, L
  <2> QED
    BY <2>1, <2>2 DEF Injection, IsInjective
<1> HIDE DEF f, last
<1>10. IsFiniteSet(T \ {last}) /\ Cardinality(T \ {last}) = Cardinality(T) - 1
  BY <1>6, <1>7, FS_RemoveElement
<1>11. Cardinality(1..L) <= Cardinality(T \ {last})
  BY <1>9, <1>10, FS_Injection
<1>12. Cardinality(1..L) = L
  <2>1. 1 \in Int /\ L \in Int
    BY <1>3
  <2>2. Cardinality(1..L) = IF 1 > L THEN 0 ELSE L - 1 + 1
    BY <2>1, FS_Interval
  <2> QED
    BY <1>3, <2>2
<1> QED
  <2>1. MaxEntry \in Nat
    BY FileSystemAssumption
  <2> QED
    BY <1>3, <1>4, <1>6, <1>10, <1>11, <1>12, <2>1 DEF e, L

(* Without mounts a chain of lookups leads to newer and newer vnodes.      *)
LEMMA ChainRises ==
  ASSUME NEW u \in TreeType, Shape(u), NEW names, NEW N \in Nat, NEW E, Chain(u, E, names, N),
         \A i \in 0..N : u.node[E[i]].mount = None
  PROVE  \A i, j \in 0..N : i < j => E[i] < E[j]
<1> DEFINE T == {j \in 0..N : \A i \in 0..N : i < j => E[i] < E[j]}
<1>1. E \in [0..N -> Vnodes(u)] /\ \A i \in 0..N : E[i] \in Vnodes(u) /\ E[i] \in Nat
  BY TreeFacts DEF Chain
<1>2. 0 \in T
  OBVIOUS
<1>3. ASSUME NEW j \in 1..N PROVE E[j - 1] < E[j]
  <2> DEFINE dir == E[j - 1]
             i == EntryAt(u, dir, names[j])
             e == u.node[dir].entries
  <2>1. j - 1 \in 0..N /\ j \in 0..N
    OBVIOUS
  <2>2. dir \in Vnodes(u) /\ IsDir(u, dir) /\ TmpfsLookup(u, dir, names[j]) = E[j] /\ E[j] # None
    BY <1>1, <2>1, TreeFacts DEF Chain, None
  <2>8. i # 0
    BY <2>2, LookupFinds
  <2>10. /\ i \in DOMAIN e
         /\ \/ u.node[e[i]].mount = None /\ TmpfsLookup(u, dir, names[j]) = e[i]
            \/ u.node[e[i]].mount # None /\ TmpfsLookup(u, dir, names[j]) = u.node[e[i]].mount
    BY <2>2, <2>8, LookupFinds
  <2>3. /\ i \in DOMAIN e
        /\ \/ u.node[e[i]].mount = None /\ E[j] = e[i]
           \/ u.node[e[i]].mount # None /\ E[j] = u.node[e[i]].mount
    <3> HIDE DEF i, e, dir
    <3> QED
      BY <2>2, <2>10
  <2>9. e[i] \in ToSet(e)
    BY <2>3, SetOf
  <2>4. e[i] \in Below(u, dir)
    BY <2>9, BelowFacts
  <2>5. e[i] \in Vnodes(u) /\ dir < e[i]
    BY <2>2, <2>4, ShapeParts DEF Placed
  <2> HIDE DEF i, e, dir
  <2>6. CASE u.node[e[i]].mount = None /\ E[j] = e[i]
    BY <2>5, <2>6 DEF dir
  <2>7. CASE u.node[e[i]].mount # None /\ E[j] = u.node[e[i]].mount
    <3>1. E[j] \in Below(u, e[i])
      BY <2>7, BelowFacts
    <3>2. e[i] < E[j]
      BY <2>5, <3>1, ShapeParts DEF Placed
    <3>3. dir \in Nat /\ e[i] \in Nat /\ E[j] \in Nat
      BY <1>1, <2>1, <2>2, <2>5, TreeFacts
    <3> QED
      BY <2>5, <3>2, <3>3 DEF dir
  <2> QED
    BY <2>3, <2>6, <2>7
<1>4. ASSUME NEW j \in 1..N, j - 1 \in T PROVE j \in T
  <2>1. ASSUME NEW i \in 0..N, i < j PROVE E[i] < E[j]
    <3>1. i = j - 1 \/ i < j - 1
      BY <2>1
    <3>2. i < j - 1 => E[i] < E[j - 1]
      BY <1>4
    <3>3. E[i] \in Nat /\ E[j - 1] \in Nat /\ E[j] \in Nat
      BY <1>1
    <3> QED
      BY <1>3, <3>1, <3>2, <3>3
  <2> QED
    BY <2>1
<1>5. 0..N \subseteq T
  <2> HIDE DEF T
  <2> QED
    BY <1>2, <1>4, UpTo
<1> QED
  BY <1>5

(* The path to a file is made in what is behind the mount: the new         *)
(* directories get their labels (lookup_path, vfs.c:91-118).               *)
MoreLabels(s, r, P, u, names, k, E) ==
  [v \in Inside(u, r) |->
     IF v \in Vnodes(s) THEN P[v]
     ELSE FirstNames(names, CHOOSE i \in k + 1..Len(names) : v = E[i])]

(* Where the path of a file is made, all that is new is behind the root of *)
(* the mount.                                                              *)
LEMMA SproutsInside ==
  ASSUME NEW s, NEW r, Filling(s, r), NEW names \in Seq(Names), NEW k \in Nat, k < Len(names),
         NEW D, Chain(s, D, names, k), D[0] = r, D[k] \in Inside(s, r),
         NEW n, NEW P, Labels(s, r, n, P),
         NEW u, NEW E, Sprouts(s, D, names, k, u, E, Len(names))
  PROVE  /\ Filling(u, r)
         /\ \A v \in Inside(s, r) : v \in Inside(u, r)
         /\ \A v \in Inside(u, r) : v \in Inside(s, r) \/ v \in Vnodes(u) \ Vnodes(s)
         /\ \A i, j \in 0..Len(names) : i < j => E[i] < E[j]
         /\ \A i \in 0..Len(names) : E[i] \in Inside(u, r)
<1> DEFINE N == Len(names)
<1>1. /\ s \in TreeType /\ Shape(s) /\ r \in Vnodes(s) /\ IsDir(s, r) /\ s.mounted = FALSE
      /\ \A v \in Inside(s, r) : s.node[v].fs = "initramfs" /\ s.node[v].mount = None
  BY DEF Filling
<1>2. /\ Grown(s, u) /\ u \in TreeType /\ Shape(u) /\ u.mounted = s.mounted /\ Vnodes(s) \subseteq Vnodes(u)
      /\ Chain(u, E, names, N)
      /\ \A i \in 0..k : E[i] = D[i]
      /\ \A i \in k + 1..N : E[i] \notin Vnodes(s)
      /\ \A v \in Vnodes(u) \ Vnodes(s) : u.node[v].fs = s.node[D[k]].fs /\ u.node[v].mount = None
  BY DEF Sprouts, Grown
<1>3. r \in Nat /\ \A v \in Vnodes(u) : v \in Vnodes(s) \/ r <= v
  BY <1>1, <1>2, TreeFacts DEF Vnodes
<1>4. \A v \in Inside(s, r) : v \in Inside(u, r)
  BY <1>2 DEF Inside
<1>5. \A v \in Inside(u, r) : v \in Inside(s, r) \/ v \in Vnodes(u) \ Vnodes(s)
  BY DEF Inside
<1>6. IsDir(u, r)
  <2>1. Stays(s, u, r)
    BY <1>1, <1>2 DEF Grown
  <2> QED
    BY <1>1, <2>1 DEF Stays, IsDir
<1>7. ASSUME NEW v \in Inside(u, r) PROVE u.node[v].fs = "initramfs" /\ u.node[v].mount = None
  <2>1. CASE v \in Inside(s, r)
    <3>1. Stays(s, u, v)
      BY <1>2, <2>1 DEF Grown, Inside
    <3> QED
      BY <1>1, <2>1, <3>1 DEF Stays
  <2>2. CASE v \in Vnodes(u) \ Vnodes(s)
    BY <1>1, <1>2, <2>2
  <2> QED
    BY <1>5, <2>1, <2>2
<1>8. Filling(u, r)
  BY <1>1, <1>2, <1>6, <1>7 DEF Filling
<1>9. \A i \in 0..k : D[i] \in Inside(s, r)
  <2>1. k \in 0..N /\ N \in Nat
    OBVIOUS
  <2> HIDE DEF N
  <2> QED
    BY <2>1, ChainLabels DEF N
<1>10. ASSUME NEW i \in 0..N PROVE E[i] \in Inside(u, r)
  <2>1. E[i] \in Vnodes(u)
    BY <1>2 DEF Chain
  <2>2. CASE i \in 0..k
    BY <1>2, <1>4, <1>9, <2>2
  <2>3. CASE i \in k + 1..N
    BY <1>2, <1>3, <2>1, <2>3 DEF Inside
  <2> QED
    BY <2>2, <2>3
<1>11. \A i, j \in 0..N : i < j => E[i] < E[j]
  <2>1. N \in Nat /\ \A i \in 0..N : u.node[E[i]].mount = None
    BY <1>7, <1>10
  <2> HIDE DEF N
  <2> QED
    BY <1>2, <2>1, ChainRises
<1> QED
  BY <1>4, <1>5, <1>8, <1>10, <1>11

(* What the lookups of a chain find are entries of that name.              *)
LEMMA ChainNames ==
  ASSUME NEW u, NEW r, Filling(u, r), NEW names, NEW N \in Nat, NEW E, Chain(u, E, names, N),
         \A i \in 0..N : E[i] \in Inside(u, r),
         \A v \in Inside(u, r) : \A e \in ToSet(u.node[v].entries) : e \in Inside(u, r)
  PROVE  \A i \in 1..N : u.node[E[i]].name = names[i] /\ E[i] \in ToSet(u.node[E[i - 1]].entries)
<1> SUFFICES ASSUME NEW j \in 1..N
             PROVE  u.node[E[j]].name = names[j] /\ E[j] \in ToSet(u.node[E[j - 1]].entries)
  OBVIOUS
<1> DEFINE dir == E[j - 1]
           i == EntryAt(u, dir, names[j])
           e == u.node[dir].entries
<1>1. u \in TreeType /\ Shape(u) /\ \A v \in Inside(u, r) : v \in Vnodes(u) /\ u.node[v].mount = None
  BY DEF Filling, Inside
<1>2. j - 1 \in 0..N /\ j \in 0..N
  OBVIOUS
<1>3. /\ dir \in Inside(u, r) /\ dir \in Vnodes(u) /\ IsDir(u, dir) /\ TmpfsLookup(u, dir, names[j]) = E[j]
      /\ E[j] # None
  BY <1>1, <1>2, TreeFacts DEF Chain, None
<1>4. i # 0
  BY <1>1, <1>3, LookupFinds
<1>5. /\ i \in DOMAIN e /\ u.node[e[i]].name = names[j]
      /\ \/ u.node[e[i]].mount = None /\ TmpfsLookup(u, dir, names[j]) = e[i]
         \/ u.node[e[i]].mount # None /\ TmpfsLookup(u, dir, names[j]) = u.node[e[i]].mount
  BY <1>1, <1>3, <1>4, LookupFinds
<1>6. e[i] \in ToSet(e)
  BY <1>5, SetOf
<1>7. u.node[e[i]].mount = None
  BY <1>1, <1>3, <1>6
<1> HIDE DEF i
<1>8. E[j] = e[i]
  <2> HIDE DEF e, dir
  <2> QED
    BY <1>3, <1>5, <1>7
<1> QED
  BY <1>5, <1>6, <1>8

(* The entries of what was made.                                           *)
NewEntries(s, r, D, names, k, u, E) ==
  /\ \A v \in Inside(u, r) : \A e \in ToSet(u.node[v].entries) : e \in Inside(u, r)
  /\ \A i \in 1..Len(names) : u.node[E[i]].name = names[i]
  /\ \A i \in k + 1..Len(names) - 1 : ToSet(u.node[E[i]].entries) = {E[i + 1]}
  /\ ToSet(u.node[E[Len(names)]].entries) = {}
  /\ ToSet(u.node[D[k]].entries) = ToSet(s.node[D[k]].entries) \cup {E[k + 1]}

(* Each new directory has the next one as its only entry, and the last has *)
(* none (tmpfs_create, tmpfs.c:140-171).                                   *)
LEMMA SproutEntries ==
  ASSUME NEW s, NEW r, Filling(s, r), NEW names \in Seq(Names), NEW k \in Nat, k < Len(names),
         NEW D, Chain(s, D, names, k), D[0] = r, D[k] \in Inside(s, r),
         NEW n, NEW P, Labels(s, r, n, P),
         NEW u, NEW E, Sprouts(s, D, names, k, u, E, Len(names))
  PROVE  NewEntries(s, r, D, names, k, u, E)
<1> DEFINE N == Len(names)
<1>1. /\ Filling(u, r)
      /\ \A v \in Inside(u, r) : v \in Inside(s, r) \/ v \in Vnodes(u) \ Vnodes(s)
      /\ \A i \in 0..N : E[i] \in Inside(u, r)
  BY SproutsInside
<1>2. N \in Nat /\ u \in TreeType /\ Shape(u) /\ r \in Nat /\ \A v \in Inside(u, r) : v \in Vnodes(u) /\ v \in Nat
  BY <1>1, TreeFacts DEF Filling, Inside
<1>3. /\ Chain(u, E, names, N)
      /\ \A i \in k + 1..N : E[i] \notin Vnodes(s)
      /\ u.node[E[N]] = NewVnode(names[N], "DIR", s.node[D[k]].fs)
      /\ u.node[D[k]].entries = Append(s.node[D[k]].entries, E[k + 1])
      /\ \A v \in Vnodes(u) \ Vnodes(s) : u.node[v].type = "DIR" /\ u.node[v].len \in {0, 1}
  BY DEF Sprouts
<1>4. \A v \in Inside(u, r) : \A e \in ToSet(u.node[v].entries) : e \in Inside(u, r)
  <2> SUFFICES ASSUME NEW v \in Inside(u, r), NEW e \in ToSet(u.node[v].entries) PROVE e \in Inside(u, r)
    OBVIOUS
  <2>1. e \in Below(u, v)
    BY BelowFacts
  <2>2. e \in Vnodes(u) /\ v < e /\ r <= v /\ v \in Nat /\ e \in Nat
    BY <1>2, <2>1, ShapeParts, TreeFacts DEF Placed, Inside
  <2> QED
    BY <1>2, <2>2 DEF Inside
<1> HIDE DEF N
<1>5. \A i \in 1..N : u.node[E[i]].name = names[i] /\ E[i] \in ToSet(u.node[E[i - 1]].entries)
  BY <1>1, <1>2, <1>3, <1>4, ChainNames
<1>6. ASSUME NEW i \in k + 1..N - 1 PROVE ToSet(u.node[E[i]].entries) = {E[i + 1]}
  <2> DEFINE e == u.node[E[i]].entries
  <2>1. i + 1 \in 1..N /\ (i + 1) - 1 = i /\ i \in 0..N /\ i \in k + 1..N
    BY <1>2
  <2>2. E[i + 1] \in ToSet(e)
    BY <1>5, <2>1
  <2>3. E[i] \in Vnodes(u) \ Vnodes(s)
    BY <1>1, <1>2, <1>3, <2>1
  <2>4. Len(e) \in {0, 1} /\ Len(e) \in Nat /\ DOMAIN e = 1..Len(e)
    <3>1. DirShape(u, u.node[E[i]])
      BY <1>2, <1>3, <2>3, ShapeParts DEF IsDir
    <3> QED
      BY <1>2, <1>3, <2>3, <3>1, EntriesFacts DEF DirShape
  <2> HIDE DEF e
  <2>5. \A x \in ToSet(e) : \A y \in ToSet(e) : x = y
    <3> SUFFICES ASSUME NEW x \in ToSet(e), NEW y \in ToSet(e) PROVE x = y
      OBVIOUS
    <3>1. PICK a \in DOMAIN e : e[a] = x
      BY SetOf
    <3>2. PICK b \in DOMAIN e : e[b] = y
      BY SetOf
    <3>3. a = b
      BY <2>4
    <3> QED
      BY <3>1, <3>2, <3>3
  <2> QED
    BY <2>2, <2>5 DEF e
<1>7. ToSet(u.node[E[N]].entries) = {}
  <2>1. u.node[E[N]].entries = <<>>
    BY <1>3 DEF NewVnode
  <2> QED
    BY <2>1 DEF ToSet
<1>8. ToSet(u.node[D[k]].entries) = ToSet(s.node[D[k]].entries) \cup {E[k + 1]}
  <2>1. s.node[D[k]].entries \in Seq(Nat)
    BY EntriesFacts DEF Filling, Inside
  <2>2. E[k + 1] \in Nat
    <3>1. k + 1 \in 0..N
      BY <1>2 DEF N
    <3> QED
      BY <1>1, <1>2, <3>1
  <2>3. ToSet(Append(s.node[D[k]].entries, E[k + 1])) = ToSet(s.node[D[k]].entries) \cup {E[k + 1]}
    BY <2>1, <2>2, AppendSet
  <2> QED
    BY <1>3, <2>3
<1> QED
  BY <1>4, <1>5, <1>6, <1>7, <1>8 DEF N, NewEntries

(* All that is behind the mount has its path again, with the new names.    *)
LEMMA SproutsLabelled ==
  ASSUME NEW s, NEW r, Filling(s, r), NEW j \in Inserted, NEW names, names = NamesOf(j),
         names \in Seq(Names), NEW k \in Nat, k < Len(names),
         NEW D, Chain(s, D, names, k), D[0] = r, D[k] \in Inside(s, r),
         NEW n \in Nat, n < j, NEW P, Labels(s, r, n, P),
         NEW u, NEW E, Sprouts(s, D, names, k, u, E, Len(names))
  PROVE  LET Q == MoreLabels(s, r, P, u, names, k, E) IN
         Labels(u, r, j, Q) /\ Q[E[Len(names)]] = names
<1> DEFINE N == Len(names)
           Q == MoreLabels(s, r, P, u, names, k, E)
<1>1. /\ Filling(u, r)
      /\ \A v \in Inside(s, r) : v \in Inside(u, r)
      /\ \A v \in Inside(u, r) : v \in Inside(s, r) \/ v \in Vnodes(u) \ Vnodes(s)
      /\ \A i, m \in 0..N : i < m => E[i] < E[m]
      /\ \A i \in 0..N : E[i] \in Inside(u, r)
  BY SproutsInside
<1>2. /\ \A v \in Inside(u, r) : \A e \in ToSet(u.node[v].entries) : e \in Inside(u, r)
      /\ \A i \in 1..N : u.node[E[i]].name = names[i]
      /\ \A i \in k + 1..N - 1 : ToSet(u.node[E[i]].entries) = {E[i + 1]}
      /\ ToSet(u.node[E[N]].entries) = {}
      /\ ToSet(u.node[D[k]].entries) = ToSet(s.node[D[k]].entries) \cup {E[k + 1]}
  <2>1. NewEntries(s, r, D, names, k, u, E)
    <3> HIDE DEF Q, N
    <3> QED
      BY SproutEntries
  <2> QED
    BY <2>1 DEF NewEntries
<1>3. /\ Grown(s, u)
      /\ \A i \in 0..k : E[i] = D[i]
      /\ \A i \in k + 1..N : E[i] \notin Vnodes(s)
      /\ \A v \in Vnodes(s) : v # D[k] => u.node[v] = s.node[v]
      /\ \A v \in Vnodes(u) \ Vnodes(s) : u.node[v].type = "DIR" /\ \E i \in k + 1..N : v = E[i]
  BY DEF Sprouts
<1>4. /\ P \in [Inside(s, r) -> Seq(Names)] /\ P[r] = <<>>
      /\ \A v \in Inside(s, r) : IsDir(s, v) =>
           \A e \in ToSet(s.node[v].entries) : e \in Inside(s, r) /\ P[e] = Append(P[v], s.node[e].name)
      /\ \A v \in Inside(s, r) \ {r} : \E i \in Inserted :
           i <= n /\ Prefix(P[v], NamesOf(i)) /\ (IsDir(s, v) \/ P[v] = NamesOf(i))
  BY DEF Labels
<1>5. N \in Nat /\ r \in Inside(s, r) /\ \A v \in Inside(s, r) : v \in Vnodes(s) /\ v \in Vnodes(u)
  BY <1>3, TreeFacts DEF Filling, Inside, Grown
<1>6. \A i \in 0..N : /\ FirstNames(names, i) \in Seq(Names) /\ Len(FirstNames(names, i)) = i
                      /\ DOMAIN FirstNames(names, i) = 1..i
                      /\ \A m \in 1..i : FirstNames(names, i)[m] = names[m]
                      /\ i < N => FirstNames(names, i + 1) = Append(FirstNames(names, i), names[i + 1])
  BY FirstNamesFacts
<1>7. \A i \in 0..k : D[i] \in Inside(s, r) /\ P[D[i]] = FirstNames(names, i)
  <2>1. k \in 0..N
    BY <1>5
  <2> HIDE DEF N
  <2> QED
    BY <2>1, ChainLabels DEF N
<1>8. \A v \in Inside(s, r) : Q[v] = P[v]
  BY <1>1, <1>5 DEF MoreLabels
<1>9. ASSUME NEW i \in k + 1..N PROVE Q[E[i]] = FirstNames(names, i)
  <2>1. E[i] \in Inside(u, r) /\ E[i] \notin Vnodes(s)
    BY <1>1, <1>3, <1>5
  <2>2. \A m \in k + 1..N : E[i] = E[m] => m = i
    <3> SUFFICES ASSUME NEW m \in k + 1..N, E[i] = E[m], m # i PROVE FALSE
      OBVIOUS
    <3>1. E[i] \in Nat /\ E[m] \in Nat
      <4>1. i \in 0..N /\ m \in 0..N
        BY <1>5
      <4>2. \A v \in Inside(u, r) : v \in Nat
        BY <1>1, TreeFacts DEF Inside, Filling
      <4> QED
        BY <1>1, <4>1, <4>2
    <3>2. i < m \/ m < i
      BY <1>5
    <3>3. i \in 0..N /\ m \in 0..N
      BY <1>5
    <3> QED
      BY <1>1, <3>1, <3>2, <3>3
  <2>3. (CHOOSE m \in k + 1..N : E[i] = E[m]) = i
    BY <2>2
  <2> QED
    BY <2>1, <2>3, Zenon DEF MoreLabels
<1>10. \A i \in 0..N : Q[E[i]] = FirstNames(names, i)
  <2> SUFFICES ASSUME NEW i \in 0..N PROVE Q[E[i]] = FirstNames(names, i)
    OBVIOUS
  <2>1. CASE i \in 0..k
    BY <1>3, <1>7, <1>8, <2>1
  <2>2. CASE i \in k + 1..N
    BY <1>9, <2>2
  <2> QED
    BY <1>5, <2>1, <2>2
<1>11. ASSUME NEW v \in Inside(u, r) PROVE Q[v] \in Seq(Names)
  <2>1. CASE v \in Inside(s, r)
    BY <1>4, <1>8, <2>1
  <2>2. CASE v \in Vnodes(u) \ Vnodes(s)
    <3>1. PICK i \in k + 1..N : v = E[i]
      BY <1>3, <2>2
    <3>2. i \in 0..N
      BY <1>5
    <3> QED
      BY <1>6, <1>9, <3>1, <3>2
  <2> QED
    BY <1>1, <2>1, <2>2
<1>12. Q \in [Inside(u, r) -> Seq(Names)]
  <2>1. Q = [v \in Inside(u, r) |-> Q[v]]
    BY DEF MoreLabels
  <2> HIDE DEF Q
  <2> QED
    BY <1>11, <2>1
<1>13. Q[r] = <<>>
  BY <1>4, <1>5, <1>8
<1> HIDE DEF Q
<1>14. ASSUME NEW v \in Inside(u, r), NEW e \in ToSet(u.node[v].entries)
       PROVE  e \in Inside(u, r) /\ (IsDir(u, v) => Q[e] = Append(Q[v], u.node[e].name))
  <2>1. e \in Inside(u, r)
    BY <1>2
  <2>2. ASSUME v \in Inside(s, r), e \in ToSet(s.node[v].entries), IsDir(u, v)
        PROVE  Q[e] = Append(Q[v], u.node[e].name)
    <3>1. Stays(s, u, v)
      BY <1>3, <1>5, <2>2 DEF Grown
    <3>2. e \in Inside(s, r) /\ P[e] = Append(P[v], s.node[e].name)
      BY <1>4, <2>2, <3>1 DEF Stays, IsDir
    <3>3. Stays(s, u, e)
      BY <1>3, <1>5, <3>2 DEF Grown
    <3> QED
      BY <1>8, <2>2, <3>2, <3>3 DEF Stays
  <2>3. ASSUME NEW i \in 0..N - 1, v = E[i], e = E[i + 1] PROVE Q[e] = Append(Q[v], u.node[e].name)
    <3>1. i \in 0..N /\ i + 1 \in 0..N /\ i + 1 \in 1..N /\ i < N
      BY <1>5
    <3>2. Q[e] = FirstNames(names, i + 1) /\ Q[v] = FirstNames(names, i) /\ u.node[e].name = names[i + 1]
      BY <1>2, <1>10, <2>3, <3>1
    <3> QED
      BY <1>6, <3>1, <3>2
  <2>4. CASE v \in Inside(s, r) /\ v # D[k]
    <3>1. u.node[v] = s.node[v]
      BY <1>3, <1>5, <2>4
    <3> QED
      BY <2>1, <2>2, <2>4, <3>1
  <2>5. CASE v = D[k]
    <3>1. v = E[k] /\ k \in 0..N - 1
      BY <1>3, <1>5, <2>5
    <3>2. e \in ToSet(s.node[v].entries) \/ e = E[k + 1]
      BY <1>2, <2>5
    <3> QED
      BY <2>1, <2>2, <2>3, <2>5, <3>1, <3>2
  <2>6. CASE v \in Vnodes(u) \ Vnodes(s)
    <3>1. PICK i \in k + 1..N : v = E[i]
      BY <1>3, <2>6
    <3>2. i # N
      BY <1>2, <3>1
    <3>3. i \in k + 1..N - 1 /\ i \in 0..N - 1
      BY <1>5, <3>2
    <3>4. e = E[i + 1]
      BY <1>2, <3>1, <3>3
    <3> QED
      BY <2>1, <2>3, <3>1, <3>3, <3>4
  <2> QED
    BY <1>1, <2>4, <2>5, <2>6
<1>15. ASSUME NEW v \in Inside(u, r) \ {r}
       PROVE  \E i \in Inserted : i <= j /\ Prefix(Q[v], NamesOf(i)) /\ (IsDir(u, v) \/ Q[v] = NamesOf(i))
  <2>1. CASE v \in Inside(s, r)
    <3>1. PICK i \in Inserted : i <= n /\ Prefix(P[v], NamesOf(i)) /\ (IsDir(s, v) \/ P[v] = NamesOf(i))
      BY <1>4, <2>1
    <3>2. IsDir(u, v) = IsDir(s, v)
      BY <1>3, <1>5, <2>1 DEF Grown, Stays, IsDir
    <3>3. i <= j
      <4>1. i \in Nat /\ j \in Nat
        BY InsertedFiles
      <4> QED
        BY <3>1, <4>1
    <3> QED
      BY <1>8, <2>1, <3>1, <3>2, <3>3
  <2>2. CASE v \in Vnodes(u) \ Vnodes(s)
    <3>1. PICK i \in k + 1..N : v = E[i]
      BY <1>3, <2>2
    <3>2. i \in 0..N
      BY <1>5
    <3>3. Prefix(FirstNames(names, i), names)
      BY <1>5, <1>6, <3>2 DEF Prefix
    <3>4. IsDir(u, v)
      BY <1>3, <2>2 DEF IsDir
    <3>5. j <= j
      BY InsertedFiles
    <3> QED
      BY <1>9, <3>1, <3>3, <3>4, <3>5
  <2> QED
    BY <1>1, <2>1, <2>2
<1>16. Labels(u, r, j, Q)
  BY <1>12, <1>13, <1>14, <1>15 DEF Labels
<1>17. Q[E[N]] = names
  <2>1. N \in 0..N
    BY <1>5
  <2>2. FirstNames(names, N) = names
    BY <1>6, <2>1
  <2> QED
    BY <1>10, <2>1, <2>2
<1> QED
  BY <1>16, <1>17 DEF Q

(* An open of a vnode for a file of the archive writes that vnode.         *)
LEMMA ArchivedWrites ==
  ASSUME NEW u \in TreeType, Shape(u), NEW x \in Vnodes(u), NEW file, file.data \in Word, file.size \in Word
  PROVE  LET w == MakeFile(u, x)
             s == [w EXCEPT !.node[x] = ArchivedFile(w.node[x], file)]
         IN /\ Written(u, s, x, ArchivedFile(FileOf(u.node[x]), file))
            /\ Shape(s)
            /\ s.node[x].name = u.node[x].name /\ s.node[x].mount = u.node[x].mount
<1> DEFINE w == MakeFile(u, x)
           n == ArchivedFile(w.node[x], file)
           s == [w EXCEPT !.node[x] = n]
<1>1. Written(u, w, x, FileOf(u.node[x])) /\ w \in TreeType /\ Shape(w)
  BY MakeFileWrites
<1>2. /\ FileOf(u.node[x]).type = "FILE" /\ FileOf(u.node[x]).mount = u.node[x].mount
      /\ FileOf(u.node[x]).name = u.node[x].name
  BY TreeFacts, FileOfType
<1>3. /\ w.node[x] = FileOf(u.node[x]) /\ w.node[x] \in VnodeType /\ x \in Vnodes(w)
      /\ Vnodes(w) = Vnodes(u) /\ Len(w.node) = Len(u.node) /\ w.root = u.root /\ w.mounted = u.mounted
      /\ OthersStay(u, w, x)
  <2> HIDE DEF w
  <2> QED
    BY <1>1, TreeFacts DEF Written
<1> HIDE DEF w
<1>4. n = ArchivedFile(FileOf(u.node[x]), file)
  BY <1>3
<1>5. n \in VnodeType /\ n.type = "FILE" /\ n.entries = w.node[x].entries
      /\ n.name = w.node[x].name /\ n.mount = w.node[x].mount
  BY <1>2, <1>3, ArchivedFileType
<1> HIDE DEF n
<1>6. Written(w, s, x, n)
  BY <1>1, <1>3, <1>5, WriteVnode
<1> HIDE DEF s
<1>7. Shape(s)
  BY <1>1, <1>3, <1>5, <1>6, FileShape
<1>8. Written(u, s, x, n)
  BY <1>3, <1>6 DEF Written, OthersStay
<1>9. s.node[x].name = u.node[x].name /\ s.node[x].mount = u.node[x].mount
  BY <1>2, <1>3, <1>5, <1>6 DEF Written
<1> QED
  BY <1>4, <1>7, <1>8, <1>9 DEF s, n, w

(* The vnode of a file of the archive.                                     *)
FileNode(i) ==
  [NewVnode(Last(Archive[i].path), "FILE", "initramfs") EXCEPT
     !.data = DataAt(i), !.len = RoundUp(Archive[i].size)]

(* The files up to the n-th are in the tree, behind the root of the mount, *)
(* each at the end of its path.                                            *)
Shown(s, r, i) ==
  \E D : /\ Chain(s, D, NamesOf(i), Len(NamesOf(i))) /\ D[0] = r
         /\ s.node[D[Len(NamesOf(i))]] = FileNode(i)

(* What Insert makes of the tree of the mount, up to the n-th file of the  *)
(* archive.                                                                *)
Filled(m, r, s, n) ==
  /\ Grown(m, s)
  /\ Filling(s, r)
  /\ \E P : Labels(s, r, n, P)
  /\ \A i \in Inserted : i <= n => Shown(s, r, i)

(* A file that is shown stays so when the tree grows.                      *)
LEMMA ShownKept ==
  ASSUME NEW s \in TreeType, Shape(s), NEW u, Grown(s, u), NEW r, NEW i \in Inserted, ArchiveFits, Shown(s, r, i)
  PROVE  Shown(u, r, i)
<1> DEFINE N == Len(NamesOf(i))
<1>1. N \in Nat /\ N \in 0..N
  BY InsertedFiles, NamesOfFile
<1>2. PICK D : Chain(s, D, NamesOf(i), N) /\ D[0] = r /\ s.node[D[N]] = FileNode(i)
  BY DEF Shown
<1>3. Chain(u, D, NamesOf(i), N)
  BY <1>1, <1>2, ChainKept
<1>4. D[N] \in Vnodes(s)
  BY <1>1, <1>2 DEF Chain
<1>5. ~IsDir(s, D[N])
  BY <1>2 DEF IsDir, FileNode, NewVnode
<1>6. u.node[D[N]] = s.node[D[N]]
  BY <1>4, <1>5 DEF Grown, Stays
<1> QED
  BY <1>2, <1>3, <1>6 DEF Shown

(* The file itself is written at the end of its path.                      *)
LEMMA FileWritten ==
  ASSUME ArchiveFits, NEW s, NEW r, Filling(s, r), NEW j \in Inserted, NEW names, names = NamesOf(j),
         NEW k \in Nat, k < Len(names), NEW D, NEW E, NEW u, Sprouts(s, D, names, k, u, E, Len(names)),
         D[0] = r, names \in Seq(Names), Filling(u, r), NEW Q, Labels(u, r, j, Q), Q[E[Len(names)]] = names,
         NEW t, Written(u, t, E[Len(names)], FileNode(j)), Shape(t),
         t.node[E[Len(names)]].name = u.node[E[Len(names)]].name, t.node[E[Len(names)]].mount = u.node[E[Len(names)]].mount
  PROVE  Grown(s, t) /\ Filling(t, r) /\ Labels(t, r, j, Q) /\ Shown(t, r, j)
<1> DEFINE N == Len(names)
           x == E[N]
<1>1. /\ N \in Nat /\ N \in 0..N /\ N \in k + 1..N /\ 0 \in 0..k
  OBVIOUS
<1>2. /\ Grown(s, u) /\ Chain(u, E, names, N) /\ E[0] = D[0] /\ x \notin Vnodes(s)
      /\ \A i \in 0..N - 1 : E[i] # x
  BY <1>1 DEF Sprouts
<1>3. /\ u \in TreeType /\ Shape(u) /\ r \in Vnodes(u) /\ IsDir(u, r) /\ u.mounted = FALSE
      /\ \A v \in Inside(u, r) : u.node[v].fs = "initramfs" /\ u.node[v].mount = None
  BY DEF Filling
<1>4. x \in Vnodes(u)
  BY <1>1, <1>2 DEF Chain
<1> HIDE DEF x
<1>5. /\ t \in TreeType /\ t.root = u.root /\ t.mounted = u.mounted /\ Vnodes(t) = Vnodes(u)
      /\ t.node[x] = FileNode(j)
      /\ \A v \in Vnodes(u) : v # x => t.node[v] = u.node[v]
      /\ t.node[x].name = u.node[x].name /\ t.node[x].mount = u.node[x].mount
  BY DEF Written, OthersStay, x
<1>6. FileNode(j).type = "FILE" /\ FileNode(j).fs = "initramfs" /\ FileNode(j).entries = <<>> /\ FileNode(j).mount = None
  BY DEF FileNode, NewVnode
<1>7. Grown(s, t)
  <2>1. \A v \in Vnodes(s) : Stays(s, u, v) /\ v \in Vnodes(u) /\ v # x
    BY <1>2 DEF Grown
  <2>2. \A v \in Vnodes(s) : Stays(s, t, v)
    BY <1>5, <2>1 DEF Stays
  <2> QED
    BY <1>2, <1>5, <2>2 DEF Grown
<1>8. r # x
  <2>1. r \in Vnodes(s)
    BY DEF Filling
  <2> QED
    BY <1>2, <2>1
<1>9. Inside(t, r) = Inside(u, r) /\ \A v \in Inside(u, r) : v \in Vnodes(u)
  BY <1>5 DEF Inside
<1>10. Filling(t, r)
  <2>1. \A v \in Inside(u, r) : t.node[v].fs = "initramfs" /\ t.node[v].mount = None
    BY <1>3, <1>5, <1>6, <1>9
  <2>2. IsDir(t, r)
    BY <1>3, <1>5, <1>8 DEF IsDir
  <2> QED
    BY <1>3, <1>5, <1>9, <2>1, <2>2 DEF Filling
<1>11. ~IsDir(t, x) /\ \A v \in Vnodes(u) : v # x => IsDir(t, v) = IsDir(u, v)
  BY <1>5, <1>6 DEF IsDir
<1>12. \A v \in Vnodes(u) : t.node[v].name = u.node[v].name /\ t.node[v].mount = u.node[v].mount
  BY <1>5
<1>13. /\ Q \in [Inside(u, r) -> Seq(Names)]
       /\ Q[r] = <<>>
       /\ \A v \in Inside(u, r) : IsDir(u, v) =>
            \A e \in ToSet(u.node[v].entries) : e \in Inside(u, r) /\ Q[e] = Append(Q[v], u.node[e].name)
       /\ \A v \in Inside(u, r) \ {r} : \E i \in Inserted :
            i <= j /\ Prefix(Q[v], NamesOf(i)) /\ (IsDir(u, v) \/ Q[v] = NamesOf(i))
  BY DEF Labels
<1>14. ASSUME NEW v \in Inside(u, r), IsDir(t, v), NEW e \in ToSet(t.node[v].entries)
       PROVE  e \in Inside(u, r) /\ Q[e] = Append(Q[v], t.node[e].name)
  <2>1. v # x /\ v \in Vnodes(u)
    BY <1>9, <1>11, <1>14
  <2>2. e \in Inside(u, r) /\ Q[e] = Append(Q[v], u.node[e].name)
    BY <1>5, <1>11, <1>13, <1>14, <2>1
  <2> QED
    BY <1>9, <1>12, <2>2
<1>15. ASSUME NEW v \in Inside(u, r) \ {r}
       PROVE  \E i \in Inserted : i <= j /\ Prefix(Q[v], NamesOf(i)) /\ (IsDir(t, v) \/ Q[v] = NamesOf(i))
  <2>1. CASE v = x
    <3>1. Q[v] = NamesOf(j) /\ j <= j
      BY <2>1, InsertedFiles DEF x
    <3>2. Prefix(names, names)
      BY <1>1 DEF Prefix
    <3> QED
      BY <3>1, <3>2
  <2>2. CASE v # x
    BY <1>9, <1>11, <1>13, <2>2
  <2> QED
    BY <2>1, <2>2
<1>16. Labels(t, r, j, Q)
  BY <1>9, <1>13, <1>14, <1>15 DEF Labels
<1>17. Chain(t, E, names, N)
  <2>1. E \in [0..N -> Vnodes(t)]
    BY <1>2, <1>5 DEF Chain
  <2>2. ASSUME NEW i \in 1..N
        PROVE  IsDir(t, E[i - 1]) /\ ~Refuses(t, E[i - 1]) /\ TmpfsLookup(t, E[i - 1], names[i]) = E[i]
    <3> DEFINE d == E[i - 1]
    <3>1. i - 1 \in 0..N /\ i - 1 \in 0..N - 1
      BY <1>1
    <3>2. d \in Vnodes(u) /\ IsDir(u, d) /\ ~Refuses(u, d) /\ TmpfsLookup(u, d, names[i]) = E[i] /\ d # x
      BY <1>2, <3>1 DEF Chain
    <3> HIDE DEF d
    <3>3. t.node[d] = u.node[d]
      BY <1>5, <3>2
    <3>4. TmpfsLookup(t, d, names[i]) = TmpfsLookup(u, d, names[i])
      BY <1>3, <1>12, <3>2, <3>3, LookupSame
    <3>5. IsDir(t, d) /\ ~Refuses(t, d)
      BY <1>5, <3>2, <3>3 DEF IsDir, Refuses
    <3> QED
      BY <3>2, <3>4, <3>5 DEF d
  <2> QED
    BY <2>1, <2>2 DEF Chain
<1>18. Shown(t, r, j)
  BY <1>2, <1>5, <1>17 DEF Shown, x
<1> QED
  BY <1>7, <1>10, <1>16, <1>18

(* A file of the archive with data is inserted (initramfs_setup_mount,     *)
(* cpio.c:189-202).                                                        *)
LEMMA InsertFile ==
  ASSUME ArchiveFits, NEW m \in TreeType, NEW r, NEW j \in Inserted, NEW n \in Nat, n < j,
         NEW a \in Insertions, Filled(m, r, a.tree, n), \A i \in Inserted : i < j => i <= n,
         NEW file, file.path = Archive[j].path, file.data = DataAt(j), file.size = RoundUp(Archive[j].size),
         file.data \in Word, file.size \in Word
  PROVE  Filled(m, r, AddArchived(a, r, file).tree, j)
<1> DEFINE s == a.tree
           names == NamesOf(j)
           N == Len(names)
           path == Archive[j].path
           made == CreatePath(s, r, path, 0, a.target)
           u == made.tree
           x == made.target
           w == MakeFile(u, x)
           t == [w EXCEPT !.node[x] = ArchivedFile(w.node[x], file)]
<1>1. /\ j \in WithData /\ path \in Text /\ names \in Seq(Names) /\ N \in Nat \ {0}
      /\ names[N] = Last(path) /\ WellFormed(path) /\ j \in Nat
  BY InsertedFiles, NamesOfFile DEF ArchiveFits
<1>2. PICK c : Spells(names, path, c)
  BY InsertedFiles, NamesOfFile
<1>3. PICK q : Skims(q, Split(path), names, N)
  BY <1>1, <1>2, SplitSkims
<1>4. s \in TreeType /\ Shape(s) /\ Target(s, a.target)
  BY DEF Insertions
<1>5. AddArchived(a, r, file).tree = t
  BY DEF AddArchived, ArchivedFile
<1> HIDE DEF s, names
<1>6. Grown(m, s) /\ Filling(s, r) /\ (\A i \in Inserted : i <= n => Shown(s, r, i))
  BY DEF Filled, s
<1>7. PICK P : Labels(s, r, n, P)
  BY DEF Filled, s
<1>8. r \in Vnodes(s)
  BY <1>6 DEF Filling
<1>9. PICK k \in 0..N : \E D :
        /\ Chain(s, D, names, k) /\ D[0] = r
        /\ k < N /\ IsDir(s, D[k]) /\ ~Refuses(s, D[k]) => TmpfsLookup(s, D[k], names[k + 1]) = None
  BY <1>1, <1>4, <1>8, LongestChain
<1>10. PICK D :
         /\ Chain(s, D, names, k) /\ D[0] = r
         /\ k < N /\ IsDir(s, D[k]) /\ ~Refuses(s, D[k]) => TmpfsLookup(s, D[k], names[k + 1]) = None
  BY <1>9
<1>11. /\ k < N /\ D[k] \in Inside(s, r) /\ P[D[k]] = FirstNames(names, k)
       /\ IsDir(s, D[k]) /\ ~Refuses(s, D[k])
  BY <1>6, <1>7, <1>10, WayOpen DEF names
<1>12. TmpfsLookup(s, D[k], names[k + 1]) = None /\ k \in Nat
  BY <1>1, <1>10, <1>11
<1>13. s.node[D[k]].len < MaxEntry
  BY <1>6, <1>7, <1>11, <1>12, RoomLeft DEF names
<1>14. PICK E : Sprouts(s, D, names, k, u, E, N) /\ x = E[N]
  <2> HIDE DEF path
  <2> QED
    BY <1>1, <1>3, <1>4, <1>8, <1>10, <1>11, <1>12, <1>13, PathMade
<1> HIDE DEF made
<1>15. Filling(u, r) /\ \A i \in 0..N : E[i] \in Inside(u, r)
  BY <1>1, <1>6, <1>7, <1>10, <1>11, <1>12, <1>14, SproutsInside
<1> DEFINE Q == MoreLabels(s, r, P, u, names, k, E)
<1>16. Labels(u, r, j, Q) /\ Q[E[N]] = names
  BY <1>1, <1>6, <1>7, <1>10, <1>11, <1>12, <1>14, SproutsLabelled DEF names
<1> HIDE DEF Q
<1>17. u \in TreeType /\ Shape(u) /\ x \in Vnodes(u) /\ Grown(s, u) /\ u.node[x] = NewVnode(names[N], "DIR", "initramfs")
  <2>1. N \in 0..N
    BY <1>1
  <2>2. s.node[D[k]].fs = "initramfs"
    BY <1>6, <1>11 DEF Filling
  <2> QED
    BY <1>14, <1>15, <2>1, <2>2 DEF Filling, Inside, Sprouts
<1> HIDE DEF u, x
<1>18. ArchivedFile(FileOf(u.node[x]), file) = FileNode(j)
  <2> DEFINE node == u.node[x]
             f == FileOf(node)
             g == ArchivedFile(f, file)
             d == NewVnode(Last(path), "FILE", "initramfs")
  <2>1. node \in VnodeType /\ node = NewVnode(Last(path), "DIR", "initramfs")
    BY <1>1, <1>17, TreeFacts
  <2>2. Last(path) \in Names /\ "initramfs" \in FileSystems
    BY <1>1, NamesAreText DEF FileSystems
  <2>3. d \in VnodeType
    BY <2>2, NewVnodeType
  <2>4. /\ f \in VnodeType /\ f.name = Last(path) /\ f.type = "FILE" /\ f.fs = "initramfs" /\ f.len = 0
        /\ f.entries = <<>> /\ f.mount = None
    <3> HIDE DEF node
    <3>1. f \in VnodeType /\ f.type = "FILE" /\ f.entries = <<>> /\ f.name = node.name /\ f.mount = node.mount
      BY <2>1, FileOfType
    <3>2. f.fs = node.fs /\ f.len = node.len
      BY <2>1 DEF FileOf, VnodeType
    <3> QED
      BY <2>1, <3>1, <3>2 DEF NewVnode
  <2> HIDE DEF f
  <2>5. /\ g \in VnodeType /\ g.name = Last(path) /\ g.type = "FILE" /\ g.fs = "initramfs"
        /\ g.len = RoundUp(Archive[j].size) /\ g.entries = <<>> /\ g.mount = None /\ g.data = DataAt(j)
    <3>1. g \in VnodeType
      BY <2>4, ArchivedFileType
    <3> QED
      BY <2>4, <3>1 DEF ArchivedFile, VnodeType
  <2>6. DataAt(j) \in Word /\ RoundUp(Archive[j].size) \in Word
    OBVIOUS
  <2>7. /\ FileNode(j) \in VnodeType /\ FileNode(j).name = Last(path) /\ FileNode(j).type = "FILE"
        /\ FileNode(j).fs = "initramfs" /\ FileNode(j).len = RoundUp(Archive[j].size)
        /\ FileNode(j).entries = <<>> /\ FileNode(j).mount = None /\ FileNode(j).data = DataAt(j)
    <3>1. /\ d.name = Last(path) /\ d.type = "FILE" /\ d.fs = "initramfs" /\ d.entries = <<>>
          /\ d.mount = None
      BY DEF NewVnode
    <3>2. FileNode(j) = [d EXCEPT !.data = DataAt(j), !.len = RoundUp(Archive[j].size)]
      BY DEF FileNode
    <3> HIDE DEF d
    <3> QED
      BY <2>3, <2>6, <3>1, <3>2 DEF VnodeType
  <2> HIDE DEF g
  <2>8. g = FileNode(j)
    BY <2>5, <2>7 DEF VnodeType
  <2> QED
    BY <2>8 DEF f, g
<1>19. /\ Written(u, t, x, FileNode(j)) /\ Shape(t)
       /\ t.node[x].name = u.node[x].name /\ t.node[x].mount = u.node[x].mount
  BY <1>17, <1>18, ArchivedWrites
<1> HIDE DEF t
<1>20. Grown(s, t) /\ Filling(t, r) /\ Labels(t, r, j, Q) /\ Shown(t, r, j)
  BY <1>1, <1>6, <1>10, <1>11, <1>12, <1>14, <1>15, <1>16, <1>19, FileWritten DEF names
<1>21. Grown(m, t)
  BY <1>6, <1>20, GrownTrans
<1>22. ASSUME NEW i \in Inserted, i <= j PROVE Shown(t, r, i)
  <2>1. CASE i = j
    BY <1>20, <2>1
  <2>2. CASE i # j
    <3>1. i < j
      BY <1>1, <1>22, <2>2, InsertedFiles
    <3>2. Shown(s, r, i)
      BY <1>6, <3>1
    <3> QED
      BY <1>4, <1>20, <3>2, ShownKept
  <2> QED
    BY <2>1, <2>2
<1>23. Filled(m, r, t, j)
  BY <1>20, <1>21, <1>22 DEF Filled
<1> QED
  BY <1>5, <1>23 DEF t

(* A file without data changes nothing.                                    *)
LEMMA FilledMore ==
  ASSUME NEW m, NEW r, NEW s, NEW n \in Nat, Filled(m, r, s, n), n + 1 \notin Inserted
  PROVE  Filled(m, r, s, n + 1)
<1>1. PICK P : Labels(s, r, n, P)
  BY DEF Filled
<1>2. \A i \in Inserted : i <= n + 1 <=> i <= n
  BY InsertedFiles
<1>3. Labels(s, r, n + 1, P)
  BY <1>1, <1>2 DEF Labels
<1> QED
  BY <1>2, <1>3 DEF Filled

(* The files to insert: all but the last.                                  *)
LEMMA FilesToInsert ==
  ASSUME NEW garbage \in Garbage
  PROVE  LET files == Front(CpioParse(garbage)) IN
         /\ Len(files) = Len(Archive) - 1 /\ Len(files) \in Nat
         /\ \A n \in 1..Len(files) :
              /\ files[n] = FileIn(n)
              /\ files[n].path = Archive[n].path /\ files[n].data = DataAt(n)
              /\ files[n].size = RoundUp(Archive[n].size)
              /\ files[n].data \in Word /\ files[n].size \in Word
              /\ files[n].size > 0 <=> n \in Inserted
<1> DEFINE list == CpioParse(garbage)
           files == Front(list)
<1>1. Len(Archive) \in Nat \ {0} /\ DOMAIN Archive = 1..Len(Archive)
  BY ArchiveFacts
<1>2. list = [i \in 1..Len(Archive) |-> FileIn(i)]
  BY <1>1, EveryFileListed
<1>3. list \in Seq(ParsedFiles) /\ Len(list) = Len(Archive)
  BY <1>1, <1>2, ParseType
<1> HIDE DEF list
<1>4. Len(files) = Len(Archive) - 1 /\ Len(files) \in Nat /\ \A n \in 1..Len(files) : files[n] = list[n]
  BY <1>1, <1>3 DEF Front
<1> HIDE DEF files
<1>5. ASSUME NEW n \in 1..Len(files)
      PROVE  /\ files[n] = FileIn(n)
             /\ files[n].path = Archive[n].path /\ files[n].data = DataAt(n)
             /\ files[n].size = RoundUp(Archive[n].size)
             /\ files[n].data \in Word /\ files[n].size \in Word
             /\ files[n].size > 0 <=> n \in Inserted
  <2>1. n \in 1..Len(Archive) /\ n \in 1..Len(Archive) - 1
    BY <1>1, <1>4
  <2>2. files[n] = FileIn(n)
    BY <1>2, <1>4, <2>1
  <2>3. /\ files[n].path = Archive[n].path /\ files[n].data = DataAt(n)
        /\ files[n].size = RoundUp(Archive[n].size)
    BY <2>2 DEF FileIn
  <2>4. Archive[n].size \in Nat
    BY <2>1, ArchiveFacts
  <2>5. RoundUp(Archive[n].size) \in Nat /\ (RoundUp(Archive[n].size) > 0 <=> Archive[n].size > 0)
    BY <2>4 DEF RoundUp
  <2>6. n \in Inserted <=> Archive[n].size > 0
    BY <2>1 DEF Inserted
  <2>7. files[n].data \in Word
    <3>1. files[n] \in ParsedFiles
      BY <1>1, <1>3, <1>4, <2>1
    <3> QED
      BY <3>1, ParsedFilesType
  <2> QED
    BY <2>2, <2>3, <2>5, <2>6, <2>7 DEF Word
<1> QED
  BY <1>4, <1>5 DEF files, list

(* The tree with all of them.                                              *)
LEMMA InsertFills ==
  ASSUME ArchiveFits, NEW t \in TreeType, Shape(t), NEW start \in Vnodes(t), Filled(t, start, t, 0),
         NEW garbage \in Garbage
  PROVE  \E s \in TreeType : /\ Shape(s) /\ Filled(t, start, s, Len(Archive) - 1)
                             /\ Insert(t, start, garbage) = [s EXCEPT !.mounted = TRUE]
<1> DEFINE files == Front(CpioParse(garbage))
           N == Len(files)
           first == [tree |-> t, target |-> None]
           Values(n) == {a \in Insertions : Filled(t, start, a.tree, n) /\ start \in Vnodes(a.tree)}
           step(v, n) == IF files[n].size > 0 THEN AddArchived(v, start, files[n]) ELSE v
           S == [n \in 0..N |-> Values(n)]
           F == [n \in 1..N |-> [v \in Values(n - 1) |-> step(v, n)]]
<1>1. /\ N = Len(Archive) - 1 /\ N \in Nat
      /\ \A n \in 1..N :
           /\ files[n] = FileIn(n)
           /\ files[n].path = Archive[n].path /\ files[n].data = DataAt(n)
           /\ files[n].size = RoundUp(Archive[n].size)
           /\ files[n].data \in Word /\ files[n].size \in Word
           /\ files[n].size > 0 <=> n \in Inserted
  BY FilesToInsert
<1>2. first \in Values(0)
  <2>1. None \in Nat
    BY DEF None
  <2> QED
    BY <2>1 DEF Insertions, Target
<1>3. \A n \in 1..N : \A v \in Values(n - 1) : step(v, n) \in Values(n)
  <2> SUFFICES ASSUME NEW n \in 1..N, NEW v \in Values(n - 1) PROVE step(v, n) \in Values(n)
    OBVIOUS
  <2>1. v \in Insertions /\ Filled(t, start, v.tree, n - 1) /\ start \in Vnodes(v.tree) /\ n - 1 \in Nat /\ (n - 1) + 1 = n
    BY <1>1
  <2>2. CASE n \in Inserted
    <3> DEFINE file == files[n]
               u == AddArchived(v, start, file)
    <3>1. /\ file.path = Archive[n].path /\ file.data = DataAt(n) /\ file.size = RoundUp(Archive[n].size)
          /\ file.data \in Word /\ file.size \in Word /\ file.size > 0
      BY <1>1, <2>2
    <3> HIDE DEF file
    <3>2. file.path \in Text
      BY <2>2, <3>1, InsertedFiles, FileSystemAssumption DEF Text, WithData
    <3>3. u \in Insertions /\ Vnodes(v.tree) \subseteq Vnodes(u.tree)
      BY <2>1, <3>1, <3>2, AddArchivedAdds
    <3>4. n - 1 < n /\ \A i \in Inserted : i < n => i <= n - 1
      BY <2>1, InsertedFiles
    <3>5. Filled(t, start, u.tree, n)
      <4> HIDE DEF u
      <4> QED
        BY <2>1, <2>2, <3>1, <3>4, InsertFile DEF u
    <3>6. step(v, n) = u
      BY <3>1 DEF file
    <3> HIDE DEF u
    <3>7. u \in Values(n)
      BY <2>1, <3>3, <3>5
    <3> QED
      BY <3>6, <3>7
  <2>3. CASE n \notin Inserted
    <3>1. step(v, n) = v
      BY <1>1, <2>3
    <3>2. Filled(t, start, v.tree, n)
      BY <2>1, <2>3, FilledMore
    <3> QED
      BY <2>1, <3>1, <3>2
  <2> QED
    BY <2>2, <2>3
<1> HIDE DEF Values, step, files
<1>4. StepsWithin(N, S, F)
  BY <1>1, <1>3 DEF StepsWithin
<1>5. /\ \A n \in 1..N : \A v \in Values(n - 1) : F[n][v] = step(v, n)
      /\ \A n \in 0..N : S[n] = Values(n)
  OBVIOUS
<1> HIDE DEF S, F, first, N
<1>6. first \in S[0]
  BY <1>1, <1>2, <1>5
<1>7. PICK g : Solution(g, N, S, F, first)
  BY <1>1, <1>4, <1>6, Solvable
<1>8. /\ g = [n \in 0..N |-> IF n = 0 THEN first ELSE F[n][g[n - 1]]]
      /\ \A n \in 0..N : g[n] \in Values(n)
  BY <1>5, <1>7, Zenon DEF Solution
<1> DEFINE U(h) == h = [n \in 0..N |-> IF n = 0 THEN first ELSE step(h[n - 1], n)]
<1>9. U(g)
  <2>1. ASSUME NEW n \in 0..N, n # 0 PROVE F[n][g[n - 1]] = step(g[n - 1], n)
    <3>1. n \in 1..N /\ n - 1 \in 0..N
      BY <1>1, <2>1
    <3> QED
      BY <1>5, <1>8, <3>1
  <2> QED
    BY <1>8, <2>1
<1> DEFINE f == CHOOSE h : U(h)
<1>10. U(f)
  <2> HIDE DEF U
  <2> QED
    BY <1>9
<1>11. Insert(t, start, garbage) = [f[N].tree EXCEPT !.mounted = TRUE]
  BY Zenon DEF Insert, step, first, files, N
<1> HIDE DEF f
<1>12. f[0] = first /\ \A n \in 1..N : f[n] = step(f[n - 1], n)
  BY <1>1, <1>10
<1> DEFINE T == {n \in 0..N : f[n] \in Values(n)}
<1>13. 0..N \subseteq T
  <2>1. 0 \in T
    BY <1>1, <1>2, <1>12
  <2>2. \A n \in 1..N : n - 1 \in T => n \in T
    BY <1>1, <1>3, <1>12
  <2> HIDE DEF T
  <2> QED
    BY <1>1, <2>1, <2>2, UpTo
<1>14. f[N] \in Values(N)
  <2>1. N \in 0..N
    BY <1>1
  <2> QED
    BY <1>13, <2>1
<1>15. f[N].tree \in TreeType /\ Shape(f[N].tree) /\ Filled(t, start, f[N].tree, Len(Archive) - 1)
  BY <1>1, <1>14 DEF Values, Insertions
<1> QED
  BY <1>11, <1>15

(* The path under which the shell and the programs find a file.            *)
ShownAt(path) == InitramfsPath \o <<Slash>> \o path

(* That path, character by character.                                      *)
LEMMA ShownText ==
  ASSUME NEW path \in Text
  PROVE  /\ ShownAt(path) \in Text /\ Len(ShownAt(path)) = Len(path) + 3
         /\ ShownAt(path)[1] = Slash /\ ShownAt(path)[2] = InitramfsName /\ ShownAt(path)[3] = Slash
         /\ \A i \in 1..Len(path) : ShownAt(path)[i + 3] = path[i]
         /\ InitramfsName # Slash /\ InitramfsName # Blank
<1>1. InitramfsName \in Tokens /\ InitramfsName # Slash /\ InitramfsName # Blank /\ Slash \in Tokens
  BY FileSystemAssumption, SpecialTokens DEF Names
<1>2. ShownAt(path) = <<Slash, InitramfsName, Slash>> \o path
  BY DEF ShownAt, InitramfsPath, Text
<1>3. <<Slash, InitramfsName, Slash>> \in Seq(Tokens)
  BY <1>1
<1> QED
  BY <1>1, <1>2, <1>3 DEF Text

(* From a position behind the name of the mount the search is that of the  *)
(* path in the archive.                                                    *)
LEMMA SearchShift ==
  ASSUME NEW path \in Text, NEW i \in 1..Len(path) + 1
  PROVE  LET full == ShownAt(path) IN
         /\ NameAt(full, i + 3) = NameAt(path, i)
         /\ RestAt(full, i + 3) = RestAt(path, i) + 3
         /\ RestAt(full, i + 3) \in DOMAIN full <=> RestAt(path, i) \in DOMAIN path
<1> DEFINE full == ShownAt(path)
           N == Len(path)
<1>1. /\ N \in Nat /\ DOMAIN path = 1..N /\ DOMAIN full = 1..N + 3
      /\ \A j \in 1..N : full[j + 3] = path[j]
  BY ShownText DEF Text
<1> HIDE DEF full, N
<1>2a. \A j \in Nat \ {0} : j + 3 \in DOMAIN full <=> j \in DOMAIN path
  BY <1>1
<1>2. ASSUME NEW j \in Nat \ {0}
      PROVE  (j + 3 \in DOMAIN full /\ full[j + 3] = Slash) <=> (j \in DOMAIN path /\ path[j] = Slash)
  BY <1>1, <1>2a
<1>3. ASSUME NEW j \in Nat \ {0}
      PROVE  /\ (j + 3 \in DOMAIN full /\ full[j + 3] # Slash) <=> (j \in DOMAIN path /\ path[j] # Slash)
             /\ j \in DOMAIN path => full[j + 3] = path[j]
  BY <1>1, <1>2a
<1>4. i \in Nat \ {0}
  OBVIOUS
<1>5. FirstAt(full, i + 3) = FirstAt(path, i) + 3 /\ FirstAt(path, i) \in Nat \ {0}
  <2>1. (i + 3 \in DOMAIN full /\ full[i + 3] = Slash) <=> (i \in DOMAIN path /\ path[i] = Slash)
    BY <1>2, <1>4
  <2> QED
    BY <1>4, <2>1 DEF FirstAt
<1>6. EndAt(full, i + 3) = EndAt(path, i) + 3 /\ EndAt(path, i) \in Nat \ {0}
  <2> DEFINE j == FirstAt(path, i)
  <2>1. (j + 3 \in DOMAIN full /\ full[j + 3] # Slash) <=> (j \in DOMAIN path /\ path[j] # Slash)
    BY <1>3, <1>5
  <2> QED
    BY <1>5, <2>1 DEF EndAt
<1>7. RestAt(full, i + 3) = RestAt(path, i) + 3 /\ RestAt(path, i) \in Nat \ {0}
  <2> DEFINE j == EndAt(path, i)
  <2>1. (j + 3 \in DOMAIN full /\ full[j + 3] = Slash) <=> (j \in DOMAIN path /\ path[j] = Slash)
    BY <1>2, <1>6
  <2> QED
    BY <1>6, <2>1 DEF RestAt
<1>8. NameAt(full, i + 3) = NameAt(path, i)
  <2> DEFINE j == FirstAt(path, i)
  <2>1. /\ (j + 3 \in DOMAIN full /\ full[j + 3] # Slash) <=> (j \in DOMAIN path /\ path[j] # Slash)
        /\ j \in DOMAIN path => full[j + 3] = path[j]
    BY <1>3, <1>5
  <2> QED
    BY <1>5, <2>1 DEF NameAt
<1> QED
  BY <1>2a, <1>7, <1>8 DEF full

(* So the search from there finds the same components (first_component,    *)
(* pop_first_component, vfs.c:198-219).                                    *)
LEMMA SearchShifted ==
  ASSUME NEW path \in Text
  PROVE  \A i \in 1..Len(path) + 1 : SearchFrom(ShownAt(path))[i + 3] = SearchFrom(path)[i]
<1> DEFINE N == Len(path)
           full == ShownAt(path)
           Right(i) == SearchFrom(full)[i + 3] = SearchFrom(path)[i]
           T == {k \in 0..N + 1 : \A i \in 1..N + 1 : N + 1 - k < i => Right(i)}
<1>1. /\ N \in Nat /\ DOMAIN path = 1..N
      /\ full \in Text /\ Len(full) = N + 3
  BY ShownText DEF Text
<1>2. ASSUME NEW i \in 1..N + 1, \A j \in i + 1..N + 1 : Right(j) PROVE Right(i)
  <2> DEFINE r == RestAt(path, i)
  <2>1. r \in DOMAIN path => r \in i + 1..N + 1
    BY RestIsBehind
  <2>2. r \in DOMAIN path => SearchFrom(full)[r + 3] = SearchFrom(path)[r]
    BY <1>2, <2>1
  <2>3. /\ NameAt(full, i + 3) = NameAt(path, i)
        /\ RestAt(full, i + 3) = r + 3
        /\ RestAt(full, i + 3) \in DOMAIN full <=> r \in DOMAIN path
    BY SearchShift
  <2>4. SearchFrom(path)[i] =
          <<NameAt(path, i)>> \o (IF r \in DOMAIN path THEN SearchFrom(path)[r] ELSE <<>>)
    BY SearchFromDefined
  <2>5. SearchFrom(full)[i + 3] =
          <<NameAt(full, i + 3)>> \o
          (IF RestAt(full, i + 3) \in DOMAIN full THEN SearchFrom(full)[RestAt(full, i + 3)] ELSE <<>>)
    <3>1. i + 3 \in 1..Len(full) + 1
      BY <1>1
    <3> HIDE DEF full
    <3> QED
      BY <1>1, <3>1, SearchFromDefined
  <2> HIDE DEF full, r
  <2> QED
    BY <2>2, <2>3, <2>4, <2>5
<1> HIDE DEF Right, N
<1>3. 0 \in T
  BY <1>1
<1>4. ASSUME NEW k \in 1..N + 1, k - 1 \in T PROVE k \in T
  <2> SUFFICES ASSUME NEW i \in 1..N + 1, N + 1 - k < i PROVE Right(i)
    BY <1>1
  <2>1. \A j \in i + 1..N + 1 : j \in 1..N + 1 /\ N + 1 - (k - 1) < j
    BY <1>1
  <2>2. \A j \in i + 1..N + 1 : Right(j)
    BY <1>4, <2>1
  <2> QED
    BY <1>2, <2>2
<1>5. N + 1 \in T
  <2>1. N + 1 \in Nat /\ N + 1 \in 0..N + 1
    BY <1>1
  <2> HIDE DEF T
  <2> QED
    BY <1>3, <1>4, <2>1, UpTo
<1>6. \A i \in 1..N + 1 : Right(i)
  BY <1>1, <1>5
<1> QED
  BY <1>6 DEF Right, N, full

(* The search of that path begins with the name of the mount.              *)
LEMMA ShownSearch ==
  ASSUME NEW path \in Text, path # <<>>
  PROVE  SearchComps(ShownAt(path)) = <<InitramfsName>> \o SearchComps(path)
<1> DEFINE full == ShownAt(path)
<1>1. /\ full \in Text /\ Len(full) = Len(path) + 3 /\ DOMAIN full = 1..Len(path) + 3
      /\ Len(path) \in Nat \ {0}
      /\ full[1] = Slash /\ full[2] = InitramfsName /\ full[3] = Slash /\ InitramfsName # Slash
  BY ShownText DEF Text
<1>2. SearchFrom(full)[1 + 3] = SearchFrom(path)[1]
  BY <1>1, SearchShifted
<1> HIDE DEF full
<1>3. FirstAt(full, 1) = 2
  BY <1>1 DEF FirstAt
<1>4. EndAt(full, 1) = 3
  BY <1>1, <1>3 DEF EndAt
<1>5. RestAt(full, 1) = 4
  BY <1>1, <1>4 DEF RestAt
<1>6. NameAt(full, 1) = InitramfsName
  BY <1>1, <1>3 DEF NameAt
<1>7. SearchFrom(full)[1] = <<InitramfsName>> \o SearchFrom(full)[4]
  <2>1. 4 \in DOMAIN full /\ 1 \in 1..Len(full) + 1
    BY <1>1
  <2>2. SearchFrom(full)[1] =
          <<NameAt(full, 1)>> \o
          (IF RestAt(full, 1) \in DOMAIN full THEN SearchFrom(full)[RestAt(full, 1)] ELSE <<>>)
    BY <1>1, <2>1, SearchFromDefined
  <2> QED
    BY <1>5, <1>6, <2>1, <2>2
<1>8. SearchComps(full) = SearchFrom(full)[1] /\ SearchComps(path) = SearchFrom(path)[1]
  BY <1>1, SearchFromDefined
<1> QED
  BY <1>2, <1>7, <1>8 DEF full

(* A lookup of the name of an entry finds it, or what is mounted on it.    *)
LEMMA LookupIs ==
  ASSUME NEW t \in TreeType, Shape(t), NEW dir \in Vnodes(t), IsDir(t, dir),
         NEW c \in ToSet(t.node[dir].entries), NEW name, name = t.node[c].name
  PROVE  TmpfsLookup(t, dir, name) = IF t.node[c].mount = None THEN c ELSE t.node[c].mount
<1> DEFINE e == t.node[dir].entries
           i == EntryAt(t, dir, name)
<1>1. PICK j \in DOMAIN e : e[j] = c
  BY SetOf
<1>2. i \in DOMAIN e /\ i # 0 /\ t.node[e[i]].name = name
  <2>1. 0 \notin DOMAIN e
    BY EntriesFacts
  <2>2. \/ i = 0 /\ \A k \in DOMAIN e : t.node[e[k]].name # name
        \/ i \in DOMAIN e /\ t.node[e[i]].name = name
    BY FirstEntry
  <2> HIDE DEF i, e
  <2> QED
    BY <1>1, <2>1, <2>2
<1>3. i = j
  <2>1. DirShape(t, t.node[dir])
    BY ShapeParts
  <2> HIDE DEF i
  <2> QED
    BY <1>1, <1>2, <2>1 DEF DirShape
<1>4. \/ t.node[e[i]].mount = None /\ TmpfsLookup(t, dir, name) = e[i]
      \/ t.node[e[i]].mount # None /\ TmpfsLookup(t, dir, name) = t.node[e[i]].mount
  <2>1. i # 0
    BY <1>2
  <2> QED
    BY <2>1, LookupFinds
<1> HIDE DEF i, e
<1> QED
  BY <1>1, <1>3, <1>4

(* What main begins with (vfs_mount, vfs.c:23-74).                         *)
Bare(t) ==
  /\ t.root = 1
  /\ t.mounted = FALSE
  /\ Vnodes(t) = {1}
  /\ t.node[1] = NewVnode("", "DIR", "tmpfs")

(* The name of initramfs is made in the root.                              *)
NameMade(p, v) ==
  /\ p \in TreeType /\ Shape(p)
  /\ p.root = 1 /\ p.mounted = FALSE /\ IsDir(p, 1) /\ p.node[1].mount = None
  /\ v \in Vnodes(p) /\ v # 1
  /\ v \in ToSet(p.node[1].entries)
  /\ p.node[v] = NewVnode(InitramfsName, "DIR", "tmpfs")

(* The path of initramfs has one component, for the search and for the     *)
(* tokenizer (vfs_mount, vfs.c:23-74).                                     *)
LEMMA InitramfsPathParts ==
  /\ InitramfsPath \in Text /\ WellFormed(InitramfsPath) /\ InitramfsPath # <<Slash>>
  /\ InitramfsPath # DevPath
  /\ SearchComps(InitramfsPath) = <<InitramfsName>>
  /\ <<InitramfsName>> \in Seq(Names)
  /\ \E c : Spells(<<InitramfsName>>, InitramfsPath, c)
<1> DEFINE names == <<InitramfsName>>
           path == InitramfsPath
<1>1. InitramfsName \in Names /\ InitramfsName \in Tokens /\ InitramfsName # Blank /\ InitramfsName # Slash
  BY FileSystemAssumption DEF Names
<1>2. names \in Seq(Names) /\ names # <<>> /\ Len(names) = 1 /\ names[1] = InitramfsName
  BY <1>1
<1>3. path \in Text
  BY PathTexts
<1>4. Len(path) = 2 /\ path[1] = Slash /\ path[2] = InitramfsName
  BY DEF InitramfsPath
<1>5. path # <<Slash>>
  BY DEF InitramfsPath
<1>6. path # DevPath
  BY FileSystemAssumption DEF InitramfsPath, DevPath
<1> HIDE DEF names, path
<1>7. WellFormed(path)
  <2>1. DOMAIN path = 1..2
    BY <1>3, <1>4 DEF Text
  <2>2. \A n \in DOMAIN path : path[n] # Blank
    <3>1. Slash # Blank
      BY DEF Slash, Blank
    <3>2. \A n \in DOMAIN path : n = 1 \/ n = 2
      BY <2>1
    <3> QED
      BY <1>1, <1>4, <3>1, <3>2
  <2>3. Blank \notin ToSet(path)
    BY <2>2, SetOf
  <2> QED
    BY <1>4, <2>3 DEF WellFormed
<1>8. path = Join(names)
  <2>1. /\ Join(names) \in Text /\ Len(Join(names)) = 2 * Len(names)
        /\ \A i \in 1..Len(names) : Join(names)[2 * i - 1] = Slash /\ Join(names)[2 * i] = names[i]
    BY <1>2, JoinForm
  <2>2. 1 \in 1..Len(names) /\ 2 * 1 - 1 = 1 /\ 2 * 1 = 2
    BY <1>2
  <2>3. Join(names)[1] = Slash /\ Join(names)[2] = InitramfsName
    BY <1>2, <2>1, <2>2
  <2> HIDE DEF names
  <2>4. Len(Join(names)) = 2
    BY <1>2, <2>1
  <2> QED
    BY <1>3, <1>4, <2>1, <2>3, <2>4 DEF Text
<1>9. SearchComps(path) = names
  BY <1>2, <1>8, JoinSearched
<1>10. Blank \notin ToSet(names)
  BY <1>1, <1>2, SetOf
<1>11. \E c : Spells(names, path, c)
  BY <1>3, <1>7, <1>9, <1>10, CountsExist, SearchSpells
<1> QED
  BY <1>2, <1>3, <1>5, <1>6, <1>7, <1>9, <1>11 DEF names, path

(* vfs_mount makes the name of initramfs in the root (vfs.c:23-74).        *)
LEMMA RootMade ==
  ASSUME NEW t \in TreeType, Shape(t), Bare(t)
  PROVE  \E v : NameMade(Prepared(t, InitramfsPath), v)
<1> DEFINE names == <<InitramfsName>>
           D == [i \in 0..0 |-> 1]
           p == CreatePath(t, 1, InitramfsPath, 0, None).tree
<1>1. Prepared(t, InitramfsPath) = p
  BY DEF Prepared, Special, Mkdir, Bare
<1>2. /\ t.root = 1 /\ t.mounted = FALSE /\ 1 \in Vnodes(t) /\ t.node[1] = NewVnode("", "DIR", "tmpfs")
  BY DEF Bare
<1>3. /\ IsDir(t, 1) /\ t.node[1].fs = "tmpfs" /\ t.node[1].len = 0 /\ t.node[1].entries = <<>>
      /\ t.node[1].mount = None
  <2> DEFINE n == t.node[1]
  <2>1. n = NewVnode("", "DIR", "tmpfs")
    BY <1>2
  <2> HIDE DEF n
  <2>2. n.type = "DIR" /\ n.fs = "tmpfs" /\ n.len = 0 /\ n.entries = <<>> /\ n.mount = None
    BY <2>1 DEF NewVnode
  <2> QED
    BY <2>2 DEF n, IsDir
<1>4. /\ InitramfsPath \in Text /\ WellFormed(InitramfsPath)
      /\ names \in Seq(Names) /\ Len(names) = 1 /\ names[1] = InitramfsName
  BY InitramfsPathParts
<1>5. PICK c : Spells(names, InitramfsPath, c)
  BY InitramfsPathParts
<1> HIDE DEF names
<1>6. PICK q : Skims(q, Split(InitramfsPath), names, Len(names))
  BY <1>4, <1>5, SplitSkims
<1>7. D[0] = 1 /\ Chain(t, D, names, 0)
  <2>0. 0 \in 0..0
    OBVIOUS
  <2>1. D[0] = 1 /\ D \in [0..0 -> Vnodes(t)]
    BY <1>2, <2>0, Zenon
  <2>2. 1..0 = {}
    OBVIOUS
  <2> HIDE DEF D
  <2> QED
    BY <2>1, <2>2 DEF Chain
<1>8. ~Refuses(t, 1)
  BY <1>3 DEF Refuses
<1>9. TmpfsLookup(t, 1, names[0 + 1]) = None
  BY <1>2, <1>3, LookupEmpty
<1>10. Target(t, None)
  BY DEF Target
<1>11. t.node[1].len < MaxEntry
  BY <1>3, FileSystemAssumption
<1> HIDE DEF D
<1>12. PICK E : Sprouts(t, D, names, 0, p, E, Len(names))
  <2>1. 0 \in Nat /\ 0 < Len(names)
    BY <1>4
  <2> QED
    BY <1>2, <1>3, <1>4, <1>6, <1>7, <1>8, <1>9, <1>10, <1>11, <2>1, PathMade
<1> HIDE DEF p
<1>13. /\ Grown(t, p)
       /\ Chain(p, E, names, 1)
       /\ E[0 + 1] \notin Vnodes(t)
       /\ p.node[E[1]] = NewVnode(names[1], "DIR", t.node[D[0]].fs)
       /\ p.node[D[0]].entries = Append(t.node[D[0]].entries, E[0 + 1])
  <2>1. 1 \in 0 + 1..1
    OBVIOUS
  <2> QED
    BY <1>4, <1>12, <2>1 DEF Sprouts
<1>14. p \in TreeType /\ Shape(p) /\ p.root = 1 /\ p.mounted = FALSE /\ 1 \in Vnodes(p) /\ Stays(t, p, 1)
  BY <1>2, <1>13 DEF Grown
<1>15. IsDir(p, 1) /\ p.node[1].mount = None
  BY <1>3, <1>14 DEF Stays, IsDir
<1>16. E[1] \in Vnodes(p)
  BY <1>13 DEF Chain
<1>17. p.node[1].entries = <<E[1]>>
  BY <1>3, <1>7, <1>13
<1>18. E[1] \in ToSet(p.node[1].entries)
  <2>1. 1 \in DOMAIN <<E[1]>> /\ <<E[1]>>[1] = E[1]
    OBVIOUS
  <2> QED
    BY <1>17, <2>1, SetOf
<1>19. p.node[E[1]] = NewVnode(InitramfsName, "DIR", "tmpfs")
  BY <1>3, <1>4, <1>7, <1>13
<1>20. E[1] # 1
  <2>1. 0 + 1 = 1
    OBVIOUS
  <2> QED
    BY <1>2, <1>13, <2>1
<1>21. NameMade(p, E[1])
  BY <1>14, <1>15, <1>16, <1>18, <1>19, <1>20 DEF NameMade
<1> QED
  BY <1>1, <1>21

(* initramfs is mounted on it; its root is the last vnode, and empty.      *)
RootMounted(m) ==
  LET r == Len(m.node) IN
  /\ m \in TreeType /\ Shape(m)
  /\ m.root = 1 /\ r \in Vnodes(m) /\ 1 \in Vnodes(m) /\ IsDir(m, 1) /\ m.node[1].mount = None
  /\ TmpfsLookup(m, 1, InitramfsName) = r
  /\ m.node[r] = NewVnode("", "DIR", "initramfs")
  /\ m.mounted = FALSE

(* vfs_lookup finds the name that was made (vfs.c:77-119).                 *)
LEMMA NameFound ==
  ASSUME NEW p, NEW v, NameMade(p, v)
  PROVE  Lookup(p, InitramfsPath) = [ok |-> TRUE, target |-> v]
<1> DEFINE comps == <<InitramfsName>>
           E == [i \in 0..1 |-> IF i = 0 THEN 1 ELSE v]
<1>1. /\ p \in TreeType /\ Shape(p) /\ p.root = 1 /\ IsDir(p, 1) /\ p.node[1].mount = None
      /\ v \in Vnodes(p) /\ v \in ToSet(p.node[1].entries)
      /\ p.node[v] = NewVnode(InitramfsName, "DIR", "tmpfs")
  BY DEF NameMade
<1>2. 1 \in Vnodes(p)
  BY <1>1, ShapeParts
<1>3. p.node[v].name = InitramfsName /\ p.node[v].mount = None
  BY <1>1 DEF NewVnode
<1>4. TmpfsLookup(p, 1, InitramfsName) = v
  BY <1>1, <1>2, <1>3, LookupIs
<1>5. E[0] = 1 /\ E[1] = v /\ E \in [0..1 -> Vnodes(p)]
  BY <1>1, <1>2
<1> HIDE DEF E
<1>6. /\ comps \in Seq(Names) /\ Len(comps) = 1 /\ comps[1] = InitramfsName
      /\ InitramfsPath # <<Slash>> /\ SearchComps(InitramfsPath) = comps
  BY InitramfsPathParts
<1> HIDE DEF comps
<1>7. Leads(p, E, comps, 1)
  <2>1. \A i \in 1..1 : i = 1 /\ i - 1 = 0
    OBVIOUS
  <2> QED
    BY <1>1, <1>4, <1>5, <1>6, <2>1 DEF Leads
<1>8. Found(p, comps)[1] = [ok |-> TRUE, target |-> E[1]]
  <2>1. comps \in Text /\ 1 \in 1..Len(comps)
    BY <1>6, NamesAreText
  <2> QED
    BY <1>1, <1>7, <2>1, LeadsFound
<1> QED
  BY <1>5, <1>6, <1>8 DEF Lookup, Search

(* vfs_mount puts initramfs on the name that it has made (vfs.c:23-74).    *)
LEMMA InitramfsRoot ==
  ASSUME NEW p, NEW v, NameMade(p, v)
  PROVE  RootMounted(MountAt(p, InitramfsPath))
<1> DEFINE m == MountAt(p, InitramfsPath)
           s == NewRoot(p, "initramfs")
           f == Fresh(p)
           n == [s.node[v] EXCEPT !.mount = f]
           bare == NewVnode("", "DIR", "initramfs")
<1>1. /\ p \in TreeType /\ Shape(p) /\ p.root = 1 /\ p.mounted = FALSE /\ IsDir(p, 1) /\ p.node[1].mount = None
      /\ v \in Vnodes(p) /\ v # 1 /\ v \in ToSet(p.node[1].entries)
      /\ p.node[v] = NewVnode(InitramfsName, "DIR", "tmpfs")
  BY DEF NameMade
<1>2. 1 \in Vnodes(p)
  BY <1>1, ShapeParts
<1>3. /\ InitramfsPath \in Text /\ InitramfsPath # <<Slash>> /\ InitramfsPath # DevPath
  BY InitramfsPathParts
<1>4. Lookup(p, InitramfsPath) = [ok |-> TRUE, target |-> v]
  BY NameFound
<1>5. Reached(p, v)
  BY <1>1, <1>3, <1>4, LookupResult
<1>6. m = MountOn(p, v, "initramfs")
  BY <1>3, <1>4 DEF MountAt
<1> HIDE DEF m
<1>7. "initramfs" \in FileSystems
  BY DEF FileSystems
<1>8. m \in TreeType /\ Shape(m) /\ m.root = p.root
  BY <1>1, <1>5, <1>6, <1>7, MountOnMounts
<1>9. m = [s EXCEPT !.node[v] = n]
  BY <1>6 DEF MountOn, Setup
<1>10. bare \in VnodeType
  BY <1>7, NewVnodeType DEF Blank
<1>11. s = [p EXCEPT !.node = Append(@, bare)]
  BY DEF NewRoot
<1> HIDE DEF s, bare
<1>12. Extends(p, s, bare) /\ OthersStay(p, s, 0)
  BY <1>1, <1>10, <1>11, AppendVnode
<1>13. /\ s \in TreeType /\ s.mounted = FALSE /\ Len(s.node) = f /\ s.node[f] = bare /\ f \in Vnodes(s)
       /\ v \in Vnodes(s) /\ 1 \in Vnodes(s) /\ v # f
       /\ s.node[v] = p.node[v] /\ s.node[1] = p.node[1] /\ f \in Nat \ {0}
  <2>1. /\ s \in TreeType /\ s.mounted = p.mounted /\ Len(s.node) = Len(p.node) + 1 /\ s.node[f] = bare
        /\ f \in Vnodes(s)
        /\ \A w \in Vnodes(p) : w \in Vnodes(s) /\ w < f
    BY <1>12 DEF Extends
  <2>2. v \in Nat \ {0} /\ f \in Nat \ {0}
    BY <1>1, TreeFacts
  <2>3. s.node[v] = p.node[v] /\ s.node[1] = p.node[1]
    BY <1>1, <1>2, <1>12, <2>2 DEF OthersStay
  <2> QED
    BY <1>1, <1>2, <2>1, <2>2, <2>3 DEF Fresh
<1> HIDE DEF f
<1>14. n \in VnodeType /\ n.mount = f /\ n.name = InitramfsName
  <2>1. s.node[v] \in VnodeType
    BY <1>13, TreeFacts
  <2>2. s.node[v].name = InitramfsName
    BY <1>1, <1>13 DEF NewVnode
  <2> QED
    BY <1>13, <2>1, <2>2 DEF VnodeType
<1> HIDE DEF n
<1>15. Written(s, m, v, n)
  BY <1>9, <1>13, <1>14, WriteVnode
<1>16. /\ m.mounted = FALSE /\ Len(m.node) = f /\ f \in Vnodes(m) /\ 1 \in Vnodes(m)
       /\ m.node[v] = n /\ m.node[f] = bare /\ m.node[1] = p.node[1]
  BY <1>1, <1>13, <1>15 DEF Written, OthersStay
<1>17. TmpfsLookup(m, 1, InitramfsName) = f
  <2>1. IsDir(m, 1) /\ v \in ToSet(m.node[1].entries)
    BY <1>1, <1>16 DEF IsDir
  <2>2. f # None
    BY <1>13 DEF None
  <2>3. InitramfsName = m.node[v].name
    BY <1>14, <1>16
  <2>4. TmpfsLookup(m, 1, InitramfsName) = IF m.node[v].mount = None THEN v ELSE m.node[v].mount
    BY <1>8, <1>16, <2>1, <2>3, LookupIs
  <2> QED
    BY <1>14, <1>16, <2>2, <2>4
<1>18. IsDir(m, 1) /\ m.node[1].mount = None
  BY <1>1, <1>16 DEF IsDir
<1>19. RootMounted(m)
  BY <1>1, <1>8, <1>16, <1>17, <1>18 DEF RootMounted, bare
<1> QED
  BY <1>19 DEF m

(* Nothing of the archive is in it yet.                                    *)
LEMMA NothingFilled ==
  ASSUME NEW m, RootMounted(m)
  PROVE  Filled(m, Len(m.node), m, 0)
<1> DEFINE r == Len(m.node)
           P == [v \in Inside(m, r) |-> <<>>]
<1>1. /\ m \in TreeType /\ Shape(m) /\ r \in Vnodes(m) /\ m.mounted = FALSE
      /\ m.node[r] = NewVnode("", "DIR", "initramfs")
  BY DEF RootMounted
<1>2. /\ m.node[r].type = "DIR" /\ m.node[r].fs = "initramfs" /\ m.node[r].mount = None
      /\ m.node[r].entries = <<>>
  <2> DEFINE n == m.node[r]
  <2>1. n = NewVnode("", "DIR", "initramfs")
    BY <1>1
  <2> HIDE DEF n
  <2>2. n.type = "DIR" /\ n.fs = "initramfs" /\ n.mount = None /\ n.entries = <<>>
    BY <2>1 DEF NewVnode
  <2> QED
    BY <2>2 DEF n
<1>3. Inside(m, r) = {r}
  <2>1. r \in Nat /\ \A v \in Vnodes(m) : v \in Nat /\ v <= r
    <3>1. m \in TreeType
      BY <1>1
    <3>2. Len(m.node) \in Nat
      BY <3>1, TreeFacts
    <3>3. Vnodes(m) = 1..r
      BY DEF Vnodes
    <3> HIDE DEF r
    <3> QED
      BY <3>2, <3>3 DEF r
  <2>2. \A v \in Vnodes(m) : r <= v <=> v = r
    BY <2>1
  <2> QED
    BY <1>1, <2>2 DEF Inside
<1>4. Filling(m, r)
  BY <1>1, <1>2, <1>3 DEF Filling, IsDir
<1>5. P[r] = <<>> /\ P \in [Inside(m, r) -> Seq(Names)]
  BY <1>3
<1>6. ToSet(m.node[r].entries) = {}
  BY <1>2 DEF ToSet
<1> HIDE DEF P
<1>7. Labels(m, r, 0, P)
  BY <1>3, <1>5, <1>6 DEF Labels
<1>8. \A i \in Inserted : ~(i <= 0)
  BY InsertedFiles
<1>9. Grown(m, m)
  BY <1>1, GrownRefl
<1> QED
  BY <1>4, <1>7, <1>8, <1>9 DEF Filled

(* From the root to a file of the archive: the root of the mount, then the *)
(* chain of its path.                                                      *)
LEMMA ShownFound ==
  ASSUME ArchiveFits, NEW u \in TreeType, Shape(u), u.root = 1, IsDir(u, 1), u.node[1].mount = None,
         NEW r, TmpfsLookup(u, 1, InitramfsName) = r, NEW i \in Inserted, NEW D, D[0] = r,
         D \in [0..Len(NamesOf(i)) -> Vnodes(u)],
         \A n \in 1..Len(NamesOf(i)) :
           IsDir(u, D[n - 1]) /\ u.node[D[n - 1]].mount = None /\ TmpfsLookup(u, D[n - 1], NamesOf(i)[n]) = D[n]
  PROVE  Lookup(u, ShownAt(Archive[i].path)) = [ok |-> TRUE, target |-> D[Len(NamesOf(i))]]
<1> DEFINE names == NamesOf(i)
           N == Len(names)
           path == Archive[i].path
           full == ShownAt(path)
           comps == <<InitramfsName>> \o names
           E == [n \in 0..N + 1 |-> IF n = 0 THEN 1 ELSE D[n - 1]]
<1>1. path \in Text /\ path # <<>> /\ names \in Seq(Names) /\ N \in Nat \ {0} /\ names = SearchComps(path)
  BY InsertedFiles, NamesOfFile DEF NamesOf
<1>2. /\ D[0] = r /\ D \in [0..N -> Vnodes(u)]
      /\ \A n \in 1..N :
           IsDir(u, D[n - 1]) /\ u.node[D[n - 1]].mount = None /\ TmpfsLookup(u, D[n - 1], names[n]) = D[n]
  OBVIOUS
<1> HIDE DEF path
<1>3. full # <<Slash>>
  <2>1. Len(full) = Len(path) + 3 /\ Len(path) \in Nat /\ Len(<<Slash>>) = 1
    BY <1>1, ShownText DEF Text
  <2> HIDE DEF full
  <2> QED
    BY <2>1
<1>4. SearchComps(full) = comps
  BY <1>1, ShownSearch
<1>5. /\ comps \in Text /\ Len(comps) = N + 1 /\ comps[1] = InitramfsName
      /\ \A n \in 1..N : comps[n + 1] = names[n]
  <2>1. <<InitramfsName>> \in Seq(Names)
    BY InitramfsPathParts
  <2> HIDE DEF names, N
  <2>2. comps \in Seq(Names) /\ Len(comps) = Len(names) + 1 /\ comps[1] = InitramfsName
        /\ \A n \in 1..Len(names) : comps[n + 1] = names[n]
    BY <1>1, <2>1
  <2> QED
    BY <2>2, NamesAreText DEF N
<1> HIDE DEF full, comps, names, N
<1>6. 1 \in Vnodes(u)
  BY ShapeParts
<1>7. /\ E \in [0..N + 1 -> Vnodes(u)] /\ E[0] = 1 /\ E[N + 1] = D[N]
      /\ \A n \in 1..N + 1 : E[n] = D[n - 1]
  BY <1>1, <1>2, <1>6
<1> HIDE DEF E
<1>8. ASSUME NEW n \in 1..N + 1
      PROVE  /\ IsDir(u, E[n - 1])
             /\ u.node[E[n - 1]].mount = None
             /\ TmpfsLookup(u, E[n - 1], comps[n]) = E[n]
  <2>1. CASE n = 1
    <3>1. n - 1 = 0 /\ E[n] = D[0]
      BY <1>1, <1>7, <2>1
    <3> QED
      BY <1>2, <1>5, <1>7, <2>1, <3>1
  <2>2. CASE n # 1
    <3>1. n - 1 \in 1..N /\ n - 1 \in 1..N + 1 /\ n = (n - 1) + 1
      BY <1>1, <2>2
    <3>2. E[n - 1] = D[(n - 1) - 1] /\ E[n] = D[n - 1]
      BY <1>7, <3>1
    <3>3. comps[n] = names[n - 1]
      BY <1>5, <3>1
    <3> QED
      BY <1>2, <3>1, <3>2, <3>3
  <2> QED
    BY <2>1, <2>2
<1>9. Leads(u, E, comps, N + 1)
  BY <1>7, <1>8 DEF Leads
<1>10. Found(u, comps)[N + 1] = [ok |-> TRUE, target |-> E[N + 1]]
  <2>1. N + 1 \in 1..Len(comps)
    BY <1>1, <1>5
  <2> QED
    BY <1>5, <1>9, <2>1, LeadsFound
<1>11. Lookup(u, full) = [ok |-> TRUE, target |-> D[N]]
  BY <1>3, <1>4, <1>5, <1>7, <1>10 DEF Lookup, Search
<1> QED
  BY <1>11 DEF full, path, N, names

(* Main mounts initramfs with its files, each found at its path            *)
(* (initramfs_setup_mount, cpio.c:189-206).                                *)
Booted(u) ==
  \A i \in Inserted : \E v \in Vnodes(u) :
    /\ u.node[v] = FileNode(i)
    /\ Lookup(u, ShownAt(Archive[i].path)) = [ok |-> TRUE, target |-> v]

(* The first of the two mounts of main that follow inserts the archive     *)
(* (cpio.c:189-206).                                                       *)
LEMMA InitramfsBoots ==
  ASSUME ArchiveFits, NEW t \in TreeType, Shape(t), Bare(t), NEW garbage \in Garbage
  PROVE  LET m == MountAt(Prepared(t, InitramfsPath), InitramfsPath) IN
         Booted(Insert(m, Len(m.node), garbage))
<1> DEFINE m == MountAt(Prepared(t, InitramfsPath), InitramfsPath)
           r == Len(m.node)
           u == Insert(m, r, garbage)
<1>1. PICK x : NameMade(Prepared(t, InitramfsPath), x)
  BY RootMade
<1>2. RootMounted(m)
  BY <1>1, InitramfsRoot
<1>3. u \in TreeType /\ Shape(u)
  BY InitramfsMounts
<1> HIDE DEF m
<1>4. /\ m \in TreeType /\ Shape(m) /\ m.root = 1 /\ r \in Vnodes(m) /\ 1 \in Vnodes(m) /\ IsDir(m, 1)
      /\ m.node[1].mount = None
      /\ TmpfsLookup(m, 1, InitramfsName) = r
      /\ Filled(m, r, m, 0)
  BY <1>2, NothingFilled DEF RootMounted
<1>5. PICK s \in TreeType : /\ Shape(s) /\ Filled(m, r, s, Len(Archive) - 1)
                            /\ u = [s EXCEPT !.mounted = TRUE]
  <2> HIDE DEF r
  <2>1. \E s \in TreeType : /\ Shape(s) /\ Filled(m, r, s, Len(Archive) - 1)
                            /\ Insert(m, r, garbage) = [s EXCEPT !.mounted = TRUE]
    BY <1>4, InsertFills
  <2> QED
    BY <2>1
<1> HIDE DEF u, r
<1>6. /\ Grown(m, s) /\ Filling(s, r) /\ (\E P : Labels(s, r, Len(Archive) - 1, P))
      /\ \A i \in Inserted : i <= Len(Archive) - 1 => Shown(s, r, i)
  BY <1>5 DEF Filled
<1>7. /\ s.root = 1 /\ 1 \in Vnodes(s) /\ r \in Vnodes(s) /\ IsDir(s, 1) /\ s.node[1].mount = None
      /\ s.node[r].mount = m.node[r].mount
  BY <1>4, <1>6 DEF Grown, Stays, IsDir
<1>8. TmpfsLookup(s, 1, InitramfsName) = r
  <2>1. Preserves(m, s)
    BY <1>4, <1>6, GrownPreserves
  <2>2. r # None
    BY <1>4, TreeFacts DEF None
  <2> QED
    BY <1>4, <1>5, <1>7, <2>1, <2>2, LookupKept
<1>9. u.node = s.node /\ u.root = s.root
  BY <1>5 DEF TreeType
<1>10. Vnodes(u) = Vnodes(s) /\ \A v \in Vnodes(s) : IsDir(u, v) = IsDir(s, v)
  BY <1>9 DEF Vnodes, IsDir
<1>11. \A v \in Vnodes(s) : \A name : TmpfsLookup(u, v, name) = TmpfsLookup(s, v, name)
  <2> SUFFICES ASSUME NEW v \in Vnodes(s), NEW name PROVE TmpfsLookup(u, v, name) = TmpfsLookup(s, v, name)
    OBVIOUS
  <2>1. u.node[v].entries = s.node[v].entries /\ u.node[v].type = s.node[v].type
    BY <1>9
  <2>2. \A w \in Vnodes(s) : u.node[w].name = s.node[w].name /\ u.node[w].mount = s.node[w].mount
    BY <1>9
  <2>3. s \in TreeType /\ Shape(s)
    BY <1>5
  <2> QED
    BY <2>1, <2>2, <2>3, LookupSame
<1>12. ASSUME NEW i \in Inserted
       PROVE  \E v \in Vnodes(u) : /\ u.node[v] = FileNode(i)
                                   /\ Lookup(u, ShownAt(Archive[i].path)) = [ok |-> TRUE, target |-> v]
  <2> DEFINE names == NamesOf(i)
             N == Len(names)
  <2>1. N \in Nat \ {0} /\ N \in 0..N /\ names \in Seq(Names)
    BY InsertedFiles, NamesOfFile
  <2>2. Shown(s, r, i)
    <3>1. i <= Len(Archive) - 1
      BY InsertedFiles, ArchiveFacts
    <3> QED
      BY <1>6, <3>1
  <2>3. PICK D : Chain(s, D, names, N) /\ D[0] = r /\ s.node[D[N]] = FileNode(i)
    BY <2>2 DEF Shown
  <2>4. /\ D \in [0..N -> Vnodes(s)]
        /\ \A n \in 1..N : IsDir(s, D[n - 1]) /\ TmpfsLookup(s, D[n - 1], names[n]) = D[n]
    BY <2>3 DEF Chain
  <2>5. PICK P : Labels(s, r, Len(Archive) - 1, P)
    BY <1>6
  <2>6. \A n \in 0..N : D[n] \in Inside(s, r)
    BY <1>6, <2>1, <2>3, <2>5, ChainLabels
  <2>7. \A n \in 0..N : s.node[D[n]].mount = None
    BY <1>6, <2>6 DEF Filling
  <2>8. ASSUME NEW n \in 1..N
        PROVE  /\ IsDir(u, D[n - 1]) /\ u.node[D[n - 1]].mount = None
               /\ TmpfsLookup(u, D[n - 1], names[n]) = D[n]
    <3>1. n - 1 \in 0..N
      BY <2>1
    <3> QED
      BY <1>9, <1>10, <1>11, <2>4, <2>7, <3>1
  <2>9. D \in [0..N -> Vnodes(u)]
    BY <1>10, <2>4
  <2>10. u.root = 1 /\ IsDir(u, 1) /\ u.node[1].mount = None /\ TmpfsLookup(u, 1, InitramfsName) = r
    BY <1>7, <1>8, <1>9, <1>10, <1>11
  <2>11. Lookup(u, ShownAt(Archive[i].path)) = [ok |-> TRUE, target |-> D[N]]
    BY <1>3, <2>3, <2>8, <2>9, <2>10, ShownFound DEF u
  <2>12. D[N] \in Vnodes(u) /\ u.node[D[N]] = FileNode(i)
    BY <1>9, <2>1, <2>3, <2>9
  <2> QED
    BY <2>11, <2>12
<1> QED
  BY <1>12 DEF Booted, u, r, m

(* The vnode of a file is one that holds it.                               *)
LEMMA FileHeld ==
  ASSUME NEW t \in TreeType, NEW i, NEW v \in Vnodes(t), t.node[v] = FileNode(i)
  PROVE  Holds(t, i)
<1> DEFINE n == NewVnode(Last(Archive[i].path), "FILE", "initramfs")
           file(m) == [n EXCEPT !.data = DataAt(i), !.len = RoundUp(Archive[i].size), !.mount = m]
           node == t.node[v]
<1>1. node = FileNode(i) /\ node \in VnodeType
  BY TreeFacts
<1>2. \A m : [FileNode(i) EXCEPT !.mount = m] = file(m)
  BY DEF FileNode, NewVnode
<1> HIDE DEF node, file
<1>3. node = [node EXCEPT !.mount = node.mount]
  BY <1>1 DEF VnodeType
<1>4. node = file(node.mount)
  BY <1>1, <1>2, <1>3
<1> QED
  BY <1>4, Zenon DEF Holds, file, node

(* What the boot makes of the tree, and what then stays of the archive.    *)
ArchiveInv ==
  /\ boot \in 1..3
  /\ boot = 1 => Bare(tree)
  /\ boot = 2 => Booted(tree)
  /\ boot > 1 /\ ~damaged => \A i \in Inserted : Holds(tree, i)

(* Main begins with a root and nothing else (vfs_mount, vfs.c:23-74).      *)
LEMMA InitArchiveInv == Init => ArchiveInv
<1> SUFFICES ASSUME Init PROVE ArchiveInv
  OBVIOUS
<1> DEFINE vnode == NewVnode("", "DIR", "tmpfs")
           empty == [node |-> <<>>, root |-> 1, mounted |-> FALSE]
<1>1. vnode \in VnodeType
  <2>1. "" \in Names \cup {Blank} /\ "tmpfs" \in FileSystems
    BY DEF Blank, FileSystems
  <2> QED
    BY <2>1, NewVnodeType
<1>2. empty \in TreeType /\ empty.root = 1 /\ Len(empty.node) = 0 /\ empty.mounted = FALSE
  BY DEF TreeType
<1>3. tree = [empty EXCEPT !.node = Append(@, vnode)]
  BY DEF Init, NewRoot
<1> HIDE DEF vnode, empty
<1>4. tree.root = 1 /\ tree.mounted = FALSE /\ Vnodes(tree) = {1} /\ tree.node[1] = vnode
  BY <1>1, <1>2, <1>3, AppendVnode DEF Extends, Fresh, Vnodes
<1>5. Bare(tree)
  BY <1>4 DEF Bare, vnode
<1>6. boot = 1
  BY DEF Init
<1> QED
  BY <1>5, <1>6 DEF ArchiveInv

(* The mount of initramfs shows the files, and each later call keeps them  *)
(* (cpio.c:189-206, vfs.c:23-158).                                         *)
LEMMA NextArchiveInv ==
  ASSUME ArchiveFits, TreeIInv, TreeIInv', ArchiveInv, [Next]_vars
  PROVE  ArchiveInv'
<1>1. tree \in TreeType /\ Shape(tree) /\ tree' \in TreeType /\ Shape(tree')
  BY DEF TreeIInv
<1>2. /\ boot \in 1..3
      /\ boot = 1 => Bare(tree)
      /\ boot = 2 => Booted(tree)
      /\ boot > 1 /\ ~damaged => \A i \in Inserted : Holds(tree, i)
  BY DEF ArchiveInv
<1>3. CASE BootMount /\ boot = 1
  <2>1. PICK garbage \in Garbage :
          LET m == MountAt(Prepared(tree, InitramfsPath), InitramfsPath)
          IN tree' = Insert(m, Len(m.node), garbage)
    BY <1>3 DEF BootMount
  <2>2. Booted(tree')
    BY <1>1, <1>2, <1>3, <2>1, InitramfsBoots
  <2>3. \A i \in Inserted : Holds(tree', i)
    BY <1>1, <2>2, FileHeld DEF Booted
  <2>4. boot' = 2
    BY <1>3 DEF BootMount
  <2> QED
    BY <2>2, <2>3, <2>4 DEF ArchiveInv
<1>4. CASE Next /\ boot # 1
  <2>1. boot > 1 /\ boot' = 3
    <3>1. CASE BootMount
      BY <1>2, <1>4, <3>1 DEF BootMount
    <3>2. CASE ~BootMount
      <4>1. boot = 3 /\ boot' = boot
        BY <1>4, <3>2 DEF Next, MkdirCall, OpenCall, WriteCall, MountCall, ChdirCall, TaskCreate, Running
      <4> QED
        BY <4>1
    <3> QED
      BY <3>1, <3>2
  <2>2. ~damaged' => ~damaged
    BY <1>4 DEF Next, BootMount, MkdirCall, OpenCall, WriteCall, MountCall, ChdirCall, TaskCreate
  <2>3. ASSUME ~damaged', NEW i \in Inserted PROVE Holds(tree', i)
    BY <1>2, <1>4, <2>1, <2>2, <2>3, StepHolds
  <2> QED
    BY <2>1, <2>3 DEF ArchiveInv
<1>5. CASE UNCHANGED vars
  BY <1>2, <1>5 DEF ArchiveInv, vars, Holds, Bare, Booted
<1>6. CASE Next /\ boot = 1
  BY <1>3, <1>6 DEF Next, MkdirCall, OpenCall, WriteCall, MountCall, ChdirCall, TaskCreate, Running
<1> QED
  BY <1>4, <1>5, <1>6

(* The archive in the tree, whatever the calls.                            *)
LEMMA ArchiveInductive ==
  ASSUME ArchiveFits
  PROVE  Spec => []ArchiveInv
<1>1. TreeIInv /\ TreeIInv' /\ ArchiveInv /\ [Next]_vars => ArchiveInv'
  BY NextArchiveInv
<1> QED
  BY <1>1, InitArchiveInv, TreeInductive, PTL DEF Spec

(* The files of the archive are in the tree from the mount of initramfs on,*)
(* with their data, and main has made them where their paths lead          *)
(* (initramfs_setup_mount, cpio.c:189-206), as long as no open has made a  *)
(* file of a vnode that it had not created.  ArchiveFits says what an      *)
(* archive of a file tree is like, and how large its directories may be.   *)
THEOREM ArchiveShown ==
  ASSUME ArchiveFits
  PROVE  Spec => []ArchiveIntact
<1>1. ArchiveInv => ArchiveIntact
  <2> SUFFICES ASSUME ArchiveInv, NEW i \in Inserted
               PROVE  /\ boot > 1 /\ ~damaged => Holds(tree, i)
                      /\ boot = 2 => Lookup(tree, ShownAt(Archive[i].path)).ok
    BY Zenon DEF ArchiveIntact, Holds, ShownAt
  <2>1. boot > 1 /\ ~damaged => Holds(tree, i)
    BY DEF ArchiveInv
  <2>2. ASSUME boot = 2 PROVE Lookup(tree, ShownAt(Archive[i].path)).ok
    <3>1. PICK v \in Vnodes(tree) : Lookup(tree, ShownAt(Archive[i].path)) = [ok |-> TRUE, target |-> v]
      BY <2>2 DEF ArchiveInv, Booted
    <3> QED
      BY <3>1
  <2> QED
    BY <2>1, <2>2
<1> QED
  BY <1>1, ArchiveInductive, PTL

(* Two files with data have different paths.                               *)
LEMMA PathsDiffer ==
  ASSUME ArchiveFits, NEW i \in WithData, NEW j \in WithData, Archive[i].path = Archive[j].path
  PROVE  i = j
<1> SUFFICES ASSUME i # j PROVE FALSE
  OBVIOUS
<1>1. ~Prefix(NamesOf(i), NamesOf(j))
  BY NoPathOnTheWay
<1>2. NamesOf(i) = NamesOf(j)
  BY DEF NamesOf
<1>3. Len(NamesOf(j)) \in Nat
  BY NamesOfFile
<1>4. Prefix(NamesOf(j), NamesOf(j))
  BY <1>3 DEF Prefix
<1> QED
  BY <1>1, <1>2, <1>4

(* The shell, load_program and the file system read the same of the        *)
(* archive (cpio.c:26-153, 189-206), whatever the uninitialised digit of   *)
(* read_header holds: what initramfs shows under the path of a file is     *)
(* what cpio_cat and load_program find.                                    *)
THEOREM SameArchive ==
  ASSUME ArchiveFits
  PROVE  Spec => []WalksAgree
<1>1. ArchiveInv => WalksAgree
  <2> SUFFICES ASSUME ArchiveInv, boot = 2, NEW garbage \in Garbage
               PROVE  /\ CpioLs(garbage) = [i \in DOMAIN Archive |-> Archive[i].path]
                      /\ \A i \in DOMAIN Archive :
                           Archive[i].size > 0 =>
                             LET shown == Lookup(tree, ShownAt(Archive[i].path))
                                 file == CpioCat(Archive[i].path, garbage)
                             IN
                             /\ file = FileIn(i)
                             /\ LoadProgram(Archive[i].path, garbage) =
                                  IF file.size > MaxProgramSize THEN Lost ELSE file
                             /\ i \in Inserted =>
                                  shown.ok /\ tree.node[shown.target].data = file.data
    BY Zenon DEF WalksAgree, ShownAt, FileIn
  <2>1. CpioLs(garbage) = [i \in DOMAIN Archive |-> Archive[i].path]
    BY EveryFileListed
  <2>2. ASSUME NEW i \in DOMAIN Archive, Archive[i].size > 0
        PROVE  /\ CpioCat(Archive[i].path, garbage) = FileIn(i)
               /\ LoadProgram(Archive[i].path, garbage) =
                    IF RoundUp(Archive[i].size) > MaxProgramSize THEN Lost ELSE FileIn(i)
    <3>1. ASSUME NEW j \in DOMAIN Archive, Archive[j].path = Archive[i].path, Archive[j].size > 0
          PROVE  i <= j
      <4>1. i \in WithData /\ j \in WithData
        BY <2>2, <3>1 DEF WithData
      <4>2. i = j
        BY <3>1, <4>1, PathsDiffer
      <4>3. i \in Nat
        BY ArchiveFacts
      <4> QED
        BY <4>2, <4>3
    <3> QED
      BY <2>2, <3>1, FirstFileFound
  <2>3. ASSUME NEW i \in Inserted
        PROVE  LET shown == Lookup(tree, ShownAt(Archive[i].path))
               IN shown.ok /\ tree.node[shown.target].data = FileIn(i).data
    <3>1. PICK v \in Vnodes(tree) : /\ tree.node[v] = FileNode(i)
                                    /\ Lookup(tree, ShownAt(Archive[i].path)) = [ok |-> TRUE, target |-> v]
      BY DEF ArchiveInv, Booted
    <3>2. FileNode(i).data = DataAt(i) /\ FileIn(i).data = DataAt(i)
      BY DEF FileNode, NewVnode, FileIn
    <3> QED
      BY <3>1, <3>2
  <2>4. \A i : FileIn(i).size = RoundUp(Archive[i].size)
    BY DEF FileIn
  <2> QED
    BY <2>1, <2>2, <2>3, <2>4
<1> QED
  BY <1>1, ArchiveInductive, PTL

(* A path as parentheses: names open, ".." closes.                         *)
Levels(comps) == [k \in 1..Len(comps) |-> Level(comps[k])]

(* What to_abs_path makes of a component (vfs.c:266-285).                  *)
LEMMA LevelFacts ==
  ASSUME NEW name
  PROVE  /\ Level(name) \in {-1, 0, 1}
         /\ Level(name) = 0 <=> name \in {Blank, CurrentDir}
         /\ Level(name) = -1 <=> name = ParentDir
<1>1. ParentDir \notin {Blank, CurrentDir}
  BY DEF Blank, CurrentDir, ParentDir
<1>2. CASE name \in {Blank, CurrentDir}
  <2>1. Level(name) = 0
    BY <1>1, <1>2 DEF Level
  <2> QED
    BY <1>1, <1>2, <2>1
<1>3. CASE name = ParentDir
  <2>1. Level(name) = -1
    BY <1>1, <1>3 DEF Level
  <2> QED
    BY <1>1, <1>3, <2>1
<1>4. CASE name \notin {Blank, CurrentDir} /\ name # ParentDir
  <2>1. Level(name) = 1
    BY <1>4 DEF Level
  <2> QED
    BY <1>4, <2>1
<1> QED
  BY <1>2, <1>3, <1>4

(* They are parentheses.                                                   *)
LEMMA LevelsType ==
  ASSUME NEW comps \in Seq(Tokens)
  PROVE  /\ Levels(comps) \in [1..Len(comps) -> {-1, 0, 1}]
         /\ \A k \in 1..Len(comps) : Levels(comps)[k] = Level(comps[k])
BY LevelFacts DEF Levels

(* The reference, component by component.                                  *)
LEMMA CanonicalSteps ==
  ASSUME NEW comps \in Seq(Tokens)
  PROVE  \E b, g : /\ Balances(b, Levels(comps), Len(comps))
                   /\ g[0] = <<>>
                   /\ \A k \in 1..Len(comps) :
                        g[k] = IF Remains(b, Levels(comps), Len(comps), k) THEN Append(g[k - 1], comps[k]) ELSE g[k - 1]
                   /\ \A k \in 0..Len(comps) : g[k] \in Seq(Tokens)
                   /\ Canonical(comps) = g[Len(comps)]
<1> DEFINE N == Len(comps)
           U(h) == h = [k \in 0..N |-> IF k = 0 THEN 0 ELSE h[k - 1] + Level(comps[k])]
           b == CHOOSE h : U(h)
           cancel(i, j) == b[j] = b[i - 1] /\ \A k \in i..j - 1 : b[k] > b[i - 1]
           kept(k) ==
             /\ Level(comps[k]) # 0
             /\ \A i, j \in DOMAIN comps : i < j /\ k \in {i, j} => ~cancel(i, j)
           V(h) == h = [k \in 0..N |-> IF k = 0 THEN <<>>
                                       ELSE IF kept(k) THEN Append(h[k - 1], comps[k]) ELSE h[k - 1]]
           g == CHOOSE h : V(h)
<1>1. N \in Nat /\ DOMAIN comps = 1..N
  OBVIOUS
<1>2. Canonical(comps) = g[N]
  BY Zenon DEF Canonical
<1>3. U(b)
  <2> DEFINE first == 0
             Values == Int
             step(v, k) == v + Level(comps[k])
             S == [k \in 0..N |-> Values]
             F == [k \in 1..N |-> [v \in Values |-> step(v, k)]]
  <2>1. first \in Values /\ \A k \in 1..N : \A v \in Values : step(v, k) \in Values
    <3>1. \A k \in 1..N : Level(comps[k]) \in Int
      BY LevelFacts
    <3> QED
      BY <3>1
  <2> HIDE DEF step, Values
  <2>2. StepsWithin(N, S, F)
    BY <1>1, <2>1 DEF StepsWithin
  <2>3. /\ \A k \in 1..N : \A v \in Values : F[k][v] = step(v, k)
        /\ \A k \in 0..N : S[k] = Values
    OBVIOUS
  <2> HIDE DEF S, F, first
  <2>4. first \in S[0]
    BY <1>1, <2>1, <2>3
  <2>5. PICK h : Solution(h, N, S, F, first)
    BY <1>1, <2>2, <2>4, Solvable
  <2>6. /\ h = [k \in 0..N |-> IF k = 0 THEN first ELSE F[k][h[k - 1]]]
        /\ \A k \in 0..N : h[k] \in Values
    BY <2>3, <2>5, Zenon DEF Solution
  <2>7. \A k \in 0..N : k # 0 => F[k][h[k - 1]] = step(h[k - 1], k)
    <3> SUFFICES ASSUME NEW k \in 0..N, k # 0 PROVE F[k][h[k - 1]] = step(h[k - 1], k)
      OBVIOUS
    <3>1. k \in 1..N /\ k - 1 \in 0..N
      BY <1>1
    <3> QED
      BY <2>3, <2>6, <3>1
  <2>8. h = [k \in 0..N |-> IF k = 0 THEN first ELSE step(h[k - 1], k)]
    BY <2>6, <2>7
  <2>9. U(h)
    BY <2>8, Zenon DEF step, first
  <2> HIDE DEF U
  <2> QED
    BY <2>9
<1> HIDE DEF b
<1>4. Balances(b, Levels(comps), Len(comps))
  <2>1. b[0] = 0 /\ \A k \in 1..N : b[k] = b[k - 1] + Level(comps[k])
    BY <1>1, <1>3
  <2> DEFINE T == {k \in 0..N : b[k] \in Int}
  <2>2. 0 \in T
    BY <1>1, <2>1
  <2>3. \A k \in 1..N : k - 1 \in T => k \in T
    <3> SUFFICES ASSUME NEW k \in 1..N, k - 1 \in T PROVE k \in T
      OBVIOUS
    <3>1. Level(comps[k]) \in Int
      BY LevelFacts
    <3> QED
      BY <1>1, <2>1, <3>1
  <2>4. 0..N \subseteq T
    <3> HIDE DEF T
    <3> QED
      BY <1>1, <2>2, <2>3, UpTo
  <2> QED
    BY <2>1, <2>4, LevelsType DEF Balances
<1>5. \A k \in 1..N : kept(k) <=> Remains(b, Levels(comps), N, k)
  BY <1>1, LevelsType DEF Remains, Cancels
<1> HIDE DEF cancel, kept
<1> DEFINE Values == Seq(Tokens)
           step(v, k) == IF kept(k) THEN Append(v, comps[k]) ELSE v
<1>6. \A k \in 1..N : \A v \in Values : step(v, k) \in Values
  <2> SUFFICES ASSUME NEW k \in 1..N, NEW v \in Seq(Tokens) PROVE step(v, k) \in Seq(Tokens)
    OBVIOUS
  <2>1. comps[k] \in Tokens
    OBVIOUS
  <2>2. Append(v, comps[k]) \in Seq(Tokens)
    BY <2>1
  <2> QED
    BY <2>2
<1>7. <<>> \in Values
  OBVIOUS
<1>8. V(g)
  <2> DEFINE S == [k \in 0..N |-> Values]
             F == [k \in 1..N |-> [v \in Values |-> step(v, k)]]
             first == <<>>
  <2> HIDE DEF step, Values
  <2>1. StepsWithin(N, S, F)
    BY <1>1, <1>6 DEF StepsWithin
  <2>2. /\ \A k \in 1..N : \A v \in Values : F[k][v] = step(v, k)
        /\ \A k \in 0..N : S[k] = Values
    OBVIOUS
  <2> HIDE DEF S, F
  <2>3. first \in S[0]
    BY <1>1, <1>7, <2>2
  <2> HIDE DEF first
  <2>4. PICK h : Solution(h, N, S, F, first)
    BY <1>1, <2>1, <2>3, Solvable
  <2>5. /\ h = [k \in 0..N |-> IF k = 0 THEN first ELSE F[k][h[k - 1]]]
        /\ \A k \in 0..N : h[k] \in Values
    BY <2>2, <2>4, Zenon DEF Solution
  <2>6. \A k \in 0..N : k # 0 => F[k][h[k - 1]] = step(h[k - 1], k)
    <3> SUFFICES ASSUME NEW k \in 0..N, k # 0 PROVE F[k][h[k - 1]] = step(h[k - 1], k)
      OBVIOUS
    <3>1. k \in 1..N /\ k - 1 \in 0..N
      BY <1>1
    <3> QED
      BY <2>2, <2>5, <3>1
  <2>7. h = [k \in 0..N |-> IF k = 0 THEN first ELSE step(h[k - 1], k)]
    BY <2>5, <2>6
  <2>8. V(h)
    BY <2>7, Zenon DEF step, first
  <2> HIDE DEF V
  <2> QED
    BY <2>8
<1> HIDE DEF g
<1>9. g[0] = <<>> /\ \A k \in 1..N : g[k] = step(g[k - 1], k)
  <2>1. g = [k \in 0..N |-> IF k = 0 THEN <<>> ELSE step(g[k - 1], k)]
    BY <1>8, Zenon
  <2> HIDE DEF step, N, V
  <2> QED
    BY <1>1, <2>1
<1> DEFINE T == {k \in 0..N : g[k] \in Values}
<1>10. 0..N \subseteq T
  <2>1. 0 \in T
    <3> HIDE DEF step, V, Values
    <3> QED
      BY <1>1, <1>7, <1>9
  <2>2. \A k \in 1..N : k - 1 \in T => k \in T
    <3> HIDE DEF step, Values
    <3> QED
      BY <1>1, <1>6, <1>9
  <2> HIDE DEF T
  <2> QED
    BY <1>1, <2>1, <2>2, UpTo
<1>11. \A k \in 1..N : g[k] = IF Remains(b, Levels(comps), N, k) THEN Append(g[k - 1], comps[k]) ELSE g[k - 1]
  <2> HIDE DEF V, N
  <2> QED
    BY <1>5, <1>9
<1>12. \A k \in 0..N : g[k] \in Seq(Tokens)
  BY <1>10 DEF Values
<1> HIDE DEF V
<1> QED
  BY <1>2, <1>4, <1>9, <1>11, <1>12

(* Every round of the loop keeps the stack in this form (to_abs_path,      *)
(* vfs.c:266-285).                                                         *)
LEMMA PushKeeps ==
  ASSUME NEW comps \in Seq(Tokens), NEW b, Balances(b, Levels(comps), Len(comps)), NEW n \in Nat, n + 1 \in 1..Len(comps),
         NEW v \in Seq(Tokens), NEW p, NEW a, Stacked(b, Levels(comps), comps, n, v, p, a)
  PROVE  \E q, c : Stacked(b, Levels(comps), comps, n + 1, Push(v, comps[n + 1]), q, c)
<1> DEFINE x == comps[n + 1]
           d == Levels(comps)
           N == Len(comps)
<1>1. /\ N \in Nat /\ comps \in [1..N -> Tokens] /\ n + 1 \in 1..N /\ Balances(b, d, N)
      /\ d \in [1..N -> {-1, 0, 1}] /\ \A k \in 1..N : d[k] = Level(comps[k])
  BY LevelsType
<1>2. /\ d[n + 1] = 0 <=> x \in {Blank, CurrentDir}
      /\ d[n + 1] = -1 <=> x = ParentDir
  BY <1>1, LevelFacts
<1>3. Stacked(b, d, comps, n, v, p, a)
  OBVIOUS
<1> HIDE DEF d, N
<1>4. a \in 0..Len(v) /\ \A m \in 1..Len(v) : v[m] = ParentDir <=> m <= a
  <2>1. a \in 0..Len(v)
    BY <1>3 DEF Stacked
  <2>2. ASSUME NEW m \in 1..Len(v) PROVE v[m] = ParentDir <=> m <= a
    <3>1. v[m] = comps[p[m]] /\ p[m] \in 1..n /\ (d[p[m]] = -1 <=> m <= a)
      BY <1>3 DEF Stacked
    <3>2. p[m] \in 1..N
      BY <1>1, <3>1
    <3>3. d[p[m]] = -1 <=> comps[p[m]] = ParentDir
      BY <1>1, <3>2, LevelFacts
    <3> QED
      BY <3>1, <3>3
  <2> QED
    BY <2>1, <2>2
<1> DEFINE kept(w) == \E q, c : Stacked(b, d, comps, n + 1, w, q, c)
<1>5. ASSUME x \in {Blank, CurrentDir} PROVE kept(Push(v, x))
  <2>1. Stacked(b, d, comps, n + 1, v, p, a)
    BY <1>1, <1>2, <1>3, <1>5, StackSkips
  <2>2. Push(v, x) = v
    BY <1>5 DEF Push, Blank, CurrentDir, ParentDir
  <2>3. kept(v)
    BY <2>1
  <2> HIDE DEF kept, x
  <2> QED
    BY <2>2, <2>3
<1>6. ASSUME x \notin {Blank, CurrentDir} /\ x = ParentDir /\ v # <<>> /\ Last(v) # ParentDir PROVE kept(Push(v, x))
  <2>1. Push(v, x) = Front(v)
    BY <1>6 DEF Push
  <2>2. a < Len(v)
    <3>1. Len(v) \in Nat \ {0} /\ Last(v) = v[Len(v)] /\ Len(v) \in 1..Len(v)
      BY <1>6 DEF Last
    <3> QED
      BY <1>4, <1>6, <3>1
  <2>3. d[n + 1] = -1
    BY <1>2, <1>6
  <2>4. kept(Front(v))
    BY <1>1, <1>3, <2>2, <2>3, StackPops
  <2> HIDE DEF kept, x
  <2> QED
    BY <2>1, <2>4
<1>7. ASSUME x \notin {Blank, CurrentDir} /\ ~(x = ParentDir /\ v # <<>> /\ Last(v) # ParentDir) PROVE kept(Push(v, x))
  <2>1. Push(v, x) = Append(v, x)
    BY <1>7 DEF Push
  <2>2. d[n + 1] = -1 => a = Len(v)
    <3>1. CASE v = <<>>
      BY <1>4, <3>1
    <3>2. CASE v # <<>> /\ Last(v) = ParentDir
      <4>1. Len(v) \in 1..Len(v) /\ v[Len(v)] = ParentDir
        BY <3>2 DEF Last
      <4> QED
        BY <1>4, <4>1
    <3> QED
      BY <1>2, <1>7, <3>1, <3>2
  <2>3. d[n + 1] # 0
    BY <1>2, <1>7
  <2>4. kept(Append(v, x))
    BY <1>1, <1>3, <2>2, <2>3, StackPushes
  <2> HIDE DEF kept, x
  <2> QED
    BY <2>1, <2>4
<1> HIDE DEF kept, x
<1>8. kept(Push(v, x))
  BY <1>5, <1>6, <1>7
<1> QED
  BY <1>8 DEF kept, d, x

(* So the stack in place computes the reference, unless the path ends with *)
(* a slash or "." (to_abs_path, vfs.c:266-285).                            *)
LEMMA StackIsCanonical ==
  ASSUME NEW comps \in Seq(Tokens), comps # <<>>, Last(comps) \notin {Blank, CurrentDir}
  PROVE  Translate(comps) = Canonical(comps)
<1> DEFINE N == Len(comps)
<1>1. N \in Nat
  OBVIOUS
<1>2. PICK b, g :
        /\ Balances(b, Levels(comps), Len(comps))
        /\ g[0] = <<>>
        /\ \A k \in 1..N : g[k] = IF Remains(b, Levels(comps), N, k) THEN Append(g[k - 1], comps[k]) ELSE g[k - 1]
        /\ \A k \in 0..N : g[k] \in Seq(Tokens)
        /\ Canonical(comps) = g[N]
  BY CanonicalSteps
<1>3. PICK f : /\ f[0] = <<>>
               /\ \A n \in 1..N : f[n] = Push(f[n - 1], comps[n])
               /\ \A n \in 0..N : f[n] \in Seq(Tokens)
               /\ Translate(comps) = f[N]
  <2>1. comps \in Seq(Tokens \cup {Blank})
    <3>1. Tokens \cup {Blank} = Tokens
      BY SpecialTokens
    <3> QED
      BY <3>1
  <2> QED
    BY <2>1, TranslateSteps
<1> DEFINE T == {n \in 0..N : \E p, a : Stacked(b, Levels(comps), comps, n, f[n], p, a)}
<1>4. 0 \in T
  <2> DEFINE p == [m \in 1..0 |-> 0]
  <2>1. Len(<<>>) = 0 /\ 1..0 = {} /\ \A m \in 0 + 1..0 : FALSE
    OBVIOUS
  <2>2. p \in [1..0 -> 1..0]
    BY <2>1
  <2> HIDE DEF p
  <2>3. Stacked(b, Levels(comps), comps, 0, <<>>, p, 0)
    BY <2>1, <2>2 DEF Stacked
  <2>4. \E q, a : Stacked(b, Levels(comps), comps, 0, f[0], q, a)
    BY <1>3, <2>3
  <2> QED
    BY <1>1, <2>4
<1>5. ASSUME NEW n \in 1..N, n - 1 \in T PROVE n \in T
  <2> DEFINE k == n - 1
             v == f[k]
  <2>1. PICK p, a : Stacked(b, Levels(comps), comps, k, v, p, a)
    BY <1>5
  <2>2. k \in Nat /\ k + 1 = n /\ v \in Seq(Tokens) /\ f[n] = Push(v, comps[n]) /\ k + 1 \in 1..N
    <3>1. k \in Nat /\ k + 1 = n /\ k \in 0..N
      BY <1>1
    <3> QED
      BY <1>3, <3>1
  <2> HIDE DEF k, v
  <2>3. \E q, c : Stacked(b, Levels(comps), comps, k + 1, Push(v, comps[k + 1]), q, c)
    BY <1>2, <2>1, <2>2, PushKeeps
  <2>4. \E q, c : Stacked(b, Levels(comps), comps, n, f[n], q, c)
    BY <2>2, <2>3
  <2>5. n \in 0..N
    BY <1>1
  <2> QED
    BY <2>4, <2>5
<1>6. \E p, a : Stacked(b, Levels(comps), comps, N, f[N], p, a)
  <2>1. 0..N \subseteq T
    <3> HIDE DEF T, N
    <3> QED
      BY <1>1, <1>4, <1>5, UpTo
  <2>2. N \in 0..N
    BY <1>1
  <2> QED
    BY <2>1, <2>2
<1> DEFINE v == f[N]
<1>7. PICK p, a : Stacked(b, Levels(comps), comps, N, v, p, a)
  BY <1>6
<1>8. v \in Seq(Tokens)
  BY <1>1, <1>3
<1> HIDE DEF v
<1>9. g[N] = v
  BY <1>2, <1>7, <1>8, StackedIsKept
<1> QED
  BY <1>2, <1>3, <1>9 DEF v

(* Whatever directory a program has changed to, to_abs_path returns the    *)
(* path in which every ".." has taken back the name before it              *)
(* (vfs.c:246-293).                                                        *)
THEOREM CanonicalPaths == Spec => []AbsPathCanonical
<1>1. CwdForm(cwd) => AbsPathCanonical
  <2> SUFFICES ASSUME CwdForm(cwd), NEW text \in Texts \cup ChdirTexts,
                      text # <<>>, text[1] # Slash, Last(text) \notin {Slash, CurrentDir}
               PROVE  AbsPath(cwd, text) = Join(Canonical(Split(cwd \o text)))
    BY DEF AbsPathCanonical
  <2> DEFINE whole == cwd \o text
             comps == Split(whole)
  <2>1. text \in Text /\ WellFormed(text)
    BY PathTexts, FileSystemAssumption
  <2>2. cwd \in Text /\ cwd # <<>> /\ cwd[1] = Slash /\ Last(cwd) = Slash
    BY DEF CwdForm
  <2>3. Len(text) \in Nat \ {0} /\ Len(cwd) \in Nat /\ Last(text) = text[Len(text)]
    BY <2>1 DEF Text, Last
  <2>4. whole \in Text /\ Len(whole) = Len(cwd) + Len(text) /\ whole[Len(whole)] = Last(text)
    BY <2>1, <2>2, <2>3 DEF Text
  <2>5. whole # <<>>
    BY <2>3, <2>4
  <2> HIDE DEF whole
  <2>6. comps # <<>> /\ Last(comps) = Last(text)
    BY <2>4, <2>5, SplitEnds
  <2>7. comps \in Text
    BY <2>4, SplitType
  <2>8. Last(text) # Blank
    <3>1. Last(text) \in ToSet(text)
      BY <2>3 DEF ToSet
    <3> QED
      BY <2>1, <3>1 DEF WellFormed
  <2> HIDE DEF comps
  <2>9. Translate(comps) = Canonical(comps)
    BY <2>6, <2>7, <2>8, StackIsCanonical DEF Text
  <2>10. AbsPath(cwd, text) = Join(Translate(Split(whole)))
    BY <2>2 DEF AbsPath, whole
  <2> QED
    BY <2>9, <2>10 DEF comps, whole
<1> QED
  BY <1>1, CwdStays, PTL

-----------------------------------------------------------------------------
(* PosInFile alone is what makes the subtractions of the code natural      *)
(* numbers; with the types it is inductive, and the other two follow from  *)
(* it step by step.                                                        *)
FilesIInv == TypeOK /\ PosInFile /\ BytesWritten /\ WritesInBlock

(* A handle of a tmpfs file: its position is at most the length of the     *)
(* file (tmpfs_open and what moves f_pos, tmpfs.c:71, 98).                 *)
LEMMA Handle ==
  ASSUME FilesIInv, NEW t \in Tasks, NEW fd \in Descriptors,
         fd_table[t][fd] # NoFile, fd_table[t][fd].file # Uart
  PROVE  /\ fd_table[t][fd].file \in Files
         /\ fd_table[t][fd].pos \in 0..len[fd_table[t][fd].file]
         /\ len[fd_table[t][fd].file] \in 0..MaxFile
<1>1. fd_table[t][fd] \in [file : Files \cup {Uart}, pos : Nat]
  BY DEF FilesIInv, TypeOK
<1>2. fd_table[t][fd].file \in Files /\ fd_table[t][fd].pos \in Nat
  BY <1>1
<1>3. len[fd_table[t][fd].file] \in 0..MaxFile
  BY <1>2 DEF FilesIInv, TypeOK
<1>4. fd_table[t][fd].pos <= len[fd_table[t][fd].file]
  BY DEF FilesIInv, PosInFile
<1> QED
  BY <1>2, <1>3, <1>4, OpenFilesAssumption DEF OpenFilesAssumption

(* What tmpfs_write computes from a position in the file: a length that    *)
(* does not shrink and stays within the limit, and a copy that ends in it  *)
(* and starts no later than the end of the old block (tmpfs.c:57-69).      *)
LEMMA WriteBounds ==
  ASSUME FilesIInv, NEW f \in Files, NEW pos \in 0..len[f], NEW size \in Nat
  PROVE  /\ NewLen(f, pos + size) \in len[f]..MaxFile
         /\ Writable(pos, size) \in Nat
         /\ pos + Writable(pos, size) \in Nat
         /\ pos + Writable(pos, size) <= NewLen(f, pos + size)
         /\ \A i \in len[f] + 1..NewLen(f, pos + size) :
              i \in pos + 1..pos + Writable(pos, size)
<1>1. len[f] \in 0..MaxFile /\ MaxFile \in Nat
  BY OpenFilesAssumption DEF FilesIInv, TypeOK, OpenFilesAssumption
<1> QED
  BY <1>1 DEF NewLen, Writable, Minimum

(* The initial descriptors and the empty files satisfy the invariant.      *)
LEMMA InitFilesIInv == FilesInit => FilesIInv
<1> SUFFICES ASSUME FilesInit PROVE FilesIInv
  OBVIOUS
<1> USE OpenFilesAssumption DEF OpenFilesAssumption, FilesInit
<1>1. len \in [Files -> 0..MaxFile]
  OBVIOUS
<1>2. \A f \in Files : data[f] \in [1..len[f] -> Bytes \cup {Unwritten}]
  <2> TAKE f \in Files
  <2>1. len[f] = 0 /\ data[f] = <<>> /\ 1..0 = {}
    OBVIOUS
  <2> QED
    BY <2>1
<1>3. fd_table \in [Tasks -> [Descriptors -> [file : Files \cup {Uart}, pos : Nat] \cup {NoFile}]]
  OBVIOUS
<1>4. TypeOK
  BY <1>1, <1>2, <1>3 DEF TypeOK
<1>5. PosInFile
  BY DEF PosInFile
<1>6. BytesWritten
  BY DEF BytesWritten
<1> QED
  BY <1>4, <1>5, <1>6 DEF FilesIInv, WritesInBlock

(* A system call keeps the invariant; the interesting ones are write,      *)
(* which moves the end of a file under the other handles, and read.        *)
LEMMA NextFilesIInv == FilesIInv /\ [FilesNext]_fileVars => FilesIInv'
<1> SUFFICES ASSUME FilesIInv, [FilesNext]_fileVars PROVE FilesIInv'
  OBVIOUS
<1> USE OpenFilesAssumption DEF OpenFilesAssumption
<1>1. ASSUME NEW t \in Tasks, NEW f \in Files \cup {Uart}, NEW creat \in BOOLEAN,
             Open(t, f, creat)
      PROVE  FilesIInv'
  <2>1. fd_table' = fd_table \/
        fd_table' = [fd_table EXCEPT ![t][IdleFd(t)] = [file |-> f, pos |-> 0]]
    BY <1>1 DEF Open
  <2>2. /\ fd_table' \in [Tasks -> [Descriptors ->
                            [file : Files \cup {Uart}, pos : Nat] \cup {NoFile}]]
        /\ \A u \in Tasks, fd \in Descriptors :
             fd_table'[u][fd] \in {fd_table[u][fd], [file |-> f, pos |-> 0]}
    <3> DEFINE h == [file |-> f, pos |-> 0]
               idle == IdleFd(t)
    <3>1. h \in [file : Files \cup {Uart}, pos : Nat]
      OBVIOUS
    <3>2. fd_table' = fd_table \/ fd_table' = [fd_table EXCEPT ![t][idle] = h]
      BY <2>1
    <3> HIDE DEF h, idle
    <3>3. /\ fd_table' \in [Tasks -> [Descriptors ->
                              [file : Files \cup {Uart}, pos : Nat] \cup {NoFile}]]
          /\ \A u \in Tasks, fd \in Descriptors : fd_table'[u][fd] \in {fd_table[u][fd], h}
      <4>1. fd_table \in [Tasks -> [Descriptors ->
                            [file : Files \cup {Uart}, pos : Nat] \cup {NoFile}]]
        BY DEF FilesIInv, TypeOK
      <4>2. CASE fd_table' = fd_table
        BY <4>1, <4>2
      <4>3. CASE fd_table' = [fd_table EXCEPT ![t][idle] = h]
        BY <3>1, <4>1, <4>3
      <4> QED
        BY <3>2, <4>2, <4>3
    <3> QED
      BY <3>3 DEF h
  <2>3. exists' \subseteq Files
    BY <1>1 DEF Open, FilesIInv, TypeOK
  <2>4. UNCHANGED <<len, data, crash>>
    BY <1>1 DEF Open
  <2>5. TypeOK'
    BY <2>2, <2>3, <2>4 DEF FilesIInv, TypeOK
  <2>6. PosInFile'
    <3> SUFFICES ASSUME NEW u \in Tasks, NEW fd \in Descriptors, fd_table'[u][fd] # NoFile
                 PROVE  fd_table'[u][fd].pos <=
                          (IF fd_table'[u][fd].file = Uart THEN 0 ELSE len'[fd_table'[u][fd].file])
      BY DEF PosInFile
    <3>1. CASE fd_table'[u][fd] = fd_table[u][fd]
      BY <3>1, <2>4 DEF FilesIInv, PosInFile
    <3>2. CASE fd_table'[u][fd] = [file |-> f, pos |-> 0]
      BY <3>2, <2>4 DEF FilesIInv, TypeOK
    <3> QED
      BY <3>1, <3>2, <2>2
  <2> QED
    BY <2>4, <2>5, <2>6 DEF FilesIInv, BytesWritten, WritesInBlock
<1>2. ASSUME NEW t \in Tasks, NEW fd \in Descriptors, CallClosed(t, fd)
      PROVE  FilesIInv'
  BY <1>2 DEF CallClosed, FilesIInv, TypeOK, PosInFile, BytesWritten, WritesInBlock
<1>3. ASSUME NEW t \in Tasks, NEW fd \in Descriptors, Close(t, fd)
      PROVE  FilesIInv'
  <2>1. UNCHANGED <<exists, len, data, crash>>
    BY <1>3 DEF Close
  <2>2. /\ fd_table' \in [Tasks -> [Descriptors ->
                            [file : Files \cup {Uart}, pos : Nat] \cup {NoFile}]]
        /\ \A u \in Tasks, d \in Descriptors : fd_table'[u][d] \in {fd_table[u][d], NoFile}
    BY <1>3 DEF Close, FilesIInv, TypeOK
  <2>3. PosInFile'
    BY <2>1, <2>2 DEF FilesIInv, PosInFile
  <2> QED
    BY <2>1, <2>2, <2>3 DEF FilesIInv, TypeOK, BytesWritten, WritesInBlock
<1>4. ASSUME NEW t \in Tasks, NEW fd \in Descriptors, NEW size \in 0..MaxBuffer,
             NEW buf \in [1..size -> Bytes], Write(t, fd, size, buf)
      PROVE  FilesIInv'
  <2> DEFINE f == fd_table[t][fd].file
             pos == fd_table[t][fd].pos
             n == Writable(pos, size)
             block == Block(f, pos + size)
             end == NewLen(f, pos + size)
             new == [i \in 1..end |-> IF i \in pos + 1..pos + n THEN buf[i - pos] ELSE block[i]]
  <2>1. /\ len' = [len EXCEPT ![f] = end]
        /\ data' = [data EXCEPT ![f] = new]
        /\ crash' = IF pos + n > end THEN "overrun" ELSE "none"
        /\ fd_table' = [fd_table EXCEPT ![t][fd].pos = pos + n]
        /\ exists' = exists
    BY <1>4 DEF Write
  <2>2. f \in Files /\ pos \in 0..len[f] /\ len[f] \in 0..MaxFile /\ fd_table[t][fd] # NoFile
    BY <1>4, Handle DEF Write
  <2>3. /\ end \in len[f]..MaxFile
        /\ n \in Nat
        /\ pos + n \in Nat
        /\ pos + n <= end
        /\ \A i \in len[f] + 1..end : i \in pos + 1..pos + n
    <3>1. size \in Nat
      OBVIOUS
    <3> HIDE DEF f, pos
    <3> QED
      BY <2>2, <3>1, WriteBounds
  <2>4. n <= size
    BY <2>2 DEF Writable
  <2>5. \A i \in 1..end : new[i] \in Bytes
    <3> TAKE i \in 1..end
    <3>1. CASE i \in pos + 1..pos + n
      <4>1. i - pos \in 1..size
        <5> HIDE DEF end, n, pos, f, new
        <5>1. pos \in Nat /\ n \in Nat
          BY <2>2, <2>3 DEF FilesIInv, TypeOK
        <5>2. i \in Nat /\ pos < i /\ i <= pos + n
          BY <3>1, <5>1
        <5> QED
          BY <5>1, <5>2, <2>4
      <4> QED
        BY <4>1, <3>1
    <3>2. CASE i \notin pos + 1..pos + n
      <4>1. i \in 1..len[f]
        BY <3>2, <2>2, <2>3
      <4>2. block[i] = data[f][i]
        BY <4>1, <2>3 DEF Block
      <4>3. data[f][i] \in Bytes
        BY <4>1, <2>2 DEF FilesIInv, BytesWritten
      <4> QED
        BY <3>2, <4>2, <4>3
    <3> QED
      BY <3>1, <3>2
  <2>6. new \in [1..end -> Bytes]
    BY <2>5
  <2> HIDE DEF new, end, n
  <2>7. len' \in [Files -> 0..MaxFile]
    BY <2>1, <2>2, <2>3 DEF FilesIInv, TypeOK
  <2>8. \A g \in Files : /\ data'[g] \in [1..len'[g] -> Bytes \cup {Unwritten}]
                         /\ \A i \in 1..len'[g] : data'[g][i] \in Bytes
    <3> TAKE g \in Files
    <3>1. CASE g = f
      <4>1. len'[g] = end
        BY <3>1, <2>1, <2>2 DEF FilesIInv, TypeOK
      <4>2. data'[g] = new
        BY <3>1, <2>1 DEF FilesIInv, TypeOK
      <4> QED
        BY <4>1, <4>2, <2>6
    <3>2. CASE g # f
      BY <3>2, <2>1 DEF FilesIInv, TypeOK, BytesWritten
    <3> QED
      BY <3>1, <3>2
  <2>9. /\ fd_table' \in [Tasks -> [Descriptors ->
                            [file : Files \cup {Uart}, pos : Nat] \cup {NoFile}]]
        /\ \A u \in Tasks, d \in Descriptors :
             \/ fd_table'[u][d] = fd_table[u][d]
             \/ fd_table'[u][d].file = f /\ fd_table'[u][d].pos = pos + n
    BY <2>1, <2>2, <2>3 DEF FilesIInv, TypeOK
  <2>10. TypeOK'
    BY <2>1, <2>3, <2>7, <2>8, <2>9 DEF FilesIInv, TypeOK
  <2>11. PosInFile'
    <3> SUFFICES ASSUME NEW u \in Tasks, NEW d \in Descriptors, fd_table'[u][d] # NoFile
                 PROVE  fd_table'[u][d].pos <=
                          (IF fd_table'[u][d].file = Uart THEN 0 ELSE len'[fd_table'[u][d].file])
      BY DEF PosInFile
    <3>1. \A g \in Files : len'[g] \in Nat /\ len[g] \in Nat /\ len[g] <= len'[g]
      BY <2>1, <2>2, <2>3, <2>7 DEF FilesIInv, TypeOK
    <3>2. CASE fd_table'[u][d] = fd_table[u][d]
      <4>1. fd_table[u][d] \in [file : Files \cup {Uart}, pos : Nat]
        BY <3>2 DEF FilesIInv, TypeOK
      <4>2. fd_table[u][d].pos <= (IF fd_table[u][d].file = Uart THEN 0 ELSE len[fd_table[u][d].file])
        BY <3>2 DEF FilesIInv, PosInFile
      <4> QED
        BY <3>1, <3>2, <4>1, <4>2
    <3>3. CASE fd_table'[u][d].file = f /\ fd_table'[u][d].pos = pos + n
      <4>1. len'[f] = end
        BY <2>1, <2>2 DEF FilesIInv, TypeOK
      <4> QED
        BY <2>1, <2>2, <2>3, <3>3, <4>1
    <3> QED
      BY <2>9, <3>2, <3>3
  <2> QED
    BY <2>1, <2>3, <2>8, <2>10, <2>11 DEF FilesIInv, BytesWritten, WritesInBlock
<1>5. ASSUME NEW t \in Tasks, NEW fd \in Descriptors, NEW n \in 0..MaxBuffer, Read(t, fd, n)
      PROVE  FilesIInv'
  <2> DEFINE f == fd_table[t][fd].file
             pos == fd_table[t][fd].pos
             end == pos + Readable(f, pos, n)
  <2>1. /\ fd_table' = [fd_table EXCEPT ![t][fd].pos = end]
        /\ UNCHANGED <<exists, len, data, crash>>
    BY <1>5 DEF Read
  <2>2. f \in Files /\ pos \in 0..len[f] /\ len[f] \in 0..MaxFile /\ fd_table[t][fd] # NoFile
    BY <1>5, Handle DEF Read
  <2>3. end \in 0..len[f]
    BY <2>2 DEF Readable
  <2> HIDE DEF end
  <2>4. /\ fd_table' \in [Tasks -> [Descriptors ->
                            [file : Files \cup {Uart}, pos : Nat] \cup {NoFile}]]
        /\ \A u \in Tasks, d \in Descriptors :
             \/ fd_table'[u][d] = fd_table[u][d]
             \/ fd_table'[u][d].file = f /\ fd_table'[u][d].pos = end
    BY <2>1, <2>2, <2>3 DEF FilesIInv, TypeOK
  <2>5. PosInFile'
    BY <2>1, <2>2, <2>3, <2>4 DEF FilesIInv, PosInFile
  <2> QED
    BY <2>1, <2>4, <2>5 DEF FilesIInv, TypeOK, BytesWritten, WritesInBlock
<1>6. CASE UNCHANGED fileVars
  BY <1>6 DEF fileVars, FilesIInv, TypeOK, PosInFile, BytesWritten, WritesInBlock
<1> QED
  BY <1>1, <1>2, <1>3, <1>4, <1>5, <1>6 DEF FilesNext

(* The invariant holds in every state.                                     *)
LEMMA Invariant == FilesSpec => []FilesIInv
<1> QED
  BY InitFilesIInv, NextFilesIInv, PTL DEF FilesSpec

(* The descriptors, files and lengths keep their types (vfs.c:131-159,     *)
(* tmpfs.c:37-110).                                                        *)
THEOREM FilesTypeCorrect == FilesSpec => []TypeOK
<1>1. FilesIInv => TypeOK
  BY DEF FilesIInv
<1> QED
  BY <1>1, Invariant, PTL

(* No position is behind the end of its file, whatever other handles of    *)
(* the same file do (tmpfs.c:69, 96).                                      *)
THEOREM PositionsInFiles == FilesSpec => []PosInFile
<1>1. FilesIInv => PosInFile
  BY DEF FilesIInv
<1> QED
  BY <1>1, Invariant, PTL

(* Every byte of a file was written by a task (tmpfs.c:57-70).             *)
THEOREM NoGarbage == FilesSpec => []BytesWritten
<1>1. FilesIInv => BytesWritten
  BY DEF FilesIInv
<1> QED
  BY <1>1, Invariant, PTL

(* No write leaves the block of its file (tmpfs.c:59-70).                  *)
THEOREM NoOverrun == FilesSpec => []WritesInBlock
<1>1. FilesIInv => WritesInBlock
  BY DEF FilesIInv
<1> QED
  BY <1>1, Invariant, PTL

(* Where a byte was and where it may have changed, in one step.            *)
ByteKept(f, i) ==
  \/ i <= len'[f] /\ data'[f][i] = data[f][i]
  \/ \E t \in Tasks, fd \in Descriptors :
       /\ fd_table[t][fd] # NoFile
       /\ fd_table[t][fd].file = f
       /\ fd_table'[t][fd] # NoFile
       /\ i \in fd_table[t][fd].pos + 1..fd_table'[t][fd].pos

(* A write changes the bytes that its handle passes; the new block has the *)
(* others of the old one.                                                  *)
LEMMA WriteKeeps ==
  ASSUME FilesIInv, NEW t \in Tasks, NEW fd \in Descriptors, NEW size \in 0..MaxBuffer,
         NEW buf \in [1..size -> Bytes], Write(t, fd, size, buf),
         NEW g \in Files, NEW i \in 1..len[g]
  PROVE  ByteKept(g, i)
<1> DEFINE f == fd_table[t][fd].file
           pos == fd_table[t][fd].pos
           n == Writable(pos, size)
           block == Block(f, pos + size)
           end == NewLen(f, pos + size)
           new == [k \in 1..end |-> IF k \in pos + 1..pos + n THEN buf[k - pos] ELSE block[k]]
<1>1. /\ len' = [len EXCEPT ![f] = end]
      /\ data' = [data EXCEPT ![f] = new]
      /\ fd_table' = [fd_table EXCEPT ![t][fd].pos = pos + n]
  BY DEF Write
<1>2. f \in Files /\ pos \in 0..len[f] /\ len[f] \in 0..MaxFile /\ fd_table[t][fd] # NoFile
  BY Handle DEF Write
<1>3. end \in len[f]..MaxFile /\ pos + n \in Nat
  <2>1. size \in Nat
    OBVIOUS
  <2> HIDE DEF f, pos
  <2> QED
    BY <1>2, <2>1, WriteBounds
<1>4. CASE g # f
  <2>1. len'[g] = len[g] /\ data'[g] = data[g]
    BY <1>1, <1>4 DEF FilesIInv, TypeOK
  <2>2. i <= len[g]
    BY DEF FilesIInv, TypeOK
  <2> QED
    BY <2>1, <2>2 DEF ByteKept
<1>5. CASE g = f /\ i \in pos + 1..pos + n
  <2>1. fd_table[t][fd] \in [file : Files \cup {Uart}, pos : Nat]
    BY <1>2 DEF FilesIInv, TypeOK
  <2>2. fd_table'[t][fd] = [fd_table[t][fd] EXCEPT !.pos = pos + n]
    BY <1>1 DEF FilesIInv, TypeOK
  <2> HIDE DEF n
  <2>3. /\ fd_table'[t][fd] \in [file : Files \cup {Uart}, pos : Nat]
        /\ fd_table'[t][fd].pos = pos + n
    BY <1>3, <2>1, <2>2
  <2>4. fd_table'[t][fd] # NoFile
    BY <2>3, OpenFilesAssumption DEF OpenFilesAssumption
  <2> QED
    BY <1>2, <1>5, <2>3, <2>4 DEF ByteKept
<1>6. CASE g = f /\ i \notin pos + 1..pos + n
  <2>1. len'[f] = end /\ data'[f] = new
    BY <1>1, <1>2 DEF FilesIInv, TypeOK
  <2>2. i \in 1..end /\ i <= len[f]
    <3> HIDE DEF f, end
    <3> QED
      BY <1>2, <1>3, <1>6
  <2>3. new[i] = data[f][i]
    <3>1. block[i] = data[f][i]
      BY <2>2 DEF Block
    <3> HIDE DEF f, end, block, pos, n
    <3> QED
      BY <1>6, <2>2, <3>1
  <2> HIDE DEF f, end, new, pos, n
  <2> QED
    BY <1>6, <2>1, <2>2, <2>3 DEF ByteKept
<1> QED
  BY <1>4, <1>5, <1>6

(* No call of a task changes a byte of a file but those that it writes     *)
(* from the position of its handle on, also when tmpfs_write moves the     *)
(* file to a larger block (tmpfs.c:58-68).                                 *)
THEOREM OthersUntouched == FilesSpec => OtherBytesKept
<1>1. ASSUME FilesIInv, [FilesNext]_fileVars, NEW f \in Files, NEW i \in 1..len[f]
      PROVE  ByteKept(f, i)
  <2>1. ASSUME NEW t \in Tasks, NEW fd \in Descriptors, NEW size \in 0..MaxBuffer,
               NEW buf \in [1..size -> Bytes], Write(t, fd, size, buf)
        PROVE  ByteKept(f, i)
    BY <1>1, <2>1, WriteKeeps
  <2>2. i <= len[f]
    BY <1>1 DEF FilesIInv, TypeOK
  <2>3. len' = len /\ data' = data => ByteKept(f, i)
    BY <2>2 DEF ByteKept
  <2> QED
    BY <1>1, <2>1, <2>3 DEF FilesNext, Open, CallClosed, Close, Read, fileVars
<1>2. FilesIInv /\ [FilesNext]_fileVars =>
        [\A f \in Files : \A i \in 1..len[f] :
           \/ i <= len'[f] /\ data'[f][i] = data[f][i]
           \/ \E t \in Tasks, fd \in Descriptors :
                /\ fd_table[t][fd] # NoFile
                /\ fd_table[t][fd].file = f
                /\ fd_table'[t][fd] # NoFile
                /\ i \in fd_table[t][fd].pos + 1..fd_table'[t][fd].pos]_fileVars
  BY <1>1 DEF ByteKept
<1> QED
  BY <1>2, Invariant, PTL DEF FilesSpec, OtherBytesKept

=============================================================================
