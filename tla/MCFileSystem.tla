---------------------------- MODULE MCFileSystem ----------------------------
(***************************************************************************)
(* Paths of up to two names.  The archive has a directory with a file, a   *)
(* file and a last file, of sizes that are filled up in different ways.    *)
(***************************************************************************)
EXTENDS FileSystem

MCArchive ==
  <<[path |-> <<"d">>, namesize |-> 2, size |-> 0],
    [path |-> <<"d", Slash, "f">>, namesize |-> 4, size |-> 3],
    [path |-> <<"hi">>, namesize |-> 3, size |-> 5],
    [path |-> <<"g">>, namesize |-> 2, size |-> 8]>>

MCTexts ==
  {<<Slash>>, <<"a">>, <<Slash, "b">>,
   <<Slash, Slash, "a">>, <<"a", Slash>>,
   <<Slash, "initramfs", Slash, "d">>, <<Slash, "initramfs", Slash, "a">>,
   <<Slash, "dev", Slash, "uart">>, <<Slash, "dev", Slash, "a">>}

MCChdirTexts ==
  {<<"a">>, <<ParentDir>>, <<ParentDir, Slash, ParentDir, Slash, "a">>, <<Slash, "initramfs", Slash, "d">>}

(* Only paths of tmpfs, and as many in /a as fill it.                      *)
MCTmpfsTexts == {<<Slash, "a">>} \cup {<<Slash, "a", Slash, n>> : n \in {"a", "b", "c", "d"}}

MCMountTexts ==
  {<<Slash>>, <<Slash, "a">>, <<Slash, "a", Slash, "a">>, <<Slash, "initramfs">>,
   <<Slash, "initramfs", Slash, "d">>, <<Slash, "dev">>}

MCTokens ==
  {Slash, Blank, CurrentDir, ParentDir, "junk", "initramfs", "dev", "uart"}
    \cup {"a", "b", "c", "d", "f", "g", "hi"}

(* The archive is that of a file tree, as the theorems about it assume.    *)
ASSUME MCArchiveFits == ArchiveFits

=============================================================================
