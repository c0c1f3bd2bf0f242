---------------------------- MODULE MC_FsInodes -----------------------------
(* FsInodes with a root that holds a symbolic link, two files and a        *)
(* directory, which holds a file.                                          *)
EXTENDS FsInodes, TLC

CONSTANTS root, link, file1, file2, dir, inner

MCPaths == {root, link, file1, file2, dir, inner}
MCEntries == root :> <<file1, link, file2, dir>> @@ dir :> <<inner>>

\* Only is what SelectSeq is.
ASSUME OnlyIsSelectSeq ==
  \A d \in Dirs, S \in SUBSET Paths :
    LET In(p) == p \in S IN Only(Entries[d], S) = SelectSeq(Entries[d], In)
=============================================================================
