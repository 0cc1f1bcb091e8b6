---------------------------- MODULE MCFileSystem ----------------------------
(* FileSystem for TLC: names and file contents are interchangeable. *)
EXTENDS FileSystem, TLC

Interchangeable == Permutations(Names) \cup Permutations(Content)
=============================================================================
