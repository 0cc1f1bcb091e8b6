----------------------------- MODULE MCDesktop -----------------------------
(* Small disks, and the paths to what is on them. *)
EXTENDS Desktop

Entry(ty, p, n, s, len) ==
  [NoEntry EXCEPT !.used = TRUE, !.type = ty, !.parent = p, !.name = n,
                  !.start = s, !.alloc = len, !.size = len]

\* \a, a folder, and \b, a file.
OneFile ==
  [table |-> [EmptyTable EXCEPT ![0] = Entry("folder", FS_ROOT, "a", 0, 0),
                                ![1] = Entry("file", FS_ROOT, "b", 0, 1)],
   nf |-> 1, text |-> [i \in Ids |-> IF i = 1 THEN "x" ELSE ""]]

\* \a, a folder.
OneFolder ==
  [table |-> [EmptyTable EXCEPT ![0] = Entry("folder", FS_ROOT, "a", 0, 0)],
   nf |-> 0, text |-> [i \in Ids |-> ""]]

\* \a and \a\b, folders.
Folders ==
  [table |-> [EmptyTable EXCEPT ![0] = Entry("folder", FS_ROOT, "a", 0, 0),
                                ![1] = Entry("folder", 0, "b", 0, 0)],
   nf |-> 0, text |-> [i \in Ids |-> ""]]

\* \a, \a\b, \b and \b\a: no entry is free, and each is a folder.
FullOfFolders ==
  [table |-> [i \in Ids |-> IF i < 2 THEN Entry("folder", i - 1, IF i = 0 THEN "a" ELSE "b", 0, 0)
                            ELSE Entry("folder", IF i = 2 THEN FS_ROOT ELSE 2,
                                       IF i = 2 THEN "b" ELSE "a", 0, 0)],
   nf |-> 0, text |-> [i \in Ids |-> ""]]

MCPaths ==
  [absolute : {FALSE}, segments : {<<"a">>, <<"b">>, <<"..">>}]
    \cup [absolute : {TRUE}, segments : {<<"a", "b">>}]

Start(disk, apps, n) == [fs |-> disk, session |-> apps, changes |-> n]

MCStarts ==
  {Start(FullOfFolders, {"file_manager"}, 1),
   Start(OneFolder, {"file_manager", "terminal"}, 2),
   Start(OneFile, {"file_manager", "terminal"}, 1),
   Start(Folders, {"file_manager", "terminal"}, 1),
   Start(OneFile, {"file_manager", "text_editor"}, 1),
   Start(OneFile, {"terminal", "text_editor"}, 3),
   Start(Folders, {"terminal", "text_editor"}, 3)}

=============================================================================
