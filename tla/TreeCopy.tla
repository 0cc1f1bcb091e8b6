----------------------------- MODULE TreeCopy ------------------------------
(***************************************************************************)
(* The calls of src/kernel/fs.c as the applications see them: operators    *)
(* from a file system to a file system and a result.  A file system is a   *)
(* record of the directory table, next_free, and the text of each file;    *)
(* FileSystem shows what of it a crash leaves.  fs_copy is a recursion     *)
(* over the other calls, and fs_resolve_path a walk.                       *)
(***************************************************************************)
EXTENDS FileTable, Sequences, SequencesExt, FiniteSetsExt

CONSTANTS MaxDepth,    \* the depth at which fs_copy gives up: 16
          Texts        \* what a file may hold besides nothing

ASSUME TreeCopyAssumption == MaxDepth \in Nat /\ "" \notin Texts

FS_NOT_FOUND == -2

\* The result of a call that made no entry, and what it left behind.
Failed(fs) == [fs |-> fs, id |-> -1]

Made(fs, i) == [fs |-> fs, id |-> i]

FileSystems ==
  [table : [Ids -> Entries], nf : 0 .. DataSectors, text : [Ids -> Texts \cup {""}]]

Results == [fs : FileSystems, id : Ids \cup {-1}]

\* A text takes one sector, nothing takes none.
SectorsOf(t) == IF t = "" THEN 0 ELSE 1

-----------------------------------------------------------------------------

FsCreate(fs, p, n, ty) ==
  IF \E i \in Ids : n \in Names /\ CanCreate(fs.table, p, n, i)
  THEN LET i == Min(FreeIds(fs.table))
       IN  Made([fs EXCEPT !.table = Created(@, p, n, ty, i), !.text[i] = ""], i)
  ELSE Failed(fs)

FsDelete(fs, i) ==
  IF i \in Ids /\ CanDelete(fs.table, i)
  THEN Made([fs EXCEPT !.table = Deleted(@, i), !.text[i] = ""], i)
  ELSE Failed(fs)

FsRename(fs, i, n) ==
  IF i \in Ids /\ n \in Names /\ CanRename(fs.table, i, n)
  THEN Made([fs EXCEPT !.table = Renamed(@, i, n)], i)
  ELSE Failed(fs)

FsMove_IntoChild(fs, i, p) ==
  IF i \in Ids /\ fs.table[i].used /\ ParentOk(fs.table, p) /\ p # i
     /\ Find(fs.table, p, fs.table[i].name) = {}
  THEN Made([fs EXCEPT !.table = Moved(@, i, p)], i)
  ELSE Failed(fs)

FsMove(fs, i, p) ==
  IF i \in Ids /\ CanMove(fs.table, i, p)
  THEN Made([fs EXCEPT !.table = Moved(@, i, p)], i)
  ELSE Failed(fs)

FsWrite(fs, i, t) ==
  IF i \in Ids /\ CanWrite(fs.table, fs.nf, i, SectorsOf(t))
  THEN Made([table |-> Written(fs.table, fs.nf, i, SectorsOf(t)),
             nf    |-> NextFree(fs.table, fs.nf, i, SectorsOf(t)),
             text  |-> [fs.text EXCEPT ![i] = t]], i)
  ELSE Failed(fs)

\* fs_read_file, and the empty text of callers that take a failure for it.
FsRead(fs, i) == IF i \in Ids /\ IsFile(fs.table, i) THEN fs.text[i] ELSE ""

\* A loop over entries in the order of the table, in which fs_list gives them:
\* what it makes of base, taking step[i] at entry i.
Each(step, base) ==
  LET after[k \in 0 .. FS_MAX_ENTRIES] ==
        IF k = 0 THEN base
        ELSE IF k - 1 \in DOMAIN step THEN step[k - 1][after[k - 1]]
        ELSE after[k - 1]
  IN  after[FS_MAX_ENTRIES]

-----------------------------------------------------------------------------
(* fs_copy. *)

\* A file that cannot be written is deleted again.
CopyFile(fs, i, p, n) ==
  LET new == FsCreate(fs, p, n, "file")
  IN  IF new.id < 0 \/ fs.text[i] = "" THEN new
      ELSE LET written == FsWrite(new.fs, new.id, fs.text[i])
           IN  IF written.id < 0 THEN Failed(FsDelete(new.fs, new.id).fs) ELSE written

AfterChild_GoingOn(copy, new) == Made(copy.fs, new)

\* What the copy of a child means for that of its folder, entry new.
AfterChild(copy, new) == IF copy.id < 0 THEN Failed(copy.fs) ELSE Made(copy.fs, new)

\* The arguments of fs_copy_depth, and the file system it is called in.
Calls == [fs : FileSystems, id : Ids, new_parent : Ids \cup {FS_ROOT}, name : Names \cup {""}]

Call(fs, i, p, n) == [fs |-> fs, id |-> i, new_parent |-> p, name |-> n]

\* fs_copy_depth.  The children are those of the folder after its copy is made,
\* and the first that fails ends it.
CopyDepth[depth \in 0 .. MaxDepth + 1] ==
  [call \in Calls |->
     LET fs == call.fs
         i == call.id
         p == call.new_parent
         new == FsCreate(fs, p, call.name, "folder")
         child == [c \in Children(new.fs.table, i) |->
                     [done \in Results |->
                        IF done.id < 0 THEN done
                        ELSE LET name == done.fs.table[c].name
                             IN  AfterChild(CopyDepth[depth + 1][Call(done.fs, c, new.id, name)],
                                            new.id)]]
     IN  IF \/ ~fs.table[i].used
            \/ ~ParentOk(fs.table, p)
            \/ depth > MaxDepth
            \/ IsFolder(fs.table, i) /\ p = i
         THEN Failed(fs)
         ELSE IF IsFile(fs.table, i) THEN CopyFile(fs, i, p, call.name)
         ELSE IF new.id < 0 THEN new
         ELSE Each(child, new)]

FsCopy(fs, i, p, n) == IF i \in Ids THEN CopyDepth[0][Call(fs, i, p, n)] ELSE Failed(fs)

\* fs_copy without a new name.
FsCopyTo(fs, i, p) ==
  IF i \in Ids /\ fs.table[i].used THEN FsCopy(fs, i, p, fs.table[i].name) ELSE Failed(fs)

-----------------------------------------------------------------------------
(* fs_resolve_path.  A path is a record: whether it begins at the root, and *)
(* its segments.                                                            *)

Step(tb, cur, seg) ==
  IF cur = FS_NOT_FOUND \/ seg = "." THEN cur
  ELSE IF seg = ".."
       THEN IF cur \in Ids /\ tb[cur].used THEN tb[cur].parent ELSE FS_ROOT
  ELSE IF Find(tb, cur, seg) = {} THEN FS_NOT_FOUND
  ELSE Min(Find(tb, cur, seg))

Resolve(tb, cwd, path) ==
  FoldLeft(LAMBDA cur, seg : Step(tb, cur, seg),
           IF path.absolute THEN FS_ROOT ELSE cwd, path.segments)

-----------------------------------------------------------------------------
(* A file system in order: the table is, every folder leads to the root,   *)
(* and there are the sectors for each text.                                *)

InOrder(fs) ==
  /\ fs \in FileSystems
  /\ WellFormed(fs.table, fs.nf) /\ Acyclic(fs.table)
  /\ \A i \in Ids :
       /\ SectorsOf(fs.text[i]) = fs.table[i].size
       /\ fs.text[i] # "" => IsFile(fs.table, i)

-----------------------------------------------------------------------------
(* What a copy is, said without the recursion: the tree below an entry is   *)
(* the set of its paths, each with what is there.                           *)

\* The entries at and below i.
Below(tb, i) == {j \in Ids : tb[j].used /\ \E k \in 0 .. FS_MAX_ENTRIES : Up(tb, j)[k] = i}

\* The names on the way from i down to j, i's own left out.
PathFrom(tb, i, j) ==
  LET d == CHOOSE k \in 0 .. FS_MAX_ENTRIES : Up(tb, j)[k] = i
  IN  [k \in 1 .. d |-> tb[Up(tb, j)[d - k]].name]

Tree(fs, i) ==
  {<<PathFrom(fs.table, i, j), fs.table[j].type, fs.text[j]>> : j \in Below(fs.table, i)}

\* The entries of fs are still what they were in fs2.
Keeps(fs, fs2) ==
  \A i \in Ids : fs.table[i].used => fs2.table[i] = fs.table[i] /\ fs2.text[i] = fs.text[i]

=============================================================================
