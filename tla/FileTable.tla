----------------------------- MODULE FileTable -----------------------------
(***************************************************************************)
(* The directory table of src/kernel/fs.c as a value: the tests and the    *)
(* updates that the operations of the file system make on it, and what it  *)
(* means for a table to be well formed.  FileSystem runs them against a    *)
(* disk, TreeCopy strings them together.                                   *)
(*                                                                         *)
(* Sizes are in sectors, and sector numbers count from FS_DATA_LBA.  Names *)
(* are those that fs_create accepts.  The fields of an entry that is not   *)
(* used are never read, so an unused entry is always NoEntry.              *)
(***************************************************************************)
EXTENDS Integers

CONSTANTS FS_MAX_ENTRIES,    \* entries of g_table
          DataSectors,       \* FS_END_LBA - FS_DATA_LBA
          MaxFileSectors,    \* FS_MAX_FILE_SIZE in sectors
          Names

ASSUME FileTableAssumption ==
  /\ FS_MAX_ENTRIES \in Nat \ {0}
  /\ DataSectors \in Nat
  /\ MaxFileSectors \in Nat
  /\ Names # {}

Ids == 0 .. FS_MAX_ENTRIES - 1

FS_ROOT == -1

NoEntry == [used |-> FALSE, type |-> "file", parent |-> FS_ROOT,
            name |-> "", start |-> 0, alloc |-> 0, size |-> 0]

Entries == [used : BOOLEAN, type : {"file", "folder"}, parent : Ids \cup {FS_ROOT},
            name : Names \cup {""}, start : Nat, alloc : Nat, size : Nat]

EmptyTable == [i \in Ids |-> NoEntry]

-----------------------------------------------------------------------------
(* The tests. *)

IsFile(tb, i) == tb[i].used /\ tb[i].type = "file"

IsFolder(tb, i) == tb[i].used /\ tb[i].type = "folder"

\* fs_parent_ok
ParentOk(tb, p) == p = FS_ROOT \/ (p \in Ids /\ IsFolder(tb, p))

Children(tb, p) == {i \in Ids : tb[i].used /\ tb[i].parent = p}

\* fs_find: the entries of that name in folder p (at most one, see UniqueNames).
Find(tb, p, n) == {i \in Children(tb, p) : tb[i].name = n}

FreeIds(tb) == {i \in Ids : ~tb[i].used}

\* fs_alloc_entry: the first free entry.
IsAlloc(tb, i) == i \in FreeIds(tb) /\ \A j \in FreeIds(tb) : i <= j

\* fs_move's walk: where k steps up from p lead.
Up(tb, p) ==
  LET walk[k \in 0 .. FS_MAX_ENTRIES] ==
        IF k = 0 THEN p
        ELSE IF walk[k - 1] = FS_ROOT THEN FS_ROOT ELSE tb[walk[k - 1]].parent
  IN  walk

\* Mutant: only the folder right above p is looked at.
Inside_Parent(tb, p, i) == p = i \/ (p \in Ids /\ tb[p].parent = i)

\* p is i or lies below it, as far as fs_move looks.
Inside(tb, p, i) == \E k \in 0 .. FS_MAX_ENTRIES - 1 : Up(tb, p)[k] = i

CanCreate(tb, p, n, i) == ParentOk(tb, p) /\ Find(tb, p, n) = {} /\ IsAlloc(tb, i)

CanDelete(tb, i) == tb[i].used /\ (IsFolder(tb, i) => Children(tb, i) = {})

CanRename(tb, i, n) == tb[i].used /\ Find(tb, tb[i].parent, n) \subseteq {i}

CanMove(tb, i, p) ==
  /\ tb[i].used
  /\ ParentOk(tb, p) /\ p # i
  /\ ~Inside(tb, p, i)
  /\ Find(tb, p, tb[i].name) = {}

Grows(tb, i, len) == len > tb[i].alloc

CanWrite(tb, nf, i, len) ==
  /\ IsFile(tb, i)
  /\ len <= MaxFileSectors
  /\ Grows(tb, i, len) => nf + len <= DataSectors

-----------------------------------------------------------------------------
(* The updates. *)

Created(tb, p, n, ty, i) ==
  [tb EXCEPT ![i] = [NoEntry EXCEPT !.used = TRUE, !.type = ty, !.parent = p, !.name = n]]

Deleted(tb, i) == [tb EXCEPT ![i] = NoEntry]

Renamed(tb, i, n) == [tb EXCEPT ![i].name = n]

Moved(tb, i, p) == [tb EXCEPT ![i].parent = p]

\* A file that outgrows its run gets a new one from next_free; the old leaks.
Written(tb, nf, i, len) ==
  [tb EXCEPT ![i].start = IF Grows(tb, i, len) THEN nf ELSE @,
             ![i].alloc = IF Grows(tb, i, len) THEN len ELSE @,
             ![i].size = len]

NextFree(tb, nf, i, len) == IF Grows(tb, i, len) THEN nf + len ELSE nf

-----------------------------------------------------------------------------
(* What a well-formed table is. *)

ParentsOk(tb) == \A i \in Ids : tb[i].used => ParentOk(tb, tb[i].parent)

UniqueNames(tb) ==
  \A i, j \in Ids :
    (tb[i].used /\ tb[j].used /\ tb[i].parent = tb[j].parent /\ tb[i].name = tb[j].name)
      => i = j

Acyclic(tb) == \A i \in Ids : tb[i].used => Up(tb, i)[FS_MAX_ENTRIES] = FS_ROOT

\* The run of sectors reserved for each file lies below next_free, holds the
\* file, and shares no sector with another file's.
RunsOk(tb, nf) ==
  /\ nf \in 0 .. DataSectors
  /\ \A i \in Ids : tb[i].used =>
       /\ tb[i].start + tb[i].alloc <= nf
       /\ tb[i].size <= tb[i].alloc
  /\ \A i, j \in Ids :
       i # j /\ tb[i].used /\ tb[j].used /\ tb[i].alloc > 0 /\ tb[j].alloc > 0 =>
         \/ tb[i].start + tb[i].alloc <= tb[j].start
         \/ tb[j].start + tb[j].alloc <= tb[i].start

WellFormed(tb, nf) == ParentsOk(tb) /\ UniqueNames(tb) /\ RunsOk(tb, nf)

=============================================================================
