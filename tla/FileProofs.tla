----------------------------- MODULE FileProofs -----------------------------
(***************************************************************************)
(* Proofs about FileSystem, for every size of the table, of its sectors    *)
(* and of the data region, every set of names and contents, and every      *)
(* sequence of operations and crashes, as long as mounting can read the    *)
(* disk: both tables stay well formed, and completed writes survive.       *)
(***************************************************************************)
EXTENDS FileSystem, TableProofs

-----------------------------------------------------------------------------
(* The inductive invariant: how far disk and memory may be apart.          *)

\* Mounted memory is in order, and so is a disk that will be mounted.
InOrder ==
  /\ pc # "off" => Sound(table, next_free)
  /\ dok => Sound(dtable, dnext)

\* While an operation is under way the disk differs from memory in its entry
\* only, and in the superblock until that is written.
Behind ==
  pc \in {"idle", "super", "data", "written", "entry"} =>
    /\ dok
    /\ OnlyAt(table, dtable, cur)
    /\ dnext <= next_free
    /\ pc # "super" => dnext = next_free
    /\ pc = "idle" => dtable = table

\* fs_format clears the sectors in their order, and a disk it has begun to
\* clear is not mounted.
Clearing ==
  pc = "format" =>
    /\ ~dok /\ table = EmptyTable /\ next_free = 0
    /\ \A i \in Ids : i \div PerSector < k => dtable[i] = NoEntry

IInv == TypeOK /\ InOrder /\ Behind /\ Clearing

-----------------------------------------------------------------------------
(* The sectors of the table.                                               *)

\* Writing the sector of the one entry that differs makes the tables equal.
LEMMA FlushedSector ==
  ASSUME NEW tb \in Table, NEW dtb \in Table, NEW i \in Ids, OnlyAt(tb, dtb, i)
  PROVE  SectorOf(i \div PerSector, tb, dtb) = tb
BY DEF SectorOf, InSector, OnlyAt, Table

\* Past the last sector of the table every entry has been cleared.
LEMMA AllSectors ==
  ASSUME NEW n \in Nat, n \notin TableSectors, NEW i \in Ids
  PROVE  i \div PerSector < n
<1> SUFFICES ASSUME i \div PerSector >= n PROVE FALSE
  <2>1. i \div PerSector \in Nat
    BY FileTableAssumption, FileSystemAssumption DEF Ids
  <2> QED
    BY <2>1
<1>1. n * PerSector <= i /\ n * PerSector \in Nat /\ i \in Nat
  BY FileTableAssumption, FileSystemAssumption DEF Ids
<1>2. (n * PerSector) \div PerSector = n
  BY FileSystemAssumption
<1>3. n * PerSector \in Ids
  BY <1>1, FileTableAssumption DEF Ids
<1> QED
  BY <1>2, <1>3 DEF TableSectors

-----------------------------------------------------------------------------
(* The invariant at power-up, and kept by mounting and formatting.         *)

LEMMA InitialState == Init => IInv
<1> SUFFICES ASSUME Init PROVE IInv
  OBVIOUS
<1>1. Stray \in Entries
  BY DEF Stray, NoEntry, Entries
<1>2. table \in Table /\ dtable \in Table
  BY <1>1, EmptySound DEF Init, Table
<1>3. 0 \in Ids /\ 0 \in 0 .. DataSectors
  BY FileTableAssumption DEF Ids
<1>4. /\ data \in [Sectors -> {{}} \cup {{c} : c \in Content}]
      /\ kept \in [Ids -> {{}} \cup {{c} : c \in Content}]
  BY DEF Init
<1>5. TypeOK
  BY <1>2, <1>3, <1>4 DEF Init, TypeOK, Table
<1> QED
  BY <1>5 DEF Init, IInv, InOrder, Behind, Clearing

LEMMA MountKeeps == ~ReadErrors /\ IInv /\ Mount => IInv'
<1> SUFFICES ASSUME ~ReadErrors, IInv, Mount PROVE IInv'
  OBVIOUS
<1>1. CASE dok /\ Load
  <2>1. TypeOK'
    BY <1>1 DEF IInv, TypeOK, Mount, Load, diskVars
  <2>2. InOrder' /\ Behind' /\ Clearing'
    BY <1>1 DEF IInv, TypeOK, Mount, Load, diskVars, InOrder, Behind, Clearing, OnlyAt, Sound
  <2> QED
    BY <2>1, <2>2 DEF IInv
<1>2. CASE ~dok /\ Format
  <2>1. TypeOK'
    BY <1>2, EmptySound, FileTableAssumption DEF IInv, TypeOK, Mount, Format, diskVars, Table
  <2>2. \A i \in Ids : i \div PerSector \in Nat
    BY FileTableAssumption, FileSystemAssumption DEF Ids
  <2>3. InOrder' /\ Behind' /\ Clearing'
    BY <1>2, <2>2, EmptySound DEF IInv, Mount, Format, diskVars, InOrder, Behind, Clearing
  <2> QED
    BY <2>1, <2>3 DEF IInv
<1> QED
  BY <1>1, <1>2 DEF Mount

LEMMA FormatKeeps == IInv /\ (FormatTable \/ FormatSuper) => IInv'
<1> SUFFICES ASSUME IInv, FormatTable \/ FormatSuper PROVE IInv'
  OBVIOUS
<1>1. CASE FormatTable
  <2>1. k \in Nat /\ k' = k + 1 /\ table = EmptyTable
    BY <1>1 DEF FormatTable, IInv, TypeOK, Clearing
  <2>2. dtable' \in Table
    BY <1>1 DEF FormatTable, IInv, TypeOK, Table, SectorOf
  <2>3. TypeOK'
    BY <1>1, <2>1, <2>2 DEF FormatTable, IInv, TypeOK, memVars, Table
  <2>4. ASSUME NEW i \in Ids, i \div PerSector < k + 1 PROVE dtable'[i] = NoEntry
    <3>1. i \div PerSector \in Nat
      BY FileTableAssumption, FileSystemAssumption DEF Ids
    <3>2. i \div PerSector = k \/ i \div PerSector < k
      BY <2>1, <2>4, <3>1
    <3>3. EmptyTable[i] = NoEntry
      BY DEF EmptyTable
    <3> QED
      BY <1>1, <2>1, <3>2, <3>3 DEF FormatTable, IInv, Clearing, SectorOf, InSector
  <2>5. InOrder' /\ Behind' /\ Clearing'
    BY <1>1, <2>1, <2>4 DEF FormatTable, IInv, InOrder, Behind, Clearing, memVars
  <2> QED
    BY <2>3, <2>5 DEF IInv
<1>2. CASE FormatSuper
  <2>1. pc = "format" /\ k \in Nat /\ table = EmptyTable /\ next_free = 0
    BY <1>2 DEF FormatSuper, IInv, TypeOK, Clearing
  <2>2. \A i \in Ids : dtable[i] = NoEntry
    BY <1>2, <2>1, AllSectors DEF FormatSuper, IInv, Clearing
  <2>3. dtable = table
    BY <2>1, <2>2 DEF EmptyTable, IInv, TypeOK
  <2>4. TypeOK'
    BY <1>2, <2>1, FileTableAssumption DEF FormatSuper, Done, IInv, TypeOK, memVars, Ids
  <2>5. InOrder' /\ Behind' /\ Clearing'
    BY <1>2, <2>1, <2>3, EmptySound DEF FormatSuper, Done, IInv, InOrder, Behind, Clearing,
       OnlyAt, memVars
  <2> QED
    BY <2>4, <2>5 DEF IInv
<1> QED
  BY <1>1, <1>2

-----------------------------------------------------------------------------
(* The invariant is kept by the operations, which change memory and leave  *)
(* the disk an entry behind.                                               *)

LEMMA EntryChanged ==
  ASSUME IInv, pc = "idle", NEW i \in Ids, NEW tb2,
         Sound(tb2, next_free), OnlyAt(table, tb2, i),
         table' = tb2, Begin(i, "entry"),
         kept' \in [Ids -> {{}} \cup {{c} : c \in Content}],
         UNCHANGED <<next_free, diskVars, what, wiped>>
  PROVE  IInv'
<1>1. TypeOK'
  BY DEF IInv, TypeOK, Begin, diskVars, Sound, Table
<1>2. dok /\ dtable = table /\ dnext = next_free
  BY DEF IInv, Behind
<1>3. OnlyAt(tb2, table, i)
  BY DEF OnlyAt
<1>4. InOrder' /\ Behind' /\ Clearing'
  BY <1>2, <1>3 DEF IInv, InOrder, Behind, Clearing, Begin, diskVars, TypeOK
<1> QED
  BY <1>1, <1>4 DEF IInv

LEMMA CreateKeeps ==
  ASSUME IInv, NEW p \in Ids \cup {FS_ROOT}, NEW n \in Names,
         NEW ty \in {"file", "folder"}, Create(p, n, ty)
  PROVE  IInv'
<1>1. PICK i \in Ids : /\ CanCreate(table, p, n, i)
                       /\ table' = Created(table, p, n, ty, i)
                       /\ Begin(i, "entry")
                       /\ kept' = [kept EXCEPT ![i] = {}]
  BY DEF Create
<1>2. pc = "idle" /\ Sound(table, next_free) /\ UNCHANGED <<next_free, diskVars, what, wiped>>
  BY DEF Create, IInv, InOrder
<1>3. /\ Sound(Created(table, p, n, ty, i), next_free)
      /\ OnlyAt(table, Created(table, p, n, ty, i), i)
  BY <1>1, <1>2, CreateSound
<1>4. kept' \in [Ids -> {{}} \cup {{c} : c \in Content}]
  BY <1>1 DEF IInv, TypeOK
<1> QED
  BY <1>1, <1>2, <1>3, <1>4, EntryChanged

LEMMA DeleteKeeps == ASSUME IInv, NEW i \in Ids, Delete(i) PROVE IInv'
<1>1. pc = "idle" /\ Sound(table, next_free) /\ UNCHANGED <<next_free, diskVars, what, wiped>>
  BY DEF Delete, IInv, InOrder
<1>2. Sound(Deleted(table, i), next_free) /\ OnlyAt(table, Deleted(table, i), i)
  BY <1>1, DeleteSound DEF Delete
<1>3. kept' \in [Ids -> {{}} \cup {{c} : c \in Content}]
  BY DEF Delete, IInv, TypeOK
<1> QED
  BY <1>1, <1>2, <1>3, EntryChanged DEF Delete

LEMMA RenameKeeps ==
  ASSUME IInv, NEW i \in Ids, NEW n \in Names, Rename(i, n) PROVE IInv'
<1>1. /\ pc = "idle" /\ Sound(table, next_free)
      /\ UNCHANGED <<next_free, diskVars, what, kept, wiped>>
  BY DEF Rename, IInv, InOrder
<1>2. Sound(Renamed(table, i, n), next_free) /\ OnlyAt(table, Renamed(table, i, n), i)
  BY <1>1, RenameSound DEF Rename
<1>3. kept' \in [Ids -> {{}} \cup {{c} : c \in Content}]
  BY <1>1 DEF IInv, TypeOK
<1> QED
  BY <1>1, <1>2, <1>3, EntryChanged DEF Rename

LEMMA MoveKeeps ==
  ASSUME IInv, NEW i \in Ids, NEW p \in Ids \cup {FS_ROOT}, Move(i, p) PROVE IInv'
<1>1. /\ pc = "idle" /\ Sound(table, next_free)
      /\ UNCHANGED <<next_free, diskVars, what, kept, wiped>>
  BY DEF Move, IInv, InOrder
<1>2. Sound(Moved(table, i, p), next_free) /\ OnlyAt(table, Moved(table, i, p), i)
  BY <1>1, MoveSound DEF Move
<1>3. kept' \in [Ids -> {{}} \cup {{c} : c \in Content}]
  BY <1>1 DEF IInv, TypeOK
<1> QED
  BY <1>1, <1>2, <1>3, EntryChanged DEF Move

LEMMA WriteFileKeeps ==
  ASSUME IInv, NEW i \in Ids, NEW len \in 0 .. MaxFileSectors, NEW c \in Content,
         WriteFile(i, len, c)
  PROVE  IInv'
<1> DEFINE tb2 == Written(table, next_free, i, len)
           nf2 == NextFree(table, next_free, i, len)
<1>1. /\ pc = "idle" /\ Sound(table, next_free) /\ len \in Nat
      /\ CanWrite(table, next_free, i, len)
      /\ table' = tb2 /\ next_free' = nf2
      /\ UNCHANGED <<diskVars, wiped>>
  BY FileTableAssumption DEF WriteFile, IInv, InOrder
<1>2. /\ pc' = IF Grows(table, i, len) THEN "super" ELSE "data"
      /\ cur' = i /\ k' = 0 /\ what' = {c}
  BY DEF WriteFile, Begin
<1>3. Sound(tb2, nf2) /\ OnlyAt(table, tb2, i) /\ next_free <= nf2
  BY <1>1, WriteSound
<1>4. ~Grows(table, i, len) => nf2 = next_free
  BY DEF NextFree
<1>5. dok /\ dtable = table /\ dnext = next_free
  BY <1>1 DEF IInv, Behind
<1>6. OnlyAt(tb2, table, i)
  BY <1>3 DEF OnlyAt
<1>7. kept' \in [Ids -> {{}} \cup {{d} : d \in Content}]
  BY DEF WriteFile, IInv, TypeOK
<1> HIDE DEF tb2, nf2
<1>8. TypeOK'
  BY <1>1, <1>2, <1>3, <1>7 DEF IInv, TypeOK, diskVars, Sound, Table
<1>9. InOrder' /\ Behind' /\ Clearing'
  BY <1>1, <1>2, <1>3, <1>4, <1>5, <1>6
     DEF IInv, InOrder, Behind, Clearing, diskVars, TypeOK
<1> QED
  BY <1>8, <1>9 DEF IInv

-----------------------------------------------------------------------------
(* ... and by the writes to the disk, which make up for it.                *)

LEMMA AccessKeeps ==
  ASSUME IInv, FlushSuper \/ WriteData \/ DataDone \/ FlushEntry
  PROVE  IInv'
<1>1. CASE FlushSuper
  <2>1. TypeOK'
    BY <1>1 DEF FlushSuper, IInv, TypeOK, memVars
  <2>2. Sound(dtable, next_free)
    BY <1>1, RoomToSpare DEF FlushSuper, IInv, TypeOK, InOrder, Behind
  <2>3. InOrder' /\ Behind' /\ Clearing'
    BY <1>1, <2>2, FileTableAssumption
       DEF FlushSuper, IInv, TypeOK, InOrder, Behind, Clearing, memVars
  <2> QED
    BY <2>1, <2>3 DEF IInv
<1>2. CASE WriteData
  <2>1. data' \in [Sectors -> {{}} \cup {{c} : c \in Content}]
    BY <1>2 DEF WriteData, IInv, TypeOK
  <2>2. k' \in Nat
    BY <1>2 DEF WriteData, IInv, TypeOK
  <2>3. TypeOK'
    BY <1>2, <2>1, <2>2 DEF WriteData, IInv, TypeOK, memVars
  <2>4. InOrder' /\ Behind' /\ Clearing'
    BY <1>2 DEF WriteData, IInv, InOrder, Behind, Clearing, memVars
  <2> QED
    BY <2>3, <2>4 DEF IInv
<1>3. CASE DataDone
  <2>1. TypeOK'
    BY <1>3 DEF DataDone, IInv, TypeOK, memVars, diskVars
  <2>2. InOrder' /\ Behind' /\ Clearing'
    BY <1>3 DEF DataDone, IInv, InOrder, Behind, Clearing, memVars, diskVars
  <2> QED
    BY <2>1, <2>2 DEF IInv
<1>4. CASE FlushEntry
  <2>1. dtable' = table
    BY <1>4, FlushedSector DEF FlushEntry, IInv, TypeOK, Behind, Table
  <2>2. kept' \in [Ids -> {{}} \cup {{c} : c \in Content}]
    BY <1>4 DEF FlushEntry, IInv, TypeOK
  <2>3. 0 \in Ids
    BY FileTableAssumption DEF Ids
  <2>4. TypeOK'
    BY <1>4, <2>1, <2>2, <2>3 DEF FlushEntry, Done, IInv, TypeOK, memVars
  <2>5. InOrder' /\ Behind' /\ Clearing'
    BY <1>4, <2>1, FileTableAssumption
       DEF FlushEntry, Done, IInv, InOrder, Behind, Clearing, OnlyAt, memVars, TypeOK
  <2> QED
    BY <2>4, <2>5 DEF IInv
<1> QED
  BY <1>1, <1>2, <1>3, <1>4

LEMMA CrashKeeps == IInv /\ Crash => IInv'
<1> SUFFICES ASSUME IInv, Crash PROVE IInv'
  OBVIOUS
<1>1. 0 \in Ids /\ 0 \in 0 .. DataSectors
  BY FileTableAssumption DEF Ids
<1>2. TypeOK'
  BY <1>1, EmptySound DEF Crash, IInv, TypeOK, diskVars, Table
<1>3. InOrder' /\ Behind' /\ Clearing'
  BY DEF Crash, IInv, InOrder, Behind, Clearing, diskVars
<1> QED
  BY <1>2, <1>3 DEF IInv

LEMMA StutterKeeps == IInv /\ UNCHANGED vars => IInv'
BY DEF vars, memVars, diskVars, opVars, IInv, TypeOK, InOrder, Behind, Clearing, OnlyAt, Sound

LEMMA StepKeeps == ~ReadErrors /\ IInv /\ [Next]_vars => IInv'
<1> SUFFICES ASSUME ~ReadErrors, IInv, [Next]_vars PROVE IInv'
  OBVIOUS
<1>1. CASE Operation
  BY <1>1, CreateKeeps, DeleteKeeps, RenameKeeps, MoveKeeps, WriteFileKeeps DEF Operation
<1>2. CASE Access
  BY <1>2, MountKeeps, FormatKeeps, AccessKeeps DEF Access
<1>3. CASE Crash
  BY <1>3, CrashKeeps
<1>4. CASE UNCHANGED vars
  BY <1>4, StutterKeeps
<1> QED
  BY <1>1, <1>2, <1>3, <1>4 DEF Next

-----------------------------------------------------------------------------

(* As long as mounting can read the disk: whatever fs_create, fs_delete,   *)
(* fs_rename, fs_move and fs_write_file are asked for, and wherever the    *)
(* power fails between two of their sector writes, the table in memory and *)
(* the one on disk are well formed, and equal when no operation is under   *)
(* way.                                                                    *)
THEOREM FilesStayWellFormed == ASSUME ~ReadErrors PROVE Spec => []TablesWellFormed
<1>1. IInv => TablesWellFormed
  BY DEF IInv, InOrder, Behind, Sound, TablesWellFormed, MemoryWellFormed, DiskWellFormed, Synced
<1>2. IInv /\ [Next]_vars => IInv'
  BY StepKeeps
<1> QED
  BY <1>1, <1>2, InitialState, PTL DEF Spec

-----------------------------------------------------------------------------
(* Completed writes survive.  The further invariant: a write under way has *)
(* put the new content in the sectors it has passed, and writes beyond the *)
(* run that the disk still has for the file, unless it was given up; any   *)
(* other change leaves the file where it is.                               *)

\* Sector s of the file i in table tb has the content c.
SectorHas(tb, i, s, c) == data[tb[i].start + s] = c

SamePlace(tb, tb2, i) ==
  /\ tb2[i].used = tb[i].used /\ tb2[i].type = tb[i].type
  /\ tb2[i].start = tb[i].start /\ tb2[i].size = tb[i].size

UnderWay ==
  /\ pc \in {"super", "data", "written"} => IsFile(table, cur)
  /\ pc = "super" => k = 0
  /\ pc \in {"super", "data"} =>
       \/ kept[cur] = {}
       \/ dtable[cur].start + dtable[cur].size <= table[cur].start
  /\ pc = "data" => /\ k <= table[cur].size
                    /\ \A s \in 0 .. k - 1 : SectorHas(table, cur, s, what)
  /\ pc = "written" => \A s \in 0 .. table[cur].size - 1 : SectorHas(table, cur, s, what)
  /\ pc = "entry" => kept[cur] = {} \/ SamePlace(dtable, table, cur)

DInv == IInv /\ Durable /\ UnderWay

\* An operation on the entry i that changes no file's place, or gives up
\* what was kept of it.
LEMMA EntryDurable ==
  ASSUME DInv, pc = "idle", NEW i \in Ids,
         Begin(i, "entry"),
         OnlyAt(table, table', i),
         \/ kept' = [kept EXCEPT ![i] = {}]
         \/ kept' = kept /\ SamePlace(table, table', i),
         UNCHANGED diskVars
  PROVE  Durable' /\ UnderWay'
<1>1. dok /\ dtable = table
  BY DEF DInv, IInv, Behind
<1>2. kept \in [Ids -> {{}} \cup {{c} : c \in Content}]
  BY DEF DInv, IInv, TypeOK
<1>3. Durable'
  <2>1. \A j \in Ids : kept'[j] = {} \/ kept'[j] = kept[j]
    BY <1>2
  <2> QED
    BY <2>1 DEF DInv, Durable, diskVars, IsFile
<1>4. kept'[i] = {} \/ SamePlace(table, table', i)
  BY <1>2
<1>5. UnderWay'
  BY <1>1, <1>4 DEF UnderWay, Begin, diskVars, SamePlace
<1> QED
  BY <1>3, <1>5

LEMMA CreateDurable ==
  ASSUME DInv, NEW p \in Ids \cup {FS_ROOT}, NEW n \in Names,
         NEW ty \in {"file", "folder"}, Create(p, n, ty)
  PROVE  Durable' /\ UnderWay'
<1>1. PICK i \in Ids : /\ CanCreate(table, p, n, i)
                       /\ table' = Created(table, p, n, ty, i)
                       /\ Begin(i, "entry")
                       /\ kept' = [kept EXCEPT ![i] = {}]
  BY DEF Create
<1>2. pc = "idle" /\ Sound(table, next_free) /\ UNCHANGED diskVars
  BY DEF Create, DInv, IInv, InOrder
<1>3. OnlyAt(table, table', i)
  BY <1>1, <1>2, CreateSound
<1> QED
  BY <1>1, <1>2, <1>3, EntryDurable

LEMMA DeleteDurable == ASSUME DInv, NEW i \in Ids, Delete(i) PROVE Durable' /\ UnderWay'
<1>1. pc = "idle" /\ Sound(table, next_free) /\ UNCHANGED diskVars
  BY DEF Delete, DInv, IInv, InOrder
<1>2. OnlyAt(table, table', i)
  BY <1>1, DeleteSound DEF Delete
<1> QED
  BY <1>1, <1>2, EntryDurable DEF Delete

LEMMA RenameDurable ==
  ASSUME DInv, NEW i \in Ids, NEW n \in Names, Rename(i, n) PROVE Durable' /\ UnderWay'
<1>1. pc = "idle" /\ Sound(table, next_free) /\ UNCHANGED <<diskVars, kept>>
  BY DEF Rename, DInv, IInv, InOrder
<1>2. OnlyAt(table, table', i) /\ SamePlace(table, table', i)
  BY <1>1, RenameSound DEF Rename, SamePlace
<1> QED
  BY <1>1, <1>2, EntryDurable DEF Rename

LEMMA MoveDurable ==
  ASSUME DInv, NEW i \in Ids, NEW p \in Ids \cup {FS_ROOT}, Move(i, p)
  PROVE  Durable' /\ UnderWay'
<1>1. pc = "idle" /\ Sound(table, next_free) /\ UNCHANGED <<diskVars, kept>>
  BY DEF Move, DInv, IInv, InOrder
<1>2. OnlyAt(table, table', i) /\ SamePlace(table, table', i)
  BY <1>1, MoveSound DEF Move, SamePlace
<1> QED
  BY <1>1, <1>2, EntryDurable DEF Move

\* A file that outgrows its run is written where no sector of it lies.
LEMMA WriteFileDurable ==
  ASSUME DInv, NEW i \in Ids, NEW len \in 0 .. MaxFileSectors, NEW c \in Content,
         WriteFile(i, len, c)
  PROVE  Durable' /\ UnderWay'
<1>1. /\ pc = "idle" /\ Sound(table, next_free) /\ len \in Nat
      /\ CanWrite(table, next_free, i, len)
      /\ UNCHANGED diskVars
  BY FileTableAssumption DEF WriteFile, DInv, IInv, InOrder
<1>2. /\ table'[i].used /\ table'[i].type = "file" /\ table'[i].size = len
      /\ Grows(table, i, len) => table'[i].start = next_free
  BY <1>1, WriteSound DEF WriteFile
<1>3. /\ pc' = IF Grows(table, i, len) THEN "super" ELSE "data"
      /\ cur' = i /\ k' = 0
      /\ kept' = IF Grows(table, i, len) THEN kept ELSE [kept EXCEPT ![i] = {}]
  BY DEF WriteFile, Begin
<1>4. dok /\ dtable = table /\ kept \in [Ids -> {{}} \cup {{d} : d \in Content}]
  BY <1>1 DEF DInv, IInv, Behind, TypeOK
<1>5. Durable'
  <2>1. \A j \in Ids : kept'[j] = {} \/ kept'[j] = kept[j]
    BY <1>3, <1>4
  <2> QED
    BY <1>1, <2>1 DEF DInv, Durable, diskVars, IsFile
<1>6. table[i].start + table[i].size <= next_free
  <2>1. /\ table[i].used /\ table[i].start \in Nat /\ table[i].size \in Nat
        /\ table[i].alloc \in Nat /\ next_free \in Nat
    <3>1. table[i] \in Entries /\ next_free \in 0 .. DataSectors /\ table[i].used
      BY <1>1 DEF CanWrite, IsFile, Sound, Table
    <3>2. /\ table[i].start \in Nat /\ table[i].size \in Nat /\ table[i].alloc \in Nat
      BY <3>1 DEF Entries
    <3> QED
      BY <3>1, <3>2, FileTableAssumption
  <2> QED
    BY <1>1, <2>1 DEF Sound, WellFormed, RunsOk
<1>7. kept'[i] = {} \/ dtable'[i].start + dtable'[i].size <= table'[i].start
  BY <1>1, <1>2, <1>3, <1>4, <1>6 DEF diskVars
<1>8. UnderWay'
  BY <1>1, <1>2, <1>3, <1>7 DEF UnderWay, IsFile
<1> QED
  BY <1>5, <1>8

\* No other file has the sector that a write puts its content in.
LEMMA WriteDataDurable == ASSUME DInv, WriteData PROVE Durable' /\ UnderWay'
<1> DEFINE s0 == table[cur].start + k
<1>1. /\ pc = "data" /\ k < table[cur].size /\ k \in Nat /\ k' = k + 1 /\ cur \in Ids
      /\ data' = [data EXCEPT ![s0] = what]
      /\ UNCHANGED <<memVars, dtable, dnext, dok, pc, cur, what, kept>>
      /\ Sound(table, next_free) /\ OnlyAt(table, dtable, cur)
  BY DEF WriteData, DInv, IInv, TypeOK, InOrder, Behind
<1>2. /\ IsFile(table, cur)
      /\ kept[cur] = {} \/ dtable[cur].start + dtable[cur].size <= table[cur].start
      /\ \A s \in 0 .. k - 1 : SectorHas(table, cur, s, what)
  BY <1>1 DEF DInv, UnderWay
<1>3. /\ data \in [Sectors -> {{}} \cup {{c} : c \in Content}]
      /\ \A j \in Ids : /\ table[j].start \in Nat /\ table[j].alloc \in Nat /\ table[j].size \in Nat
                        /\ dtable[j].start \in Nat /\ dtable[j].size \in Nat
  BY DEF DInv, IInv, TypeOK, Entries
<1>4. \A j \in Ids : table[j].used =>
        /\ table[j].start + table[j].alloc <= next_free /\ table[j].size <= table[j].alloc
  BY <1>1 DEF Sound, WellFormed, RunsOk
<1>5. s0 \in Sectors
  <2>1. next_free <= DataSectors /\ next_free \in Nat
    BY <1>1, FileTableAssumption DEF Sound
  <2>2. /\ table[cur].start + table[cur].alloc <= next_free
        /\ table[cur].size <= table[cur].alloc
    BY <1>1, <1>2, <1>4 DEF IsFile
  <2>3. table[cur].start \in Nat /\ table[cur].alloc \in Nat /\ table[cur].size \in Nat
    BY <1>1, <1>3
  <2> QED
    BY <1>1, <2>1, <2>2, <2>3, FileTableAssumption DEF Sectors
<1>6. \A s : s # s0 => data'[s] = data[s]
  BY <1>1, <1>3
<1>7. data'[s0] = what
  BY <1>1, <1>3, <1>5
<1>8. Durable'
  <2> SUFFICES ASSUME dok, NEW j \in Ids, IsFile(dtable, j), NEW s \in 0 .. dtable[j].size - 1,
                      kept[j] # {}
               PROVE  data'[dtable[j].start + s] = kept[j]
    BY <1>1 DEF Durable, IsFile
  <2>1. data[dtable[j].start + s] = kept[j]
    BY DEF DInv, Durable
  <2>2. dtable[j].start + s # s0
    <3>1. CASE j = cur
      BY <1>1, <1>2, <1>3, <3>1
    <3>2. CASE j # cur
      <4>1. dtable[j] = table[j] /\ table[j].used /\ table[j].size <= table[j].alloc
        BY <1>1, <1>4, <3>2 DEF OnlyAt, IsFile
      <4>2. table[cur].used /\ table[cur].size <= table[cur].alloc
        BY <1>1, <1>2, <1>4 DEF IsFile
      <4>3. table[j].alloc > 0 /\ table[cur].alloc > 0
        BY <1>1, <1>3, <4>1, <4>2
      <4>4. \/ table[j].start + table[j].alloc <= table[cur].start
            \/ table[cur].start + table[cur].alloc <= table[j].start
        BY <1>1, <3>2, <4>1, <4>2, <4>3 DEF Sound, WellFormed, RunsOk
      <4> QED
        BY <1>1, <1>3, <4>1, <4>2, <4>4
    <3> QED
      BY <3>1, <3>2
  <2> QED
    BY <1>6, <2>1, <2>2
<1>9. UnderWay'
  <2>1. \A s \in 0 .. k : data'[table[cur].start + s] = what
    <3> SUFFICES ASSUME NEW s \in 0 .. k PROVE data'[table[cur].start + s] = what
      OBVIOUS
    <3>1. CASE s = k
      BY <1>7, <3>1
    <3>2. CASE s # k
      <4>1. s \in 0 .. k - 1 /\ table[cur].start + s # s0
        BY <1>1, <1>3, <3>2
      <4> HIDE DEF s0
      <4> QED
        BY <1>2, <1>6, <4>1 DEF SectorHas
    <3> QED
      BY <3>1, <3>2
  <2>2. k + 1 <= table[cur].size /\ (k + 1) - 1 = k
    BY <1>1, <1>3
  <2> HIDE DEF s0
  <2> QED
    BY <1>1, <1>2, <2>1, <2>2 DEF UnderWay, SectorHas, IsFile, memVars
<1> QED
  BY <1>8, <1>9

LEMMA FlushEntryDurable == ASSUME DInv, FlushEntry PROVE Durable' /\ UnderWay'
<1>1. /\ pc \in {"entry", "written"} /\ pc' = "idle" /\ UNCHANGED <<dok, data>>
      /\ kept' = IF pc = "written" THEN [kept EXCEPT ![cur] = what] ELSE kept
      /\ OnlyAt(table, dtable, cur) /\ cur \in Ids
      /\ kept \in [Ids -> {{}} \cup {{c} : c \in Content}]
  BY DEF FlushEntry, Done, DInv, IInv, TypeOK, Behind
<1>2. dtable' = table
  BY FlushedSector DEF FlushEntry, DInv, IInv, TypeOK, Behind, Table
<1>3. Durable'
  <2> SUFFICES ASSUME dok, NEW j \in Ids, IsFile(table, j), NEW s \in 0 .. table[j].size - 1,
                      kept'[j] # {}
               PROVE  data[table[j].start + s] = kept'[j]
    BY <1>1, <1>2 DEF Durable, IsFile
  <2>1. CASE j # cur
    BY <1>1, <2>1 DEF DInv, Durable, OnlyAt, IsFile
  <2>2. CASE j = cur /\ pc = "written"
    BY <1>1, <2>2 DEF DInv, UnderWay, SectorHas
  <2>3. CASE j = cur /\ pc = "entry"
    <3>1. SamePlace(dtable, table, cur) /\ kept'[j] = kept[j]
      BY <1>1, <2>3 DEF DInv, UnderWay
    <3> QED
      BY <2>3, <3>1 DEF DInv, Durable, SamePlace, IsFile
  <2> QED
    BY <1>1, <2>1, <2>2, <2>3
<1> QED
  BY <1>1, <1>3 DEF UnderWay

LEMMA DurableStep == ~ReadErrors /\ DInv /\ [Next]_vars => DInv'
<1> SUFFICES ASSUME ~ReadErrors, DInv, [Next]_vars PROVE Durable' /\ UnderWay'
  BY StepKeeps DEF DInv
<1>1. CASE Operation
  BY <1>1, CreateDurable, DeleteDurable, RenameDurable, MoveDurable, WriteFileDurable
     DEF Operation
<1>2. CASE Mount
  BY <1>2 DEF Mount, Load, Format, diskVars, DInv, Durable, UnderWay, IsFile
<1>3. CASE FormatTable
  <2>1. ~dok
    BY <1>3 DEF FormatTable, DInv, IInv, Clearing
  <2> QED
    BY <1>3, <2>1 DEF FormatTable, Durable, UnderWay
<1>4. CASE FormatSuper
  BY <1>4 DEF FormatSuper, Done, Durable, UnderWay
<1>5. CASE FlushSuper
  <2>1. k = 0 /\ table[cur] \in Entries
    BY <1>5 DEF FlushSuper, DInv, UnderWay, IInv, TypeOK
  <2>2. table[cur].size \in Nat
    BY <2>1 DEF Entries
  <2> QED
    BY <1>5, <2>1, <2>2 DEF FlushSuper, memVars, DInv, Durable, UnderWay, IsFile
<1>6. CASE WriteData
  BY <1>6, WriteDataDurable
<1>7. CASE DataDone
  BY <1>7 DEF DataDone, memVars, diskVars, DInv, Durable, UnderWay, IsFile, SectorHas
<1>8. CASE FlushEntry
  BY <1>8, FlushEntryDurable
<1>9. CASE Crash
  BY <1>9 DEF Crash, diskVars, DInv, Durable, UnderWay, IsFile
<1>10. CASE UNCHANGED vars
  BY <1>10 DEF vars, memVars, diskVars, opVars, DInv, Durable, UnderWay, IsFile, SectorHas,
     SamePlace
<1> QED
  BY <1>1, <1>2, <1>3, <1>4, <1>5, <1>6, <1>7, <1>8, <1>9, <1>10 DEF Next, Access

(* As long as mounting can read the disk: what a completed fs_write_file   *)
(* put in a file is in its sectors ever after, whatever is done to other   *)
(* files and wherever the power fails, until the file is written in place  *)
(* again, deleted or formatted away.                                       *)
THEOREM CompletedWritesSurvive == ASSUME ~ReadErrors PROVE Spec => []Durable
<1>1. Init => DInv
  <2> SUFFICES ASSUME Init PROVE DInv
    OBVIOUS
  <2> QED
    BY InitialState DEF Init, DInv, Durable, UnderWay
<1>2. DInv /\ [Next]_vars => DInv'
  BY DurableStep
<1>3. DInv => Durable
  BY DEF DInv
<1> QED
  BY <1>1, <1>2, <1>3, PTL DEF Spec

-----------------------------------------------------------------------------
(* Folders lead to the root.                                               *)

GInv == IInv /\ (pc # "off" => Graded(table)) /\ (dok => Graded(dtable))

\* An operation changes memory only; the disk is what memory was.
LEMMA OperationGraded ==
  ASSUME GInv, Operation PROVE Graded(table') /\ (dok' => Graded(dtable'))
<1>1. pc = "idle" /\ UNCHANGED diskVars
  BY DEF Operation, Create, Delete, Rename, Move, WriteFile
<1>2. Sound(table, next_free) /\ Graded(table) /\ (dok' => Graded(dtable'))
  BY <1>1 DEF GInv, IInv, InOrder, diskVars
<1>3. ASSUME NEW p \in Ids \cup {FS_ROOT}, NEW n \in Names, NEW ty \in {"file", "folder"},
             Create(p, n, ty)
      PROVE  Graded(table')
  BY <1>2, <1>3, CreateGraded DEF Create
<1>4. ASSUME NEW i \in Ids, Delete(i) PROVE Graded(table')
  BY <1>2, <1>4, DeleteGraded DEF Delete
<1>5. ASSUME NEW i \in Ids, NEW n \in Names, Rename(i, n) PROVE Graded(table')
  BY <1>2, <1>5, RenameGraded DEF Rename
<1>6. ASSUME NEW i \in Ids, NEW p \in Ids \cup {FS_ROOT}, Move(i, p) PROVE Graded(table')
  BY <1>2, <1>6, MoveGraded DEF Move
<1>7. ASSUME NEW i \in Ids, NEW len \in 0 .. MaxFileSectors, NEW c \in Content,
             WriteFile(i, len, c)
      PROVE  Graded(table')
  BY <1>2, <1>7, WriteGraded DEF WriteFile
<1> QED
  BY <1>2, <1>3, <1>4, <1>5, <1>6, <1>7 DEF Operation

LEMMA GradedStep == ~ReadErrors /\ GInv /\ [Next]_vars => GInv'
<1> SUFFICES ASSUME ~ReadErrors, GInv, [Next]_vars
             PROVE  (pc' # "off" => Graded(table')) /\ (dok' => Graded(dtable'))
  BY StepKeeps DEF GInv, Graded, Ranks
<1>1. CASE Operation
  BY <1>1, OperationGraded
<1>2. CASE Mount
  BY <1>2, EmptyGraded DEF Mount, Load, Format, diskVars, GInv
<1>3. CASE FormatTable
  <2>1. ~dok
    BY <1>3 DEF FormatTable, GInv, IInv, Clearing
  <2> QED
    BY <1>3, <2>1 DEF FormatTable, memVars, GInv
<1>4. CASE FormatSuper
  <2>1. /\ table = EmptyTable /\ k \in Nat /\ k \notin TableSectors
        /\ \A i \in Ids : i \div PerSector < k => dtable[i] = NoEntry
        /\ UNCHANGED <<table, dtable>>
    BY <1>4 DEF FormatSuper, memVars, GInv, IInv, TypeOK, Clearing
  <2>2. \A i \in Ids : dtable[i] = NoEntry
    BY <2>1, AllSectors
  <2>3. dtable \in Table
    BY DEF GInv, IInv, TypeOK, Table
  <2>4. dtable = EmptyTable
    BY <2>2, <2>3 DEF Table, EmptyTable
  <2> QED
    BY <2>1, <2>4, EmptyGraded
<1>5. CASE FlushSuper \/ WriteData \/ DataDone
  BY <1>5 DEF FlushSuper, WriteData, DataDone, memVars, diskVars, GInv
<1>6. CASE FlushEntry
  <2>1. dtable' = table
    BY <1>6, FlushedSector DEF FlushEntry, GInv, IInv, TypeOK, Behind, Table
  <2> QED
    BY <1>6, <2>1 DEF FlushEntry, memVars, GInv
<1>7. CASE Crash
  BY <1>7 DEF Crash, diskVars, GInv
<1>8. CASE UNCHANGED vars
  BY <1>8 DEF vars, memVars, diskVars, opVars, GInv
<1> QED
  BY <1>1, <1>2, <1>3, <1>4, <1>5, <1>6, <1>7, <1>8 DEF Next, Access

(* As long as mounting can read the disk: no sequence of fs_create,        *)
(* fs_move, fs_rename and fs_delete closes a ring of folders, in memory or *)
(* on a disk that a crash leaves.  fs_move's walk is long enough: it takes *)
(* as many steps as the table has entries.                                 *)
THEOREM FoldersLeadToTheRoot == ASSUME ~ReadErrors PROVE Spec => []Rooted
<1>1. Init => GInv
  <2> SUFFICES ASSUME Init PROVE GInv
    OBVIOUS
  <2> QED
    BY InitialState DEF Init, GInv
<1>2. GInv /\ [Next]_vars => GInv'
  BY GradedStep
<1>3. GInv => Rooted
  BY GradedMeansAcyclic DEF GInv, IInv, InOrder, Rooted
<1> QED
  BY <1>1, <1>2, <1>3, PTL DEF Spec
=============================================================================
