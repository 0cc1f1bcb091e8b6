----------------------------- MODULE FileSystem -----------------------------
(***************************************************************************)
(* src/kernel/fs.c: the directory table and superblock in memory, their    *)
(* copies on disk, and the sector writes, one at a time and in the order   *)
(* of the code, that carry one to the other.  Power may fail between any   *)
(* two sector writes; the next boot mounts what the disk holds.            *)
(*                                                                         *)
(* One thread at a time calls the file system (main in fs_init, then wm),  *)
(* so an operation that has begun is alone until its last write.  Its      *)
(* changes to memory are made when it begins: nothing reads them earlier   *)
(* than the writes do, and a crash discards them.                          *)
(***************************************************************************)
EXTENDS FileTable

CONSTANTS PerSector,   \* directory entries in a sector (4 in the code)
          Content,     \* what a client may write to a file
          ReadErrors   \* whether storage_read_sectors may fail while mounting

ASSUME FileSystemAssumption ==
  /\ PerSector \in Nat \ {0}
  /\ Content # {}
  /\ ReadErrors \in BOOLEAN

VARIABLES
  table, next_free,     \* g_table, g_super.next_free
  dtable, dnext, dok,   \* the table and next_free on disk; the superblock there
                        \* passes fs_init's test
  data,                 \* data[s]: what data sector s holds
  pc,                   \* the next disk access of the operation under way
  cur,                  \* the entry it is about
  k,                    \* data or table sectors it has written
  what,                 \* the content a write_file was given, in a set
  kept,                 \* ghost: kept[i], the content file i must have; {} if any
  wiped                 \* ghost: a superblock in order was formatted over

memVars == <<table, next_free>>
diskVars == <<dtable, dnext, dok, data>>
opVars == <<pc, cur, k, what>>
vars == <<memVars, diskVars, opVars, kept, wiped>>

Sectors == 0 .. DataSectors - 1

\* The operation is over: its local variables are gone.
Done == /\ pc' = "idle"
        /\ cur' = 0 /\ k' = 0 /\ what' = {}

TableSectors == {i \div PerSector : i \in Ids}

InSector(s) == {i \in Ids : i \div PerSector = s}

SectorOf(s, from, to) == [i \in Ids |-> IF i \in InSector(s) THEN from[i] ELSE to[i]]

-----------------------------------------------------------------------------
(* fs_init and fs_format. *)

Load == /\ table' = dtable
        /\ next_free' = dnext
        /\ pc' = "idle"
        /\ UNCHANGED wiped

\* storage_read_sectors stops at a sector s that it cannot read, and fs_init
\* does not look at its result: the entries from s on stay free.
LoadUpTo(s) ==
  /\ table' = [i \in Ids |-> IF i \div PerSector < s THEN dtable[i] ELSE table[i]]
  /\ next_free' = dnext
  /\ pc' = "idle"
  /\ UNCHANGED wiped

Format == /\ table' = EmptyTable
          /\ next_free' = 0
          /\ pc' = "format"
          /\ wiped' = (wiped \/ dok)

\* A failed read of the superblock leaves zeros in the buffer, which no test
\* tells from a blank disk.  The reads are one step with what follows them: they
\* change neither the disk nor anything that outlives a crash.
Mount ==
  /\ pc = "off"
  /\ \/ dok /\ Load
     \/ ~dok /\ Format
     \/ ReadErrors /\ Format
     \/ ReadErrors /\ dok /\ \E s \in TableSectors : LoadUpTo(s)
  /\ k' = 0
  /\ UNCHANGED <<diskVars, cur, what, kept>>

FormatTable ==
  /\ pc = "format" /\ k \in TableSectors
  /\ dtable' = SectorOf(k, table, dtable)
  /\ k' = k + 1
  /\ UNCHANGED <<memVars, dnext, dok, data, pc, cur, what, kept, wiped>>

\* fs_flush_super, the last write of fs_format.
FormatSuper ==
  /\ pc = "format" /\ k \notin TableSectors
  /\ dnext' = next_free
  /\ dok' = TRUE
  /\ Done
  /\ kept' = [i \in Ids |-> {}]
  /\ UNCHANGED <<memVars, dtable, data, wiped>>

-----------------------------------------------------------------------------
(* The operations: what they do to memory, and the first write they need.  *)

Begin(i, first) == /\ pc' = first
                   /\ cur' = i
                   /\ k' = 0

Create(p, n, ty) ==
  /\ pc = "idle"
  /\ \E i \in Ids : /\ CanCreate(table, p, n, i)
                    /\ table' = Created(table, p, n, ty, i)
                    /\ Begin(i, "entry")
                    /\ kept' = [kept EXCEPT ![i] = {}]
  /\ UNCHANGED <<next_free, diskVars, what, wiped>>

Delete(i) ==
  /\ pc = "idle"
  /\ CanDelete(table, i)
  /\ table' = Deleted(table, i)
  /\ Begin(i, "entry")
  /\ kept' = [kept EXCEPT ![i] = {}]
  /\ UNCHANGED <<next_free, diskVars, what, wiped>>

Rename(i, n) ==
  /\ pc = "idle"
  /\ CanRename(table, i, n)
  /\ table' = Renamed(table, i, n)
  /\ Begin(i, "entry")
  /\ UNCHANGED <<next_free, diskVars, what, kept, wiped>>

Move(i, p) ==
  /\ pc = "idle"
  /\ CanMove(table, i, p)
  /\ table' = Moved(table, i, p)
  /\ Begin(i, "entry")
  /\ UNCHANGED <<next_free, diskVars, what, kept, wiped>>

\* A write in place puts the old content at risk; one to a new run does not.
WriteFile(i, len, c) ==
  /\ pc = "idle"
  /\ CanWrite(table, next_free, i, len)
  /\ table' = Written(table, next_free, i, len)
  /\ next_free' = NextFree(table, next_free, i, len)
  /\ Begin(i, IF Grows(table, i, len) THEN "super" ELSE "data")
  /\ what' = {c}
  /\ kept' = IF Grows(table, i, len) THEN kept ELSE [kept EXCEPT ![i] = {}]
  /\ UNCHANGED <<diskVars, wiped>>

-----------------------------------------------------------------------------
(* The disk writes of an operation. *)

FlushSuper_Skipped ==
  /\ pc = "super"
  /\ pc' = "data"
  /\ UNCHANGED <<memVars, diskVars, cur, k, what, kept, wiped>>

FlushSuper ==
  /\ pc = "super"
  /\ dnext' = next_free
  /\ pc' = "data"
  /\ UNCHANGED <<memVars, dtable, dok, data, cur, k, what, kept, wiped>>

WriteData_WrongRun ==
  /\ pc = "data" /\ k < table[cur].size
  /\ data' = [data EXCEPT ![dtable[cur].start + k] = what]
  /\ k' = k + 1
  /\ UNCHANGED <<memVars, dtable, dnext, dok, pc, cur, what, kept, wiped>>

WriteData ==
  /\ pc = "data" /\ k < table[cur].size
  /\ data' = [data EXCEPT ![table[cur].start + k] = what]
  /\ k' = k + 1
  /\ UNCHANGED <<memVars, dtable, dnext, dok, pc, cur, what, kept, wiped>>

DataDone ==
  /\ pc = "data" /\ k = table[cur].size
  /\ pc' = "written"
  /\ UNCHANGED <<memVars, diskVars, cur, k, what, kept, wiped>>

\* fs_flush_entry, the last write of every operation: the sector with cur.
FlushEntry ==
  /\ pc \in {"entry", "written"}
  /\ dtable' = SectorOf(cur \div PerSector, table, dtable)
  /\ kept' = IF pc = "written" THEN [kept EXCEPT ![cur] = what] ELSE kept
  /\ Done
  /\ UNCHANGED <<memVars, dnext, dok, data, wiped>>

-----------------------------------------------------------------------------

\* Power off and on: memory starts out as zeros.
Crash ==
  /\ pc # "off"
  /\ table' = EmptyTable
  /\ next_free' = 0
  /\ pc' = "off" /\ cur' = 0 /\ k' = 0 /\ what' = {}
  /\ UNCHANGED <<diskVars, kept, wiped>>

\* What the directory sectors may hold before the first format.
Stray == [NoEntry EXCEPT !.used = TRUE, !.size = 1]

Init ==
  /\ table = EmptyTable /\ next_free = 0
  /\ dtable \in {EmptyTable, [i \in Ids |-> Stray]}
  /\ dnext = 0 /\ dok = FALSE
  /\ data = [s \in Sectors |-> {}]
  /\ pc = "off" /\ cur = 0 /\ k = 0
  /\ what = {}
  /\ kept = [i \in Ids |-> {}]
  /\ wiped = FALSE

Operation ==
  \/ \E p \in Ids \cup {FS_ROOT}, n \in Names, ty \in {"file", "folder"} : Create(p, n, ty)
  \/ \E i \in Ids : Delete(i)
  \/ \E i \in Ids, n \in Names : Rename(i, n)
  \/ \E i \in Ids, p \in Ids \cup {FS_ROOT} : Move(i, p)
  \/ \E i \in Ids, len \in 0 .. MaxFileSectors, c \in Content : WriteFile(i, len, c)

Access == Mount \/ FormatTable \/ FormatSuper \/ FlushSuper \/ WriteData \/ DataDone \/ FlushEntry

Next == Operation \/ Access \/ Crash

Spec == Init /\ [][Next]_vars

-----------------------------------------------------------------------------
(* Properties. *)

TypeOK ==
  /\ table \in [Ids -> Entries] /\ dtable \in [Ids -> Entries]
  /\ next_free \in 0 .. DataSectors /\ dnext \in 0 .. DataSectors
  /\ dok \in BOOLEAN /\ wiped \in BOOLEAN
  /\ data \in [Sectors -> {{}} \cup {{c} : c \in Content}]
  /\ pc \in {"off", "idle", "format", "super", "data", "written", "entry"}
  /\ cur \in Ids /\ k \in Nat /\ what \in {{}} \cup {{c} : c \in Content}
  /\ kept \in [Ids -> {{}} \cup {{c} : c \in Content}]

(* In the mounted table every entry lies in a folder, siblings have        *)
(* distinct names, and no two files share a sector: fs_create, fs_rename,  *)
(* fs_move, fs_delete and fs_write_file in any order keep it so.           *)
MemoryWellFormed == pc # "off" => WellFormed(table, next_free)

(* The disk is mountable whenever the power fails: between any two sector  *)
(* writes of any operation, the table on disk is well formed with respect  *)
(* to the superblock on disk.                                              *)
DiskWellFormed == dok => WellFormed(dtable, dnext)

(* Between operations the disk holds what memory does.                     *)
Synced == pc = "idle" => dtable = table /\ dnext = next_free /\ dok

(* Whatever the operations and the crashes, both tables are in order, and  *)
(* the same when no operation is under way.                                *)
TablesWellFormed == TypeOK /\ MemoryWellFormed /\ DiskWellFormed /\ Synced

(* Every folder leads to the root, in memory and on any disk that a crash  *)
(* may leave: no sequence of moves makes a folder its own ancestor.        *)
Rooted == (pc # "off" => Acyclic(table)) /\ (dok => Acyclic(dtable))

(* A completed write is not lost, to a crash or to another file's writes:  *)
(* the sectors of the file hold what was written last.  Only a write in    *)
(* place that was cut short gives that up, one to a new run does not.      *)
Durable ==
  dok => \A i \in Ids : IsFile(dtable, i) =>
           \A s \in 0 .. dtable[i].size - 1 :
             kept[i] # {} => data[dtable[i].start + s] = kept[i]

(* Stated by fs.c line 86: only a blank, corrupt or stale disk is          *)
(* formatted.                                                              *)
OnlyBadDisksFormatted == ~wiped

=============================================================================
