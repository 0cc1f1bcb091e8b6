---------------------------- MODULE TableProofs ----------------------------
(***************************************************************************)
(* What the operations of fs.c make of a directory table, for every size   *)
(* of the table and of the data region and every set of names: it stays    *)
(* well formed, and every folder leads to the root.                        *)
(***************************************************************************)
EXTENDS FileTable, FiniteSetTheorems, WellFoundedInduction, TLAPS

Table == [Ids -> Entries]

\* tb2 is tb but for entry i.
OnlyAt(tb, tb2, i) == \A j \in Ids : j # i => tb2[j] = tb[j]

-----------------------------------------------------------------------------
(* The operations on a table that is well formed.                          *)

(* What an operation must see to when it changes the entry i: that its     *)
(* folder is there, that nobody is left in it if it is no folder, that its *)
(* name is new, and that its run of sectors is the old one or beyond       *)
(* next_free.                                                              *)
LEMMA OneEntryChanged ==
  ASSUME NEW tb \in Table, NEW tb2 \in Table, NEW i \in Ids, OnlyAt(tb, tb2, i),
         NEW nf \in 0 .. DataSectors, NEW nf2 \in 0 .. DataSectors, nf <= nf2,
         DataSectors \in Nat,
         WellFormed(tb, nf),
         tb2[i].used => ParentOk(tb2, tb2[i].parent),
         \A j \in Ids : j # i /\ tb[j].used /\ tb[j].parent = i => IsFolder(tb2, i),
         \A j \in Ids : j # i /\ tb[j].used /\ tb2[i].used /\ tb[j].parent = tb2[i].parent
                          => tb[j].name # tb2[i].name,
         tb2[i].used => /\ tb2[i].size <= tb2[i].alloc
                        /\ tb2[i].start + tb2[i].alloc <= nf2
                        /\ \/ tb2[i].alloc = 0
                           \/ tb[i].used /\ tb2[i].start = tb[i].start /\ tb2[i].alloc = tb[i].alloc
                           \/ tb2[i].start >= nf
  PROVE  WellFormed(tb2, nf2)
<1>1. ParentsOk(tb2)
  <2> SUFFICES ASSUME NEW j \in Ids, tb2[j].used PROVE ParentOk(tb2, tb2[j].parent)
    BY DEF ParentsOk
  <2>1. CASE j = i
    BY <2>1
  <2>2. CASE j # i
    <3>1. tb2[j] = tb[j] /\ ParentOk(tb, tb[j].parent)
      BY <2>2 DEF OnlyAt, WellFormed, ParentsOk
    <3> QED
      BY <2>2, <3>1 DEF ParentOk, IsFolder, OnlyAt
  <2> QED
    BY <2>1, <2>2
<1>2. UniqueNames(tb2)
  BY DEF WellFormed, UniqueNames, OnlyAt
<1>3. RunsOk(tb2, nf2)
  <2> DEFINE Fits(t, n, j) == t[j].used => t[j].start + t[j].alloc <= n /\ t[j].size <= t[j].alloc
             Apart(t, a, b) == a # b /\ t[a].used /\ t[b].used /\ t[a].alloc > 0 /\ t[b].alloc > 0 =>
                                 \/ t[a].start + t[a].alloc <= t[b].start
                                 \/ t[b].start + t[b].alloc <= t[a].start
  <2>1. \A j \in Ids : /\ tb[j].start \in Nat /\ tb[j].alloc \in Nat /\ tb[j].size \in Nat
                       /\ tb2[j].start \in Nat /\ tb2[j].alloc \in Nat /\ tb2[j].size \in Nat
    BY DEF Table, Entries
  <2>2. (\A j \in Ids : Fits(tb, nf, j)) /\ (\A a, b \in Ids : Apart(tb, a, b))
    BY DEF WellFormed, RunsOk
  <2>3. ASSUME NEW j \in Ids PROVE Fits(tb2, nf2, j)
    BY <2>1, <2>2, <2>3 DEF OnlyAt
  <2>4. ASSUME NEW a \in Ids, NEW b \in Ids PROVE Apart(tb2, a, b)
    <3>1. CASE a # i /\ b # i
      BY <2>2, <3>1 DEF OnlyAt
    <3>2. CASE a = i /\ b # i
      BY <2>1, <2>2, <3>2 DEF OnlyAt
    <3>3. CASE a # i /\ b = i
      BY <2>1, <2>2, <3>3 DEF OnlyAt
    <3> QED
      BY <3>1, <3>2, <3>3
  <2> QED
    BY <2>3, <2>4 DEF RunsOk
<1> QED
  BY <1>1, <1>2, <1>3 DEF WellFormed

\* What is known of the table before an operation.
Sound(tb, nf) == tb \in Table /\ nf \in 0 .. DataSectors /\ WellFormed(tb, nf)

LEMMA RootIsNoEntry == FS_ROOT \notin Ids
BY FileTableAssumption DEF FS_ROOT, Ids

LEMMA OnlyFoldersHaveChildren ==
  ASSUME NEW tb, NEW nf, Sound(tb, nf), NEW i \in Ids, ~IsFolder(tb, i)
  PROVE  \A j \in Ids : tb[j].used => tb[j].parent # i
BY RootIsNoEntry DEF Sound, WellFormed, ParentsOk, ParentOk

LEMMA CreateSound ==
  ASSUME NEW tb, NEW nf, Sound(tb, nf), NEW p \in Ids \cup {FS_ROOT}, NEW n \in Names,
         NEW ty \in {"file", "folder"}, NEW i \in Ids, CanCreate(tb, p, n, i)
  PROVE  Sound(Created(tb, p, n, ty, i), nf) /\ OnlyAt(tb, Created(tb, p, n, ty, i), i)
<1> DEFINE new == [NoEntry EXCEPT !.used = TRUE, !.type = ty, !.parent = p, !.name = n]
           tb2 == Created(tb, p, n, ty, i)
<1>1. /\ new \in Entries /\ new.used /\ new.parent = p /\ new.name = n
      /\ new.start = 0 /\ new.alloc = 0 /\ new.size = 0
  BY DEF NoEntry, Entries
<1>2. tb2 \in Table /\ tb2[i] = new /\ OnlyAt(tb, tb2, i)
  <2> HIDE DEF new
  <2>1. tb2 = [tb EXCEPT ![i] = new]
    BY DEF Created, new
  <2> HIDE DEF tb2
  <2> QED
    BY <1>1, <2>1 DEF Sound, Table, OnlyAt
<1> HIDE DEF new, tb2
<1>3. ~tb[i].used /\ ParentOk(tb, p) /\ Find(tb, p, n) = {}
  BY DEF CanCreate, IsAlloc, FreeIds
<1>4. p # i /\ ParentOk(tb2, p)
  BY <1>2, <1>3, RootIsNoEntry DEF ParentOk, IsFolder, OnlyAt
<1>5. \A j \in Ids : tb[j].used => tb[j].parent # i
  BY <1>3, OnlyFoldersHaveChildren DEF IsFolder
<1>6. \A j \in Ids : tb[j].used /\ tb[j].parent = p => tb[j].name # n
  BY <1>3 DEF Find, Children
<1>7. WellFormed(tb2, nf)
  <2>1. nf \in Nat
    BY FileTableAssumption DEF Sound
  <2> QED
    BY <1>1, <1>2, <1>4, <1>5, <1>6, <2>1, OneEntryChanged, FileTableAssumption DEF Sound
<1> QED
  BY <1>2, <1>7 DEF Sound, tb2

LEMMA DeleteSound ==
  ASSUME NEW tb, NEW nf, Sound(tb, nf), NEW i \in Ids, CanDelete(tb, i)
  PROVE  Sound(Deleted(tb, i), nf) /\ OnlyAt(tb, Deleted(tb, i), i)
<1> DEFINE tb2 == Deleted(tb, i)
<1>1. NoEntry \in Entries /\ NoEntry.used = FALSE
  BY DEF NoEntry, Entries
<1>2. tb2 \in Table /\ tb2[i] = NoEntry /\ OnlyAt(tb, tb2, i)
  BY <1>1 DEF Sound, Table, OnlyAt, Deleted
<1>3. \A j \in Ids : tb[j].used => tb[j].parent # i
  BY OnlyFoldersHaveChildren DEF CanDelete, Children
<1>4. WellFormed(tb2, nf)
  <2> HIDE DEF tb2
  <2> QED
    BY <1>1, <1>2, <1>3, OneEntryChanged, FileTableAssumption DEF Sound
<1> QED
  BY <1>2, <1>4 DEF Sound

LEMMA RenameSound ==
  ASSUME NEW tb, NEW nf, Sound(tb, nf), NEW i \in Ids, NEW n \in Names, CanRename(tb, i, n)
  PROVE  /\ Sound(Renamed(tb, i, n), nf) /\ OnlyAt(tb, Renamed(tb, i, n), i)
         /\ LET e == Renamed(tb, i, n)[i]
            IN  /\ e.used = tb[i].used /\ e.type = tb[i].type /\ e.start = tb[i].start
                /\ e.alloc = tb[i].alloc /\ e.size = tb[i].size
<1> DEFINE tb2 == Renamed(tb, i, n)
<1>1. tb2 \in Table /\ OnlyAt(tb, tb2, i)
  BY DEF Renamed, Sound, Table, OnlyAt, Entries
<1>2. /\ tb2[i].used = tb[i].used /\ tb2[i].type = tb[i].type /\ tb2[i].start = tb[i].start
      /\ tb2[i].alloc = tb[i].alloc /\ tb2[i].size = tb[i].size
      /\ tb2[i].parent = tb[i].parent /\ tb2[i].name = n
  BY DEF Renamed, Sound, Table, Entries
<1> HIDE DEF tb2
<1>3. ParentOk(tb2, tb[i].parent)
  BY <1>1, <1>2 DEF ParentOk, IsFolder, OnlyAt, Sound, WellFormed, ParentsOk, CanRename
<1>4. \A j \in Ids : tb[j].used /\ tb[j].parent = tb[i].parent /\ j # i => tb[j].name # n
  BY DEF CanRename, Find, Children
<1>5. \A j \in Ids : tb[j].used /\ tb[j].parent = i => IsFolder(tb2, i)
  BY <1>2, OnlyFoldersHaveChildren DEF IsFolder
<1>6. WellFormed(tb2, nf)
  <2>1. tb[i].size <= tb[i].alloc /\ tb[i].start + tb[i].alloc <= nf /\ tb[i].used
    BY DEF Sound, WellFormed, RunsOk, CanRename
  <2> QED
    BY <1>1, <1>2, <1>3, <1>4, <1>5, <2>1, OneEntryChanged, FileTableAssumption DEF Sound
<1> QED
  BY <1>1, <1>2, <1>6 DEF Sound, tb2

LEMMA MoveSound ==
  ASSUME NEW tb, NEW nf, Sound(tb, nf), NEW i \in Ids, NEW p \in Ids \cup {FS_ROOT},
         CanMove(tb, i, p)
  PROVE  /\ Sound(Moved(tb, i, p), nf) /\ OnlyAt(tb, Moved(tb, i, p), i)
         /\ LET e == Moved(tb, i, p)[i]
            IN  /\ e.used = tb[i].used /\ e.type = tb[i].type /\ e.start = tb[i].start
                /\ e.alloc = tb[i].alloc /\ e.size = tb[i].size
<1> DEFINE tb2 == Moved(tb, i, p)
<1>1. tb2 \in Table /\ OnlyAt(tb, tb2, i)
  BY DEF Moved, Sound, Table, OnlyAt, Entries
<1>2. /\ tb2[i].used = tb[i].used /\ tb2[i].type = tb[i].type /\ tb2[i].start = tb[i].start
      /\ tb2[i].alloc = tb[i].alloc /\ tb2[i].size = tb[i].size
      /\ tb2[i].parent = p /\ tb2[i].name = tb[i].name
  BY DEF Moved, Sound, Table, Entries
<1> HIDE DEF tb2
<1>3. ParentOk(tb2, p)
  BY <1>1, <1>2 DEF ParentOk, IsFolder, OnlyAt, CanMove
<1>4. \A j \in Ids : tb[j].used /\ tb[j].parent = p => tb[j].name # tb[i].name
  BY DEF CanMove, Find, Children
<1>5. \A j \in Ids : tb[j].used /\ tb[j].parent = i => IsFolder(tb2, i)
  BY <1>2, OnlyFoldersHaveChildren DEF IsFolder
<1>6. WellFormed(tb2, nf)
  <2>1. tb[i].size <= tb[i].alloc /\ tb[i].start + tb[i].alloc <= nf /\ tb[i].used
    BY DEF Sound, WellFormed, RunsOk, CanMove
  <2> QED
    BY <1>1, <1>2, <1>3, <1>4, <1>5, <2>1, OneEntryChanged, FileTableAssumption DEF Sound
<1> QED
  BY <1>1, <1>2, <1>6 DEF Sound, tb2

(* A file that grows gets the sectors from next_free on, which no other    *)
(* file has.                                                               *)
LEMMA WriteSound ==
  ASSUME NEW tb, NEW nf, Sound(tb, nf), NEW i \in Ids, NEW len \in Nat,
         CanWrite(tb, nf, i, len)
  PROVE  /\ Sound(Written(tb, nf, i, len), NextFree(tb, nf, i, len))
         /\ OnlyAt(tb, Written(tb, nf, i, len), i)
         /\ nf <= NextFree(tb, nf, i, len)
         /\ LET e == Written(tb, nf, i, len)[i]
            IN  /\ e.used /\ e.type = "file" /\ e.size = len
                /\ e.start = IF Grows(tb, i, len) THEN nf ELSE tb[i].start
                /\ e.alloc = IF Grows(tb, i, len) THEN len ELSE tb[i].alloc
<1> DEFINE st == IF Grows(tb, i, len) THEN nf ELSE tb[i].start
           al == IF Grows(tb, i, len) THEN len ELSE tb[i].alloc
           new == [tb[i] EXCEPT !.start = st, !.alloc = al, !.size = len]
           tb2 == Written(tb, nf, i, len)
           nf2 == NextFree(tb, nf, i, len)
<1>0. tb[i].used /\ tb[i].type = "file" /\ ~IsFolder(tb, i) /\ nf \in Nat
  BY FileTableAssumption DEF CanWrite, IsFile, IsFolder, Sound
<1>1. tb[i] \in Entries /\ st \in Nat /\ al \in Nat
  BY <1>0 DEF Sound, Table, Entries
<1>2. tb2 = [tb EXCEPT ![i] = new]
  BY DEF Written
<1> HIDE DEF st, al
<1>3. /\ new \in Entries /\ new.start = st /\ new.alloc = al /\ new.size = len
      /\ new.used = tb[i].used /\ new.type = tb[i].type /\ new.parent = tb[i].parent
      /\ new.name = tb[i].name
  <2>1. new = [tb[i] EXCEPT !.start = st, !.alloc = al, !.size = len]
    OBVIOUS
  <2> HIDE DEF new
  <2> QED
    BY <1>1, <2>1 DEF Entries
<1> HIDE DEF new, tb2
<1>4. tb2 \in Table /\ tb2[i] = new /\ OnlyAt(tb, tb2, i)
  BY <1>2, <1>3 DEF Sound, Table, OnlyAt
<1>5. nf2 \in 0 .. DataSectors /\ nf <= nf2
  BY FileTableAssumption DEF NextFree, Sound, CanWrite
<1>6. ParentOk(tb2, tb[i].parent)
  BY <1>0, <1>3, <1>4 DEF ParentOk, IsFolder, OnlyAt, Sound, WellFormed, ParentsOk
<1>7. \A j \in Ids : tb[j].used => tb[j].parent # i
  BY <1>0, OnlyFoldersHaveChildren
<1>8. \A j \in Ids : tb[j].used /\ tb[j].parent = tb[i].parent /\ j # i
                      => tb[j].name # tb[i].name
  BY <1>0 DEF Sound, WellFormed, UniqueNames
<1>9. /\ len <= al /\ st + al <= nf2
      /\ \/ st = tb[i].start /\ al = tb[i].alloc
         \/ st >= nf
  <2>1. tb[i].start + tb[i].alloc <= nf /\ tb[i].alloc \in Nat /\ tb[i].start \in Nat
    BY <1>0, <1>1 DEF Sound, WellFormed, RunsOk, Entries
  <2> QED
    BY <1>0, <2>1 DEF NextFree, Grows, st, al
<1> HIDE DEF nf2
<1>10. WellFormed(tb2, nf2)
  BY <1>0, <1>3, <1>4, <1>5, <1>6, <1>7, <1>8, <1>9, OneEntryChanged,
     FileTableAssumption DEF Sound
<1> QED
  BY <1>0, <1>3, <1>4, <1>5, <1>10 DEF Sound, tb2, nf2, st, al

-----------------------------------------------------------------------------
(* Facts about the table as a whole.                                       *)

LEMMA EmptySound == EmptyTable \in Table /\ Sound(EmptyTable, 0)
<1>1. NoEntry \in Entries /\ NoEntry.used = FALSE
  BY DEF NoEntry, Entries
<1>2. EmptyTable \in Table /\ \A i \in Ids : EmptyTable[i].used = FALSE
  BY <1>1 DEF EmptyTable, Table
<1>3. WellFormed(EmptyTable, 0)
  BY <1>2, FileTableAssumption DEF WellFormed, ParentsOk, UniqueNames, RunsOk
<1> QED
  BY <1>2, <1>3, FileTableAssumption DEF Sound

\* A superblock written before the entry that needs it does no harm.
LEMMA RoomToSpare ==
  ASSUME NEW tb, NEW nf, NEW nf2 \in 0 .. DataSectors, Sound(tb, nf), nf <= nf2
  PROVE  Sound(tb, nf2)
<1>1. \A i \in Ids : tb[i].start \in Nat /\ tb[i].alloc \in Nat
  BY DEF Sound, Table, Entries
<1> QED
  BY <1>1, FileTableAssumption DEF Sound, WellFormed, RunsOk

-----------------------------------------------------------------------------
(* Folders lead to the root.  What the walk of fs_move computes.           *)

LEMMA SomeLeast ==
  ASSUME NEW I, I \subseteq Nat, I # {}
  PROVE  \E m \in I : \A i \in I : m <= i
<1>1. \E m \in I : \A i \in I : ~(<<i, m>> \in OpToRel(<, Nat))
  BY NatLessThanWellFounded, WFMin, Zenon
<1>2. PICK m \in I : \A i \in I : ~(<<i, m>> \in OpToRel(<, Nat))
  BY <1>1
<1>3. \A i, j \in Nat : i < j => <<i, j>> \in OpToRel(<, Nat)
  BY Zenon DEF OpToRel
<1>4. \A i \in I : i \in Nat
  OBVIOUS
<1>5. \A i \in I : ~(i < m)
  BY <1>2, <1>3, <1>4, Zenon
<1>6. \A i \in I : m <= i
  BY <1>4, <1>5
<1> QED
  BY <1>2, <1>6

\* Where one step up from q leads.
Above(tb, q) == IF q = FS_ROOT THEN FS_ROOT ELSE tb[q].parent

\* w is the walk of n steps up from p.
Walks(tb, p, n, w) ==
  w = [j \in 0 .. n |-> IF j = 0 THEN p
                        ELSE IF w[j - 1] = FS_ROOT THEN FS_ROOT ELSE tb[w[j - 1]].parent]

LEMMA LongerWalk ==
  ASSUME NEW tb, NEW p, NEW n \in Nat, NEW w, Walks(tb, p, n, w)
  PROVE  \E u : Walks(tb, p, n + 1, u)
<1> DEFINE u == [j \in 0 .. n + 1 |-> IF j = n + 1 THEN Above(tb, w[n]) ELSE w[j]]
<1>1. \A j \in 0 .. n : u[j] = w[j]
  OBVIOUS
<1>2. u[n + 1] = Above(tb, u[n])
  OBVIOUS
<1>3. \A j \in 0 .. n : w[j] = IF j = 0 THEN p ELSE Above(tb, w[j - 1])
  BY DEF Walks, Above
<1>4. u = [j \in 0 .. n + 1 |-> u[j]]
  OBVIOUS
<1> HIDE DEF u
<1>5. \A j \in 0 .. n + 1 : u[j] = IF j = 0 THEN p ELSE Above(tb, u[j - 1])
  <2> SUFFICES ASSUME NEW j \in 0 .. n + 1
               PROVE  u[j] = IF j = 0 THEN p ELSE Above(tb, u[j - 1])
    OBVIOUS
  <2>1. CASE j = n + 1
    BY <1>2, <2>1
  <2>2. CASE j # n + 1 /\ j # 0
    <3>1. j \in 0 .. n /\ j - 1 \in 0 .. n
      BY <2>2
    <3> QED
      BY <1>1, <1>3, <2>2, <3>1
  <2>3. CASE j = 0
    BY <1>1, <1>3, <2>3
  <2> QED
    BY <2>1, <2>2, <2>3
<1>6. u = [j \in 0 .. n + 1 |-> IF j = 0 THEN p ELSE Above(tb, u[j - 1])]
  BY <1>4, <1>5
<1> QED
  BY <1>6 DEF Walks, Above

LEMMA WalkExists ==
  ASSUME NEW tb, NEW p, NEW n \in Nat
  PROVE  \E w : Walks(tb, p, n, w)
<1> DEFINE I == {j \in Nat : ~\E w : Walks(tb, p, j, w)}
<1> SUFFICES ASSUME I # {} PROVE FALSE
  OBVIOUS
<1>1. PICK m \in I : \A i \in I : m <= i
  BY SomeLeast
<1>2. m \in Nat /\ ~\E w : Walks(tb, p, m, w)
  OBVIOUS
<1>3. CASE m = 0
  <2> DEFINE w == [j \in 0 .. 0 |-> p]
  <2>1. \A j \in 0 .. 0 : j = 0
    OBVIOUS
  <2>2. Walks(tb, p, 0, w)
    BY <2>1 DEF Walks
  <2> QED
    BY <1>2, <1>3, <2>2
<1>4. CASE m # 0
  <2>1. m - 1 \in Nat /\ (m - 1) + 1 = m /\ ~(m <= m - 1)
    BY <1>2, <1>4
  <2>2. PICK w : Walks(tb, p, m - 1, w)
    BY <1>1, <2>1
  <2> HIDE DEF I
  <2>3. \E u : Walks(tb, p, (m - 1) + 1, u)
    BY <2>1, <2>2, LongerWalk
  <2> QED
    BY <1>2, <2>1, <2>3
<1> QED
  BY <1>3, <1>4

LEMMA UpSteps ==
  ASSUME NEW tb, NEW p
  PROVE  /\ Up(tb, p)[0] = p
         /\ \A j \in 1 .. FS_MAX_ENTRIES : Up(tb, p)[j] = Above(tb, Up(tb, p)[j - 1])
<1> DEFINE w == Up(tb, p)
<1>1. w = CHOOSE u : Walks(tb, p, FS_MAX_ENTRIES, u)
  BY DEF Up, Walks
<1>2. \E u : Walks(tb, p, FS_MAX_ENTRIES, u)
  BY WalkExists, FileTableAssumption
<1> HIDE DEF w
<1>3. Walks(tb, p, FS_MAX_ENTRIES, w)
  BY <1>1, <1>2
<1>4. \A j \in 0 .. FS_MAX_ENTRIES : w[j] = IF j = 0 THEN p ELSE Above(tb, w[j - 1])
  BY <1>3 DEF Walks, Above
<1>5. w[0] = p /\ \A j \in 1 .. FS_MAX_ENTRIES : w[j] = Above(tb, w[j - 1])
  BY <1>4, FileTableAssumption
<1> QED
  BY <1>5 DEF w

(* The ranks that show it: an entry's folder has a lower rank than it.     *)
Ranks(tb, rank) ==
  /\ rank \in [Ids -> Nat]
  /\ \A i \in Ids : tb[i].used /\ tb[i].parent # FS_ROOT => rank[tb[i].parent] < rank[i]

Graded(tb) == \E rank : Ranks(tb, rank)

\* Where a walk is not yet at the root, it is at an entry in use.
LEMMA WalkStays ==
  ASSUME NEW tb, NEW nf, Sound(tb, nf), NEW p, ParentOk(tb, p) \/ (p \in Ids /\ tb[p].used)
  PROVE  \A j \in 0 .. FS_MAX_ENTRIES :
           Up(tb, p)[j] # FS_ROOT => Up(tb, p)[j] \in Ids /\ tb[Up(tb, p)[j]].used
<1> DEFINE w == Up(tb, p)
           I == {j \in 0 .. FS_MAX_ENTRIES : w[j] # FS_ROOT /\ ~(w[j] \in Ids /\ tb[w[j]].used)}
<1> SUFFICES ASSUME I # {} PROVE FALSE
  OBVIOUS
<1>1. w[0] = p /\ \A j \in 1 .. FS_MAX_ENTRIES : w[j] = Above(tb, w[j - 1])
  BY UpSteps
<1> HIDE DEF w
<1>2. PICK m \in I : \A i \in I : m <= i
  <2>1. I \subseteq Nat
    BY FileTableAssumption
  <2> QED
    BY <2>1, SomeLeast
<1>3. m \in 0 .. FS_MAX_ENTRIES /\ w[m] # FS_ROOT /\ ~(w[m] \in Ids /\ tb[w[m]].used)
  OBVIOUS
<1>4. m # 0
  BY <1>1, <1>3 DEF ParentOk, IsFolder
<1>5. m - 1 \in 0 .. FS_MAX_ENTRIES /\ m \in 1 .. FS_MAX_ENTRIES /\ ~(m <= m - 1)
  BY <1>3, <1>4, FileTableAssumption
<1>6. w[m - 1] = FS_ROOT \/ (w[m - 1] \in Ids /\ tb[w[m - 1]].used)
  BY <1>2, <1>5
<1>7. w[m] = Above(tb, w[m - 1])
  BY <1>1, <1>5
<1> HIDE DEF I
<1>8. w[m - 1] # FS_ROOT
  BY <1>3, <1>7 DEF Above
<1>9. w[m] = tb[w[m - 1]].parent
  BY <1>7, <1>8 DEF Above
<1>10. ParentOk(tb, w[m])
  BY <1>6, <1>8, <1>9 DEF Sound, WellFormed, ParentsOk
<1> QED
  BY <1>3, <1>10 DEF ParentOk, IsFolder

\* The ranks fall along a walk.
LEMMA RanksFall ==
  ASSUME NEW tb, NEW nf, Sound(tb, nf), NEW p, ParentOk(tb, p) \/ (p \in Ids /\ tb[p].used),
         NEW rank, Ranks(tb, rank),
         NEW a \in 0 .. FS_MAX_ENTRIES, NEW b \in 0 .. FS_MAX_ENTRIES, a < b,
         Up(tb, p)[b] # FS_ROOT
  PROVE  rank[Up(tb, p)[b]] < rank[Up(tb, p)[a]]
<1> DEFINE w == Up(tb, p)
           I == {j \in a + 1 .. b : w[j] # FS_ROOT /\ ~(rank[w[j]] < rank[w[a]])}
<1>0. a \in Nat /\ b \in Nat /\ b \in a + 1 .. b /\ a + 1 .. b \subseteq 1 .. FS_MAX_ENTRIES
  BY FileTableAssumption
<1>1. \A j \in 1 .. FS_MAX_ENTRIES : w[j] = Above(tb, w[j - 1])
  BY UpSteps
<1>2. \A j \in 0 .. FS_MAX_ENTRIES : w[j] # FS_ROOT => w[j] \in Ids /\ tb[w[j]].used
  BY WalkStays
<1> HIDE DEF w
<1>3. \A j \in 1 .. FS_MAX_ENTRIES :
        w[j] # FS_ROOT => w[j - 1] # FS_ROOT /\ rank[w[j]] < rank[w[j - 1]]
  <2> SUFFICES ASSUME NEW j \in 1 .. FS_MAX_ENTRIES, w[j] # FS_ROOT
               PROVE  w[j - 1] # FS_ROOT /\ rank[w[j]] < rank[w[j - 1]]
    OBVIOUS
  <2>1. w[j] = Above(tb, w[j - 1]) /\ j - 1 \in 0 .. FS_MAX_ENTRIES
    BY <1>1, FileTableAssumption
  <2>2. w[j - 1] # FS_ROOT
    BY <2>1 DEF Above
  <2>3. w[j] = tb[w[j - 1]].parent
    BY <2>1, <2>2 DEF Above
  <2>4. w[j - 1] \in Ids /\ tb[w[j - 1]].used
    BY <1>2, <2>1, <2>2
  <2> QED
    BY <2>2, <2>3, <2>4 DEF Ranks
<1> SUFFICES ASSUME I # {} PROVE FALSE
  <2>1. b \notin I
    OBVIOUS
  <2> QED
    BY <1>0, <2>1 DEF w
<1>4. PICK m \in I : \A i \in I : m <= i
  <2>1. I \subseteq Nat
    BY <1>0
  <2> QED
    BY <2>1, SomeLeast
<1>5. m \in a + 1 .. b /\ w[m] # FS_ROOT /\ ~(rank[w[m]] < rank[w[a]])
  OBVIOUS
<1>6. m \in 1 .. FS_MAX_ENTRIES /\ m \in Nat
  BY <1>0, <1>5
<1>7. w[m - 1] # FS_ROOT /\ rank[w[m]] < rank[w[m - 1]]
  BY <1>3, <1>5, <1>6
<1>8. m - 1 # a
  BY <1>5, <1>7
<1>9. m - 1 \in a + 1 .. b /\ ~(m <= m - 1)
  BY <1>0, <1>5, <1>8
<1>10. rank[w[m - 1]] < rank[w[a]]
  BY <1>4, <1>7, <1>9
<1>11. rank[w[m]] \in Nat /\ rank[w[m - 1]] \in Nat /\ rank[w[a]] \in Nat
  <2>1. m \in 0 .. FS_MAX_ENTRIES /\ m - 1 \in 0 .. FS_MAX_ENTRIES
    BY <1>6, FileTableAssumption
  <2>2. w[m] \in Ids /\ w[m - 1] \in Ids
    BY <1>2, <1>5, <1>7, <2>1
  <2>3. w[a] # FS_ROOT
    <3>1. CASE w[a] = FS_ROOT
      <4> DEFINE J == {j \in a + 1 .. b : w[j] # FS_ROOT}
      <4>1. J \subseteq Nat /\ m \in J
        BY <1>0, <1>5
      <4>2. PICK n \in J : \A i \in J : n <= i
        BY <4>1, SomeLeast
      <4>3. n \in a + 1 .. b /\ w[n] # FS_ROOT
        OBVIOUS
      <4>4. n \in 1 .. FS_MAX_ENTRIES /\ n \in Nat
        BY <1>0, <4>3
      <4>5. w[n - 1] # FS_ROOT
        BY <1>3, <4>3, <4>4
      <4>6. n - 1 \in a + 1 .. b /\ ~(n <= n - 1)
        BY <1>0, <3>1, <4>3, <4>5
      <4> QED
        BY <4>2, <4>5, <4>6
    <3> QED
      BY <3>1
  <2>4. w[a] \in Ids
    BY <1>2, <2>3
  <2> QED
    BY <2>2, <2>4 DEF Ranks
<1> HIDE DEF I
<1> QED
  BY <1>5, <1>7, <1>10, <1>11

\* So a walk as long as the table ends at the root: one that did not would
\* have come by an entry twice.
LEMMA GradedAcyclic ==
  ASSUME NEW tb, NEW nf, Sound(tb, nf), NEW rank, Ranks(tb, rank),
         NEW p, ParentOk(tb, p) \/ (p \in Ids /\ tb[p].used)
  PROVE  Up(tb, p)[FS_MAX_ENTRIES] = FS_ROOT
<1> DEFINE n == FS_MAX_ENTRIES
           w == Up(tb, p)
           f == [j \in 0 .. n |-> w[j]]
<1> SUFFICES ASSUME w[n] # FS_ROOT PROVE FALSE
  OBVIOUS
<1>0. n \in Nat /\ n \in 0 .. n /\ n - 1 \in Int
  BY FileTableAssumption
<1>1. \A a, b \in 0 .. n : a < b /\ w[b] # FS_ROOT => rank[w[b]] < rank[w[a]]
  BY RanksFall
<1>2. \A j \in 0 .. n : w[j] # FS_ROOT => w[j] \in Ids
  BY WalkStays
<1>3. \A j \in 1 .. n : w[j] = Above(tb, w[j - 1])
  BY UpSteps
<1> HIDE DEF w
<1>4. \A j \in 0 .. n : w[j] # FS_ROOT
  <2> SUFFICES ASSUME NEW j \in 0 .. n, w[j] = FS_ROOT PROVE FALSE
    OBVIOUS
  <2> DEFINE J == {i \in j .. n : w[i] # FS_ROOT}
  <2>1. J \subseteq Nat /\ n \in J
    BY <1>0
  <2>2. PICK m \in J : \A i \in J : m <= i
    BY <2>1, SomeLeast
  <2>3. m \in j .. n /\ w[m] # FS_ROOT /\ m # j
    OBVIOUS
  <2>4. m \in 1 .. n /\ m - 1 \in j .. n /\ ~(m <= m - 1)
    BY <1>0, <2>3
  <2>5. w[m - 1] = FS_ROOT
    BY <2>2, <2>4
  <2> HIDE DEF J
  <2> QED
    BY <1>3, <2>3, <2>4, <2>5 DEF Above
<1>5. f \in [0 .. n -> Ids]
  BY <1>2, <1>4
<1>6. \E a, b \in 0 .. n : a # b /\ f[a] = f[b]
  <2>1. IsFiniteSet(0 .. n) /\ Cardinality(0 .. n) = n + 1
    BY <1>0, FS_Interval
  <2>2. IsFiniteSet(Ids) /\ Cardinality(Ids) = n
    <3>1. IsFiniteSet(0 .. n - 1) /\ Cardinality(0 .. n - 1) = IF 0 > n - 1 THEN 0 ELSE n - 1 - 0 + 1
      BY <1>0, FS_Interval
    <3> QED
      BY <1>0, <3>1, FileTableAssumption DEF Ids
  <2>3. n < n + 1
    BY <1>0
  <2> HIDE DEF f, n
  <2>4. Cardinality(Ids) < Cardinality(0 .. n)
    BY <2>1, <2>2, <2>3
  <2> QED
    BY <1>5, <2>1, <2>2, <2>4, FS_PigeonHole
<1>7. PICK a \in 0 .. n, b \in 0 .. n : a # b /\ w[a] = w[b]
  BY <1>6
<1>8. a < b \/ b < a
  BY <1>0, <1>7
<1>9. rank[w[a]] < rank[w[b]] \/ rank[w[b]] < rank[w[a]]
  BY <1>1, <1>4, <1>8
<1>10. rank[w[a]] \in Nat
  BY <1>2, <1>4 DEF Ranks
<1> QED
  BY <1>7, <1>9, <1>10

LEMMA GradedMeansAcyclic ==
  ASSUME NEW tb, NEW nf, Sound(tb, nf), Graded(tb)
  PROVE  Acyclic(tb)
BY GradedAcyclic DEF Graded, Acyclic

-----------------------------------------------------------------------------
(* The operations keep it so.                                              *)

\* An entry that no entry lies in may be given any folder.
LEMMA LeafGraded ==
  ASSUME NEW tb, NEW nf, Sound(tb, nf), Graded(tb),
         NEW tb2, NEW i \in Ids, OnlyAt(tb, tb2, i),
         \A j \in Ids : tb[j].used => tb[j].parent # i,
         tb2[i].used => tb2[i].parent = FS_ROOT \/ tb2[i].parent \in Ids \ {i}
  PROVE  Graded(tb2)
<1>1. PICK rank : Ranks(tb, rank)
  BY DEF Graded
<1> DEFINE p == tb2[i].parent
           top == IF p \in Ids THEN rank[p] + 1 ELSE 0
           rank2 == [j \in Ids |-> IF j = i THEN top ELSE rank[j]]
<1>2. top \in Nat /\ (p \in Ids => rank[p] < top)
  BY <1>1 DEF Ranks
<1>3. rank2 \in [Ids -> Nat]
  BY <1>1, <1>2 DEF Ranks
<1>4. rank2[i] = top /\ \A j \in Ids : j # i => rank2[j] = rank[j]
  OBVIOUS
<1> HIDE DEF top, rank2
<1>5. \A j \in Ids : tb2[j].used /\ tb2[j].parent # FS_ROOT => rank2[tb2[j].parent] < rank2[j]
  <2> SUFFICES ASSUME NEW j \in Ids, tb2[j].used, tb2[j].parent # FS_ROOT
               PROVE  rank2[tb2[j].parent] < rank2[j]
    OBVIOUS
  <2>1. CASE j = i
    BY <1>2, <1>4, <2>1
  <2>2. CASE j # i
    <3>1. tb2[j] = tb[j] /\ tb[j].parent # i /\ tb[j].parent \in Ids
      BY <2>2 DEF OnlyAt, Sound, WellFormed, ParentsOk, ParentOk
    <3>2. rank[tb[j].parent] < rank[j]
      BY <1>1, <3>1 DEF Ranks
    <3>3. rank2[tb[j].parent] = rank[tb[j].parent]
      BY <1>4, <3>1
    <3> QED
      BY <1>4, <2>2, <3>1, <3>2, <3>3
  <2> QED
    BY <2>1, <2>2
<1> QED
  BY <1>3, <1>5 DEF Graded, Ranks

LEMMA CreateGraded ==
  ASSUME NEW tb, NEW nf, Sound(tb, nf), Graded(tb), NEW p \in Ids \cup {FS_ROOT}, NEW n \in Names,
         NEW ty \in {"file", "folder"}, NEW i \in Ids, CanCreate(tb, p, n, i)
  PROVE  Graded(Created(tb, p, n, ty, i))
<1> DEFINE tb2 == Created(tb, p, n, ty, i)
<1>1. OnlyAt(tb, tb2, i)
  BY CreateSound
<1>2. tb2[i].parent = p
  BY DEF Created, Sound, Table, NoEntry
<1>3. ~tb[i].used
  BY DEF CanCreate, IsAlloc, FreeIds
<1>4. \A j \in Ids : tb[j].used => tb[j].parent # i
  BY <1>3, OnlyFoldersHaveChildren DEF IsFolder
<1>5. p = FS_ROOT \/ p \in Ids \ {i}
  BY <1>3 DEF CanCreate, ParentOk, IsFolder
<1> HIDE DEF tb2
<1>6. Graded(tb2)
  BY <1>1, <1>2, <1>4, <1>5, LeafGraded
<1> QED
  BY <1>6 DEF tb2

LEMMA DeleteGraded ==
  ASSUME NEW tb, NEW nf, Sound(tb, nf), Graded(tb), NEW i \in Ids, CanDelete(tb, i)
  PROVE  Graded(Deleted(tb, i))
<1> DEFINE tb2 == Deleted(tb, i)
<1>1. OnlyAt(tb, tb2, i)
  BY DeleteSound
<1>2. tb2[i].used = FALSE
  BY DEF Deleted, Sound, Table, NoEntry
<1>3. \A j \in Ids : tb[j].used => tb[j].parent # i
  BY OnlyFoldersHaveChildren DEF CanDelete, Children
<1> HIDE DEF tb2
<1>4. Graded(tb2)
  BY <1>1, <1>2, <1>3, LeafGraded
<1> QED
  BY <1>4 DEF tb2

\* Where entries lie has not changed.
LEMMA SameParents ==
  ASSUME NEW tb, NEW tb2, Graded(tb),
         \A j \in Ids : tb2[j].used => tb[j].used /\ tb2[j].parent = tb[j].parent
  PROVE  Graded(tb2)
BY DEF Graded, Ranks

LEMMA RenameGraded ==
  ASSUME NEW tb, NEW nf, Sound(tb, nf), Graded(tb), NEW i \in Ids, NEW n
  PROVE  Graded(Renamed(tb, i, n))
<1> DEFINE tb2 == Renamed(tb, i, n)
<1>1. \A j \in Ids : tb2[j].used = tb[j].used /\ tb2[j].parent = tb[j].parent
  BY DEF Renamed, Sound, Table, Entries
<1> HIDE DEF tb2
<1>2. Graded(tb2)
  BY <1>1, SameParents
<1> QED
  BY <1>2 DEF tb2

LEMMA WriteGraded ==
  ASSUME NEW tb, NEW nf, Sound(tb, nf), Graded(tb), NEW i \in Ids, NEW len
  PROVE  Graded(Written(tb, nf, i, len))
<1> DEFINE tb2 == Written(tb, nf, i, len)
<1>0. tb \in Table /\ tb[i] \in Entries
  BY DEF Sound, Table
<1>1. ASSUME NEW j \in Ids PROVE tb2[j].used = tb[j].used /\ tb2[j].parent = tb[j].parent
  <2>1. CASE j = i
    BY <1>0, <2>1 DEF Written, Table, Entries
  <2>2. CASE j # i
    BY <1>0, <2>2 DEF Written, Table
  <2> QED
    BY <2>1, <2>2
<1> HIDE DEF tb2
<1>2. Graded(tb2)
  BY <1>1, SameParents
<1> QED
  BY <1>2 DEF tb2

\* The walk of fs_move, which ends at the root, has seen every folder the
\* destination lies in: raising all other entries above the destination
\* makes room for the moved one, and breaks no other step.
LEMMA MoveGraded ==
  ASSUME NEW tb, NEW nf, Sound(tb, nf), Graded(tb), NEW i \in Ids,
         NEW p \in Ids \cup {FS_ROOT}, CanMove(tb, i, p)
  PROVE  Graded(Moved(tb, i, p))
<1> DEFINE tb2 == Moved(tb, i, p)
           w == Up(tb, p)
           n == FS_MAX_ENTRIES
           A == {w[j] : j \in 0 .. n - 1}
<1>1. PICK rank : Ranks(tb, rank)
  BY DEF Graded
<1>2. \A j \in Ids : /\ tb2[j].used = tb[j].used
                     /\ tb2[j].parent = IF j = i THEN p ELSE tb[j].parent
  BY DEF Moved, Sound, Table, Entries
<1> HIDE DEF tb2
<1>3. CASE p = FS_ROOT
  BY <1>1, <1>2, <1>3 DEF Graded, Ranks, tb2
<1>4. CASE p # FS_ROOT
  <2> DEFINE lift == rank[p] + 1
             rank2 == [j \in Ids |-> IF j \in A THEN rank[j] ELSE rank[j] + lift]
  <2>1. ParentOk(tb, p) /\ i \notin A
    BY DEF CanMove, Inside
  <2>2. w[n] = FS_ROOT /\ w[0] = p /\ \A j \in 1 .. n : w[j] = Above(tb, w[j - 1])
    BY <1>1, <2>1, GradedAcyclic, UpSteps
  <2> HIDE DEF w
  <2>3. p \in A
    <3>1. 0 \in 0 .. n - 1
      BY FileTableAssumption
    <3> QED
      BY <2>2, <3>1
  <2>4. \A j \in Ids : j \in A /\ tb[j].parent # FS_ROOT => tb[j].parent \in A
    <3> SUFFICES ASSUME NEW m \in 0 .. n - 1, w[m] \in Ids, tb[w[m]].parent # FS_ROOT
                 PROVE  tb[w[m]].parent \in A
      OBVIOUS
    <3>1. w[m] # FS_ROOT /\ m + 1 \in 1 .. n /\ (m + 1) - 1 = m
      BY RootIsNoEntry, FileTableAssumption
    <3>2. w[m + 1] = tb[w[m]].parent
      BY <2>2, <3>1 DEF Above
    <3>3. m + 1 # n
      BY <2>2, <3>2
    <3>4. m + 1 \in 0 .. n - 1
      BY <3>3, FileTableAssumption
    <3> QED
      BY <3>2, <3>4
  <2> HIDE DEF A
  <2>5. rank[p] \in Nat /\ lift \in Nat /\ rank[p] < lift /\ p \in Ids
    BY <1>1, <1>4 DEF Ranks
  <2> HIDE DEF lift
  <2>6. \A j \in Ids : rank[j] \in Nat
    BY <1>1 DEF Ranks
  <2>7. /\ rank2 \in [Ids -> Nat]
        /\ \A j \in Ids : rank2[j] = IF j \in A THEN rank[j] ELSE rank[j] + lift
    BY <2>5, <2>6
  <2> HIDE DEF rank2
  <2>8. rank2[p] < rank2[i]
    BY <2>1, <2>3, <2>5, <2>6, <2>7
  <2>9. \A j \in Ids : tb[j].used /\ tb[j].parent # FS_ROOT => rank2[tb[j].parent] < rank2[j]
    <3> SUFFICES ASSUME NEW j \in Ids, tb[j].used, tb[j].parent # FS_ROOT
                 PROVE  rank2[tb[j].parent] < rank2[j]
      OBVIOUS
    <3>1. rank[tb[j].parent] < rank[j]
      BY <1>1 DEF Ranks
    <3>2. tb[j].parent \in Ids
      BY DEF Sound, WellFormed, ParentsOk, ParentOk
    <3>3. j \in A => tb[j].parent \in A
      BY <2>4
    <3> DEFINE q == tb[j].parent
    <3>4. rank[q] \in Nat /\ rank[j] \in Nat
      BY <2>6, <3>2
    <3>5. /\ rank2[q] = rank[q] \/ (j \notin A /\ rank2[q] = rank[q] + lift)
          /\ rank2[j] = IF j \in A THEN rank[j] ELSE rank[j] + lift
      BY <2>7, <3>2, <3>3
    <3> HIDE DEF q
    <3>6. rank[q] < rank[j]
      BY <3>1 DEF q
    <3>7. rank2[q] < rank2[j]
      BY <2>5, <3>4, <3>5, <3>6
    <3> QED
      BY <3>7 DEF q
  <2>10. \A j \in Ids : tb2[j].used /\ tb2[j].parent # FS_ROOT => rank2[tb2[j].parent] < rank2[j]
    BY <1>2, <2>8, <2>9
  <2>11. Graded(tb2)
    BY <2>7, <2>10 DEF Graded, Ranks
  <2> QED
    BY <2>11 DEF tb2
<1> QED
  BY <1>3, <1>4


LEMMA EmptyGraded == Graded(EmptyTable)
<1>1. \A j \in Ids : EmptyTable[j].used = FALSE
  BY DEF EmptyTable, NoEntry
<1>2. Ranks(EmptyTable, [j \in Ids |-> 0])
  BY <1>1 DEF Ranks
<1> QED
  BY <1>2 DEF Graded


-----------------------------------------------------------------------------
(* Walks and ranks.                                                        *)

\* A walk from where p lies is the rest of the walk from p.
LEMMA WalkFromAbove ==
  ASSUME NEW tb, NEW p, NEW q, q = Above(tb, p)
  PROVE  \A j \in 0 .. FS_MAX_ENTRIES - 1 : Up(tb, p)[j + 1] = Up(tb, q)[j]
<1> DEFINE u == Up(tb, p)
           w == Up(tb, q)
           I == {j \in 0 .. FS_MAX_ENTRIES - 1 : u[j + 1] # w[j]}
<1> SUFFICES ASSUME I # {} PROVE FALSE
  OBVIOUS
<1>1. /\ u[0] = p /\ \A j \in 1 .. FS_MAX_ENTRIES : u[j] = Above(tb, u[j - 1])
      /\ w[0] = q /\ \A j \in 1 .. FS_MAX_ENTRIES : w[j] = Above(tb, w[j - 1])
  BY UpSteps
<1> HIDE DEF u, w
<1>2. PICK m \in I : \A i \in I : m <= i
  <2>1. I \subseteq Nat
    BY FileTableAssumption
  <2> QED
    BY <2>1, SomeLeast
<1>3. m \in 0 .. FS_MAX_ENTRIES - 1 /\ u[m + 1] # w[m]
  OBVIOUS
<1>4. m \in Nat /\ m + 1 \in 1 .. FS_MAX_ENTRIES /\ (m + 1) - 1 = m
  BY <1>3, FileTableAssumption
<1>5. u[m + 1] = Above(tb, u[m])
  BY <1>1, <1>4
<1>6. m # 0
  BY <1>1, <1>3, <1>5
<1>7. /\ m - 1 \in 0 .. FS_MAX_ENTRIES - 1 /\ ~(m <= m - 1) /\ (m - 1) + 1 = m
      /\ m \in 1 .. FS_MAX_ENTRIES
  BY <1>3, <1>6, FileTableAssumption
<1>8. u[m] = w[m - 1]
  BY <1>2, <1>7
<1>9. w[m] = Above(tb, w[m - 1])
  BY <1>1, <1>7
<1> QED
  BY <1>3, <1>5, <1>8, <1>9

\* The ranks of entries that lead to the root: how far it is.
LEMMA AcyclicGraded ==
  ASSUME NEW tb, ParentsOk(tb), Acyclic(tb) PROVE Graded(tb)
<1> DEFINE Ends(i, m) == /\ m \in 0 .. FS_MAX_ENTRIES /\ Up(tb, i)[m] = FS_ROOT
                         /\ \A j \in 0 .. FS_MAX_ENTRIES : Up(tb, i)[j] = FS_ROOT => m <= j
           rank == [i \in Ids |-> IF tb[i].used THEN CHOOSE m \in 0 .. FS_MAX_ENTRIES : Ends(i, m)
                                  ELSE 0]
<1>1. ASSUME NEW i \in Ids, tb[i].used PROVE \E m \in 0 .. FS_MAX_ENTRIES : Ends(i, m)
  <2> DEFINE J == {j \in 0 .. FS_MAX_ENTRIES : Up(tb, i)[j] = FS_ROOT}
  <2>1. J \subseteq Nat /\ FS_MAX_ENTRIES \in J
    BY <1>1, FileTableAssumption DEF Acyclic
  <2>2. PICK m \in J : \A j \in J : m <= j
    BY <2>1, SomeLeast
  <2>3. m \in 0 .. FS_MAX_ENTRIES /\ Up(tb, i)[m] = FS_ROOT
    OBVIOUS
  <2>4. \A j \in 0 .. FS_MAX_ENTRIES : Up(tb, i)[j] = FS_ROOT => m <= j
    BY <2>2
  <2> HIDE DEF J
  <2> QED
    BY <2>3, <2>4
<1>2. \A i \in Ids : tb[i].used => Ends(i, rank[i])
  <2> SUFFICES ASSUME NEW i \in Ids, tb[i].used PROVE Ends(i, rank[i])
    OBVIOUS
  <2>1. rank[i] = CHOOSE m \in 0 .. FS_MAX_ENTRIES : Ends(i, m)
    OBVIOUS
  <2> HIDE DEF Ends, rank
  <2> QED
    BY <1>1, <2>1
<1>3. rank \in [Ids -> Nat]
  <2>1. ASSUME NEW i \in Ids PROVE rank[i] \in Nat
    <3>1. CASE tb[i].used
      <4>1. rank[i] \in 0 .. FS_MAX_ENTRIES
        BY <1>2, <3>1
      <4> HIDE DEF rank
      <4> QED
        BY <4>1, FileTableAssumption
    <3>2. CASE ~tb[i].used
      BY <3>2
    <3> QED
      BY <3>1, <3>2
  <2>2. rank = [i \in Ids |-> rank[i]]
    OBVIOUS
  <2> HIDE DEF rank
  <2> QED
    BY <2>1, <2>2
<1> HIDE DEF rank
<1>4. ASSUME NEW i \in Ids, tb[i].used, tb[i].parent # FS_ROOT
      PROVE  rank[tb[i].parent] < rank[i]
  <2> DEFINE q == tb[i].parent
             m == rank[i]
  <2>1. q \in Ids /\ tb[q].used /\ i # FS_ROOT
    BY <1>4, RootIsNoEntry DEF ParentsOk, ParentOk, IsFolder
  <2>2. q = Above(tb, i)
    BY <2>1 DEF Above
  <2>3. Up(tb, i)[0] = i /\ m \in 0 .. FS_MAX_ENTRIES /\ Up(tb, i)[m] = FS_ROOT
    BY <1>2, <1>4, UpSteps
  <2>4. m - 1 \in 0 .. FS_MAX_ENTRIES - 1 /\ m - 1 \in 0 .. FS_MAX_ENTRIES /\ (m - 1) + 1 = m
    <3>1. m # 0
      BY <2>1, <2>3
    <3> HIDE DEF m
    <3> QED
      BY <2>3, <3>1, FileTableAssumption
  <2>5. Up(tb, q)[m - 1] = FS_ROOT
    <3> HIDE DEF q, m
    <3> QED
      BY <2>2, <2>3, <2>4, WalkFromAbove
  <2>6. rank[q] <= m - 1
    <3>1. Ends(q, rank[q])
      BY <1>2, <2>1
    <3> HIDE DEF q, m
    <3> QED
      BY <2>4, <2>5, <3>1
  <2>7. rank[q] \in Nat /\ m \in Nat
    BY <1>3, <2>1
  <2> HIDE DEF q, m
  <2>8. rank[q] < m
    BY <2>6, <2>7
  <2> QED
    BY <2>8 DEF q, m
<1> QED
  BY <1>3, <1>4 DEF Graded, Ranks


-----------------------------------------------------------------------------
(* What lies below what.                                                   *)

\* i is on the way from j to the root, j itself included.
On(tb, j, i) == \E k \in 0 .. FS_MAX_ENTRIES : Up(tb, j)[k] = i

LEMMA RootIsLast ==
  ASSUME NEW tb, NEW p, NEW a \in 0 .. FS_MAX_ENTRIES, NEW b \in a .. FS_MAX_ENTRIES,
         Up(tb, p)[a] = FS_ROOT
  PROVE  Up(tb, p)[b] = FS_ROOT
<1> DEFINE w == Up(tb, p)
           I == {j \in a .. FS_MAX_ENTRIES : w[j] # FS_ROOT}
<1>1. \A j \in 1 .. FS_MAX_ENTRIES : w[j] = Above(tb, w[j - 1])
  BY UpSteps
<1> HIDE DEF w
<1> SUFFICES ASSUME I # {} PROVE FALSE
  BY DEF w
<1>2. PICK m \in I : \A i \in I : m <= i
  <2>1. I \subseteq Nat
    BY FileTableAssumption
  <2> QED
    BY <2>1, SomeLeast
<1>3. m \in a .. FS_MAX_ENTRIES /\ w[m] # FS_ROOT /\ m # a
  BY DEF w
<1>4. m \in 1 .. FS_MAX_ENTRIES /\ m - 1 \in a .. FS_MAX_ENTRIES /\ ~(m <= m - 1)
  BY <1>3, FileTableAssumption
<1>5. w[m - 1] = FS_ROOT
  BY <1>2, <1>4
<1> HIDE DEF I
<1> QED
  BY <1>1, <1>3, <1>4, <1>5 DEF Above

LEMMA RootBelowNone ==
  ASSUME NEW tb, NEW i \in Ids PROVE ~On(tb, FS_ROOT, i)
<1> SUFFICES ASSUME NEW k \in 0 .. FS_MAX_ENTRIES, Up(tb, FS_ROOT)[k] = i PROVE FALSE
  BY DEF On
<1>1. Up(tb, FS_ROOT)[0] = FS_ROOT
  BY UpSteps
<1>2. 0 \in 0 .. FS_MAX_ENTRIES /\ k \in 0 .. FS_MAX_ENTRIES
  BY FileTableAssumption
<1>3. Up(tb, FS_ROOT)[k] = FS_ROOT
  BY <1>1, <1>2, RootIsLast
<1> QED
  BY <1>3, RootIsNoEntry

LEMMA OnItself == ASSUME NEW tb, NEW i PROVE On(tb, i, i)
<1>1. Up(tb, i)[0] = i /\ 0 \in 0 .. FS_MAX_ENTRIES
  BY UpSteps, FileTableAssumption
<1> QED
  BY <1>1 DEF On

\* A walk to an entry is shorter than the table.
LEMMA ShortOfTheRoot ==
  ASSUME NEW tb, NEW nf, Sound(tb, nf), Graded(tb), NEW p, ParentOk(tb, p) \/ (p \in Ids /\ tb[p].used),
         NEW k \in 0 .. FS_MAX_ENTRIES, Up(tb, p)[k] \in Ids
  PROVE  k \in 0 .. FS_MAX_ENTRIES - 1
<1>1. PICK rank : Ranks(tb, rank)
  BY DEF Graded
<1>2. Up(tb, p)[FS_MAX_ENTRIES] = FS_ROOT
  BY <1>1, GradedAcyclic
<1>3. k # FS_MAX_ENTRIES
  BY <1>2, RootIsNoEntry
<1> QED
  BY <1>3, FileTableAssumption

LEMMA OnSteps ==
  ASSUME NEW tb, NEW nf, Sound(tb, nf), Graded(tb), NEW j \in Ids, tb[j].used, NEW i \in Ids
  PROVE  On(tb, j, i) <=> (j = i \/ (tb[j].parent \in Ids /\ On(tb, tb[j].parent, i)))
<1> DEFINE q == tb[j].parent
<1>1. q = Above(tb, j) /\ ParentOk(tb, q)
  BY RootIsNoEntry DEF Above, Sound, WellFormed, ParentsOk
<1> HIDE DEF q
<1>2. \A k \in 0 .. FS_MAX_ENTRIES - 1 : Up(tb, j)[k + 1] = Up(tb, q)[k]
  BY <1>1, WalkFromAbove
<1>3. ASSUME On(tb, j, i), j # i PROVE q \in Ids /\ On(tb, q, i)
  <2>1. PICK k \in 0 .. FS_MAX_ENTRIES : Up(tb, j)[k] = i
    BY <1>3 DEF On
  <2>2. k # 0
    BY <1>3, <2>1, UpSteps
  <2>3. k - 1 \in 0 .. FS_MAX_ENTRIES - 1 /\ k - 1 \in 0 .. FS_MAX_ENTRIES /\ (k - 1) + 1 = k
    BY <2>2, FileTableAssumption
  <2>4. Up(tb, q)[k - 1] = i
    BY <1>2, <2>1, <2>3
  <2>5. On(tb, q, i)
    BY <2>3, <2>4 DEF On
  <2>6. q # FS_ROOT
    BY <2>5, RootBelowNone
  <2> QED
    BY <1>1, <2>5, <2>6 DEF ParentOk
<1>4. ASSUME On(tb, q, i) PROVE On(tb, j, i)
  <2>1. PICK k \in 0 .. FS_MAX_ENTRIES : Up(tb, q)[k] = i
    BY <1>4 DEF On
  <2>2. k \in 0 .. FS_MAX_ENTRIES - 1
    BY <1>1, <2>1, ShortOfTheRoot
  <2>3. k + 1 \in 0 .. FS_MAX_ENTRIES
    BY <2>2, FileTableAssumption
  <2> QED
    BY <1>2, <2>1, <2>2, <2>3 DEF On
<1> QED
  BY <1>3, <1>4, OnItself DEF q

\* What each entry has from its folder, all have.
LEMMA FromTheRoot ==
  ASSUME NEW tb, NEW nf, Sound(tb, nf), Graded(tb), NEW S,
         \A j \in Ids : tb[j].used /\ (tb[j].parent \in Ids => tb[j].parent \in S) => j \in S
  PROVE  \A j \in Ids : tb[j].used => j \in S
<1>1. PICK rank : Ranks(tb, rank)
  BY DEF Graded
<1> DEFINE J == {j \in Ids : tb[j].used /\ j \notin S}
           R == {rank[j] : j \in J}
<1> SUFFICES ASSUME J # {} PROVE FALSE
  OBVIOUS
<1>2. R \subseteq Nat /\ R # {}
  BY <1>1 DEF Ranks
<1>3. PICK m \in R : \A r \in R : m <= r
  <2> HIDE DEF R
  <2> QED
    BY <1>2, SomeLeast
<1>4. PICK j \in J : m = rank[j]
  OBVIOUS
<1>5. j \in Ids /\ tb[j].used /\ j \notin S
  OBVIOUS
<1>6. tb[j].parent \in Ids /\ tb[j].parent \notin S
  BY <1>5
<1>7. tb[tb[j].parent].used
  BY <1>5, <1>6, RootIsNoEntry DEF Sound, WellFormed, ParentsOk, ParentOk, IsFolder
<1>8. rank[tb[j].parent] \in R
  BY <1>6, <1>7
<1>9. rank[tb[j].parent] < rank[j] /\ rank[tb[j].parent] \in Nat /\ rank[j] \in Nat
  BY <1>1, <1>5, <1>6, RootIsNoEntry DEF Ranks
<1> HIDE DEF R, J
<1> QED
  BY <1>3, <1>4, <1>8, <1>9

LEMMA OnUsed ==
  ASSUME NEW tb, NEW nf, Sound(tb, nf), NEW j \in Ids, tb[j].used, NEW i \in Ids, On(tb, j, i)
  PROVE  tb[i].used
<1>1. PICK k \in 0 .. FS_MAX_ENTRIES : Up(tb, j)[k] = i
  BY DEF On
<1> QED
  BY <1>1, WalkStays, RootIsNoEntry

LEMMA OnRanks ==
  ASSUME NEW tb, NEW nf, Sound(tb, nf), NEW rank, Ranks(tb, rank), NEW j \in Ids, tb[j].used,
         NEW i \in Ids, On(tb, j, i)
  PROVE  j = i \/ rank[i] < rank[j]
<1>1. PICK k \in 0 .. FS_MAX_ENTRIES : Up(tb, j)[k] = i
  BY DEF On
<1>2. Up(tb, j)[0] = j
  BY UpSteps
<1>3. CASE k = 0
  BY <1>1, <1>2, <1>3
<1>4. CASE k # 0
  <2>1. 0 < k /\ 0 \in 0 .. FS_MAX_ENTRIES /\ Up(tb, j)[k] # FS_ROOT
    BY <1>1, <1>4, RootIsNoEntry, FileTableAssumption
  <2>2. rank[Up(tb, j)[k]] < rank[Up(tb, j)[0]]
    BY <2>1, RanksFall
  <2> QED
    BY <1>1, <1>2, <2>2
<1> QED
  BY <1>3, <1>4

LEMMA OnOneWay ==
  ASSUME NEW tb, NEW nf, Sound(tb, nf), Graded(tb), NEW j \in Ids, tb[j].used, NEW i \in Ids,
         On(tb, j, i), On(tb, i, j)
  PROVE  i = j
<1>1. PICK rank : Ranks(tb, rank)
  BY DEF Graded
<1>2. tb[i].used
  BY OnUsed
<1>3. (j = i \/ rank[i] < rank[j]) /\ (i = j \/ rank[j] < rank[i])
  BY <1>1, <1>2, OnRanks
<1>4. rank[i] \in Nat /\ rank[j] \in Nat
  BY <1>1 DEF Ranks
<1> QED
  BY <1>3, <1>4

LEMMA OnAndOn ==
  ASSUME NEW tb, NEW nf, Sound(tb, nf), Graded(tb), NEW i \in Ids, NEW h \in Ids, On(tb, i, h),
         NEW j0 \in Ids, tb[j0].used, On(tb, j0, i)
  PROVE  On(tb, j0, h)
<1> DEFINE S == {j \in Ids : On(tb, j, i) => On(tb, j, h)}
<1>1. ASSUME NEW j \in Ids, tb[j].used, tb[j].parent \in Ids => tb[j].parent \in S
      PROVE  j \in S
  <2>1. On(tb, j, i) => (j = i \/ (tb[j].parent \in Ids /\ On(tb, tb[j].parent, i)))
    BY <1>1, OnSteps
  <2>2. (tb[j].parent \in Ids /\ On(tb, tb[j].parent, h)) => On(tb, j, h)
    BY <1>1, OnSteps
  <2> QED
    BY <1>1, <2>1, <2>2
<1> HIDE DEF S
<1>2. j0 \in S
  BY <1>1, FromTheRoot
<1> QED
  BY <1>2 DEF S

\* Of two entries on one way, one is on the way of the other.
LEMMA OneWay ==
  ASSUME NEW tb, NEW nf, Sound(tb, nf), Graded(tb), NEW a \in Ids, NEW b \in Ids,
         NEW j0 \in Ids, tb[j0].used, On(tb, j0, a), On(tb, j0, b)
  PROVE  On(tb, a, b) \/ On(tb, b, a)
<1> DEFINE S == {j \in Ids : On(tb, j, a) /\ On(tb, j, b) => On(tb, a, b) \/ On(tb, b, a)}
<1>1. ASSUME NEW j \in Ids, tb[j].used, tb[j].parent \in Ids => tb[j].parent \in S
      PROVE  j \in S
  <2>1. On(tb, j, a) => (j = a \/ (tb[j].parent \in Ids /\ On(tb, tb[j].parent, a)))
    BY <1>1, OnSteps
  <2>2. On(tb, j, b) => (j = b \/ (tb[j].parent \in Ids /\ On(tb, tb[j].parent, b)))
    BY <1>1, OnSteps
  <2> QED
    BY <1>1, <2>1, <2>2
<1> HIDE DEF S
<1>2. j0 \in S
  BY <1>1, FromTheRoot
<1> QED
  BY <1>2 DEF S

\* Below an entry is below one of its children.
LEMMA OnChild ==
  ASSUME NEW tb, NEW nf, Sound(tb, nf), Graded(tb), NEW i \in Ids,
         NEW j0 \in Ids, tb[j0].used, On(tb, j0, i), j0 # i
  PROVE  \E c \in Children(tb, i) : On(tb, j0, c)
<1> DEFINE S == {j \in Ids : On(tb, j, i) /\ j # i => \E c \in Children(tb, i) : On(tb, j, c)}
<1>1. ASSUME NEW j \in Ids, tb[j].used, tb[j].parent \in Ids => tb[j].parent \in S
      PROVE  j \in S
  <2> DEFINE q == tb[j].parent
  <2> SUFFICES ASSUME On(tb, j, i), j # i PROVE \E c \in Children(tb, i) : On(tb, j, c)
    OBVIOUS
  <2>1. q \in Ids /\ On(tb, q, i)
    BY <1>1, OnSteps
  <2>2. CASE q = i
    <3>1. j \in Children(tb, i)
      BY <1>1, <2>2 DEF Children
    <3> QED
      BY <3>1, OnItself
  <2>3. CASE q # i
    <3>1. PICK c \in Children(tb, i) : On(tb, q, c)
      BY <1>1, <2>1, <2>3
    <3>2. c \in Ids
      BY DEF Children
    <3>3. On(tb, j, c)
      BY <1>1, <2>1, <3>1, <3>2, OnSteps
    <3> QED
      BY <3>3
  <2> QED
    BY <2>2, <2>3
<1> HIDE DEF S
<1>2. j0 \in S
  BY <1>1, FromTheRoot
<1> QED
  BY <1>2 DEF S

LEMMA ChildOn ==
  ASSUME NEW tb, NEW nf, Sound(tb, nf), Graded(tb), NEW i \in Ids, NEW c \in Children(tb, i)
  PROVE  c \in Ids /\ tb[c].used /\ tb[c].parent = i /\ On(tb, c, i) /\ c # i /\ ~On(tb, i, c)
<1>1. c \in Ids /\ tb[c].used /\ tb[c].parent = i
  BY DEF Children
<1>2. On(tb, c, i)
  BY <1>1, OnSteps, OnItself
<1>3. c # i
  <2>1. PICK rank : Ranks(tb, rank)
    BY DEF Graded
  <2>2. rank[i] < rank[c] /\ rank[i] \in Nat
    BY <1>1, <2>1, RootIsNoEntry DEF Ranks
  <2> QED
    BY <2>2
<1> QED
  BY <1>1, <1>2, <1>3, OnOneWay

\* The ways of entries that stay.
StaysIn(tb, tb2) == \A j \in Ids : tb[j].used => tb2[j] = tb[j]

LEMMA UpStays ==
  ASSUME NEW tb, NEW nf, Sound(tb, nf), NEW tb2, StaysIn(tb, tb2),
         NEW p, ParentOk(tb, p) \/ (p \in Ids /\ tb[p].used)
  PROVE  \A k \in 0 .. FS_MAX_ENTRIES : Up(tb2, p)[k] = Up(tb, p)[k]
<1> DEFINE u == Up(tb, p)
           w == Up(tb2, p)
           I == {k \in 0 .. FS_MAX_ENTRIES : w[k] # u[k]}
<1> SUFFICES ASSUME I # {} PROVE FALSE
  OBVIOUS
<1>1. /\ u[0] = p /\ \A j \in 1 .. FS_MAX_ENTRIES : u[j] = Above(tb, u[j - 1])
      /\ w[0] = p /\ \A j \in 1 .. FS_MAX_ENTRIES : w[j] = Above(tb2, w[j - 1])
  BY UpSteps
<1>2. \A j \in 0 .. FS_MAX_ENTRIES : u[j] # FS_ROOT => u[j] \in Ids /\ tb[u[j]].used
  BY WalkStays
<1> HIDE DEF u, w
<1>3. PICK m \in I : \A i \in I : m <= i
  <2>1. I \subseteq Nat
    BY FileTableAssumption
  <2> QED
    BY <2>1, SomeLeast
<1>4. m \in 0 .. FS_MAX_ENTRIES /\ w[m] # u[m]
  OBVIOUS
<1>5. m # 0
  BY <1>1, <1>4
<1>6. m \in 1 .. FS_MAX_ENTRIES /\ m - 1 \in 0 .. FS_MAX_ENTRIES /\ ~(m <= m - 1)
  BY <1>4, <1>5, FileTableAssumption
<1>7. w[m - 1] = u[m - 1]
  BY <1>3, <1>6
<1> HIDE DEF I
<1>8. w[m] = Above(tb2, u[m - 1]) /\ u[m] = Above(tb, u[m - 1])
  BY <1>1, <1>6, <1>7
<1> QED
  BY <1>2, <1>4, <1>6, <1>8 DEF Above, StaysIn

LEMMA OnStays ==
  ASSUME NEW tb, NEW nf, Sound(tb, nf), NEW tb2, StaysIn(tb, tb2), NEW j \in Ids, tb[j].used, NEW i
  PROVE  On(tb2, j, i) <=> On(tb, j, i)
BY UpStays DEF On

\* fs_move's test finds all of them.
LEMMA InsideIsOn ==
  ASSUME NEW tb, NEW nf, Sound(tb, nf), Graded(tb), NEW p, ParentOk(tb, p), NEW i \in Ids
  PROVE  Inside(tb, p, i) <=> (p \in Ids /\ On(tb, p, i))
<1>1. ASSUME Inside(tb, p, i) PROVE p \in Ids /\ On(tb, p, i)
  <2>1. PICK k \in 0 .. FS_MAX_ENTRIES - 1 : Up(tb, p)[k] = i
    BY <1>1 DEF Inside
  <2>2. k \in 0 .. FS_MAX_ENTRIES
    BY FileTableAssumption
  <2>3. On(tb, p, i)
    BY <2>1, <2>2 DEF On
  <2>4. p # FS_ROOT
    BY <2>3, RootBelowNone
  <2> QED
    BY <2>3, <2>4 DEF ParentOk
<1>2. ASSUME On(tb, p, i) PROVE Inside(tb, p, i)
  <2>1. PICK k \in 0 .. FS_MAX_ENTRIES : Up(tb, p)[k] = i
    BY <1>2 DEF On
  <2>2. k \in 0 .. FS_MAX_ENTRIES - 1
    BY <2>1, ShortOfTheRoot
  <2> QED
    BY <2>1, <2>2 DEF Inside
<1> QED
  BY <1>1, <1>2
=============================================================================
