--------------------------- MODULE DesktopProofs ---------------------------
(***************************************************************************)
(* Proofs about Desktop, for every size of the disk, every set of names,   *)
(* texts and editors, every disk in order that the boot may mount and any  *)
(* number of changes.                                                      *)
(***************************************************************************)
EXTENDS Desktop, TableProofs

-----------------------------------------------------------------------------
(* What a loop over the table leaves, by an invariant for each entry.      *)

\* w is the loop's result before each of the first n entries.
Loops(step, base, n, w) ==
  w = [k \in 0 .. n |-> IF k = 0 THEN base
                        ELSE IF k - 1 \in DOMAIN step THEN step[k - 1][w[k - 1]]
                        ELSE w[k - 1]]

Pass(step, k, s) == IF k \in DOMAIN step THEN step[k][s] ELSE s

LEMMA LongerLoop ==
  ASSUME NEW step, NEW base, NEW n \in Nat, NEW w, Loops(step, base, n, w)
  PROVE  \E u : Loops(step, base, n + 1, u)
<1> DEFINE u == [j \in 0 .. n + 1 |-> IF j = n + 1 THEN Pass(step, n, w[n]) ELSE w[j]]
<1>1. \A j \in 0 .. n : u[j] = w[j]
  OBVIOUS
<1>2. u[n + 1] = Pass(step, n, u[n])
  OBVIOUS
<1>3. \A j \in 0 .. n : w[j] = IF j = 0 THEN base ELSE Pass(step, j - 1, w[j - 1])
  BY DEF Loops, Pass
<1>4. u = [j \in 0 .. n + 1 |-> u[j]]
  OBVIOUS
<1> HIDE DEF u
<1>5. \A j \in 0 .. n + 1 : u[j] = IF j = 0 THEN base ELSE Pass(step, j - 1, u[j - 1])
  <2> SUFFICES ASSUME NEW j \in 0 .. n + 1
               PROVE  u[j] = IF j = 0 THEN base ELSE Pass(step, j - 1, u[j - 1])
    OBVIOUS
  <2>1. CASE j = n + 1
    BY <1>2, <2>1
  <2>2. CASE j # n + 1 /\ j # 0
    <3>1. j \in 0 .. n /\ j - 1 \in 0 .. n
      BY <2>2
    <3> QED
      BY <1>1, <1>3, <2>2, <3>1
  <2>3. CASE j = 0
    BY <1>1, <1>3, <2>3
  <2> QED
    BY <2>1, <2>2, <2>3
<1>6. u = [j \in 0 .. n + 1 |-> IF j = 0 THEN base ELSE Pass(step, j - 1, u[j - 1])]
  BY <1>4, <1>5
<1> QED
  BY <1>6 DEF Loops, Pass

LEMMA LoopExists ==
  ASSUME NEW step, NEW base, NEW n \in Nat
  PROVE  \E w : Loops(step, base, n, w)
<1> DEFINE I == {j \in Nat : ~\E w : Loops(step, base, j, w)}
<1> SUFFICES ASSUME I # {} PROVE FALSE
  OBVIOUS
<1>1. PICK m \in I : \A i \in I : m <= i
  BY SomeLeast
<1>2. m \in Nat /\ ~\E w : Loops(step, base, m, w)
  OBVIOUS
<1>3. CASE m = 0
  <2> DEFINE w == [j \in 0 .. 0 |-> base]
  <2>1. \A j \in 0 .. 0 : j = 0
    OBVIOUS
  <2>2. Loops(step, base, 0, w)
    BY <2>1 DEF Loops
  <2> QED
    BY <1>2, <1>3, <2>2
<1>4. CASE m # 0
  <2>1. m - 1 \in Nat /\ (m - 1) + 1 = m /\ ~(m <= m - 1)
    BY <1>2, <1>4
  <2>2. PICK w : Loops(step, base, m - 1, w)
    BY <1>1, <2>1
  <2> HIDE DEF I
  <2>3. \E u : Loops(step, base, (m - 1) + 1, u)
    BY <2>1, <2>2, LongerLoop
  <2> QED
    BY <1>2, <2>1, <2>3
<1> QED
  BY <1>3, <1>4

\* I[k] holds what the loop may have before entry k.
LEMMA EachReaches ==
  ASSUME NEW step, NEW base, NEW I, base \in I[0],
         \A k \in Ids : \A s \in I[k] : Pass(step, k, s) \in I[k + 1]
  PROVE  Each(step, base) \in I[FS_MAX_ENTRIES]
<1> DEFINE n == FS_MAX_ENTRIES
           w == CHOOSE u : Loops(step, base, n, u)
           J == {j \in 0 .. n : w[j] \notin I[j]}
<1>1. Each(step, base) = w[n]
  BY DEF Each, Loops
<1>2. Loops(step, base, n, w)
  <2>1. \E u : Loops(step, base, n, u)
    BY LoopExists, FileTableAssumption
  <2> QED
    BY <2>1
<1> HIDE DEF w
<1>3. \A j \in 0 .. n : w[j] = IF j = 0 THEN base ELSE Pass(step, j - 1, w[j - 1])
  BY <1>2 DEF Loops, Pass
<1>4. n \in 0 .. n
  BY FileTableAssumption
<1> SUFFICES ASSUME J # {} PROVE FALSE
  BY <1>1, <1>4
<1>5. PICK m \in J : \A j \in J : m <= j
  <2>1. J \subseteq Nat
    BY FileTableAssumption
  <2> QED
    BY <2>1, SomeLeast
<1>6. m \in 0 .. n /\ w[m] \notin I[m]
  OBVIOUS
<1>7. m # 0
  BY <1>3, <1>6
<1>8. m - 1 \in Ids /\ m - 1 \in 0 .. n /\ (m - 1) + 1 = m /\ ~(m <= m - 1)
  BY <1>6, <1>7, FileTableAssumption DEF Ids
<1>9. w[m - 1] \in I[m - 1]
  BY <1>5, <1>8
<1>10. w[m] = Pass(step, m - 1, w[m - 1])
  BY <1>3, <1>6, <1>7
<1> HIDE DEF J
<1> QED
  BY <1>6, <1>8, <1>9, <1>10

\* What every step keeps, the loop does.
LEMMA EachStays ==
  ASSUME NEW step, NEW base, NEW I, base \in I,
         \A k \in Ids : k \in DOMAIN step => \A s \in I : step[k][s] \in I
  PROVE  Each(step, base) \in I
<1> DEFINE J == [k \in 0 .. FS_MAX_ENTRIES |-> I]
<1>1. \A k \in 0 .. FS_MAX_ENTRIES : J[k] = I
  OBVIOUS
<1>2. /\ 0 \in 0 .. FS_MAX_ENTRIES /\ FS_MAX_ENTRIES \in 0 .. FS_MAX_ENTRIES
      /\ \A k \in Ids : k \in 0 .. FS_MAX_ENTRIES /\ k + 1 \in 0 .. FS_MAX_ENTRIES
  BY FileTableAssumption DEF Ids
<1> HIDE DEF J
<1>3. base \in J[0]
  BY <1>1, <1>2
<1>4. \A k \in Ids : \A s \in J[k] : Pass(step, k, s) \in J[k + 1]
  BY <1>1, <1>2 DEF Pass
<1>5. Each(step, base) \in J[FS_MAX_ENTRIES]
  BY <1>3, <1>4, EachReaches
<1> QED
  BY <1>1, <1>2, <1>5


-----------------------------------------------------------------------------
(* The calls of fs.c on a file system in order.                            *)

Texted(f) ==
  \A i \in Ids : SectorsOf(f.text[i]) = f.table[i].size /\ (f.text[i] # "" => IsFile(f.table, i))

Good(f) == f \in FileSystems /\ Sound(f.table, f.nf) /\ Graded(f.table) /\ Texted(f)

LEMMA GoodInOrder == ASSUME NEW f, Good(f) PROVE InOrder(f)
BY GradedMeansAcyclic DEF Good, Sound, Texted, InOrder

LEMMA InOrderGood == ASSUME NEW f, InOrder(f) PROVE Good(f)
<1>1. Sound(f.table, f.nf)
  BY DEF InOrder, FileSystems, Sound, Table
<1>2. Graded(f.table)
  BY AcyclicGraded DEF InOrder, WellFormed
<1>3. f \in FileSystems /\ Texted(f)
  BY DEF InOrder, Texted
<1> QED
  BY <1>1, <1>2, <1>3 DEF Good

\* g is f with another table and, for entry i, another text.
Becomes(f, g, tb, nf, i, t) ==
  /\ g \in FileSystems
  /\ g.table = tb /\ g.nf = nf
  /\ g.text[i] = t /\ \A j \in Ids : j # i => g.text[j] = f.text[j]

LEMMA Becoming ==
  ASSUME NEW f \in FileSystems, NEW g, NEW tb \in Table, NEW nf \in 0 .. DataSectors,
         NEW i \in Ids, NEW t \in Texts \cup {""},
         g = [table |-> tb, nf |-> nf, text |-> [f.text EXCEPT ![i] = t]]
  PROVE  Becomes(f, g, tb, nf, i, t)
<1>1. f.text \in [Ids -> Texts \cup {""}]
  BY DEF FileSystems
<1> DEFINE text == [f.text EXCEPT ![i] = t]
<1>2. text \in [Ids -> Texts \cup {""}] /\ text[i] = t /\ \A j \in Ids : j # i => text[j] = f.text[j]
  BY <1>1
<1> HIDE DEF text
<1>3. g \in FileSystems
  BY <1>2 DEF FileSystems, Table, text
<1> QED
  BY <1>2, <1>3 DEF Becomes, text

LEMMA Fields ==
  ASSUME NEW f \in FileSystems
  PROVE  /\ f.table \in Table /\ f.nf \in 0 .. DataSectors /\ f.text \in [Ids -> Texts \cup {""}]
         /\ f = [table |-> f.table, nf |-> f.nf, text |-> f.text]
BY DEF FileSystems, Table

LEMMA FailedIs == \A f : Failed(f).fs = f /\ Failed(f).id = -1
BY DEF Failed

LEMMA MadeIs == \A g, i : Made(g, i).fs = g /\ Made(g, i).id = i
BY DEF Made

LEMMA FirstFree ==
  ASSUME NEW tb, NEW i \in Ids, IsAlloc(tb, i) PROVE Min(FreeIds(tb)) = i
<1>1. FreeIds(tb) \subseteq Int /\ i \in FreeIds(tb) /\ \A j \in FreeIds(tb) : i <= j
  BY FileTableAssumption DEF FreeIds, IsAlloc, Ids
<1>2. \A x \in FreeIds(tb) : (\A y \in FreeIds(tb) : x <= y) => x = i
  BY <1>1
<1> QED
  BY <1>1, <1>2 DEF Min

LEMMA CreateEffect ==
  ASSUME NEW f, Good(f), NEW p \in Ids \cup {FS_ROOT}, NEW n, NEW ty \in {"file", "folder"},
         NEW r, r = FsCreate(f, p, n, ty)
  PROVE  \/ r = Failed(f)
         \/ \E i \in Ids :
              /\ n \in Names /\ CanCreate(f.table, p, n, i) /\ r.id = i
              /\ Becomes(f, r.fs, Created(f.table, p, n, ty, i), f.nf, i, "")
<1> SUFFICES ASSUME NEW i \in Ids, n \in Names, CanCreate(f.table, p, n, i)
             PROVE  r.id = i /\ Becomes(f, r.fs, Created(f.table, p, n, ty, i), f.nf, i, "")
  BY DEF FsCreate
<1>1. Min(FreeIds(f.table)) = i
  BY FirstFree DEF CanCreate
<1> DEFINE tb == Created(f.table, p, n, ty, i)
           g == [f EXCEPT !.table = Created(@, p, n, ty, i), !.text[i] = ""]
<1>2. r = Made(g, i)
  BY <1>1 DEF FsCreate
<1>3. tb \in Table
  BY CreateSound DEF Good, Sound
<1>4. g = [table |-> tb, nf |-> f.nf, text |-> [f.text EXCEPT ![i] = ""]]
  <2> HIDE DEF tb
  <2>1. g = [f EXCEPT !.table = tb, !.text[i] = ""]
    BY DEF tb
  <2> HIDE DEF g
  <2> QED
    BY <2>1 DEF Good, FileSystems
<1> HIDE DEF g, tb
<1>5. Becomes(f, g, tb, f.nf, i, "")
  BY <1>3, <1>4, Becoming, Fields DEF Good
<1>6. r.fs = g /\ r.id = i
  BY <1>2 DEF Made
<1> QED
  BY <1>5, <1>6 DEF tb

LEMMA DeleteEffect ==
  ASSUME NEW f, Good(f), NEW i, NEW r, r = FsDelete(f, i)
  PROVE  \/ r = Failed(f)
         \/ /\ i \in Ids /\ CanDelete(f.table, i) /\ r.id = i
            /\ Becomes(f, r.fs, Deleted(f.table, i), f.nf, i, "")
<1> SUFFICES ASSUME i \in Ids, CanDelete(f.table, i)
             PROVE  r.id = i /\ Becomes(f, r.fs, Deleted(f.table, i), f.nf, i, "")
  BY DEF FsDelete
<1> DEFINE tb == Deleted(f.table, i)
           g == [f EXCEPT !.table = Deleted(@, i), !.text[i] = ""]
<1>2. r = Made(g, i)
  BY DEF FsDelete
<1>3. tb \in Table
  BY DeleteSound DEF Good, Sound
<1>4. g = [table |-> tb, nf |-> f.nf, text |-> [f.text EXCEPT ![i] = ""]]
  <2> HIDE DEF tb
  <2>1. g = [f EXCEPT !.table = tb, !.text[i] = ""]
    BY DEF tb
  <2> HIDE DEF g
  <2> QED
    BY <2>1 DEF Good, FileSystems
<1> HIDE DEF g, tb
<1>5. Becomes(f, g, tb, f.nf, i, "")
  BY <1>3, <1>4, Becoming, Fields DEF Good
<1>6. r.fs = g /\ r.id = i
  BY <1>2 DEF Made
<1> QED
  BY <1>5, <1>6 DEF tb

\* A change of the table alone.
LEMMA Retabled ==
  ASSUME NEW f \in FileSystems, NEW g, NEW tb \in Table, NEW i \in Ids, g = [f EXCEPT !.table = tb]
  PROVE  Becomes(f, g, tb, f.nf, i, f.text[i])
<1>1. f.text[i] \in Texts \cup {""} /\ f.text = [f.text EXCEPT ![i] = f.text[i]]
  BY Fields
<1>2. g = [table |-> tb, nf |-> f.nf, text |-> f.text]
  BY DEF FileSystems
<1> QED
  BY <1>1, <1>2, Becoming, Fields

LEMMA RenameEffect ==
  ASSUME NEW f, Good(f), NEW i, NEW n, NEW r, r = FsRename(f, i, n)
  PROVE  \/ r = Failed(f)
         \/ /\ i \in Ids /\ n \in Names /\ CanRename(f.table, i, n) /\ r.id = i
            /\ Becomes(f, r.fs, Renamed(f.table, i, n), f.nf, i, f.text[i])
<1> SUFFICES ASSUME i \in Ids, n \in Names, CanRename(f.table, i, n)
             PROVE  r.id = i /\ Becomes(f, r.fs, Renamed(f.table, i, n), f.nf, i, f.text[i])
  BY DEF FsRename
<1> DEFINE tb == Renamed(f.table, i, n)
           g == [f EXCEPT !.table = tb]
<1>1. r = Made(g, i)
  BY DEF FsRename
<1>2. tb \in Table
  BY RenameSound DEF Good, Sound
<1> HIDE DEF tb
<1>3. Becomes(f, g, tb, f.nf, i, f.text[i])
  BY <1>2, Retabled DEF Good
<1> QED
  BY <1>1, <1>3 DEF Made, tb

LEMMA MoveEffect ==
  ASSUME NEW f, Good(f), NEW i, NEW p \in Ids \cup {FS_ROOT}, NEW r, r = FsMove(f, i, p)
  PROVE  \/ r = Failed(f)
         \/ /\ i \in Ids /\ CanMove(f.table, i, p) /\ r.id = i
            /\ Becomes(f, r.fs, Moved(f.table, i, p), f.nf, i, f.text[i])
<1> SUFFICES ASSUME i \in Ids, CanMove(f.table, i, p)
             PROVE  r.id = i /\ Becomes(f, r.fs, Moved(f.table, i, p), f.nf, i, f.text[i])
  BY DEF FsMove
<1> DEFINE tb == Moved(f.table, i, p)
           g == [f EXCEPT !.table = tb]
<1>1. r = Made(g, i)
  BY DEF FsMove
<1>2. tb \in Table
  BY MoveSound DEF Good, Sound
<1> HIDE DEF tb
<1>3. Becomes(f, g, tb, f.nf, i, f.text[i])
  BY <1>2, Retabled DEF Good
<1> QED
  BY <1>1, <1>3 DEF Made, tb

LEMMA WriteEffect ==
  ASSUME NEW f, Good(f), NEW i, NEW t \in Texts \cup {""}, NEW r, r = FsWrite(f, i, t)
  PROVE  LET len == SectorsOf(t) IN
         \/ r = Failed(f) /\ ~(i \in Ids /\ CanWrite(f.table, f.nf, i, len))
         \/ /\ i \in Ids /\ CanWrite(f.table, f.nf, i, len) /\ r.id = i
            /\ Becomes(f, r.fs, Written(f.table, f.nf, i, len), NextFree(f.table, f.nf, i, len), i, t)
<1> DEFINE len == SectorsOf(t)
           tb == Written(f.table, f.nf, i, len)
           nf == NextFree(f.table, f.nf, i, len)
           g == [table |-> tb, nf |-> nf, text |-> [f.text EXCEPT ![i] = t]]
<1>0. len \in Nat
  BY DEF SectorsOf
<1> SUFFICES ASSUME i \in Ids, CanWrite(f.table, f.nf, i, len)
             PROVE  r.id = i /\ Becomes(f, r.fs, tb, nf, i, t)
  BY DEF FsWrite
<1>1. r.fs = g /\ r.id = i
  <2>1. r = Made(g, i)
    BY DEF FsWrite
  <2> HIDE DEF g
  <2> QED
    BY <2>1, MadeIs
<1> HIDE DEF len
<1>2. tb \in Table /\ nf \in 0 .. DataSectors
  BY <1>0, WriteSound DEF Good, Sound
<1> HIDE DEF tb, nf
<1>3. Becomes(f, g, tb, nf, i, t)
  BY <1>2, Becoming DEF Good
<1> HIDE DEF g
<1> QED
  BY <1>1, <1>3

-----------------------------------------------------------------------------
(* What the calls keep.                                                    *)

\* The entries of f outside D are still there, each a file or a folder as before.
Stand(f, g, D) ==
  \A j \in Ids \ D : f.table[j].used =>
    g.table[j].used /\ g.table[j].type = f.table[j].type

\* Entry i alone may differ.
SameBut(f, g, i) == \A j \in Ids : j # i => g.table[j] = f.table[j] /\ g.text[j] = f.text[j]

SameTexts(f, g) == \A j \in Ids : g.text[j] = f.text[j]

\* A new entry of this type has been made.
Copied(f, r, p, n, ty) ==
  /\ r.id \in Ids /\ ~f.table[r.id].used /\ ParentOk(f.table, p)
  /\ r.fs.table[r.id].used /\ r.fs.table[r.id].type = ty
  /\ r.fs.table[r.id].parent = p /\ r.fs.table[r.id].name = n

\* An entry has been written.
Rewritten(f, r, i, t) ==
  /\ r.id = i /\ i \in Ids /\ IsFile(f.table, i) /\ r.fs.text[i] = t
  /\ r.fs.table[i].used /\ r.fs.table[i].type = "file"
  /\ r.fs.table[i].parent = f.table[i].parent /\ r.fs.table[i].name = f.table[i].name
  /\ SameBut(f, r.fs, i)

LEMMA StandParents ==
  ASSUME NEW f, NEW g, NEW D, Stand(f, g, D), NEW p, p \notin D, ParentOk(f.table, p)
  PROVE  ParentOk(g.table, p)
BY DEF Stand, ParentOk, IsFolder

\* Only entry i differs, and its text goes with its size.
LEMMA TextedAt ==
  ASSUME NEW f, Texted(f), NEW g, NEW tb, NEW nf, NEW i \in Ids, NEW t, Becomes(f, g, tb, nf, i, t),
         OnlyAt(f.table, tb, i), SectorsOf(t) = tb[i].size, t # "" => IsFile(tb, i)
  PROVE  Texted(g)
<1> SUFFICES ASSUME NEW j \in Ids
             PROVE  SectorsOf(g.text[j]) = g.table[j].size /\ (g.text[j] # "" => IsFile(g.table, j))
  BY DEF Texted
<1>1. CASE j = i
  BY <1>1 DEF Becomes
<1>2. CASE j # i
  <2>1. g.text[j] = f.text[j] /\ g.table[j] = f.table[j]
    BY <1>2 DEF Becomes, OnlyAt
  <2> QED
    BY <2>1 DEF Texted, IsFile
<1> QED
  BY <1>1, <1>2

LEMMA CreateGood ==
  ASSUME NEW f, Good(f), NEW p \in Ids \cup {FS_ROOT}, NEW n, NEW ty \in {"file", "folder"},
         NEW r, r = FsCreate(f, p, n, ty)
  PROVE  /\ Good(r.fs) /\ Keeps(f, r.fs)
         /\ \/ r.id = -1 /\ r.fs = f
            \/ Copied(f, r, p, n, ty) /\ r.fs.text[r.id] = "" /\ SameBut(f, r.fs, r.id)
<1>1. CASE r = Failed(f)
  <2>1. r.fs = f /\ r.id = -1
    BY <1>1, FailedIs
  <2> QED
    BY <2>1 DEF Keeps
<1> DEFINE i == r.id
<1>2. CASE /\ i \in Ids /\ n \in Names /\ CanCreate(f.table, p, n, i)
           /\ Becomes(f, r.fs, Created(f.table, p, n, ty, i), f.nf, i, "")
  <2> DEFINE tb == Created(f.table, p, n, ty, i)
  <2>1. Sound(tb, f.nf) /\ OnlyAt(f.table, tb, i) /\ Graded(tb)
    BY <1>2, CreateSound, CreateGraded DEF Good
  <2> HIDE DEF i
  <2>2. /\ tb[i].used = TRUE /\ tb[i].type = ty /\ tb[i].parent = p /\ tb[i].name = n
        /\ tb[i].size = 0 /\ tb[i].alloc = 0
    BY <1>2 DEF Created, Good, Sound, Table, NoEntry
  <2> HIDE DEF tb
  <2>3. Becomes(f, r.fs, tb, f.nf, i, "")
    BY <1>2 DEF tb
  <2>4. Texted(r.fs)
    <3>1. SectorsOf("") = tb[i].size
      BY <2>2 DEF SectorsOf
    <3> QED
      BY <1>2, <2>1, <2>3, <3>1, TextedAt DEF Good
  <2>5. r.fs.table = tb /\ r.fs.nf = f.nf /\ r.fs \in FileSystems
    BY <2>3 DEF Becomes
  <2>6. Good(r.fs)
    BY <2>1, <2>4, <2>5 DEF Good
  <2>7. \A j \in Ids : j # i => r.fs.table[j] = f.table[j] /\ r.fs.text[j] = f.text[j]
    BY <2>1, <2>3, <2>5 DEF Becomes, OnlyAt
  <2>8. ~f.table[i].used /\ ParentOk(f.table, p)
    BY <1>2 DEF CanCreate, IsAlloc, FreeIds
  <2>9. Keeps(f, r.fs)
    BY <2>7, <2>8 DEF Keeps
  <2>10. r.fs.text[i] = ""
    BY <2>3 DEF Becomes
  <2> QED
    BY <1>2, <2>2, <2>5, <2>6, <2>7, <2>8, <2>9, <2>10 DEF i, Copied, SameBut
<1>3. CASE \E k \in Ids :
             /\ n \in Names /\ CanCreate(f.table, p, n, k) /\ r.id = k
             /\ Becomes(f, r.fs, Created(f.table, p, n, ty, k), f.nf, k, "")
  <2>1. /\ i \in Ids /\ n \in Names /\ CanCreate(f.table, p, n, i)
        /\ Becomes(f, r.fs, Created(f.table, p, n, ty, i), f.nf, i, "")
    BY <1>3
  <2> QED
    BY <1>2, <2>1
<1> QED
  BY <1>1, <1>3, CreateEffect

LEMMA KeepsStand == ASSUME NEW f, NEW g, Keeps(f, g) PROVE Stand(f, g, {})
BY DEF Keeps, Stand

LEMMA DeleteGood ==
  ASSUME NEW f, Good(f), NEW i, NEW r, r = FsDelete(f, i)
  PROVE  Good(r.fs) /\ SameBut(f, r.fs, i) /\ Stand(f, r.fs, {i})
<1>1. CASE r = Failed(f)
  <2>1. r.fs = f
    BY <1>1, FailedIs
  <2> QED
    BY <2>1 DEF Stand, SameBut
<1>2. CASE i \in Ids /\ CanDelete(f.table, i) /\ r.id = i
           /\ Becomes(f, r.fs, Deleted(f.table, i), f.nf, i, "")
  <2> DEFINE tb == Deleted(f.table, i)
  <2>1. Sound(tb, f.nf) /\ OnlyAt(f.table, tb, i) /\ Graded(tb)
    BY <1>2, DeleteSound, DeleteGraded DEF Good
  <2>2. tb[i].size = 0
    BY <1>2 DEF Deleted, Good, Sound, Table, NoEntry
  <2> HIDE DEF tb
  <2>3. Becomes(f, r.fs, tb, f.nf, i, "")
    BY <1>2 DEF tb
  <2>4. Texted(r.fs)
    <3>1. SectorsOf("") = tb[i].size
      BY <2>2 DEF SectorsOf
    <3> QED
      BY <1>2, <2>1, <2>3, <3>1, TextedAt DEF Good
  <2>5. r.fs.table = tb /\ r.fs.nf = f.nf /\ r.fs \in FileSystems
    BY <2>3 DEF Becomes
  <2>6. Good(r.fs)
    BY <2>1, <2>4, <2>5 DEF Good
  <2>7. \A j \in Ids : j # i => r.fs.table[j] = f.table[j] /\ r.fs.text[j] = f.text[j]
    BY <2>1, <2>3, <2>5 DEF Becomes, OnlyAt
  <2> QED
    BY <2>6, <2>7 DEF Stand, SameBut
<1> QED
  BY <1>1, <1>2, DeleteEffect

\* Entry i has changed its place or its name, and nothing else.
LEMMA Moving ==
  ASSUME NEW f, Good(f), NEW g, NEW tb, NEW i \in Ids, Becomes(f, g, tb, f.nf, i, f.text[i]),
         Sound(tb, f.nf), OnlyAt(f.table, tb, i), Graded(tb),
         tb[i].used = f.table[i].used, tb[i].type = f.table[i].type, tb[i].size = f.table[i].size
  PROVE  Good(g) /\ Stand(f, g, {}) /\ SameTexts(f, g)
<1>1. SectorsOf(f.text[i]) = tb[i].size /\ (f.text[i] # "" => IsFile(tb, i))
  BY DEF Good, Texted, IsFile
<1>2. Texted(g)
  BY <1>1, TextedAt DEF Good
<1>3. g.table = tb /\ g.nf = f.nf /\ g \in FileSystems
  BY DEF Becomes
<1>4. Stand(f, g, {})
  BY <1>3 DEF Stand, OnlyAt
<1> QED
  BY <1>2, <1>3, <1>4 DEF Good, Becomes, SameTexts

LEMMA RenameGood ==
  ASSUME NEW f, Good(f), NEW i, NEW n, NEW r, r = FsRename(f, i, n)
  PROVE  Good(r.fs) /\ Stand(f, r.fs, {}) /\ SameTexts(f, r.fs)
<1>1. CASE r = Failed(f)
  <2>1. r.fs = f
    BY <1>1, FailedIs
  <2> QED
    BY <2>1 DEF Stand, SameTexts
<1>2. CASE i \in Ids /\ n \in Names /\ CanRename(f.table, i, n) /\ r.id = i
           /\ Becomes(f, r.fs, Renamed(f.table, i, n), f.nf, i, f.text[i])
  <2> DEFINE tb == Renamed(f.table, i, n)
  <2>1. Sound(tb, f.nf) /\ OnlyAt(f.table, tb, i) /\ Graded(tb)
    BY <1>2, RenameSound, RenameGraded DEF Good
  <2>2. tb[i].used = f.table[i].used /\ tb[i].type = f.table[i].type /\ tb[i].size = f.table[i].size
    BY <1>2 DEF Renamed, Good, Sound, Table, Entries
  <2> HIDE DEF tb
  <2>3. Becomes(f, r.fs, tb, f.nf, i, f.text[i])
    BY <1>2 DEF tb
  <2> QED
    BY <1>2, <2>1, <2>2, <2>3, Moving
<1> QED
  BY <1>1, <1>2, RenameEffect

LEMMA MoveGood ==
  ASSUME NEW f, Good(f), NEW i, NEW p \in Ids \cup {FS_ROOT}, NEW r, r = FsMove(f, i, p)
  PROVE  Good(r.fs) /\ Stand(f, r.fs, {}) /\ SameTexts(f, r.fs)
<1>1. CASE r = Failed(f)
  <2>1. r.fs = f
    BY <1>1, FailedIs
  <2> QED
    BY <2>1 DEF Stand, SameTexts
<1>2. CASE i \in Ids /\ CanMove(f.table, i, p) /\ r.id = i
           /\ Becomes(f, r.fs, Moved(f.table, i, p), f.nf, i, f.text[i])
  <2> DEFINE tb == Moved(f.table, i, p)
  <2>1. Sound(tb, f.nf) /\ OnlyAt(f.table, tb, i) /\ Graded(tb)
    BY <1>2, MoveSound, MoveGraded DEF Good
  <2>2. tb[i].used = f.table[i].used /\ tb[i].type = f.table[i].type /\ tb[i].size = f.table[i].size
    BY <1>2 DEF Moved, Good, Sound, Table, Entries
  <2> HIDE DEF tb
  <2>3. Becomes(f, r.fs, tb, f.nf, i, f.text[i])
    BY <1>2 DEF tb
  <2> QED
    BY <1>2, <2>1, <2>2, <2>3, Moving
<1> QED
  BY <1>1, <1>2, MoveEffect

LEMMA WriteGood ==
  ASSUME NEW f, Good(f), NEW i, NEW t \in Texts \cup {""}, NEW r, r = FsWrite(f, i, t)
  PROVE  /\ Good(r.fs) /\ Stand(f, r.fs, {})
         /\ \/ r.id = -1 /\ r.fs = f /\ ~(i \in Ids /\ CanWrite(f.table, f.nf, i, SectorsOf(t)))
            \/ Rewritten(f, r, i, t)
<1> DEFINE len == SectorsOf(t)
<1>1. CASE r = Failed(f) /\ ~(i \in Ids /\ CanWrite(f.table, f.nf, i, len))
  <2>1. r.fs = f /\ r.id = -1
    BY <1>1, FailedIs
  <2> QED
    BY <1>1, <2>1 DEF Stand
<1>2. CASE i \in Ids /\ CanWrite(f.table, f.nf, i, len) /\ r.id = i
           /\ Becomes(f, r.fs, Written(f.table, f.nf, i, len), NextFree(f.table, f.nf, i, len), i, t)
  <2> DEFINE tb == Written(f.table, f.nf, i, len)
             nf == NextFree(f.table, f.nf, i, len)
  <2>0. len \in Nat
    BY DEF SectorsOf
  <2>1. Sound(tb, nf) /\ OnlyAt(f.table, tb, i) /\ Graded(tb)
    BY <1>2, <2>0, WriteSound, WriteGraded DEF Good
  <2>2. /\ tb[i].used = f.table[i].used /\ tb[i].type = f.table[i].type /\ tb[i].size = len
        /\ tb[i].parent = f.table[i].parent /\ tb[i].name = f.table[i].name
    <3>1. f.table \in Table /\ f.table[i] \in Entries
      BY <1>2 DEF Good, Sound, Table
    <3>2. tb[i].used = f.table[i].used /\ tb[i].parent = f.table[i].parent
      BY <1>2, <3>1 DEF Written, Table, Entries
    <3>3. tb[i].type = f.table[i].type /\ tb[i].name = f.table[i].name
      BY <1>2, <3>1 DEF Written, Table, Entries
    <3>4. tb[i].size = len
      BY <1>2, <3>1 DEF Written, Table, Entries
    <3> QED
      BY <3>2, <3>3, <3>4
  <2>3. Becomes(f, r.fs, tb, nf, i, t)
    BY <1>2
  <2>4. IsFile(f.table, i) /\ IsFile(tb, i)
    BY <1>2, <2>2 DEF CanWrite, IsFile
  <2> HIDE DEF tb, nf
  <2>5. Texted(r.fs)
    BY <1>2, <2>1, <2>2, <2>3, <2>4, TextedAt DEF Good
  <2>6. r.fs.table = tb /\ r.fs.nf = nf /\ r.fs \in FileSystems /\ r.fs.text[i] = t
    BY <2>3 DEF Becomes
  <2>7. Good(r.fs)
    BY <2>1, <2>5, <2>6 DEF Good
  <2>8. \A j \in Ids : j # i => r.fs.table[j] = f.table[j] /\ r.fs.text[j] = f.text[j]
    BY <2>1, <2>3, <2>6 DEF Becomes, OnlyAt
  <2>9. Stand(f, r.fs, {})
    BY <2>2, <2>6, <2>8 DEF Stand
  <2> QED
    BY <1>2, <2>2, <2>4, <2>6, <2>7, <2>8, <2>9 DEF IsFile, Rewritten, SameBut
<1> QED
  BY <1>1, <1>2, WriteEffect

-----------------------------------------------------------------------------
(* fs_copy is the recursion that it says it is.                            *)

\* What a call makes of a child of the folder it copies, with the calls below it.
ChildCopy(deeper, new, done, c) ==
  IF done.id < 0 THEN done
  ELSE AfterChild(deeper[Call(done.fs, c, new.id, done.fs.table[c].name)], new.id)

ChildCopies(deeper, new, i) ==
  [c \in Children(new.fs.table, i) |-> [done \in Results |-> ChildCopy(deeper, new, done, c)]]

CopyOf(deeper, depth, call) ==
  LET new == FsCreate(call.fs, call.new_parent, call.name, "folder")
  IN  IF \/ ~call.fs.table[call.id].used
         \/ ~ParentOk(call.fs.table, call.new_parent)
         \/ depth > MaxDepth
         \/ IsFolder(call.fs.table, call.id) /\ call.new_parent = call.id
      THEN Failed(call.fs)
      ELSE IF IsFile(call.fs.table, call.id)
      THEN CopyFile(call.fs, call.id, call.new_parent, call.name)
      ELSE IF new.id < 0 THEN new
      ELSE Each(ChildCopies(deeper, new, call.id), new)

Layer(deeper, depth) == [call \in Calls |-> CopyOf(deeper, depth, call)]

\* g is fs_copy_depth from depth m on.
Layers(m, g) == g = [depth \in m .. MaxDepth + 1 |-> Layer(g[depth + 1], depth)]

LEMMA CopyDepthIs == CopyDepth = CHOOSE g : Layers(0, g)
BY DEF CopyDepth, Layers, Layer, CopyOf, ChildCopies, ChildCopy

LEMMA DeepestFails ==
  ASSUME NEW deeper, NEW depth, depth > MaxDepth, NEW call
  PROVE  CopyOf(deeper, depth, call) = Failed(call.fs)
BY DEF CopyOf

LEMMA MoreLayers ==
  ASSUME NEW m \in 1 .. MaxDepth + 1, NEW g, Layers(m, g)
  PROVE  \E u : Layers(m - 1, u)
<1> DEFINE u == [d \in m - 1 .. MaxDepth + 1 |-> IF d = m - 1 THEN Layer(g[m], m - 1) ELSE g[d]]
<1>0. m \in Nat /\ MaxDepth \in Nat /\ m \in m .. MaxDepth + 1
  <2>1. MaxDepth \in Nat
    BY TreeCopyAssumption
  <2> HIDE DEF u
  <2> QED
    BY <2>1
<1>1. \A d \in m .. MaxDepth + 1 : u[d] = g[d]
  BY <1>0
<1>2. u[m - 1] = Layer(g[m], m - 1)
  BY <1>0
<1>3. \A d \in m .. MaxDepth + 1 : g[d] = Layer(g[d + 1], d)
  BY DEF Layers
<1>4. u = [d \in m - 1 .. MaxDepth + 1 |-> u[d]]
  OBVIOUS
<1> HIDE DEF u
<1>5. ASSUME NEW d \in m - 1 .. MaxDepth + 1 PROVE u[d] = Layer(u[d + 1], d)
  <2>1. CASE d = m - 1
    <3>1. u[m] = g[m] /\ d + 1 = m
      BY <1>0, <1>1, <2>1
    <3> QED
      BY <1>2, <2>1, <3>1
  <2>2. CASE d # m - 1 /\ d # MaxDepth + 1
    <3>1. d \in m .. MaxDepth + 1 /\ d + 1 \in m .. MaxDepth + 1
      BY <1>0, <2>2
    <3> QED
      BY <1>1, <1>3, <3>1
  <2>3. CASE d = MaxDepth + 1
    <3>1. d > MaxDepth /\ d \in m .. MaxDepth + 1
      BY <1>0, <2>3
    <3>2. \A call : CopyOf(g[d + 1], d, call) = CopyOf(u[d + 1], d, call)
      BY <3>1, DeepestFails
    <3>3. Layer(g[d + 1], d) = Layer(u[d + 1], d)
      BY <3>2 DEF Layer
    <3> QED
      BY <1>1, <1>3, <3>1, <3>3
  <2> QED
    BY <2>1, <2>2, <2>3
<1>6. Layers(m - 1, u)
  BY <1>4, <1>5 DEF Layers
<1> QED
  BY <1>6

\* What holds at the depth that gives up and is handed up holds at all depths.
LEMMA FromTheDeepest ==
  ASSUME NEW S, MaxDepth + 1 \in S, \A d \in 0 .. MaxDepth : d + 1 \in S => d \in S
  PROVE  \A d \in 0 .. MaxDepth + 1 : d \in S
<1> DEFINE I == {k \in 0 .. MaxDepth + 1 : MaxDepth + 1 - k \notin S}
<1>0. MaxDepth \in Nat
  BY TreeCopyAssumption
<1>1. \A d \in 0 .. MaxDepth + 1 : /\ MaxDepth + 1 - d \in 0 .. MaxDepth + 1
                                   /\ MaxDepth + 1 - (MaxDepth + 1 - d) = d
  BY <1>0
<1> SUFFICES ASSUME I # {} PROVE FALSE
  BY <1>1
<1>2. PICK k \in I : \A i \in I : k <= i
  <2>1. I \subseteq Nat
    BY <1>0
  <2> QED
    BY <2>1, SomeLeast
<1>3. k \in 0 .. MaxDepth + 1 /\ MaxDepth + 1 - k \notin S
  OBVIOUS
<1>4. k # 0
  BY <1>0, <1>3
<1>5. /\ k - 1 \in 0 .. MaxDepth + 1 /\ ~(k <= k - 1)
      /\ MaxDepth + 1 - (k - 1) = (MaxDepth + 1 - k) + 1 /\ MaxDepth + 1 - k \in 0 .. MaxDepth
  BY <1>0, <1>3, <1>4
<1>6. MaxDepth + 1 - (k - 1) \in S
  BY <1>2, <1>5
<1> HIDE DEF I
<1> QED
  BY <1>3, <1>5, <1>6

LEMMA Depths ==
  /\ 0 \in 0 .. MaxDepth + 1 /\ MaxDepth + 1 \in 0 .. MaxDepth + 1 /\ MaxDepth + 1 > MaxDepth
  /\ \A d \in 0 .. MaxDepth : d \in 0 .. MaxDepth + 1
<1>1. MaxDepth \in Nat
  BY TreeCopyAssumption
<1> QED
  BY <1>1

LEMMA Deeper ==
  ASSUME NEW d \in 0 .. MaxDepth + 1, ~(d > MaxDepth) PROVE d + 1 \in 0 .. MaxDepth + 1
<1>1. MaxDepth \in Nat
  BY TreeCopyAssumption
<1> QED
  BY <1>1

LEMMA LayersExist == \E g : Layers(0, g)
<1> DEFINE S == {d \in 0 .. MaxDepth + 1 : \E g : Layers(d, g)}
<1>0. MaxDepth \in Nat
  BY TreeCopyAssumption
<1>1. MaxDepth + 1 \in S
  <2> DEFINE M == MaxDepth + 1
             g == [d \in M .. M |-> [call \in Calls |-> Failed(call.fs)]]
  <2>1. \A d \in M .. M : d = M
    BY <1>0
  <2>2. M \in M .. M /\ M > MaxDepth /\ M \in 0 .. M
    BY <1>0
  <2>3. ASSUME NEW d \in M .. M PROVE g[d] = Layer(g[d + 1], d)
    <3>1. \A call : CopyOf(g[d + 1], d, call) = Failed(call.fs)
      BY <2>1, <2>2, DeepestFails
    <3>2. g[d] = [call \in Calls |-> Failed(call.fs)]
      OBVIOUS
    <3> HIDE DEF g
    <3> QED
      BY <3>1, <3>2 DEF Layer
  <2>4. g = [d \in M .. M |-> g[d]]
    OBVIOUS
  <2> HIDE DEF g
  <2>5. Layers(M, g)
    BY <2>3, <2>4 DEF Layers
  <2> QED
    BY <2>2, <2>5
<1>2. ASSUME NEW d \in 0 .. MaxDepth, d + 1 \in S PROVE d \in S
  <2>1. PICK g : Layers(d + 1, g)
    BY <1>2
  <2>2. d + 1 \in 1 .. MaxDepth + 1 /\ (d + 1) - 1 = d /\ d \in 0 .. MaxDepth + 1
    BY <1>0
  <2>3. \E u : Layers((d + 1) - 1, u)
    BY <2>1, <2>2, MoreLayers
  <2> QED
    BY <2>2, <2>3
<1> HIDE DEF S
<1>3. 0 \in S
  <2>1. \A d \in 0 .. MaxDepth + 1 : d \in S
    BY <1>1, <1>2, FromTheDeepest
  <2> QED
    BY <1>0, <2>1
<1> QED
  BY <1>3 DEF S

LEMMA CopyUnfolds ==
  ASSUME NEW depth \in 0 .. MaxDepth + 1, NEW call \in Calls
  PROVE  CopyDepth[depth][call] = CopyOf(CopyDepth[depth + 1], depth, call)
<1>1. Layers(0, CopyDepth)
  BY CopyDepthIs, LayersExist
<1>2. CopyDepth[depth] = Layer(CopyDepth[depth + 1], depth)
  BY <1>1 DEF Layers
<1> QED
  BY <1>2 DEF Layer

-----------------------------------------------------------------------------
(* A copy, complete or not, leaves a file system in order in which all that *)
(* was there is there.                                                      *)

LEMMA PairIs ==
  ASSUME NEW r, (\E g, i : r = Made(g, i)) \/ (\E g : r = Failed(g)),
         r.fs \in FileSystems, r.id \in Ids \cup {-1}
  PROVE  r \in Results
<1>1. r = [fs |-> r.fs, id |-> r.id]
  BY DEF Made, Failed
<1> QED
  BY <1>1 DEF Results

LEMMA NoneIsNegative == -1 < 0 /\ -1 \notin Ids /\ \A i \in Ids : i \in Int /\ ~(i < 0) /\ i >= 0
BY FileTableAssumption DEF Ids

LEMMA KeepsChain ==
  ASSUME NEW f, NEW g, NEW h, Keeps(f, g), Keeps(g, h) PROVE Keeps(f, h)
BY DEF Keeps

LEMMA CreateResult ==
  ASSUME NEW f, Good(f), NEW p \in Ids \cup {FS_ROOT}, NEW n, NEW ty \in {"file", "folder"},
         NEW r, r = FsCreate(f, p, n, ty)
  PROVE  /\ r \in Results /\ Good(r.fs) /\ Keeps(f, r.fs)
         /\ (r.id = -1 /\ r.fs = f) \/ Copied(f, r, p, n, ty)
<1>1. (\E g, i : r = Made(g, i)) \/ (\E g : r = Failed(g))
  BY DEF FsCreate
<1>2. /\ Good(r.fs) /\ Keeps(f, r.fs)
      /\ (r.id = -1 /\ r.fs = f) \/ Copied(f, r, p, n, ty)
  BY CreateGood
<1>3. r.fs \in FileSystems /\ r.id \in Ids \cup {-1}
  BY <1>2 DEF Good, Copied
<1> QED
  BY <1>1, <1>2, <1>3, PairIs

FileCopied(f, r, i, p, n) ==
  /\ r \in Results /\ Good(r.fs) /\ Keeps(f, r.fs)
  /\ r.id = -1 \/ (/\ Copied(f, r, p, n, "file") /\ r.fs.text[r.id] = f.text[i]
                  /\ SameBut(f, r.fs, r.id))

LEMMA CopyFileGood ==
  ASSUME NEW f, Good(f), NEW i \in Ids, IsFile(f.table, i), NEW p \in Ids \cup {FS_ROOT}, NEW n,
         NEW r, r = CopyFile(f, i, p, n)
  PROVE  FileCopied(f, r, i, p, n)
<1> DEFINE new == FsCreate(f, p, n, "file")
           t == f.text[i]
           written == FsWrite(new.fs, new.id, t)
           undone == FsDelete(new.fs, new.id)
<1>0. t \in Texts \cup {""}
  BY Fields DEF Good
<1>1. /\ new \in Results /\ Good(new.fs) /\ Keeps(f, new.fs)
      /\ (new.id = -1 /\ new.fs = f) \/ Copied(f, new, p, n, "file")
  BY CreateResult
<1>2. Copied(f, new, p, n, "file") => new.fs.text[new.id] = "" /\ SameBut(f, new.fs, new.id)
  <2>1. new.id = -1 \/ (new.fs.text[new.id] = "" /\ SameBut(f, new.fs, new.id))
    BY CreateGood
  <2> QED
    BY <2>1, NoneIsNegative DEF Copied
<1>3. r = IF new.id < 0 \/ t = "" THEN new
          ELSE IF written.id < 0 THEN Failed(undone.fs) ELSE written
  BY DEF CopyFile
<1> HIDE DEF new
<1>4. CASE new.id < 0
  <2>1. r = new /\ new.id = -1
    BY <1>1, <1>3, <1>4, NoneIsNegative DEF Copied
  <2> QED
    BY <1>1, <2>1 DEF FileCopied
<1>5. CASE ~(new.id < 0) /\ t = ""
  <2>1. r = new /\ Copied(f, new, p, n, "file")
    BY <1>1, <1>3, <1>5, NoneIsNegative
  <2> QED
    BY <1>1, <1>2, <1>5, <2>1 DEF FileCopied
<1>6. CASE ~(new.id < 0) /\ t # ""
  <2>1. Copied(f, new, p, n, "file")
    BY <1>1, <1>6, NoneIsNegative
  <2>2. CASE written.id < 0
    <3>1. r = Failed(undone.fs)
      BY <1>3, <1>6, <2>2
    <3>2. r.fs = undone.fs /\ r.id = -1
      BY <3>1, FailedIs
    <3>3. Good(undone.fs) /\ SameBut(new.fs, undone.fs, new.id)
      BY <1>1, DeleteGood
    <3> HIDE DEF undone
    <3>4. Keeps(f, undone.fs)
      BY <1>1, <2>1, <3>3 DEF Keeps, Copied, SameBut
    <3>5. r \in Results
      BY <3>1, <3>2, <3>3, PairIs DEF Good
    <3> QED
      BY <3>2, <3>3, <3>4, <3>5 DEF FileCopied
  <2>3. CASE ~(written.id < 0)
    <3>1. r = written
      BY <1>3, <1>6, <2>3
    <3>2. /\ Good(written.fs)
          /\ written.id = -1 \/ Rewritten(new.fs, written, new.id, t)
      <4> HIDE DEF t
      <4> QED
        BY <1>0, <1>1, WriteGood
    <3>3. (\E g, j : written = Made(g, j)) \/ (\E g : written = Failed(g))
      BY DEF FsWrite
    <3> HIDE DEF written
    <3>4. Copied(f, written, p, n, "file") /\ written.fs.text[new.id] = t /\ written.id = new.id
      BY <2>1, <2>3, <3>2, NoneIsNegative DEF Copied, Rewritten
    <3>5. Keeps(f, written.fs)
      BY <1>1, <2>1, <2>3, <3>2, NoneIsNegative DEF Keeps, Copied, Rewritten, SameBut
    <3>6. written \in Results
      BY <3>2, <3>3, <3>4, PairIs DEF Good, Copied
    <3>7. SameBut(f, written.fs, written.id)
      BY <1>2, <2>1, <2>3, <3>2, NoneIsNegative DEF Rewritten, SameBut
    <3> QED
      BY <3>1, <3>2, <3>4, <3>5, <3>6, <3>7 DEF FileCopied
  <2> QED
    BY <2>2, <2>3
<1> QED
  BY <1>4, <1>5, <1>6

\* What is known of a copy.
FaithfulCall(call, r) ==
  /\ r \in Results /\ Good(r.fs) /\ Keeps(call.fs, r.fs)
  /\ \/ r.id = -1
     \/ Copied(call.fs, r, call.new_parent, call.name, call.fs.table[call.id].type)

CopiesAt(depth) ==
  \A call \in Calls : Good(call.fs) => FaithfulCall(call, CopyDepth[depth][call])

LEMMA CallIs ==
  ASSUME NEW f \in FileSystems, NEW i \in Ids, NEW p \in Ids \cup {FS_ROOT},
         NEW n \in Names \cup {""}
  PROVE  Call(f, i, p, n) \in Calls
BY DEF Call, Calls

LEMMA CallHolds ==
  \A f, i, p, n : /\ Call(f, i, p, n).fs = f /\ Call(f, i, p, n).id = i
                  /\ Call(f, i, p, n).new_parent = p /\ Call(f, i, p, n).name = n
BY DEF Call

LEMMA CallFields ==
  ASSUME NEW call \in Calls
  PROVE  /\ call.fs \in FileSystems /\ call.id \in Ids
         /\ call.new_parent \in Ids \cup {FS_ROOT} /\ call.name \in Names \cup {""}
BY DEF Calls

\* What the copy of a child may turn done into.
Goes(new, done, s) ==
  /\ s \in Results /\ Good(s.fs) /\ Keeps(done.fs, s.fs)
  /\ s.id = -1 \/ s.id = new.id \/ s = done

\* A child copied into the new folder, and what the folder's copy makes of it.
LEMMA ChildGood ==
  ASSUME NEW depth, CopiesAt(depth + 1), NEW done \in Results, Good(done.fs),
         NEW new, new.id \in Ids, NEW c \in Ids,
         NEW s, s = ChildCopy(CopyDepth[depth + 1], new, done, c)
  PROVE  Goes(new, done, s)
<1>1. CASE done.id < 0
  BY <1>1 DEF ChildCopy, Keeps, Goes
<1>2. CASE ~(done.id < 0)
  <2> DEFINE call == Call(done.fs, c, new.id, done.fs.table[c].name)
             r == CopyDepth[depth + 1][call]
  <2>1. call \in Calls /\ call.fs = done.fs
    <3>1. done.fs \in FileSystems /\ done.fs.table[c].name \in Names \cup {""}
      BY DEF Good, Sound, Table, Entries
    <3>2. new.id \in Ids \cup {FS_ROOT}
      OBVIOUS
    <3>3. call.fs = done.fs
      BY CallHolds
    <3>4. call \in Calls
      BY <3>1, <3>2, CallIs
    <3> QED
      BY <3>3, <3>4
  <2>2. s = AfterChild(r, new.id)
    BY <1>2 DEF ChildCopy
  <2> HIDE DEF call
  <2>3. FaithfulCall(call, r)
    BY <2>1 DEF CopiesAt
  <2> HIDE DEF r
  <2>4. s = Failed(r.fs) \/ s = Made(r.fs, new.id)
    BY <2>2 DEF AfterChild
  <2>5. s.fs = r.fs /\ (s.id = -1 \/ s.id = new.id)
    BY <2>4, FailedIs, MadeIs
  <2>6. r.fs \in FileSystems
    BY <2>3 DEF FaithfulCall, Good
  <2>7. s \in Results
    BY <2>4, <2>5, <2>6, PairIs
  <2> QED
    BY <2>1, <2>3, <2>5, <2>7 DEF FaithfulCall, Goes
<1> QED
  BY <1>1, <1>2

LEMMA CopyGood ==
  ASSUME NEW depth \in 0 .. MaxDepth + 1, depth > MaxDepth \/ CopiesAt(depth + 1)
  PROVE  CopiesAt(depth)
<1> SUFFICES ASSUME NEW call \in Calls, Good(call.fs)
             PROVE  FaithfulCall(call, CopyDepth[depth][call])
  BY DEF CopiesAt
<1> DEFINE fs0 == call.fs
           i == call.id
           p == call.new_parent
           n == call.name
           deeper == CopyDepth[depth + 1]
           new == FsCreate(fs0, p, n, "folder")
           r == CopyDepth[depth][call]
<1>1. fs0 \in FileSystems /\ i \in Ids /\ p \in Ids \cup {FS_ROOT} /\ n \in Names \cup {""}
  BY CallFields
<1>2. r = CopyOf(deeper, depth, call)
  BY CopyUnfolds
<1>3. \/ r = Failed(fs0)
      \/ fs0.table[i].used /\ IsFile(fs0.table, i) /\ r = CopyFile(fs0, i, p, n)
      \/ new.id < 0 /\ r = new
      \/ /\ ~(depth > MaxDepth) /\ fs0.table[i].used /\ ~IsFile(fs0.table, i) /\ ~(new.id < 0)
         /\ r = Each(ChildCopies(deeper, new, i), new)
  BY <1>2 DEF CopyOf
<1>4. fs0.table[i].used => fs0.table[i].type \in {"file", "folder"}
  BY <1>1 DEF FileSystems, Entries
<1> HIDE DEF r
<1>5. CASE r = Failed(fs0)
  <2>1. r.fs = fs0 /\ r.id = -1
    BY <1>5, FailedIs
  <2>2. r \in Results
    BY <1>1, <1>5, <2>1, PairIs
  <2> QED
    BY <2>1, <2>2 DEF FaithfulCall, Keeps, r
<1>6. CASE fs0.table[i].used /\ IsFile(fs0.table, i) /\ r = CopyFile(fs0, i, p, n)
  <2>1. FileCopied(fs0, r, i, p, n)
    BY <1>1, <1>6, CopyFileGood
  <2>2. fs0.table[i].type = "file"
    BY <1>6 DEF IsFile
  <2> QED
    BY <2>1, <2>2 DEF FaithfulCall, FileCopied, r
<1>7. /\ new \in Results /\ Good(new.fs) /\ Keeps(fs0, new.fs)
      /\ (new.id = -1 /\ new.fs = fs0) \/ Copied(fs0, new, p, n, "folder")
  BY <1>1, CreateResult
<1> HIDE DEF new
<1>8. CASE new.id < 0 /\ r = new
  <2>1. new.id = -1
    BY <1>7, <1>8, NoneIsNegative DEF Copied
  <2> QED
    BY <1>7, <1>8, <2>1 DEF FaithfulCall, r
<1>9. CASE /\ ~(depth > MaxDepth) /\ fs0.table[i].used /\ ~IsFile(fs0.table, i) /\ ~(new.id < 0)
           /\ r = Each(ChildCopies(deeper, new, i), new)
  <2> DEFINE I == {s \in Results : /\ Good(s.fs) /\ Keeps(new.fs, s.fs)
                                   /\ s.id = -1 \/ s.id = new.id}
             step == ChildCopies(deeper, new, i)
  <2>1. Copied(fs0, new, p, n, "folder") /\ fs0.table[i].type = "folder"
    BY <1>4, <1>7, <1>9, NoneIsNegative DEF IsFile
  <2>2. new.id \in Ids
    BY <2>1 DEF Copied
  <2>3. new \in I
    BY <1>7 DEF Keeps
  <2>4. ASSUME NEW c \in Ids, c \in DOMAIN step, NEW s \in I PROVE step[c][s] \in I
    <3> DEFINE t == ChildCopy(deeper, new, s, c)
    <3>1. step[c][s] = t
      BY <2>4 DEF ChildCopies
    <3>2. s \in Results /\ Good(s.fs) /\ Keeps(new.fs, s.fs) /\ (s.id = -1 \/ s.id = new.id)
      OBVIOUS
    <3>3. Goes(new, s, t)
      BY <1>9, <2>2, <3>2, ChildGood
    <3> HIDE DEF t, step
    <3>4. t \in Results /\ Good(t.fs) /\ Keeps(s.fs, t.fs) /\ (t.id = -1 \/ t.id = new.id)
      BY <3>2, <3>3 DEF Goes
    <3>5. Keeps(new.fs, t.fs)
      BY <3>2, <3>4, KeepsChain
    <3> QED
      BY <3>1, <3>4, <3>5
  <2> HIDE DEF step, I
  <2>5. Each(step, new) \in I
    BY <2>3, <2>4, EachStays
  <2>6. r \in I
    BY <1>9, <2>5 DEF step
  <2>7. /\ r \in Results /\ Good(r.fs) /\ Keeps(new.fs, r.fs)
        /\ r.id = -1 \/ r.id = new.id
    BY <2>6 DEF I
  <2>8. Keeps(fs0, r.fs)
    BY <1>7, <2>7, KeepsChain
  <2>9. r.id = new.id => Copied(fs0, r, p, n, "folder")
    BY <2>1, <2>7 DEF Copied, Keeps
  <2> QED
    BY <2>1, <2>7, <2>8, <2>9 DEF FaithfulCall, r
<1> QED
  BY <1>3, <1>5, <1>6, <1>8, <1>9

LEMMA AllCopiesFaithful == \A d \in 0 .. MaxDepth + 1 : CopiesAt(d)
<1> DEFINE S == {d \in 0 .. MaxDepth + 1 : CopiesAt(d)}
<1>1. MaxDepth + 1 \in S
  <2>1. CopiesAt(MaxDepth + 1)
    BY Depths, CopyGood
  <2> QED
    BY <2>1, Depths
<1>2. ASSUME NEW d \in 0 .. MaxDepth, d + 1 \in S PROVE d \in S
  <2>1. d \in 0 .. MaxDepth + 1
    BY Depths
  <2>2. CopiesAt(d + 1)
    BY <1>2
  <2>3. CopiesAt(d)
    BY <2>1, <2>2, CopyGood
  <2> QED
    BY <2>1, <2>3
<1> HIDE DEF S
<1>3. \A d \in 0 .. MaxDepth + 1 : d \in S
  BY <1>1, <1>2, FromTheDeepest
<1> QED
  BY <1>3 DEF S

LEMMA CopiesAreFaithful ==
  ASSUME NEW f, Good(f), NEW i, NEW p \in Ids \cup {FS_ROOT}, NEW n \in Names \cup {""},
         NEW r, r = FsCopy(f, i, p, n)
  PROVE  /\ r \in Results /\ Good(r.fs) /\ Keeps(f, r.fs)
         /\ r.id = -1 \/ (i \in Ids /\ Copied(f, r, p, n, f.table[i].type))
<1>1. CASE i \notin Ids
  <2>1. r = Failed(f)
    BY <1>1 DEF FsCopy
  <2>2. r.fs = f /\ r.id = -1
    BY <2>1, FailedIs
  <2>3. r \in Results
    BY <2>1, <2>2, PairIs DEF Good
  <2> QED
    BY <2>2, <2>3 DEF Keeps
<1>2. CASE i \in Ids
  <2> DEFINE call == Call(f, i, p, n)
  <2>4. call \in Calls
    BY <1>2, CallIs DEF Good
  <2>5. call.fs = f /\ call.id = i /\ call.new_parent = p /\ call.name = n
    BY DEF Call
  <2>6. r = CopyDepth[0][call]
    BY <1>2 DEF FsCopy
  <2> HIDE DEF call
  <2>7. FaithfulCall(call, r)
    BY <2>4, <2>5, <2>6, AllCopiesFaithful, Depths DEF CopiesAt
  <2> QED
    BY <1>2, <2>5, <2>7 DEF FaithfulCall
<1> QED
  BY <1>1, <1>2

LEMMA CopyToGood ==
  ASSUME NEW f, Good(f), NEW i, NEW p \in Ids \cup {FS_ROOT}, NEW r, r = FsCopyTo(f, i, p)
  PROVE  /\ r \in Results /\ Good(r.fs) /\ Keeps(f, r.fs)
         /\ r.id = -1 \/ (i \in Ids /\ Copied(f, r, p, f.table[i].name, f.table[i].type))
<1>1. CASE i \in Ids /\ f.table[i].used
  <2>1. f.table[i].name \in Names \cup {""}
    BY <1>1 DEF Good, Sound, Table, Entries
  <2>2. r = FsCopy(f, i, p, f.table[i].name)
    BY <1>1 DEF FsCopyTo
  <2> QED
    BY <2>1, <2>2, CopiesAreFaithful
<1>2. CASE ~(i \in Ids /\ f.table[i].used)
  <2>1. r = Failed(f)
    BY <1>2 DEF FsCopyTo
  <2>2. r.fs = f /\ r.id = -1
    BY <2>1, FailedIs
  <2>3. r \in Results
    BY <2>1, <2>2, PairIs DEF Good
  <2> QED
    BY <2>2, <2>3 DEF Keeps
<1> QED
  BY <1>1, <1>2

-----------------------------------------------------------------------------
(* The tree below an entry, child by child.                                *)

LEMMA PathIs ==
  ASSUME NEW tb, NEW nf, Sound(tb, nf), Graded(tb), NEW j \in Ids, tb[j].used, NEW i \in Ids,
         NEW k \in 0 .. FS_MAX_ENTRIES, Up(tb, j)[k] = i
  PROVE  PathFrom(tb, i, j) = [m \in 1 .. k |-> tb[Up(tb, j)[k - m]].name]
<1> DEFINE w == Up(tb, j)
           d == CHOOSE x \in 0 .. FS_MAX_ENTRIES : w[x] = i
<1>1. PICK rank : Ranks(tb, rank)
  BY DEF Graded
<1>2. d \in 0 .. FS_MAX_ENTRIES /\ w[d] = i
  OBVIOUS
<1>3. PathFrom(tb, i, j) = [m \in 1 .. d |-> tb[w[d - m]].name]
  BY DEF PathFrom
<1> HIDE DEF d
<1>4. i # FS_ROOT /\ rank[i] \in Nat
  BY <1>1, RootIsNoEntry DEF Ranks
<1>5. ~(d < k) /\ ~(k < d)
  <2>1. ~(d < k)
    <3> SUFFICES ASSUME d < k PROVE FALSE
      OBVIOUS
    <3>1. rank[Up(tb, j)[k]] < rank[Up(tb, j)[d]]
      BY <1>1, <1>2, <1>4, RanksFall
    <3> QED
      BY <1>2, <1>4, <3>1
  <2>2. ~(k < d)
    <3> SUFFICES ASSUME k < d PROVE FALSE
      OBVIOUS
    <3>1. rank[Up(tb, j)[d]] < rank[Up(tb, j)[k]]
      BY <1>1, <1>2, <1>4, RanksFall
    <3> QED
      BY <1>2, <1>4, <3>1
  <2> QED
    BY <2>1, <2>2
<1>6. d = k
  BY <1>2, <1>5, FileTableAssumption
<1> QED
  BY <1>3, <1>6

EmptyPath == [m \in {} |-> ""]

\* The path that goes by n first.
Longer(n, path) ==
  [m \in {1} \cup {x + 1 : x \in DOMAIN path} |-> IF m = 1 THEN n ELSE path[m - 1]]

LEMMA PathToItself ==
  ASSUME NEW tb, NEW nf, Sound(tb, nf), Graded(tb), NEW i \in Ids, tb[i].used
  PROVE  PathFrom(tb, i, i) = EmptyPath
<1>1. 0 \in 0 .. FS_MAX_ENTRIES /\ Up(tb, i)[0] = i
  BY UpSteps, FileTableAssumption
<1>2. PathFrom(tb, i, i) = [m \in 1 .. 0 |-> tb[Up(tb, i)[0 - m]].name]
  BY <1>1, PathIs
<1>3. 1 .. 0 = {}
  OBVIOUS
<1> QED
  BY <1>2, <1>3 DEF EmptyPath

LEMMA LongerPath ==
  ASSUME NEW tb, NEW nf, Sound(tb, nf), Graded(tb), NEW j \in Ids, tb[j].used, NEW i \in Ids,
         NEW c \in Children(tb, i), On(tb, j, c)
  PROVE  PathFrom(tb, i, j) = Longer(tb[c].name, PathFrom(tb, c, j))
<1>1. c \in Ids /\ tb[c].parent = i /\ c # FS_ROOT
  BY RootIsNoEntry DEF Children
<1>2. PICK k \in 0 .. FS_MAX_ENTRIES : Up(tb, j)[k] = c
  BY DEF On
<1>3. k \in 0 .. FS_MAX_ENTRIES - 1
  BY <1>1, <1>2, ShortOfTheRoot
<1>4. k \in Nat /\ k + 1 \in 0 .. FS_MAX_ENTRIES /\ k + 1 \in 1 .. FS_MAX_ENTRIES /\ (k + 1) - 1 = k
  BY <1>3, FileTableAssumption
<1> DEFINE w == Up(tb, j)
           near == [m \in 1 .. k |-> tb[w[k - m]].name]
           far == [m \in 1 .. k + 1 |-> tb[w[k + 1 - m]].name]
<1>5. w[k + 1] = i
  <2>1. w[k + 1] = Above(tb, w[k])
    BY <1>4, UpSteps
  <2> QED
    BY <1>1, <1>2, <2>1 DEF Above
<1>6. PathFrom(tb, c, j) = near
  BY <1>1, <1>2, PathIs
<1>7. PathFrom(tb, i, j) = far
  BY <1>4, <1>5, PathIs
<1>8. far = Longer(tb[c].name, near)
  <2> DEFINE D == {1} \cup {x + 1 : x \in 1 .. k}
  <2>1. D = 1 .. k + 1
    <3>1. ASSUME NEW m \in 1 .. k + 1, m # 1 PROVE m - 1 \in 1 .. k /\ (m - 1) + 1 = m
      BY <1>4, <3>1
    <3>2. 1 .. k + 1 \subseteq D
      BY <3>1
    <3>3. D \subseteq 1 .. k + 1
      BY <1>4
    <3> QED
      BY <3>2, <3>3
  <2>2. DOMAIN near = 1 .. k
    OBVIOUS
  <2>3. ASSUME NEW m \in 1 .. k + 1
        PROVE  tb[w[k + 1 - m]].name = IF m = 1 THEN tb[c].name ELSE near[m - 1]
    <3>1. CASE m = 1
      <4>1. k + 1 - m = k
        BY <1>4, <3>1
      <4> QED
        BY <1>2, <3>1, <4>1
    <3>2. CASE m # 1
      <4>1. m - 1 \in 1 .. k /\ k - (m - 1) = k + 1 - m
        BY <1>4, <3>2
      <4>2. near[m - 1] = tb[w[k - (m - 1)]].name
        BY <4>1
      <4> HIDE DEF near, w
      <4> QED
        BY <3>2, <4>1, <4>2
    <3> QED
      BY <3>1, <3>2
  <2> HIDE DEF near, w, D
  <2>4. Longer(tb[c].name, near) = [m \in D |-> IF m = 1 THEN tb[c].name ELSE near[m - 1]]
    BY <2>2 DEF Longer, D
  <2> QED
    BY <2>1, <2>3, <2>4
<1> HIDE DEF near, far
<1> QED
  BY <1>6, <1>7, <1>8

\* What Tree says of entry j.
Node(f, i, j) == <<PathFrom(f.table, i, j), f.table[j].type, f.text[j]>>

Under(n, T) == {<<Longer(n, t[1]), t[2], t[3]>> : t \in T}

Branch(f, c) == Under(f.table[c].name, Tree(f, c))

Branches(f, i) == UNION {Branch(f, c) : c \in Children(f.table, i)}

Top(f, i) == <<EmptyPath, f.table[i].type, f.text[i]>>

LEMMA BelowIs ==
  ASSUME NEW tb, NEW i PROVE Below(tb, i) = {j \in Ids : tb[j].used /\ On(tb, j, i)}
BY DEF Below, On

LEMMA TreeIs ==
  ASSUME NEW f, NEW i PROVE Tree(f, i) = {Node(f, i, j) : j \in Below(f.table, i)}
BY DEF Tree, Node

LEMMA BranchNode ==
  ASSUME NEW f, Good(f), NEW i \in Ids, NEW c \in Children(f.table, i),
         NEW j \in Ids, f.table[j].used, On(f.table, j, c)
  PROVE  Node(f, i, j) = <<Longer(f.table[c].name, Node(f, c, j)[1]), Node(f, c, j)[2], Node(f, c, j)[3]>>
<1>1. PathFrom(f.table, i, j) = Longer(f.table[c].name, PathFrom(f.table, c, j))
  BY LongerPath DEF Good
<1> QED
  BY <1>1 DEF Node

LEMMA TreeUnfolds ==
  ASSUME NEW f, Good(f), NEW i \in Ids, f.table[i].used
  PROVE  Tree(f, i) = {Top(f, i)} \cup Branches(f, i)
<1> DEFINE tb == f.table
<1>0. Sound(tb, f.nf) /\ Graded(tb)
  BY DEF Good
<1>1. Node(f, i, i) = Top(f, i)
  BY <1>0, PathToItself DEF Node, Top
<1>2. ASSUME NEW j \in Below(tb, i) PROVE Node(f, i, j) \in {Top(f, i)} \cup Branches(f, i)
  <2>1. j \in Ids /\ tb[j].used /\ On(tb, j, i)
    BY BelowIs
  <2>2. CASE j = i
    BY <1>1, <2>2
  <2>3. CASE j # i
    <3>1. PICK c \in Children(tb, i) : On(tb, j, c)
      BY <1>0, <2>1, <2>3, OnChild
    <3>2. j \in Below(tb, c)
      BY <2>1, <3>1, BelowIs
    <3>3. Node(f, c, j) \in Tree(f, c)
      BY <3>2, TreeIs
    <3>4. Node(f, i, j) \in Branch(f, c)
      BY <2>1, <3>1, <3>3, BranchNode DEF Branch, Under
    <3> QED
      BY <3>4 DEF Branches
  <2> QED
    BY <2>2, <2>3
<1>3. Top(f, i) \in Tree(f, i)
  <2>1. i \in Below(tb, i)
    BY OnItself, BelowIs
  <2> QED
    BY <1>1, <2>1, TreeIs
<1>4. ASSUME NEW x \in Branches(f, i) PROVE x \in Tree(f, i)
  <2>1. PICK c \in Children(tb, i) : x \in Branch(f, c)
    BY DEF Branches
  <2>2. PICK t \in Tree(f, c) : x = <<Longer(tb[c].name, t[1]), t[2], t[3]>>
    BY <2>1 DEF Branch, Under
  <2>3. PICK j \in Below(tb, c) : t = Node(f, c, j)
    BY TreeIs
  <2>4. j \in Ids /\ tb[j].used /\ On(tb, j, c)
    BY BelowIs
  <2>5. x = Node(f, i, j)
    BY <2>2, <2>3, <2>4, BranchNode
  <2>6. c \in Ids /\ On(tb, c, i)
    BY <1>0, ChildOn
  <2>7. On(tb, j, i)
    BY <1>0, <2>4, <2>6, OnAndOn
  <2>8. j \in Below(tb, i)
    BY <2>4, <2>7, BelowIs
  <2> QED
    BY <2>5, <2>8, TreeIs
<1> QED
  BY <1>2, <1>3, <1>4, TreeIs

\* A tree to which nothing is added stays.
LEMMA TreeStays ==
  ASSUME NEW f, Good(f), NEW g, Good(g), Keeps(f, g), NEW c \in Ids, f.table[c].used,
         \A j \in Ids : g.table[j].used /\ On(g.table, j, c) => f.table[j].used
  PROVE  Tree(g, c) = Tree(f, c)
<1> DEFINE tb == f.table
           tb2 == g.table
<1>0. /\ Sound(tb, f.nf) /\ Graded(tb) /\ Sound(tb2, g.nf) /\ Graded(tb2)
      /\ StaysIn(tb, tb2)
  BY DEF Good, Keeps, StaysIn
<1>1. \A j \in Ids : tb[j].used => tb2[j] = tb[j] /\ g.text[j] = f.text[j]
  BY DEF Keeps
<1>2. Below(tb2, c) = Below(tb, c)
  <2>1. \A j \in Ids : tb[j].used => (On(tb2, j, c) <=> On(tb, j, c))
    BY <1>0, OnStays
  <2>2. \A j \in Ids : (tb2[j].used /\ On(tb2, j, c)) <=> (tb[j].used /\ On(tb, j, c))
    BY <1>1, <2>1
  <2> QED
    BY <2>2, BelowIs
<1>3. ASSUME NEW j \in Below(tb, c) PROVE Node(g, c, j) = Node(f, c, j)
  <2>1. j \in Ids /\ tb[j].used /\ On(tb, j, c)
    BY BelowIs
  <2>2. PICK k \in 0 .. FS_MAX_ENTRIES : Up(tb, j)[k] = c
    BY <2>1 DEF On
  <2>3. \A m \in 0 .. FS_MAX_ENTRIES : Up(tb2, j)[m] = Up(tb, j)[m]
    BY <1>0, <2>1, UpStays
  <2>4. tb2[j] = tb[j] /\ tb2[j].used /\ g.text[j] = f.text[j]
    BY <1>1, <2>1
  <2>5. PathFrom(tb, c, j) = [m \in 1 .. k |-> tb[Up(tb, j)[k - m]].name]
    BY <1>0, <2>1, <2>2, PathIs
  <2>6. PathFrom(tb2, c, j) = [m \in 1 .. k |-> tb2[Up(tb2, j)[k - m]].name]
    <3>1. Up(tb2, j)[k] = c
      BY <2>2, <2>3
    <3> HIDE DEF tb, tb2
    <3> QED
      BY <1>0, <2>1, <2>4, <3>1, PathIs
  <2>7. ASSUME NEW m \in 1 .. k PROVE tb2[Up(tb2, j)[k - m]].name = tb[Up(tb, j)[k - m]].name
    <3>1. k - m \in 0 .. FS_MAX_ENTRIES /\ k \in k - m .. FS_MAX_ENTRIES
      BY FileTableAssumption
    <3>2. Up(tb, j)[k - m] # FS_ROOT
      BY <2>2, <3>1, RootIsLast, RootIsNoEntry
    <3>3. Up(tb, j)[k - m] \in Ids /\ tb[Up(tb, j)[k - m]].used
      BY <1>0, <2>1, <3>1, <3>2, WalkStays
    <3> QED
      BY <1>1, <2>3, <3>1, <3>3
  <2>8. PathFrom(tb2, c, j) = PathFrom(tb, c, j)
    BY <2>5, <2>6, <2>7
  <2> QED
    BY <2>4, <2>8 DEF Node
<1> HIDE DEF tb, tb2
<1>4. Tree(g, c) = {Node(g, c, j) : j \in Below(tb2, c)} /\ Tree(f, c) = {Node(f, c, j) : j \in Below(tb, c)}
  BY TreeIs DEF tb, tb2
<1> QED
  BY <1>2, <1>3, <1>4

-----------------------------------------------------------------------------
(* A folder cannot be copied into what lies below it.                      *)

\* The call is to copy an entry into itself or below.
IntoItself(call) ==
  call.new_parent \in Ids /\ On(call.fs.table, call.new_parent, call.id)

FailsAt(depth) ==
  \A call \in Calls : Good(call.fs) /\ IntoItself(call) => CopyDepth[depth][call].id = -1

NewFolder(call) == FsCreate(call.fs, call.new_parent, call.name, "folder")

\* The way through the body of fs_copy_depth.
Fails(call, r) == r = Failed(call.fs)

CopiesFile(call, r) ==
  /\ call.fs.table[call.id].used /\ IsFile(call.fs.table, call.id)
  /\ ParentOk(call.fs.table, call.new_parent)
  /\ r = CopyFile(call.fs, call.id, call.new_parent, call.name)

NoFolder(call, r) == NewFolder(call).id < 0 /\ r = NewFolder(call)

CopiesFolder(call, deeper, r) ==
  /\ IsFolder(call.fs.table, call.id) /\ ParentOk(call.fs.table, call.new_parent)
  /\ call.new_parent # call.id /\ ~(NewFolder(call).id < 0)
  /\ r = Each(ChildCopies(deeper, NewFolder(call), call.id), NewFolder(call))

LEMMA WaysOfCopy ==
  ASSUME NEW depth \in 0 .. MaxDepth + 1, NEW call \in Calls, NEW r, r = CopyDepth[depth][call]
  PROVE  \/ Fails(call, r) \/ CopiesFile(call, r) \/ NoFolder(call, r)
         \/ ~(depth > MaxDepth) /\ CopiesFolder(call, CopyDepth[depth + 1], r)
<1>1. r = CopyOf(CopyDepth[depth + 1], depth, call)
  BY CopyUnfolds
<1>2. call.fs.table[call.id].type \in {"file", "folder"}
  <2>1. call.fs \in FileSystems /\ call.id \in Ids
    BY CallFields
  <2> QED
    BY <2>1 DEF FileSystems, Entries
<1> QED
  BY <1>1, <1>2 DEF CopyOf, Fails, CopiesFile, NoFolder, CopiesFolder, NewFolder, IsFile, IsFolder

\* What the folder made for the copy is.
LEMMA NewFolderIs ==
  ASSUME NEW call \in Calls, Good(call.fs), NEW new, new = NewFolder(call), ~(new.id < 0)
  PROVE  /\ new \in Results /\ Good(new.fs) /\ Keeps(call.fs, new.fs) /\ SameBut(call.fs, new.fs, new.id)
         /\ Copied(call.fs, new, call.new_parent, call.name, "folder") /\ new.id \in Ids
<1>1. call.new_parent \in Ids \cup {FS_ROOT}
  BY CallFields
<1>2. /\ new \in Results /\ Good(new.fs) /\ Keeps(call.fs, new.fs)
      /\ (new.id = -1 /\ new.fs = call.fs) \/ Copied(call.fs, new, call.new_parent, call.name, "folder")
  BY <1>1, CreateResult DEF NewFolder
<1>3. new.id = -1 \/ SameBut(call.fs, new.fs, new.id)
  BY <1>1, CreateGood DEF NewFolder
<1> QED
  BY <1>2, <1>3, NoneIsNegative DEF Copied

\* A child that cannot be copied ends the copy of its folder.
LEMMA StopsTheCopy ==
  ASSUME NEW deeper, NEW new, NEW done, NEW c,
         done.id < 0 \/ deeper[Call(done.fs, c, new.id, done.fs.table[c].name)].id = -1,
         done.id = -1 \/ ~(done.id < 0)
  PROVE  ChildCopy(deeper, new, done, c).id = -1
<1>1. CASE done.id < 0
  BY <1>1 DEF ChildCopy
<1>2. CASE ~(done.id < 0)
  <2> DEFINE r == deeper[Call(done.fs, c, new.id, done.fs.table[c].name)]
  <2>1. ChildCopy(deeper, new, done, c) = AfterChild(r, new.id) /\ r.id = -1
    BY <1>2 DEF ChildCopy
  <2> HIDE DEF r
  <2>2. AfterChild(r, new.id) = Failed(r.fs)
    BY <2>1, NoneIsNegative DEF AfterChild
  <2> QED
    BY <2>1, <2>2, FailedIs
<1> QED
  BY <1>1, <1>2

\* The call that a folder's copy makes for child c.
LEMMA ChildCall ==
  ASSUME NEW f, Good(f), NEW q \in Ids, NEW c \in Ids, NEW call, call = Call(f, c, q, f.table[c].name)
  PROVE  /\ call \in Calls /\ call.fs = f /\ call.id = c /\ call.new_parent = q
         /\ call.name = f.table[c].name
<1>1. f \in FileSystems /\ f.table[c].name \in Names \cup {""} /\ q \in Ids \cup {FS_ROOT}
  BY DEF Good, Sound, Table, Entries
<1>2. call \in Calls
  BY <1>1, CallIs
<1> QED
  BY <1>2, CallHolds

LEMMA FailsInItself ==
  ASSUME NEW depth \in 0 .. MaxDepth + 1, depth > MaxDepth \/ FailsAt(depth + 1)
  PROVE  FailsAt(depth)
<1> SUFFICES ASSUME NEW call \in Calls, Good(call.fs), IntoItself(call)
             PROVE  CopyDepth[depth][call].id = -1
  BY DEF FailsAt
<1> DEFINE f == call.fs
           i == call.id
           p == call.new_parent
           r == CopyDepth[depth][call]
           deeper == CopyDepth[depth + 1]
           new == NewFolder(call)
<1>0. /\ i \in Ids /\ p \in Ids /\ On(f.table, p, i)
      /\ Sound(f.table, f.nf) /\ Graded(f.table)
  BY CallFields DEF IntoItself, Good
<1>1. CASE Fails(call, r)
  BY <1>1, FailedIs DEF Fails
<1>2. CASE CopiesFile(call, r)
  <2>1. IsFolder(f.table, p) /\ IsFile(f.table, i)
    BY <1>0, <1>2, RootIsNoEntry DEF CopiesFile, ParentOk
  <2>2. p # i
    BY <2>1 DEF IsFolder, IsFile
  <2>3. \E c \in Children(f.table, i) : On(f.table, p, c)
    BY <1>0, <2>1, <2>2, OnChild DEF IsFolder
  <2>4. \A c \in Ids : f.table[c].used => f.table[c].parent # i
    <3>1. ~IsFolder(f.table, i)
      BY <2>1 DEF IsFolder, IsFile
    <3> QED
      BY <1>0, <3>1, OnlyFoldersHaveChildren
  <2> QED
    BY <2>3, <2>4 DEF Children
<1>3. CASE NoFolder(call, r)
  <2>1. r = new /\ new.id < 0
    BY <1>3 DEF NoFolder
  <2>2. new \in Results
    <3>1. p \in Ids \cup {FS_ROOT}
      BY CallFields
    <3> QED
      BY <3>1, CreateResult DEF NewFolder
  <2> QED
    BY <2>1, <2>2, NoneIsNegative DEF Results
<1>4. CASE ~(depth > MaxDepth) /\ CopiesFolder(call, deeper, r)
  <2>1. /\ IsFolder(f.table, i) /\ ParentOk(f.table, p) /\ p # i /\ ~(new.id < 0)
        /\ r = Each(ChildCopies(deeper, new, i), new)
    BY <1>4 DEF CopiesFolder
  <2>2. /\ new \in Results /\ Good(new.fs) /\ Keeps(f, new.fs) /\ new.id \in Ids
        /\ Copied(f, new, p, call.name, "folder")
    BY <2>1, NewFolderIs
  <2>3. f.table[p].used
    BY <1>0, <2>1, RootIsNoEntry DEF ParentOk, IsFolder
  <2> HIDE DEF new, r
  <2>4. PICK c \in Children(f.table, i) : On(f.table, p, c)
    BY <1>0, <2>1, <2>3, OnChild
  <2>5. c \in Ids /\ f.table[c].used /\ c \in Children(new.fs.table, i)
    BY <2>2, <2>4 DEF Children, Keeps
  <2> DEFINE step == ChildCopies(deeper, new, i)
             Fine(s) == /\ s \in Results /\ Good(s.fs) /\ Keeps(new.fs, s.fs)
                        /\ s.id = -1 \/ s.id = new.id
             I == [k \in 0 .. FS_MAX_ENTRIES |-> {s \in Results : Fine(s) /\ (k > c => s.id = -1)}]
  <2>6. ASSUME NEW k \in Ids, NEW s, Fine(s), k \in DOMAIN step
        PROVE  Fine(Pass(step, k, s)) /\ (s.id = -1 \/ k = c => Pass(step, k, s).id = -1)
    <3> DEFINE t == ChildCopy(deeper, new, s, k)
    <3>1. Pass(step, k, s) = t
      BY <2>6 DEF Pass, ChildCopies
    <3>2. Goes(new, s, t)
      <4>1. CopiesAt(depth + 1)
        BY <1>4, Deeper, AllCopiesFaithful
      <4> QED
        BY <2>2, <2>6, <4>1, ChildGood
    <3>3. Keeps(new.fs, t.fs)
      BY <2>6, <3>2, KeepsChain DEF Goes
    <3>4. Fine(t)
      BY <2>6, <3>2, <3>3 DEF Goes
    <3>5. s.id = -1 => t.id = -1
      BY <2>6, StopsTheCopy, NoneIsNegative
    <3>6. ASSUME k = c, s.id # -1 PROVE t.id = -1
      <4> DEFINE below == Call(s.fs, c, new.id, s.fs.table[c].name)
      <4>1. s.id = new.id /\ Good(s.fs) /\ Keeps(new.fs, s.fs) /\ Keeps(f, s.fs)
        BY <2>2, <2>6, <3>6, KeepsChain
      <4>2. below \in Calls /\ below.fs = s.fs /\ below.id = c /\ below.new_parent = new.id
        BY <2>2, <2>5, <4>1, ChildCall
      <4>3. On(s.fs.table, p, c)
        <5>1. StaysIn(f.table, s.fs.table)
          BY <4>1 DEF Keeps, StaysIn
        <5> QED
          BY <1>0, <2>3, <2>4, <5>1, OnStays
      <4>4. s.fs.table[new.id].used /\ s.fs.table[new.id].parent = p
        BY <2>2, <4>1 DEF Copied, Keeps
      <4>5. On(s.fs.table, new.id, c)
        BY <1>0, <2>2, <2>5, <4>1, <4>3, <4>4, OnSteps DEF Good
      <4>6. IntoItself(below)
        BY <2>2, <4>2, <4>5 DEF IntoItself
      <4>7. deeper[below].id = -1
        BY <1>4, <4>1, <4>2, <4>6 DEF FailsAt
      <4>8. s.id = -1 \/ ~(s.id < 0)
        BY <2>2, <4>1, NoneIsNegative
      <4> HIDE DEF deeper
      <4> QED
        BY <3>6, <4>7, <4>8, StopsTheCopy
    <3> HIDE DEF Fine, t, step
    <3> QED
      BY <3>1, <3>4, <3>5, <3>6
  <2>7. ASSUME NEW k \in Ids, NEW s \in I[k] PROVE Pass(step, k, s) \in I[k + 1]
    <3>1. /\ k \in 0 .. FS_MAX_ENTRIES /\ k + 1 \in 0 .. FS_MAX_ENTRIES
          /\ k + 1 > c => k > c \/ k = c
      BY <2>5, FileTableAssumption DEF Ids
    <3>2. Fine(s) /\ (k > c => s.id = -1)
      BY <3>1
    <3>3. CASE k \in DOMAIN step
      <4>1. Fine(Pass(step, k, s)) /\ (s.id = -1 \/ k = c => Pass(step, k, s).id = -1)
        BY <2>6, <3>2, <3>3
      <4> HIDE DEF step
      <4> QED
        BY <3>1, <3>2, <4>1
    <3>4. CASE k \notin DOMAIN step
      <4>1. Pass(step, k, s) = s
        BY <3>4 DEF Pass
      <4>2. k # c
        BY <2>5, <3>4 DEF ChildCopies
      <4> HIDE DEF step
      <4> QED
        BY <3>1, <3>2, <4>1, <4>2
    <3> QED
      BY <3>3, <3>4
  <2>8. new \in I[0]
    <3>1. 0 \in 0 .. FS_MAX_ENTRIES /\ ~(0 > c)
      BY <2>5, FileTableAssumption DEF Ids
    <3> QED
      BY <2>2, <3>1 DEF Keeps
  <2>9. FS_MAX_ENTRIES \in 0 .. FS_MAX_ENTRIES /\ FS_MAX_ENTRIES > c
    BY <2>5, FileTableAssumption DEF Ids
  <2> HIDE DEF I, step
  <2>10. r \in I[FS_MAX_ENTRIES]
    BY <2>1, <2>7, <2>8, EachReaches DEF step
  <2>11. r.id = -1
    BY <2>9, <2>10 DEF I
  <2> QED
    BY <2>11 DEF r
<1> QED
  BY <1>1, <1>2, <1>3, <1>4, WaysOfCopy

LEMMA NeverIntoItself == \A d \in 0 .. MaxDepth + 1 : FailsAt(d)
<1> DEFINE S == {d \in 0 .. MaxDepth + 1 : FailsAt(d)}
<1>1. MaxDepth + 1 \in S
  <2>1. FailsAt(MaxDepth + 1)
    BY Depths, FailsInItself
  <2> QED
    BY <2>1, Depths
<1>2. ASSUME NEW d \in 0 .. MaxDepth, d + 1 \in S PROVE d \in S
  <2>1. d \in 0 .. MaxDepth + 1
    BY Depths
  <2>2. FailsAt(d + 1)
    BY <1>2
  <2>3. FailsAt(d)
    BY <2>1, <2>2, FailsInItself
  <2> QED
    BY <2>1, <2>3
<1> HIDE DEF S
<1>3. \A d \in 0 .. MaxDepth + 1 : d \in S
  BY <1>1, <1>2, FromTheDeepest
<1> QED
  BY <1>3 DEF S

-----------------------------------------------------------------------------
(* A copy that succeeds is a tree like its source.                         *)

\* What is in g and not in f lies at or below q.
NewBelow(f, g, q) == \A j \in Ids : g.table[j].used /\ ~f.table[j].used => On(g.table, j, q)

TrueCopy(call, r) ==
  r.id \in Ids => Tree(r.fs, r.id) = Tree(call.fs, call.id) /\ NewBelow(call.fs, r.fs, r.id)

TrueAt(depth) == \A call \in Calls : Good(call.fs) => TrueCopy(call, CopyDepth[depth][call])

LEMMA FileCopyTrue ==
  ASSUME NEW f, Good(f), NEW i \in Ids, IsFile(f.table, i), NEW g, Good(g), NEW q \in Ids,
         g.table[q].used, g.table[q].type = "file", g.text[q] = f.text[i], SameBut(f, g, q)
  PROVE  Tree(g, q) = Tree(f, i) /\ NewBelow(f, g, q)
<1>1. ASSUME NEW h, Good(h), NEW j \in Ids, IsFile(h.table, j) PROVE Tree(h, j) = {Top(h, j)}
  <2>1. \A c \in Ids : h.table[c].used => h.table[c].parent # j
    BY <1>1, OnlyFoldersHaveChildren DEF Good, IsFile, IsFolder
  <2>2. Children(h.table, j) = {}
    BY <2>1 DEF Children
  <2>3. Branches(h, j) = {}
    BY <2>2 DEF Branches
  <2>4. h.table[j].used
    BY <1>1 DEF IsFile
  <2> QED
    BY <1>1, <2>3, <2>4, TreeUnfolds
<1>2. IsFile(g.table, q) /\ Top(g, q) = Top(f, i)
  BY DEF IsFile, Top
<1>3. NewBelow(f, g, q)
  BY OnItself DEF NewBelow, SameBut
<1> QED
  BY <1>1, <1>2, <1>3

\* One child has been copied into folder q, the copy of folder i.
LEMMA OneMoreBranch ==
  ASSUME NEW f, Good(f), NEW i \in Ids, NEW p \in Ids \cup {FS_ROOT}, ParentOk(f.table, p),
         ~(p \in Ids /\ On(f.table, p, i)), NEW q \in Ids, ~f.table[q].used,
         NEW s, Good(s), Keeps(f, s), s.table[q].used, s.table[q].parent = p, NewBelow(f, s, q),
         NEW c \in Children(f.table, i),
         NEW u, Good(u), Keeps(s, u), NEW x \in Ids, ~s.table[x].used,
         u.table[x].used, u.table[x].parent = q, u.table[x].name = s.table[c].name,
         Tree(u, x) = Tree(s, c), NewBelow(s, u, x)
  PROVE  NewBelow(f, u, q) /\ Branches(u, q) = Branches(s, q) \cup Branch(f, c)
<1>0. /\ Sound(f.table, f.nf) /\ Graded(f.table) /\ Sound(s.table, s.nf) /\ Graded(s.table)
      /\ Sound(u.table, u.nf) /\ Graded(u.table)
      /\ StaysIn(f.table, s.table) /\ StaysIn(s.table, u.table)
  BY DEF Good, Keeps, StaysIn
<1>1. c \in Ids /\ f.table[c].used /\ f.table[c].parent = i /\ s.table[c] = f.table[c] /\ c # q
  BY DEF Children, Keeps
<1>2. u.table[q].used /\ u.table[q].parent = p /\ On(u.table, x, q) /\ x # q /\ ~On(u.table, q, x)
  <2>1. u.table[q].used /\ u.table[q].parent = p
    BY DEF Keeps
  <2>2. x \in Children(u.table, q)
    BY DEF Children
  <2> QED
    BY <1>0, <2>1, <2>2, ChildOn
<1>3. NewBelow(f, u, q)
  <2> SUFFICES ASSUME NEW j \in Ids, u.table[j].used, ~f.table[j].used PROVE On(u.table, j, q)
    BY DEF NewBelow
  <2>1. CASE s.table[j].used
    <3>1. On(s.table, j, q)
      BY <2>1 DEF NewBelow
    <3> QED
      BY <1>0, <2>1, <3>1, OnStays
  <2>2. CASE ~s.table[j].used
    <3>1. On(u.table, j, x)
      BY <2>2 DEF NewBelow
    <3> QED
      BY <1>0, <1>2, <3>1, OnAndOn
  <2> QED
    BY <2>1, <2>2
\* The source was not touched by what has been copied before.
<1>4. Tree(s, c) = Tree(f, c)
  <2>1. ASSUME NEW j \in Ids, s.table[j].used, On(s.table, j, c) PROVE f.table[j].used
    <3> SUFFICES ASSUME ~f.table[j].used PROVE FALSE
      OBVIOUS
    <3>1. On(s.table, j, q)
      BY <2>1 DEF NewBelow
    <3>2. CASE On(s.table, c, q)
      <4>1. On(f.table, c, q)
        BY <1>0, <1>1, <3>2, OnStays
      <4> QED
        BY <1>0, <1>1, <4>1, OnUsed
    <3>3. CASE On(s.table, q, c)
      <4>1. p \in Ids /\ On(s.table, p, c)
        BY <1>0, <1>1, <3>3, OnSteps
      <4>2. f.table[p].used
        BY <4>1, RootIsNoEntry DEF ParentOk, IsFolder
      <4>3. On(f.table, p, c)
        BY <1>0, <4>1, <4>2, OnStays
      <4>4. On(f.table, c, i)
        BY <1>0, ChildOn
      <4>5. On(f.table, p, i)
        BY <1>0, <1>1, <4>1, <4>2, <4>3, <4>4, OnAndOn
      <4> QED
        BY <4>1, <4>5
    <3> QED
      BY <1>0, <1>1, <2>1, <3>1, <3>2, <3>3, OneWay
  <2> QED
    BY <1>1, <2>1, TreeStays
\* Nor is what has been copied before by this copy.
<1>5. ASSUME NEW d \in Children(s.table, q)
      PROVE  Tree(u, d) = Tree(s, d) /\ u.table[d].name = s.table[d].name
  <2>1. d \in Ids /\ s.table[d].used /\ s.table[d].parent = q /\ u.table[d] = s.table[d] /\ d # x
    BY DEF Children, Keeps
  <2>2. d \in Children(u.table, q)
    BY <2>1 DEF Children
  <2>3. ~On(u.table, q, d)
    BY <1>0, <2>2, ChildOn
  <2>4. ASSUME NEW j \in Ids, u.table[j].used, On(u.table, j, d) PROVE s.table[j].used
    <3> SUFFICES ASSUME ~s.table[j].used PROVE FALSE
      OBVIOUS
    <3>1. On(u.table, j, x)
      BY <2>4 DEF NewBelow
    <3>2. CASE On(u.table, d, x)
      <4>1. On(s.table, d, x)
        BY <1>0, <2>1, <3>2, OnStays
      <4> QED
        BY <1>0, <2>1, <4>1, OnUsed
    <3>3. CASE On(u.table, x, d)
      <4>1. On(u.table, q, d)
        BY <1>0, <2>1, <3>3, OnSteps
      <4> QED
        BY <2>3, <4>1
    <3> QED
      BY <1>0, <2>1, <2>4, <3>1, <3>2, <3>3, OneWay
  <2> QED
    BY <2>1, <2>4, TreeStays
<1>6. Children(u.table, q) = Children(s.table, q) \cup {x}
  <2>1. ASSUME NEW j \in Children(u.table, q), ~s.table[j].used PROVE j = x
    <3>1. j \in Ids /\ u.table[j].used /\ u.table[j].parent = q
      BY DEF Children
    <3>2. On(u.table, j, x)
      BY <2>1, <3>1 DEF NewBelow
    <3> QED
      BY <1>0, <1>2, <3>1, <3>2, OnSteps
  <2>2. ASSUME NEW j \in Children(u.table, q), s.table[j].used PROVE j \in Children(s.table, q)
    BY <2>2 DEF Children, Keeps
  <2>3. Children(s.table, q) \subseteq Children(u.table, q) /\ x \in Children(u.table, q)
    BY DEF Children, Keeps
  <2> QED
    BY <2>1, <2>2, <2>3
<1>7. \A d \in Children(s.table, q) : Branch(u, d) = Branch(s, d)
  BY <1>5 DEF Branch
<1>8. Branch(u, x) = Branch(f, c)
  BY <1>1, <1>4 DEF Branch
<1>9. Branches(u, q) = UNION {Branch(u, d) : d \in Children(s.table, q) \cup {x}}
  BY <1>6 DEF Branches
<1>10. Branches(s, q) = UNION {Branch(u, d) : d \in Children(s.table, q)}
  BY <1>7 DEF Branches
<1> QED
  BY <1>3, <1>8, <1>9, <1>10

\* A child's copy that goes well, as the folder's copy sees it.
LEMMA GoneWell ==
  ASSUME NEW deeper, NEW new, new.id \in Ids, NEW done, NEW c, NEW call,
         call = Call(done.fs, c, new.id, done.fs.table[c].name), ~(done.id < 0),
         NEW t, t = ChildCopy(deeper, new, done, c), t.id = new.id
  PROVE  ~(deeper[call].id < 0) /\ t.fs = deeper[call].fs
<1> DEFINE r == deeper[call]
<1>1. t = AfterChild(r, new.id)
  BY DEF ChildCopy
<1> HIDE DEF r
<1>2. CASE r.id < 0
  <2>1. t = Failed(r.fs)
    BY <1>1, <1>2 DEF AfterChild
  <2>2. t.id = -1
    BY <2>1, FailedIs
  <2> QED
    BY <2>2, NoneIsNegative
<1>3. CASE ~(r.id < 0)
  <2>1. t = Made(r.fs, new.id)
    BY <1>1, <1>3 DEF AfterChild
  <2>2. ~(r.id < 0) /\ t.fs = r.fs
    BY <1>3, <2>1, MadeIs
  <2> QED
    BY <2>2 DEF r
<1> QED
  BY <1>2, <1>3

\* The folder made for a copy is empty.
LEMMA NewFolderEmpty ==
  ASSUME NEW f, Good(f), NEW g, NEW q \in Ids, ~f.table[q].used, SameBut(f, g, q),
         ParentOk(f.table, g.table[q].parent)
  PROVE  NewBelow(f, g, q) /\ Branches(g, q) = {}
<1>1. NewBelow(f, g, q)
  BY OnItself DEF NewBelow, SameBut
<1>2. ASSUME NEW j \in Children(g.table, q) PROVE FALSE
  <2>1. j \in Ids /\ g.table[j].used /\ g.table[j].parent = q
    BY DEF Children
  <2>2. CASE j = q
    BY <2>1, <2>2, RootIsNoEntry DEF ParentOk, IsFolder
  <2>3. CASE j # q
    <3>1. f.table[j].used /\ f.table[j].parent = q
      BY <2>1, <2>3 DEF SameBut
    <3>2. ~IsFolder(f.table, q)
      BY DEF IsFolder
    <3> QED
      BY <2>1, <3>1, <3>2, OnlyFoldersHaveChildren DEF Good
  <2> QED
    BY <2>2, <2>3
<1>3. Branches(g, q) = {}
  BY <1>2 DEF Branches
<1> QED
  BY <1>1, <1>3

LEMMA FolderTop ==
  ASSUME NEW f, Good(f), NEW i \in Ids, f.table[i].type = "folder"
  PROVE  Top(f, i) = <<EmptyPath, "folder", "">>
<1>1. f.text[i] = ""
  BY DEF Good, Texted, IsFile
<1> QED
  BY <1>1 DEF Top

\* The branches of the entries before entry k.
SoFar(f, i, k) == UNION {Branch(f, c) : c \in {x \in Children(f.table, i) : x < k}}

LEMMA SoFarGrows ==
  ASSUME NEW f, NEW i
  PROVE  /\ SoFar(f, i, 0) = {} /\ SoFar(f, i, FS_MAX_ENTRIES) = Branches(f, i)
         /\ \A k \in Ids : SoFar(f, i, k + 1) =
              SoFar(f, i, k) \cup (IF k \in Children(f.table, i) THEN Branch(f, k) ELSE {})
<1> DEFINE kids == Children(f.table, i)
<1>1. \A x \in kids : x \in Nat /\ x < FS_MAX_ENTRIES
  BY FileTableAssumption DEF Children, Ids
<1> HIDE DEF kids
<1>2. {x \in kids : x < 0} = {} /\ {x \in kids : x < FS_MAX_ENTRIES} = kids
  BY <1>1
<1>3. ASSUME NEW k \in Ids
      PROVE  {x \in kids : x < k + 1} = {x \in kids : x < k} \cup {x \in kids : x = k}
  <2>1. k \in Nat
    BY FileTableAssumption DEF Ids
  <2> QED
    BY <1>1, <2>1
<1>4. SoFar(f, i, 0) = {} /\ SoFar(f, i, FS_MAX_ENTRIES) = Branches(f, i)
  BY <1>2 DEF SoFar, Branches, kids
<1>5. ASSUME NEW k \in Ids
      PROVE  SoFar(f, i, k + 1) = SoFar(f, i, k) \cup (IF k \in kids THEN Branch(f, k) ELSE {})
  <2>1. SoFar(f, i, k + 1) = UNION {Branch(f, c) : c \in {x \in kids : x < k} \cup {x \in kids : x = k}}
    BY <1>3 DEF SoFar, kids
  <2>2. SoFar(f, i, k) = UNION {Branch(f, c) : c \in {x \in kids : x < k}}
    BY DEF SoFar, kids
  <2> QED
    BY <2>1, <2>2
<1> QED
  BY <1>4, <1>5 DEF kids

\* One entry more.
LEMMA SoFarSteps ==
  ASSUME NEW f, NEW i, NEW k \in Ids
  PROVE  /\ k \in Children(f.table, i) => SoFar(f, i, k + 1) = SoFar(f, i, k) \cup Branch(f, k)
         /\ k \notin Children(f.table, i) => SoFar(f, i, k + 1) = SoFar(f, i, k)
<1>1. SoFar(f, i, k + 1) = SoFar(f, i, k) \cup (IF k \in Children(f.table, i) THEN Branch(f, k) ELSE {})
  BY SoFarGrows
<1>2. CASE k \in Children(f.table, i)
  BY <1>1, <1>2
<1>3. CASE k \notin Children(f.table, i)
  <2>1. SoFar(f, i, k + 1) = SoFar(f, i, k) \cup {}
    BY <1>1, <1>3
  <2> QED
    BY <1>3, <2>1
<1> QED
  BY <1>2, <1>3

LEMMA FolderCopyTrue ==
  ASSUME NEW depth \in 0 .. MaxDepth + 1, ~(depth > MaxDepth), TrueAt(depth + 1),
         NEW call \in Calls, Good(call.fs), ~IntoItself(call),
         NEW r, CopiesFolder(call, CopyDepth[depth + 1], r)
  PROVE  TrueCopy(call, r)
<1> DEFINE f == call.fs
           i == call.id
           p == call.new_parent
           deeper == CopyDepth[depth + 1]
           new == NewFolder(call)
           q == new.id
           step == ChildCopies(deeper, new, i)
<1>0. /\ i \in Ids /\ p \in Ids \cup {FS_ROOT} /\ ~(p \in Ids /\ On(f.table, p, i))
      /\ CopiesAt(depth + 1)
  BY CallFields, Deeper, AllCopiesFaithful DEF IntoItself
<1>1. /\ IsFolder(f.table, i) /\ ParentOk(f.table, p) /\ p # i /\ ~(new.id < 0)
      /\ r = Each(step, new)
  BY DEF CopiesFolder
<1>2. /\ new \in Results /\ Good(new.fs) /\ Keeps(f, new.fs) /\ SameBut(f, new.fs, q) /\ q \in Ids
      /\ Copied(f, new, p, call.name, "folder")
  BY <1>1, NewFolderIs
<1> HIDE DEF new
<1>3. /\ ~f.table[q].used /\ new.fs.table[q].used /\ new.fs.table[q].parent = p
      /\ new.fs.table[q].type = "folder"
  BY <1>2 DEF Copied
<1>4. Children(new.fs.table, i) = Children(f.table, i)
  BY <1>1, <1>2, <1>3 DEF Children, SameBut
<1> DEFINE Fine(s) == /\ s \in Results /\ Good(s.fs) /\ Keeps(new.fs, s.fs)
                      /\ s.id = -1 \/ s.id = q
           True(s, k) == NewBelow(f, s.fs, q) /\ Branches(s.fs, q) = SoFar(f, i, k)
           I == [k \in 0 .. FS_MAX_ENTRIES |-> {s \in Results : Fine(s) /\ (s.id = q => True(s, k))}]
<1>5. ASSUME NEW k \in Ids, NEW s, Fine(s), s.id = q => True(s, k), k \in DOMAIN step
      PROVE  LET t == Pass(step, k, s) IN Fine(t) /\ (t.id = q => True(t, k + 1))
  <2> DEFINE t == ChildCopy(deeper, new, s, k)
             below == Call(s.fs, k, q, s.fs.table[k].name)
             u == deeper[below]
  <2>1. Pass(step, k, s) = t /\ k \in Children(f.table, i)
    BY <1>4, <1>5 DEF Pass, ChildCopies
  <2>2. Goes(new, s, t)
    BY <1>0, <1>2, <1>5, ChildGood
  <2>3. Keeps(new.fs, t.fs)
    BY <1>5, <2>2, KeepsChain DEF Goes
  <2>4. Fine(t)
    BY <1>5, <2>2, <2>3 DEF Goes
  <2>5. ASSUME t.id = q PROVE True(t, k + 1)
    <3>1. s.id = q
      <4>1. s.id = -1 => t.id = -1
        BY StopsTheCopy, NoneIsNegative
      <4> HIDE DEF t
      <4> QED
        BY <1>2, <1>5, <2>5, <4>1, NoneIsNegative
    <3>2. Good(s.fs) /\ Keeps(f, s.fs) /\ Keeps(new.fs, s.fs) /\ NewBelow(f, s.fs, q)
          /\ Branches(s.fs, q) = SoFar(f, i, k)
      BY <1>2, <1>5, <3>1, KeepsChain
    <3>3. below \in Calls /\ below.fs = s.fs /\ below.id = k /\ below.new_parent = q
          /\ below.name = s.fs.table[k].name
      BY <1>2, <3>2, ChildCall
    <3>4. ~(u.id < 0) /\ t.fs = u.fs
      BY <1>2, <2>5, <3>1, NoneIsNegative, GoneWell
    <3> HIDE DEF t, below, deeper
    <3>5. FaithfulCall(below, u)
      BY <1>0, <3>2, <3>3 DEF CopiesAt, deeper
    <3>6. TrueCopy(below, u)
      BY <3>2, <3>3 DEF TrueAt, deeper
    <3> HIDE DEF u
    <3>7. /\ Good(u.fs) /\ Keeps(s.fs, u.fs) /\ u.id \in Ids /\ ~s.fs.table[u.id].used
          /\ u.fs.table[u.id].used /\ u.fs.table[u.id].parent = q
          /\ u.fs.table[u.id].name = s.fs.table[k].name
      BY <3>3, <3>4, <3>5, NoneIsNegative DEF FaithfulCall, Copied
    <3>8. Tree(u.fs, u.id) = Tree(s.fs, k) /\ NewBelow(s.fs, u.fs, u.id)
      BY <3>3, <3>6, <3>7 DEF TrueCopy
    <3>9. s.fs.table[q].used /\ s.fs.table[q].parent = p
      BY <1>2, <1>3, <3>2 DEF Keeps
    <3>10. NewBelow(f, u.fs, q) /\ Branches(u.fs, q) = Branches(s.fs, q) \cup Branch(f, k)
      <4> DEFINE su == s.fs
                 uu == u.fs
                 x == u.id
      <4>1. /\ Good(f) /\ Good(su) /\ Good(uu) /\ Keeps(f, su) /\ Keeps(su, uu)
            /\ NewBelow(f, su, q) /\ NewBelow(su, uu, x)
        BY <3>2, <3>7, <3>8
      <4>2. su.table[q].used /\ su.table[q].parent = p /\ ~f.table[q].used
        BY <1>3, <3>9
      <4>3. /\ x \in Ids /\ ~su.table[x].used /\ uu.table[x].used /\ uu.table[x].parent = q
            /\ uu.table[x].name = su.table[k].name /\ Tree(uu, x) = Tree(su, k)
        BY <3>7, <3>8
      <4>4. k \in Children(f.table, i) /\ ParentOk(f.table, p) /\ q \in Ids
        BY <1>1, <1>2, <2>1
      <4> HIDE DEF f, i, p, q, su, uu, x, Fine, True, I, step
      <4>5. NewBelow(f, uu, q) /\ Branches(uu, q) = Branches(su, q) \cup Branch(f, k)
        BY <1>0, <4>1, <4>2, <4>3, <4>4, OneMoreBranch
      <4> QED
        BY <4>5 DEF su, uu
    <3>11. SoFar(f, i, k + 1) = SoFar(f, i, k) \cup Branch(f, k)
      BY <2>1, SoFarSteps
    <3> QED
      BY <3>2, <3>4, <3>10, <3>11
  <2> HIDE DEF t, Fine, True, step
  <2> QED
    BY <2>1, <2>4, <2>5
<1>6. ASSUME NEW k \in Ids, NEW s \in I[k] PROVE Pass(step, k, s) \in I[k + 1]
  <2>1. k \in 0 .. FS_MAX_ENTRIES /\ k + 1 \in 0 .. FS_MAX_ENTRIES
    BY FileTableAssumption DEF Ids
  <2>2. Fine(s) /\ (s.id = q => True(s, k))
    BY <2>1
  <2>3. CASE k \in DOMAIN step
    <3>1. Fine(Pass(step, k, s)) /\ (Pass(step, k, s).id = q => True(Pass(step, k, s), k + 1))
      BY <1>5, <2>2, <2>3
    <3> HIDE DEF step, True
    <3> QED
      BY <2>1, <3>1
  <2>4. CASE k \notin DOMAIN step
    <3>1. Pass(step, k, s) = s
      BY <2>4 DEF Pass
    <3>2. k \notin Children(f.table, i)
      BY <1>4, <2>4 DEF ChildCopies
    <3>3. SoFar(f, i, k + 1) = SoFar(f, i, k)
      BY <3>2, SoFarSteps
    <3> HIDE DEF step
    <3> QED
      BY <2>1, <2>2, <3>1, <3>3
  <2> QED
    BY <2>3, <2>4
<1>7. new \in I[0]
  <2>1. 0 \in 0 .. FS_MAX_ENTRIES
    BY FileTableAssumption
  <2>2. NewBelow(f, new.fs, q) /\ Branches(new.fs, q) = {}
    BY <1>1, <1>2, <1>3, NewFolderEmpty
  <2>3. SoFar(f, i, 0) = {}
    BY SoFarGrows
  <2> QED
    BY <1>2, <2>1, <2>2, <2>3 DEF Keeps
<1> HIDE DEF step
<1>8. FS_MAX_ENTRIES \in 0 .. FS_MAX_ENTRIES
  BY FileTableAssumption
<1>9. r \in I[FS_MAX_ENTRIES]
  <2> HIDE DEF I
  <2> QED
    BY <1>1, <1>6, <1>7, EachReaches
<1>10. Fine(r) /\ (r.id = q => True(r, FS_MAX_ENTRIES))
  BY <1>8, <1>9
<1>11. ASSUME r.id \in Ids
       PROVE  Tree(r.fs, r.id) = Tree(f, i) /\ NewBelow(f, r.fs, r.id)
  <2>1. r.id = q
    BY <1>10, <1>11, NoneIsNegative
  <2>2. Good(r.fs) /\ Keeps(new.fs, r.fs) /\ NewBelow(f, r.fs, q)
        /\ Branches(r.fs, q) = SoFar(f, i, FS_MAX_ENTRIES)
    BY <1>10, <2>1
  <2>3. r.fs.table[q].used /\ r.fs.table[q].type = "folder"
    BY <1>2, <1>3, <2>2 DEF Keeps
  <2>4. Tree(r.fs, q) = {Top(r.fs, q)} \cup Branches(f, i)
    BY <1>2, <2>2, <2>3, TreeUnfolds, SoFarGrows
  <2>5. Tree(f, i) = {Top(f, i)} \cup Branches(f, i)
    BY <1>0, <1>1, TreeUnfolds DEF IsFolder
  <2>6. Top(r.fs, q) = Top(f, i)
    BY <1>0, <1>1, <1>2, <2>2, <2>3, FolderTop DEF IsFolder
  <2> QED
    BY <2>1, <2>2, <2>4, <2>5, <2>6
<1> QED
  BY <1>11 DEF TrueCopy

LEMMA CopyStepTrue ==
  ASSUME NEW depth \in 0 .. MaxDepth + 1, depth > MaxDepth \/ TrueAt(depth + 1)
  PROVE  TrueAt(depth)
<1> SUFFICES ASSUME NEW call \in Calls, Good(call.fs) PROVE TrueCopy(call, CopyDepth[depth][call])
  BY DEF TrueAt
<1> DEFINE f == call.fs
           i == call.id
           p == call.new_parent
           r == CopyDepth[depth][call]
<1>0. i \in Ids /\ p \in Ids \cup {FS_ROOT}
  BY CallFields
<1>1. CASE r.id \notin Ids
  BY <1>1 DEF TrueCopy
<1>2. CASE Fails(call, r)
  BY <1>1, <1>2, FailedIs, NoneIsNegative DEF Fails
<1>3. CASE CopiesFile(call, r)
  <2> HIDE DEF r
  <2>1. IsFile(f.table, i) /\ r = CopyFile(f, i, p, call.name)
    BY <1>3 DEF CopiesFile
  <2>2. FileCopied(f, r, i, p, call.name)
    BY <1>0, <2>1, CopyFileGood
  <2>3. CASE r.id \in Ids
    <3> DEFINE g == r.fs
               q == r.id
    <3>1. /\ Good(g) /\ q \in Ids /\ g.table[q].used /\ g.table[q].type = "file"
          /\ g.text[q] = f.text[i] /\ SameBut(f, g, q)
      BY <2>2, <2>3, NoneIsNegative DEF FileCopied, Copied
    <3> HIDE DEF g, q
    <3>2. Tree(g, q) = Tree(f, i) /\ NewBelow(f, g, q)
      BY <1>0, <2>1, <3>1, FileCopyTrue
    <3>3. TrueCopy(call, r)
      BY <3>2 DEF TrueCopy, g, q
    <3> QED
      BY <3>3 DEF r
  <2> QED
    BY <1>1, <2>3 DEF r
<1>4. CASE NoFolder(call, r)
  <2>1. r = NewFolder(call) /\ r.id < 0
    BY <1>4 DEF NoFolder
  <2> QED
    BY <1>1, <2>1, NoneIsNegative
<1>5. CASE ~(depth > MaxDepth) /\ CopiesFolder(call, CopyDepth[depth + 1], r)
  <2>1. CASE IntoItself(call)
    <3>1. r.id = -1
      BY <2>1, NeverIntoItself DEF FailsAt
    <3> QED
      BY <1>1, <3>1, NoneIsNegative
  <2>2. CASE ~IntoItself(call)
    <3> HIDE DEF r
    <3> QED
      BY <1>5, <2>2, FolderCopyTrue DEF r
  <2> QED
    BY <2>1, <2>2
<1> QED
  BY <1>2, <1>3, <1>4, <1>5, WaysOfCopy

LEMMA AllCopiesTrue == \A d \in 0 .. MaxDepth + 1 : TrueAt(d)
<1> DEFINE S == {d \in 0 .. MaxDepth + 1 : TrueAt(d)}
<1>1. MaxDepth + 1 \in S
  <2>1. TrueAt(MaxDepth + 1)
    BY Depths, CopyStepTrue
  <2> QED
    BY <2>1, Depths
<1>2. ASSUME NEW d \in 0 .. MaxDepth, d + 1 \in S PROVE d \in S
  <2>1. d \in 0 .. MaxDepth + 1
    BY Depths
  <2>2. TrueAt(d + 1)
    BY <1>2
  <2>3. TrueAt(d)
    BY <2>1, <2>2, CopyStepTrue
  <2> QED
    BY <2>1, <2>3
<1> HIDE DEF S
<1>3. \A d \in 0 .. MaxDepth + 1 : d \in S
  BY <1>1, <1>2, FromTheDeepest
<1> QED
  BY <1>3 DEF S

\* What CopyFaithful says of a file system in order.
LEMMA CopyToTrue ==
  ASSUME NEW f, Good(f), NEW i \in Ids, NEW p \in Ids \cup {FS_ROOT},
         NEW r, r = FsCopyTo(f, i, p), r.id \in Ids
  PROVE  Tree(r.fs, r.id) = Tree(f, i) /\ ~Inside(f.table, p, i)
<1>1. /\ f.table[i].used /\ r = FsCopy(f, i, p, f.table[i].name)
  <2>1. CASE ~f.table[i].used
    <3>1. r = Failed(f)
      BY <2>1 DEF FsCopyTo
    <3>2. r.id = -1
      BY <3>1, FailedIs
    <3> QED
      BY <3>2, NoneIsNegative
  <2>2. CASE f.table[i].used
    BY <2>2 DEF FsCopyTo
  <2> QED
    BY <2>1, <2>2
<1> DEFINE call == Call(f, i, p, f.table[i].name)
<1>2. call \in Calls
  <2>1. f \in FileSystems /\ f.table[i].name \in Names \cup {""}
    BY DEF Good, Sound, Table, Entries
  <2> QED
    BY <2>1, CallIs
<1>3. call.fs = f /\ call.id = i /\ call.new_parent = p
  BY CallHolds
<1>4. r = CopyDepth[0][call]
  BY <1>1 DEF FsCopy
<1> HIDE DEF call
<1>5. TrueCopy(call, r)
  BY <1>2, <1>3, <1>4, Depths, AllCopiesTrue DEF TrueAt
<1>6. ~IntoItself(call)
  <2>1. ASSUME IntoItself(call) PROVE r.id = -1
    BY <1>2, <1>3, <1>4, <2>1, Depths, NeverIntoItself DEF FailsAt
  <2> QED
    BY <2>1, NoneIsNegative
<1>7. ParentOk(f.table, p)
  <2>1. r.id = -1 \/ Copied(f, r, p, f.table[i].name, f.table[i].type)
    BY CopyToGood
  <2> QED
    BY <2>1, NoneIsNegative DEF Copied
<1>8. ~Inside(f.table, p, i)
  BY <1>3, <1>6, <1>7, InsideIsOn DEF IntoItself, Good
<1> QED
  BY <1>3, <1>5, <1>8 DEF TrueCopy

-----------------------------------------------------------------------------
(* The file manager's loops over the selected items.                       *)

LEMMA StandChain ==
  ASSUME NEW f, NEW g, NEW h, NEW D, NEW E, Stand(f, g, D), Stand(g, h, E), E \subseteq D
  PROVE  Stand(f, h, D)
BY DEF Stand

LEMMA DeletionsGood ==
  ASSUME Good(fs), NEW S, NEW g, g = AllDeleted(S)
  PROVE  Good(g) /\ Stand(fs, g, S)
<1> DEFINE I == {f \in FileSystems : Good(f) /\ Stand(fs, f, S)}
           step == [i \in S |-> [f \in FileSystems |-> FsDelete(f, i).fs]]
<1>1. fs \in I
  BY DEF Good, Stand
<1>2. ASSUME NEW k \in Ids, k \in DOMAIN step, NEW f \in I PROVE step[k][f] \in I
  <2> DEFINE h == FsDelete(f, k).fs
  <2>1. k \in S /\ step[k][f] = h
    BY <1>2
  <2>2. Good(f) /\ Stand(fs, f, S)
    OBVIOUS
  <2>3. Good(h) /\ Stand(f, h, {k})
    BY <2>2, DeleteGood
  <2> HIDE DEF h, step
  <2>4. Stand(fs, h, S)
    BY <2>1, <2>2, <2>3, StandChain
  <2> QED
    BY <2>1, <2>3, <2>4 DEF Good
<1>3. g = Each(step, fs)
  BY DEF AllDeleted
<1> HIDE DEF step, I
<1>4. g \in I
  BY <1>1, <1>2, <1>3, EachStays
<1> QED
  BY <1>4 DEF I

LEMMA TransfersGood ==
  ASSUME Good(fs), NEW S, NEW dest \in Ids \cup {FS_ROOT}, NEW copying, NEW g,
         g = Transferred(S, dest, copying)
  PROVE  Good(g) /\ Stand(fs, g, {})
<1> DEFINE Next1(f, i) == IF copying THEN FsCopyTo(f, i, dest).fs ELSE FsMove(f, i, dest).fs
           I == {f \in FileSystems : Good(f) /\ Stand(fs, f, {})}
           step == [i \in S |-> [f \in FileSystems |-> Next1(f, i)]]
<1>1. fs \in I
  BY DEF Good, Stand
<1>2. ASSUME NEW k \in Ids, k \in DOMAIN step, NEW f \in I PROVE step[k][f] \in I
  <2> DEFINE h == Next1(f, k)
  <2>1. step[k][f] = h
    BY <1>2
  <2>2. Good(f) /\ Stand(fs, f, {})
    OBVIOUS
  <2>3. Good(h) /\ Stand(f, h, {})
    <3>1. CASE copying
      <4> DEFINE c == FsCopyTo(f, k, dest)
      <4>1. h = c.fs
        BY <3>1
      <4>2. Good(c.fs) /\ Keeps(f, c.fs)
        BY <2>2, CopyToGood
      <4> QED
        BY <4>1, <4>2, KeepsStand
    <3>2. CASE ~copying
      <4> DEFINE m == FsMove(f, k, dest)
      <4>1. h = m.fs
        BY <3>2
      <4>2. Good(m.fs) /\ Stand(f, m.fs, {})
        BY <2>2, MoveGood
      <4> QED
        BY <4>1, <4>2
    <3> QED
      BY <3>1, <3>2
  <2> HIDE DEF h, step
  <2>4. Stand(fs, h, {})
    BY <2>2, <2>3, StandChain
  <2> QED
    BY <2>1, <2>3, <2>4 DEF Good
<1>3. g = Each(step, fs)
  BY DEF Transferred
<1> HIDE DEF step, I
<1>4. g \in I
  BY <1>1, <1>2, <1>3, EachStays
<1> QED
  BY <1>4 DEF I

-----------------------------------------------------------------------------
(* The invariant.                                                          *)

Places == Ids \cup {FS_ROOT}

ManagerStates ==
  [cwd : Places, list : SUBSET Ids, sel : SUBSET Ids, rows : SUBSET Places,
   parents : SUBSET Places, expanded : SUBSET Ids,
   prompt : {"none", "folder", "file", "rename"}, target : Ids \cup {-1},
   confirm : BOOLEAN, pending : {"none", "move", "copy"}]

\* The selected items are in the listing, and the folder listed is not.
Managed(f) == f \in ManagerStates /\ f.sel \subseteq f.list /\ f.cwd \notin f.list

EditorStates ==
  [open : BOOLEAN, file : Ids \cup {Untitled}, parent : Places, text : Texts \cup {""},
   dirty : BOOLEAN, naming : BOOLEAN]

\* A document without a file has been changed or is empty, and only such a one
\* is given a name.
Tidy(s) ==
  /\ s \in EditorStates
  /\ s.file = Untitled /\ ~s.dirty => s.text = ""
  /\ s.naming => s.file = Untitled

EditorsOK == ed \in [Editors -> EditorStates] /\ \A e \in Editors : Tidy(ed[e])

Targets == [file : Ids \cup {Untitled}, parent : Places]

AskedSelection == fm.confirm => asked = fm.sel

IInv ==
  /\ Good(fs) /\ Managed(fm) /\ cwd \in Places /\ handed \in Targets
  /\ EditorsOK /\ AskedSelection /\ ListingFresh /\ CleanMeansSaved

LEMMA IInvInOrder == IInv => FilesWellFormed
<1> SUFFICES ASSUME IInv PROVE FilesWellFormed
  OBVIOUS
<1>1. InOrder(fs)
  BY GoodInOrder DEF IInv
<1>2. fm.cwd \in Places /\ fm.sel \subseteq fm.list /\ fm.list \subseteq Ids
      /\ fm.prompt \in {"none", "folder", "file", "rename"}
  BY DEF IInv, Managed, ManagerStates
<1>3. fs \in FileSystems /\ cwd \in Places /\ ed \in [Editors -> EditorStates]
  BY DEF IInv, Good, EditorsOK
<1> QED
  BY <1>1, <1>2, <1>3 DEF FilesWellFormed, TypeOK, Places, EditorStates

\* A reader of the table sees no cycle.
LEMMA NotOwnChild ==
  ASSUME NEW tb, Graded(tb), NEW p PROVE p \notin Children(tb, p)
<1> SUFFICES ASSUME p \in Children(tb, p) PROVE FALSE
  OBVIOUS
<1>1. PICK rank : Ranks(tb, rank)
  BY DEF Graded
<1>2. p \in Ids /\ tb[p].used /\ tb[p].parent = p
  BY DEF Children
<1> QED
  BY <1>1, <1>2, RootIsNoEntry DEF Ranks

\* What fm_refresh_list and fm_refresh_all leave.
SameCommand(f, g) ==
  /\ g.cwd = f.cwd /\ g.expanded = f.expanded /\ g.prompt = f.prompt /\ g.target = f.target
  /\ g.confirm = f.confirm /\ g.pending = f.pending

LEMMA Listing ==
  ASSUME NEW f \in ManagerStates, NEW tb, Graded(tb), NEW g, g = Listed(f, tb)
  PROVE  /\ Managed(g) /\ SameCommand(f, g)
         /\ g.list = Children(tb, f.cwd) /\ g.rows = f.rows /\ g.sel = {}
<1> DEFINE kids == Children(tb, f.cwd)
<1>1. kids \subseteq Ids /\ f.cwd \notin kids
  BY NotOwnChild DEF Children
<1> HIDE DEF kids
<1>2. g = [f EXCEPT !.list = kids, !.sel = {}]
  BY DEF Listed, kids
<1>3. g \in ManagerStates
  BY <1>1, <1>2 DEF ManagerStates
<1>4. g.list = kids /\ g.sel = {} /\ g.rows = f.rows /\ SameCommand(f, g)
  BY <1>2 DEF ManagerStates, SameCommand
<1> QED
  BY <1>1, <1>3, <1>4 DEF Managed, kids, SameCommand

LEMMA Rebuilding ==
  ASSUME NEW f \in ManagerStates, NEW tb, NEW g, g = Rebuilt(f, tb)
  PROVE  /\ g \in ManagerStates /\ SameCommand(f, g)
         /\ g.list = f.list /\ g.sel = f.sel /\ g.rows = TreeRows(tb, f.expanded)
<1> DEFINE rows == TreeRows(tb, f.expanded)
           parents == {r \in rows : ChildFolders(tb, r) # {}}
<1>1. rows \subseteq Places /\ parents \subseteq Places
  BY DEF TreeRows, Reached, Places
<1>2. g = [f EXCEPT !.rows = rows, !.parents = parents]
  BY DEF Rebuilt
<1> HIDE DEF rows, parents
<1>3. g \in ManagerStates
  BY <1>1, <1>2 DEF ManagerStates
<1>4. g.list = f.list /\ g.sel = f.sel /\ g.rows = rows /\ SameCommand(f, g)
  BY <1>2 DEF ManagerStates, SameCommand
<1> QED
  BY <1>3, <1>4 DEF rows

LEMMA Refreshing ==
  ASSUME NEW f \in ManagerStates, NEW tb, Graded(tb), NEW g, g = Refreshed(f, tb)
  PROVE  /\ Managed(g) /\ SameCommand(f, g)
         /\ g.list = Children(tb, f.cwd) /\ g.rows = TreeRows(tb, f.expanded)
<1> DEFINE r == Rebuilt(f, tb)
<1>1. r \in ManagerStates /\ SameCommand(f, r) /\ r.rows = TreeRows(tb, f.expanded)
  BY Rebuilding
<1>2. g = Listed(r, tb)
  BY DEF Refreshed
<1> HIDE DEF r
<1>3. Managed(g) /\ SameCommand(r, g) /\ g.list = Children(tb, r.cwd) /\ g.rows = r.rows
  BY <1>1, <1>2, Listing
<1> QED
  BY <1>1, <1>3 DEF SameCommand

LEMMA Opening ==
  ASSUME NEW tb, Graded(tb), NEW g, g = Opened(tb)
  PROVE  /\ Managed(g) /\ ~g.confirm /\ g.cwd = FS_ROOT
         /\ g.list = Children(tb, g.cwd) /\ g.rows = TreeRows(tb, g.expanded)
<1> DEFINE f == [cwd |-> FS_ROOT, list |-> {}, sel |-> {}, rows |-> {}, parents |-> {},
                 expanded |-> {}, prompt |-> "none", target |-> -1, confirm |-> FALSE,
                 pending |-> "none"]
<1>1. f \in ManagerStates /\ f.cwd = FS_ROOT /\ ~f.confirm
  BY DEF ManagerStates, Places
<1>2. g = Refreshed(f, tb)
  BY DEF Opened
<1> HIDE DEF f
<1>3. /\ Managed(g) /\ SameCommand(f, g)
      /\ g.list = Children(tb, f.cwd) /\ g.rows = TreeRows(tb, f.expanded)
  BY <1>1, <1>2, Refreshing
<1> QED
  BY <1>1, <1>3 DEF SameCommand

-----------------------------------------------------------------------------
(* What the frames of the actions keep.                                    *)

\* The file manager's part of the invariant, and the editors'.
ManagerInv == Managed(fm) /\ AskedSelection /\ ListingFresh

EditorInv == EditorsOK /\ CleanMeansSaved

\* A change by another application is recorded as one not seen.
LEMMA BehindKeeps ==
  ASSUME ManagerInv, NEW g, fs' = g, Behind(g), UNCHANGED <<fm, asked>>
  PROVE  ManagerInv'
<1>1. Managed(fm)' /\ AskedSelection'
  BY DEF ManagerInv, AskedSelection
<1>2. CASE g.table = fs.table
  <2>1. stale' = stale /\ fs'.table = fs.table
    BY <1>2 DEF Behind
  <2>2. ListingFresh'
    BY <2>1 DEF ManagerInv, ListingFresh
  <2> QED
    BY <1>1, <2>2 DEF ManagerInv
<1>3. CASE g.table # fs.table
  <2>1. stale' = stale \cup {"list", "tree"} \cup (IF ParentOk(g.table, fm.cwd) THEN {} ELSE {"cwd"})
    BY <1>3 DEF Behind
  <2>2. ListingFresh'
    BY <2>1 DEF ListingFresh
  <2> QED
    BY <1>1, <2>2 DEF ManagerInv
<1> QED
  BY <1>2, <1>3

\* The file manager's own change, with no question left to put.
LEMMA RefreshKeeps ==
  ASSUME ManagerInv, NEW f \in ManagerStates, f.cwd = fm.cwd, ~f.confirm,
         NEW g, Good(g), NEW D, Stand(fs, g, D), fm.cwd \notin D,
         ByFileManager(f, g)
  PROVE  ManagerInv'
<1>1. fs' = g /\ fm' = Refreshed(f, g.table) /\ stale' = stale \ {"list", "tree"}
  BY DEF ByFileManager, Counted
<1>2. /\ Managed(fm') /\ SameCommand(f, fm')
      /\ fm'.list = Children(g.table, f.cwd) /\ fm'.rows = TreeRows(g.table, f.expanded)
  BY <1>1, Refreshing DEF Good
<1>3. "cwd" \notin stale => ParentOk(g.table, fm.cwd)
  BY StandParents DEF ManagerInv, ListingFresh
<1>4. ListingFresh'
  BY <1>1, <1>2, <1>3 DEF ListingFresh, SameCommand
<1>5. AskedSelection'
  BY <1>2 DEF AskedSelection, SameCommand
<1> QED
  BY <1>2, <1>4, <1>5 DEF ManagerInv

\* The editors whose file changes are recorded.
LEMMA DisturbedKeeps ==
  ASSUME EditorInv, NEW g, fs' = g, touched' = touched \cup Disturbed(g), UNCHANGED ed
  PROVE  EditorInv'
<1>1. EditorsOK'
  BY DEF EditorInv, EditorsOK
<1>2. CleanMeansSaved'
  <2> SUFFICES ASSUME NEW e \in Editors,
                      ed[e].open, ed[e].file \in Ids, ~ed[e].dirty, e \notin touched \cup Disturbed(g)
               PROVE  IsFile(g.table, ed[e].file) /\ g.text[ed[e].file] = ed[e].text
    BY DEF CleanMeansSaved
  <2>1. g.text[ed[e].file] = fs.text[ed[e].file] /\ IsFile(g.table, ed[e].file)
    BY DEF Disturbed
  <2>2. fs.text[ed[e].file] = ed[e].text
    BY DEF EditorInv, CleanMeansSaved
  <2> QED
    BY <2>1, <2>2
<1> QED
  BY <1>1, <1>2 DEF EditorInv

\* One editor becomes s, which is clean, recorded or true to its file.
Agrees(s, f) ==
  s.open /\ s.file \in Ids /\ ~s.dirty => IsFile(f.table, s.file) /\ f.text[s.file] = s.text

LEMMA OneEditorKeeps ==
  ASSUME EditorInv, NEW g, fs' = g, NEW e \in Editors, NEW s, Tidy(s), ed' = [ed EXCEPT ![e] = s],
         \A d \in Editors \ {e} :
           d \notin touched' /\ ~ed[d].dirty => d \notin touched /\ d \notin Disturbed(g),
         e \notin touched' => Agrees(s, g)
  PROVE  EditorInv'
<1>0. ed \in [Editors -> EditorStates] /\ s \in EditorStates
  BY DEF EditorInv, EditorsOK, Tidy
<1>1. ed' \in [Editors -> EditorStates] /\ ed'[e] = s /\ \A d \in Editors \ {e} : ed'[d] = ed[d]
  BY <1>0
<1>2. EditorsOK'
  BY <1>1 DEF EditorInv, EditorsOK
<1>3. CleanMeansSaved'
  <2> SUFFICES ASSUME NEW d \in Editors,
                      ed'[d].open, ed'[d].file \in Ids, ~ed'[d].dirty, d \notin touched'
               PROVE  IsFile(g.table, ed'[d].file) /\ g.text[ed'[d].file] = ed'[d].text
    BY DEF CleanMeansSaved
  <2>1. CASE d = e
    BY <1>1, <2>1 DEF Agrees
  <2>2. CASE d # e
    <3>1. ed'[d] = ed[d] /\ d \notin touched /\ d \notin Disturbed(g)
      BY <1>1, <2>2
    <3>2. g.text[ed[d].file] = fs.text[ed[d].file] /\ IsFile(g.table, ed[d].file)
      BY <3>1 DEF Disturbed
    <3>3. fs.text[ed[d].file] = ed[d].text
      BY <3>1 DEF EditorInv, CleanMeansSaved
    <3> QED
      BY <3>1, <3>2, <3>3
  <2> QED
    BY <2>1, <2>2
<1> QED
  BY <1>2, <1>3 DEF EditorInv

\* Nothing is disturbed where nothing changes.
LEMMA NoneDisturbed ==
  ASSUME EditorInv
  PROVE  \A d \in Editors : d \notin touched /\ ~ed[d].dirty => d \notin Disturbed(fs)
BY DEF EditorInv, CleanMeansSaved, Disturbed

LEMMA ManagerRests == ASSUME ManagerInv, UNCHANGED <<fs, fm, stale, asked>> PROVE ManagerInv'
BY DEF ManagerInv, AskedSelection, ListingFresh

LEMMA EditorsRest == ASSUME EditorInv, UNCHANGED <<fs, ed, touched>> PROVE EditorInv'
BY DEF EditorInv, EditorsOK, CleanMeansSaved

LEMMA IInvParts ==
  IInv <=> /\ Good(fs) /\ cwd \in Places /\ handed \in Targets
           /\ ManagerInv /\ EditorInv
BY DEF IInv, ManagerInv, EditorInv

-----------------------------------------------------------------------------
(* The terminal.                                                           *)

LEMMA ByTerminalKeeps ==
  ASSUME IInv, NEW g, Good(g), ByTerminal(g), UNCHANGED cwd
  PROVE  IInv'
<1>1. fs' = g /\ Behind(g) /\ touched' = touched \cup Disturbed(g) /\ UNCHANGED <<fm, ed, handed, asked>>
  BY DEF ByTerminal, Counted
<1>2. ManagerInv /\ EditorInv /\ handed \in Targets /\ cwd \in Places
  BY IInvParts
<1>3. ManagerInv'
  BY <1>1, <1>2, BehindKeeps
<1>4. EditorInv'
  BY <1>1, <1>2, DisturbedKeeps
<1>5. IInv' <=> /\ Good(fs') /\ cwd' \in Places /\ handed' \in Targets /\ ManagerInv' /\ EditorInv'
  BY DEF IInv, ManagerInv, EditorInv
<1> QED
  BY <1>1, <1>2, <1>3, <1>4, <1>5

LEMMA OnlyCwdKeeps ==
  ASSUME IInv, cwd' \in Places, UNCHANGED <<fs, fm, ed, handed, ghosts>>
  PROVE  IInv'
<1>1. ManagerInv'
  BY IInvParts, ManagerRests DEF ghosts
<1>2. EditorInv'
  BY IInvParts, EditorsRest DEF ghosts
<1>3. IInv' <=> /\ Good(fs') /\ cwd' \in Places /\ handed' \in Targets /\ ManagerInv' /\ EditorInv'
  BY DEF IInv, ManagerInv, EditorInv
<1> QED
  BY <1>1, <1>2, <1>3, IInvParts

LEMMA TerminalKeeps ==
  ASSUME IInv, Terminal
  PROVE  IInv'
<1>0. Good(fs) /\ cwd \in Places
  BY IInvParts
<1>1. ASSUME NEW path \in Paths, CmdCd(path) PROVE IInv'
  <2>1. cwd' \in Places /\ UNCHANGED <<fs, fm, ed, handed, ghosts>>
    BY <1>1 DEF CmdCd, IsDir, Places
  <2> QED
    BY <2>1, OnlyCwdKeeps
<1>2. ASSUME NEW path \in Paths, CmdRd(path) \/ CmdDel(path) PROVE IInv'
  <2> DEFINE r == FsDelete(fs, At(path))
  <2>1. ByTerminal(r.fs) /\ UNCHANGED cwd
    BY <1>2 DEF CmdRd, CmdDel
  <2>2. Good(r.fs)
    BY <1>0, DeleteGood
  <2> HIDE DEF r
  <2> QED
    BY <2>1, <2>2, ByTerminalKeeps
<1>3. ASSUME NEW n \in Names, CmdMd(n) PROVE IInv'
  <2> DEFINE r == FsCreate(fs, cwd, n, "folder")
  <2>1. ByTerminal(r.fs) /\ UNCHANGED cwd
    BY <1>3 DEF CmdMd
  <2>2. Good(r.fs)
    BY <1>0, CreateGood DEF Places
  <2> HIDE DEF r
  <2> QED
    BY <2>1, <2>2, ByTerminalKeeps
<1>4. ASSUME NEW path \in Paths, NEW n \in Names, CmdRen(path, n) PROVE IInv'
  <2> DEFINE r == FsRename(fs, At(path), n)
  <2>1. ByTerminal(r.fs) /\ UNCHANGED cwd
    BY <1>4 DEF CmdRen
  <2>2. Good(r.fs)
    BY <1>0, RenameGood
  <2> HIDE DEF r
  <2> QED
    BY <2>1, <2>2, ByTerminalKeeps
<1>5. ASSUME NEW path \in Paths, NEW to \in Paths, CmdCopy(path, to) PROVE IInv'
  <2> DEFINE dest == At(to)
             into == FsCopyTo(fs, At(path), dest)
             here == FsCopy(fs, At(path), cwd, AsName(to))
             g == IF IsDir(dest) THEN into.fs ELSE here.fs
  <2>1. /\ ByTerminal(g) /\ UNCHANGED cwd
        /\ IsDir(dest) \/ AsName(to) \in Names
    BY <1>5 DEF CmdCopy
  <2> HIDE DEF dest
  <2>2. Good(g)
    <3>1. CASE IsDir(dest)
      <4>1. dest \in Ids \cup {FS_ROOT}
        BY <3>1 DEF IsDir
      <4>2. Good(into.fs)
        BY <1>0, <4>1, CopyToGood
      <4> QED
        BY <3>1, <4>2
    <3>2. CASE ~IsDir(dest)
      <4>1. Good(here.fs)
        BY <1>0, <2>1, <3>2, CopiesAreFaithful DEF Places
      <4> QED
        BY <3>2, <4>1
    <3> QED
      BY <3>1, <3>2
  <2> HIDE DEF g
  <2> QED
    BY <2>1, <2>2, ByTerminalKeeps
<1>6. ASSUME NEW path \in Paths, NEW n \in Names, NEW p \in Texts, CmdCc(path, n, p) PROVE IInv'
  <2> DEFINE made == FsCreate(fs, cwd, n, "file")
             written == FsWrite(made.fs, made.id, p)
             g == IF made.id < 0 THEN fs ELSE written.fs
  <2>1. ByTerminal(g) /\ UNCHANGED cwd
    BY <1>6 DEF CmdCc
  <2>2. Good(made.fs)
    BY <1>0, CreateGood DEF Places
  <2> HIDE DEF made
  <2>3. Good(written.fs)
    BY <2>2, WriteGood
  <2>4. Good(g)
    BY <1>0, <2>3
  <2> HIDE DEF g
  <2> QED
    BY <2>1, <2>4, ByTerminalKeeps
<1>7. ASSUME TmReopen PROVE IInv'
  <2>1. cwd' \in Places /\ UNCHANGED <<fs, fm, ed, handed, ghosts>>
    BY <1>7 DEF TmReopen, Places
  <2> QED
    BY <2>1, OnlyCwdKeeps
<1> QED
  BY <1>1, <1>2, <1>3, <1>4, <1>5, <1>6, <1>7 DEF Terminal

-----------------------------------------------------------------------------
(* The text editor.                                                        *)

\* A change by the text editor, or none.
LEMMA ByEditorKeeps ==
  ASSUME IInv, NEW g, Good(g), NEW e \in Editors, NEW s, Tidy(s), ByEditor(e, s, g),
         \A d \in Editors \ {e} :
           d \notin touched' /\ ~ed[d].dirty => d \notin touched /\ d \notin Disturbed(g),
         e \notin touched' => Agrees(s, g)
  PROVE  IInv'
<1>1. fs' = g /\ Behind(g) /\ ed' = [ed EXCEPT ![e] = s] /\ UNCHANGED <<fm, cwd, handed, asked>>
  BY DEF ByEditor, Counted
<1>2. ManagerInv /\ EditorInv /\ handed \in Targets /\ cwd \in Places
  BY IInvParts
<1>3. ManagerInv'
  BY <1>1, <1>2, BehindKeeps
<1>4. EditorInv'
  BY <1>1, <1>2, OneEditorKeeps
<1>5. IInv' <=> /\ Good(fs') /\ cwd' \in Places /\ handed' \in Targets /\ ManagerInv' /\ EditorInv'
  BY DEF IInv, ManagerInv, EditorInv
<1> QED
  BY <1>1, <1>2, <1>3, <1>4, <1>5

LEMMA EditorAloneKeeps ==
  ASSUME IInv, NEW e \in Editors, NEW s, Tidy(s), ed' = [ed EXCEPT ![e] = s],
         UNCHANGED <<fs, fm, cwd, stale, asked>>, handed' \in Targets,
         \A d \in Editors \ {e} : d \notin touched' => d \notin touched,
         e \notin touched' => Agrees(s, fs)
  PROVE  IInv'
<1>1. ManagerInv /\ EditorInv
  BY IInvParts
<1>2. ManagerInv'
  BY <1>1, ManagerRests
<1>3. \A d \in Editors \ {e} :
        d \notin touched' /\ ~ed[d].dirty => d \notin touched /\ d \notin Disturbed(fs)
  BY <1>1, NoneDisturbed
<1>4. EditorInv'
  BY <1>1, <1>3, OneEditorKeeps
<1>5. IInv' <=> /\ Good(fs') /\ cwd' \in Places /\ handed' \in Targets /\ ManagerInv' /\ EditorInv'
  BY DEF IInv, ManagerInv, EditorInv
<1> QED
  BY <1>2, <1>4, <1>5, IInvParts

LEMMA SaveToKeeps ==
  ASSUME IInv, NEW f, Good(f), NEW e \in Editors, NEW s \in EditorStates,
         s.file \in Ids, ~s.naming, SaveTo(e, s, f),
         e \notin touched => Agrees(s, f)
  PROVE  IInv'
<1> DEFINE written == FsWrite(f, s.file, s.text)
           left2 == s.dirty /\ written.id < 0
           v == [s EXCEPT !.dirty = left2]
<1>1. /\ ByEditor(e, v, written.fs)
      /\ touched' = (touched \cup Disturbed(written.fs)) \ (IF written.id < 0 THEN {} ELSE {e})
  BY DEF SaveTo
<1>2. s.text \in Texts \cup {""} /\ s.file \in Ids \cup {Untitled}
  BY DEF EditorStates
<1>3. /\ Good(written.fs)
      /\ (written.id = -1 /\ written.fs = f) \/ Rewritten(f, written, s.file, s.text)
  BY <1>2, WriteGood
<1> HIDE DEF written
<1>4. left2 \in BOOLEAN
  BY DEF left2
<1> HIDE DEF left2
<1>5. v \in EditorStates /\ v.dirty = left2 /\ v.file = s.file /\ v.text = s.text
      /\ v.naming = s.naming /\ v.open = s.open
  BY <1>4 DEF EditorStates
<1> HIDE DEF v
<1>6. Tidy(v)
  BY <1>5, NoneIsNegative DEF Tidy, Untitled
<1>7. e \notin touched' => Agrees(v, written.fs)
  <2>1. CASE written.id = -1 /\ written.fs = f
    <3>1. v.dirty = s.dirty /\ touched' = touched \cup Disturbed(written.fs)
      <4>1. written.id < 0
        BY <2>1, NoneIsNegative
      <4>2. left2 <=> s.dirty
        BY <4>1 DEF left2
      <4>3. s.dirty \in BOOLEAN
        BY DEF EditorStates
      <4>4. left2 = s.dirty
        BY <1>4, <4>2, <4>3
      <4> QED
        BY <1>1, <1>5, <4>1, <4>4
    <3> QED
      BY <1>5, <2>1, <3>1 DEF Agrees
  <2>2. CASE Rewritten(f, written, s.file, s.text)
    BY <1>5, <2>2 DEF Agrees, Rewritten, IsFile
  <2> QED
    BY <1>3, <2>1, <2>2
<1>8. \A d \in Editors \ {e} : d \notin touched' => d \notin touched /\ d \notin Disturbed(written.fs)
  BY <1>1
<1> QED
  BY <1>1, <1>3, <1>6, <1>7, <1>8, ByEditorKeeps

LEMMA EdOnlyKeeps ==
  ASSUME IInv, NEW e \in Editors, NEW s, Tidy(s), EdOnly(e, s), Agrees(s, fs) \/ e \in touched
  PROVE  IInv'
<1>1. ed' = [ed EXCEPT ![e] = s] /\ UNCHANGED <<fs, fm, cwd, stale, asked, handed, touched>>
  BY DEF EdOnly, ghosts
<1>2. handed' \in Targets
  BY <1>1, IInvParts
<1> QED
  BY <1>1, <1>2, EditorAloneKeeps

LEMMA EdCreateKeeps ==
  ASSUME IInv, NEW t \in Targets, EdCreate(t), UNCHANGED <<fs, fm, cwd, stale, asked, left>>
  PROVE  IInv'
<1>0. NoTarget \in Targets
  BY DEF NoTarget, Targets, Places
<1>1. ASSUME NEW e \in Editors, ed' = [ed EXCEPT ![e] = Loaded(t)], handed' = NoTarget,
             touched' = IF t.file \in Ids /\ ~IsFile(fs.table, t.file)
                        THEN touched \cup {e} ELSE touched \ {e}
      PROVE  IInv'
  <2> DEFINE s == Loaded(t)
             text == FsRead(fs, t.file)
  <2>1. t.file \in Ids \cup {Untitled} /\ t.parent \in Places
    BY DEF Targets
  <2>2. text \in Texts \cup {""}
    BY IInvParts, Fields DEF FsRead, Good
  <2>3. t.file \in Ids /\ IsFile(fs.table, t.file) => text = fs.text[t.file]
    BY DEF FsRead
  <2>4. t.file = Untitled => text = ""
    BY NoneIsNegative DEF FsRead, Untitled
  <2> HIDE DEF text
  <2>5. s \in EditorStates /\ s.file = t.file /\ s.text = text /\ ~s.dirty /\ ~s.naming
    BY <2>1, <2>2 DEF Loaded, Closed, EditorStates, Places, text
  <2>6. ed' = [ed EXCEPT ![e] = s]
    BY <1>1
  <2> HIDE DEF s
  <2>7. Tidy(s)
    BY <2>4, <2>5 DEF Tidy
  <2>8. e \notin touched' => Agrees(s, fs)
    BY <1>1, <2>3, <2>5 DEF Agrees
  <2>9. \A d \in Editors \ {e} : d \notin touched' => d \notin touched
    BY <1>1
  <2>10. handed' \in Targets
    BY <1>0, <1>1
  <2> QED
    BY <2>6, <2>7, <2>8, <2>9, <2>10, EditorAloneKeeps
<1>2. CASE handed' = t /\ UNCHANGED <<ed, touched>>
  <2>1. ManagerInv'
    BY IInvParts, ManagerRests
  <2>2. EditorInv'
    BY <1>2, IInvParts, EditorsRest
  <2>3. IInv' <=> /\ Good(fs') /\ cwd' \in Places /\ handed' \in Targets /\ ManagerInv' /\ EditorInv'
    BY DEF IInv, ManagerInv, EditorInv
  <2> QED
    BY <1>2, <2>1, <2>2, <2>3, IInvParts
<1> QED
  BY <1>1, <1>2 DEF EdCreate

\* What the invariant says of one editor.
LEMMA EditorIs ==
  ASSUME IInv, NEW e \in Editors
  PROVE  /\ ed \in [Editors -> EditorStates] /\ ed[e] \in EditorStates /\ Tidy(ed[e])
         /\ e \notin touched => Agrees(ed[e], fs)
BY DEF IInv, EditorsOK, CleanMeansSaved, Agrees

LEMMA TextEditorKeeps ==
  ASSUME IInv, TextEditor
  PROVE  IInv'
<1>0. Good(fs) /\ handed \in Targets /\ fm.cwd \in Places /\ fm.list \subseteq Ids
  BY DEF IInv, Managed, ManagerStates
<1>1. ASSUME EdLaunch PROVE IInv'
  BY <1>0, <1>1, EdCreateKeeps DEF EdLaunch
<1>2. ASSUME NEW i \in fm.list, FmOpenFile(i) PROVE IInv'
  <2> DEFINE t == [file |-> i, parent |-> fm.cwd]
  <2>1. t \in Targets
    BY <1>0 DEF Targets
  <2>2. EdCreate(t) /\ UNCHANGED <<fs, fm, cwd, stale, asked, left>>
    BY <1>2 DEF FmOpenFile
  <2> HIDE DEF t
  <2> QED
    BY <2>1, <2>2, EdCreateKeeps
<1>3. ASSUME NEW e \in Editors, EdSave(e) PROVE IInv'
  <2> DEFINE s == ed[e]
  <2>1. s \in EditorStates /\ Tidy(s) /\ (e \notin touched => Agrees(s, fs))
    BY EditorIs
  <2>2. CASE s.file \in Ids
    <3>1. SaveTo(e, s, fs) /\ ~s.naming
      BY <1>3, <2>2 DEF EdSave
    <3> QED
      BY <1>0, <2>1, <2>2, <3>1, SaveToKeeps
  <2>3. CASE s.file \notin Ids
    <3> DEFINE v == [s EXCEPT !.naming = TRUE]
    <3>1. EdOnly(e, v)
      BY <1>3, <2>3 DEF EdSave
    <3> HIDE DEF s
    <3>2. v \in EditorStates /\ v.file = s.file /\ v.text = s.text /\ v.dirty = s.dirty
      BY <2>1 DEF EditorStates
    <3>3. s.file = Untitled
      BY <2>1, <2>3 DEF EditorStates
    <3> HIDE DEF v
    <3>4. Tidy(v) /\ Agrees(v, fs)
      BY <2>1, <2>3, <3>2, <3>3 DEF Tidy, Agrees
    <3> QED
      BY <3>1, <3>4, EdOnlyKeeps
  <2> QED
    BY <2>2, <2>3
<1>4. ASSUME NEW e \in Editors, EdEscape(e) PROVE IInv'
  <2> DEFINE s == ed[e]
             v == [s EXCEPT !.naming = FALSE]
  <2>1. s \in EditorStates /\ Tidy(s) /\ (e \notin touched => Agrees(s, fs))
    BY EditorIs
  <2>2. EdOnly(e, v)
    BY <1>4 DEF EdEscape
  <2> HIDE DEF s
  <2>3. /\ v \in EditorStates /\ v.file = s.file /\ v.text = s.text /\ v.dirty = s.dirty
        /\ v.open = s.open /\ ~v.naming
    BY <2>1 DEF EditorStates
  <2> HIDE DEF v
  <2>4. Tidy(v) /\ (e \notin touched => Agrees(v, fs))
    BY <2>1, <2>3 DEF Tidy, Agrees
  <2> QED
    BY <2>2, <2>4, EdOnlyKeeps
<1>5. ASSUME NEW e \in Editors, EdClose(e) PROVE IInv'
  <2>1. ed' = [ed EXCEPT ![e] = Closed] /\ touched' = touched \ {e}
        /\ UNCHANGED <<fs, fm, cwd, handed, stale, asked>>
    BY <1>5 DEF EdClose
  <2>2. Closed \in EditorStates /\ Closed.text = "" /\ ~Closed.naming /\ ~Closed.open
    BY DEF Closed, EditorStates, Places
  <2>3. Tidy(Closed) /\ Agrees(Closed, fs)
    BY <2>2 DEF Tidy, Agrees
  <2>4. \A d \in Editors \ {e} : d \notin touched' => d \notin touched
    BY <2>1
  <2>5. handed' \in Targets
    BY <1>0, <2>1
  <2> QED
    BY <2>1, <2>3, <2>4, <2>5, EditorAloneKeeps
<1>6. ASSUME NEW e \in Editors, NEW t \in Texts \cup {""}, EdType(e, t) PROVE IInv'
  <2> DEFINE s == ed[e]
             v == [s EXCEPT !.text = t, !.dirty = TRUE]
  <2>1. s \in EditorStates /\ Tidy(s)
    BY EditorIs
  <2>2. EdOnly(e, v)
    BY <1>6 DEF EdType
  <2> HIDE DEF s
  <2>3. v \in EditorStates /\ v.file = s.file /\ v.dirty /\ v.naming = s.naming
    BY <2>1 DEF EditorStates
  <2> HIDE DEF v
  <2>4. Tidy(v) /\ Agrees(v, fs)
    BY <2>1, <2>3 DEF Tidy, Agrees
  <2> QED
    BY <2>2, <2>4, EdOnlyKeeps
<1>7. ASSUME NEW e \in Editors, NEW n \in Typed, EdSaveAs(e, n) PROVE IInv'
  <2> DEFINE made == FsCreate(fs, ed[e].parent, n, "file")
             u == [ed[e] EXCEPT !.naming = FALSE]
             v == [u EXCEPT !.file = made.id]
  <2>1. ed[e] \in EditorStates /\ Tidy(ed[e]) /\ (e \notin touched => Agrees(ed[e], fs)) /\ ed[e].naming
    BY <1>7, EditorIs DEF EdSaveAs
  <2>2. ed[e].parent \in Ids \cup {FS_ROOT}
    BY <2>1 DEF EditorStates, Places
  <2>3. /\ Good(made.fs)
        /\ \/ made.id = -1 /\ made.fs = fs
           \/ Copied(fs, made, ed[e].parent, n, "file") /\ made.fs.text[made.id] = ""
    <3>1. Good(made.fs) /\ ((made.id = -1 /\ made.fs = fs) \/ Copied(fs, made, ed[e].parent, n, "file"))
      BY <1>0, <2>2, CreateResult
    <3>2. made.id = -1 \/ made.fs.text[made.id] = ""
      BY <1>0, <2>2, CreateGood
    <3> HIDE DEF made
    <3> QED
      BY <3>1, <3>2, NoneIsNegative DEF Copied
  <2>4. IF made.id < 0 THEN EdOnly(e, u) ELSE SaveTo(e, v, made.fs)
    BY <1>7 DEF EdSaveAs
  <2> HIDE DEF made
  <2>5. /\ u \in EditorStates /\ u.file = ed[e].file /\ u.text = ed[e].text
        /\ u.dirty = ed[e].dirty /\ u.open = ed[e].open /\ ~u.naming
    BY <2>1 DEF EditorStates
  <2> HIDE DEF u
  <2>6. CASE made.id < 0
    <3>1. Tidy(u) /\ (e \notin touched => Agrees(u, fs))
      BY <2>1, <2>5 DEF Tidy, Agrees
    <3>2. EdOnly(e, u)
      BY <2>4, <2>6
    <3> QED
      BY <3>1, <3>2, EdOnlyKeeps
  <2>7. CASE ~(made.id < 0)
    <3>1. Copied(fs, made, ed[e].parent, n, "file") /\ made.fs.text[made.id] = ""
      BY <2>3, <2>7, NoneIsNegative
    <3>2. made.id \in Ids /\ IsFile(made.fs.table, made.id)
      BY <3>1 DEF Copied, IsFile
    <3>3. /\ v \in EditorStates /\ v.file = made.id /\ v.text = u.text
          /\ v.dirty = u.dirty /\ ~v.naming
      BY <2>5, <3>2 DEF EditorStates
    <3>4. SaveTo(e, v, made.fs)
      BY <2>4, <2>7
    <3> HIDE DEF v
    <3>5. ~v.dirty => v.text = ""
      BY <2>1, <2>5, <3>3 DEF Tidy
    <3>6. Agrees(v, made.fs)
      BY <3>1, <3>2, <3>3, <3>5 DEF Agrees
    <3> QED
      BY <2>3, <3>2, <3>3, <3>4, <3>6, SaveToKeeps
  <2> QED
    BY <2>6, <2>7
<1> QED
  BY <1>1, <1>2, <1>3, <1>4, <1>5, <1>6, <1>7 DEF TextEditor

-----------------------------------------------------------------------------
(* The file manager.                                                       *)

LEMMA ByFileManagerKeeps ==
  ASSUME IInv, NEW f \in ManagerStates, f.cwd = fm.cwd, ~f.confirm,
         NEW g, Good(g), NEW D, Stand(fs, g, D), fm.cwd \notin D,
         ByFileManager(f, g)
  PROVE  IInv'
<1>1. /\ fs' = g /\ touched' = touched \cup Disturbed(g)
      /\ UNCHANGED <<cwd, ed, handed>>
  BY DEF ByFileManager, Counted
<1>2. ManagerInv /\ EditorInv /\ handed \in Targets /\ cwd \in Places
  BY IInvParts
<1>3. ManagerInv'
  BY <1>2, RefreshKeeps
<1>4. EditorInv'
  BY <1>1, <1>2, DisturbedKeeps
<1>5. IInv' <=> /\ Good(fs') /\ cwd' \in Places /\ handed' \in Targets /\ ManagerInv' /\ EditorInv'
  BY DEF IInv, ManagerInv, EditorInv
<1> QED
  BY <1>1, <1>2, <1>3, <1>4, <1>5

LEMMA OnlyFmKeeps ==
  ASSUME IInv, OnlyFm, Managed(fm'), fm'.confirm => asked' = fm'.sel,
         "list" \notin stale' => fm'.list = Children(fs.table, fm'.cwd),
         "tree" \notin stale' => fm'.rows = TreeRows(fs.table, fm'.expanded),
         "cwd" \notin stale' => ParentOk(fs.table, fm'.cwd)
  PROVE  IInv'
<1>1. UNCHANGED <<fs, cwd, ed, handed, touched>>
  BY DEF OnlyFm
<1>2. ManagerInv'
  BY <1>1 DEF ManagerInv, AskedSelection, ListingFresh
<1>3. EditorInv'
  BY <1>1, EditorsRest, IInvParts
<1>4. IInv' <=> /\ Good(fs') /\ cwd' \in Places /\ handed' \in Targets /\ ManagerInv' /\ EditorInv'
  BY DEF IInv, ManagerInv, EditorInv
<1> QED
  BY <1>1, <1>2, <1>3, <1>4, IInvParts

\* A command that sets neither the folder, the listing nor the tree.
SameView(f, g) ==
  g.cwd = f.cwd /\ g.list = f.list /\ g.rows = f.rows /\ g.expanded = f.expanded

LEMMA SameViewKeeps ==
  ASSUME IInv, OnlyFm, stale' = stale, Managed(fm'), SameView(fm, fm'),
         fm'.confirm => asked' = fm'.sel
  PROVE  IInv'
<1>1. ListingFresh
  BY DEF IInv
<1>2. /\ "list" \notin stale' => fm'.list = Children(fs.table, fm'.cwd)
      /\ "tree" \notin stale' => fm'.rows = TreeRows(fs.table, fm'.expanded)
      /\ "cwd" \notin stale' => ParentOk(fs.table, fm'.cwd)
  BY <1>1 DEF ListingFresh, SameView
<1> QED
  BY <1>2, OnlyFmKeeps

LEMMA FmCommandKeeps ==
  ASSUME IInv, NEW f, FmCommand(f), Managed(f), SameView(fm, f), f.confirm = fm.confirm
  PROVE  IInv'
BY SameViewKeeps DEF FmCommand, Modal

\* The deletion of the selected items.
LEMMA DeleteSelectedKeeps ==
  ASSUME IInv, NEW f \in ManagerStates, f.cwd = fm.cwd, f.sel = fm.sel, ~f.confirm, DeleteSelected(f)
  PROVE  IInv'
<1> DEFINE g == AllDeleted(fm.sel)
<1>1. Good(g) /\ Stand(fs, g, fm.sel)
  BY IInvParts, DeletionsGood
<1>2. ByFileManager(f, g)
  BY DEF DeleteSelected
<1> HIDE DEF g
<1>3. fm.cwd \notin fm.sel
  BY DEF IInv, Managed
<1> QED
  BY <1>1, <1>2, <1>3, ByFileManagerKeeps

\* What the invariant says of the file manager.
LEMMA ManagerIs ==
  ASSUME IInv
  PROVE  /\ fm \in ManagerStates /\ Managed(fm) /\ Good(fs) /\ Graded(fs.table)
         /\ fm.rows \subseteq Ids \cup {FS_ROOT} /\ fm.list \subseteq Ids
         /\ fm.cwd \in Ids \cup {FS_ROOT} /\ ListingFresh
BY DEF IInv, Managed, Good, ManagerStates, Places

\* Every row of a fresh tree is a folder.
LEMMA RowsAreFolders ==
  ASSUME NEW tb, NEW expanded, NEW r \in TreeRows(tb, expanded) PROVE ParentOk(tb, r)
BY DEF TreeRows, Reached, ParentOk

LEMMA ViewsKeep ==
  ASSUME IInv,
         \/ \E S \in SUBSET fm.list : FmSelect(S)
         \/ \E i \in fm.list : FmRename(i)
         \/ \E kind \in {"folder", "file"} : FmNew(kind)
         \/ \E kind \in {"move", "copy"} : FmTransfer(kind)
         \/ FmEscape
  PROVE  IInv'
<1>0. fm \in ManagerStates /\ Managed(fm)
  BY ManagerIs
<1>1. ASSUME NEW S \in SUBSET fm.list, FmSelect(S) PROVE IInv'
  <2>1. fm' = [fm EXCEPT !.sel = S] /\ ~fm.confirm /\ OnlyFm /\ stale' = stale
    BY <1>1 DEF FmSelect, Modal
  <2>2. fm' \in ManagerStates /\ SameView(fm, fm') /\ fm'.sel = S /\ ~fm'.confirm
    BY <1>0, <2>1 DEF ManagerStates, SameView
  <2>3. Managed(fm')
    BY <1>0, <2>2 DEF Managed, SameView
  <2> QED
    BY <2>1, <2>2, <2>3, SameViewKeeps
<1>2. ASSUME NEW i \in fm.list, FmRename(i) PROVE IInv'
  <2> DEFINE f == [fm EXCEPT !.prompt = "rename", !.target = i]
  <2>1. FmCommand(f)
    BY <1>2 DEF FmRename
  <2>2. i \in Ids
    BY ManagerIs
  <2>3. f \in ManagerStates /\ SameView(fm, f) /\ f.confirm = fm.confirm /\ f.sel = fm.sel
    BY <1>0, <2>2 DEF ManagerStates, SameView
  <2> HIDE DEF f
  <2>4. Managed(f)
    BY <1>0, <2>3 DEF Managed, SameView
  <2> QED
    BY <2>1, <2>3, <2>4, FmCommandKeeps
<1>3. ASSUME NEW kind \in {"folder", "file"}, FmNew(kind) PROVE IInv'
  <2> DEFINE f == [fm EXCEPT !.prompt = kind]
  <2>1. FmCommand(f)
    BY <1>3 DEF FmNew
  <2>2. f \in ManagerStates /\ SameView(fm, f) /\ f.confirm = fm.confirm /\ f.sel = fm.sel
    BY <1>0 DEF ManagerStates, SameView
  <2> HIDE DEF f
  <2>3. Managed(f)
    BY <1>0, <2>2 DEF Managed, SameView
  <2> QED
    BY <2>1, <2>2, <2>3, FmCommandKeeps
<1>4. ASSUME NEW kind \in {"move", "copy"}, FmTransfer(kind) PROVE IInv'
  <2> DEFINE f == [fm EXCEPT !.pending = kind]
  <2>1. FmCommand(f)
    BY <1>4 DEF FmTransfer
  <2>2. f \in ManagerStates /\ SameView(fm, f) /\ f.confirm = fm.confirm /\ f.sel = fm.sel
    BY <1>0 DEF ManagerStates, SameView
  <2> HIDE DEF f
  <2>3. Managed(f)
    BY <1>0, <2>2 DEF Managed, SameView
  <2> QED
    BY <2>1, <2>2, <2>3, FmCommandKeeps
<1>5. ASSUME FmEscape PROVE IInv'
  <2>1. fm' = [fm EXCEPT !.prompt = "none", !.target = -1] /\ ~fm.confirm /\ OnlyFm /\ stale' = stale
    BY <1>5 DEF FmEscape
  <2>2. fm' \in ManagerStates
    BY <1>0, <2>1 DEF ManagerStates
  <2>3. SameView(fm, fm') /\ fm'.sel = fm.sel /\ ~fm'.confirm
    BY <1>0, <2>1 DEF ManagerStates, SameView
  <2>4. Managed(fm')
    BY <1>0, <2>2, <2>3 DEF Managed, SameView
  <2> QED
    BY <2>1, <2>3, <2>4, SameViewKeeps
<1> QED
  BY <1>1, <1>2, <1>3, <1>4, <1>5

\* Listing folder r, which is one unless the tree is out of date.
LEMMA WalkKeeps ==
  ASSUME IInv, NEW r \in Ids \cup {FS_ROOT}, NEW f, f = [fm EXCEPT !.cwd = r], fm' = Listed(f, fs.table),
         ~fm.confirm, OnlyFm, "tree" \notin stale' => "tree" \notin stale,
         "cwd" \notin stale' => ParentOk(fs.table, r)
  PROVE  IInv'
<1>0. Graded(fs.table)
  BY ManagerIs
<1>1. f \in ManagerStates /\ f.cwd = r /\ f.rows = fm.rows /\ f.expanded = fm.expanded /\ ~f.confirm
  BY ManagerIs DEF ManagerStates, Places
<1>2. /\ Managed(fm') /\ SameCommand(f, fm')
      /\ fm'.list = Children(fs.table, f.cwd) /\ fm'.rows = f.rows
  BY <1>0, <1>1, Listing
<1>3. fm'.cwd = r /\ fm'.expanded = fm.expanded /\ ~fm'.confirm
  BY <1>1, <1>2 DEF SameCommand
<1>4. "tree" \notin stale' => fm'.rows = TreeRows(fs.table, fm'.expanded)
  BY <1>1, <1>2, <1>3 DEF IInv, ListingFresh
<1> QED
  BY <1>1, <1>2, <1>3, <1>4, OnlyFmKeeps

LEMMA WalksKeep ==
  ASSUME IInv,
         \/ \E i \in fm.list : FmEnter(i)
         \/ \E r \in fm.rows : FmGoTo(r) \/ FmToggle(r)
         \/ FmSort \/ FmReopen
  PROVE  IInv'
<1>0. fm \in ManagerStates /\ Managed(fm) /\ Graded(fs.table)
  BY ManagerIs
<1>1. ASSUME NEW i \in fm.list, FmEnter(i) PROVE IInv'
  <2> DEFINE f == [fm EXCEPT !.cwd = i]
  <2>1. /\ fm' = Listed(f, fs.table) /\ ~fm.confirm /\ OnlyFm /\ stale' = stale \ {"list", "cwd"}
        /\ IsFolder(fs.table, i)
    BY <1>1 DEF FmEnter, Modal
  <2>2. i \in Ids \cup {FS_ROOT} /\ ParentOk(fs.table, i)
    BY <2>1, ManagerIs DEF ParentOk
  <2> HIDE DEF f
  <2>3. f = [fm EXCEPT !.cwd = i]
    BY DEF f
  <2> QED
    BY <2>1, <2>2, <2>3, WalkKeeps
<1>2. ASSUME NEW r \in fm.rows, FmGoTo(r) PROVE IInv'
  <2> DEFINE f == [fm EXCEPT !.cwd = r]
  <2>1. /\ fm' = Listed(f, fs.table) /\ ~fm.confirm /\ OnlyFm
        /\ stale' = (stale \ {"list", "cwd"})
                      \cup (IF "tree" \in stale /\ ~ParentOk(fs.table, r) THEN {"cwd"} ELSE {})
    BY <1>2 DEF FmGoTo, Modal
  <2>2. r \in Ids \cup {FS_ROOT}
    BY ManagerIs
  <2>3. "cwd" \notin stale' => ParentOk(fs.table, r)
    <3>1. CASE "tree" \in stale
      BY <2>1, <3>1
    <3>2. CASE "tree" \notin stale
      <4>1. fm.rows = TreeRows(fs.table, fm.expanded)
        BY <3>2, ManagerIs DEF ListingFresh
      <4> QED
        BY <4>1, RowsAreFolders
    <3> QED
      BY <3>1, <3>2
  <2> HIDE DEF f
  <2>4. f = [fm EXCEPT !.cwd = r]
    BY DEF f
  <2>5. "tree" \notin stale' => "tree" \notin stale
    BY <2>1
  <2> QED
    BY <2>1, <2>2, <2>3, <2>4, <2>5, WalkKeeps
<1>3. ASSUME NEW r \in fm.rows, FmToggle(r) PROVE IInv'
  <2> DEFINE wanted == (fm.expanded \ {r}) \cup ({r} \ fm.expanded)
             f == [fm EXCEPT !.expanded = wanted]
  <2>1. /\ fm' = Rebuilt(f, fs.table) /\ ~fm.confirm /\ OnlyFm /\ stale' = stale \ {"tree"}
        /\ r # FS_ROOT
    BY <1>3 DEF FmToggle, Modal
  <2>2. r \in Ids
    BY <2>1, ManagerIs
  <2>3. wanted \subseteq Ids
    BY <1>0, <2>2 DEF ManagerStates
  <2> HIDE DEF wanted
  <2>4. /\ f \in ManagerStates /\ f.cwd = fm.cwd /\ f.list = fm.list /\ f.sel = fm.sel
        /\ f.confirm = fm.confirm
    BY <1>0, <2>3 DEF ManagerStates
  <2> HIDE DEF f
  <2>5. /\ fm' \in ManagerStates /\ SameCommand(f, fm')
        /\ fm'.list = f.list /\ fm'.sel = f.sel /\ fm'.rows = TreeRows(fs.table, f.expanded)
    BY <2>1, <2>4, Rebuilding
  <2>6. Managed(fm')
    BY <1>0, <2>4, <2>5 DEF Managed, SameCommand
  <2>7. /\ "list" \notin stale' => fm'.list = Children(fs.table, fm'.cwd)
        /\ "tree" \notin stale' => fm'.rows = TreeRows(fs.table, fm'.expanded)
        /\ "cwd" \notin stale' => ParentOk(fs.table, fm'.cwd)
    BY <2>1, <2>4, <2>5, ManagerIs DEF ListingFresh, SameCommand
  <2>8. ~fm'.confirm
    BY <2>1, <2>4, <2>5 DEF SameCommand
  <2> QED
    BY <2>1, <2>6, <2>7, <2>8, OnlyFmKeeps
<1>4. ASSUME FmSort PROVE IInv'
  <2>1. fm' = Listed(fm, fs.table) /\ ~fm.confirm /\ OnlyFm /\ stale' = stale \ {"list"}
    BY <1>4 DEF FmSort, Modal
  <2>2. /\ Managed(fm') /\ SameCommand(fm, fm')
        /\ fm'.list = Children(fs.table, fm.cwd) /\ fm'.rows = fm.rows
    BY <1>0, <2>1, Listing
  <2>3. /\ "list" \notin stale' => fm'.list = Children(fs.table, fm'.cwd)
        /\ "tree" \notin stale' => fm'.rows = TreeRows(fs.table, fm'.expanded)
        /\ "cwd" \notin stale' => ParentOk(fs.table, fm'.cwd)
    BY <2>1, <2>2, ManagerIs DEF ListingFresh, SameCommand
  <2>4. ~fm'.confirm
    BY <2>1, <2>2 DEF SameCommand
  <2> QED
    BY <2>1, <2>2, <2>3, <2>4, OnlyFmKeeps
<1>5. ASSUME FmReopen PROVE IInv'
  <2>1. fm' = Opened(fs.table) /\ OnlyFm
    BY <1>5 DEF FmReopen
  <2>2. /\ Managed(fm') /\ ~fm'.confirm /\ fm'.cwd = FS_ROOT
        /\ fm'.list = Children(fs.table, fm'.cwd) /\ fm'.rows = TreeRows(fs.table, fm'.expanded)
    BY <1>0, <2>1, Opening
  <2>3. ParentOk(fs.table, fm'.cwd)
    BY <2>2 DEF ParentOk
  <2> QED
    BY <2>1, <2>2, <2>3, OnlyFmKeeps
<1> QED
  BY <1>1, <1>2, <1>3, <1>4, <1>5

LEMMA ChangesKeep ==
  ASSUME IInv,
         \/ \E r \in fm.rows : FmDestination(r)
         \/ \E S \in SUBSET fm.list, r \in fm.rows, ctrl \in BOOLEAN : FmDrop(S, r, ctrl)
         \/ \E n \in Typed : FmCommit(n)
         \/ \E yes \in BOOLEAN : FmAnswer(yes)
         \/ FmDelete
  PROVE  IInv'
<1>0. fm \in ManagerStates /\ Managed(fm) /\ Good(fs)
  BY ManagerIs
<1>1. ASSUME NEW r \in fm.rows, FmDestination(r) PROVE IInv'
  <2> DEFINE f == [fm EXCEPT !.pending = "none"]
             copying == fm.pending = "copy"
             g == Transferred(fm.sel, r, copying)
  <2>1. ByFileManager(f, g) /\ ~fm.confirm
    BY <1>1 DEF FmDestination, Modal
  <2>2. r \in Ids \cup {FS_ROOT}
    BY ManagerIs
  <2>3. f \in ManagerStates /\ f.cwd = fm.cwd /\ ~f.confirm
    BY <1>0, <2>1 DEF ManagerStates
  <2> HIDE DEF f, copying
  <2>4. Good(g) /\ Stand(fs, g, {})
    BY <1>0, <2>2, TransfersGood
  <2> HIDE DEF g
  <2> QED
    BY <2>1, <2>3, <2>4, ByFileManagerKeeps
<1>2. ASSUME NEW S \in SUBSET fm.list, NEW r \in fm.rows, NEW ctrl \in BOOLEAN, FmDrop(S, r, ctrl)
      PROVE  IInv'
  <2> DEFINE g == Transferred(S, r, ctrl)
  <2>1. ByFileManager(fm, g) /\ ~fm.confirm
    BY <1>2 DEF FmDrop, Modal
  <2>2. r \in Ids \cup {FS_ROOT}
    BY ManagerIs
  <2>3. Good(g) /\ Stand(fs, g, {})
    BY <1>0, <2>2, TransfersGood
  <2> HIDE DEF g
  <2> QED
    BY <1>0, <2>1, <2>3, ByFileManagerKeeps
<1>3. ASSUME NEW n \in Typed, FmCommit(n) PROVE IInv'
  <2> DEFINE f == [fm EXCEPT !.prompt = "none", !.target = -1]
             renamed == FsRename(fs, fm.target, n)
             created == FsCreate(fs, fm.cwd, n, fm.prompt)
             g == (IF fm.prompt = "rename" THEN renamed ELSE created).fs
  <2>1. ByFileManager(f, g) /\ ~fm.confirm /\ fm.prompt # "none"
    BY <1>3 DEF FmCommit
  <2>2. f \in ManagerStates /\ f.cwd = fm.cwd /\ ~f.confirm
    BY <1>0, <2>1 DEF ManagerStates
  <2> HIDE DEF f
  <2>3. Good(g) /\ Stand(fs, g, {})
    <3>1. CASE fm.prompt = "rename"
      <4>1. Good(renamed.fs) /\ Stand(fs, renamed.fs, {})
        BY <1>0, RenameGood
      <4> QED
        BY <3>1, <4>1
    <3>2. CASE fm.prompt # "rename"
      <4>1. fm.prompt \in {"folder", "file"} /\ fm.cwd \in Ids \cup {FS_ROOT}
        BY <1>0, <2>1, <3>2, ManagerIs DEF ManagerStates
      <4>2. Good(created.fs) /\ Keeps(fs, created.fs)
        BY <1>0, <4>1, CreateResult
      <4>3. Stand(fs, created.fs, {})
        BY <4>2, KeepsStand
      <4> QED
        BY <3>2, <4>2, <4>3
    <3> QED
      BY <3>1, <3>2
  <2> HIDE DEF g
  <2> QED
    BY <2>1, <2>2, <2>3, ByFileManagerKeeps
<1>4. ASSUME NEW yes \in BOOLEAN, FmAnswer(yes) PROVE IInv'
  <2> DEFINE f == [fm EXCEPT !.confirm = FALSE]
  <2>1. IF yes THEN DeleteSelected(f) ELSE fm' = f /\ OnlyFm /\ UNCHANGED stale
    BY <1>4 DEF FmAnswer
  <2>2. f \in ManagerStates /\ SameView(fm, f) /\ f.sel = fm.sel /\ ~f.confirm
    BY <1>0 DEF ManagerStates, SameView
  <2> HIDE DEF f
  <2>3. CASE yes
    BY <2>1, <2>2, <2>3, DeleteSelectedKeeps DEF SameView
  <2>4. CASE ~yes
    <3>1. Managed(f)
      BY <1>0, <2>2 DEF Managed, SameView
    <3> QED
      BY <2>1, <2>2, <2>4, <3>1, SameViewKeeps
  <2> QED
    BY <2>3, <2>4
<1>5. ASSUME FmDelete PROVE IInv'
  <2>1. ~fm.confirm
    BY <1>5 DEF FmDelete, Modal
  <2>2. CASE DeleteSelected(fm)
    BY <1>0, <2>1, <2>2, DeleteSelectedKeeps
  <2>3. CASE fm' = [fm EXCEPT !.confirm = TRUE] /\ asked' = fm.sel /\ OnlyFm /\ UNCHANGED stale
    <3>1. fm' \in ManagerStates /\ SameView(fm, fm') /\ fm'.sel = fm.sel
      BY <1>0, <2>3 DEF ManagerStates, SameView
    <3>2. Managed(fm')
      BY <1>0, <3>1 DEF Managed, SameView
    <3> QED
      BY <2>3, <3>1, <3>2, SameViewKeeps
  <2> QED
    BY <1>5, <2>2, <2>3 DEF FmDelete
<1> QED
  BY <1>1, <1>2, <1>3, <1>4, <1>5

LEMMA FileManagerKeeps ==
  ASSUME IInv, FileManager
  PROVE  IInv'
BY ViewsKeep, WalksKeep, ChangesKeep DEF FileManager

-----------------------------------------------------------------------------
(* The theorems.                                                           *)

LEMMA InitIInv == Init => IInv
<1> SUFFICES ASSUME Init PROVE IInv
  OBVIOUS
<1>1. PICK start \in Starts : fs = start.fs
  BY DEF Init
<1>2. Good(fs) /\ Graded(fs.table)
  BY <1>1, DesktopAssumption, InOrderGood DEF Good
<1>3. fm = Opened(fs.table) /\ cwd = FS_ROOT /\ handed = NoTarget /\ ed = [e \in Editors |-> Closed]
  BY DEF Init
<1>4. /\ Managed(fm) /\ ~fm.confirm /\ fm.cwd = FS_ROOT
      /\ fm.list = Children(fs.table, fm.cwd) /\ fm.rows = TreeRows(fs.table, fm.expanded)
  BY <1>2, <1>3, Opening
<1>5. AskedSelection /\ ListingFresh
  BY <1>4 DEF AskedSelection, ListingFresh, ParentOk
<1>6. cwd \in Places /\ handed \in Targets
  BY <1>3 DEF Places, Targets, NoTarget
<1>7. Closed \in EditorStates /\ Closed.text = "" /\ ~Closed.naming /\ ~Closed.open
  BY DEF Closed, EditorStates, Places
<1>8. Tidy(Closed)
  BY <1>7 DEF Tidy
<1>9. ed \in [Editors -> EditorStates] /\ \A e \in Editors : ed[e] = Closed
  BY <1>3, <1>7
<1>10. EditorsOK /\ CleanMeansSaved
  BY <1>7, <1>8, <1>9 DEF EditorsOK, CleanMeansSaved
<1> QED
  BY <1>2, <1>4, <1>5, <1>6, <1>10 DEF IInv

LEMMA NextIInv == IInv /\ [Next]_vars => IInv'
<1> SUFFICES ASSUME IInv, [Next]_vars PROVE IInv'
  OBVIOUS
<1>1. CASE UNCHANGED vars
  BY <1>1, OnlyCwdKeeps DEF vars, ghosts, IInv
<1>2. CASE FileManager
  BY <1>2, FileManagerKeeps
<1>3. CASE TextEditor
  BY <1>3, TextEditorKeeps
<1>4. CASE Terminal
  BY <1>4, TerminalKeeps
<1> QED
  BY <1>1, <1>2, <1>3, <1>4 DEF Next

LEMMA IInvHolds == Spec => []IInv
BY InitIInv, NextIInv, PTL DEF Spec

(* Whatever entry numbers the applications hold, however many changes they *)
(* make and in whatever order, the file system stays in order: copies that *)
(* fail half way and saves to entries used again included.                 *)
THEOREM FilesStayInOrder == Spec => []FilesWellFormed
BY IInvHolds, IInvInOrder, PTL

(* The file manager shows what is there and stands in a folder unless      *)
(* another application has made a change since: file_manager.c.            *)
THEOREM ListingStaysFresh == Spec => []ListingFresh
<1>1. IInv => ListingFresh
  BY DEF IInv
<1> QED
  BY <1>1, IInvHolds, PTL

(* An editor without unsaved changes shows its file: text_editor.c keeps   *)
(* te_save's promise whatever fails, for every number of editors.          *)
THEOREM CleanEditorsMatch == Spec => []CleanMeansSaved
<1>1. IInv => CleanMeansSaved
  BY DEF IInv
<1> QED
  BY <1>1, IInvHolds, PTL

\* Every entry that a step takes away while the question is answered was asked about.
LEMMA AnswerDeletesAsked ==
  ASSUME IInv, [Next]_vars, fm.confirm, ~fm'.confirm,
         NEW i \in Ids, fs.table[i].used, ~fs'.table[i].used
  PROVE  i \in asked
<1>1. CASE \E yes \in BOOLEAN : FmAnswer(yes)
  <2> DEFINE f == [fm EXCEPT !.confirm = FALSE]
             g == AllDeleted(fm.sel)
  <2>1. PICK yes \in BOOLEAN : FmAnswer(yes)
    BY <1>1
  <2>2. IF yes THEN DeleteSelected(f) ELSE OnlyFm
    BY <2>1 DEF FmAnswer
  <2>3. yes
    BY <2>2 DEF OnlyFm
  <2>4. fs' = g
    <3>1. f.sel = fm.sel
      BY ManagerIs DEF ManagerStates
    <3>2. fs' = AllDeleted(f.sel)
      BY <2>2, <2>3 DEF DeleteSelected, ByFileManager, Counted
    <3> QED
      BY <3>1, <3>2
  <2>5. Stand(fs, g, fm.sel)
    BY ManagerIs, DeletionsGood
  <2> HIDE DEF g
  <2>6. i \in fm.sel
    BY <2>4, <2>5 DEF Stand
  <2> QED
    BY <2>6 DEF IInv, AskedSelection
<1>2. CASE UNCHANGED fs \/ UNCHANGED fm
  BY <1>2
<1>3. CASE FileManager /\ ~\E yes \in BOOLEAN : FmAnswer(yes)
  <2>1. Modal
    BY DEF Modal
  <2>2. UNCHANGED fs
    BY <1>3, <2>1 DEF FileManager, FmSelect, FmEnter, FmRename, FmCommand, FmGoTo, FmToggle,
         FmDestination, FmDrop, FmNew, FmTransfer, FmCommit, FmDelete, FmSort, FmEscape, FmReopen,
         OnlyFm
  <2> QED
    BY <2>2
<1>4. CASE Terminal \/ TextEditor
  <2>1. Terminal => UNCHANGED fm
    BY DEF Terminal, CmdCd, CmdRd, CmdDel, CmdMd, CmdRen, CmdCopy, CmdCc, TmReopen, ByTerminal
  <2>2. ASSUME NEW e \in Editors, NEW n, EdSave(e) \/ EdSaveAs(e, n) PROVE UNCHANGED fm
    BY <2>2 DEF EdSave, EdSaveAs, SaveTo, EdOnly, ByEditor
  <2>3. TextEditor => UNCHANGED fm
    BY <2>2 DEF TextEditor, EdLaunch, FmOpenFile, EdEscape, EdClose, EdType, EdOnly
  <2> QED
    BY <1>4, <2>1, <2>3
<1>5. CASE UNCHANGED vars
  BY <1>5 DEF vars
<1> QED
  BY <1>1, <1>3, <1>4, <1>5 DEF Next

(* "Delete the selected items?" is about the items selected when it was    *)
(* put: the answer deletes no other entry, and "no" deletes none.          *)
THEOREM AnswersDeleteTheAsked == Spec => AskedOnly
<1>1. IInv /\ [Next]_vars =>
        [fm.confirm /\ ~fm'.confirm =>
           \A i \in Ids : fs.table[i].used /\ ~fs'.table[i].used => i \in asked]_vars
  BY AnswerDeletesAsked
<1> QED
  BY <1>1, IInvHolds, PTL DEF Spec, AskedOnly

(* A copy that fs_copy reports is the tree of its source, whatever its     *)
(* shape and depth and wherever in the table its parts come to lie; it is  *)
(* in a free entry and never below the source; and an entry that was there *)
(* is what it was, when the copy fails half way too.                       *)
THEOREM CopiesAreTrue == Spec => []CopyFaithful
<1>1. ASSUME IInv PROVE CopyFaithful
  <2> SUFFICES ASSUME NEW i \in Ids, NEW p \in Ids \cup {FS_ROOT}, NEW r, r = FsCopyTo(fs, i, p)
               PROVE  /\ Keeps(fs, r.fs)
                      /\ r.id >= 0 => /\ Tree(r.fs, r.id) = Tree(fs, i)
                                      /\ ~fs.table[r.id].used
                                      /\ ~Inside(fs.table, p, i)
    BY DEF CopyFaithful
  <2>1. Good(fs)
    BY <1>1 DEF IInv
  <2>2. /\ Keeps(fs, r.fs)
        /\ r.id = -1 \/ Copied(fs, r, p, fs.table[i].name, fs.table[i].type)
    BY <2>1, CopyToGood
  <2>3. r.id >= 0 => r.id \in Ids /\ ~fs.table[r.id].used
    BY <2>2, NoneIsNegative DEF Copied
  <2>4. r.id \in Ids => Tree(r.fs, r.id) = Tree(fs, i) /\ ~Inside(fs.table, p, i)
    BY <2>1, CopyToTrue
  <2> QED
    BY <2>2, <2>3, <2>4
<1> QED
  BY <1>1, IInvHolds, PTL
=============================================================================
