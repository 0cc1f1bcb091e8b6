----------------------------- MODULE TextLines -----------------------------
(***************************************************************************)
(* What a text editor is to its user: a list of lines with a cursor        *)
(* between two characters of one of them.  Going up and down keeps to the  *)
(* column where it began as far as the lines reach.                        *)
(***************************************************************************)
EXTENDS Integers, Sequences, SequencesExt, FiniteSets, FiniteSetsExt

CONSTANTS Capacity,   \* characters it holds, each line end counting as one
          Printable,
          NL, BS,     \* the keys that end a line and erase backwards
          Files       \* the texts it may be opened with, as lists of lines

VARIABLES lines,
          row, col,   \* the cursor, both from 0
          goal,       \* the column to keep to, or -1
          modified

lineVars == <<lines, row, col, goal, modified>>

Here == lines[row + 1]

\* The places of the characters, and what they and the line ends take up.
Places == UNION {{r} \X DOMAIN lines[r] : r \in DOMAIN lines}

Used == Cardinality(Places) + Len(lines) - 1

Init == /\ lines \in Files
        /\ row = 0 /\ col = 0 /\ goal = -1
        /\ modified = FALSE

At(r, c) == row' = r /\ col' = c

AtStart == row = 0 /\ col = 0

AtEnd == row + 1 = Len(lines) /\ col = Len(Here)

-----------------------------------------------------------------------------
(* The cursor. *)

Left == /\ \/ col > 0 /\ At(row, col - 1)
           \/ col = 0 /\ row > 0 /\ At(row - 1, Len(lines[row]))
           \/ AtStart /\ At(row, col)
        /\ goal' = -1 /\ UNCHANGED <<lines, modified>>

Right == /\ \/ col < Len(Here) /\ At(row, col + 1)
            \/ col = Len(Here) /\ row + 1 < Len(lines) /\ At(row + 1, 0)
            \/ AtEnd /\ At(row, col)
         /\ goal' = -1 /\ UNCHANGED <<lines, modified>>

Home == At(row, 0) /\ goal' = -1 /\ UNCHANGED <<lines, modified>>

End == At(row, Len(Here)) /\ goal' = -1 /\ UNCHANGED <<lines, modified>>

Vertical(r) == /\ goal' = IF goal = -1 THEN col ELSE goal
               /\ IF r \in 0 .. Len(lines) - 1
                  THEN At(r, Min({goal', Len(lines[r + 1])}))
                  ELSE At(row, col)
               /\ UNCHANGED <<lines, modified>>

-----------------------------------------------------------------------------
(* The text. *)

\* A change is remembered; a key that could change the text may be, too.
Edited == /\ lines' # lines => modified'
          /\ modified => modified'
          /\ goal' = -1

Put(l) == lines' = [lines EXCEPT ![row + 1] = l]

\* A key with no room for what it adds.
NoRoom == Used = Capacity /\ At(row, col) /\ lines' = lines /\ Edited

Type(c) == \/ /\ Used < Capacity
              /\ Put(InsertAt(Here, col + 1, c)) /\ At(row, col + 1)
              /\ Edited
           \/ NoRoom

\* As many of the four spaces as there is room for.
Tab == LET n == Min({4, Capacity - Used})
       IN  /\ Put(SubSeq(Here, 1, col) \o [i \in 1 .. n |-> " "] \o SubSeq(Here, col + 1, Len(Here)))
           /\ At(row, col + n)
           /\ Edited

Split == \/ /\ Used < Capacity
            /\ lines' = SubSeq(lines, 1, row)
                          \o <<SubSeq(Here, 1, col), SubSeq(Here, col + 1, Len(Here))>>
                          \o SubSeq(lines, row + 2, Len(lines))
            /\ At(row + 1, 0)
            /\ Edited
         \/ NoRoom

\* Line r and the next become one.
Joined(r) == SubSeq(lines, 1, r) \o <<lines[r + 1] \o lines[r + 2]>>
               \o SubSeq(lines, r + 3, Len(lines))

\* Nothing there to remove: nothing is modified either.
Nothing == At(row, col) /\ goal' = -1 /\ UNCHANGED <<lines, modified>>

Backspace == \/ /\ \/ col > 0 /\ Put(RemoveAt(Here, col)) /\ At(row, col - 1)
                   \/ col = 0 /\ row > 0 /\ lines' = Joined(row - 1) /\ At(row - 1, Len(lines[row]))
                /\ Edited
             \/ AtStart /\ Nothing

Delete == \/ /\ \/ col < Len(Here) /\ Put(RemoveAt(Here, col + 1))
                \/ col = Len(Here) /\ row + 1 < Len(lines) /\ lines' = Joined(row)
             /\ At(row, col)
             /\ Edited
          \/ AtEnd /\ Nothing

Save == modified' = FALSE /\ UNCHANGED <<lines, row, col, goal>>

-----------------------------------------------------------------------------

\* What each key is there for.
Pressed(key) ==
  \/ key = "LEFT" /\ Left
  \/ key = "RIGHT" /\ Right
  \/ key = "UP" /\ Vertical(row - 1)
  \/ key = "DOWN" /\ Vertical(row + 1)
  \/ key = "HOME" /\ Home
  \/ key = "END" /\ End
  \/ key = "DELETE" /\ Delete
  \/ key = BS /\ Backspace
  \/ key = "TAB" /\ Tab
  \/ key = NL /\ Split
  \/ key \in Printable /\ Type(key)
  \/ key = "ESC" /\ UNCHANGED lineVars

Keys == {"LEFT", "RIGHT", "UP", "DOWN", "HOME", "END", "DELETE", BS, "TAB", NL, "ESC"} \cup Printable

Next == (\E key \in Keys : Pressed(key)) \/ Save

Spec == Init /\ [][Next]_lineVars
=============================================================================
