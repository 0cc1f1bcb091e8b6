------------------------------ MODULE Console ------------------------------
(***************************************************************************)
(* The terminal's command line (src/gui/apps/terminal.c): an editable line *)
(* drawn into a textbox behind a prompt, over the scrollback, and a ring   *)
(* of the lines entered before.  What the commands do is in Desktop and    *)
(* CompilerRun; here a command prints something.                           *)
(***************************************************************************)
EXTENDS TextBox

CONSTANTS TERMINAL_COLS, TERMINAL_ROWS, TERMINAL_MAX_LINE, TERMINAL_HISTORY_N,
          Banner,       \* what terminal_create prints, but for its newline
          Typed,        \* the characters that are typed
          Prompts,      \* what terminal_print_prompt may print
          Outputs,      \* what a command may print
          MaxEntered    \* bound: how many lines are entered

ASSUME ConsoleAssumption ==
  /\ {TERMINAL_COLS, TERMINAL_ROWS, TERMINAL_MAX_LINE, TERMINAL_HISTORY_N} \subseteq Nat \ {0}
  /\ Typed \subseteq STRING
  /\ Typed \cap {NL, BS, "LEFT", "RIGHT", "HOME", "END", "DELETE"} = {}
  /\ Prompts \cup Outputs \cup {Banner} \subseteq Seq(STRING)

VARIABLES line,      \* input_line, input_len, cursor, drawn_len and the prompt's place
          screen,    \* the textbox
          history,   \* the ring, with count, head and pos
          entered,   \* the lines entered, oldest first
          above      \* the screen as the prompt left it

consoleVars == <<line, screen, history, entered, above>>

Slots == 0 .. TERMINAL_MAX_LINE - 1

-----------------------------------------------------------------------------
(* The line. *)

ti_insert(l, c) ==
  IF l.len >= TERMINAL_MAX_LINE - 1 THEN l
  ELSE [l EXCEPT !.chars = [i \in Slots |-> IF i = l.cursor THEN c
                                            ELSE IF i \in l.cursor + 1 .. l.len THEN l.chars[i - 1]
                                            ELSE l.chars[i]],
                 !.cursor = @ + 1, !.len = @ + 1]

ti_erase(l, at) ==
  [l EXCEPT !.chars = [i \in Slots |-> IF i \in at .. l.len - 2 THEN l.chars[i + 1] ELSE l.chars[i]],
            !.len = @ - 1]

EditKeys == Typed \cup {"LEFT", "RIGHT", "HOME", "END", "DELETE", BS}

terminal_input_key(l, key) ==
  CASE key = "LEFT"   -> [l EXCEPT !.cursor = IF @ > 0 THEN @ - 1 ELSE @]
    [] key = "RIGHT"  -> [l EXCEPT !.cursor = IF @ < l.len THEN @ + 1 ELSE @]
    [] key = "HOME"   -> [l EXCEPT !.cursor = 0]
    [] key = "END"    -> [l EXCEPT !.cursor = l.len]
    [] key = "DELETE" -> IF l.cursor < l.len THEN ti_erase(l, l.cursor) ELSE l
    [] key = BS       -> IF l.cursor > 0 THEN ti_erase([l EXCEPT !.cursor = @ - 1], l.cursor - 1) ELSE l
    [] key \in Typed  -> ti_insert(l, key)

\* The place of the line's character i; it may be below the last row.
RowOf(l, i) == l.prompt_row + (l.prompt_col + i) \div TERMINAL_COLS
ColOf(l, i) == (l.prompt_col + i) % TERMINAL_COLS

\* The character that falls on a cell; negative in the scrollback.
IndexAt(l, r, c) == (r - l.prompt_row) * TERMINAL_COLS + c - l.prompt_col

Painted_Len(l) == l.len

\* Cells painted last time are painted again, blank if need be.
Painted(l) == IF l.len > l.drawn_len THEN l.len ELSE l.drawn_len

terminal_redraw_input(l, tb) ==
  LET visible == RowOf(l, l.cursor) < tb.rows
  IN  [tb EXCEPT
         !.cells = [r \in 0 .. tb.rows - 1 |-> [c \in 0 .. tb.cols - 1 |->
                      LET i == IndexAt(l, r, c)
                      IN  IF i \notin 0 .. Painted(l) - 1 THEN tb.cells[r][c]
                          ELSE IF i < l.len THEN l.chars[i] ELSE SPACE]],
         !.cursor_row = IF visible THEN RowOf(l, l.cursor) ELSE tb.rows - 1,
         !.cursor_col = IF visible THEN ColOf(l, l.cursor) ELSE tb.cols - 1]

Redrawn(l) == /\ screen' = terminal_redraw_input(l, screen)
              /\ line' = [l EXCEPT !.drawn_len = l.len]

\* A key that has nothing to erase does not redraw either.
EditKey(key) == /\ key = BS => line.cursor > 0
                /\ key = "DELETE" => line.cursor < line.len
                /\ Redrawn(terminal_input_key(line, key))
                /\ UNCHANGED <<history, entered, above>>

-----------------------------------------------------------------------------
(* The history. *)

Recalled(h, back) ==
  h.ring[(h.head - 1 - back + TERMINAL_HISTORY_N * 2) % TERMINAL_HISTORY_N]

terminal_history_push_Always(h, s) ==
  [h EXCEPT !.ring[h.head] = s, !.head = (@ + 1) % TERMINAL_HISTORY_N,
            !.count = @ + 1, !.pos = -1]

\* An empty line is not kept, and leaves history_pos where it was.
terminal_history_push(h, s) ==
  IF s = <<>> THEN h
  ELSE [h EXCEPT !.ring[h.head] = s, !.head = (@ + 1) % TERMINAL_HISTORY_N,
                 !.count = IF @ < TERMINAL_HISTORY_N THEN @ + 1 ELSE @, !.pos = -1]

terminal_history_load(l, s) ==
  [l EXCEPT !.chars = [i \in Slots |-> IF i < Len(s) THEN s[i + 1] ELSE l.chars[i]],
            !.len = Len(s), !.cursor = Len(s)]

Browse(pos) == /\ history' = [history EXCEPT !.pos = pos]
               /\ Redrawn(IF pos >= 0 THEN terminal_history_load(line, Recalled(history, pos))
                                      ELSE [line EXCEPT !.len = 0, !.cursor = 0])
               /\ UNCHANGED <<entered, above>>

KeyUp == history.pos + 1 < history.count /\ Browse(history.pos + 1)

KeyDown == history.pos >= 0 /\ Browse(history.pos - 1)

-----------------------------------------------------------------------------
(* Enter. *)

\* terminal_print_prompt: the screen, and the line it starts.
Prompted(tb, l, prompt) ==
  LET t == textbox_puts(tb, <<"C", ":">> \o prompt \o <<">">>)
  IN  /\ screen' = t /\ above' = t.cells
      /\ line' = [l EXCEPT !.prompt_row = t.cursor_row, !.prompt_col = t.cursor_col,
                           !.len = 0, !.cursor = 0, !.drawn_len = 0]

\* The textbox's own cursor goes behind the line, wherever the edit cursor is.
PastLine(tb) ==
  LET row == RowOf(line, line.len)
  IN  textbox_putc([tb EXCEPT !.cursor_row = IF row >= tb.rows THEN tb.rows - 1 ELSE row,
                              !.cursor_col = ColOf(line, line.len)], NL)

Text == [i \in 1 .. line.len |-> line.chars[i - 1]]

\* terminal_exec: a line of blanks runs nothing, cls clears.
Executed(tb) ==
  IF \A i \in DOMAIN Text : Text[i] = SPACE THEN {tb}
  ELSE {textbox_puts(tb, o) : o \in Outputs} \cup {textbox_clear(tb)}

Enter ==
  /\ Len(entered) < MaxEntered
  /\ history' = terminal_history_push(history, Text)
  /\ entered' = IF Text = <<>> THEN entered ELSE Append(entered, Text)
  /\ \E tb \in Executed(PastLine(screen)), prompt \in Prompts : Prompted(tb, line, prompt)

ConsoleInit ==
  LET tb == textbox_puts(textbox_init(TERMINAL_COLS, TERMINAL_ROWS), Banner \o <<NL>>)
      t  == textbox_puts(tb, <<"C", ":", ">">>)
  IN  /\ screen = t /\ above = t.cells
      /\ line = [chars |-> [i \in Slots |-> "?"], len |-> 0, cursor |-> 0, drawn_len |-> 0,
                 prompt_row |-> t.cursor_row, prompt_col |-> t.cursor_col]
      /\ history = [ring |-> [i \in 0 .. TERMINAL_HISTORY_N - 1 |-> <<"?">>],
                    count |-> 0, head |-> 0, pos |-> -1]
      /\ entered = <<>>

ConsoleNext == (\E key \in EditKeys : EditKey(key)) \/ KeyUp \/ KeyDown \/ Enter

-----------------------------------------------------------------------------
(* Properties. *)

(* "The scrollback above the prompt must never be touched" by editing      *)
(* (terminal.c lines 152-154): the screen is what the prompt left, then    *)
(* the line as it is now, as far as it fits, then blanks.                  *)
ScreenShowsLine ==
  /\ \A r \in 0 .. TERMINAL_ROWS - 1, c \in 0 .. TERMINAL_COLS - 1 :
       LET i == IndexAt(line, r, c)
       IN  screen.cells[r][c] = IF i < 0 THEN above[r][c]
                                ELSE IF i < line.len THEN line.chars[i] ELSE SPACE
  /\ line.cursor \in 0 .. line.len
  /\ screen.cursor_row \in 0 .. TERMINAL_ROWS - 1

(* The arrows recall the lines entered, the latest first (terminal.c line  *)
(* 215), as many of them as the ring holds; the empty ones not.            *)
HistoryRecalls ==
  /\ history.count = IF Len(entered) < TERMINAL_HISTORY_N THEN Len(entered) ELSE TERMINAL_HISTORY_N
  /\ history.pos \in -1 .. history.count - 1
  /\ \A back \in 0 .. history.count - 1 :
       Recalled(history, back) = entered[Len(entered) - back]
=============================================================================
