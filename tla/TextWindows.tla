---------------------------- MODULE TextWindows ----------------------------
(***************************************************************************)
(* The two windows one types in, on the window manager's one keyboard: a   *)
(* key goes to the window that has the focus (src/gui/wm.c), and does not  *)
(* touch the other.  The focus stays where it is; WindowManager moves it.  *)
(***************************************************************************)
EXTENDS EditBuffer, Console

VARIABLE focused

textVars == <<editorVars, consoleVars, focused>>

Init == /\ EditorInit /\ ConsoleInit
        /\ focused \in {"text_editor", "terminal"}

Next == /\ UNCHANGED focused
        /\ \/ focused = "text_editor" /\ EditorNext /\ UNCHANGED consoleVars
           \/ focused = "terminal" /\ ConsoleNext /\ UNCHANGED editorVars

Spec == Init /\ [][Next]_textVars
=============================================================================
