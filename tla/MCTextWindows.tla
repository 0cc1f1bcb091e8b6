--------------------------- MODULE MCTextWindows ---------------------------
(***************************************************************************)
(* TextWindows for TLC.                                                    *)
(***************************************************************************)
EXTENDS TextWindows

\* Nothing; an empty line between others; a last line that is empty.
MCDocuments == {<<>>, <<"a", NL, NL, "a">>, <<"a", "a", NL>>}

\* The root, and a folder whose prompt ends in the last column.
MCPrompts == {<<>>, <<"/">>}

\* It runs on into a second row.
MCBanner == <<"b", "b", "b", "b", "b", "b">>

\* A row that is full when the prompt comes.
MCOutputs == {<<"o", "o", BS, "o", "o", "o">>}
=============================================================================
