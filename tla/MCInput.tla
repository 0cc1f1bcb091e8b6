------------------------------ MODULE MCInput ------------------------------
(***************************************************************************)
(* Input for TLC.                                                          *)
(***************************************************************************)
EXTENDS Input

R(dx, up, buttons, overflow) == [move |-> <<dx, up>>, buttons |-> buttons, overflow |-> overflow]

\* A movement whose data bytes have bit 3 set; a change of buttons alone, with
\* bit 3 clear; and a report the driver cannot use.
MCReports == {R(-1, 8, {"LEFT"}, FALSE), R(0, 0, {"RIGHT"}, FALSE), R(0, 0, {}, TRUE)}

MCGestures == [keyboard |-> 3, mouse |-> 3, both |-> 2]
=============================================================================
