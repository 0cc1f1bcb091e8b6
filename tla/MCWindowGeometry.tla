-------------------------- MODULE MCWindowGeometry --------------------------
(* WindowGeometry on a desktop of a few pixels. *)
EXTENDS WindowGeometry

MCInitial == [x |-> 1, y |-> 1, w |-> 4, h |-> 4]
=============================================================================
