-------------------------- MODULE MCWindowManager --------------------------
(* Addresses that kmalloc may give to a window are interchangeable. *)
EXTENDS WindowManager

AddressSymmetry == Permutations(Windows)
=============================================================================
