----------------------------- MODULE MCBtVendor -----------------------------
(* Model checking BtVendor. *)
EXTENDS BtVendor

MCFds == {3, 4}
=============================================================================
