--------------------------- MODULE MCGuestManager ---------------------------
(***************************************************************************)
(* A small instance of GuestManager: two guests, one whose monitor never   *)
(* finishes its start and one whose collectors may hang, and as many       *)
(* monitors as it takes for a guest's new monitor to meet its old one.     *)
(***************************************************************************)
EXTENDS GuestManager
=============================================================================
