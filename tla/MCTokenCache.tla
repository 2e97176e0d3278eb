---------------------------- MODULE MCTokenCache ----------------------------
(***************************************************************************)
(* Three calls: one that refreshes, one that shares or waits, one that     *)
(* refreshes again when the window is reached.                             *)
(***************************************************************************)
EXTENDS TokenCache

=============================================================================
