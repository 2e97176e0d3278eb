------------------------------ MODULE MCLogTail ------------------------------
(***************************************************************************)
(* One page: a lost response leaves the reader ahead of the page, as a    *)
(* second page would.  One line per response, contents of two lines.     *)
(***************************************************************************)
EXTENDS LogTail

=============================================================================
