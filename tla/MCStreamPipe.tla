---------------------------- MODULE MCStreamPipe ----------------------------
(***************************************************************************)
(* Both adapters behind both endpoints; the upstream sends up to four      *)
(* events.                                                                 *)
(***************************************************************************)
EXTENDS StreamPipe

=============================================================================
