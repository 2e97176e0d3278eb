--------------------------- MODULE MCAvailability ---------------------------
(***************************************************************************)
(* Availability with the schedule of the code.  The unit of time is 30     *)
(* seconds: exhaustionBackoffBase is 1 and exhaustionBackoffMax is 10, so  *)
(* the fifth failure in a row is the first to reach the cap.               *)
(***************************************************************************)
EXTENDS Availability

=============================================================================
