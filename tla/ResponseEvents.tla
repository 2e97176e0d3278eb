---------------------------- MODULE ResponseEvents ----------------------------
(***************************************************************************)
(* The events a streaming client receives, reduced to what tells a correct *)
(* stream from a wrong one: their type, and the text they carry.           *)
(***************************************************************************)
EXTENDS Naturals, Sequences

\* One event.  Only deltas have a piece, only closing events have a text, only
\* the last of them tells whether the answer was cut at a length limit.
Event(type, piece, text, status) ==
  [type |-> type, piece |-> piece, text |-> text, status |-> status]

NoPiece == 0

Plain(type)  == Event(type, NoPiece, <<>>, "none")
Delta(piece) == Event("delta", piece, <<>>, "none")

Opening == <<"created", "item_added", "part_added">>
Closing == <<"text_done", "part_done", "item_done", "completed">>
Statuses == {"completed", "incomplete"}

\* What the client knows: the last event, the text the deltas have spelled, and
\* what the last event says of the whole.
Nothing == [last |-> "nothing", said |-> <<>>, told |-> <<>>, status |-> "none"]

Seen(v, e) ==
  [last   |-> e.type,
   said   |-> IF e.type = "delta" THEN Append(v.said, e.piece) ELSE v.said,
   told   |-> e.text,
   status |-> e.status]

=============================================================================
