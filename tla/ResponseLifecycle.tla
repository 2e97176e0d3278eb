-------------------------- MODULE ResponseLifecycle --------------------------
(***************************************************************************)
(* What a client of the Responses API may observe of one stream            *)
(* (docs/spec.md, "Streaming rules"; the lifecycle events named in         *)
(* internal/openai/responses_stream.go): the opening events, then deltas,  *)
(* then either the closing events, each of which carries the whole text,   *)
(* or one error event.  A stream may stop anywhere.                        *)
(***************************************************************************)
EXTENDS ResponseEvents

CONSTANT Pieces   \* pieces of text

VARIABLE view     \* what the client has received

-----------------------------------------------------------------------------

Says(e) == view' = Seen(view, e)

Init == view = Nothing

Open ==
  \E i \in 1..Len(Opening) :
    /\ view.last = IF i = 1 THEN "nothing" ELSE Opening[i - 1]
    /\ Says(Plain(Opening[i]))

\* The opening events have been sent and nothing has ended the text yet.
Flowing == view.last \in {"part_added", "delta"}

Speak ==
  /\ Flowing
  /\ \E piece \in Pieces : Says(Delta(piece))

\* Each closing event repeats the text the deltas have spelled.
Close ==
  \E i \in 1..Len(Closing) :
    /\ IF i = 1 THEN Flowing ELSE view.last = Closing[i - 1]
    /\ \E status \in IF i < 3 THEN {"none"} ELSE Statuses :
         Says(Event(Closing[i], NoPiece, view.said, status))

Break == Flowing /\ Says(Plain("error"))

Next == Open \/ Speak \/ Close \/ Break

Spec == Init /\ [][Next]_view

=============================================================================
