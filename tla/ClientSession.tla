---------------------------- MODULE ClientSession ----------------------------
(***************************************************************************)
(* What a client of the proxy may observe of one request, whatever         *)
(* happens behind the proxy (docs/spec.md, "Streaming rules" and "Circuit  *)
(* breaking"): either one JSON document, or one event stream whose events  *)
(* all come from one candidate, and nothing after the end of either.       *)
(***************************************************************************)
EXTENDS Integers

CONSTANTS
  Requests,   \* requests of the clients
  Sources,    \* positions in the candidate list: who produced an answer
  MaxEvents   \* bound: data events of one stream

VARIABLE view  \* view[r]: what the client of r has received so far

NoSource == 0

Nothing        == [kind |-> "nothing", src |-> NoSource, n |-> 0, end |-> "open"]
ErrorJSON      == [kind |-> "error", src |-> NoSource, n |-> 0, end |-> "completed"]
Reply(src)     == [kind |-> "reply", src |-> src, n |-> 0, end |-> "completed"]
Stream(src, n, end) == [kind |-> "stream", src |-> src, n |-> n, end |-> end]

\* How a stream ends: normally, by an error event, or by a failed write.
StreamEnds == {"completed", "interrupted", "cut"}

-----------------------------------------------------------------------------

Init == view = [r \in Requests |-> Nothing]

Becomes(r, v) == view' = [view EXCEPT ![r] = v]

\* One JSON document answers a request nothing has been sent for.
Answer(r) ==
  /\ view[r] = Nothing
  /\ Becomes(r, ErrorJSON) \/ \E src \in Sources : Becomes(r, Reply(src))

\* The first bytes of a stream; they may also be its last.
Begin(r) ==
  /\ view[r] = Nothing
  /\ \E src \in Sources :
       \/ Becomes(r, Stream(src, 1, "open"))
       \/ \E end \in {"completed", "cut"} : Becomes(r, Stream(src, 0, end))

\* A further event of the same source.
Continue(r) ==
  \E src \in Sources, n \in 1..MaxEvents - 1 :
    /\ view[r] = Stream(src, n, "open")
    /\ Becomes(r, Stream(src, n + 1, "open"))

Close(r) ==
  \E src \in Sources, n \in 1..MaxEvents, end \in StreamEnds :
    /\ view[r] = Stream(src, n, "open")
    /\ Becomes(r, Stream(src, n, end))

Next == \E r \in Requests : Answer(r) \/ Begin(r) \/ Continue(r) \/ Close(r)

Spec == Init /\ [][Next]_view

=============================================================================
