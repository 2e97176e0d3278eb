--------------------------- MODULE MCBufferedAnswer ---------------------------
(***************************************************************************)
(* Every status the code tells apart and some it does not; error objects   *)
(* with a code, a type, both or none; Retry-After headers in each form.    *)
(* Documents of up to two messages, of two parts and of one, over every    *)
(* role and kind of part.  Five lines of the codex upstream.               *)
(***************************************************************************)
EXTENDS BufferedAnswer, BackoffSchedule

MCWords   == {"", "unknown", RateLimited, Exhausted, InvalidRequest}
MCHeaders == {[form |-> "none", value |-> 0], [form |-> "date", value |-> 1]}
               \cup {[form |-> "seconds", value |-> v] : v \in {-1, 0, 3}}

MCResponses ==
  [status : {400, 401, 403, 404, 408, 413, 422, 429, 499, 500, 503},
   object : [code : MCWords, type : MCWords], header : MCHeaders]
  \cup {[status |-> 200, object |-> NoErrorObject, header |-> [form |-> "none", value |-> 0]]}

MCMessages(parts) == [role : Roles, parts : BoundedSeq(PartKinds, parts)]

MCConversations ==
  {<<>>} \cup {<<m>> : m \in MCMessages(2)}
  \cup {<<m, n>> : m \in MCMessages(2), n \in MCMessages(1)}

\* Only a Responses request has instructions of its own.
MCDocuments ==
  [endpoint : {"chat"}, instructions : {FALSE}, messages : MCConversations]
  \cup [endpoint : {"responses"}, instructions : BOOLEAN, messages : MCConversations]

=============================================================================
