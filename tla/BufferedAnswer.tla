---------------------------- MODULE BufferedAnswer ----------------------------
(***************************************************************************)
(* One request without a stream, from the client's document to the answer  *)
(* or the error: the parse of the handler, and Complete of both adapters   *)
(* in internal/provider.  An OpenAI-compatible upstream sends one          *)
(* document; the codex upstream sends lines of events, which the adapter   *)
(* gathers.  The candidates around the attempt are in Dispatch.            *)
(*                                                                         *)
(* A piece of text is the number of the line it came in.                   *)
(***************************************************************************)
EXTENDS ProviderErrors, Conversation

CONSTANTS
  Adapters,
  Documents,   \* what the client may send
  Responses,   \* status, error object and Retry-After header an upstream may send
  Now,         \* the instant at which the response is classified
  MaxLines     \* bound: lines the codex upstream sends

Endpoints == {"chat", "responses"}
Messages  == Seq([role : Roles, parts : Seq(PartKinds)])
Headers   == [form : {"none", "seconds", "date"}, value : Int]

ASSUME BufferedAssumption ==
  /\ Adapters \subseteq {"openai_compatible", "codex_responses"}
  /\ Documents \subseteq [endpoint : Endpoints, instructions : BOOLEAN, messages : Messages]
  /\ Responses \subseteq
       [status : Nat, object : [code : STRING, type : STRING], header : Headers]
  /\ Now \in Nat
  /\ MaxLines \in Nat

VARIABLES
  adapter,
  document,   \* the body of the client's request
  request,    \* what the adapter has made of it
  pc,         \* "parsing", "preparing", "sending", "reading", "ended" or "returned"
  response,   \* what the upstream has answered, a member of Responses
  pending,    \* sse.Reader: the data lines of the event being read
  text,       \* codexStreamState: the text so far
  final,      \* codexStreamState: the completed response, if any
  result,     \* what the client is answered
  sent        \* history: what was sent to the proxy, and how it ended

asked      == <<adapter, document, request>>
answerVars == <<adapter, document, request, pc, response, pending, text, final, result, sent>>

Codex == adapter = "codex_responses"

Items  == {"text", "text_done", "completed", "incomplete", "failed", "other"}

\* A line of an event stream: data with an item, one that ends an event, or a comment
\* or a field of another name.
Lines  == Items \cup {"blank", "comment"}

NoRequest  == [instructions |-> <<>>, input |-> <<>>]
NoResponse == [status |-> 0, object |-> NoErrorObject]
NoFinal    == [text |-> <<>>, reason |-> "none"]
NoResult   == [kind |-> "none"]

Failed(err)          == [kind |-> "error", error |-> err]
Answer(text0, reason) ==
  [kind |-> "answer", reason |-> reason,
   shown |-> ClientAnswer(document.endpoint, [text |-> text0, reason |-> reason])]

OK(r) == r.status \in 200..299

AnswerInit ==
  /\ adapter \in Adapters
  /\ document \in Documents
  /\ request = NoRequest
  /\ pc = "parsing"
  /\ response = NoResponse
  /\ pending = <<>>
  /\ text = <<>>
  /\ final = NoFinal
  /\ result = NoResult
  /\ sent = <<>>

Return(value) ==
  /\ pc' = "returned"
  /\ result' = value

\* Once a request is out its conversation is not looked at again; only the endpoint is.
Forget ==
  /\ document' = [document EXCEPT !.messages = <<>>, !.instructions = FALSE]
  /\ request' = NoRequest

-----------------------------------------------------------------------------

\* The handler answers for a document it cannot read; no adapter is asked.
Parse ==
  /\ pc = "parsing"
  /\ IF Accepted(document)
     THEN pc' = "preparing" /\ UNCHANGED result
     ELSE Return(Failed(LocalError(InvalidRequest)))
  /\ UNCHANGED <<asked, response, pending, text, final, sent>>

\* Not even the body arrives: it is longer than allowed, or breaks off.
BodyUnread ==
  /\ pc = "parsing"
  /\ \E code \in {InputTooLarge, InvalidRequest} : Return(Failed(LocalError(code)))
  /\ sent' = Append(sent, "break")
  /\ UNCHANGED <<asked, response, pending, text, final>>

\* No token (or, behind codex, one without an account), or a request that cannot be
\* encoded.
CannotSend ==
  /\ pc = "preparing"
  /\ \E code \in {AuthFailed, NoCode} : Return(Failed(LocalError(code)))
  /\ Forget
  /\ UNCHANGED <<adapter, response, pending, text, final, sent>>

\* A conversation the upstream has no form for ends the request here: no other
\* candidate is asked.
Encode ==
  /\ pc = "preparing"
  /\ LET messages == ToIR(document)
     IN  IF Convertible(adapter, messages)
         THEN /\ pc' = "sending"
              /\ request' = UpstreamRequest(adapter, messages)
              /\ UNCHANGED result
         ELSE /\ Return(Failed(LocalError(InvalidRequest)))
              /\ UNCHANGED request
  /\ UNCHANGED <<adapter, document, response, pending, text, final, sent>>

SendFails ==
  /\ pc = "sending"
  /\ \E kind \in NetworkErrors : Return(Failed(ClassifyNetworkError(kind)))
  /\ Forget
  /\ UNCHANGED <<adapter, response, pending, text, final, sent>>

Responds ==
  /\ pc = "sending"
  /\ pc' = "reading"
  /\ response' \in Responses
  /\ Forget
  /\ UNCHANGED <<adapter, pending, text, final, result, sent>>

\* A rejection, with the body that explains it.
Rejected ==
  /\ pc = "reading"
  /\ ~OK(response)
  /\ Return(Failed(ClassifyHTTPStatus(response, Now)))
  /\ sent' = Append(sent, "end")
  /\ UNCHANGED <<asked, response, pending, text, final>>

\* The body of a rejection breaks off: codex classifies what it has read, the other
\* adapter returns the error of the read, before it looks at the status.
RejectionBreaks ==
  /\ pc = "reading"
  /\ ~OK(response)
  /\ Return(Failed(IF Codex
                   THEN ClassifyHTTPStatus([response EXCEPT !.object = NoErrorObject], Now)
                   ELSE LocalError(NoCode)))
  /\ sent' = Append(sent, "break")
  /\ UNCHANGED <<asked, response, pending, text, final>>

\* One document, which may not be a completion, or one without a choice.
DocumentArrives ==
  /\ pc = "reading"
  /\ OK(response) /\ ~Codex
  /\ \/ \E item \in {"completed", "incomplete"} :
          /\ Return(Answer(<<1>>, IF item = "incomplete" THEN "length" ELSE "stop"))
          /\ sent' = <<item, "end">>
     \/ Return(Failed(LocalError(NoCode))) /\ sent' \in {<<"other", "end">>, <<"break">>}
  /\ UNCHANGED <<asked, response, pending, text, final>>

-----------------------------------------------------------------------------
(***************************************************************************)
(* The codex upstream.  sse.Reader gathers the data lines up to a blank    *)
(* line into one event; events are consumed to the end of the stream, also *)
(* those behind a completed response.                                      *)
(***************************************************************************)

Streaming == pc = "reading" /\ OK(response) /\ Codex

\* Lines joined by a newline are no JSON document any more.
Item == IF Len(pending) = 1 THEN sent[pending[1]] ELSE "failed"

Grows(item) == item = "text" \/ (item = "text_done" /\ text = <<>>)

\* consume.  "incomplete" is a completed response whose status says so.
Consume(item) ==
  /\ text' = IF Grows(item) THEN Append(text, pending[1]) ELSE text
  /\ final' = IF item \in {"completed", "incomplete"}
              THEN [text |-> text, reason |-> IF item = "incomplete" THEN "length" ELSE "stop"]
              ELSE final

\* Read returns what is pending.  A failure, or an event that cannot be parsed, ends
\* the attempt.
Deliver(next) ==
  /\ pending' = <<>>
  /\ IF Item = "failed"
     THEN Return(Failed(LocalError(Upstream))) /\ UNCHANGED <<text, final>>
     ELSE Consume(Item) /\ pc' = next /\ UNCHANGED result

LineArrives(line) ==
  /\ Streaming
  /\ Len(sent) < MaxLines
  /\ sent' = Append(sent, line)
  /\ IF line = "blank" /\ pending # <<>>
     THEN Deliver("reading")
     ELSE /\ pending' = IF line \in Items THEN Append(pending, Len(sent) + 1) ELSE pending
          /\ UNCHANGED <<pc, result, text, final>>
  /\ UNCHANGED <<asked, response>>

\* Mutant of StreamEnds: what is pending is dropped.
StreamEndsAtOnce ==
  /\ Streaming
  /\ \E how \in {"end", "end_in_comment"} :
       /\ sent' = Append(sent, how)
       /\ pc' = "ended" /\ pending' = <<>> /\ UNCHANGED <<result, text, final>>
  /\ UNCHANGED <<asked, response>>

\* io.EOF ends the event that is pending, unless it comes within a comment.
StreamEnds ==
  /\ Streaming
  /\ \E how \in {"end", "end_in_comment"} :
       /\ sent' = Append(sent, how)
       /\ IF how = "end" /\ pending # <<>>
          THEN Deliver("ended")
          ELSE /\ pc' = "ended" /\ pending' = <<>>
               /\ UNCHANGED <<result, text, final>>
  /\ UNCHANGED <<asked, response>>

\* io.EOF within a line of data: what there is of it is delivered like a whole one.
StreamEndsInData ==
  /\ Streaming
  /\ Return(Failed(LocalError(Upstream)))
  /\ pending' = <<>>
  /\ sent' = Append(sent, "end_in_data")
  /\ UNCHANGED <<asked, response, text, final>>

\* Without a completed response another candidate may answer.
Finish ==
  /\ pc = "ended"
  /\ Return(IF final = NoFinal THEN Failed(Error(Upstream, TRUE, NoWindow))
            ELSE Answer(final.text, final.reason))
  /\ UNCHANGED <<asked, response, pending, text, final, sent>>

StreamBreaks ==
  /\ Streaming
  /\ \E kind \in NetworkErrors : Return(Failed(ClassifyNetworkError(kind)))
  /\ pending' = <<>>
  /\ sent' = Append(sent, "break")
  /\ UNCHANGED <<asked, response, text, final>>

AnswerNext ==
  \/ Parse \/ BodyUnread \/ CannotSend \/ Encode \/ SendFails \/ Responds
  \/ Rejected \/ RejectionBreaks \/ DocumentArrives
  \/ \E line \in Lines : LineArrives(line)
  \/ StreamEnds \/ StreamEndsInData \/ Finish \/ StreamBreaks

AnswerSpec == AnswerInit /\ [][AnswerNext]_answerVars

-----------------------------------------------------------------------------

Refused ==
  /\ pc = "returned" /\ sent = <<>>
  /\ result.kind = "error" /\ result.error.code = InvalidRequest

Places(d) ==
  (IF d.instructions THEN {InstructionPlace} ELSE {}) \cup
  UNION {{<<m, p>> : p \in DOMAIN d.messages[m].parts} : m \in DOMAIN d.messages}

RoleAt(d, place) == IF place = InstructionPlace THEN "developer" ELSE d.messages[place[1]].role
KindAt(d, place) == IF place = InstructionPlace THEN "text"
                    ELSE d.messages[place[1]].parts[place[2]]

\* The parts of a list of messages, each with the role it is said in.
Spoken(messages) ==
  FlattenSeq([m \in DOMAIN messages |->
    LET parts == Filled(messages[m].content)
    IN  [p \in DOMAIN parts |-> [place |-> parts[p].place, role |-> messages[m].role]]])

InOrder(parts) ==
  \A i, j \in DOMAIN parts :
    i < j => LET a == parts[i].place
                 b == parts[j].place
             IN  a[1] < b[1] \/ (a[1] = b[1] /\ a[2] < b[2])

\* Nothing but texts of the user and the assistant, and images where the upstream has a
\* form for those of the endpoint.
Plain(d) ==
  /\ d.messages # <<>>
  /\ \A m \in Range(d.messages) :
       /\ m.role \in {"user", "assistant"}
       /\ Range(m.parts) \subseteq
            {"text", "blank"} \cup (IF Codex \/ d.endpoint = "chat" THEN {"image"} ELSE {})

\* A request that is sent says everything its document says that is not empty, once,
\* in order and in its role; what the codex upstream takes as instructions is said
\* there, in order, and nowhere else.  A document is not sent only when it has
\* something to refuse: plain conversations always pass both adapters.
ConversationCarried ==
  /\ pc = "sending" =>
       LET substance    == {place \in Places(document) : KindAt(document, place) # "blank"}
           instructive  == {place \in substance :
                              Codex /\ RoleAt(document, place) \in InstructionRoles}
           instructions == Filled(request.instructions)
           spoken       == Spoken(request.input)
       IN  /\ InOrder(instructions) /\ InOrder(spoken)
           /\ {part.place : part \in Range(instructions)} = instructive
           /\ Range(spoken) = {[place |-> place, role |-> RoleAt(document, place)] :
                                 place \in substance \ instructive}
  /\ Refused => ~Plain(document)

-----------------------------------------------------------------------------

\* Lines of data of one event: no blank line between them.
SameEvent(i, j) ==
  sent[i] \in Items /\ sent[j] \in Items
    /\ \A k \in DOMAIN sent : (i < k /\ k < j) \/ (j < k /\ k < i) => sent[k] # "blank"

\* The event with the data in line i was read.
Heard(i) ==
  sent[i] \in Items /\ (Last(sent) = "end" \/ \E k \in DOMAIN sent : k > i /\ sent[k] = "blank")

\* The request returns an answer exactly when the upstream has completed one, failed
\* at nothing, sent no event that cannot be parsed and ended in order; the answer has
\* every piece of text the upstream sent up to the last completion, in order and
\* once, and the client is told whether it was cut.
WholeAnswer ==
  pc = "returned" /\ sent # <<>> /\ OK(response) =>
    LET heard == {i \in DOMAIN sent : Heard(i)}
        ends  == {i \in heard : sent[i] \in {"completed", "incomplete"}}
    IN  /\ result.kind = "answer" <=>
             /\ ends # {} /\ Last(sent) \in {"end", "end_in_comment"}
             /\ \A i \in heard : sent[i] # "failed" /\ \A j \in heard \ {i} : ~SameEvent(i, j)
        /\ result.kind = "answer" =>
             LET last   == CHOOSE i \in ends : \A j \in ends : j <= i
                 pieces == {i \in heard : i <= last /\ sent[i] = "text"}
                 wholes == {i \in heard : i <= last /\ sent[i] = "text_done"}
                 shown  == result.shown
             IN  /\ Codex =>
                      /\ \A i, j \in DOMAIN shown.text : i < j => shown.text[i] < shown.text[j]
                      /\ pieces \subseteq Range(shown.text)
                      /\ \A i \in DOMAIN shown.text :
                           \/ shown.text[i] \in pieces
                           \/ i = 1 /\ shown.text[i] \in wholes
                      /\ wholes # {} => shown.text # <<>>
                 /\ shown.verdict \in {"length", "incomplete"} <=> sent[last] = "incomplete"
                 /\ shown.verdict \in FinishReasons <=> document.endpoint = "chat"

\* An upstream that says it is limited, by its status or in its own words, leaves
\* the choice until the instant it names, else for the backoff; any other rejection
\* opens no window.  A rejection without an explanation reaches the client of the
\* last candidate with the status it came with, if it is about the request;
\* anything else is a fault behind the proxy.
RejectionUnderstood ==
  pc = "returned" /\ ~OK(response) /\ sent = <<"end">> =>
    LET word    == IF response.object.code # "" THEN response.object.code
                   ELSE response.object.type
        limited == IF word \in PayloadCodes THEN word \in ExhaustionCodes
                   ELSE response.status = 429
        header  == response.header
    IN  /\ \A k \in Pairs :
             AfterFailure([p \in {} |-> Unseen], k, result.error, Now)[k].until =
               CASE ~limited -> NoWindow
                 [] limited /\ header.form = "seconds" ->
                      IF header.value >= 0 THEN Now + header.value ELSE Now
                 [] limited /\ header.form = "date" -> header.value
                 [] OTHER -> Now + Backoff(1)
        /\ word \notin PayloadCodes =>
             StatusForErrorCode(ProxyCode(result.error)) =
               IF response.status \in {400, 403, 413, 422, 429} THEN response.status ELSE 502

=============================================================================
