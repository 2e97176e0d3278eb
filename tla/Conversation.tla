------------------------------ MODULE Conversation ------------------------------
(***************************************************************************)
(* A conversation on its way from the client's document to the upstream's  *)
(* request and back (internal/openai, and codexRequestFromIR of            *)
(* internal/provider).  A document has messages of parts; a part is known  *)
(* by where it stands, and by a kind that says no more of it than the      *)
(* conversions look at.  A plain string is a message of one part.          *)
(***************************************************************************)
EXTENDS Naturals, SequencesExt

\* "blank" is an empty text, "file" an image that is only named by a file_id, "bare" one
\* without either, "unknown" any other type.
PartKinds == {"text", "blank", "image", "file", "bare", "unknown"}

\* The role of an input item that is no message is "", as is one left out.
Roles == {"", "system", "developer", "user", "assistant", "tool"}

InstructionRoles == {"system", "developer"}

\* Place of the instructions of a Responses request, before the first message.
InstructionPlace == <<0, 1>>

-----------------------------------------------------------------------------
(***************************************************************************)
(* From the document to the neutral form: UnmarshalJSON and ToIR.          *)
(***************************************************************************)

KnownKinds(endpoint) ==
  {"text", "blank", "image"} \cup (IF endpoint = "responses" THEN {"file"} ELSE {})

Accepted(document) ==
  /\ document.messages # <<>>
  /\ \A m \in Range(document.messages) :
       m.role # "" /\ Range(m.parts) \subseteq KnownKinds(document.endpoint)

\* filled: the text, or the URL of the image, is not empty.
Part(endpoint, kind, place) ==
  [type   |-> IF kind \in {"text", "blank"} THEN "text"
              ELSE IF endpoint = "chat" THEN "image_url" ELSE "input_image",
   filled |-> kind \in {"text", "image"},
   place  |-> place]

Instructions(document) ==
  IF document.instructions
  THEN <<[role |-> "developer", content |-> <<Part("responses", "text", InstructionPlace)>>]>>
  ELSE <<>>

ToIR(document) ==
  Instructions(document) \o
  [m \in DOMAIN document.messages |->
    LET message == document.messages[m]
    IN  [role    |-> message.role,
         content |-> [p \in DOMAIN message.parts |->
                       Part(document.endpoint, message.parts[p], <<m, p>>)]]]

-----------------------------------------------------------------------------
(***************************************************************************)
(* From the neutral form to the upstream's request.  Both forms have       *)
(* instructions, a sequence of parts, and messages; an OpenAI-compatible   *)
(* upstream gets its instructions as messages.                             *)
(***************************************************************************)

\* An image makes its message a list of parts; the texts of any other message are joined.
HasImages(message) ==
  \E part \in Range(message.content) :
    part.type = "image_url" \/ (part.type = "input_image" /\ part.filled)

ChatPartTypes(message) == IF HasImages(message) THEN {"text", "image_url"} ELSE {"text"}

ChatConvertible(messages) ==
  \A message \in Range(messages) :
    \A part \in Range(message.content) : part.type \in ChatPartTypes(message)

Filled(parts) ==
  FlattenSeq([p \in DOMAIN parts |-> IF parts[p].filled THEN <<parts[p]>> ELSE <<>>])

\* Mutant of ChatMessage: of several texts only the last is kept.
ChatMessageLastText(message) ==
  [role    |-> message.role,
   form    |-> IF HasImages(message) THEN "parts" ELSE "joined",
   content |-> IF HasImages(message) \/ message.content = <<>> THEN message.content
               ELSE Filled(<<Last(message.content)>>)]

ChatMessage(message) ==
  [role    |-> message.role,
   form    |-> IF HasImages(message) THEN "parts" ELSE "joined",
   content |-> IF HasImages(message) THEN message.content ELSE Filled(message.content)]

ChatRequest(messages) ==
  [instructions |-> <<>>, input |-> [m \in DOMAIN messages |-> ChatMessage(messages[m])]]

IsInstruction(message) == message.role \in InstructionRoles

CodexConvertible(messages) ==
  /\ \A message \in Range(messages) :
       IF IsInstruction(message)
       THEN \A part \in Range(message.content) : part.type = "text"
       ELSE /\ message.role \in {"user", "assistant"}
            /\ \A part \in Range(message.content) : part.type = "text" \/ part.filled
  /\ \E message \in Range(messages) : ~IsInstruction(message)

\* Without any instruction the adapter sends one of its own.
CodexRequest(messages) ==
  LET others == FlattenSeq([m \in DOMAIN messages |->
                  IF IsInstruction(messages[m]) THEN <<>> ELSE <<messages[m]>>])
  IN  [instructions |-> FlattenSeq([m \in DOMAIN messages |->
                          IF IsInstruction(messages[m]) THEN Filled(messages[m].content)
                          ELSE <<>>]),
       input |-> [m \in DOMAIN others |->
                   [role |-> others[m].role, form |-> "parts", content |-> others[m].content]]]

Convertible(adapter0, messages) ==
  IF adapter0 = "codex_responses" THEN CodexConvertible(messages) ELSE ChatConvertible(messages)

UpstreamRequest(adapter0, messages) ==
  IF adapter0 = "codex_responses" THEN CodexRequest(messages) ELSE ChatRequest(messages)

-----------------------------------------------------------------------------
(***************************************************************************)
(* The answer: a Responses client is told the reason as a status, and an   *)
(* answer cut at the length is the only one it may call incomplete.        *)
(***************************************************************************)

FinishReasons == {"stop", "length"}

StatusForFinishReason(reason) == IF reason = "length" THEN "incomplete" ELSE "completed"

ClientAnswer(endpoint, answer) ==
  [text |-> answer.text,
   verdict |-> IF endpoint = "responses" THEN StatusForFinishReason(answer.reason)
               ELSE answer.reason]

=============================================================================
