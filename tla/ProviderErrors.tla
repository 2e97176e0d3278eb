---------------------------- MODULE ProviderErrors ----------------------------
(***************************************************************************)
(* What the adapters make of a failure (internal/provider/errors.go) and   *)
(* what the client is told of it (internal/api/chat.go, errors.go).  An    *)
(* error has a code, says whether another candidate may be tried, and      *)
(* names the instant of a Retry-After header.                              *)
(***************************************************************************)
EXTENDS Tracker

InvalidRequest      == "invalid_request"
UnsupportedModality == "unsupported_modality"
InputTooLarge       == "input_too_large"
AuthFailed          == "provider_auth_failed"
PolicyDenied        == "policy_denied"

Error(code, retryable, retryAfter) ==
  [code |-> code, retryable |-> retryable, retryAfter |-> retryAfter]

LocalError(code) == Error(code, FALSE, NoWindow)

CodeFromStatus(status) ==
  CASE status = 400 -> InvalidRequest
    [] status = 401 -> AuthFailed
    [] status = 403 -> PolicyDenied
    [] status = 413 -> InputTooLarge
    [] status = 422 -> UnsupportedModality
    [] status = 429 -> RateLimited
    [] OTHER -> Upstream

RetryableStatus(status) == status \in {408, 429, 502, 503, 504}

\* The codes an error object may have, one for each family of spellings.
PayloadCodes == {InvalidRequest, UnsupportedModality, InputTooLarge, RateLimited,
                 Exhausted, AuthFailed, PolicyDenied}

\* A body without an error object, or that is not JSON at all.
NoErrorObject == [code |-> "", type |-> ""]

\* codeFromErrorPayload: the type counts only where there is no code, also where
\* the code belongs to no family.
CodeFromPayload(object) ==
  LET payload == IF object.code = "" THEN object.type ELSE object.code
  IN  IF payload \in PayloadCodes THEN payload ELSE NoCode

\* parseRetryAfter: a number of seconds from now, none of them negative, or a date.
ParseRetryAfter(header, at) ==
  CASE header.form = "seconds" -> at + (IF header.value < 0 THEN 0 ELSE header.value)
    [] header.form = "date" -> header.value
    [] OTHER -> NoWindow

\* Mutant of ClassifyHTTPStatus: the status decides before the error object.
ClassifyStatusFirst(response, at) ==
  LET status == CodeFromStatus(response.status)
      named  == CodeFromPayload(response.object)
  IN  Error(IF status # Upstream \/ named = NoCode THEN status ELSE named,
            RetryableStatus(response.status), ParseRetryAfter(response.header, at))

\* The error object decides the code, the status whether to try again.
ClassifyHTTPStatus(response, at) ==
  LET named == CodeFromPayload(response.object)
  IN  Error(IF named = NoCode THEN CodeFromStatus(response.status) ELSE named,
            RetryableStatus(response.status), ParseRetryAfter(response.header, at))

\* A request that could not be sent or answered.
NetworkErrors == {"deadline", "timeout", "reset", "refused", "other"}

RetryableNetworkError(kind) == kind # "other"

ClassifyNetworkError(kind) == Error(Upstream, RetryableNetworkError(kind), NoWindow)

\* Errors of Complete and Stream as the handlers and the tracker tell them apart:
\* with a code that opens a window or without, with permission to go on or without.
Failures ==
  { Error(RateLimited, TRUE, NoWindow), LocalError(Exhausted),
    Error(Upstream, TRUE, NoWindow),    LocalError(NoCode) }

\* proxyErrorFromProviderError, and the status its code is answered with.
ProxyCode(err) == IF err.code \in PayloadCodes THEN err.code ELSE Upstream

StatusForErrorCode(code) ==
  CASE code = InvalidRequest -> 400
    [] code = PolicyDenied -> 403
    [] code = InputTooLarge -> 413
    [] code = UnsupportedModality -> 422
    [] code = RateLimited -> 429
    [] code = Exhausted -> 503
    [] code \in {AuthFailed, Upstream} -> 502
    [] OTHER -> 500

=============================================================================
