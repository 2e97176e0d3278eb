----------------------------- MODULE Configuration -----------------------------
(***************************************************************************)
(* A configuration (internal/config/config.go): what Validate asks of it,  *)
(* what the constructors ask again (internal/auth, internal/api/auth.go,   *)
(* internal/provider), and what the router makes of the names in it.       *)
(***************************************************************************)
EXTENDS Integers, SequencesExt

\* A name is one of the shapes the code tells apart: empty, blank, plain, padded, and
\* one that reads as a provider and a model.
Names == {"", " ", "a", "b", " a", "a:b"}

Trim(name) == IF name = " " THEN "" ELSE IF name = " a" THEN "a" ELSE name

Blank(name) == Trim(name) = ""

\* strings.Cut at the first colon; a candidate without one has the model "none".
CutName(name) ==
  IF name = "a:b" THEN [provider |-> "a", model |-> "b"]
  ELSE [provider |-> name, model |-> "none"]

Whole(reference) == reference.model # "none"

-----------------------------------------------------------------------------
(***************************************************************************)
(* Validate.                                                               *)
(***************************************************************************)

ProviderTypes   == {"openai_compatible", "codex_responses"}
TrimmedAuth     == {"bearer_val", "access_token_command"}
AuthTypes       == TrimmedAuth \cup {"bearer_env", "env_access_token", "file_access_token"}
Strategies      == {"first_available", "least_cost_available"}
ClientAuthModes == {"", "none", "static_bearer", "bearer_tokens"}
OpenModes       == {"", "none"}

\* Names of variables and files are only compared with "".
AuthAccepted(auth) ==
  /\ auth.type \in AuthTypes
  /\ IF auth.type \in TrimmedAuth THEN ~Blank(auth.value) ELSE auth.value # ""

ProviderAccepted(name, provider) ==
  /\ ~Blank(name)
  /\ provider.type \in ProviderTypes
  /\ provider.url = "http"
  /\ AuthAccepted(provider.auth)
  /\ provider.type = "codex_responses" => provider.models # {}
  /\ \A model \in provider.models : ~Blank(model)

\* Mutant of CandidateAccepted: the models a provider lists are not looked at.
CandidateOfAnyModel(providers, candidate) ==
  /\ Whole(candidate) /\ ~Blank(candidate.provider) /\ ~Blank(candidate.model)
  /\ candidate.provider \in DOMAIN providers

\* A provider without models may have any: they are discovered later.
CandidateAccepted(providers, candidate) ==
  /\ Whole(candidate) /\ ~Blank(candidate.provider) /\ ~Blank(candidate.model)
  /\ candidate.provider \in DOMAIN providers
  /\ LET models == providers[candidate.provider].models
     IN  models # {} => candidate.model \in models

AliasAccepted(providers, alias, synthetic) ==
  /\ ~Blank(alias)
  /\ synthetic.strategy \in Strategies
  /\ synthetic.candidates # <<>>
  /\ \A candidate \in Range(synthetic.candidates) : CandidateAccepted(providers, candidate)

\* tokens_env names a variable; tokens_val holds tokens with commas between them.
ClientAuthAccepted(client) ==
  CASE client.mode \in OpenModes -> TRUE
    [] client.mode = "static_bearer" -> client.tokensEnv # "" \/ ~Blank(client.tokensVal)
    [] client.mode = "bearer_tokens" -> client.tokensEnv # ""
    [] OTHER -> FALSE

\* "full_transcript" is an older name of "invasive", for which the code knows two.
LoggingModes == {"", "off", "metadata_only", "invasive", "full_transcript"}

LoggingAccepted(logging) ==
  /\ logging.mode \in LoggingModes
  /\ logging.enabled => logging.mode # "" /\ logging.path # ""

\* server: address, timeouts and the limit of a body are in their ranges.
Validate(config) ==
  /\ config.server
  /\ ClientAuthAccepted(config.client)
  /\ \A name \in DOMAIN config.providers : ProviderAccepted(name, config.providers[name])
  /\ \A alias \in DOMAIN config.aliases :
       AliasAccepted(config.providers, alias, config.aliases[alias])
  /\ LoggingAccepted(config.logging)

-----------------------------------------------------------------------------
(***************************************************************************)
(* The constructors.  Those of the token sources trim every name; those of *)
(* the adapters accept every absolute URL.                                 *)
(***************************************************************************)

ProviderBuilds(name, provider) ==
  /\ provider.auth.type \in AuthTypes /\ ~Blank(provider.auth.value)
  /\ provider.type \in ProviderTypes
  /\ ~Blank(name)
  /\ provider.url \in {"http", "other"}

\* A list of tokens is empty if there is nothing but commas and blanks in it.
HasTokens(tokens) == tokens \notin {"", " ", ","}

\* NewClientAuthMiddleware; environment maps the names of variables to their values.
ClientAuthBuilds(client, environment) ==
  LET fromEnv == client.tokensEnv \in DOMAIN environment
                   /\ HasTokens(environment[client.tokensEnv])
  IN  CASE client.mode \in OpenModes -> TRUE
        [] client.mode = "static_bearer" -> HasTokens(client.tokensVal) \/ fromEnv
        [] client.mode = "bearer_tokens" -> fromEnv
        [] OTHER -> FALSE

\* Requests are logged by a JSONLLogger, and by a NoopLogger otherwise.
LogsRequests(logging) == logging.enabled /\ logging.mode # "off"

LoggerBuilds(logging) ==
  \/ ~logging.enabled
  \/ logging.mode = "off"
  \/ logging.mode \in {"", "metadata_only", "invasive", "full_transcript"} /\ logging.path # ""

-----------------------------------------------------------------------------
(***************************************************************************)
(* Resolve, as far as it depends on the configuration and on the models    *)
(* that were discovered for providers without any (catalog).               *)
(***************************************************************************)

CandidateVerdict(catalog, candidate) ==
  CASE ~Whole(candidate) \/ candidate.provider = "" \/ candidate.model = "" -> "invalid_candidate"
    [] candidate.provider \notin DOMAIN catalog -> "unknown_provider"
    [] catalog[candidate.provider] = {} -> "offline"
    [] candidate.model \notin catalog[candidate.provider] -> "unknown_model"
    [] OTHER -> "listed"

Rejections == {"invalid_candidate", "unknown_provider", "unknown_model"}

AliasVerdict(catalog, synthetic) ==
  LET verdicts == [i \in DOMAIN synthetic.candidates |->
                    CandidateVerdict(catalog, synthetic.candidates[i])]
      rejected == {i \in DOMAIN verdicts : verdicts[i] \in Rejections}
  IN  IF synthetic.strategy # "first_available" THEN "unsupported_strategy"
      ELSE IF rejected # {} THEN verdicts[CHOOSE i \in rejected : \A j \in rejected : i <= j]
      ELSE IF "listed" \in Range(verdicts) THEN "candidates"
      ELSE "offline"

\* Resolve(model): a name with a colon is never an alias.
NameVerdict(aliases, catalog, model) ==
  LET name == Trim(model)
  IN  IF name = "" THEN "model_required"
      ELSE IF Whole(CutName(name)) THEN "qualified"
      ELSE IF name \in DOMAIN aliases THEN AliasVerdict(catalog, aliases[name])
      ELSE "direct"

=============================================================================
