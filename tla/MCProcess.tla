------------------------------- MODULE MCProcess -------------------------------
(***************************************************************************)
(* Texts of up to five characters; "space" is left out, for nothing but    *)
(* TrimSpace tells it from "other".  Configurations that vary one part of  *)
(* a good one at a time: client authentication, a provider, an alias, the  *)
(* request log.  Two requests.                                             *)
(***************************************************************************)
EXTENDS Process

MCFiles == BoundedSeq(Symbols \ {"space"}, 5)

MCEnvironment == "SET" :> "t" @@ "BLANK" :> " " @@ "COMMAS" :> ","

MCDiscoveries == {{}, {"a"}, {"a", "b"}}

MCAuth == [type |-> "bearer_env", value |-> "a"]

MCProvider == [type |-> "openai_compatible", url |-> "http", auth |-> MCAuth,
               models |-> {"a", "b"}]

\* The second provider lists no models.
MCGood ==
  [server    |-> TRUE,
   client    |-> [mode |-> "none", tokensEnv |-> "", tokensVal |-> ""],
   providers |-> "a" :> MCProvider @@ "b" :> [MCProvider EXCEPT !.models = {}],
   aliases   |-> <<>>,
   logging   |-> [enabled |-> FALSE, mode |-> "off", path |-> ""]]

MCClients ==
  {[MCGood EXCEPT !.client = client] :
     client \in [mode : ClientAuthModes \cup {"other"},
                 tokensEnv : {"", "SET", "BLANK", "COMMAS", "UNSET"},
                 tokensVal : {"", " ", ",", "t"}]}

MCProviders ==
  {[MCGood EXCEPT !.providers = name :> [MCProvider EXCEPT !.type = type, !.models = models]] :
     name \in {"", " ", "a"}, type \in ProviderTypes \cup {""}, models \in {{}, {"a"}, {" "}}}

MCAuths ==
  {[MCGood EXCEPT !.providers = "a" :> [MCProvider EXCEPT !.auth = auth, !.url = url]] :
     auth \in [type : AuthTypes \cup {"other"}, value : {"", " ", "a"}],
     url \in {"", "http", "other"}}

MCReferences == [provider : {"", " ", "a", "b", " a"}, model : {"", " ", "a", "b", "none"}]
                  \cup {[provider |-> "a", model |-> "c"]}

MCCandidates == {<<>>} \cup {<<c>> : c \in MCReferences} \cup
                {<<c, d>> : c \in {[provider |-> p, model |-> "a"] : p \in {"a", "b"}},
                            d \in MCReferences}

MCPools ==
  {[MCGood EXCEPT !.aliases = "b" :> [strategy |-> "first_available", candidates |-> candidates]] :
     candidates \in MCCandidates}

MCAliases ==
  {[MCGood EXCEPT !.aliases = alias :> [strategy |-> strategy, candidates |-> candidates]] :
     alias \in Names, strategy \in Strategies \cup {""},
     candidates \in {<<>>, <<[provider |-> "a", model |-> "a"]>>}}

MCLogs ==
  {[MCGood EXCEPT !.logging = logging] :
     logging \in [enabled : BOOLEAN, mode : LoggingModes \cup {"other"}, path : {"", "a"}]}

MCConfigs ==
  UNION {{MCGood, [MCGood EXCEPT !.server = FALSE]},
         MCClients, MCProviders, MCAuths, MCPools, MCAliases, MCLogs}

=============================================================================
