-------------------------------- MODULE Process --------------------------------
(***************************************************************************)
(* The life of the process (cmd/llm-proxy/main.go): it loads and checks a  *)
(* configuration, builds what serves it, catches signals, serves, and      *)
(* stops on a signal with a grace window for the requests in flight.       *)
(* net/http and the operating system are modelled by what main relies on.  *)
(*                                                                         *)
(* What a request does between Admit and Respond is Dispatch; what SIGHUP  *)
(* does to a process that catches it is Runtime.  The file is read twice   *)
(* at start; the model takes both reads to see the same.                   *)
(***************************************************************************)
EXTENDS Jsonc, Configuration

CONSTANTS
  Requests,      \* one connection each
  Files,         \* texts of configuration files
  Configs,       \* what a text may decode to
  Discoveries,   \* models an upstream without configured ones may report
  Environment    \* names of variables to their values

ASSUME FilesAssumption == Files \subseteq Seq(Symbols)

ASSUME ProcessAssumption ==
  \A decoded \in Configs : \A alias \in DOMAIN decoded.aliases :
    DOMAIN decoded.aliases[alias].candidates \subseteq Nat

VARIABLES
  main,       \* where main is
  exit,       \* "none", or how the process ended
  file,       \* the text of the file while it is read
  stripped,   \* the text the decoder gets
  config,     \* the configuration while the process starts
  catalog,    \* the models of each provider, configured or discovered
  bearer,     \* clients need a token
  logs,       \* the handlers have a JSONLLogger, not a NoopLogger
  caught,     \* signal.Notify: signals that no longer kill the process
  told,       \* history: a stop signal was sent
  stop,       \* the channel of stop signals holds one
  closing,    \* http.Server: Shutdown or Close was called
  listener,   \* the goroutine in ListenAndServe
  listenErr,  \* what it has sent: "none", "nil" or "error"
  phase,      \* of each request, see Phases
  gone,       \* requests whose client has left
  logged,     \* requests with a record in the request log
  lost        \* history: requests whose record could not be written

built    == <<bearer, logs>>
startup  == <<file, stripped, config, catalog, built>>
signals  == <<caught, told, stop>>
server   == <<closing, listener, listenErr>>
log      == <<logged, lost>>
requests == <<phase, gone, log>>
vars     == <<main, exit, startup, signals, server, requests>>

NoConfig == [none |-> TRUE]

\* A connection is "connected" until its first byte and "active" until its request is
\* read; the handler is in "handling" and "answered".
InFlight == {"connected", "active", "handling", "answered"}
Ended    == {"none", "dropped", "denied", "returned"}
Phases   == InFlight \cup Ended \cup {"cut"}

Alive == exit = "none"

Init ==
  /\ main = "loading"
  /\ exit = "none"
  /\ file \in Files
  /\ stripped = <<>>
  /\ config = NoConfig
  /\ catalog = <<>>
  /\ bearer = FALSE
  /\ logs = FALSE
  /\ caught = {}
  /\ told = FALSE
  /\ stop = FALSE
  /\ closing = FALSE
  /\ listener = "none"
  /\ listenErr = "none"
  /\ phase = [r \in Requests |-> "none"]
  /\ gone = {}
  /\ logged = {}
  /\ lost = {}

At(place) == Alive /\ main = place

\* The process ends, and with it whatever is in flight.
Exit(how) ==
  /\ exit' = how
  /\ phase' = [r \in Requests |-> IF phase[r] \in InFlight THEN "cut" ELSE phase[r]]
  /\ UNCHANGED <<main, gone, log>>

Goto(place) ==
  /\ main' = place
  /\ UNCHANGED <<exit, requests>>

-----------------------------------------------------------------------------

\* config.Load: the file is read and its comments are stripped.
ReadFile ==
  /\ At("loading")
  /\ \/ Exit("refused") /\ UNCHANGED stripped
     \/ Goto("decoding") /\ stripped' = StripJSONComments(file)
  /\ UNCHANGED <<file, config, catalog, built, signals, server>>

\* No path, and no file at the default one: the defaults are validated.
UseDefaults ==
  /\ At("loading")
  /\ Goto("validating")
  /\ file' = <<>>
  /\ UNCHANGED <<stripped, config, catalog, built, signals, server>>

\* The decoder refuses the text, or makes some configuration of it.
Decode ==
  /\ At("decoding")
  /\ Exit("refused") \/ Goto("validating")
  /\ file' = <<>> /\ stripped' = <<>>
  /\ UNCHANGED <<config, catalog, built, signals, server>>

ValidateConfig ==
  /\ At("validating")
  /\ \E decoded \in Configs :
       /\ config' = decoded
       /\ IF Validate(decoded) THEN Goto("building") ELSE Exit("refused")
  /\ UNCHANGED <<file, stripped, catalog, built, signals, server>>

\* buildProviders: an upstream without configured models is asked for its own, and may
\* not answer.
BuildProviders ==
  /\ At("building")
  /\ IF \A name \in DOMAIN config.providers : ProviderBuilds(name, config.providers[name])
     THEN /\ Goto("authenticating")
          /\ \E discovered \in [DOMAIN config.providers -> Discoveries] :
               catalog' = [name \in DOMAIN config.providers |->
                            LET models == config.providers[name].models
                            IN  IF models = {} THEN discovered[name] ELSE models]
     ELSE Exit("refused") /\ UNCHANGED catalog
  /\ UNCHANGED <<file, stripped, config, built, signals, server>>

BuildClientAuth ==
  /\ At("authenticating")
  /\ IF ClientAuthBuilds(config.client, Environment) THEN Goto("opening_log")
     ELSE Exit("refused")
  /\ bearer' = (config.client.mode \notin OpenModes)
  /\ UNCHANGED <<file, stripped, config, catalog, logs, signals, server>>

\* What the configuration says is in the server from here on.
OpenLog ==
  /\ At("opening_log")
  /\ IF LoggerBuilds(config.logging)
     THEN Goto("starting") /\ config' = NoConfig /\ catalog' = <<>>
     ELSE Exit("refused") /\ UNCHANGED <<config, catalog>>
  /\ logs' = LogsRequests(config.logging)
  /\ UNCHANGED <<file, stripped, bearer, signals, server>>

NotifyStop ==
  /\ At("starting")
  /\ Goto("catching")
  /\ caught' = {"stop"}
  /\ UNCHANGED <<startup, told, stop, server>>

\* The reload loop is started, then serve with its goroutine.
NotifyHup ==
  /\ At("catching")
  /\ Goto("serving")
  /\ caught' = {"stop", "hup"}
  /\ listener' = "starting"
  /\ UNCHANGED <<startup, told, stop, closing, listenErr>>

-----------------------------------------------------------------------------

\* Mutant of HearStop: a channel without a buffer.
HearStopNow == stop' = (stop \/ main = "serving")

\* The channel has room for one signal; more are dropped.
HearStop == stop' = TRUE

\* SIGINT or SIGTERM.
StopSignal ==
  /\ Alive
  /\ told' = TRUE
  /\ IF "stop" \in caught THEN HearStop /\ UNCHANGED <<main, exit, requests>>
     ELSE Exit("killed") /\ UNCHANGED stop
  /\ UNCHANGED <<startup, caught, server>>

\* SIGHUP; one that is caught goes to the reload loop.
HupSignal ==
  /\ Alive
  /\ "hup" \notin caught
  /\ Exit("killed")
  /\ UNCHANGED <<startup, signals, server>>

-----------------------------------------------------------------------------
(***************************************************************************)
(* The goroutine in ListenAndServe.  ErrServerClosed is sent as nil.       *)
(***************************************************************************)

Stops(state, err) ==
  /\ listener' = state
  /\ listenErr' = err
  /\ UNCHANGED <<main, exit, startup, signals, closing, requests>>

Bind ==
  /\ Alive /\ listener = "starting" /\ ~closing
  /\ listener' = "accepting"
  /\ UNCHANGED <<main, exit, startup, signals, closing, listenErr, requests>>

\* The address is in use, or accepting fails for good.
ListenFails ==
  /\ Alive
  /\ listener = "starting" \/ (listener = "accepting" /\ ~closing)
  /\ Stops("failed", "error")

ListenCloses ==
  /\ Alive /\ closing
  /\ listener \in {"starting", "accepting"}
  /\ Stops("closed", "nil")

-----------------------------------------------------------------------------
(***************************************************************************)
(* waitForShutdown and shutdownServer.                                     *)
(***************************************************************************)

\* The channel has one message; who receives it returns it from serve.
ReturnFromServe ==
  /\ listenErr # "none"
  /\ Exit(IF listenErr = "nil" THEN "ok" ELSE "listen_error")
  /\ UNCHANGED <<startup, signals, server>>

ServeFails == At("serving") /\ ReturnFromServe

\* Shutdown closes the listener first.
TakeStop ==
  /\ At("serving") /\ stop
  /\ Goto("draining")
  /\ stop' = FALSE
  /\ closing' = TRUE
  /\ UNCHANGED <<startup, caught, told, listener, listenErr>>

\* A connection that never sent anything counts as idle after five seconds.
DropFresh(r) ==
  /\ At("draining")
  /\ phase[r] = "connected"
  /\ phase' = [phase EXCEPT ![r] = "dropped"]
  /\ UNCHANGED <<main, exit, startup, signals, server, gone, log>>

Drained ==
  /\ At("draining")
  /\ \A r \in Requests : phase[r] \notin InFlight
  /\ Goto("awaiting")
  /\ UNCHANGED <<startup, signals, server>>

\* Mutant of GraceElapses: the error of Shutdown is not returned.
GraceElapsesQuietly ==
  /\ At("draining")
  /\ Exit("ok")
  /\ UNCHANGED <<startup, signals, server>>

\* Shutdown gives up, and Close cuts what is left.
GraceElapses ==
  /\ At("draining")
  /\ Exit("grace_elapsed")
  /\ UNCHANGED <<startup, signals, server>>

AwaitListener == At("awaiting") /\ ReturnFromServe

-----------------------------------------------------------------------------
(***************************************************************************)
(* Connections and their requests.                                         *)
(***************************************************************************)

Moves(r, from, to) ==
  /\ Alive /\ phase[r] = from
  /\ phase' = [phase EXCEPT ![r] = to]
  /\ UNCHANGED <<main, exit, startup, signals, server>>

Connect(r) ==
  /\ listener = "accepting" /\ ~closing
  /\ Moves(r, "none", "connected")
  /\ UNCHANGED <<gone, log>>

FirstByte(r) == Moves(r, "connected", "active") /\ UNCHANGED <<gone, log>>

\* StaticBearerAuth answers for a request without a token it knows; the request log
\* hears nothing of it.
Deny(r) == bearer /\ Moves(r, "active", "denied") /\ UNCHANGED <<gone, log>>

Admit(r) == Moves(r, "active", "handling") /\ UNCHANGED <<gone, log>>

Respond(r) == Moves(r, "handling", "answered") /\ UNCHANGED <<gone, log>>

\* LogRequest, and the handler returns whatever comes of it.  A NoopLogger writes nothing,
\* a JSONLLogger nothing for a client that has left; and encoding, opening or writing may
\* fail.
Record(r) ==
  /\ Moves(r, "answered", "returned")
  /\ \/ /\ logs /\ r \notin gone
        /\ \/ logged' = logged \cup {r} /\ UNCHANGED lost
           \/ lost' = lost \cup {r} /\ UNCHANGED logged
     \/ (~logs \/ r \in gone) /\ UNCHANGED log
  /\ UNCHANGED gone

Leave(r) ==
  /\ Alive
  /\ phase[r] \in InFlight /\ r \notin gone
  /\ gone' = gone \cup {r}
  /\ UNCHANGED <<main, exit, startup, signals, server, phase, log>>

-----------------------------------------------------------------------------

Start  == ReadFile \/ UseDefaults \/ Decode \/ ValidateConfig \/ BuildProviders
            \/ BuildClientAuth \/ OpenLog \/ NotifyStop \/ NotifyHup
Serve  == ServeFails \/ TakeStop \/ Drained \/ GraceElapses \/ AwaitListener
Listen == Bind \/ ListenFails \/ ListenCloses

Next ==
  \/ Start \/ Serve \/ Listen
  \/ StopSignal \/ HupSignal
  \/ \E r \in Requests :
       \/ DropFresh(r) \/ Connect(r) \/ FirstByte(r) \/ Deny(r) \/ Admit(r)
       \/ Respond(r) \/ Record(r) \/ Leave(r)

\* Main and the listener run; the grace window is a timer.  Nothing is assumed of
\* clients, nor of handlers, and no listener has to fail.
Fairness == WF_vars(Start) /\ WF_vars(Serve) /\ WF_vars(Bind) /\ WF_vars(ListenCloses)

Spec == Init /\ [][Next]_vars /\ Fairness

-----------------------------------------------------------------------------

Mains == {"loading", "decoding", "validating", "building", "authenticating", "opening_log",
          "starting", "catching", "serving", "draining", "awaiting"}

TypeOK ==
  /\ main \in Mains
  /\ exit \in {"none", "ok", "refused", "killed", "listen_error", "grace_elapsed"}
  /\ bearer \in BOOLEAN
  /\ logs \in BOOLEAN
  /\ caught \subseteq {"stop", "hup"}
  /\ told \in BOOLEAN
  /\ stop \in BOOLEAN
  /\ closing \in BOOLEAN
  /\ listener \in {"none", "starting", "accepting", "failed", "closed"}
  /\ listenErr \in {"none", "nil", "error"}
  /\ phase \in [Requests -> Phases]
  /\ gone \subseteq Requests
  /\ logged \subseteq Requests
  /\ lost \subseteq Requests

\* The text the decoder gets is the file without its comments, and with every
\* character of a string as it was, whatever quotes, escapes, slashes and stars
\* surround them, also in a file that ends in the middle of one.
CommentsStripped ==
  At("decoding") => stripped = WithoutComments(TrimSpace(file))

\* A configuration that Validate accepts does what it says.  It is refused later only
\* for the name of a variable or a file that is blank, or for client tokens that are
\* not there.  Each alias of the one strategy that is implemented, under a name that
\* can be asked for, offers its candidates; it is rejected only for a model that
\* an upstream turned out not to have.
AcceptedServes ==
  config # NoConfig /\ Validate(config) =>
    /\ exit = "refused" =>
         \/ \E name \in DOMAIN config.providers :
              LET auth == config.providers[name].auth
              IN  auth.type \notin TrimmedAuth /\ Blank(auth.value)
         \/ /\ config.client.mode \notin OpenModes
            /\ config.client.mode = "static_bearer" => ~HasTokens(config.client.tokensVal)
            /\ \A variable \in {config.client.tokensEnv} \cap DOMAIN Environment :
                 ~HasTokens(Environment[variable])
    /\ At("authenticating") =>
         \A alias \in DOMAIN config.aliases \ {" a", "a:b"} :
           LET synthetic == config.aliases[alias]
               verdict   == NameVerdict(config.aliases, catalog, alias)
           IN  synthetic.strategy = "first_available" =>
                 \/ verdict \in {"candidates", "offline"}
                 \/ /\ verdict = "unknown_model"
                    /\ \E candidate \in Range(synthetic.candidates) :
                         config.providers[candidate.provider].models = {}

\* The status of the process tells what became of its requests.  It ends well only
\* after a stop signal, with the listener closed in order, and then every request
\* that reached a handler is answered and was handed to the request log: its record is
\* there, unless the log is off, its client left or the record could not be written,
\* none of which shows in the status.  A request is cut off only by a grace window that
\* elapsed or a listener that failed; a signal kills the process only before there is
\* any request.
CleanExit ==
  /\ exit = "ok" =>
       /\ told /\ listener = "closed"
       /\ \A r \in Requests :
            /\ phase[r] \in Ended
            /\ phase[r] = "returned" /\ logs => r \in logged \cup gone \cup lost
  /\ \A r \in Requests : phase[r] = "cut" => exit \in {"grace_elapsed", "listen_error"}
  /\ exit = "killed" => \A r \in Requests : phase[r] = "none"

\* A stop signal ends the process, whenever it comes and whatever its requests and
\* clients do.
StopsWhenTold == told ~> ~Alive

=============================================================================
