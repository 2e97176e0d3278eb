----------------------------- MODULE ProcessProofs -----------------------------
(***************************************************************************)
(* The exit of the process tells what became of its requests, for any      *)
(* number of them, any configuration and any signals; a configuration that *)
(* is accepted works; and a file loses its comments and nothing else.      *)
(***************************************************************************)
EXTENDS Process, SequenceTheorems, WellFoundedInduction, TLAPS

Serving == {"serving", "draining", "awaiting"}

\* A process serves with both signals caught, and has requests only while it does.
ServesPrepared ==
  /\ (listener = "none") <=> (main \notin Serving)
  /\ main \in Serving => {"stop", "hup"} \subseteq caught
  /\ listener = "none" => \A r \in Requests : phase[r] = "none"

\* The listener is closed by the shutdown only, and the shutdown is begun by a signal.
ClosesOnDemand ==
  /\ stop => told
  /\ closing => told
  /\ closing <=> main \in {"draining", "awaiting"}
  /\ listenErr = "nil" => listener = "closed"
  /\ listener = "closed" => closing

\* What the exit says.
RequestsSettled ==
  /\ \A r \in Requests : phase[r] = "returned" /\ logs => r \in logged \cup gone \cup lost
  /\ main = "awaiting" => \A r \in Requests : phase[r] \notin InFlight
  /\ exit = "ok" => told /\ listener = "closed" /\ \A r \in Requests : phase[r] \in Ended
  /\ \A r \in Requests : phase[r] = "cut" => exit \in {"grace_elapsed", "listen_error"}
  /\ exit = "killed" => \A r \in Requests : phase[r] = "none"

IInv == TypeOK /\ ServesPrepared /\ ClosesOnDemand /\ RequestsSettled

-----------------------------------------------------------------------------

\* In flight, ended and cut off exclude each other.
LEMMA PhasesDiffer ==
  /\ InFlight \subseteq Phases /\ Ended \subseteq Phases /\ "cut" \in Phases
  /\ "none" \in Ended /\ "dropped" \in Ended /\ "denied" \in Ended /\ "returned" \in Ended
  /\ InFlight \cap Ended = {} /\ "cut" \notin InFlight \cup Ended
  /\ Phases = InFlight \cup Ended \cup {"cut"}
BY DEF Phases, InFlight, Ended

\* The end of a process that serves nothing yet touches no request.
LEMMA EarlyExit ==
  ASSUME IInv, Alive, main \notin Serving, NEW how \in {"refused", "killed"}, Exit(how),
         told' \in BOOLEAN, told => told', UNCHANGED <<caught, stop, server>>,
         bearer' \in BOOLEAN, logs' \in BOOLEAN
  PROVE  IInv'
<1>. USE DEF Exit, server, log
<1>1. \A r \in Requests : phase[r] = "none"
  BY DEF IInv, ServesPrepared
<1>2. /\ phase' \in [Requests -> Phases]
      /\ \A r \in Requests : phase'[r] = "none"
  BY <1>1, PhasesDiffer DEF InFlight
<1>3. TypeOK'
  BY <1>2 DEF IInv, TypeOK
<1>4. ServesPrepared'
  BY <1>2 DEF IInv, ServesPrepared
<1>5. ClosesOnDemand'
  BY DEF IInv, ClosesOnDemand
<1>6. RequestsSettled'
  BY <1>2, PhasesDiffer DEF IInv, RequestsSettled, Serving
<1>. QED  BY <1>3, <1>4, <1>5, <1>6 DEF IInv

\* A step of the start that goes on.
LEMMA EarlyStep ==
  ASSUME IInv, Alive, main \notin Serving, NEW place \in Mains \ Serving, Goto(place),
         caught' \subseteq {"stop", "hup"}, UNCHANGED <<told, stop, server>>,
         bearer' \in BOOLEAN, logs' \in BOOLEAN
  PROVE  IInv'
<1>. USE DEF Goto, server, requests, log
<1>1. TypeOK'
  BY DEF IInv, TypeOK
<1>2. ServesPrepared'
  BY DEF IInv, ServesPrepared
<1>3. ClosesOnDemand'
  BY DEF IInv, ClosesOnDemand, Serving
<1>4. RequestsSettled'
  <2>1. \A r \in Requests : phase[r] = "none"
    BY DEF IInv, ServesPrepared
  <2>. QED  BY <2>1 DEF IInv, RequestsSettled, Serving, Alive
<1>. QED  BY <1>1, <1>2, <1>3, <1>4 DEF IInv

\* A step of start-up keeps the invariant.
LEMMA StartStep ==
  ASSUME IInv, Start
  PROVE  IInv'
<1>. USE DEF At, signals, server, built
<1>1. bearer \in BOOLEAN /\ logs \in BOOLEAN /\ caught \subseteq {"stop", "hup"} /\ told \in BOOLEAN
  BY DEF IInv, TypeOK
<1>2. CASE ReadFile
  <2>1. Alive /\ main \notin Serving
    BY <1>2 DEF ReadFile, Serving
  <2>2. Exit("refused") \/ Goto("decoding")
    BY <1>2 DEF ReadFile
  <2>. QED  BY <1>1, <1>2, <2>1, <2>2, EarlyExit, EarlyStep DEF ReadFile, Mains, Serving
<1>3. CASE UseDefaults
  <2>1. Alive /\ main \notin Serving
    BY <1>3 DEF UseDefaults, Serving
  <2>. QED  BY <1>1, <1>3, <2>1, EarlyStep DEF UseDefaults, Mains, Serving
<1>4. CASE Decode
  <2>1. Alive /\ main \notin Serving
    BY <1>4 DEF Decode, Serving
  <2>2. Exit("refused") \/ Goto("validating")
    BY <1>4 DEF Decode
  <2>. QED  BY <1>1, <1>4, <2>1, <2>2, EarlyExit, EarlyStep DEF Decode, Mains, Serving
<1>5. CASE ValidateConfig
  <2>1. Alive /\ main \notin Serving
    BY <1>5 DEF ValidateConfig, Serving
  <2>2. Exit("refused") \/ Goto("building")
    BY <1>5 DEF ValidateConfig
  <2>. QED  BY <1>1, <1>5, <2>1, <2>2, EarlyExit, EarlyStep DEF ValidateConfig, Mains, Serving
<1>6. CASE BuildProviders
  <2>1. Alive /\ main \notin Serving
    BY <1>6 DEF BuildProviders, Serving
  <2>2. Exit("refused") \/ Goto("authenticating")
    BY <1>6 DEF BuildProviders
  <2>. QED  BY <1>1, <1>6, <2>1, <2>2, EarlyExit, EarlyStep DEF BuildProviders, Mains, Serving
<1>7. CASE BuildClientAuth
  <2>1. Alive /\ main \notin Serving /\ bearer' \in BOOLEAN /\ logs' = logs
    BY <1>7 DEF BuildClientAuth, Serving
  <2>2. Exit("refused") \/ Goto("opening_log")
    BY <1>7 DEF BuildClientAuth
  <2>. QED  BY <1>1, <1>7, <2>1, <2>2, EarlyExit, EarlyStep DEF BuildClientAuth, Mains, Serving
<1>8. CASE OpenLog
  <2>1. Alive /\ main \notin Serving /\ bearer' = bearer /\ logs' \in BOOLEAN
    BY <1>8 DEF OpenLog, LogsRequests, Serving
  <2>2. Exit("refused") \/ Goto("starting")
    BY <1>8 DEF OpenLog
  <2>. QED  BY <1>1, <1>8, <2>1, <2>2, EarlyExit, EarlyStep DEF OpenLog, Mains, Serving
<1>9. CASE NotifyStop
  <2>1. Alive /\ main \notin Serving /\ caught' \subseteq {"stop", "hup"}
    BY <1>9 DEF NotifyStop, Serving
  <2>. QED  BY <1>1, <1>9, <2>1, EarlyStep DEF NotifyStop, startup, built, Mains, Serving
<1>10. CASE NotifyHup
  <2>. USE <1>10 DEF NotifyHup, Goto, startup, built, requests, log
  <2>1. TypeOK'
    BY DEF IInv, TypeOK, Mains
  <2>2. ServesPrepared'
    BY DEF IInv, ServesPrepared, Serving
  <2>3. ClosesOnDemand'
    BY DEF IInv, ClosesOnDemand
  <2>4. RequestsSettled'
    BY DEF IInv, RequestsSettled, Alive
  <2>. QED  BY <2>1, <2>2, <2>3, <2>4 DEF IInv
<1>. QED  BY <1>2, <1>3, <1>4, <1>5, <1>6, <1>7, <1>8, <1>9, <1>10 DEF Start

-----------------------------------------------------------------------------

\* A signal from outside keeps the invariant.
LEMMA SignalStep ==
  ASSUME IInv, StopSignal \/ HupSignal
  PROVE  IInv'
<1>1. bearer \in BOOLEAN /\ logs \in BOOLEAN /\ told \in BOOLEAN
  BY DEF IInv, TypeOK
<1>2. CASE StopSignal /\ "stop" \in caught
  <2>. USE <1>2 DEF StopSignal, HearStop, startup, built, server, requests, log
  <2>1. TypeOK'
    BY DEF IInv, TypeOK
  <2>2. ServesPrepared'
    BY DEF IInv, ServesPrepared
  <2>3. ClosesOnDemand'
    BY DEF IInv, ClosesOnDemand
  <2>4. RequestsSettled'
    BY DEF IInv, RequestsSettled
  <2>. QED  BY <2>1, <2>2, <2>3, <2>4 DEF IInv
<1>3. CASE StopSignal /\ "stop" \notin caught
  <2>1. Alive /\ main \notin Serving /\ Exit("killed") /\ told' = TRUE
    BY <1>3 DEF StopSignal, IInv, ServesPrepared
  <2>2. UNCHANGED <<caught, stop, server>> /\ bearer' = bearer /\ logs' = logs
    BY <1>3 DEF StopSignal, startup, built
  <2>. QED  BY <1>1, <2>1, <2>2, EarlyExit
<1>4. CASE HupSignal
  <2>1. Alive /\ main \notin Serving /\ Exit("killed")
    BY <1>4 DEF HupSignal, IInv, ServesPrepared
  <2>2. UNCHANGED <<caught, told, stop, server>> /\ bearer' = bearer /\ logs' = logs
    BY <1>4 DEF HupSignal, startup, built, signals
  <2>. QED  BY <1>1, <2>1, <2>2, EarlyExit
<1>. QED  BY <1>2, <1>3, <1>4

\* A step of the listener keeps the invariant.
LEMMA ListenStep ==
  ASSUME IInv, Listen
  PROVE  IInv'
<1>. USE DEF startup, built, signals, requests, log
<1>1. CASE Bind
  <2>. USE <1>1 DEF Bind
  <2>1. TypeOK'
    BY DEF IInv, TypeOK
  <2>2. ServesPrepared'
    BY DEF IInv, ServesPrepared
  <2>3. ClosesOnDemand'
    BY DEF IInv, ClosesOnDemand
  <2>4. RequestsSettled'
    BY DEF IInv, RequestsSettled, Alive
  <2>. QED  BY <2>1, <2>2, <2>3, <2>4 DEF IInv
<1>2. CASE ListenFails
  <2>. USE <1>2 DEF ListenFails, Stops
  <2>1. TypeOK'
    BY DEF IInv, TypeOK
  <2>2. ServesPrepared'
    BY DEF IInv, ServesPrepared
  <2>3. ClosesOnDemand'
    BY DEF IInv, ClosesOnDemand
  <2>4. RequestsSettled'
    BY DEF IInv, RequestsSettled, Alive
  <2>. QED  BY <2>1, <2>2, <2>3, <2>4 DEF IInv
<1>3. CASE ListenCloses
  <2>. USE <1>3 DEF ListenCloses, Stops
  <2>1. TypeOK'
    BY DEF IInv, TypeOK
  <2>2. ServesPrepared'
    BY DEF IInv, ServesPrepared
  <2>3. ClosesOnDemand'
    BY DEF IInv, ClosesOnDemand
  <2>4. RequestsSettled'
    BY DEF IInv, RequestsSettled, Alive
  <2>. QED  BY <2>1, <2>2, <2>3, <2>4 DEF IInv
<1>. QED  BY <1>1, <1>2, <1>3 DEF Listen

-----------------------------------------------------------------------------

\* A process that serves ends; whatever is in flight is cut.
LEMMA LateExit ==
  ASSUME IInv, Alive, main \in Serving, NEW how \in {"ok", "listen_error", "grace_elapsed"},
         Exit(how), UNCHANGED <<startup, signals, server>>,
         how = "ok" => main = "awaiting" /\ listener = "closed"
  PROVE  IInv'
<1>. USE DEF Exit, startup, built, signals, server, log
<1>1. /\ phase' \in [Requests -> Phases]
      /\ \A r \in Requests : phase'[r] = IF phase[r] \in InFlight THEN "cut" ELSE phase[r]
  BY PhasesDiffer DEF IInv, TypeOK
<1>2. TypeOK'
  BY <1>1 DEF IInv, TypeOK
<1>3. ServesPrepared'
  BY <1>1 DEF IInv, ServesPrepared
<1>4. ClosesOnDemand'
  BY DEF IInv, ClosesOnDemand
<1>5. \A r \in Requests : phase[r] # "cut"
  BY DEF IInv, RequestsSettled, Alive
<1>6. \A r \in Requests : phase'[r] = "returned" /\ logs => r \in logged \cup gone \cup lost
  BY <1>1 DEF IInv, RequestsSettled
<1>7. \A r \in Requests : phase'[r] \notin InFlight
  BY <1>1, PhasesDiffer
<1>8. how = "ok" => \A r \in Requests : phase'[r] = phase[r] /\ phase[r] \in Ended
  BY <1>1, <1>5, PhasesDiffer DEF IInv, RequestsSettled, TypeOK
<1>9. how = "ok" => told /\ listener = "closed"
  BY DEF IInv, ClosesOnDemand
<1>10. \A r \in Requests : phase'[r] = "cut" => exit' \in {"grace_elapsed", "listen_error"}
  BY <1>8, PhasesDiffer
<1>11. RequestsSettled'
  BY <1>6, <1>7, <1>8, <1>9, <1>10 DEF RequestsSettled
<1>. QED  BY <1>2, <1>3, <1>4, <1>11 DEF IInv

\* A step of main while it serves and drains keeps the invariant.
LEMMA ServeStep ==
  ASSUME IInv, Serve
  PROVE  IInv'
<1>. USE DEF At
<1>1. CASE ServeFails \/ AwaitListener
  <2>1. Alive /\ main \in Serving /\ ReturnFromServe
    BY <1>1 DEF ServeFails, AwaitListener, Serving
  <2>2. CASE listenErr = "nil"
    <3>1. Exit("ok") /\ UNCHANGED <<startup, signals, server>>
      BY <2>1, <2>2 DEF ReturnFromServe
    <3>2. main = "awaiting" /\ listener = "closed"
      BY <1>1, <2>2 DEF IInv, ClosesOnDemand, ServeFails, AwaitListener
    <3>. QED  BY <2>1, <3>1, <3>2, LateExit
  <2>3. CASE listenErr # "nil"
    <3>1. Exit("listen_error") /\ UNCHANGED <<startup, signals, server>>
      BY <2>1, <2>3 DEF ReturnFromServe
    <3>. QED  BY <2>1, <3>1, LateExit
  <2>. QED  BY <2>2, <2>3
<1>2. CASE GraceElapses
  <2>1. /\ Alive /\ main \in Serving /\ Exit("grace_elapsed")
        /\ UNCHANGED <<startup, signals, server>>
    BY <1>2 DEF GraceElapses, Serving
  <2>. QED  BY <2>1, LateExit
<1>3. CASE TakeStop
  <2>. USE <1>3 DEF TakeStop, Goto, startup, built, requests, log
  <2>1. TypeOK'
    BY DEF IInv, TypeOK, Mains
  <2>2. ServesPrepared'
    BY DEF IInv, ServesPrepared, Serving
  <2>3. ClosesOnDemand'
    BY DEF IInv, ClosesOnDemand
  <2>4. RequestsSettled'
    BY DEF IInv, RequestsSettled, Alive
  <2>. QED  BY <2>1, <2>2, <2>3, <2>4 DEF IInv
<1>4. CASE Drained
  <2>. USE <1>4 DEF Drained, Goto, startup, built, signals, server, requests, log
  <2>1. TypeOK'
    BY DEF IInv, TypeOK, Mains
  <2>2. ServesPrepared'
    BY DEF IInv, ServesPrepared, Serving
  <2>3. ClosesOnDemand'
    BY DEF IInv, ClosesOnDemand
  <2>4. RequestsSettled'
    BY DEF IInv, RequestsSettled, Alive
  <2>. QED  BY <2>1, <2>2, <2>3, <2>4 DEF IInv
<1>. QED  BY <1>1, <1>2, <1>3, <1>4 DEF Serve

-----------------------------------------------------------------------------

\* One request moves, at a process whose listener has begun and which does not await it.
LEMMA RequestMoves ==
  ASSUME IInv, Alive, NEW r \in Requests, NEW to \in Phases \ {"cut"},
         listener # "none",
         phase[r] \in InFlight \/ ~closing,
         phase' = [phase EXCEPT ![r] = to],
         UNCHANGED <<main, exit, startup, signals, server, gone>>,
         logged \subseteq logged', logged' \subseteq Requests,
         lost \subseteq lost', lost' \subseteq Requests,
         to = "returned" /\ logs => r \in logged' \cup gone \cup lost'
  PROVE  IInv'
<1>. USE DEF startup, built, signals, server
<1>1. /\ phase' \in [Requests -> Phases]
      /\ phase'[r] = to
      /\ \A q \in Requests : q # r => phase'[q] = phase[q]
  BY DEF IInv, TypeOK
<1>2. TypeOK'
  BY <1>1 DEF IInv, TypeOK
<1>3. ServesPrepared'
  BY DEF IInv, ServesPrepared
<1>4. ClosesOnDemand'
  BY DEF IInv, ClosesOnDemand
<1>5. main # "awaiting"
  BY DEF IInv, ClosesOnDemand, RequestsSettled
<1>6. RequestsSettled'
  BY <1>1, <1>5 DEF IInv, RequestsSettled, Alive
<1>. QED  BY <1>2, <1>3, <1>4, <1>6 DEF IInv

\* Who has a connection has a listener.
LEMMA ConnectedServed ==
  ASSUME IInv, NEW r \in Requests, phase[r] \in InFlight
  PROVE  listener # "none"
BY PhasesDiffer DEF IInv, ServesPrepared

\* A step of one request keeps the invariant.
LEMMA RequestStep ==
  ASSUME IInv, NEW r \in Requests,
         \/ DropFresh(r) \/ Connect(r) \/ FirstByte(r) \/ Deny(r) \/ Admit(r)
         \/ Respond(r) \/ Record(r) \/ Leave(r)
  PROVE  IInv'
<1>. USE DEF Moves, log
<1>1. logged \subseteq Requests /\ gone \subseteq Requests /\ lost \subseteq Requests
  BY DEF IInv, TypeOK
<1>2. \A to \in {"connected", "active", "handling", "answered", "dropped", "denied", "returned"} :
         to \in Phases \ {"cut"}
  BY DEF Phases, InFlight, Ended
<1>3. CASE DropFresh(r)
  <2>1. phase[r] \in InFlight
    BY <1>3 DEF DropFresh, InFlight
  <2>. QED  BY <1>1, <1>2, <1>3, <2>1, ConnectedServed, RequestMoves DEF DropFresh, At
<1>4. CASE Connect(r)
  BY <1>1, <1>2, <1>4, RequestMoves DEF Connect
<1>5. CASE FirstByte(r)
  <2>1. phase[r] \in InFlight
    BY <1>5 DEF FirstByte, InFlight
  <2>. QED  BY <1>1, <1>2, <1>5, <2>1, ConnectedServed, RequestMoves DEF FirstByte
<1>6. CASE Deny(r)
  <2>1. phase[r] \in InFlight
    BY <1>6 DEF Deny, InFlight
  <2>. QED  BY <1>1, <1>2, <1>6, <2>1, ConnectedServed, RequestMoves DEF Deny
<1>7. CASE Admit(r)
  <2>1. phase[r] \in InFlight
    BY <1>7 DEF Admit, InFlight
  <2>. QED  BY <1>1, <1>2, <1>7, <2>1, ConnectedServed, RequestMoves DEF Admit
<1>8. CASE Respond(r)
  <2>1. phase[r] \in InFlight
    BY <1>8 DEF Respond, InFlight
  <2>. QED  BY <1>1, <1>2, <1>8, <2>1, ConnectedServed, RequestMoves DEF Respond
<1>9. CASE Record(r)
  <2>1. phase[r] \in InFlight
    BY <1>9 DEF Record, InFlight
  <2>2. /\ logged \subseteq logged' /\ logged' \subseteq Requests
        /\ lost \subseteq lost' /\ lost' \subseteq Requests
        /\ logs => r \in logged' \cup gone \cup lost'
    BY <1>1, <1>9 DEF Record
  <2>. QED  BY <1>2, <1>9, <2>1, <2>2, ConnectedServed, RequestMoves DEF Record
<1>10. CASE Leave(r)
  <2>. USE <1>10 DEF Leave, startup, built, signals, server
  <2>1. TypeOK'
    BY DEF IInv, TypeOK
  <2>2. ServesPrepared'
    BY DEF IInv, ServesPrepared
  <2>3. ClosesOnDemand'
    BY DEF IInv, ClosesOnDemand
  <2>4. RequestsSettled'
    BY DEF IInv, RequestsSettled
  <2>. QED  BY <2>1, <2>2, <2>3, <2>4 DEF IInv
<1>. QED  BY <1>3, <1>4, <1>5, <1>6, <1>7, <1>8, <1>9, <1>10

-----------------------------------------------------------------------------

\* The initial state satisfies the invariant.
LEMMA Initially == Init => IInv
<1>. SUFFICES ASSUME Init PROVE IInv
  OBVIOUS
<1>1. TypeOK
  BY PhasesDiffer DEF Init, TypeOK, Mains
<1>. QED  BY <1>1 DEF Init, IInv, ServesPrepared, ClosesOnDemand, RequestsSettled, Serving

\* Every step keeps the invariant.
LEMMA Inductive == IInv /\ [Next]_vars => IInv'
<1>. SUFFICES ASSUME IInv, [Next]_vars PROVE IInv'
  OBVIOUS
<1>1. CASE UNCHANGED vars
  BY <1>1 DEF vars, startup, built, signals, server, requests, log, IInv, TypeOK, ServesPrepared,
              ClosesOnDemand, RequestsSettled
<1>. QED
  BY <1>1, StartStep, ServeStep, ListenStep, SignalStep, RequestStep DEF Next

\* The invariant holds in every state of the process.
LEMMA Invariance == Spec => []IInv
BY Initially, Inductive, PTL DEF Spec

\* Signals, requests and exits stay what they are for any number of requests.
THEOREM TypeCorrect == Spec => []TypeOK
<1>1. IInv => TypeOK
  BY DEF IInv
<1>. QED  BY <1>1, Invariance, PTL

\* The exit of main.go's process tells what became of its requests: see CleanExit.
THEOREM ExitsClean == Spec => []CleanExit
<1>1. IInv => CleanExit
  BY DEF IInv, RequestsSettled, CleanExit
<1>. QED  BY <1>1, Invariance, PTL

-----------------------------------------------------------------------------
(***************************************************************************)
(* What Validate accepts serves.                                           *)
(***************************************************************************)

USE ProcessAssumption

\* What remains for a constructor to refuse.
Refusable(decoded) ==
  \/ \E name \in DOMAIN decoded.providers :
       LET auth == decoded.providers[name].auth
       IN  auth.type \notin TrimmedAuth /\ Blank(auth.value)
  \/ /\ decoded.client.mode \notin OpenModes
     /\ decoded.client.mode = "static_bearer" => ~HasTokens(decoded.client.tokensVal)
     /\ \A variable \in {decoded.client.tokensEnv} \cap DOMAIN Environment :
          ~HasTokens(Environment[variable])

\* The models of each provider are those configured, if there are any.
CatalogAgrees ==
  /\ DOMAIN catalog = DOMAIN config.providers
  /\ \A name \in DOMAIN config.providers :
       config.providers[name].models # {} => catalog[name] = config.providers[name].models

\* What is known of the configuration as the process starts.
StartsSound ==
  /\ Alive /\ main \in {"loading", "decoding", "validating"} => config = NoConfig
  /\ config # NoConfig => config \in Configs
  /\ At("authenticating") => CatalogAgrees
  /\ exit = "refused" /\ config # NoConfig /\ Validate(config) => Refusable(config)

\* buildProviders refuses a provider that Validate accepts only for a blank name.
LEMMA ProvidersBuild ==
  ASSUME NEW decoded, Validate(decoded), NEW name \in DOMAIN decoded.providers,
         ~ProviderBuilds(name, decoded.providers[name])
  PROVE  Refusable(decoded)
BY DEF Validate, ProviderAccepted, AuthAccepted, ProviderBuilds, Refusable

\* NewClientAuthMiddleware refuses what Validate accepts only for missing tokens.
LEMMA AuthBuilds ==
  ASSUME NEW decoded, Validate(decoded), ~ClientAuthBuilds(decoded.client, Environment)
  PROVE  Refusable(decoded)
<1>. DEFINE client == decoded.client
            fromEnv == client.tokensEnv \in DOMAIN Environment
                         /\ HasTokens(Environment[client.tokensEnv])
<1>1. client.mode \in ClientAuthModes
  BY DEF Validate, ClientAuthAccepted, ClientAuthModes, OpenModes
<1>2. client.mode \notin OpenModes
  BY DEF ClientAuthBuilds, OpenModes
<1>3. client.mode \in {"static_bearer", "bearer_tokens"}
  BY <1>1, <1>2 DEF ClientAuthModes, OpenModes
<1>4. /\ ~fromEnv
      /\ client.mode = "static_bearer" => ~HasTokens(client.tokensVal)
  BY <1>2, <1>3 DEF ClientAuthBuilds
<1>5. \A variable \in {client.tokensEnv} \cap DOMAIN Environment :
        ~HasTokens(Environment[variable])
  BY <1>4
<1>. QED  BY <1>2, <1>4, <1>5 DEF Refusable

\* The request log accepts whatever Validate accepts.
LEMMA LoggersBuild ==
  ASSUME NEW decoded, Validate(decoded)
  PROVE  LoggerBuilds(decoded.logging)
BY DEF Validate, LoggingAccepted, LoggingModes, LoggerBuilds

\* A step that has nothing to do with the configuration.
LEMMA StartKept ==
  ASSUME StartsSound, UNCHANGED <<config, catalog>>,
         exit' = exit \/ exit' \notin {"none", "refused"},
         main' = main \/ main' \notin {"loading", "decoding", "validating", "authenticating"}
  PROVE  StartsSound'
<1>1. Alive' => Alive
  BY DEF Alive
<1>2. exit' = "refused" => exit = "refused"
  OBVIOUS
<1>3. CatalogAgrees' <=> CatalogAgrees
  BY DEF CatalogAgrees
<1>4. Validate(config)' <=> Validate(config)
  OBVIOUS
<1>5. Refusable(config)' <=> Refusable(config)
  OBVIOUS
<1>. QED  BY <1>1, <1>2, <1>3, <1>4, <1>5 DEF StartsSound, At

\* A step of start-up keeps what is known of the configuration.
LEMMA StartSoundStep == ASSUME StartsSound, Start PROVE StartsSound'
<1>. USE DEF At, Goto, Exit
<1>1. CASE ReadFile \/ Decode
  <2>1. config = NoConfig /\ config' = config
    BY <1>1 DEF ReadFile, Decode, StartsSound
  <2>2. main' # "authenticating"
    BY <1>1 DEF ReadFile, Decode
  <2>. QED  BY <2>1, <2>2 DEF StartsSound
<1>2. CASE UseDefaults
  <2>1. config = NoConfig /\ config' = config /\ main' = "validating"
    BY <1>2 DEF UseDefaults, StartsSound
  <2>. QED  BY <2>1 DEF StartsSound
<1>3. CASE ValidateConfig
  <2>1. /\ config' \in Configs /\ main' # "authenticating"
        /\ IF Validate(config') THEN main' = "building" /\ exit' = "none"
           ELSE exit' = "refused"
    BY <1>3 DEF ValidateConfig, Alive
  <2>2. Validate(config)' <=> Validate(config')
    OBVIOUS
  <2>. QED  BY <2>1, <2>2 DEF StartsSound, Alive
<1>4. CASE BuildProviders
  <2>0. config' = config /\ Alive /\ main = "building" /\ (config # NoConfig => config \in Configs)
    BY <1>4 DEF BuildProviders, StartsSound
  <2>1. CASE \A name \in DOMAIN config.providers : ProviderBuilds(name, config.providers[name])
    <3>1. PICK discovered \in [DOMAIN config.providers -> Discoveries] :
            catalog' = [name \in DOMAIN config.providers |->
                         LET models == config.providers[name].models
                         IN  IF models = {} THEN discovered[name] ELSE models]
      BY <1>4, <2>1 DEF BuildProviders
    <3>2. CatalogAgrees'
      BY <2>0, <3>1 DEF CatalogAgrees
    <3>3. exit' = exit /\ main' = "authenticating"
      BY <1>4, <2>1 DEF BuildProviders
    <3>. QED  BY <2>0, <3>2, <3>3 DEF StartsSound, Alive
  <2>2. CASE ~\A name \in DOMAIN config.providers : ProviderBuilds(name, config.providers[name])
    <3>1. Validate(config) => Refusable(config)
      BY <2>2, ProvidersBuild
    <3>2. exit' = "refused"
      BY <1>4, <2>2 DEF BuildProviders
    <3>3. (Validate(config)' <=> Validate(config)) /\ (Refusable(config)' <=> Refusable(config))
      BY <2>0
    <3>. QED  BY <2>0, <3>1, <3>2, <3>3 DEF StartsSound, Alive
  <2>. QED  BY <2>1, <2>2
<1>5. CASE BuildClientAuth
  <2>0. config' = config /\ Alive /\ main = "authenticating" /\ (config # NoConfig => config \in Configs)
    BY <1>5 DEF BuildClientAuth, StartsSound
  <2>1. CASE ClientAuthBuilds(config.client, Environment)
    <3>1. exit' = exit /\ main' = "opening_log"
      BY <1>5, <2>1 DEF BuildClientAuth
    <3>. QED  BY <2>0, <3>1 DEF StartsSound, Alive
  <2>2. CASE ~ClientAuthBuilds(config.client, Environment)
    <3>1. Validate(config) => Refusable(config)
      BY <2>2, AuthBuilds
    <3>2. exit' = "refused"
      BY <1>5, <2>2 DEF BuildClientAuth
    <3>3. (Validate(config)' <=> Validate(config)) /\ (Refusable(config)' <=> Refusable(config))
      BY <2>0
    <3>. QED  BY <2>0, <3>1, <3>2, <3>3 DEF StartsSound, Alive
  <2>. QED  BY <2>1, <2>2
<1>6. CASE OpenLog
  <2>0. Alive /\ main = "opening_log" /\ (config # NoConfig => config \in Configs)
    BY <1>6 DEF OpenLog, StartsSound
  <2>1. CASE LoggerBuilds(config.logging)
    <3>1. exit' = exit /\ main' = "starting" /\ config' = NoConfig
      BY <1>6, <2>1 DEF OpenLog
    <3>. QED  BY <2>0, <3>1 DEF StartsSound, Alive
  <2>2. CASE ~LoggerBuilds(config.logging)
    <3>1. ~Validate(config)
      BY <2>2, LoggersBuild
    <3>2. exit' = "refused" /\ main' = "opening_log" /\ config' = config
      BY <1>6, <2>0, <2>2 DEF OpenLog
    <3>3. Validate(config)' <=> Validate(config)
      BY <3>2
    <3>. QED  BY <2>0, <3>1, <3>2, <3>3 DEF StartsSound, Alive
  <2>. QED  BY <2>1, <2>2
<1>7. CASE NotifyStop \/ NotifyHup
  BY <1>7, StartKept DEF NotifyStop, NotifyHup, startup
<1>. QED  BY <1>1, <1>2, <1>3, <1>4, <1>5, <1>6, <1>7 DEF Start

\* Every step keeps what is known of the configuration.
LEMMA StartsSoundKept == StartsSound /\ [Next]_vars => StartsSound'
<1>. SUFFICES ASSUME StartsSound, [Next]_vars PROVE StartsSound'
  OBVIOUS
<1>1. CASE Start
  BY <1>1, StartSoundStep
<1>2. CASE Serve \/ Listen
  <2>1. UNCHANGED <<config, catalog>>
    BY <1>2 DEF Serve, Listen, ServeFails, AwaitListener, ReturnFromServe, TakeStop, Drained,
                GraceElapses, Bind, ListenFails, ListenCloses, Stops, startup
  <2>2. /\ exit' = exit \/ exit' \in {"ok", "listen_error", "grace_elapsed"}
        /\ main' = main \/ main' \in {"draining", "awaiting"}
    BY <1>2 DEF Serve, Listen, ServeFails, AwaitListener, ReturnFromServe, TakeStop, Drained,
                GraceElapses, Bind, ListenFails, ListenCloses, Stops, Goto, Exit
  <2>. QED  BY <2>1, <2>2, StartKept
<1>3. CASE StopSignal \/ HupSignal
  <2>1. UNCHANGED <<config, catalog, main>> /\ (exit' = exit \/ exit' = "killed")
    BY <1>3 DEF StopSignal, HupSignal, Exit, startup
  <2>. QED  BY <2>1, StartKept
<1>4. ASSUME NEW r \in Requests,
             \/ DropFresh(r) \/ Connect(r) \/ FirstByte(r) \/ Deny(r) \/ Admit(r)
             \/ Respond(r) \/ Record(r) \/ Leave(r)
      PROVE  StartsSound'
  <2>1. UNCHANGED <<config, catalog, main, exit>>
    BY <1>4 DEF DropFresh, Connect, FirstByte, Deny, Admit, Respond, Record, Leave, Moves, startup
  <2>. QED  BY <2>1, StartKept
<1>5. CASE UNCHANGED vars
  BY <1>5, StartKept DEF vars, startup
<1>. QED  BY <1>1, <1>2, <1>3, <1>4, <1>5 DEF Next

\* A set of naturals that is not empty has a least element.
LEMMA LeastNatural ==
  ASSUME NEW S \in SUBSET Nat, S # {}
  PROVE  \E i \in S : \A j \in S : i <= j
<1>. DEFINE R == OpToRel(<, Nat)
<1>1. IsWellFoundedOn(R, Nat)
  BY NatLessThanWellFounded
<1>2. \A i, j \in Nat : <<i, j>> \in R <=> i < j
  BY DEF OpToRel
<1>. HIDE DEF R
<1>3. PICK i \in S : \A j \in S : ~(<<j, i>> \in R)
  BY <1>1, WFMin
<1>4. ASSUME NEW j \in S PROVE i <= j
  <2>1. i \in Nat /\ j \in Nat /\ ~(j < i)
    BY <1>2, <1>3
  <2>. QED  BY <2>1
<1>. QED  BY <1>4

\* An alias that Validate accepts offers its candidates, unless a model is not there.
LEMMA AliasServes ==
  ASSUME NEW decoded \in Configs, Validate(decoded), NEW models,
         DOMAIN models = DOMAIN decoded.providers,
         \A name \in DOMAIN decoded.providers :
           decoded.providers[name].models # {} => models[name] = decoded.providers[name].models,
         NEW alias \in DOMAIN decoded.aliases \ {" a", "a:b"},
         decoded.aliases[alias].strategy = "first_available"
  PROVE  LET verdict == NameVerdict(decoded.aliases, models, alias)
         IN  \/ verdict \in {"candidates", "offline"}
             \/ /\ verdict = "unknown_model"
                /\ \E candidate \in Range(decoded.aliases[alias].candidates) :
                     decoded.providers[candidate.provider].models = {}
<1>. DEFINE candidates == decoded.aliases[alias].candidates
            verdicts == [i \in DOMAIN candidates |-> CandidateVerdict(models, candidates[i])]
            rejected == {i \in DOMAIN verdicts : verdicts[i] \in Rejections}
            first == CHOOSE i \in rejected : \A j \in rejected : i <= j
<1>1. /\ ~Blank(alias)
      /\ \A i \in DOMAIN candidates : CandidateAccepted(decoded.providers, candidates[i])
  BY DEF Validate, AliasAccepted, Range
<1>2. /\ Trim(alias) = alias /\ alias # "" /\ ~Whole(CutName(alias))
  BY <1>1 DEF Blank, Trim, Whole, CutName
<1>3. NameVerdict(decoded.aliases, models, alias) = AliasVerdict(models, decoded.aliases[alias])
  BY <1>2 DEF NameVerdict
<1>4. ASSUME NEW i \in DOMAIN candidates
      PROVE  /\ verdicts[i] \in {"offline", "unknown_model", "listed"}
             /\ verdicts[i] = "unknown_model" => decoded.providers[candidates[i].provider].models = {}
  <2>1. /\ Whole(candidates[i]) /\ candidates[i].provider # "" /\ candidates[i].model # ""
        /\ candidates[i].provider \in DOMAIN models
        /\ decoded.providers[candidates[i].provider].models # {} =>
             candidates[i].model \in models[candidates[i].provider]
    BY <1>1, <1>4 DEF CandidateAccepted, Blank, Trim
  <2>2. verdicts[i] = CandidateVerdict(models, candidates[i])
    OBVIOUS
  <2>. QED  BY <2>1, <2>2 DEF CandidateVerdict
<1>5. AliasVerdict(models, decoded.aliases[alias]) =
        IF rejected # {} THEN verdicts[first]
        ELSE IF "listed" \in Range(verdicts) THEN "candidates" ELSE "offline"
  BY DEF AliasVerdict
<1>6. rejected # {} => first \in rejected
  <2>. SUFFICES ASSUME NEW k \in rejected PROVE \E i \in rejected : \A j \in rejected : i <= j
    OBVIOUS
  <2>1. rejected \in SUBSET Nat
    OBVIOUS
  <2>. HIDE DEF rejected
  <2>. QED  BY <2>1, LeastNatural
<1>7. rejected # {} =>
        /\ verdicts[first] = "unknown_model" /\ first \in DOMAIN candidates
  BY <1>4, <1>6 DEF Rejections
<1>. HIDE DEF verdicts, rejected, first
<1>8. CASE rejected # {}
  BY <1>3, <1>4, <1>5, <1>7, <1>8 DEF Range
<1>9. CASE rejected = {}
  BY <1>3, <1>5, <1>9
<1>. QED  BY <1>8, <1>9

\* A configuration that Validate accepts is refused by no constructor but for what
\* Validate cannot see, and the router resolves its aliases (buildProviders,
\* NewClientAuthMiddleware, NewJSONLLogger, resolveSyntheticModel).
THEOREM AcceptedWorks == Spec => []AcceptedServes
<1>1. Init => StartsSound
  BY DEF Init, StartsSound, At, Alive
<1>2. StartsSound => AcceptedServes
  <2>. SUFFICES ASSUME StartsSound, config # NoConfig, Validate(config) PROVE AcceptedServes
    BY DEF AcceptedServes
  <2>1. exit = "refused" => Refusable(config)
    BY DEF StartsSound
  <2>2. ASSUME At("authenticating"), NEW alias \in DOMAIN config.aliases \ {" a", "a:b"},
               config.aliases[alias].strategy = "first_available"
        PROVE  LET verdict == NameVerdict(config.aliases, catalog, alias)
               IN  \/ verdict \in {"candidates", "offline"}
                   \/ /\ verdict = "unknown_model"
                      /\ \E candidate \in Range(config.aliases[alias].candidates) :
                           config.providers[candidate.provider].models = {}
    BY <2>2, AliasServes DEF StartsSound, CatalogAgrees
  <2>. QED  BY <2>1, <2>2 DEF AcceptedServes, Refusable
<1>. QED  BY <1>1, <1>2, StartsSoundKept, PTL DEF Spec

-----------------------------------------------------------------------------
(***************************************************************************)
(* Comments.  The provers are not given an induction theorem that takes an *)
(* operator: induction is over the set of the numbers, or the positions,   *)
(* that have a property, by the least number that has not.  Scanned turns  *)
(* the fold into the sequence of its states, StringEnds and StripRules the *)
(* functions defined by recursion into the equations they satisfy.         *)
(***************************************************************************)

\* Induction up to n, for a property given as the set of the numbers that have it.
LEMMA InductionTo ==
  ASSUME NEW n \in Nat, NEW P, 0 \in P,
         \A i \in 1..n : i - 1 \in P => i \in P
  PROVE  0..n \subseteq P
<1>. DEFINE Out == {i \in 0..n : i \notin P}
<1>. SUFFICES ASSUME Out # {} PROVE FALSE
  OBVIOUS
<1>1. Out \in SUBSET Nat
  OBVIOUS
<1>2. PICK i \in Out : \A j \in Out : i <= j
  <2>. HIDE DEF Out
  <2>. QED  BY <1>1, LeastNatural
<1>3. i \in 1..n /\ i - 1 \in 0..n /\ ~(i <= i - 1) /\ i \notin P
  BY <1>2
<1>4. i - 1 \in P
  BY <1>2, <1>3
<1>. QED  BY <1>3, <1>4

\* A set of positions has a least and a greatest one.
LEMMA Extremes ==
  ASSUME NEW n \in Nat, NEW S \in SUBSET (1..n), S # {}
  PROVE  /\ Min(S) \in S /\ \A j \in S : Min(S) <= j
         /\ Max(S) \in S /\ \A j \in S : j <= Max(S)
<1>1. Min(S) \in S /\ \A j \in S : Min(S) <= j
  <2>1. S \in SUBSET Nat
    OBVIOUS
  <2>2. \E x \in S : \A y \in S : x =< y
    BY <2>1, LeastNatural
  <2>. QED  BY <2>2 DEF Min
<1>2. Max(S) \in S /\ \A j \in S : j <= Max(S)
  <2>. DEFINE T == {n - x : x \in S}
  <2>1. T \in SUBSET Nat /\ T # {}
    OBVIOUS
  <2>2. PICK i \in T : \A j \in T : i <= j
    <3>. HIDE DEF T
    <3>. QED  BY <2>1, LeastNatural
  <2>3. \A y \in S : n - y \in T
    OBVIOUS
  <2>4. PICK x \in S : i = n - x
    BY <2>2
  <2>. HIDE DEF T
  <2>5. \A y \in S : x >= y
    BY <2>2, <2>3, <2>4
  <2>6. Max(S) \in S /\ \A y \in S : Max(S) >= y
    BY <2>5 DEF Max
  <2>. QED  BY <2>6
<1>. QED  BY <1>1, <1>2

Modes     == {"code", "slash", "string", "escape", "line", "block", "star"}
ScanState == [mode : Modes, out : Seq(Symbols)]
ScanStart == [mode |-> "code", out |-> <<>>]

LEMMA ScanTyped ==
  ASSUME NEW st \in ScanState, NEW c \in Symbols
  PROVE  Scan(st, c) \in ScanState
<1>. DEFINE go(mode, written) == [mode |-> mode, out |-> st.out \o written]
<1>1. st.mode \in Modes /\ st.out \in Seq(Symbols)
  BY DEF ScanState
<1>2. \A mode \in Modes, w \in Seq(Symbols) : go(mode, w) \in ScanState
  BY <1>1, ConcatProperties DEF ScanState
<1>3. /\ <<>> \in Seq(Symbols) /\ <<c>> \in Seq(Symbols) /\ <<"space">> \in Seq(Symbols)
      /\ <<"slash", c>> \in Seq(Symbols)
  BY DEF Symbols
<1>4. /\ "code" \in Modes /\ "slash" \in Modes /\ "string" \in Modes /\ "escape" \in Modes
      /\ "line" \in Modes /\ "block" \in Modes /\ "star" \in Modes
  BY DEF Modes
<1>5. \/ Scan(st, c) = st
      \/ \E mode \in Modes, w \in {<<>>, <<c>>, <<"space">>, <<"slash", c>>} :
           Scan(st, c) = go(mode, w)
  <2>. HIDE DEF go
  <2>1. Scan(st, c) =
          CASE st.mode = "code" ->
                 CASE c = "quote" -> go("string", <<c>>)
                   [] c = "slash" -> go("slash", <<>>)
                   [] OTHER -> go("code", <<c>>)
            [] st.mode = "slash" ->
                 CASE c = "slash" -> go("line", <<"space">>)
                   [] c = "star" -> go("block", <<"space">>)
                   [] c = "quote" -> go("string", <<"slash", c>>)
                   [] OTHER -> go("code", <<"slash", c>>)
            [] st.mode = "string" ->
                 CASE c = "quote" -> go("code", <<c>>)
                   [] c = "backslash" -> go("escape", <<c>>)
                   [] OTHER -> go("string", <<c>>)
            [] st.mode = "escape" -> go("string", <<c>>)
            [] st.mode = "line" -> IF c = "newline" THEN go("code", <<c>>) ELSE st
            [] st.mode = "block" -> IF c = "star" THEN go("star", <<>>) ELSE st
            [] st.mode = "star" ->
                 CASE c = "slash" -> go("code", <<>>)
                   [] c = "star" -> st
                   [] OTHER -> go("block", <<>>)
    BY Zenon DEF Scan, go
  <2>. QED  BY <1>1, <1>4, <2>1 DEF Modes
<1>. HIDE DEF go
<1>. QED  BY <1>2, <1>3, <1>5

\* The states of the scan, one for each number of characters it has read.
LEMMA Scanned ==
  ASSUME NEW in \in Seq(Symbols)
  PROVE  \E S : /\ S \in [0..Len(in) -> ScanState]
                /\ S[0] = ScanStart
                /\ \A i \in 1..Len(in) : S[i] = Scan(S[i - 1], in[i])
                /\ WithoutComments(in) =
                     IF S[Len(in)].mode = "slash" THEN Append(S[Len(in)].out, "slash")
                     ELSE S[Len(in)].out
<1>. DEFINE n == Len(in)
            scan[s \in SUBSET DOMAIN in] ==
              IF s = {} THEN ScanStart ELSE LET x == Max(s) IN Scan(scan[s \ {x}], in[x])
            Step(g, s) == IF s = {} THEN ScanStart
                          ELSE LET x == Max(s) IN Scan(g[s \ {x}], in[x])
            P == {k \in Nat : \E g : g = [s \in SUBSET (1..k) |-> Step(g, s)]}
<1>1. n \in Nat /\ DOMAIN in = 1..n /\ \A i \in 1..n : in[i] \in Symbols
  OBVIOUS
<1>2. 0 \in P
  <2>. DEFINE g == [s \in SUBSET (1..0) |-> ScanStart]
  <2>1. \A s \in SUBSET (1..0) : s = {}
    OBVIOUS
  <2>2. g = [s \in SUBSET (1..0) |-> Step(g, s)]
    <3>1. \A s \in SUBSET (1..0) : Step(g, s) = ScanStart
      BY <2>1
    <3>. HIDE DEF Step
    <3>. QED  BY <3>1
  <2>. HIDE DEF g, Step
  <2>. QED  BY <2>2
<1>3. ASSUME NEW k \in 1..n, k - 1 \in P PROVE k \in P
  <2>1. PICK g : g = [s \in SUBSET (1..k - 1) |-> Step(g, s)]
    BY <1>3
  <2>. DEFINE h == [s \in SUBSET (1..k) |-> Step(g, s)]
  <2>2. \A s \in SUBSET (1..k - 1) : s \in SUBSET (1..k)
    OBVIOUS
  <2>3. \A s \in SUBSET (1..k - 1) : h[s] = g[s]
    <3>1. \A s \in SUBSET (1..k - 1) : g[s] = Step(g, s)
      <4>. HIDE DEF Step
      <4>. QED  BY <2>1
    <3>2. \A s \in SUBSET (1..k) : h[s] = Step(g, s)
      <4>. HIDE DEF Step
      <4>. QED  OBVIOUS
    <3>. HIDE DEF Step, h
    <3>. QED  BY <2>2, <3>1, <3>2
  <2>4. \A s \in SUBSET (1..k) : s # {} => s \ {Max(s)} \in SUBSET (1..k - 1)
    <3>. SUFFICES ASSUME NEW s \in SUBSET (1..k), s # {}
                  PROVE  s \ {Max(s)} \in SUBSET (1..k - 1)
      OBVIOUS
    <3>. DEFINE m == Max(s)
    <3>1. m \in s /\ \A j \in s : j <= m
      <4>. HIDE DEF h
      <4>1. k \in Nat
        OBVIOUS
      <4>. QED  BY <4>1, Extremes
    <3>. HIDE DEF m, h
    <3>2. \A j \in s \ {m} : j \in 1..k - 1
      BY <3>1
    <3>3. s \ {m} \in SUBSET (1..k - 1)
      BY <3>2
    <3>. QED  BY <3>3 DEF m
  <2>5. \A s \in SUBSET (1..k) : Step(g, s) = Step(h, s)
    <3>. HIDE DEF h
    <3>. QED  BY <2>3, <2>4
  <2>6. h = [s \in SUBSET (1..k) |-> Step(h, s)]
    <3>. HIDE DEF Step
    <3>1. \A s \in SUBSET (1..k) : h[s] = Step(h, s)
      <4>1. \A s \in SUBSET (1..k) : h[s] = Step(g, s)
        OBVIOUS
      <4>. HIDE DEF h
      <4>. QED  BY <2>5, <4>1
    <3>2. h = [s \in SUBSET (1..k) |-> h[s]]
      OBVIOUS
    <3>. HIDE DEF h
    <3>. QED  BY <3>1, <3>2, Zenon
  <2>. HIDE DEF h, Step
  <2>7. \E f : f = [s \in SUBSET (1..k) |-> Step(f, s)]
    BY <2>6, Zenon
  <2>. QED  BY <2>7
<1>4. n \in P
  <2>1. 0..n \subseteq P
    <3>. HIDE DEF P, n
    <3>. QED  BY <1>1, <1>2, <1>3, InductionTo
  <2>. HIDE DEF P
  <2>. QED  BY <1>1, <2>1
<1>5. scan = [s \in SUBSET DOMAIN in |->
               IF s = {} THEN ScanStart ELSE LET x == Max(s) IN Scan(scan[s \ {x}], in[x])]
  <2>1. PICK g : g = [s \in SUBSET (1..n) |-> Step(g, s)]
    BY <1>4
  <2>2. g = [s \in SUBSET DOMAIN in |->
               IF s = {} THEN ScanStart ELSE LET x == Max(s) IN Scan(g[s \ {x}], in[x])]
    BY <1>1, <2>1, Zenon
  <2>. QED  BY <2>2, Zenon DEF scan
<1>6. WithoutComments(in) = IF scan[DOMAIN in].mode = "slash"
                            THEN Append(scan[DOMAIN in].out, "slash") ELSE scan[DOMAIN in].out
  BY Zenon DEF WithoutComments, FoldLeft, MapThenFoldSet, ScanStart
<1>. HIDE DEF scan
<1>. DEFINE S == [i \in 0..n |-> scan[1..i]]
<1>7. S[0] = ScanStart
  <2>1. 1..0 = {} /\ {} \in SUBSET DOMAIN in
    OBVIOUS
  <2>2. scan[{}] = ScanStart
    BY <1>5, <2>1
  <2>. QED  BY <1>1, <2>1, <2>2
<1>8. ASSUME NEW i \in 1..n PROVE S[i] = Scan(S[i - 1], in[i])
  <2>1. /\ 1..i \in SUBSET DOMAIN in /\ 1..i # {} /\ i \in 0..n /\ i - 1 \in 0..n
        /\ 1..i \in SUBSET (1..n)
    <3>. HIDE DEF S, n
    <3>1. i \in Nat /\ i <= n /\ 1 <= i
      BY <1>1
    <3>2. \A j \in 1..i : j \in 1..n
      BY <1>1, <3>1
    <3>3. 1..i \in SUBSET (1..n)
      BY <3>2
    <3>4. i \in 1..i /\ i \in 0..n /\ i - 1 \in 0..n
      BY <1>1, <3>1
    <3>5. 1..i # {}
      BY <3>4
    <3>. QED  BY <1>1, <3>3, <3>4, <3>5
  <2>2. Max(1..i) = i
    <3>1. Max(1..i) \in 1..i /\ \A j \in 1..i : j <= Max(1..i)
      <4>. HIDE DEF S, n
      <4>. QED  BY <1>1, <2>1, Extremes
    <3>. QED  BY <3>1
  <2>3. (1..i) \ {i} = 1..i - 1
    OBVIOUS
  <2>4. scan[1..i] = Scan(scan[(1..i) \ {Max(1..i)}], in[Max(1..i)])
    BY <1>5, <2>1, Zenon
  <2>5. S[i] = scan[1..i] /\ S[i - 1] = scan[1..i - 1]
    BY <2>1
  <2>. HIDE DEF S
  <2>. QED  BY <2>2, <2>3, <2>4, <2>5
<1>9. S \in [0..n -> ScanState]
  <2>. DEFINE Q == {k \in Nat : S[k] \in ScanState}
  <2>1. ScanStart \in ScanState
    BY DEF ScanStart, ScanState, Modes
  <2>2. S = [i \in 0..n |-> S[i]]
    OBVIOUS
  <2>. HIDE DEF S
  <2>3. 0 \in Q
    BY <1>7, <2>1
  <2>4. ASSUME NEW i \in 1..n, i - 1 \in Q PROVE i \in Q
    BY <1>1, <1>8, <2>4, ScanTyped
  <2>5. 0..n \subseteq Q
    <3>. HIDE DEF Q, n
    <3>. QED  BY <1>1, <2>3, <2>4, InductionTo
  <2>. HIDE DEF n
  <2>. QED  BY <2>2, <2>5
<1>10. S[n] = scan[DOMAIN in]
  BY <1>1
<1>. HIDE DEF S
<1>11. WithoutComments(in) = IF S[n].mode = "slash" THEN Append(S[n].out, "slash") ELSE S[n].out
  BY <1>6, <1>10
<1>. QED  BY <1>7, <1>8, <1>9, <1>11

\* A recursion from the end of a text: the value at a position is made of that at a later one.
Jump(n, V, base, nx, G, f) ==
  /\ f \in [1..n + 1 -> V]
  /\ f[n + 1] = base
  /\ \A i \in 1..n : f[i] = G[i][f[nx[i]]]

LEMMA Jumps ==
  ASSUME NEW n \in Nat, NEW V, NEW base \in V,
         NEW nx \in [1..n -> 1..n + 1], \A i \in 1..n : i < nx[i],
         NEW G \in [1..n -> [V -> V]]
  PROVE  \E f : Jump(n, V, base, nx, G, f)
<1>. DEFINE Good(k, f) == /\ f \in [n + 1 - k..n + 1 -> V]
                          /\ f[n + 1] = base
                          /\ \A i \in n + 1 - k..n : f[i] = G[i][f[nx[i]]]
            P == {k \in Nat : \E f : Good(k, f)}
<1>1. 0 \in P
  <2>. DEFINE f == [i \in n + 1 - 0..n + 1 |-> base]
  <2>1. Good(0, f)
    OBVIOUS
  <2>. HIDE DEF f, Good
  <2>. QED  BY <2>1
<1>2. ASSUME NEW k \in 1..n, k - 1 \in P PROVE k \in P
  <2>1. PICK f : Good(k - 1, f)
    BY <1>2
  <2>. DEFINE m == n + 1 - k
              h == [i \in m..n + 1 |-> IF i = m THEN G[m][f[nx[m]]] ELSE f[i]]
  <2>2. m \in 1..n /\ n + 1 - (k - 1) = m + 1
    OBVIOUS
  <2>3. /\ f \in [m + 1..n + 1 -> V]
        /\ f[n + 1] = base
        /\ \A i \in m + 1..n : f[i] = G[i][f[nx[i]]]
    BY <2>1, <2>2
  <2>4. nx[m] \in m + 1..n + 1
    BY <2>2
  <2>5. G[m][f[nx[m]]] \in V
    BY <2>2, <2>3, <2>4
  <2>6. h \in [m..n + 1 -> V]
    BY <2>3, <2>5
  <2>7. \A i \in m + 1..n + 1 : h[i] = f[i]
    BY <2>2
  <2>8. h[m] = G[m][h[nx[m]]]
    <3>1. h[m] = G[m][f[nx[m]]]
      BY <2>2
    <3>. HIDE DEF h
    <3>. QED  BY <2>4, <2>7, <3>1
  <2>9. ASSUME NEW i \in m + 1..n PROVE h[i] = G[i][h[nx[i]]]
    <3>1. nx[i] \in m + 1..n + 1 /\ i \in m + 1..n + 1
      BY <2>2
    <3>. HIDE DEF h
    <3>. QED  BY <2>3, <2>7, <3>1
  <2>. HIDE DEF h
  <2>10. \A i \in m..n : h[i] = G[i][h[nx[i]]]
    <3>1. \A i \in m..n : i = m \/ i \in m + 1..n
      BY <2>2
    <3>. QED  BY <2>8, <2>9, <3>1
  <2>11. h[n + 1] = base
    BY <2>2, <2>3, <2>7
  <2>12. Good(k, h)
    BY <2>6, <2>10, <2>11
  <2>. HIDE DEF Good
  <2>. QED  BY <2>12
<1>3. n \in P
  <2>1. 0..n \subseteq P
    <3>. HIDE DEF P
    <3>. QED  BY <1>1, <1>2, InductionTo
  <2>. HIDE DEF P
  <2>. QED  BY <2>1
<1>4. PICK f : Good(n, f)
  BY <1>3
<1>5. n + 1 - n = 1
  OBVIOUS
<1>. QED  BY <1>4, <1>5 DEF Jump

\* Induction from the end of a text.
LEMMA Downward ==
  ASSUME NEW n \in Nat, NEW P,
         \A i \in 1..n + 1 : (\A j \in i + 1..n + 1 : j \in P) => i \in P
  PROVE  1..n + 1 \subseteq P
<1>. DEFINE Out == {i \in 1..n + 1 : i \notin P}
<1>. SUFFICES ASSUME Out # {} PROVE FALSE
  OBVIOUS
<1>1. Out \in SUBSET (1..n + 1) /\ n + 1 \in Nat
  OBVIOUS
<1>. DEFINE i == Max(Out)
<1>2. i \in Out /\ \A j \in Out : j <= i
  <2>. HIDE DEF Out
  <2>. QED  BY <1>1, Extremes
<1>. HIDE DEF i
<1>3. \A j \in i + 1..n + 1 : j \in P
  BY <1>2
<1>. QED  BY <1>2, <1>3

\* What the scan does with a character, mode by mode.
LEMMA ScanRules ==
  ASSUME NEW st, NEW c
  PROVE  /\ st.mode = "code" /\ c = "quote" =>
              Scan(st, c) = [mode |-> "string", out |-> st.out \o <<c>>]
         /\ st.mode = "code" /\ c = "slash" =>
              Scan(st, c) = [mode |-> "slash", out |-> st.out \o <<>>]
         /\ st.mode = "code" /\ c # "quote" /\ c # "slash" =>
              Scan(st, c) = [mode |-> "code", out |-> st.out \o <<c>>]
         /\ st.mode = "slash" /\ c = "slash" =>
              Scan(st, c) = [mode |-> "line", out |-> st.out \o <<"space">>]
         /\ st.mode = "slash" /\ c = "star" =>
              Scan(st, c) = [mode |-> "block", out |-> st.out \o <<"space">>]
         /\ st.mode = "slash" /\ c = "quote" =>
              Scan(st, c) = [mode |-> "string", out |-> st.out \o <<"slash", c>>]
         /\ st.mode = "slash" /\ c \notin {"slash", "star", "quote"} =>
              Scan(st, c) = [mode |-> "code", out |-> st.out \o <<"slash", c>>]
         /\ st.mode = "string" /\ c = "quote" =>
              Scan(st, c) = [mode |-> "code", out |-> st.out \o <<c>>]
         /\ st.mode = "string" /\ c = "backslash" =>
              Scan(st, c) = [mode |-> "escape", out |-> st.out \o <<c>>]
         /\ st.mode = "string" /\ c \notin {"quote", "backslash"} =>
              Scan(st, c) = [mode |-> "string", out |-> st.out \o <<c>>]
         /\ st.mode = "escape" => Scan(st, c) = [mode |-> "string", out |-> st.out \o <<c>>]
         /\ st.mode = "line" /\ c = "newline" =>
              Scan(st, c) = [mode |-> "code", out |-> st.out \o <<c>>]
         /\ st.mode = "line" /\ c # "newline" => Scan(st, c) = st
         /\ st.mode = "block" /\ c = "star" =>
              Scan(st, c) = [mode |-> "star", out |-> st.out \o <<>>]
         /\ st.mode = "block" /\ c # "star" => Scan(st, c) = st
         /\ st.mode = "star" /\ c = "slash" =>
              Scan(st, c) = [mode |-> "code", out |-> st.out \o <<>>]
         /\ st.mode = "star" /\ c = "star" => Scan(st, c) = st
         /\ st.mode = "star" /\ c \notin {"slash", "star"} =>
              Scan(st, c) = [mode |-> "block", out |-> st.out \o <<>>]
BY DEF Scan

\* The position behind a string, by recursion over the positions in it.
LEMMA StringEnds ==
  ASSUME NEW in \in Seq(Symbols)
  PROVE  \E end \in [1..Len(in) + 1 -> 1..Len(in) + 1] :
           /\ end[Len(in) + 1] = Len(in) + 1
           /\ \A j \in 1..Len(in) :
                end[j] = IF in[j] = "backslash" /\ j < Len(in) THEN end[j + 2]
                         ELSE IF in[j] = "quote" THEN j + 1 ELSE end[j + 1]
           /\ \A i : StringEnd(in, i) = end[i + 1]
<1>. DEFINE n == Len(in)
            V == 1..n + 1
            nx == [j \in 1..n |-> IF in[j] = "backslash" /\ j < n THEN j + 2 ELSE j + 1]
            G  == [j \in 1..n |-> [v \in V |-> IF in[j] = "quote" THEN j + 1 ELSE v]]
            end[j \in 1..Len(in) + 1] ==
              IF j > Len(in) THEN j
              ELSE IF in[j] = "backslash" /\ j < Len(in) THEN end[j + 2]
              ELSE IF in[j] = "quote" THEN j + 1
              ELSE end[j + 1]
<1>1. n \in Nat
  OBVIOUS
<1>2. /\ n + 1 \in V
      /\ nx \in [1..n -> 1..n + 1] /\ \A i \in 1..n : i < nx[i]
      /\ G \in [1..n -> [V -> V]]
  <2>. HIDE DEF n
  <2>1. \A j \in 1..n : j + 1 \in V
    BY <1>1
  <2>2. G \in [1..n -> [V -> V]]
    <3>. HIDE DEF V
    <3>. QED  BY <2>1
  <2>3. nx \in [1..n -> 1..n + 1] /\ \A i \in 1..n : i < nx[i]
    BY <1>1
  <2>4. n + 1 \in V
    BY <1>1
  <2>. HIDE DEF G, nx, V
  <2>. QED  BY <2>2, <2>3, <2>4
<1>3. PICK f \in [1..n + 1 -> V] :
        f[n + 1] = n + 1 /\ \A i \in 1..n : f[i] = G[i][f[nx[i]]]
  <2>. HIDE DEF n, V, nx, G
  <2>1. \E f : Jump(n, V, n + 1, nx, G, f)
    BY <1>1, <1>2, Jumps, Zenon
  <2>. QED  BY <2>1 DEF Jump
<1>4. ASSUME NEW j \in 1..n
      PROVE  f[j] = IF in[j] = "backslash" /\ j < n THEN f[j + 2]
                    ELSE IF in[j] = "quote" THEN j + 1 ELSE f[j + 1]
  <2>1. /\ nx[j] = IF in[j] = "backslash" /\ j < n THEN j + 2 ELSE j + 1
        /\ nx[j] \in 1..n + 1
    BY <1>2
  <2>2. f[nx[j]] \in V
    BY <1>3, <2>1
  <2>3. G[j][f[nx[j]]] = IF in[j] = "quote" THEN j + 1 ELSE f[nx[j]]
    BY <2>2
  <2>. HIDE DEF G, nx, n, V
  <2>. QED  BY <1>3, <2>1, <2>3
<1>5. f = [j \in 1..Len(in) + 1 |->
             IF j > Len(in) THEN j
             ELSE IF in[j] = "backslash" /\ j < Len(in) THEN f[j + 2]
             ELSE IF in[j] = "quote" THEN j + 1
             ELSE f[j + 1]]
  <2>. HIDE DEF G, nx
  <2>1. \A j \in 1..n + 1 : f[j] = IF j > n THEN j
             ELSE IF in[j] = "backslash" /\ j < n THEN f[j + 2]
             ELSE IF in[j] = "quote" THEN j + 1
             ELSE f[j + 1]
    <3>. HIDE DEF n, V
    <3>. TAKE j \in 1..n + 1
    <3>1. j \in 1..n \/ (j = n + 1 /\ j > n)
      BY <1>1
    <3>2. j \in 1..n => ~(j > n)
      BY <1>1
    <3>. QED  BY <1>3, <1>4, <3>1, <3>2
  <2>2. f = [j \in 1..n + 1 |-> f[j]]
    BY <1>3
  <2>. QED  BY <2>1, <2>2, Zenon
<1>6. end = [j \in 1..Len(in) + 1 |->
             IF j > Len(in) THEN j
             ELSE IF in[j] = "backslash" /\ j < Len(in) THEN end[j + 2]
             ELSE IF in[j] = "quote" THEN j + 1
             ELSE end[j + 1]]
  BY <1>5, Zenon DEF end
<1>7. \A i : StringEnd(in, i) = end[i + 1]
  BY Zenon DEF StringEnd, end
<1>. HIDE DEF end, nx, G
<1>8. \A j \in 1..n + 1 : end[j] = f[j]
  <2>. DEFINE P == {j \in 1..n + 1 : end[j] = f[j]}
  <2>1. ASSUME NEW j \in 1..n + 1, \A i \in j + 1..n + 1 : i \in P
        PROVE  j \in P
    <3>1. \A i \in j + 1..n + 1 : end[i] = f[i]
      BY <2>1
    <3>. HIDE DEF P
    <3>2. CASE j > n
      <4>1. end[j] = j /\ f[j] = j
        BY <1>5, <1>6, <3>2
      <4>. QED  BY <4>1 DEF P
    <3>3. CASE ~(j > n)
      <4>1. /\ j + 1 \in j + 1..n + 1
            /\ j < n => j + 2 \in j + 1..n + 1
        BY <1>1, <3>3
      <4>2. /\ end[j + 1] = f[j + 1]
            /\ j < n => end[j + 2] = f[j + 2]
        BY <3>1, <4>1
      <4>3. end[j] = IF in[j] = "backslash" /\ j < n THEN end[j + 2]
                     ELSE IF in[j] = "quote" THEN j + 1 ELSE end[j + 1]
        BY <1>6, <3>3
      <4>4. f[j] = IF in[j] = "backslash" /\ j < n THEN f[j + 2]
                   ELSE IF in[j] = "quote" THEN j + 1 ELSE f[j + 1]
        BY <1>5, <3>3
      <4>5. end[j] = f[j]
        BY <4>2, <4>3, <4>4
      <4>. QED  BY <4>5 DEF P
    <3>. QED  BY <3>2, <3>3
  <2>2. 1..n + 1 \subseteq P
    <3>. HIDE DEF P, n
    <3>. QED  BY <1>1, <2>1, Downward
  <2>. QED  BY <2>2
<1>9. end = f
  <2>1. end = [j \in 1..n + 1 |-> end[j]] /\ f = [j \in 1..n + 1 |-> f[j]]
    <3>1. DOMAIN end = 1..n + 1
      BY <1>6
    <3>. QED  BY <1>3, <1>6, Zenon
  <2>. HIDE DEF n
  <2>. QED  BY <1>8, <2>1
<1>. QED  BY <1>3, <1>4, <1>7, <1>9

\* Texts one after the other, in one order or the other.
LEMMA Joins ==
  ASSUME NEW o \in Seq(Symbols), NEW t \in Seq(Symbols), NEW u \in Seq(Symbols)
  PROVE  (o \o t) \o u = o \o (t \o u) /\ o \o t \in Seq(Symbols)
<1>1. (o \o t) \o u = o \o (t \o u)
  BY ConcatAssociative, SMTT(60)
<1>. QED  BY <1>1, ConcatProperties

\* A sequence continued with a piece of a text.
LEMMA Onward ==
  ASSUME NEW in \in Seq(Symbols), NEW o \in Seq(Symbols),
         NEW m \in 1..Len(in), NEW e \in m..Len(in)
  PROVE  (o \o <<in[m]>>) \o SubSeq(in, m + 1, e) = o \o SubSeq(in, m, e)
<1>1. SubSeq(in, m, e) = <<in[m]>> \o SubSeq(in, m + 1, e)
  BY SubSeqRecursiveFirst
<1>2. <<in[m]>> \in Seq(Symbols) /\ SubSeq(in, m + 1, e) \in Seq(Symbols)
  <2>1. m \in Int /\ e \in Int /\ \A i \in m + 1..e : in[i] \in Symbols
    OBVIOUS
  <2>2. SubSeq(in, m + 1, e) \in Seq(Symbols)
    BY <2>1, SubSeqProperties
  <2>3. <<in[m]>> \in Seq(Symbols)
    OBVIOUS
  <2>. QED  BY <2>2, <2>3
<1>. DEFINE t == <<in[m]>>
            u == SubSeq(in, m + 1, e)
<1>3. t \in Seq(Symbols) /\ u \in Seq(Symbols)
  BY <1>2
<1>. HIDE DEF t, u
<1>4. (o \o t) \o u = o \o (t \o u)
  BY <1>3, Joins, Zenon
<1>. QED  BY <1>1, <1>4 DEF t, u

\* The states of a scan of a text.
Scans(in, S) ==
  /\ S \in [0..Len(in) -> ScanState]
  /\ S[0] = ScanStart
  /\ \A i \in 1..Len(in) : S[i] = Scan(S[i - 1], in[i])

\* In a string the scan writes what it reads, up to the end of it.
LEMMA StringScanned ==
  ASSUME NEW in \in Seq(Symbols), NEW S, Scans(in, S), NEW k \in 1..Len(in),
         S[k].mode = "string"
  PROVE  LET e == StringEnd(in, k)
         IN  /\ e \in k + 1..Len(in) + 1
             /\ S[e - 1].out = S[k].out \o SubSeq(in, k + 1, e - 1)
             /\ S[e - 1].mode = "code" \/ (e = Len(in) + 1 /\ S[e - 1].mode \in {"string", "escape"})
<1>. DEFINE n == Len(in)
<1>1. n \in Nat /\ \A i \in 1..n : in[i] \in Symbols
  OBVIOUS
<1>2. PICK end \in [1..n + 1 -> 1..n + 1] :
           /\ end[n + 1] = n + 1
           /\ \A j \in 1..n :
                end[j] = IF in[j] = "backslash" /\ j < n THEN end[j + 2]
                         ELSE IF in[j] = "quote" THEN j + 1 ELSE end[j + 1]
           /\ \A i : StringEnd(in, i) = end[i + 1]
  BY StringEnds
<1>. DEFINE Copied(j) ==
              S[j - 1].mode = "string" =>
                /\ end[j] \in j..n + 1
                /\ S[end[j] - 1].out = S[j - 1].out \o SubSeq(in, j, end[j] - 1)
                /\ \/ S[end[j] - 1].mode = "code"
                   \/ end[j] = n + 1 /\ S[end[j] - 1].mode \in {"string", "escape"}
            P == {j \in 1..n + 1 : Copied(j)}
<1>. HIDE DEF n
<1>3. \A i \in 0..n : S[i].mode \in Modes /\ S[i].out \in Seq(Symbols)
  BY DEF Scans, ScanState, n
<1>4. \A i \in 1..n : S[i] = Scan(S[i - 1], in[i])
  BY DEF Scans, n
<1>. HIDE DEF Copied, P
<1>5. ASSUME NEW j \in 1..n + 1, \A i \in j + 1..n + 1 : Copied(i), S[j - 1].mode = "string"
      PROVE  Copied(j)
  <2>. DEFINE o == S[j - 1].out
  <2>0. j - 1 \in 0..n
    BY <1>1
  <2>1. o \in Seq(Symbols)
    BY <1>3, <2>0
  <2>. HIDE DEF o
  <2>2. CASE j = n + 1
    <3>1. end[j] = j /\ SubSeq(in, j, j - 1) = <<>>
      BY <1>1, <1>2, <2>2, SubSeqEmpty
    <3>2. o \o <<>> = o
      BY <2>1
    <3>3. S[end[j] - 1].out = S[j - 1].out \o SubSeq(in, j, end[j] - 1)
      BY <3>1, <3>2 DEF o
    <3>4. j \in j..n + 1 /\ S[j - 1].mode = "string"
      BY <1>1, <1>5, <2>2
    <3>. QED  BY <2>2, <3>1, <3>3, <3>4 DEF Copied
  <2>3. CASE j \in 1..n /\ in[j] = "backslash" /\ j < n
    <3>0. end[j] = end[j + 2]
      BY <1>2, <2>3
    <3>1. /\ j + 1 \in 1..n /\ (j + 1) - 1 = j
          /\ j + 2 \in j + 1..n + 1 /\ (j + 2) - 1 = j + 1 /\ (j + 1) + 1 = j + 2
      BY <1>1, <2>3
    <3>2. S[j] = [mode |-> "escape", out |-> o \o <<in[j]>>]
      BY <1>4, <1>5, <2>3, ScanRules DEF o
    <3>3. S[j + 1] = Scan(S[j], in[j + 1])
      BY <1>4, <3>1
    <3>. DEFINE o1 == o \o <<in[j]>>
    <3>21. S[j].mode = "escape" /\ S[j].out = o1
      BY <3>2
    <3>. HIDE DEF o1
    <3>4. S[j + 1] = [mode |-> "string", out |-> o1 \o <<in[j + 1]>>]
      <4>1. Scan(S[j], in[j + 1]) = [mode |-> "string", out |-> S[j].out \o <<in[j + 1]>>]
        BY <3>21, ScanRules, Zenon
      <4>. QED  BY <3>21, <3>3, <4>1, Zenon
    <3>41. S[j + 1].mode = "string" /\ S[j + 1].out = o1 \o <<in[j + 1]>>
      BY <3>4
    <3>5. Copied(j + 2)
      BY <1>5, <3>1
    <3>. DEFINE e == end[j]
    <3>6. /\ e \in j + 2..n + 1
          /\ S[e - 1].out = (o1 \o <<in[j + 1]>>) \o SubSeq(in, j + 2, e - 1)
          /\ S[e - 1].mode = "code" \/ (e = n + 1 /\ S[e - 1].mode \in {"string", "escape"})
      BY <3>0, <3>1, <3>41, <3>5 DEF Copied
    <3>. HIDE DEF e
    <3>7. e - 1 \in j..n /\ e - 1 \in j + 1..n /\ e \in j..n + 1
      BY <1>1, <3>6
    <3>8. o1 \in Seq(Symbols)
      <4>1. j \in 0..n
        BY <1>1, <2>3
      <4>. QED  BY <1>3, <3>21, <4>1
    <3>9. (o1 \o <<in[j + 1]>>) \o SubSeq(in, j + 2, e - 1) = o1 \o SubSeq(in, j + 1, e - 1)
      <4>1. (o1 \o <<in[j + 1]>>) \o SubSeq(in, (j + 1) + 1, e - 1) = o1 \o SubSeq(in, j + 1, e - 1)
        BY <3>1, <3>7, <3>8, Onward DEF n
      <4>. QED  BY <3>1, <4>1
    <3>10. o1 \o SubSeq(in, j + 1, e - 1) = o \o SubSeq(in, j, e - 1)
      BY <2>1, <2>3, <3>7, Onward DEF n, o1
    <3>. QED  BY <3>6, <3>7, <3>9, <3>10 DEF Copied, e, o
  <2>4. CASE j \in 1..n /\ in[j] = "quote"
    <3>0. end[j] = j + 1
      BY <1>2, <2>4
    <3>1. (j + 1) - 1 = j /\ j + 1 \in j..n + 1
      <4>1. n \in Nat /\ j \in 1..n
        BY <1>1, <2>4
      <4>. QED  BY <4>1
    <3>2. S[j] = [mode |-> "code", out |-> o \o <<in[j]>>]
      BY <1>4, <1>5, <2>4, ScanRules DEF o
    <3>3. SubSeq(in, j, j) = <<in[j]>>
      <4>. DEFINE t == SubSeq(in, j, j)
      <4>1. j \in Int /\ \A i \in j..j : in[i] \in Symbols
        BY <1>1, <2>4
      <4>2. t \in Seq(Symbols) /\ Len(t) = 1 /\ t[1] = in[j]
        <5>1. t \in Seq(Symbols) /\ Len(t) = j - j + 1 /\ \A i \in 1..j - j + 1 : t[i] = in[j + i - 1]
          BY <4>1, SubSeqProperties
        <5>2. j - j + 1 = 1 /\ j + 1 - 1 = j
          BY <4>1
        <5>. HIDE DEF t
        <5>. QED  BY <5>1, <5>2
      <4>. HIDE DEF t
      <4>3. t = <<in[j]>>
        BY <4>2
      <4>. QED  BY <4>3 DEF t
    <3>4. S[j].mode = "code" /\ S[j].out = o \o <<in[j]>>
      BY <3>2
    <3>. QED  BY <3>0, <3>1, <3>3, <3>4 DEF o, Copied
  <2>5. CASE j \in 1..n /\ ~(in[j] = "backslash" /\ j < n) /\ in[j] # "quote"
    <3>0. end[j] = end[j + 1]
      BY <1>2, <2>5
    <3>1. (j + 1) - 1 = j /\ j + 1 \in j + 1..n + 1 /\ j \in 0..n
      BY <1>1, <2>5
    <3>2. /\ S[j].out = o \o <<in[j]>>
          /\ S[j].mode = "string" \/ (S[j].mode = "escape" /\ j = n)
      <4>1. S[j] = Scan(S[j - 1], in[j]) /\ S[j - 1].mode = "string" /\ S[j - 1].out = o
        BY <1>4, <1>5, <2>5 DEF o
      <4>2. CASE in[j] = "backslash"
        <5>1. j = n
          BY <1>1, <2>5, <4>2
        <5>2. S[j] = [mode |-> "escape", out |-> o \o <<in[j]>>]
          <6>. DEFINE st == S[j - 1]
          <6>1. st.mode = "string" /\ st.out = o /\ S[j] = Scan(st, "backslash")
            BY <4>1, <4>2
          <6>. HIDE DEF st
          <6>2. Scan(st, "backslash") = [mode |-> "escape", out |-> st.out \o <<"backslash">>]
            BY <6>1, ScanRules, Zenon
          <6>3. st.out \o <<"backslash">> = o \o <<in[j]>>
            BY <4>2, <6>1
          <6>. QED  BY <6>1, <6>2, <6>3
        <5>. QED  BY <5>1, <5>2, SMTT(40)
      <4>3. CASE in[j] # "backslash"
        <5>2. S[j] = [mode |-> "string", out |-> o \o <<in[j]>>]
          BY <2>5, <4>1, <4>3, ScanRules
        <5>. QED  BY <5>2
      <4>. QED  BY <4>2, <4>3
    <3>. DEFINE e == end[j]
    <3>3. /\ e \in j + 1..n + 1
          /\ S[e - 1].out = (o \o <<in[j]>>) \o SubSeq(in, j + 1, e - 1)
          /\ S[e - 1].mode = "code" \/ (e = n + 1 /\ S[e - 1].mode \in {"string", "escape"})
      <4>1. CASE S[j].mode = "string"
        <5>1. Copied(j + 1)
          BY <1>5, <3>1
        <5>. QED  BY <3>0, <3>1, <3>2, <4>1, <5>1 DEF Copied
      <4>2. CASE S[j].mode = "escape" /\ j = n
        <5>1. e = n + 1 /\ e - 1 = j /\ e \in j + 1..n + 1
          BY <1>1, <1>2, <3>0, <4>2
        <5>2. SubSeq(in, j + 1, j) = <<>>
          BY <1>1, <2>5, SubSeqEmpty
        <5>3. S[j].out \o <<>> = S[j].out
          <6>1. S[j].out \in Seq(Symbols)
            BY <1>3, <3>1
          <6>. QED  BY <6>1
        <5>. HIDE DEF e
        <5>. QED  BY <3>2, <4>2, <5>1, <5>2, <5>3, Zenon
      <4>. QED  BY <3>2, <4>1, <4>2
    <3>. HIDE DEF e
    <3>4. e - 1 \in j..n /\ e \in j..n + 1
      <4>1. n \in Nat /\ j \in 1..n + 1 /\ e \in j + 1..n + 1
        BY <1>1, <3>3
      <4>. QED  BY <4>1
    <3>5. (o \o <<in[j]>>) \o SubSeq(in, j + 1, e - 1) = o \o SubSeq(in, j, e - 1)
      BY <2>1, <2>5, <3>4, Onward DEF n
    <3>. QED  BY <3>3, <3>4, <3>5 DEF Copied, e, o
  <2>. QED  BY <1>1, <2>2, <2>3, <2>4, <2>5
<1>6. 1..n + 1 \subseteq P
  <2>1. ASSUME NEW j \in 1..n + 1, \A i \in j + 1..n + 1 : i \in P PROVE j \in P
    <3>1. \A i \in j + 1..n + 1 : Copied(i)
      BY <2>1 DEF P
    <3>2. Copied(j)
      BY <1>5, <3>1 DEF Copied
    <3>. QED  BY <3>2 DEF P
  <2>. QED  BY <1>1, <2>1, Downward
<1>7. k + 1 \in 1..n + 1 /\ (k + 1) - 1 = k
  BY <1>1 DEF n
<1>8. Copied(k + 1)
  BY <1>6, <1>7 DEF P
<1>. QED  BY <1>2, <1>7, <1>8 DEF n, Copied

\* The position behind a string lies behind its quote.
LEMMA StringEndBehind ==
  ASSUME NEW in \in Seq(Symbols), NEW i \in 1..Len(in)
  PROVE  StringEnd(in, i) \in i + 1..Len(in) + 1
<1>. DEFINE n == Len(in)
<1>1. n \in Nat
  OBVIOUS
<1>2. PICK end \in [1..n + 1 -> 1..n + 1] :
           /\ end[n + 1] = n + 1
           /\ \A j \in 1..n :
                end[j] = IF in[j] = "backslash" /\ j < n THEN end[j + 2]
                         ELSE IF in[j] = "quote" THEN j + 1 ELSE end[j + 1]
           /\ \A k : StringEnd(in, k) = end[k + 1]
  BY StringEnds
<1>. DEFINE P == {j \in 1..n + 1 : end[j] >= j}
<1>. HIDE DEF n
<1>3. ASSUME NEW j \in 1..n + 1, \A k \in j + 1..n + 1 : k \in P PROVE j \in P
  <2>1. CASE j = n + 1
    BY <1>1, <1>2, <2>1
  <2>2. CASE j \in 1..n
    <3>1. /\ j + 1 \in j + 1..n + 1 /\ j + 1 \in 1..n + 1
          /\ j < n => j + 2 \in j + 1..n + 1 /\ j + 2 \in 1..n + 1
      BY <1>1, <2>2
    <3>2. end[j + 1] >= j + 1 /\ (j < n => end[j + 2] >= j + 2)
      BY <1>3, <3>1
    <3>3. end[j + 1] \in Int /\ (j < n => end[j + 2] \in Int)
      BY <1>2, <3>1
    <3>4. end[j] = IF in[j] = "backslash" /\ j < n THEN end[j + 2]
                   ELSE IF in[j] = "quote" THEN j + 1 ELSE end[j + 1]
      BY <1>2, <2>2
    <3>. HIDE DEF P
    <3>5. end[j] >= j
      BY <2>2, <3>2, <3>3, <3>4
    <3>. QED  BY <3>5 DEF P
  <2>. QED  BY <1>1, <2>1, <2>2
<1>4. 1..n + 1 \subseteq P
  <2>. HIDE DEF P
  <2>. QED  BY <1>1, <1>3, Downward
<1>5. i + 1 \in 1..n + 1
  BY <1>1 DEF n
<1>6. end[i + 1] >= i + 1 /\ end[i + 1] \in 1..n + 1
  BY <1>2, <1>4, <1>5
<1>7. end[i + 1] \in i + 1..n + 1
  BY <1>1, <1>6
<1>. QED  BY <1>2, <1>7 DEF n

\* The position behind a line comment: its newline, or the end of the text.
LEMMA LineEnds ==
  ASSUME NEW in \in Seq(Symbols), NEW i \in 1..Len(in), i < Len(in)
  PROVE  /\ LineEnd(in, i) \in i + 2..Len(in) + 1
         /\ \A j \in i + 2..LineEnd(in, i) - 1 : in[j] # "newline"
         /\ LineEnd(in, i) <= Len(in) => in[LineEnd(in, i)] = "newline"
<1>. DEFINE n == Len(in)
            T == {j \in i + 2..n : in[j] = "newline"} \cup {n + 1}
            l == Min(T)
<1>1. n \in Nat /\ i \in 1..n /\ i < n
  OBVIOUS
<1>2. LineEnd(in, i) = l
  BY DEF LineEnd
<1>. HIDE DEF n
<1>3. T \in SUBSET (1..n + 1) /\ T # {} /\ n + 1 \in Nat
  BY <1>1
<1>4. l \in T /\ \A j \in T : l <= j
  <2>. HIDE DEF T
  <2>. QED  BY <1>3, Extremes
<1>. HIDE DEF l
<1>5. l \in i + 2..n + 1
  BY <1>1, <1>4
<1>6. \A j \in i + 2..l - 1 : in[j] # "newline"
  <2>. SUFFICES ASSUME NEW j \in i + 2..l - 1, in[j] = "newline" PROVE FALSE
    OBVIOUS
  <2>1. j \in i + 2..n /\ j < l
    BY <1>1, <1>5
  <2>2. j \in T
    BY <2>1
  <2>3. l <= j
    BY <1>4, <2>2
  <2>. QED  BY <1>1, <1>5, <2>1, <2>3
<1>7. l <= n => in[l] = "newline"
  <2>1. l <= n => l # n + 1
    BY <1>1
  <2>. QED  BY <1>4, <2>1
<1>. QED  BY <1>2, <1>5, <1>6, <1>7 DEF n

\* The position behind a block comment: behind the first star and slash in it, or the end
\* of the text.
LEMMA BlockEnds ==
  ASSUME NEW in \in Seq(Symbols), NEW i \in 1..Len(in), i < Len(in)
  PROVE  LET b == BlockEnd(in, i)
         IN  /\ b \in i + 2..Len(in) + 1
             /\ \E m \in i + 1..Len(in) :
                  /\ \A q \in i + 2..m - 1 : ~Follow(in, q, "star", "slash")
                  /\ \/ m = Len(in) /\ b = Len(in) + 1
                     \/ m \in i + 2..Len(in) /\ b = m + 2 /\ Follow(in, m, "star", "slash")
<1>. DEFINE n == Len(in)
            J == {k \in i + 2..n : Follow(in, k, "star", "slash")}
            T == {j + 2 : j \in J} \cup {n + 1}
            b == Min(T)
<1>1. n \in Nat /\ i \in 1..n /\ i < n
  OBVIOUS
<1>2. BlockEnd(in, i) = b
  BY DEF BlockEnd
<1>3. \A k \in J : k \in i + 2..n /\ k < n
  BY DEF Follow
<1>. HIDE DEF n
<1>4. T \in SUBSET (1..n + 1) /\ T # {} /\ n + 1 \in Nat
  <2>1. \A k \in J : k + 2 \in 1..n + 1
    BY <1>1, <1>3
  <2>. HIDE DEF J
  <2>. QED  BY <1>1, <2>1
<1>5. b \in T /\ \A j \in T : b <= j
  <2>. HIDE DEF T
  <2>. QED  BY <1>4, Extremes
<1>. HIDE DEF b
<1>6. \A k \in J : b <= k + 2
  <2>. HIDE DEF J
  <2>. QED  BY <1>5
<1>7. CASE b \in {j + 2 : j \in J}
  <2>1. PICK m \in J : b = m + 2
    BY <1>7
  <2>2. m \in i + 2..n /\ m < n /\ Follow(in, m, "star", "slash")
    BY <1>3, <2>1
  <2>3. \A q \in i + 2..m - 1 : ~Follow(in, q, "star", "slash")
    <3>. SUFFICES ASSUME NEW q \in i + 2..m - 1, Follow(in, q, "star", "slash") PROVE FALSE
      OBVIOUS
    <3>1. q \in i + 2..n /\ q < m
      BY <1>1, <2>2
    <3>2. q \in J
      BY <3>1
    <3>3. b <= q + 2
      BY <1>6, <3>2
    <3>. QED  BY <1>1, <2>1, <2>2, <3>1, <3>3
  <2>. HIDE DEF J, T
  <2>4. b \in i + 2..n + 1 /\ m \in i + 1..n
    BY <1>1, <2>1, <2>2
  <2>. QED  BY <1>2, <2>1, <2>2, <2>3, <2>4 DEF n
<1>8. CASE b \notin {j + 2 : j \in J}
  <2>1. b = n + 1
    <3>. HIDE DEF J
    <3>. QED  BY <1>5, <1>8
  <2>2. \A q \in i + 2..n - 1 : ~Follow(in, q, "star", "slash")
    <3>. SUFFICES ASSUME NEW q \in i + 2..n - 1, Follow(in, q, "star", "slash") PROVE FALSE
      OBVIOUS
    <3>1. q \in i + 2..n /\ q < n
      BY <1>1
    <3>2. q \in J
      BY <3>1
    <3>3. b <= q + 2 /\ b # q + 2
      BY <1>6, <1>8, <3>2
    <3>. QED  BY <1>1, <2>1, <3>1, <3>3
  <2>. HIDE DEF J, T
  <2>3. b \in i + 2..n + 1 /\ n \in i + 1..n
    BY <1>1, <2>1
  <2>. QED  BY <1>2, <2>1, <2>2, <2>3 DEF n
<1>. QED  BY <1>7, <1>8

\* In a line comment the scan writes nothing, up to the newline.
LEMMA LineScanned ==
  ASSUME NEW in \in Seq(Symbols), NEW S, Scans(in, S), NEW i \in 1..Len(in), i < Len(in),
         S[i + 1].mode = "line"
  PROVE  S[LineEnd(in, i) - 1] = S[i + 1]
<1>. DEFINE n == Len(in)
            l == LineEnd(in, i)
            P == {d \in Nat : i + 1 + d <= l - 1 => S[i + 1 + d] = S[i + 1]}
<1>1. n \in Nat /\ i \in 1..n /\ i < n
  OBVIOUS
<1>2. l \in i + 2..n + 1 /\ \A j \in i + 2..l - 1 : in[j] # "newline"
  BY LineEnds
<1>3. \A j \in 1..n : S[j] = Scan(S[j - 1], in[j])
  BY DEF Scans
<1>. HIDE DEF n, l
<1>4. 0 \in P
  BY <1>1
<1>5. ASSUME NEW d \in 1..l - 2 - i, d - 1 \in P PROVE d \in P
  <2>1. /\ d \in Nat /\ i + 1 + d \in 1..n /\ i + 1 + d \in i + 2..l - 1
        /\ (i + 1 + d) - 1 = i + 1 + (d - 1) /\ i + 1 + (d - 1) <= l - 1
    BY <1>1, <1>2
  <2>2. S[i + 1 + (d - 1)] = S[i + 1]
    BY <1>5, <2>1
  <2>3. in[i + 1 + d] # "newline"
    BY <1>2, <2>1
  <2>4. S[i + 1 + d] = Scan(S[i + 1], in[i + 1 + d])
    BY <1>3, <2>1, <2>2
  <2>5. S[i + 1 + d] = S[i + 1]
    BY <2>3, <2>4, ScanRules
  <2>. QED  BY <2>1, <2>5
<1>6. l - 2 - i \in Nat
  BY <1>1, <1>2
<1>7. 0..l - 2 - i \subseteq P
  <2>. DEFINE m == l - 2 - i
  <2>. HIDE DEF P, m
  <2>1. m \in Nat /\ \A d \in 1..m : d - 1 \in P => d \in P
    BY <1>5, <1>6 DEF m
  <2>2. 0..m \subseteq P
    BY <1>4, <2>1, InductionTo
  <2>. QED  BY <2>2 DEF m
<1>8. l - 2 - i \in P
  <2>. HIDE DEF P
  <2>1. l - 2 - i \in 0..l - 2 - i
    BY <1>6
  <2>. QED  BY <1>7, <2>1
<1>9. i + 1 + (l - 2 - i) = l - 1 /\ l - 1 <= l - 1
  BY <1>1, <1>2
<1>10. S[i + 1 + (l - 2 - i)] = S[i + 1]
  BY <1>8, <1>9
<1>. QED  BY <1>9, <1>10 DEF l

\* In a block comment the scan writes nothing, and leaves it where the comment ends.
LEMMA BlockScanned ==
  ASSUME NEW in \in Seq(Symbols), NEW S, Scans(in, S), NEW i \in 1..Len(in), i < Len(in),
         S[i + 1].mode = "block"
  PROVE  LET b == BlockEnd(in, i)
         IN  /\ S[b - 1].out = S[i + 1].out
             /\ S[b - 1].mode = "code" \/ (b = Len(in) + 1 /\ S[b - 1].mode \in {"block", "star"})
<1>. DEFINE n == Len(in)
            b == BlockEnd(in, i)
            o == S[i + 1].out
<1>1. n \in Nat /\ i \in 1..n /\ i < n
  OBVIOUS
<1>2. b \in i + 2..n + 1
  BY BlockEnds
<1>3. PICK m \in i + 1..n :
        /\ \A q \in i + 2..m - 1 : ~Follow(in, q, "star", "slash")
        /\ \/ m = n /\ b = n + 1
           \/ m \in i + 2..n /\ b = m + 2 /\ Follow(in, m, "star", "slash")
  BY BlockEnds
<1>4. \A j \in 1..n : S[j] = Scan(S[j - 1], in[j])
  BY DEF Scans
<1>41. \A j \in 0..n : S[j].out \in Seq(Symbols)
  BY DEF Scans, ScanState
<1>42. \A q : Follow(in, q, "star", "slash") <=> q < n /\ in[q] = "star" /\ in[q + 1] = "slash"
  BY DEF Follow
<1>. DEFINE Within(j) ==
              /\ S[j].out = o
              /\ S[j].mode = IF j > i + 1 /\ in[j] = "star" THEN "star" ELSE "block"
            P == {d \in Nat : i + 1 + d <= m => Within(i + 1 + d)}
<1>. HIDE DEF n, b, o
<1>43. o \in Seq(Symbols) /\ o \o <<>> = o
  <2>1. i + 1 \in 0..n
    BY <1>1
  <2>2. o \in Seq(Symbols)
    BY <1>41, <2>1 DEF o
  <2>. QED  BY <2>2
<1>5. 0 \in P
  <2>1. i + 1 + 0 = i + 1 /\ ~(i + 1 > i + 1)
    BY <1>1
  <2>. QED  BY <2>1 DEF o
<1>6. ASSUME NEW d \in 1..m - 1 - i, d - 1 \in P PROVE d \in P
  <2>. DEFINE j == i + 1 + d
  <2>1. /\ d \in Nat /\ j \in i + 2..m /\ j \in 1..n /\ j - 1 = i + 1 + (d - 1)
        /\ i + 1 + (d - 1) <= m /\ d - 1 \in Nat /\ j > i + 1
    BY <1>1, <1>3
  <2>. HIDE DEF Within
  <2>2. Within(j - 1)
    BY <1>6, <2>1
  <2>. HIDE DEF j, P
  <2>3. S[j] = Scan(S[j - 1], in[j]) /\ S[j - 1].out = o
    BY <1>4, <2>1, <2>2 DEF Within
  <2>4. CASE S[j - 1].mode = "star"
    <3>1. j - 1 > i + 1 /\ in[j - 1] = "star"
      BY <2>2, <2>4 DEF Within
    <3>2. j - 1 \in i + 2..m - 1 /\ j - 1 < n /\ (j - 1) + 1 = j
      BY <1>1, <1>3, <2>1, <3>1
    <3>3. in[j] # "slash"
      BY <1>3, <1>42, <3>1, <3>2
    <3>4. CASE in[j] = "star"
      <4>1. S[j] = S[j - 1]
        BY <2>3, <2>4, <3>4, ScanRules
      <4>. QED  BY <2>1, <2>3, <2>4, <3>4, <4>1 DEF Within, P, j
    <3>5. CASE in[j] # "star"
      <4>1. S[j] = [mode |-> "block", out |-> o \o <<>>]
        BY <2>3, <2>4, <3>3, <3>5, ScanRules
      <4>2. S[j].mode = "block" /\ S[j].out = o
        BY <1>43, <4>1
      <4>. QED  BY <2>1, <3>5, <4>2 DEF Within, P, j
    <3>. QED  BY <3>4, <3>5
  <2>5. CASE S[j - 1].mode = "block"
    <3>1. CASE in[j] = "star"
      <4>1. S[j] = [mode |-> "star", out |-> o \o <<>>]
        BY <2>3, <2>5, <3>1, ScanRules
      <4>2. S[j].mode = "star" /\ S[j].out = o
        BY <1>43, <4>1
      <4>. QED  BY <2>1, <3>1, <4>2 DEF Within, P, j
    <3>2. CASE in[j] # "star"
      <4>1. S[j] = S[j - 1]
        BY <2>3, <2>5, <3>2, ScanRules
      <4>. QED  BY <2>1, <2>3, <2>5, <3>2, <4>1 DEF Within, P, j
    <3>. QED  BY <3>1, <3>2
  <2>. QED  BY <2>2, <2>4, <2>5 DEF Within
<1>7. m - 1 - i \in Nat
  BY <1>1, <1>3
<1>8. Within(m)
  <2>. DEFINE k == m - 1 - i
  <2>. HIDE DEF P, k, Within
  <2>1. k \in Nat /\ \A d \in 1..k : d - 1 \in P => d \in P
    BY <1>6, <1>7 DEF k
  <2>2. 0..k \subseteq P
    BY <1>5, <2>1, InductionTo
  <2>3. k \in P
    BY <2>1, <2>2
  <2>4. i + 1 + k = m /\ i + 1 + k <= m
    BY <1>1, <1>3 DEF k
  <2>. QED  BY <2>3, <2>4 DEF P
<1>9. CASE m = n /\ b = n + 1
  <2>1. b - 1 = m
    BY <1>1, <1>9
  <2>. HIDE DEF P
  <2>. QED  BY <1>8, <1>9, <2>1 DEF Within, b, n, o
<1>10. CASE m \in i + 2..n /\ b = m + 2 /\ Follow(in, m, "star", "slash")
  <2>1. /\ b - 1 = m + 1 /\ m + 1 \in 1..n /\ (m + 1) - 1 = m /\ m > i + 1
        /\ in[m] = "star" /\ in[m + 1] = "slash"
    BY <1>1, <1>42, <1>10
  <2>. HIDE DEF P
  <2>2. S[m].mode = "star" /\ S[m].out = o
    BY <1>8, <2>1 DEF Within
  <2>3. S[m + 1] = Scan(S[m], in[m + 1])
    BY <1>4, <2>1
  <2>4. S[m + 1] = [mode |-> "code", out |-> o \o <<>>]
    BY <2>1, <2>2, <2>3, ScanRules
  <2>. QED  BY <1>43, <2>1, <2>4 DEF b, o
<1>. QED  BY <1>3, <1>9, <1>10

\* The result of stripping, by recursion over the positions of the text.
LEMMA StripRules ==
  ASSUME NEW in \in Seq(Symbols)
  PROVE  \E g :
           /\ StripFrom(in) = g[1]
           /\ g[Len(in) + 1] = <<>>
           /\ \A i \in 1..Len(in) + 1 : g[i] \in Seq(Symbols)
           /\ \A i \in 1..Len(in) :
                g[i] = IF in[i] = "quote"
                       THEN SubSeq(in, i, StringEnd(in, i) - 1) \o g[StringEnd(in, i)]
                       ELSE IF Follow(in, i, "slash", "slash")
                       THEN <<"space">> \o g[LineEnd(in, i)]
                       ELSE IF Follow(in, i, "slash", "star")
                       THEN <<"space">> \o g[BlockEnd(in, i)]
                       ELSE <<in[i]>> \o g[i + 1]
<1>. DEFINE n == Len(in)
            nx == [i \in 1..n |-> IF in[i] = "quote" THEN StringEnd(in, i)
                                  ELSE IF Follow(in, i, "slash", "slash") THEN LineEnd(in, i)
                                  ELSE IF Follow(in, i, "slash", "star") THEN BlockEnd(in, i)
                                  ELSE i + 1]
            w == [i \in 1..n |-> IF in[i] = "quote" THEN SubSeq(in, i, StringEnd(in, i) - 1)
                                 ELSE IF Follow(in, i, "slash", "slash") THEN <<"space">>
                                 ELSE IF Follow(in, i, "slash", "star") THEN <<"space">>
                                 ELSE <<in[i]>>]
            G == [i \in 1..n |-> [v \in Seq(Symbols) |-> w[i] \o v]]
            strip[i \in 1..Len(in) + 1] ==
              IF i > Len(in) THEN <<>>
              ELSE IF in[i] = "quote"
                   THEN SubSeq(in, i, StringEnd(in, i) - 1) \o strip[StringEnd(in, i)]
              ELSE IF Follow(in, i, "slash", "slash") THEN <<"space">> \o strip[LineEnd(in, i)]
              ELSE IF Follow(in, i, "slash", "star") THEN <<"space">> \o strip[BlockEnd(in, i)]
              ELSE <<in[i]>> \o strip[i + 1]
<1>1. n \in Nat /\ \A i \in 1..n : in[i] \in Symbols
  OBVIOUS
<1>2. ASSUME NEW i \in 1..n
      PROVE  /\ in[i] = "quote" => StringEnd(in, i) \in i + 1..n + 1
             /\ Follow(in, i, "slash", "slash") => LineEnd(in, i) \in i + 1..n + 1
             /\ Follow(in, i, "slash", "star") => BlockEnd(in, i) \in i + 1..n + 1
             /\ i + 1 \in i + 1..n + 1
  <2>1. StringEnd(in, i) \in i + 1..n + 1
    BY StringEndBehind
  <2>2. \A c, d : Follow(in, i, c, d) => i < n
    BY DEF Follow
  <2>3. i < n => LineEnd(in, i) \in i + 2..n + 1 /\ BlockEnd(in, i) \in i + 2..n + 1
    BY LineEnds, BlockEnds
  <2>. HIDE DEF n
  <2>4. \A j \in i + 2..n + 1 : j \in i + 1..n + 1
    BY <1>1
  <2>5. i + 1 \in i + 1..n + 1
    BY <1>1
  <2>. QED  BY <2>1, <2>2, <2>3, <2>4, <2>5
<1>. HIDE DEF n
<1>3. \A i \in 1..n : w[i] \in Seq(Symbols)
  <2>. TAKE i \in 1..n
  <2>1. in[i] = "quote" => SubSeq(in, i, StringEnd(in, i) - 1) \in Seq(Symbols)
    <3>. SUFFICES ASSUME in[i] = "quote"
                  PROVE  SubSeq(in, i, StringEnd(in, i) - 1) \in Seq(Symbols)
      OBVIOUS
    <3>. DEFINE e == StringEnd(in, i)
    <3>1. e \in i + 1..n + 1
      BY <1>2
    <3>. HIDE DEF e
    <3>2. i \in Int /\ e - 1 \in Int /\ \A j \in i..e - 1 : in[j] \in Symbols
      BY <1>1, <3>1
    <3>3. SubSeq(in, i, e - 1) \in Seq(Symbols)
      BY <3>2, SubSeqProperties
    <3>. QED  BY <3>3 DEF e
  <2>2. <<"space">> \in Seq(Symbols) /\ <<in[i]>> \in Seq(Symbols)
    BY <1>1 DEF Symbols
  <2>. QED  BY <2>1, <2>2
<1>4. nx \in [1..n -> 1..n + 1] /\ \A i \in 1..n : i < nx[i]
  <2>1. \A i \in 1..n : nx[i] \in i + 1..n + 1
    BY <1>2
  <2>2. \A i \in 1..n : nx[i] \in 1..n + 1 /\ i < nx[i]
    <3>. HIDE DEF nx
    <3>. QED  BY <1>1, <2>1
  <2>3. nx = [i \in 1..n |-> nx[i]]
    OBVIOUS
  <2>. HIDE DEF nx
  <2>. QED  BY <2>2, <2>3
<1>5. G \in [1..n -> [Seq(Symbols) -> Seq(Symbols)]]
  <2>. HIDE DEF w
  <2>1. \A i \in 1..n, v \in Seq(Symbols) : w[i] \o v \in Seq(Symbols)
    BY <1>3, ConcatProperties
  <2>. QED  BY <2>1
<1>6. PICK f \in [1..n + 1 -> Seq(Symbols)] :
        f[n + 1] = <<>> /\ \A i \in 1..n : f[i] = G[i][f[nx[i]]]
  <2>. DEFINE V == Seq(Symbols)
              base == <<>>
  <2>0. base \in V
    OBVIOUS
  <2>. HIDE DEF nx, G, V, base
  <2>1. \E f : Jump(n, V, base, nx, G, f)
    <3>1. G \in [1..n -> [V -> V]]
      BY <1>5 DEF V
    <3>. QED  BY <1>1, <1>4, <2>0, <3>1, Jumps, Zenon
  <2>. QED  BY <2>1 DEF Jump, V, base
<1>. DEFINE Rule(h, i) ==
              IF i > n THEN <<>>
              ELSE IF in[i] = "quote"
                   THEN SubSeq(in, i, StringEnd(in, i) - 1) \o h[StringEnd(in, i)]
              ELSE IF Follow(in, i, "slash", "slash") THEN <<"space">> \o h[LineEnd(in, i)]
              ELSE IF Follow(in, i, "slash", "star") THEN <<"space">> \o h[BlockEnd(in, i)]
              ELSE <<in[i]>> \o h[i + 1]
<1>61. \A i \in 1..n + 1 : i \in 1..n \/ (i = n + 1 /\ i > n)
  BY <1>1
<1>62. \A i \in 1..n : ~(i > n) /\ i \in 1..n + 1
  BY <1>1
<1>7. \A i \in 1..n + 1 : f[i] = Rule(f, i)
  <2>. TAKE i \in 1..n + 1
  <2>1. CASE i = n + 1 /\ i > n
    BY <1>6, <2>1
  <2>2. CASE i \in 1..n
    <3>1. f[i] = G[i][f[nx[i]]] /\ nx[i] \in 1..n + 1
      <4>. HIDE DEF G, nx
      <4>. QED  BY <1>4, <1>6, <2>2
    <3>2. f[nx[i]] \in Seq(Symbols)
      <4>. HIDE DEF nx
      <4>. QED  BY <1>6, <3>1
    <3>3. f[i] = w[i] \o f[nx[i]]
      <4>. HIDE DEF w, nx
      <4>. QED  BY <2>2, <3>1, <3>2
    <3>4. ~(i > n)
      BY <1>62, <2>2
    <3>. QED  BY <2>2, <3>3, <3>4, Zenon
  <2>. QED  BY <1>61, <2>1, <2>2
<1>8. f = [i \in 1..n + 1 |-> Rule(f, i)]
  <2>1. f = [i \in 1..n + 1 |-> f[i]]
    BY <1>6
  <2>. HIDE DEF Rule
  <2>. QED  BY <1>7, <2>1, Zenon
<1>9. strip = [i \in 1..n + 1 |-> Rule(strip, i)]
  BY <1>8, Zenon DEF n, strip
<1>10. StripFrom(in) = strip[1]
  BY Zenon DEF StripFrom, strip
<1>. HIDE DEF strip, Rule, G, nx, w
<1>11. \A i \in 1..n + 1 : strip[i] = Rule(strip, i)
  BY <1>9
<1>12. strip[n + 1] = <<>>
  <2>1. n + 1 \in 1..n + 1 /\ n + 1 > n
    BY <1>1
  <2>. QED  BY <1>11, <2>1 DEF Rule
<1>13. \A i \in 1..n :
         strip[i] = IF in[i] = "quote"
                    THEN SubSeq(in, i, StringEnd(in, i) - 1) \o strip[StringEnd(in, i)]
                    ELSE IF Follow(in, i, "slash", "slash")
                    THEN <<"space">> \o strip[LineEnd(in, i)]
                    ELSE IF Follow(in, i, "slash", "star")
                    THEN <<"space">> \o strip[BlockEnd(in, i)]
                    ELSE <<in[i]>> \o strip[i + 1]
  BY <1>11, <1>62, Zenon DEF Rule
<1>14. \A i \in 1..n : strip[i] = w[i] \o strip[nx[i]]
  BY <1>13 DEF w, nx
<1>15. \A i \in 1..n + 1 : strip[i] \in Seq(Symbols)
  <2>. DEFINE P == {i \in 1..n + 1 : strip[i] \in Seq(Symbols)}
  <2>1. ASSUME NEW i \in 1..n + 1, \A j \in i + 1..n + 1 : j \in P PROVE i \in P
    <3>1. CASE i = n + 1
      <4>1. strip[i] = <<>> /\ <<>> \in Seq(Symbols)
        BY <1>12, <3>1
      <4>. QED  BY <4>1
    <3>2. CASE i \in 1..n
      <4>1. nx[i] \in i + 1..n + 1
        BY <1>1, <1>4, <3>2
      <4>2. strip[nx[i]] \in Seq(Symbols)
        BY <2>1, <4>1
      <4>3. w[i] \o strip[nx[i]] \in Seq(Symbols)
        BY <1>3, <3>2, <4>2, ConcatProperties
      <4>. QED  BY <1>14, <3>2, <4>3
    <3>. QED  BY <1>61, <3>1, <3>2
  <2>2. 1..n + 1 \subseteq P
    <3>. HIDE DEF P
    <3>. QED  BY <1>1, <2>1, Downward
  <2>. QED  BY <2>2
<1>. QED  BY <1>10, <1>12, <1>13, <1>15 DEF n

\* The strip of a text, a string or a comment at a time, is what the scan makes of it, a
\* character at a time: from a position that is in no string and no comment on, both write
\* the same.
LEMMA StripsComments ==
  ASSUME NEW in \in Seq(Symbols)
  PROVE  StripFrom(in) = WithoutComments(in)
<1>. DEFINE n == Len(in)
            F == WithoutComments(in)
<1>1. n \in Nat /\ \A i \in 1..n : in[i] \in Symbols
  OBVIOUS
<1>2. PICK g :
        /\ StripFrom(in) = g[1]
        /\ g[n + 1] = <<>>
        /\ \A i \in 1..n + 1 : g[i] \in Seq(Symbols)
        /\ \A i \in 1..n :
             g[i] = IF in[i] = "quote"
                    THEN SubSeq(in, i, StringEnd(in, i) - 1) \o g[StringEnd(in, i)]
                    ELSE IF Follow(in, i, "slash", "slash")
                    THEN <<"space">> \o g[LineEnd(in, i)]
                    ELSE IF Follow(in, i, "slash", "star")
                    THEN <<"space">> \o g[BlockEnd(in, i)]
                    ELSE <<in[i]>> \o g[i + 1]
  BY StripRules
<1>3. PICK S : /\ Scans(in, S)
               /\ F = IF S[n].mode = "slash" THEN Append(S[n].out, "slash") ELSE S[n].out
  BY Scanned DEF Scans
<1>4. /\ \A i \in 0..n : S[i].mode \in Modes /\ S[i].out \in Seq(Symbols)
      /\ S[0] = ScanStart
      /\ \A i \in 1..n : S[i] = Scan(S[i - 1], in[i])
  BY <1>3 DEF Scans, ScanState
<1>5. \A i, c, d : Follow(in, i, c, d) <=> i < n /\ in[i] = c /\ in[i + 1] = d
  BY DEF Follow
<1>. DEFINE Agrees(i) == S[i - 1].mode = "code" => F = S[i - 1].out \o g[i]
            P == {i \in 1..n + 1 : Agrees(i)}
<1>. HIDE DEF n, F, Agrees, P

\* What both write from i to e, they write alike from i on.
<1>6. ASSUME NEW i \in 1..n, NEW e \in i + 1..n + 1, Agrees(e),
             NEW o \in Seq(Symbols), NEW u \in Seq(Symbols),
             g[i] = u \o g[e],
             S[e - 1].out = o \o u,
             S[e - 1].mode = "code" \/ (e = n + 1 /\ S[e - 1].mode # "slash")
      PROVE  F = o \o g[i]
  <2>1. g[e] \in Seq(Symbols)
    <3>1. e \in 1..n + 1
      BY <1>1
    <3>. QED  BY <1>2, <3>1
  <2>2. (o \o u) \o g[e] = o \o (u \o g[e])
    <3>. DEFINE v == g[e]
    <3>1. v \in Seq(Symbols)
      BY <2>1
    <3>. HIDE DEF v
    <3>2. (o \o u) \o v = o \o (u \o v)
      BY <1>6, <3>1, Joins, SMTT(40)
    <3>. QED  BY <3>2 DEF v
  <2>3. CASE S[e - 1].mode = "code"
    BY <1>6, <2>2, <2>3 DEF Agrees
  <2>4. CASE e = n + 1 /\ S[e - 1].mode # "slash"
    <3>1. e - 1 = n
      BY <1>1, <2>4
    <3>2. F = o \o u
      BY <1>3, <1>6, <2>4, <3>1
    <3>3. g[i] = u
      <4>1. u \o <<>> = u
        OBVIOUS
      <4>. QED  BY <1>2, <1>6, <2>4, <4>1
    <3>. QED  BY <3>2, <3>3
  <2>. QED  BY <1>6, <2>3, <2>4

\* A string.
<1>7. ASSUME NEW i \in 1..n, \A j \in i + 1..n + 1 : Agrees(j), in[i] = "quote",
             NEW o \in Seq(Symbols),
             S[i].mode = "string", S[i].out = o \o <<in[i]>>
      PROVE  F = o \o g[i]
  <2>. DEFINE e == StringEnd(in, i)
              u == SubSeq(in, i, e - 1)
  <2>1. /\ e \in i + 1..n + 1
        /\ S[e - 1].out = S[i].out \o SubSeq(in, i + 1, e - 1)
        /\ S[e - 1].mode = "code" \/ (e = n + 1 /\ S[e - 1].mode \in {"string", "escape"})
    BY <1>3, <1>7, StringScanned DEF n
  <2>2. g[i] = u \o g[e]
    BY <1>2, <1>7
  <2>. HIDE DEF e
  <2>3. e - 1 \in i..n
    BY <1>1, <2>1
  <2>4. (o \o <<in[i]>>) \o SubSeq(in, i + 1, e - 1) = o \o u
    BY <2>3, Onward DEF n
  <2>5. u \in Seq(Symbols)
    <3>1. i \in Int /\ e - 1 \in Int /\ \A j \in i..e - 1 : in[j] \in Symbols
      BY <1>1, <2>1
    <3>. QED  BY <3>1, SubSeqProperties
  <2>6. S[e - 1].out = o \o u
    BY <1>7, <2>1, <2>4
  <2>7. Agrees(e)
    BY <1>7, <2>1
  <2>. HIDE DEF u
  <2>. QED  BY <1>6, <2>1, <2>2, <2>5, <2>6, <2>7

<1>8. ASSUME NEW i \in 1..n + 1, \A j \in i + 1..n + 1 : Agrees(j)
      PROVE  Agrees(i)
  <2>. SUFFICES ASSUME S[i - 1].mode = "code" PROVE F = S[i - 1].out \o g[i]
    BY DEF Agrees
  <2>. DEFINE o == S[i - 1].out
  <2>1. i - 1 \in 0..n
    BY <1>1
  <2>2. o \in Seq(Symbols) /\ o \o <<>> = o
    <3>1. o \in Seq(Symbols)
      BY <1>4, <2>1
    <3>. HIDE DEF o
    <3>. QED  BY <3>1
  <2>. HIDE DEF o
  <2>. SUFFICES F = o \o g[i]
    BY DEF o
  <2>3. CASE i = n + 1
    <3>1. i - 1 = n
      BY <1>1, <2>3
    <3>2. F = o
      BY <1>3, <3>1 DEF o
    <3>. QED  BY <1>2, <2>2, <2>3, <3>2
  <2>4. CASE i \in 1..n /\ in[i] = "quote"
    <3>1. S[i] = [mode |-> "string", out |-> o \o <<in[i]>>]
      BY <1>4, <2>4, ScanRules DEF o
    <3>2. S[i].mode = "string" /\ S[i].out = o \o <<in[i]>>
      BY <3>1
    <3>. QED  BY <1>7, <1>8, <2>2, <2>4, <3>2
  <2>5. CASE i \in 1..n /\ in[i] \notin {"quote", "slash"}
    <3>1. S[i] = [mode |-> "code", out |-> o \o <<in[i]>>]
      BY <1>4, <2>5, ScanRules DEF o
    <3>2. S[i].mode = "code" /\ S[i].out = o \o <<in[i]>>
      BY <3>1
    <3>3. g[i] = <<in[i]>> \o g[i + 1]
      BY <1>2, <1>5, <2>5
    <3>4. i + 1 \in i + 1..n + 1 /\ (i + 1) - 1 = i /\ <<in[i]>> \in Seq(Symbols)
      BY <1>1, <2>5
    <3>. QED  BY <1>6, <1>8, <2>2, <2>5, <3>2, <3>3, <3>4
  <2>6. CASE i \in 1..n /\ in[i] = "slash"
    <3>1. S[i].mode = "slash" /\ S[i].out = o
      <4>1. S[i] = [mode |-> "slash", out |-> o \o <<>>]
        BY <1>4, <2>6, ScanRules DEF o
      <4>. QED  BY <2>2, <4>1
    <3>. DEFINE sp == <<"space">>
                sl == <<"slash">>
    <3>2. sp \in Seq(Symbols) /\ sl \in Seq(Symbols)
      BY DEF Symbols
    <3>3. CASE i = n
      <4>1. F = Append(o, "slash") /\ Append(o, "slash") = o \o sl
        <5>1. F = Append(o, "slash")
          BY <1>3, <3>1, <3>3
        <5>2. Append(o, "slash") = o \o sl
          BY <2>2
        <5>. QED  BY <5>1, <5>2
      <4>2. g[i] = sl \o g[i + 1] /\ g[i + 1] = <<>> /\ sl \o <<>> = sl
        <5>1. ~(i < n) /\ i + 1 = n + 1
          BY <1>1, <3>3
        <5>2. \A c, d : ~Follow(in, i, c, d)
          BY <1>5, <5>1
        <5>3. sl \o <<>> = sl
          OBVIOUS
        <5>4. g[i] = sl \o g[i + 1]
          BY <1>2, <2>6, <5>2
        <5>. QED  BY <1>2, <5>1, <5>3, <5>4
      <4>. HIDE DEF sl
      <4>. QED  BY <4>1, <4>2
    <3>4. CASE i < n
      <4>. DEFINE c == in[i + 1]
                  o1 == o \o sl
      <4>1. /\ i + 1 \in 1..n /\ (i + 1) - 1 = i /\ (i + 1) + 1 = i + 2 /\ (i + 2) - 1 = i + 1
            /\ \A j \in i + 2..n + 1 : j \in i + 1..n + 1
            /\ i + 2 \in i + 2..n + 1 /\ i + 1 \in i + 1..n + 1
        BY <1>1, <2>6, <3>4
      <4>2. S[i + 1] = Scan(S[i], c) /\ c \in Symbols
        BY <1>1, <1>4, <4>1
      <4>3. o1 \in Seq(Symbols)
        <5>. HIDE DEF sl, sp
        <5>. QED  BY <2>2, <3>2, Joins
      <4>4. \A j \in 1..n + 1 : o1 \o g[j] = o \o (sl \o g[j])
        <5>. HIDE DEF sl, sp
        <5>. QED  BY <1>2, <2>2, <3>2, Joins
      <4>5. o \o <<"slash", c>> = o1 \o <<c>> /\ <<c>> \in Seq(Symbols)
        <5>1. <<c>> \in Seq(Symbols)
          BY <4>2
        <5>2. <<"slash", c>> = sl \o <<c>>
          OBVIOUS
        <5>. DEFINE t == <<c>>
        <5>. HIDE DEF sl, t
        <5>3. t \in Seq(Symbols)
          BY <5>1 DEF t
        <5>4. (o \o sl) \o t = o \o (sl \o t)
          BY <2>2, <3>2, <5>3, Joins, SMTT(40)
        <5>. QED  BY <5>1, <5>2, <5>4 DEF t
      <4>. HIDE DEF o1
      <4>6. CASE c = "slash"
        <5>. DEFINE l == LineEnd(in, i)
        <5>1. S[i + 1] = [mode |-> "line", out |-> o \o sp]
          BY <3>1, <4>2, <4>6, ScanRules
        <5>2. S[i + 1].mode = "line" /\ S[i + 1].out = o \o sp
          BY <5>1
        <5>3. S[l - 1] = S[i + 1]
          BY <1>3, <2>6, <3>4, <5>2, LineScanned DEF n
        <5>4. l \in i + 2..n + 1 /\ (l <= n => in[l] = "newline")
          BY <2>6, <3>4, LineEnds DEF n
        <5>5. g[i] = sp \o g[l]
          BY <1>2, <1>5, <2>6, <3>4, <4>6
        <5>. HIDE DEF l, sp
        <5>6. CASE l = n + 1
          <6>1. l \in i + 1..n + 1 /\ S[l - 1].out = o \o sp /\ S[l - 1].mode = "line"
            BY <4>1, <5>2, <5>3, <5>4
          <6>2. Agrees(l)
            BY <1>8, <6>1
          <6>. QED  BY <1>6, <2>2, <2>6, <3>2, <5>5, <5>6, <6>1, <6>2
        <5>7. CASE l <= n
          <6>1. l \in 1..n /\ l + 1 \in l + 1..n + 1 /\ l + 1 \in i + 1..n + 1 /\ (l + 1) - 1 = l
            BY <1>1, <2>6, <5>4, <5>7
          <6>. DEFINE nl == <<"newline">>
                      o2 == o \o sp
          <6>2. o2 \in Seq(Symbols) /\ nl \in Seq(Symbols)
            <7>1. nl \in Seq(Symbols)
              BY DEF Symbols
            <7>. QED  BY <2>2, <3>2, <7>1, Joins
          <6>3. S[l - 1].mode = "line" /\ S[l - 1].out = o2 /\ S[l] = Scan(S[l - 1], in[l])
            BY <1>4, <5>2, <5>3, <6>1
          <6>4. S[l] = [mode |-> "code", out |-> o2 \o nl]
            <7>1. in[l] = "newline"
              BY <5>4, <5>7
            <7>. HIDE DEF nl
            <7>2. Scan(S[l - 1], "newline") = [mode |-> "code", out |-> o2 \o nl]
              <8>. DEFINE st == S[l - 1]
              <8>. HIDE DEF st
              <8>1. st.mode = "line" /\ st.out = o2
                BY <6>3 DEF st
              <8>2. Scan(st, "newline") = [mode |-> "code", out |-> st.out \o <<"newline">>]
                BY <8>1, ScanRules
              <8>. QED  BY <8>1, <8>2 DEF st, nl
            <7>. QED  BY <6>3, <7>1, <7>2
          <6>5. S[l].mode = "code" /\ S[l].out = o2 \o nl
            BY <6>4
          <6>6. g[l] = nl \o g[l + 1]
            <7>1. in[l] = "newline" /\ \A d : ~Follow(in, l, "slash", d)
              BY <1>5, <5>4, <5>7
            <7>. QED  BY <1>2, <6>1, <7>1
          <6>. HIDE DEF nl, o2
          <6>7. Agrees(l + 1)
            BY <1>8, <6>1
          <6>8. F = o2 \o g[l]
            BY <1>6, <6>1, <6>2, <6>5, <6>6, <6>7
          <6>9. g[l] \in Seq(Symbols)
            BY <1>1, <1>2, <6>1
          <6>10. o2 \o g[l] = o \o (sp \o g[l])
            <7>. DEFINE v == g[l]
            <7>1. v \in Seq(Symbols)
              BY <6>9
            <7>. HIDE DEF v
            <7>2. (o \o sp) \o v = o \o (sp \o v)
              BY <2>2, <3>2, <7>1, Joins, SMTT(40)
            <7>. QED  BY <7>2 DEF o2, v
          <6>. QED  BY <5>5, <6>8, <6>10
        <5>. QED  BY <1>1, <2>6, <5>4, <5>6, <5>7
      <4>7. CASE c = "star"
        <5>. DEFINE b == BlockEnd(in, i)
        <5>1. S[i + 1] = [mode |-> "block", out |-> o \o sp]
          BY <3>1, <4>2, <4>7, ScanRules
        <5>2. S[i + 1].mode = "block" /\ S[i + 1].out = o \o sp
          BY <5>1
        <5>3. /\ S[b - 1].out = S[i + 1].out
              /\ S[b - 1].mode = "code" \/ (b = n + 1 /\ S[b - 1].mode \in {"block", "star"})
          BY <1>3, <2>6, <3>4, <5>2, BlockScanned DEF n
        <5>4. b \in i + 2..n + 1
          BY <2>6, <3>4, BlockEnds DEF n
        <5>5. g[i] = sp \o g[b]
          <6>1. ~Follow(in, i, "slash", "slash") /\ Follow(in, i, "slash", "star")
            BY <1>5, <2>6, <3>4, <4>7
          <6>. QED  BY <1>2, <2>6, <6>1
        <5>. HIDE DEF b, sp
        <5>6. Agrees(b) /\ b \in i + 1..n + 1
          BY <1>8, <4>1, <5>4
        <5>. QED  BY <1>6, <2>2, <2>6, <3>2, <5>2, <5>3, <5>5, <5>6
      <4>8. g[i] = sl \o g[i + 1] \/ c \in {"slash", "star"}
        <5>. SUFFICES ASSUME c \notin {"slash", "star"} PROVE g[i] = sl \o g[i + 1]
          OBVIOUS
        <5>1. ~Follow(in, i, "slash", "slash") /\ ~Follow(in, i, "slash", "star")
          BY <1>5
        <5>. QED  BY <1>2, <2>6, <5>1
      <4>9. CASE c = "quote"
        <5>1. S[i + 1] = [mode |-> "string", out |-> o \o <<"slash", c>>]
          BY <3>1, <4>2, <4>9, ScanRules
        <5>2. S[i + 1].mode = "string" /\ S[i + 1].out = o1 \o <<c>>
          <6>1. S[i + 1].mode = "string" /\ S[i + 1].out = o \o <<"slash", c>>
            BY <5>1
          <6>. QED  BY <4>5, <6>1, Zenon
        <5>3. \A j \in (i + 1) + 1..n + 1 : Agrees(j)
          BY <1>8, <4>1
        <5>4. F = o1 \o g[i + 1]
          BY <1>7, <4>1, <4>3, <4>9, <5>2, <5>3
        <5>5. i + 1 \in 1..n + 1
          BY <1>1, <4>1
        <5>. HIDE DEF sl
        <5>. QED  BY <4>4, <4>8, <4>9, <5>4, <5>5
      <4>10. CASE c \notin {"slash", "star", "quote"}
        <5>1. S[i + 1] = [mode |-> "code", out |-> o \o <<"slash", c>>]
          BY <3>1, <4>2, <4>10, ScanRules
        <5>2. S[i + 1].mode = "code" /\ S[i + 1].out = o1 \o <<c>>
          <6>1. S[i + 1].mode = "code" /\ S[i + 1].out = o \o <<"slash", c>>
            BY <5>1
          <6>. QED  BY <4>5, <6>1, Zenon
        <5>3. Agrees(i + 2)
          BY <1>8, <4>1
        <5>4. g[i + 1] = <<c>> \o g[i + 2]
          <6>1. \A d : ~Follow(in, i + 1, "slash", d)
            BY <1>5, <4>10
          <6>. QED  BY <1>2, <4>1, <4>10, <6>1
        <5>5. i + 1 \in 1..n + 1 /\ i + 2 \in (i + 1) + 1..n + 1
          BY <1>1, <4>1
        <5>. HIDE DEF c
        <5>6. F = o1 \o g[i + 1]
          BY <1>6, <4>1, <4>3, <4>5, <5>2, <5>3, <5>4, <5>5
        <5>. HIDE DEF sl
        <5>. QED  BY <4>4, <4>8, <4>10, <5>5, <5>6
      <4>. QED  BY <4>6, <4>7, <4>9, <4>10
    <3>. QED  BY <1>1, <2>6, <3>3, <3>4
  <2>. QED  BY <1>1, <2>3, <2>4, <2>5, <2>6
<1>9. 1..n + 1 \subseteq P
  <2>1. ASSUME NEW i \in 1..n + 1, \A j \in i + 1..n + 1 : j \in P PROVE i \in P
    <3>1. \A j \in i + 1..n + 1 : Agrees(j)
      BY <2>1 DEF P
    <3>2. Agrees(i)
      BY <1>8, <3>1
    <3>. QED  BY <3>2 DEF P
  <2>. QED  BY <1>1, <2>1, Downward
<1>10. 1 \in 1..n + 1 /\ 1 - 1 = 0
  BY <1>1
<1>11. F = S[0].out \o g[1] /\ S[0].out = <<>>
  <2>1. Agrees(1)
    BY <1>9, <1>10 DEF P
  <2>2. S[0].mode = "code" /\ S[0].out = <<>>
    BY <1>4 DEF ScanStart
  <2>. QED  BY <1>10, <2>1, <2>2 DEF Agrees
<1>12. <<>> \o g[1] = g[1]
  <2>1. g[1] \in Seq(Symbols)
    BY <1>2, <1>10
  <2>. QED  BY <2>1
<1>. QED  BY <1>2, <1>11, <1>12 DEF F

\* What is left of a text without the space around it is a text.
LEMMA TrimmedText ==
  ASSUME NEW in \in Seq(Symbols)
  PROVE  TrimSpace(in) \in Seq(Symbols)
<1>. DEFINE solid == {i \in DOMAIN in : in[i] \notin {"newline", "space"}}
<1>1. CASE solid = {}
  <2>1. TrimSpace(in) = <<>>
    BY <1>1 DEF TrimSpace
  <2>. QED  BY <2>1
<1>2. CASE solid # {}
  <2>1. solid \in SUBSET (1..Len(in)) /\ Len(in) \in Nat
    OBVIOUS
  <2>2. TrimSpace(in) = SubSeq(in, Min(solid), Max(solid))
    BY <1>2 DEF TrimSpace
  <2>. HIDE DEF solid
  <2>3. Min(solid) \in 1..Len(in) /\ Max(solid) \in 1..Len(in)
    BY <1>2, <2>1, Extremes
  <2>4. \A i \in Min(solid)..Max(solid) : in[i] \in Symbols
    BY <2>3
  <2>. QED  BY <2>2, <2>3, <2>4, SubSeqProperties
<1>. QED  BY <1>1, <1>2

\* The file is read once, and what is decoded is what it strips to.
TextRead ==
  /\ At("loading") \/ At("decoding") => file \in Files
  /\ At("decoding") => stripped = StripJSONComments(file)

\* A step that reads nothing, and does not return to the file.
LEMMA TextKept ==
  ASSUME TextRead,
         main' \in {"loading", "decoding"} => main' = main /\ UNCHANGED <<file, stripped>>,
         exit' = "none" => exit = "none"
  PROVE  TextRead'
BY DEF TextRead, At, Alive

\* Every step keeps what is known of the text.
LEMMA TextReadKept == TextRead /\ [Next]_vars => TextRead'
<1>. SUFFICES ASSUME TextRead, [Next]_vars PROVE TextRead'
  OBVIOUS
<1>1. CASE ReadFile
  <2>1. file \in Files /\ file' = file /\ Alive /\ main = "loading"
    BY <1>1 DEF ReadFile, TextRead, At
  <2>2. CASE Exit("refused")
    BY <2>2 DEF Exit, TextRead, At, Alive
  <2>3. CASE Goto("decoding") /\ stripped' = StripJSONComments(file)
    <3>1. StripJSONComments(file)' = StripJSONComments(file)
      BY <2>1
    <3>. QED  BY <2>1, <2>3, <3>1 DEF Goto, TextRead, At, Alive
  <2>. QED  BY <1>1, <2>2, <2>3 DEF ReadFile
<1>2. CASE UseDefaults \/ Decode
  <2>1. exit' # "none" \/ main' = "validating"
    BY <1>2 DEF UseDefaults, Decode, Goto, Exit
  <2>. QED  BY <2>1 DEF TextRead, At, Alive
<1>3. CASE ValidateConfig \/ BuildProviders \/ BuildClientAuth \/ OpenLog \/ NotifyStop \/ NotifyHup
  <2>. USE DEF At, Goto, Exit, Alive
  <2>1. main' \notin {"loading", "decoding"} /\ (exit' = "none" => exit = "none")
    <3>1. CASE ValidateConfig      BY <3>1 DEF ValidateConfig
    <3>2. CASE BuildProviders      BY <3>2 DEF BuildProviders
    <3>3. CASE BuildClientAuth     BY <3>3 DEF BuildClientAuth
    <3>4. CASE OpenLog             BY <3>4 DEF OpenLog
    <3>5. CASE NotifyStop          BY <3>5 DEF NotifyStop
    <3>6. CASE NotifyHup           BY <3>6 DEF NotifyHup
    <3>. QED  BY <1>3, <3>1, <3>2, <3>3, <3>4, <3>5, <3>6
  <2>. QED  BY <2>1, TextKept
<1>4. CASE Serve \/ Listen
  <2>1. UNCHANGED <<file, stripped>>
    BY <1>4 DEF Serve, Listen, ServeFails, AwaitListener, ReturnFromServe, TakeStop, Drained,
                GraceElapses, Bind, ListenFails, ListenCloses, Stops, startup
  <2>2. /\ exit' = exit \/ exit' \in {"ok", "listen_error", "grace_elapsed"}
        /\ main' = main \/ main' \in {"draining", "awaiting"}
    BY <1>4 DEF Serve, Listen, ServeFails, AwaitListener, ReturnFromServe, TakeStop, Drained,
                GraceElapses, Bind, ListenFails, ListenCloses, Stops, Goto, Exit
  <2>. QED  BY <2>1, <2>2, TextKept
<1>5. CASE StopSignal \/ HupSignal
  <2>1. UNCHANGED <<file, stripped, main>> /\ (exit' = exit \/ exit' = "killed")
    BY <1>5 DEF StopSignal, HupSignal, Exit, startup
  <2>. QED  BY <2>1, TextKept
<1>6. ASSUME NEW r \in Requests,
             \/ DropFresh(r) \/ Connect(r) \/ FirstByte(r) \/ Deny(r) \/ Admit(r)
             \/ Respond(r) \/ Record(r) \/ Leave(r)
      PROVE  TextRead'
  <2>1. UNCHANGED <<file, stripped, main, exit>>
    BY <1>6 DEF DropFresh, Connect, FirstByte, Deny, Admit, Respond, Record, Leave, Moves, startup
  <2>. QED  BY <2>1, TextKept
<1>7. CASE UNCHANGED vars
  BY <1>7, TextKept DEF vars, startup
<1>. QED  BY <1>1, <1>2, <1>3, <1>4, <1>5, <1>6, <1>7 DEF Next, Start

\* What the decoder gets is the file without its comments, whatever file it is and however
\* long (config.Load, stripJSONComments): the strip, which looks ahead for the end of a
\* string or a comment, agrees with the scan, which does not.
THEOREM CommentsGone == Spec => []CommentsStripped
<1>1. Init => TextRead
  BY DEF Init, TextRead, At
<1>2. TextRead => CommentsStripped
  <2>. SUFFICES ASSUME TextRead, At("decoding")
                PROVE  stripped = WithoutComments(TrimSpace(file))
    BY DEF CommentsStripped
  <2>1. file \in Seq(Symbols)
    BY FilesAssumption DEF TextRead
  <2>2. TrimSpace(file) \in Seq(Symbols)
    BY <2>1, TrimmedText
  <2>3. StripFrom(TrimSpace(file)) = WithoutComments(TrimSpace(file))
    BY <2>2, StripsComments
  <2>. QED  BY <2>3 DEF TextRead, StripJSONComments
<1>. QED  BY <1>1, <1>2, TextReadKept, PTL DEF Spec

=============================================================================
