------------------------------ MODULE Resolution ------------------------------
(***************************************************************************)
(* StaticRouter.Resolve (internal/router/router.go): a name is turned into *)
(* candidates reference by reference, asking providers without a models    *)
(* list what they offer, while other requests do the same and availability *)
(* changes.                                                                *)
(*                                                                         *)
(* A reference is a pair <<provider, model>>.  An alias is a list of them, *)
(* provider:model is one, and a bare model name is one for each configured *)
(* provider in the order of the names.  Every configured provider has an   *)
(* adapter (buildProviders makes it), so the arms for a missing one are    *)
(* not modelled.                                                           *)
(***************************************************************************)
EXTENDS Integers, Sequences

CONSTANTS
  Requests,
  Models,
  Providers,      \* configured providers, in the order of their names
  Stranger,       \* a provider name that is not configured
  Configured,     \* models of each provider as the router is built with; none:
                  \* to be discovered
  Vision,         \* pairs whose configured modalities include images
  Alias,          \* candidates of the alias
  Strategy,       \* its strategy
  MaxChanges      \* bound: times a window opens or ends

Names == {Providers[i] : i \in 1..Len(Providers)}

Pairs == (Names \cup {Stranger}) \X Models

\* What Config.Validate accepts: an alias has candidates and refers to
\* configured providers.  It may refer to a model that a provider whose models
\* were discovered while the router was built does not offer.
ASSUME ResolutionAssumption ==
  /\ Len(Providers) \in Nat
  /\ Stranger \notin Names
  /\ Configured \in [Names -> SUBSET Models]
  /\ \A k \in Vision : k[1] \in Names /\ k[2] \in Configured[k[1]]
  /\ Alias \in Seq(Names \X Models) \ {<<>>}
  /\ Strategy \in {"first_available", "least_cost_available"}
  /\ MaxChanges \in Nat

VARIABLES
  catalog,        \* cfg.Providers[p].Models: discovered once, then fixed
  closed,         \* pairs in an exhaustion window, as the tracker tells
  changes,        \* openings and endings of windows so far
  pc,             \* where Resolve is
  query,          \* what the request asks for
  pos,            \* the loop variable
  seen,           \* providerCfg.Models, the copy Resolve works on
  skipped,        \* why candidates were skipped (counters above zero)
  list,           \* candidates so far
  code,           \* how Resolve returned
  known,          \* history: the catalog when the request arrived
  always,         \* history: pairs available ever since
  ever            \* history: pairs available at some time since

shared  == <<catalog, closed, changes>>
local   == <<pc, query, pos, seen, skipped, list, code>>
history == <<known, always, ever>>
vars    == <<shared, local, history>>

Direct(m) == [i \in 1..Len(Providers) |-> <<Providers[i], m>>]

\* Modalities are looked at for an alias only.
Queries ==
  [kind : {"alias"}, refs : {Alias}, image : BOOLEAN]
    \cup [kind : {"qualified"}, refs : {<<k>> : k \in Pairs}, image : {FALSE}]
    \cup [kind : {"direct"}, refs : {Direct(m) : m \in Models}, image : {FALSE}]

Ref(r)      == query[r].refs[pos[r]]
Provider(r) == Ref(r)[1]
Listed(r)   == Ref(r)[2] \in seen[r]
IsAlias(r)  == query[r].kind = "alias"

Supports(r) == query[r].image => Ref(r) \in Vision

-----------------------------------------------------------------------------
(***************************************************************************)
(* Pieces the actions are made of.                                         *)
(***************************************************************************)

Goto(r, label) == pc' = [pc EXCEPT ![r] = label]

Return(r, c) ==
  /\ Goto(r, "done")
  /\ code' = [code EXCEPT ![r] = c]
  /\ UNCHANGED <<query, pos, seen>>

\* return nil, &Error{Code: c}
Reject(r, c) ==
  /\ Return(r, c)
  /\ UNCHANGED <<skipped, list>>

\* continue
Skip(r, reasons) ==
  /\ Goto(r, "visiting")
  /\ pos' = [pos EXCEPT ![r] = @ + 1]
  /\ skipped' = [skipped EXCEPT ![r] = @ \cup reasons]
  /\ UNCHANGED <<query, seen, list, code>>

\* The copy of the provider's models is m from here on.
Learn(r, m, label) ==
  /\ Goto(r, label)
  /\ seen' = [seen EXCEPT ![r] = m]
  /\ UNCHANGED <<query, pos, skipped, list, code>>

-----------------------------------------------------------------------------

Init ==
  /\ catalog = Configured
  /\ closed = {}
  /\ changes = 0
  /\ pc = [r \in Requests |-> "idle"]
  /\ query \in [Requests -> Queries]
  /\ pos = [r \in Requests |-> 1]
  /\ seen = [r \in Requests |-> {}]
  /\ skipped = [r \in Requests |-> {}]
  /\ list = [r \in Requests |-> <<>>]
  /\ code = [r \in Requests |-> "none"]
  /\ known = [r \in Requests |-> Configured]
  /\ always = [r \in Requests |-> {}]
  /\ ever = [r \in Requests |-> {}]

\* A mark opens or ends a window of some pair, or the clock ends one.
WindowChanges ==
  /\ changes < MaxChanges
  /\ changes' = changes + 1
  /\ \E k \in Names \X Models :
       closed' = IF k \in closed THEN closed \ {k} ELSE closed \cup {k}
  /\ always' = [r \in Requests |-> always[r] \ closed']
  /\ ever' = [r \in Requests |-> ever[r] \cup (Pairs \ closed')]
  /\ UNCHANGED <<catalog, local, known>>

\* Resolve is called; an alias whose strategy is not first_available ends here.
Resolve(r) ==
  /\ pc[r] = "idle"
  /\ IF IsAlias(r) /\ Strategy # "first_available"
     THEN Reject(r, "no_available_model")
     ELSE Goto(r, "visiting") /\ UNCHANGED <<query, pos, seen, skipped, list, code>>
  /\ known' = [known EXCEPT ![r] = catalog]
  /\ always' = [always EXCEPT ![r] = Pairs \ closed]
  /\ ever' = [ever EXCEPT ![r] = Pairs \ closed]
  /\ UNCHANGED shared

\* The next reference: its provider's models are read under the lock.
Visit(r) ==
  /\ pc[r] = "visiting"
  /\ pos[r] <= Len(query[r].refs)
  /\ IF Provider(r) \notin Names
     THEN Reject(r, "unknown_model")
     ELSE LET models == catalog[Provider(r)]
          IN  Learn(r, models, IF models = {} THEN "refreshing" ELSE "checking")
  /\ UNCHANGED <<shared, history>>

\* refreshProviderModels reads them once more before it asks the provider.
Refresh(r) ==
  /\ pc[r] = "refreshing"
  /\ LET models == catalog[Provider(r)]
     IN  Learn(r, models, IF models = {} THEN "asking" ELSE "checking")
  /\ UNCHANGED <<shared, history>>

\* p.Models(ctx) returns, no lock held.  Any list may come back, none included.
Discover(r) ==
  /\ pc[r] = "asking"
  /\ \E models \in SUBSET Models : Learn(r, models, "storing")
  /\ UNCHANGED <<shared, history>>

\* p.Models(ctx) fails.  Only the loop over direct names looks at the error.
DiscoveryFails(r) ==
  /\ pc[r] = "asking"
  /\ Goto(r, "checking")
  /\ skipped' = IF query[r].kind = "direct"
                THEN [skipped EXCEPT ![r] = @ \cup {"undiscovered"}] ELSE skipped
  /\ UNCHANGED <<query, pos, seen, list, code, shared, history>>

\* Mutant of Store: what another request stored meanwhile is overwritten.
StoreLast(r) ==
  /\ pc[r] = "storing"
  /\ catalog' = [catalog EXCEPT ![Provider(r)] = seen[r]]
  /\ Goto(r, "checking")
  /\ UNCHANGED <<query, pos, seen, skipped, list, code, closed, changes, history>>

\* What another request stored meanwhile wins.
Store(r) ==
  /\ pc[r] = "storing"
  /\ LET stored == catalog[Provider(r)]
         models == IF stored = {} THEN seen[r] ELSE stored
     IN  /\ catalog' = [catalog EXCEPT ![Provider(r)] = models]
         /\ Learn(r, models, "checking")
  /\ UNCHANGED <<closed, changes, history>>

\* The models of the provider do not include the one asked for.
NotListed(r) ==
  /\ pc[r] = "checking"
  /\ ~Listed(r)
  /\ \/ query[r].kind = "direct" /\ Skip(r, {})
     \/ query[r].kind # "direct" /\ seen[r] # {} /\ Reject(r, "unknown_model")
     \/ query[r].kind = "alias" /\ seen[r] = {} /\ Skip(r, {"undiscovered"})
     \/ query[r].kind = "qualified" /\ seen[r] = {} /\ Reject(r, "no_available_model")
  /\ UNCHANGED <<shared, history>>

Unsupported(r) ==
  /\ pc[r] = "checking"
  /\ Listed(r) /\ ~Supports(r)
  /\ Skip(r, {"unsupported"})
  /\ UNCHANGED <<shared, history>>

\* Mutant of InWindow: a direct name does not look for another provider.
InWindowGivesUp(r) ==
  /\ pc[r] = "checking"
  /\ Listed(r) /\ Supports(r) /\ Ref(r) \in closed
  /\ IF IsAlias(r) THEN Skip(r, {"unavailable"}) ELSE Reject(r, "no_available_model")
  /\ UNCHANGED <<shared, history>>

InWindow(r) ==
  /\ pc[r] = "checking"
  /\ Listed(r) /\ Supports(r) /\ Ref(r) \in closed
  /\ IF query[r].kind = "qualified" THEN Reject(r, "no_available_model")
     ELSE Skip(r, {"unavailable"})
  /\ UNCHANGED <<shared, history>>

\* Mutant of Accept: windows are checked for an alias only.
AcceptDirect(r) ==
  /\ pc[r] = "checking"
  /\ Listed(r) /\ Supports(r) /\ (IsAlias(r) => Ref(r) \notin closed)
  /\ list' = [list EXCEPT ![r] = Append(@, Ref(r))]
  /\ IF IsAlias(r)
     THEN /\ Goto(r, "visiting")
          /\ pos' = [pos EXCEPT ![r] = @ + 1]
          /\ UNCHANGED <<query, seen, skipped, code>>
     ELSE Return(r, "ok") /\ UNCHANGED skipped
  /\ UNCHANGED <<shared, history>>

\* An alias collects every candidate, the others return the first.
Accept(r) ==
  /\ pc[r] = "checking"
  /\ Listed(r) /\ Supports(r) /\ Ref(r) \notin closed
  /\ list' = [list EXCEPT ![r] = Append(@, Ref(r))]
  /\ IF IsAlias(r)
     THEN /\ Goto(r, "visiting")
          /\ pos' = [pos EXCEPT ![r] = @ + 1]
          /\ UNCHANGED <<query, seen, skipped, code>>
     ELSE Return(r, "ok") /\ UNCHANGED skipped
  /\ UNCHANGED <<shared, history>>

\* Mutant of EmptyCode: candidates in a window do not count.
EmptyCodeNoWindow(reasons) ==
  IF "unsupported" \in reasons THEN "unsupported_modality"
  ELSE IF "undiscovered" \in reasons THEN "no_available_model" ELSE "unknown_model"

\* The code when no candidate is left.
EmptyCode(reasons) ==
  IF "unsupported" \in reasons THEN "unsupported_modality"
  ELSE IF reasons # {} THEN "no_available_model" ELSE "unknown_model"

\* The loop is over.
Finish(r) ==
  /\ pc[r] = "visiting"
  /\ pos[r] > Len(query[r].refs)
  /\ Reject(r, IF list[r] # <<>> THEN "ok" ELSE EmptyCode(skipped[r]))
  /\ UNCHANGED <<shared, history>>

-----------------------------------------------------------------------------

Step(r) ==
  \/ Resolve(r) \/ Visit(r)
  \/ Refresh(r) \/ Discover(r) \/ DiscoveryFails(r) \/ Store(r)
  \/ NotListed(r) \/ Unsupported(r) \/ InWindow(r) \/ Accept(r)
  \/ Finish(r)

Next == WindowChanges \/ \E r \in Requests : Step(r)

Spec == Init /\ [][Next]_vars

-----------------------------------------------------------------------------

Codes   == {"none", "ok", "unknown_model", "no_available_model", "unsupported_modality"}
Reasons == {"undiscovered", "unsupported", "unavailable"}

\* Type invariant; Resolve never reads past the end of the references.
TypeOK ==
  /\ catalog \in [Names -> SUBSET Models]
  /\ closed \subseteq Names \X Models
  /\ changes \in 0..MaxChanges
  /\ pc \in [Requests -> {"idle", "visiting", "refreshing", "asking", "storing",
                          "checking", "done"}]
  /\ query \in [Requests -> Queries]
  /\ pos \in [Requests -> Nat \ {0}]
  /\ seen \in [Requests -> SUBSET Models]
  /\ skipped \in [Requests -> SUBSET Reasons]
  /\ list \in [Requests -> Seq(Names \X Models)]
  /\ code \in [Requests -> Codes]
  /\ known \in [Requests -> [Names -> SUBSET Models]]
  /\ {always, ever} \subseteq [Requests -> SUBSET Pairs]
  /\ \A r \in Requests :
       pc[r] \in {"refreshing", "asking", "storing", "checking"} =>
         pos[r] <= Len(query[r].refs) /\ Provider(r) \in Names

Suits(r, k) == query[r].kind = "alias" /\ query[r].image => k \in Vision

\* The reference could have been used at any time since the request arrived.
Eligible(r, k) ==
  /\ k[1] \in Names /\ k[2] \in known[r][k[1]]
  /\ k \in always[r]
  /\ Suits(r, k)

Refs(r) == {query[r].refs[i] : i \in 1..Len(query[r].refs)}
Picked(r) == {list[r][i] : i \in 1..Len(list[r])}

\* Whatever changes meanwhile, a candidate is one the request asked for, which
\* its provider lists, which takes images if the alias is asked for them, and
\* which was out of every window at some time during the resolution; candidates
\* come in the order of preference.
CandidatesUsable ==
  \A r \in Requests : code[r] = "ok" =>
    /\ list[r] # <<>>
    /\ \A k \in Picked(r) : /\ k \in Refs(r) /\ k[2] \in catalog[k[1]]
                            /\ Suits(r, k) /\ k \in ever[r]
    /\ \A i, j \in 1..Len(list[r]) : i < j =>
         \E a, b \in 1..Len(query[r].refs) :
           a < b /\ query[r].refs[a] = list[r][i] /\ query[r].refs[b] = list[r][j]

\* A reference that could have been used all the time is not passed over: an
\* alias lists it, the others return it or one before it.  The one exception is
\* an alias with a reference to a model its provider turns out not to have:
\* it is rejected as a whole.
NoneOverlooked ==
  \A r \in Requests : pc[r] = "done" =>
    \A i \in 1..Len(query[r].refs) : Eligible(r, query[r].refs[i]) =>
      \/ code[r] = "ok" /\ IsAlias(r) /\ query[r].refs[i] \in Picked(r)
      \/ code[r] = "ok" /\ ~IsAlias(r) /\ \E j \in 1..i : list[r] = <<query[r].refs[j]>>
      \/ code[r] = "unknown_model" /\ IsAlias(r)

\* The error code tells the client what to do about it.  unknown_model is final
\* for an alias and for provider:model: some provider has been heard and does
\* not have the model; for a bare name nobody had it when the request arrived.
\* no_available_model is temporary: a reference was in a window, or its provider
\* had not been heard.  unsupported_modality needs a reference without images.
ErrorCodesTell ==
  \A r \in Requests :
    /\ code[r] = "unknown_model" =>
         IF query[r].kind = "direct"
         THEN \A k \in Refs(r) : k[2] \notin known[r][k[1]]
         ELSE \E k \in Refs(r) :
                k[1] \in Names => catalog[k[1]] # {} /\ k[2] \notin catalog[k[1]]
    /\ code[r] = "no_available_model" =>
         \E k \in Refs(r) : k[1] \in Names /\ (k \notin always[r] \/ known[r][k[1]] = {})
    /\ code[r] = "unsupported_modality" =>
         IsAlias(r) /\ query[r].image /\ \E k \in Refs(r) : k \notin Vision

\* What has been discovered stays, although several requests discover the
\* models of one provider at once: a list that was returned is not contradicted
\* later, and unknown_model stays true.
CatalogStable ==
  [][\A p \in Names : catalog[p] # {} => catalog'[p] = catalog[p]]_vars

=============================================================================
