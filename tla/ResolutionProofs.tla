--------------------------- MODULE ResolutionProofs ---------------------------
(***************************************************************************)
(* Resolution, proved for every number of requests, providers, models and  *)
(* window changes, every catalog and every alias.                          *)
(***************************************************************************)
EXTENDS Resolution, TLAPS

-----------------------------------------------------------------------------
(***************************************************************************)
(* The inductive invariant relates, request by request, the references     *)
(* passed so far to what was found out about them, and what the request    *)
(* knows to the catalog and the windows, which others change.              *)
(***************************************************************************)

RefOf(r, i) == query[r].refs[i]
Passed(r)   == {i \in 1..Len(query[r].refs) : i < pos[r]}

\* What was known when the request arrived is still true.
Bracketed(r) ==
  pc[r] # "idle" =>
    /\ \A p \in Names : known[r][p] # {} => catalog[p] = known[r][p]
    /\ always[r] \cap closed = {}
    /\ Pairs \ closed \subseteq ever[r]

\* The copy of the models is the catalog's, unless the provider was not heard.
SeenAgrees(r) ==
  /\ pc[r] \in {"refreshing", "asking", "storing"} => known[r][Provider(r)] = {}
  /\ pc[r] = "asking" => seen[r] = {}
  /\ pc[r] = "checking" =>
       IF seen[r] = {} THEN known[r][Provider(r)] = {} ELSE catalog[Provider(r)] = seen[r]

\* The candidates are references passed, in their order, and usable.
Collected(r) ==
  /\ \A i \in 1..Len(list[r]) :
       /\ list[r][i] \in Refs(r) /\ list[r][i][2] \in catalog[list[r][i][1]]
       /\ Suits(r, list[r][i]) /\ list[r][i] \in ever[r]
       /\ IsAlias(r) => \E a \in Passed(r) : RefOf(r, a) = list[r][i]
  /\ \A i, j \in 1..Len(list[r]) : i < j =>
       \E a, b \in 1..Len(query[r].refs) :
         a < b /\ RefOf(r, a) = list[r][i] /\ RefOf(r, b) = list[r][j]

\* The loop passes over no reference that can be used.
NothingMissed(r) ==
  pc[r] # "done" =>
    /\ code[r] = "none"
    /\ pos[r] - 1 <= Len(query[r].refs)
    /\ pc[r] = "idle" => pos[r] = 1 /\ skipped[r] = {} /\ list[r] = <<>>
    /\ query[r].kind = "qualified" => pos[r] = 1
    /\ ~IsAlias(r) => list[r] = <<>> /\ \A i \in Passed(r) : ~Eligible(r, RefOf(r, i))
    /\ IsAlias(r) =>
         /\ \A i \in Passed(r) : Eligible(r, RefOf(r, i)) => RefOf(r, i) \in Picked(r)
         /\ pos[r] > 1 => list[r] # <<>> \/ skipped[r] # {}

\* Every reason has a reference behind it, and a bare name without one has met
\* no provider that knew it.
ReasonsHold(r) ==
  /\ "undiscovered" \in skipped[r] =>
       \E k \in Refs(r) : k[1] \in Names /\ known[r][k[1]] = {}
  /\ "unavailable" \in skipped[r] => \E k \in Refs(r) : k[1] \in Names /\ k \notin always[r]
  /\ "unsupported" \in skipped[r] =>
       IsAlias(r) /\ query[r].image /\ \E k \in Refs(r) : k \notin Vision
  /\ pc[r] # "done" /\ query[r].kind = "direct" /\ "unavailable" \notin skipped[r] =>
       \A i \in Passed(r) : RefOf(r, i)[2] \notin known[r][RefOf(r, i)[1]]

\* What an answer promises: the parts of NoneOverlooked and ErrorCodesTell about r.
Kept(r) ==
  pc[r] = "done" =>
    \A i \in 1..Len(query[r].refs) : Eligible(r, RefOf(r, i)) =>
      \/ code[r] = "ok" /\ IsAlias(r) /\ RefOf(r, i) \in Picked(r)
      \/ code[r] = "ok" /\ ~IsAlias(r) /\ \E j \in 1..i : list[r] = <<RefOf(r, j)>>
      \/ code[r] = "unknown_model" /\ IsAlias(r)

Told(r) ==
  /\ code[r] = "ok" => list[r] # <<>>
  /\ code[r] = "unknown_model" =>
       IF query[r].kind = "direct"
       THEN \A k \in Refs(r) : k[2] \notin known[r][k[1]]
       ELSE \E k \in Refs(r) :
              k[1] \in Names => catalog[k[1]] # {} /\ k[2] \notin catalog[k[1]]
  /\ code[r] = "no_available_model" =>
       \E k \in Refs(r) : k[1] \in Names /\ (k \notin always[r] \/ known[r][k[1]] = {})
  /\ code[r] = "unsupported_modality" =>
       IsAlias(r) /\ query[r].image /\ \E k \in Refs(r) : k \notin Vision

Local(r) ==
  /\ Bracketed(r) /\ SeenAgrees(r)
  /\ Collected(r) /\ NothingMissed(r) /\ ReasonsHold(r)
  /\ Kept(r) /\ Told(r)

IInv == TypeOK /\ \A r \in Requests : Local(r)

-----------------------------------------------------------------------------
(***************************************************************************)
(* Lemmas about queries, and the frame: what the others may do.            *)
(***************************************************************************)

\* What each kind of query refers to.
LEMMA RefsAreTyped ==
  ASSUME NEW q \in Queries
  PROVE  /\ q.kind \in {"alias", "qualified", "direct"} /\ q.image \in BOOLEAN
         /\ q.refs \in Seq(Pairs)
         /\ q.kind # "qualified" => \A i \in 1..Len(q.refs) : q.refs[i] \in Names \X Models
         /\ q.kind = "alias" => Len(q.refs) > 0
         /\ q.kind # "alias" => q.image = FALSE
         /\ q.kind = "qualified" => Len(q.refs) = 1
<1>1. CASE q.kind = "alias"
  <2>1. q.refs = Alias /\ q.image \in BOOLEAN
    BY <1>1 DEF Queries
  <2>2. Alias \in Seq(Names \X Models) /\ Alias # <<>>
    BY ResolutionAssumption
  <2>3. Alias \in Seq(Pairs) /\ Len(Alias) > 0
    BY <2>2 DEF Pairs
  <2>4. \A i \in 1..Len(Alias) : Alias[i] \in Names \X Models
    BY <2>2
  <2>. QED  BY <1>1, <2>1, <2>3, <2>4
<1>2. CASE q.kind = "qualified"
  <2>1. PICK k \in Pairs : q.refs = <<k>>
    BY <1>2 DEF Queries
  <2>2. q.image = FALSE
    BY <1>2 DEF Queries
  <2>3. <<k>> \in Seq(Pairs) /\ Len(<<k>>) = 1
    OBVIOUS
  <2>. QED  BY <1>2, <2>1, <2>2, <2>3
<1>3. CASE q.kind = "direct"
  <2>1. PICK m \in Models : q.refs = Direct(m)
    BY <1>3 DEF Queries
  <2>2. q.image = FALSE
    BY <1>3 DEF Queries
  <2>3. \A i \in 1..Len(Providers) : Direct(m)[i] \in Names \X Models
    BY DEF Direct, Names
  <2>4. Direct(m) \in Seq(Names \X Models) /\ Len(Direct(m)) = Len(Providers)
    BY <2>3, ResolutionAssumption DEF Direct
  <2>5. Direct(m) \in Seq(Pairs)
    BY <2>4 DEF Pairs
  <2>. QED  BY <1>3, <2>1, <2>2, <2>3, <2>4, <2>5
<1>. QED  BY <1>1, <1>2, <1>3 DEF Queries

\* The reference a request is at.
LEMMA RefIsTyped ==
  ASSUME TypeOK, NEW r \in Requests, pc[r] \in {"refreshing", "asking", "storing", "checking"}
  PROVE  /\ pos[r] \in 1..Len(query[r].refs)
         /\ Ref(r) \in Names \X Models /\ Ref(r) \in Refs(r)
         /\ Provider(r) \in Names /\ seen[r] \in SUBSET Models
<1>1. query[r] \in Queries /\ pos[r] \in Nat \ {0} /\ seen[r] \in SUBSET Models
  BY DEF TypeOK
<1>2. pos[r] <= Len(query[r].refs) /\ Provider(r) \in Names
  BY DEF TypeOK
<1>3. query[r].refs \in Seq(Pairs)
  BY <1>1, RefsAreTyped
<1>4. Ref(r) \in Pairs
  BY <1>1, <1>2, <1>3 DEF Ref
<1>5. Ref(r) \in Names \X Models
  BY <1>2, <1>4 DEF Pairs, Provider
<1>6. pos[r] \in 1..Len(query[r].refs)
  BY <1>1, <1>2, <1>3
<1>7. Ref(r) \in Refs(r)
  BY <1>6 DEF Ref, Refs
<1>. QED  BY <1>1, <1>2, <1>5, <1>6, <1>7

\* Candidates collected stay what they are while the catalog grows.
LEMMA CollectedKeeps ==
  ASSUME TypeOK, NEW r \in Requests, Collected(r),
         list'[r] = list[r], query'[r] = query[r],
         \A p \in Names : catalog[p] # {} => catalog'[p] = catalog[p],
         ever[r] \subseteq ever'[r],
         Passed(r) \subseteq Passed(r)'
  PROVE  Collected(r)'
<1>. DEFINE Ordered(l, q) ==
       \A i, j \in 1..Len(l) : i < j =>
         \E b, c \in 1..Len(q.refs) : b < c /\ q.refs[b] = l[i] /\ q.refs[c] = l[j]
<1>1. \A i \in 1..Len(list[r]) : list[r][i] \in Names \X Models
  BY DEF TypeOK
<1>2. \A i \in 1..Len(list[r]) :
        /\ list[r][i] \in Refs(r) /\ list[r][i][2] \in catalog'[list[r][i][1]]
        /\ Suits(r, list[r][i]) /\ list[r][i] \in ever'[r]
        /\ IsAlias(r) => \E a \in Passed(r)' : RefOf(r, a) = list[r][i]
  BY <1>1 DEF Collected
<1>3. Ordered(list[r], query[r])
  BY DEF Collected, RefOf
<1>4. /\ IsAlias(r)' = IsAlias(r) /\ Refs(r)' = Refs(r)
      /\ \A i : RefOf(r, i)' = RefOf(r, i)
  BY DEF IsAlias, Refs, RefOf
<1>5. \A i \in 1..Len(list'[r]) :
        /\ list'[r][i] \in Refs(r)' /\ list'[r][i][2] \in catalog'[list'[r][i][1]]
        /\ list'[r][i] \in ever'[r]
        /\ query'[r].kind = "alias" /\ query'[r].image => list'[r][i] \in Vision
        /\ IsAlias(r)' => \E a \in Passed(r)' : RefOf(r, a)' = list'[r][i]
  BY <1>2, <1>4 DEF Suits
<1>6. Ordered(list'[r], query'[r])
  <2>1. list'[r] = list[r] /\ query'[r] = query[r]
    OBVIOUS
  <2>. HIDE DEF Ordered
  <2>. QED  BY <1>3, <2>1
<1>. QED  BY <1>5, <1>6 DEF Collected, Suits, RefOf

\* A request keeps its part of the invariant while the others discover models,
\* and while windows open and end.
LEMMA OthersKeep ==
  ASSUME TypeOK, NEW r \in Requests, Local(r),
         /\ pc'[r] = pc[r] /\ query'[r] = query[r] /\ pos'[r] = pos[r]
         /\ seen'[r] = seen[r] /\ skipped'[r] = skipped[r]
         /\ list'[r] = list[r] /\ code'[r] = code[r] /\ known'[r] = known[r],
         \A p \in Names : catalog[p] # {} => catalog'[p] = catalog[p],
         always'[r] \subseteq always[r], ever[r] \subseteq ever'[r],
         pc[r] # "idle" => always'[r] \cap closed' = {} /\ Pairs \ closed' \subseteq ever'[r]
  PROVE  Local(r)'
<1>1. /\ Provider(r)' = Provider(r) /\ IsAlias(r)' = IsAlias(r) /\ Refs(r)' = Refs(r)
      /\ Passed(r)' = Passed(r) /\ Picked(r)' = Picked(r)
      /\ \A i : RefOf(r, i)' = RefOf(r, i)
      /\ \A k : Suits(r, k)' = Suits(r, k)
      /\ \A k : Eligible(r, k)' => Eligible(r, k)
  BY DEF Provider, Ref, IsAlias, Refs, Passed, Picked, RefOf, Suits, Eligible
<1>2. Bracketed(r)'
  BY DEF Local, Bracketed
<1>3. SeenAgrees(r)'
  <2>1. pc[r] = "checking" => Provider(r) \in Names
    BY DEF TypeOK
  <2>. QED  BY <1>1, <2>1 DEF Local, SeenAgrees
<1>4. Collected(r)'
  BY <1>1, CollectedKeeps DEF Local
<1>5. NothingMissed(r)'
  BY <1>1 DEF Local, NothingMissed
<1>6. ReasonsHold(r)'
  BY <1>1 DEF Local, ReasonsHold
<1>7. Kept(r)'
  BY <1>1 DEF Local, Kept
<1>8. Told(r)'
  BY <1>1 DEF Local, Told
<1>. QED  BY <1>2, <1>3, <1>4, <1>5, <1>6, <1>7, <1>8 DEF Local

\* The same for the steps of another request.
LEMMA StepFrame ==
  ASSUME IInv, NEW r \in Requests, Step(r), TypeOK', Local(r)'
  PROVE  IInv'
<1>1. ASSUME NEW p \in Names, catalog[p] # {} PROVE catalog'[p] = catalog[p]
  <2>1. CASE Store(r)
    <3>1. pc[r] = "storing" /\ Provider(r) \in Names /\ catalog \in [Names -> SUBSET Models]
      BY <2>1 DEF Store, IInv, TypeOK
    <3>. QED  BY <1>1, <2>1, <3>1 DEF Store
  <2>2. CASE ~Store(r)
    BY <2>2 DEF Step, shared, Resolve, Visit, Refresh, Discover, DiscoveryFails,
                NotListed, Unsupported, InWindow, Accept, Finish
  <2>. QED  BY <2>1, <2>2
<1>2. ASSUME NEW q \in Requests \ {r}
      PROVE  /\ pc'[q] = pc[q] /\ query'[q] = query[q] /\ pos'[q] = pos[q]
             /\ seen'[q] = seen[q] /\ skipped'[q] = skipped[q]
             /\ list'[q] = list[q] /\ code'[q] = code[q] /\ known'[q] = known[q]
             /\ always'[q] = always[q] /\ ever'[q] = ever[q]
  <2>1. /\ pc \in [Requests -> {"idle", "visiting", "refreshing", "asking", "storing",
                               "checking", "done"}]
        /\ DOMAIN pos = Requests /\ DOMAIN seen = Requests /\ DOMAIN skipped = Requests
        /\ DOMAIN list = Requests /\ DOMAIN code = Requests /\ DOMAIN known = Requests
        /\ DOMAIN always = Requests /\ DOMAIN ever = Requests
    BY DEF IInv, TypeOK
  <2>. USE <2>1 DEF history, Goto, Return, Reject, Skip, Learn
  <2>2. CASE Resolve(r)
    BY <2>2 DEF Resolve
  <2>3. CASE Visit(r)
    BY <2>3 DEF Visit
  <2>4. CASE Refresh(r)
    BY <2>4 DEF Refresh
  <2>5. CASE Discover(r) \/ DiscoveryFails(r) \/ Store(r)
    BY <2>5 DEF Discover, DiscoveryFails, Store
  <2>6. CASE NotListed(r)
    BY <2>6 DEF NotListed
  <2>7. CASE Unsupported(r) \/ InWindow(r)
    BY <2>7 DEF Unsupported, InWindow
  <2>8. CASE Accept(r) \/ Finish(r)
    BY <2>8 DEF Accept, Finish
  <2>. QED  BY <2>2, <2>3, <2>4, <2>5, <2>6, <2>7, <2>8 DEF Step
<1>3. closed' = closed
  BY DEF Step, shared, Resolve, Visit, Refresh, Discover, DiscoveryFails,
         Store, NotListed, Unsupported, InWindow, Accept, Finish
<1>4. ASSUME NEW q \in Requests \ {r} PROVE Local(q)'
  <2>1. Local(q) /\ TypeOK
    BY DEF IInv
  <2>2. pc[q] # "idle" => always'[q] \cap closed' = {} /\ Pairs \ closed' \subseteq ever'[q]
    BY <1>2, <1>3, <2>1 DEF Local, Bracketed
  <2>. QED  BY <1>1, <1>2, <2>1, <2>2, OthersKeep
<1>. QED  BY <1>4 DEF IInv

-----------------------------------------------------------------------------
(***************************************************************************)
(* The pieces of the actions.                                              *)
(***************************************************************************)

\* Going on with what the catalog holds, or a provider has just said.
LEMMA LearnKeeps ==
  ASSUME IInv, NEW r \in Requests, NEW m, NEW label,
         pc[r] \notin {"idle", "done"}, label \notin {"idle", "done"},
         Learn(r, m, label),
         \A p \in Names : catalog[p] # {} => catalog'[p] = catalog[p],
         UNCHANGED <<closed, history>>, SeenAgrees(r)'
  PROVE  Local(r)'
<1>. USE DEF IInv
<1>1. /\ pc'[r] = label /\ UNCHANGED <<query, pos, skipped, list, code>>
  BY DEF Learn, Goto, TypeOK
<1>2. /\ Local(r) /\ TypeOK /\ list[r] \in Seq(Names \X Models)
      /\ UNCHANGED <<known, always, ever, closed>>
  BY DEF TypeOK, history
<1>3. Bracketed(r)'
  BY <1>1, <1>2 DEF Local, Bracketed
<1>4. Collected(r)'
  <2>1. Passed(r)' = Passed(r)
    BY <1>1 DEF Passed
  <2>. QED  BY <1>1, <1>2, <2>1, CollectedKeeps DEF Local
<1>5. NothingMissed(r)'
  <2>1. Passed(r)' = Passed(r) /\ Picked(r)' = Picked(r) /\ IsAlias(r)' = IsAlias(r)
    BY <1>1 DEF Passed, Picked, IsAlias
  <2>2. \A i : RefOf(r, i)' = RefOf(r, i)
    BY <1>1 DEF RefOf
  <2>3. \A k : Eligible(r, k)' = Eligible(r, k)
    BY <1>1, <1>2 DEF Eligible, Suits
  <2>4. NothingMissed(r)
    BY <1>2 DEF Local
  <2>5. skipped[r] \subseteq skipped'[r]
    BY <1>1
  <2>. QED  BY <1>1, <2>1, <2>2, <2>3, <2>4, <2>5 DEF NothingMissed
<1>6. ReasonsHold(r)'
  BY <1>1, <1>2 DEF Local, ReasonsHold, IsAlias, Passed, RefOf, Refs
<1>7. Kept(r)'
  BY <1>1 DEF Kept
<1>8. Told(r)'
  BY <1>1, <1>2 DEF Local, Told, NothingMissed
<1>. QED  BY <1>3, <1>4, <1>5, <1>6, <1>7, <1>8 DEF Local

\* Passing over a reference that cannot be used, for the reasons given.
LEMMA SkipKeeps ==
  ASSUME IInv, NEW r \in Requests, NEW reasons \in SUBSET Reasons,
         pc[r] = "checking", Skip(r, reasons), UNCHANGED <<shared, history>>,
         ~Eligible(r, Ref(r)),
         query[r].kind # "qualified",
         IsAlias(r) => reasons # {},
         "undiscovered" \in reasons => known[r][Provider(r)] = {},
         "unavailable" \in reasons => Ref(r) \notin always[r],
         "unsupported" \in reasons => IsAlias(r) /\ query[r].image /\ Ref(r) \notin Vision,
         query[r].kind = "direct" /\ "unavailable" \notin reasons =>
           Ref(r)[2] \notin known[r][Provider(r)]
  PROVE  Local(r)'
<1>. USE DEF IInv
<1>1. /\ pc'[r] = "visiting" /\ pos'[r] = pos[r] + 1 /\ skipped'[r] = skipped[r] \cup reasons
      /\ UNCHANGED <<query, seen, list, code, catalog, closed, known, always, ever>>
  BY DEF Skip, Goto, TypeOK, shared, history
<1>2. /\ Local(r) /\ pos[r] \in 1..Len(query[r].refs) /\ Ref(r) \in Refs(r)
      /\ Provider(r) \in Names
  BY RefIsTyped DEF TypeOK
<1>3. query[r].refs \in Seq(Pairs)
  BY RefsAreTyped DEF TypeOK
<1>4. /\ Passed(r)' = Passed(r) \cup {pos[r]} /\ RefOf(r, pos[r]) = Ref(r)
  BY <1>1, <1>2, <1>3 DEF Passed, RefOf, Ref
<1>5. /\ Refs(r)' = Refs(r) /\ IsAlias(r)' = IsAlias(r) /\ Picked(r)' = Picked(r)
      /\ \A i : RefOf(r, i)' = RefOf(r, i)
      /\ \A k : Eligible(r, k)' = Eligible(r, k)
  BY <1>1 DEF Refs, IsAlias, Picked, RefOf, Eligible, Suits
<1>6. Bracketed(r)' /\ SeenAgrees(r)' /\ Kept(r)'
  BY <1>1, <1>2 DEF Local, Bracketed, SeenAgrees, Kept
<1>7. Collected(r)'
  BY <1>1, <1>2, <1>4, CollectedKeeps DEF Local
<1>8. NothingMissed(r)'
  <2>1. pos'[r] - 1 <= Len(query'[r].refs) /\ code'[r] = "none"
    BY <1>1, <1>2, <1>3 DEF Local, NothingMissed
  <2>2. ~IsAlias(r) => list[r] = <<>> /\ \A i \in Passed(r)' : ~Eligible(r, RefOf(r, i))
    BY <1>2, <1>4 DEF Local, NothingMissed
  <2>3. IsAlias(r) => \A i \in Passed(r)' : Eligible(r, RefOf(r, i)) => RefOf(r, i) \in Picked(r)
    BY <1>2, <1>4 DEF Local, NothingMissed
  <2>4. IsAlias(r) => skipped'[r] # {}
    BY <1>1
  <2>. QED  BY <1>1, <1>5, <2>1, <2>2, <2>3, <2>4 DEF NothingMissed
<1>9. ReasonsHold(r)'
  <2>1. Ref(r)[1] = Provider(r)
    BY DEF Provider
  <2>2. "undiscovered" \in skipped'[r] => \E k \in Refs(r) : k[1] \in Names /\ known[r][k[1]] = {}
    BY <1>1, <1>2, <2>1 DEF Local, ReasonsHold
  <2>3. "unavailable" \in skipped'[r] => \E k \in Refs(r) : k[1] \in Names /\ k \notin always[r]
    BY <1>1, <1>2, <2>1 DEF Local, ReasonsHold
  <2>4. "unsupported" \in skipped'[r] =>
          IsAlias(r) /\ query[r].image /\ \E k \in Refs(r) : k \notin Vision
    BY <1>1, <1>2 DEF Local, ReasonsHold
  <2>5. query[r].kind = "direct" /\ "unavailable" \notin skipped'[r] =>
          \A i \in Passed(r)' : RefOf(r, i)[2] \notin known[r][RefOf(r, i)[1]]
    BY <1>1, <1>2, <1>4, <2>1 DEF Local, ReasonsHold
  <2>. QED  BY <1>1, <1>5, <2>2, <2>3, <2>4, <2>5 DEF ReasonsHold
<1>10. Told(r)'
  BY <1>1, <1>2 DEF Local, Told, NothingMissed
<1>. QED  BY <1>6, <1>7, <1>8, <1>9, <1>10 DEF Local

\* Returning an error, or the list collected so far.
LEMMA RejectKeeps ==
  ASSUME IInv, NEW r \in Requests, NEW c, Reject(r, c), UNCHANGED shared,
         UNCHANGED history, pc[r] # "idle", Kept(r)', Told(r)'
  PROVE  Local(r)'
<1>. USE DEF IInv
<1>1. /\ pc'[r] = "done"
      /\ UNCHANGED <<query, pos, seen, skipped, list, catalog, closed, known, always, ever>>
  BY DEF Reject, Return, Goto, TypeOK, shared, history
<1>2. Local(r)
  OBVIOUS
<1>3. Bracketed(r)' /\ SeenAgrees(r)' /\ NothingMissed(r)'
  BY <1>1, <1>2 DEF Local, Bracketed, SeenAgrees, NothingMissed
<1>4. Collected(r)'
  <2>1. Passed(r)' = Passed(r)
    BY <1>1 DEF Passed
  <2>. QED  BY <1>1, <1>2, <2>1, CollectedKeeps DEF Local
<1>5. ReasonsHold(r)'
  BY <1>1, <1>2 DEF Local, ReasonsHold, Refs, IsAlias
<1>. QED  BY <1>3, <1>4, <1>5 DEF Local

\* What the catalog does not have now, it did not have at the arrival.
LEMMA NotKnown ==
  ASSUME IInv, NEW r \in Requests, pc[r] = "checking", ~Listed(r)
  PROVE  /\ Ref(r)[2] \notin known[r][Provider(r)]
         /\ ~Eligible(r, Ref(r))
<1>1. Provider(r) \in Names /\ Ref(r)[1] = Provider(r) /\ Bracketed(r) /\ SeenAgrees(r)
  BY RefIsTyped DEF IInv, Local, Provider
<1>2. Ref(r)[2] \notin known[r][Provider(r)]
  BY <1>1 DEF Bracketed, SeenAgrees, Listed
<1>. QED  BY <1>1, <1>2 DEF Eligible

\* provider:model is one reference.
LEMMA QualifiedIsOne ==
  ASSUME IInv, NEW r \in Requests, query[r].kind = "qualified", pc[r] # "done"
  PROVE  /\ Len(query[r].refs) = 1 /\ RefOf(r, 1) = Ref(r)
         /\ ~IsAlias(r) /\ Ref(r) \in Refs(r) /\ Ref(r) \in Pairs
<1>1. query[r].refs \in Seq(Pairs) /\ Len(query[r].refs) = 1
  BY RefsAreTyped DEF IInv, TypeOK
<1>2. pos[r] = 1
  BY DEF IInv, Local, NothingMissed
<1>. QED  BY <1>1, <1>2 DEF RefOf, Ref, Refs, IsAlias

\* An error for a reference that cannot be used does not overlook it.
LEMMA KeptByReject ==
  ASSUME IInv, NEW r \in Requests, pc[r] \in {"visiting", "checking"},
         NEW c \in {"unknown_model", "no_available_model"}, Reject(r, c), UNCHANGED history,
         IF query[r].kind = "qualified" THEN ~Eligible(r, Ref(r))
         ELSE IsAlias(r) /\ c = "unknown_model"
  PROVE  Kept(r)'
<1>1. code'[r] = c /\ query' = query /\ always' = always /\ known' = known
  BY DEF Reject, Return, history, IInv, TypeOK
<1>2. CASE query[r].kind = "qualified"
  <2>1. Len(query[r].refs) = 1 /\ ~Eligible(r, RefOf(r, 1))
    BY <1>2, QualifiedIsOne
  <2>2. \A i \in 1..Len(query[r].refs) : ~Eligible(r, RefOf(r, i))
    BY <2>1
  <2>. QED  BY <1>1, <2>2 DEF Kept, Eligible, Suits, RefOf
<1>3. CASE query[r].kind # "qualified"
  BY <1>1, <1>3 DEF Kept, IsAlias
<1>. QED  BY <1>2, <1>3

-----------------------------------------------------------------------------
(***************************************************************************)
(* The actions.                                                            *)
(***************************************************************************)

\* The first step of Resolve keeps what is known of its request.
LEMMA ResolveKeeps ==
  ASSUME IInv, Strategy = "first_available", NEW r \in Requests, Resolve(r)
  PROVE  Local(r)'
<1>1. /\ pc[r] = "idle" /\ pc'[r] = "visiting"
      /\ known'[r] = catalog /\ always'[r] = Pairs \ closed /\ ever'[r] = Pairs \ closed
      /\ query'[r] = query[r] /\ pos'[r] = pos[r] /\ skipped'[r] = skipped[r]
      /\ list'[r] = list[r] /\ code'[r] = code[r] /\ catalog' = catalog /\ closed' = closed
  BY DEF Resolve, Goto, IInv, TypeOK, shared
<1>2. pos[r] = 1 /\ skipped[r] = {} /\ list[r] = <<>> /\ code[r] = "none"
  BY <1>1 DEF IInv, Local, NothingMissed
<1>3. query[r].refs \in Seq(Pairs)
  BY RefsAreTyped DEF IInv, TypeOK
<1>4. Passed(r)' = {} /\ Len(list'[r]) = 0
  BY <1>1, <1>2, <1>3 DEF Passed
<1>5. Bracketed(r)' /\ SeenAgrees(r)' /\ Collected(r)' /\ Kept(r)' /\ Told(r)'
  BY <1>1, <1>2, <1>4 DEF Bracketed, SeenAgrees, Collected, Kept, Told
<1>6. NothingMissed(r)' /\ ReasonsHold(r)'
  BY <1>1, <1>2, <1>3, <1>4 DEF NothingMissed, ReasonsHold, IsAlias
<1>. QED  BY <1>5, <1>6 DEF Local

\* Going on to a reference keeps it.
LEMMA VisitKeeps ==
  ASSUME IInv, NEW r \in Requests, Visit(r)
  PROVE  Local(r)'
<1>. USE DEF IInv
<1>1. /\ pc[r] = "visiting" /\ pos[r] <= Len(query[r].refs)
      /\ UNCHANGED <<shared, history>> /\ catalog' = catalog /\ closed' = closed /\ known' = known
  BY DEF Visit, shared, history
<1>2. query[r].refs \in Seq(Pairs) /\ pos[r] \in 1..Len(query[r].refs)
  <2>1. query[r] \in Queries /\ pos[r] \in Nat \ {0}
    BY DEF TypeOK
  <2>2. query[r].refs \in Seq(Pairs)
    BY <2>1, RefsAreTyped
  <2>. QED  BY <1>1, <2>1, <2>2
<1>3. CASE Provider(r) \notin Names
  <2>1. Reject(r, "unknown_model")
    BY <1>3 DEF Visit
  <2>2. query[r].kind = "qualified"
    BY <1>2, <1>3, RefsAreTyped DEF TypeOK, Provider, Ref
  <2>3. ~Eligible(r, Ref(r))
    BY <1>3 DEF Eligible, Provider
  <2>4. Kept(r)'
    BY <1>1, <2>1, <2>2, <2>3, KeptByReject
  <2>5. Told(r)'
    <3>1. code'[r] = "unknown_model" /\ query' = query
      BY <2>1 DEF Reject, Return, TypeOK
    <3>2. Ref(r) \in Refs(r) /\ Ref(r)[1] \notin Names
      BY <1>1, <1>3, <2>2, QualifiedIsOne DEF Provider
    <3>. QED  BY <2>2, <3>1, <3>2 DEF Told, Refs
  <2>. QED  BY <1>1, <2>1, <2>4, <2>5, RejectKeeps
<1>4. CASE Provider(r) \in Names
  <2> DEFINE models == catalog[Provider(r)]
             label  == IF models = {} THEN "refreshing" ELSE "checking"
  <2>1. Learn(r, models, label)
    BY <1>4 DEF Visit
  <2>2. pc'[r] = label /\ seen'[r] = models /\ Provider(r)' = Provider(r)
    BY <2>1 DEF Learn, Goto, TypeOK, Provider, Ref
  <2>3. models = {} => known[r][Provider(r)] = {}
    BY <1>1, <1>4 DEF Local, Bracketed
  <2>4. SeenAgrees(r)'
    BY <1>1, <2>2, <2>3 DEF SeenAgrees
  <2>. HIDE DEF models
  <2>5. label \notin {"idle", "done"}
    OBVIOUS
  <2>. QED  BY <1>1, <2>1, <2>4, <2>5, LearnKeeps
<1>. QED  BY <1>3, <1>4

\* A discovery, from the request to the stored list, keeps it.
LEMMA RefreshKeeps ==
  ASSUME IInv, NEW r \in Requests, Refresh(r) \/ Discover(r) \/ Store(r)
  PROVE  Local(r)'
<1>. USE DEF IInv
<1>1. /\ Provider(r) \in Names /\ pc[r] \notin {"idle", "done"}
      /\ known[r][Provider(r)] = {} /\ UNCHANGED <<closed, history>> /\ known' = known
      /\ catalog \in [Names -> SUBSET Models]
  BY DEF Refresh, Discover, Store, Local, SeenAgrees, shared, history, TypeOK
<1>2. CASE Refresh(r)
  <2> DEFINE models == catalog[Provider(r)]
             label  == IF models = {} THEN "asking" ELSE "checking"
  <2>1. Learn(r, models, label) /\ catalog' = catalog
    BY <1>2 DEF Refresh, shared
  <2>2. pc'[r] = label /\ seen'[r] = models /\ Provider(r)' = Provider(r)
    BY <2>1 DEF Learn, Goto, TypeOK, Provider, Ref
  <2>3. SeenAgrees(r)'
    BY <1>1, <2>1, <2>2 DEF SeenAgrees
  <2>. HIDE DEF models
  <2>4. label \notin {"idle", "done"}
    OBVIOUS
  <2>. QED  BY <1>1, <2>1, <2>3, <2>4, LearnKeeps
<1>3. CASE Discover(r)
  <2>1. PICK models \in SUBSET Models : Learn(r, models, "storing")
    BY <1>3 DEF Discover
  <2>2. pc'[r] = "storing" /\ Provider(r)' = Provider(r) /\ catalog' = catalog
    BY <1>3, <2>1 DEF Discover, Learn, Goto, TypeOK, Provider, Ref, shared
  <2>3. SeenAgrees(r)'
    BY <1>1, <2>2 DEF SeenAgrees
  <2>. QED  BY <1>1, <2>1, <2>2, <2>3, LearnKeeps
<1>4. CASE Store(r)
  <2> DEFINE stored == catalog[Provider(r)]
             models == IF stored = {} THEN seen[r] ELSE stored
  <2>1. Learn(r, models, "checking") /\ catalog' = [catalog EXCEPT ![Provider(r)] = models]
    BY <1>4 DEF Store
  <2>2. pc'[r] = "checking" /\ seen'[r] = models /\ Provider(r)' = Provider(r)
    BY <2>1 DEF Learn, Goto, TypeOK, Provider, Ref
  <2>3. SeenAgrees(r)'
    BY <1>1, <2>1, <2>2 DEF SeenAgrees
  <2>4. \A p \in Names : catalog[p] # {} => catalog'[p] = catalog[p]
    BY <1>1, <2>1
  <2>. HIDE DEF models
  <2>. QED  BY <1>1, <2>1, <2>3, <2>4, LearnKeeps
<1>. QED  BY <1>2, <1>3, <1>4

\* A discovery that fails keeps it.
LEMMA DiscoveryFailsKeeps ==
  ASSUME IInv, NEW r \in Requests, DiscoveryFails(r)
  PROVE  Local(r)'
<1>. USE DEF IInv
<1>1. /\ pc[r] = "asking" /\ pc'[r] = "checking"
      /\ skipped'[r] = IF query[r].kind = "direct"
                       THEN skipped[r] \cup {"undiscovered"} ELSE skipped[r]
      /\ UNCHANGED <<query, pos, seen, list, code, catalog, closed, known, always, ever>>
  BY DEF DiscoveryFails, Goto, TypeOK, shared, history
<1>2. /\ Local(r) /\ Ref(r) \in Refs(r) /\ Ref(r)[1] = Provider(r) /\ Provider(r) \in Names
      /\ known[r][Provider(r)] = {} /\ seen[r] = {}
  BY <1>1, RefIsTyped DEF Local, SeenAgrees, Provider
<1>3. Bracketed(r)' /\ SeenAgrees(r)' /\ Kept(r)'
  BY <1>1, <1>2 DEF Local, Bracketed, SeenAgrees, Kept, Provider, Ref
<1>4. Collected(r)'
  <2>1. Passed(r)' = Passed(r)
    BY <1>1 DEF Passed
  <2>. QED  BY <1>1, <1>2, <2>1, CollectedKeeps DEF Local
<1>5. NothingMissed(r)'
  <2>1. Passed(r)' = Passed(r) /\ Picked(r)' = Picked(r) /\ IsAlias(r)' = IsAlias(r)
    BY <1>1 DEF Passed, Picked, IsAlias
  <2>2. \A i : RefOf(r, i)' = RefOf(r, i)
    BY <1>1 DEF RefOf
  <2>3. \A k : Eligible(r, k)' = Eligible(r, k)
    BY <1>1, <1>2 DEF Eligible, Suits
  <2>4. NothingMissed(r)
    BY <1>2 DEF Local
  <2>5. skipped[r] \subseteq skipped'[r]
    BY <1>1
  <2>. QED  BY <1>1, <2>1, <2>2, <2>3, <2>4, <2>5 DEF NothingMissed
<1>6. ReasonsHold(r)'
  BY <1>1, <1>2, SMTT(40) DEF Local, ReasonsHold, IsAlias, Passed, RefOf, Refs
<1>7. Told(r)'
  BY <1>1, <1>2 DEF Local, Told, NothingMissed
<1>. QED  BY <1>3, <1>4, <1>5, <1>6, <1>7 DEF Local

\* A reference to a model that is not listed keeps it.
LEMMA NotListedKeeps ==
  ASSUME IInv, NEW r \in Requests, NotListed(r)
  PROVE  Local(r)'
<1>. USE DEF IInv
<1>1. pc[r] = "checking" /\ ~Listed(r) /\ UNCHANGED <<shared, history>>
  BY DEF NotListed
<1>2. /\ ~Eligible(r, Ref(r)) /\ Ref(r)[2] \notin known[r][Provider(r)]
      /\ Ref(r) \in Refs(r) /\ Ref(r)[1] = Provider(r) /\ Provider(r) \in Names
      /\ seen[r] = {} => known[r][Provider(r)] = {}
      /\ seen[r] # {} => catalog[Provider(r)] = seen[r]
  BY <1>1, NotKnown, RefIsTyped DEF Local, SeenAgrees, Provider
<1>3. query[r].kind \in {"alias", "qualified", "direct"}
  BY RefsAreTyped DEF TypeOK
<1>4. CASE query[r].kind = "direct"
  <2>1. Skip(r, {})
    BY <1>4 DEF NotListed
  <2>. QED  BY <1>1, <1>2, <1>4, <2>1, SkipKeeps DEF IsAlias
<1>5. CASE query[r].kind # "direct" /\ seen[r] # {}
  <2>1. Reject(r, "unknown_model")
    BY <1>5 DEF NotListed
  <2>2. Kept(r)'
    BY <1>1, <1>2, <1>3, <1>5, <2>1, KeptByReject DEF IsAlias
  <2>3. code'[r] = "unknown_model" /\ query' = query /\ catalog' = catalog
    BY <1>1, <2>1 DEF Reject, Return, TypeOK, shared
  <2>4. catalog[Ref(r)[1]] # {} /\ Ref(r)[2] \notin catalog[Ref(r)[1]]
    BY <1>1, <1>2, <1>5 DEF Listed
  <2>5. Told(r)'
    BY <1>2, <1>5, <2>3, <2>4 DEF Told, Refs
  <2>. QED  BY <1>1, <2>1, <2>2, <2>5, RejectKeeps
<1>6. CASE query[r].kind = "alias" /\ seen[r] = {}
  <2>1. Skip(r, {"undiscovered"})
    BY <1>6 DEF NotListed, IsAlias
  <2>2. {"undiscovered"} \in SUBSET Reasons
    BY DEF Reasons
  <2>. QED  BY <1>1, <1>2, <1>6, <2>1, <2>2, SkipKeeps
<1>7. CASE query[r].kind = "qualified" /\ seen[r] = {}
  <2>1. Reject(r, "no_available_model")
    BY <1>7 DEF NotListed, IsAlias
  <2>2. Kept(r)'
    BY <1>1, <1>2, <1>7, <2>1, KeptByReject
  <2>3. code'[r] = "no_available_model" /\ query' = query /\ known' = known /\ always' = always
    BY <1>1, <2>1 DEF Reject, Return, TypeOK, history
  <2>4. Told(r)'
    BY <1>2, <1>7, <2>3 DEF Told, Refs
  <2>. QED  BY <1>1, <2>1, <2>2, <2>4, RejectKeeps
<1>. QED  BY <1>3, <1>4, <1>5, <1>6, <1>7

\* A model without the modality asked for keeps it.
LEMMA UnsupportedKeeps ==
  ASSUME IInv, NEW r \in Requests, Unsupported(r)
  PROVE  Local(r)'
<1>1. /\ pc[r] = "checking" /\ UNCHANGED <<shared, history>> /\ Skip(r, {"unsupported"})
      /\ query[r].image /\ Ref(r) \notin Vision
  BY DEF Unsupported, Supports
<1>2. query[r].kind = "alias" /\ {"unsupported"} \in SUBSET Reasons
  BY <1>1, RefsAreTyped DEF IInv, TypeOK, Reasons
<1>3. ~Eligible(r, Ref(r))
  BY <1>1, <1>2 DEF Eligible, Suits
<1>. QED  BY <1>1, <1>2, <1>3, SkipKeeps DEF IsAlias

\* A candidate passed over for its window keeps it.
LEMMA InWindowKeeps ==
  ASSUME IInv, NEW r \in Requests, InWindow(r)
  PROVE  Local(r)'
<1>. USE DEF IInv
<1>1. pc[r] = "checking" /\ UNCHANGED <<shared, history>> /\ Ref(r) \in closed
  BY DEF InWindow
<1>2. /\ Ref(r) \notin always[r] /\ ~Eligible(r, Ref(r))
      /\ Ref(r) \in Refs(r) /\ Ref(r)[1] \in Names
  BY <1>1, RefIsTyped DEF Local, Bracketed, Eligible, Provider
<1>3. CASE query[r].kind # "qualified"
  <2>1. Skip(r, {"unavailable"}) /\ {"unavailable"} \in SUBSET Reasons
    BY <1>3 DEF InWindow, Reasons
  <2>. QED  BY <1>1, <1>2, <1>3, <2>1, SkipKeeps
<1>4. CASE query[r].kind = "qualified"
  <2>1. Reject(r, "no_available_model")
    BY <1>4 DEF InWindow
  <2>2. Kept(r)'
    BY <1>1, <1>2, <1>4, <2>1, KeptByReject
  <2>3. code'[r] = "no_available_model" /\ query' = query /\ known' = known /\ always' = always
    BY <1>1, <2>1 DEF Reject, Return, TypeOK, history
  <2>4. Told(r)'
    BY <1>2, <1>4, <2>3 DEF Told, Refs
  <2>. QED  BY <1>1, <2>1, <2>2, <2>4, RejectKeeps
<1>. QED  BY <1>3, <1>4

\* What Append does to a list.
LEMMA AppendOne ==
  ASSUME NEW S, NEW l \in Seq(S), NEW k
  PROVE  /\ Len(Append(l, k)) = Len(l) + 1 /\ Append(l, k)[Len(l) + 1] = k
         /\ \A i \in 1..Len(l) : Append(l, k)[i] = l[i]
         /\ Append(l, k) # <<>>
         /\ l = <<>> => Append(l, k) = <<k>>
<1>1. /\ Len(Append(l, k)) = Len(l) + 1 /\ Append(l, k)[Len(l) + 1] = k
      /\ \A i \in 1..Len(l) : Append(l, k)[i] = l[i]
  OBVIOUS
<1>2. Append(l, k) # <<>>
  BY <1>1
<1>3. l = <<>> => Append(l, k) = <<k>>
  OBVIOUS
<1>. QED  BY <1>1, <1>2, <1>3

\* A candidate that joins the list keeps it.
LEMMA AcceptKeeps ==
  ASSUME IInv, NEW r \in Requests, Accept(r)
  PROVE  Local(r)'
<1>. USE DEF IInv
<1>1. /\ pc[r] = "checking" /\ Listed(r) /\ Supports(r) /\ Ref(r) \notin closed
      /\ list'[r] = Append(list[r], Ref(r))
      /\ query' = query /\ seen' = seen /\ skipped' = skipped
      /\ UNCHANGED <<catalog, closed, known, always, ever>>
  BY DEF Accept, Return, TypeOK, shared, history
<1>2. /\ Local(r) /\ pos[r] \in 1..Len(query[r].refs) /\ Ref(r) \in Refs(r)
      /\ Ref(r) \in Names \X Models /\ Ref(r)[1] = Provider(r) /\ RefOf(r, pos[r]) = Ref(r)
      /\ query[r].refs \in Seq(Pairs) /\ list[r] \in Seq(Names \X Models)
  BY <1>1, RefIsTyped, RefsAreTyped DEF TypeOK, Provider, RefOf, Ref
<1>3. /\ Ref(r)[2] \in catalog[Ref(r)[1]] /\ Ref(r) \in ever[r]
      /\ query[r].image => Ref(r) \in Vision
  <2>1. Ref(r) \in Pairs
    BY <1>2 DEF Pairs
  <2>. QED  BY <1>1, <1>2, <2>1 DEF Local, SeenAgrees, Bracketed, Listed, Supports
<1>4. /\ Len(list'[r]) = Len(list[r]) + 1 /\ list'[r][Len(list[r]) + 1] = Ref(r)
      /\ \A i \in 1..Len(list[r]) : list'[r][i] = list[r][i]
      /\ list'[r] # <<>>
      /\ list[r] = <<>> => list'[r] = <<Ref(r)>>
      /\ Len(list[r]) \in Nat
  BY <1>1, <1>2, AppendOne
<1>5. /\ Refs(r)' = Refs(r) /\ IsAlias(r)' = IsAlias(r)
      /\ \A i : RefOf(r, i)' = RefOf(r, i)
      /\ \A k : Eligible(r, k)' = Eligible(r, k)
  BY <1>1 DEF Refs, IsAlias, RefOf, Eligible, Suits
<1>6. ASSUME NEW i \in 1..Len(list'[r]) PROVE i \in 1..Len(list[r]) \/ i = Len(list[r]) + 1
  BY <1>4
<1>7. ASSUME NEW i \in 1..Len(list'[r])
      PROVE  /\ list'[r][i] \in Refs(r) /\ list'[r][i][2] \in catalog[list'[r][i][1]]
             /\ list'[r][i] \in ever[r]
             /\ query[r].kind = "alias" /\ query[r].image => list'[r][i] \in Vision
  BY <1>2, <1>3, <1>4, <1>6, ZenonT(40) DEF Local, Collected, Suits
<1>8. CASE IsAlias(r)
  <2>1. /\ pc'[r] = "visiting" /\ pos'[r] = pos[r] + 1 /\ code'[r] = code[r]
    BY <1>8 DEF Accept, Goto, TypeOK
  <2>2. Passed(r)' = Passed(r) \cup {pos[r]}
    BY <1>1, <1>2, <2>1 DEF Passed
  <2>3. ASSUME NEW i \in 1..Len(list[r])
        PROVE  \E a \in 1..Len(query[r].refs) : a < pos[r] /\ RefOf(r, a) = list[r][i]
    BY <1>2, <1>8 DEF Local, Collected, Passed
  <2>4. Collected(r)'
    <3>1. ASSUME NEW i \in 1..Len(list'[r])
          PROVE  \E a \in Passed(r)' : RefOf(r, a) = list'[r][i]
      <4>1. CASE i \in 1..Len(list[r])
        <5>1. list'[r][i] = list[r][i]
          BY <1>4, <4>1
        <5>2. \E a \in Passed(r) : RefOf(r, a) = list[r][i]
          BY <1>2, <1>8, <4>1 DEF Local, Collected
        <5>. QED  BY <2>2, <5>1, <5>2
      <4>2. CASE i = Len(list[r]) + 1
        BY <1>2, <1>4, <2>2, <4>2
      <4>. QED  BY <1>6, <4>1, <4>2
    <3>2. ASSUME NEW i \in 1..Len(list'[r]), NEW j \in 1..Len(list'[r]), i < j
          PROVE  \E a, b \in 1..Len(query[r].refs) :
                   a < b /\ RefOf(r, a) = list'[r][i] /\ RefOf(r, b) = list'[r][j]
      <4>1. i \in 1..Len(list[r])
        BY <1>4, <3>2
      <4>2. CASE j \in 1..Len(list[r])
        <5>1. list'[r][i] = list[r][i] /\ list'[r][j] = list[r][j]
          BY <1>4, <4>1, <4>2
        <5>2. \E a, b \in 1..Len(query[r].refs) :
                a < b /\ RefOf(r, a) = list[r][i] /\ RefOf(r, b) = list[r][j]
          BY <1>2, <3>2, <4>1, <4>2 DEF Local, Collected
        <5>. QED  BY <5>1, <5>2
      <4>3. CASE j = Len(list[r]) + 1
        BY <1>2, <1>4, <2>3, <4>1, <4>3, SMTT(40)
      <4>. QED  BY <1>6, <4>2, <4>3
    <3>3. \A i \in 1..Len(list'[r]) :
            /\ list'[r][i] \in Refs(r)' /\ list'[r][i][2] \in catalog'[list'[r][i][1]]
            /\ list'[r][i] \in ever'[r]
            /\ query'[r].kind = "alias" /\ query'[r].image => list'[r][i] \in Vision
            /\ IsAlias(r)' => \E a \in Passed(r)' : RefOf(r, a)' = list'[r][i]
      BY <1>1, <1>5, <1>7, <3>1
    <3>4. \A i, j \in 1..Len(list'[r]) : i < j =>
            \E a, b \in 1..Len(query'[r].refs) :
              a < b /\ RefOf(r, a)' = list'[r][i] /\ RefOf(r, b)' = list'[r][j]
      BY <1>1, <3>2, SMTT(40) DEF RefOf
    <3>. QED  BY <3>3, <3>4 DEF Collected, Suits
  <2>5. NothingMissed(r)'
    <3>1. Picked(r) \subseteq Picked(r)' /\ Ref(r) \in Picked(r)'
      BY <1>4, SMTT(40) DEF Picked
    <3>2. \A i \in Passed(r)' : Eligible(r, RefOf(r, i)) => RefOf(r, i) \in Picked(r)'
      BY <1>1, <1>2, <1>8, <2>2, <3>1 DEF Local, NothingMissed
    <3>3. code[r] = "none" /\ pos[r] - 1 <= Len(query[r].refs)
          /\ query[r].kind # "qualified"
      BY <1>1, <1>2, <1>8 DEF Local, NothingMissed, IsAlias
    <3>. QED  BY <1>1, <1>2, <1>4, <1>5, <1>8, <2>1, <3>2, <3>3 DEF NothingMissed
  <2>6. Bracketed(r)' /\ SeenAgrees(r)' /\ Kept(r)' /\ Told(r)'
    BY <1>1, <1>2, <2>1 DEF Local, Bracketed, SeenAgrees, Kept, Told, NothingMissed
  <2>7. ReasonsHold(r)'
    <3>1. query[r].kind # "direct"
      BY <1>8 DEF IsAlias
    <3>. QED  BY <1>1, <1>2, <1>5, <3>1 DEF Local, ReasonsHold
  <2>. QED  BY <2>4, <2>5, <2>6, <2>7 DEF Local
<1>9. CASE ~IsAlias(r)
  <2>1. pc'[r] = "done" /\ code'[r] = "ok" /\ pos' = pos
    BY <1>9 DEF Accept, Return, Goto, TypeOK
  <2>2. /\ list[r] = <<>> /\ list'[r] = <<Ref(r)>>
        /\ \A i \in Passed(r) : ~Eligible(r, RefOf(r, i))
    BY <1>1, <1>2, <1>4, <1>9 DEF Local, NothingMissed
  <2>3. Collected(r)'
    <3>1. Len(list'[r]) = 1
      BY <2>2
    <3>2. \A i \in 1..Len(list'[r]) :
            /\ list'[r][i] \in Refs(r)' /\ list'[r][i][2] \in catalog'[list'[r][i][1]]
            /\ list'[r][i] \in ever'[r]
            /\ query'[r].kind = "alias" /\ query'[r].image => list'[r][i] \in Vision
      BY <1>1, <1>5, <1>7
    <3>3. ~IsAlias(r)' /\ \A i, j \in 1..Len(list'[r]) : ~(i < j)
      BY <1>5, <1>9, <3>1
    <3>. QED  BY <3>2, <3>3 DEF Collected, Suits
  <2>4. Kept(r)'
    <3>1. ASSUME NEW i \in 1..Len(query[r].refs), Eligible(r, RefOf(r, i))
          PROVE  \E j \in 1..i : list'[r] = <<RefOf(r, j)>>
      <4>1. ~(i < pos[r])
        BY <2>2, <3>1 DEF Passed
      <4>2. pos[r] \in 1..i
        BY <1>2, <4>1
      <4>. QED  BY <1>2, <2>2, <4>2
    <3>. QED  BY <1>1, <1>5, <1>9, <2>1, <3>1 DEF Kept
  <2>5. Bracketed(r)' /\ SeenAgrees(r)' /\ NothingMissed(r)' /\ Told(r)'
    BY <1>1, <1>2, <1>4, <2>1 DEF Local, Bracketed, SeenAgrees, NothingMissed, Told
  <2>6. ReasonsHold(r)'
    BY <1>1, <1>2, <1>5, <2>1 DEF Local, ReasonsHold
  <2>. QED  BY <2>3, <2>4, <2>5, <2>6 DEF Local
<1>. QED  BY <1>8, <1>9

\* The end of Resolve keeps it.
LEMMA FinishKeeps ==
  ASSUME IInv, NEW r \in Requests, Finish(r)
  PROVE  Local(r)'
<1>. USE DEF IInv
<1> DEFINE c == IF list[r] # <<>> THEN "ok" ELSE EmptyCode(skipped[r])
<1>1. /\ pc[r] = "visiting" /\ pos[r] > Len(query[r].refs) /\ Reject(r, c)
      /\ UNCHANGED shared /\ UNCHANGED history
  BY DEF Finish
<1>2. /\ pc'[r] = "done" /\ code'[r] = c
      /\ query' = query /\ list' = list /\ known' = known /\ always' = always /\ catalog' = catalog
  BY <1>1 DEF Reject, Return, Goto, TypeOK, shared, history
<1>3. /\ query[r] \in Queries /\ pos[r] \in Nat \ {0} /\ Local(r)
      /\ skipped[r] \in SUBSET Reasons
  BY DEF TypeOK
<1>4. /\ query[r].refs \in Seq(Pairs) /\ query[r].kind \in {"alias", "qualified", "direct"}
      /\ query[r].kind # "qualified"
      /\ IsAlias(r) => pos[r] > 1
  <2>1. /\ query[r].refs \in Seq(Pairs) /\ query[r].kind \in {"alias", "qualified", "direct"}
        /\ query[r].kind = "qualified" => Len(query[r].refs) = 1
        /\ IsAlias(r) => Len(query[r].refs) > 0
    BY <1>3, RefsAreTyped DEF IsAlias
  <2>2. query[r].kind = "qualified" => pos[r] = 1
    BY <1>1, <1>3 DEF Local, NothingMissed
  <2>. QED  BY <1>1, <1>3, <2>1, <2>2
<1>5. Passed(r) = 1..Len(query[r].refs)
  BY <1>1, <1>3, <1>4 DEF Passed
<1>6. /\ ~IsAlias(r) => list[r] = <<>> /\ \A i \in Passed(r) : ~Eligible(r, RefOf(r, i))
      /\ IsAlias(r) => \A i \in Passed(r) : Eligible(r, RefOf(r, i)) => RefOf(r, i) \in Picked(r)
      /\ IsAlias(r) => list[r] # <<>> \/ skipped[r] # {}
  BY <1>1, <1>3, <1>4 DEF Local, NothingMissed
<1>7. list[r] = <<>> => Picked(r) = {}
  BY DEF Picked
<1>8. Kept(r)'
  <2>1. /\ IsAlias(r)' = IsAlias(r) /\ Picked(r)' = Picked(r)
        /\ \A i : RefOf(r, i)' = RefOf(r, i)
        /\ \A k : Eligible(r, k)' = Eligible(r, k)
    BY <1>2 DEF IsAlias, Picked, RefOf, Eligible, Suits
  <2>. QED  BY <1>2, <1>5, <1>6, <1>7, <2>1 DEF Kept
<1>9. Told(r)'
  <2>1. Refs(r)' = Refs(r) /\ IsAlias(r)' = IsAlias(r)
    BY <1>2 DEF Refs, IsAlias
  <2>2. c = "ok" => list[r] # <<>>
    BY DEF EmptyCode
  <2>3. c = "unknown_model" => list[r] = <<>> /\ skipped[r] = {}
    BY DEF EmptyCode
  <2>4. c = "no_available_model" => "undiscovered" \in skipped[r] \/ "unavailable" \in skipped[r]
    BY <1>3 DEF EmptyCode, Reasons
  <2>5. c = "unsupported_modality" => "unsupported" \in skipped[r]
    BY DEF EmptyCode
  <2>6. c = "unknown_model" =>
          query[r].kind = "direct" /\ \A k \in Refs(r) : k[2] \notin known[r][k[1]]
    <3>. SUFFICES ASSUME c = "unknown_model"
                  PROVE  query[r].kind = "direct" /\ \A k \in Refs(r) : k[2] \notin known[r][k[1]]
      OBVIOUS
    <3>1. query[r].kind = "direct"
      BY <1>4, <1>6, <2>3 DEF IsAlias
    <3>2. \A i \in Passed(r) : RefOf(r, i)[2] \notin known[r][RefOf(r, i)[1]]
      BY <1>1, <1>3, <2>3, <3>1 DEF Local, ReasonsHold
    <3>. QED  BY <1>5, <3>1, <3>2 DEF Refs, RefOf
  <2>7. c = "no_available_model" =>
          \E k \in Refs(r) : k[1] \in Names /\ (k \notin always[r] \/ known[r][k[1]] = {})
    BY <1>3, <2>4 DEF Local, ReasonsHold
  <2>8. c = "unsupported_modality" =>
          IsAlias(r) /\ query[r].image /\ \E k \in Refs(r) : k \notin Vision
    BY <1>3, <2>5 DEF Local, ReasonsHold
  <2>. HIDE DEF c
  <2>. QED  BY <1>2, <2>1, <2>2, <2>6, <2>7, <2>8 DEF Told
<1>. HIDE DEF c
<1>. QED  BY <1>1, <1>8, <1>9, RejectKeeps

-----------------------------------------------------------------------------
(***************************************************************************)
(* Types, and the steps put together.                                      *)
(***************************************************************************)

\* The initial state is well formed.
LEMMA InitTyped ==
  ASSUME Init
  PROVE  TypeOK
  BY ResolutionAssumption DEF Init, TypeOK, Codes, Reasons

\* A step of a request keeps the types.
LEMMA StepTyped ==
  ASSUME TypeOK, NEW r \in Requests, Step(r)
  PROVE  TypeOK'
<1>. USE DEF TypeOK, Codes
<1>1. ASSUME NEW c \in Codes, Reject(r, c), UNCHANGED <<shared, history>> PROVE TypeOK'
  BY <1>1 DEF Reject, Return, Goto, shared, history, Provider, Ref
<1>2. ASSUME NEW reasons \in SUBSET Reasons, Skip(r, reasons), UNCHANGED <<shared, history>>
      PROVE  TypeOK'
  BY <1>2 DEF Skip, Goto, shared, history, Provider, Ref
<1>3. ASSUME NEW models \in SUBSET Models,
             NEW label \in {"refreshing", "asking", "storing", "checking"},
             pos[r] <= Len(query[r].refs), Provider(r) \in Names,
             Learn(r, models, label), catalog' \in [Names -> SUBSET Models],
             UNCHANGED <<closed, changes, history>>
      PROVE  TypeOK'
  BY <1>3 DEF Learn, Goto, history, Provider, Ref
<1>4. CASE Resolve(r)
  <2>1. /\ {always', ever'} \subseteq [Requests -> SUBSET Pairs]
        /\ known' \in [Requests -> [Names -> SUBSET Models]] /\ UNCHANGED shared
        /\ pc[r] = "idle"
    BY <1>4 DEF Resolve, shared
  <2>2. CASE Reject(r, "no_available_model")
    BY <2>1, <2>2 DEF Reject, Return, Goto, shared, Provider, Ref
  <2>3. CASE Goto(r, "visiting") /\ UNCHANGED <<query, pos, seen, skipped, list, code>>
    BY <2>1, <2>3 DEF Goto, shared, Provider, Ref
  <2>. QED  BY <1>4, <2>2, <2>3 DEF Resolve
<1>5. CASE Visit(r)
  <2>1. CASE Provider(r) \notin Names
    BY <1>1, <1>5, <2>1 DEF Visit
  <2>2. CASE Provider(r) \in Names
    <3> DEFINE models == catalog[Provider(r)]
               label  == IF models = {} THEN "refreshing" ELSE "checking"
    <3>1. Learn(r, models, label) /\ pos[r] <= Len(query[r].refs) /\ UNCHANGED <<shared, history>>
      BY <1>5, <2>2 DEF Visit
    <3>2. models \in SUBSET Models
      BY <2>2
    <3>. HIDE DEF models
    <3>3. label \in {"refreshing", "asking", "storing", "checking"}
      OBVIOUS
    <3>. QED  BY <1>3, <2>2, <3>1, <3>2, <3>3 DEF shared
  <2>. QED  BY <2>1, <2>2
<1>6. CASE Refresh(r)
  <2> DEFINE models == catalog[Provider(r)]
             label  == IF models = {} THEN "asking" ELSE "checking"
  <2>1. /\ Learn(r, models, label) /\ UNCHANGED <<shared, history>>
        /\ pos[r] <= Len(query[r].refs) /\ Provider(r) \in Names
    BY <1>6 DEF Refresh
  <2>2. models \in SUBSET Models
    BY <2>1
  <2>. HIDE DEF models
  <2>3. label \in {"refreshing", "asking", "storing", "checking"}
    OBVIOUS
  <2>. QED  BY <1>3, <2>1, <2>2, <2>3 DEF shared
<1>7. CASE Discover(r)
  BY <1>3, <1>7 DEF Discover, shared
<1>8. CASE DiscoveryFails(r)
  BY <1>8 DEF DiscoveryFails, Goto, shared, history, Provider, Ref, Reasons
<1>9. CASE Store(r)
  <2> DEFINE stored == catalog[Provider(r)]
             models == IF stored = {} THEN seen[r] ELSE stored
  <2>1. /\ Learn(r, models, "checking") /\ catalog' = [catalog EXCEPT ![Provider(r)] = models]
        /\ UNCHANGED <<closed, changes, history>>
        /\ pos[r] <= Len(query[r].refs) /\ Provider(r) \in Names
    BY <1>9 DEF Store
  <2>2. models \in SUBSET Models
    BY <2>1
  <2>. HIDE DEF models
  <2>3. catalog' \in [Names -> SUBSET Models]
    BY <2>1, <2>2
  <2>. QED  BY <1>3, <2>1, <2>2, <2>3
<1>10. CASE NotListed(r)
  BY <1>1, <1>2, <1>10 DEF NotListed, Reasons
<1>11. CASE Unsupported(r) \/ InWindow(r)
  BY <1>1, <1>2, <1>11 DEF Unsupported, InWindow, Reasons
<1>12. CASE Accept(r)
  <2>1. Ref(r) \in Names \X Models
    BY <1>12, RefIsTyped DEF Accept
  <2>2. list' \in [Requests -> Seq(Names \X Models)]
    BY <1>12, <2>1 DEF Accept
  <2>3. UNCHANGED <<query, seen, skipped, shared, history>>
    BY <1>12 DEF Accept, Return
  <2>4. CASE IsAlias(r)
    <3>1. Goto(r, "visiting") /\ pos' = [pos EXCEPT ![r] = @ + 1] /\ code' = code
      BY <1>12, <2>4 DEF Accept
    <3>. QED  BY <2>2, <2>3, <3>1 DEF Goto, shared, history, Provider, Ref
  <2>5. CASE ~IsAlias(r)
    <3>1. Goto(r, "done") /\ pos' = pos /\ code' = [code EXCEPT ![r] = "ok"]
      BY <1>12, <2>5 DEF Accept, Return
    <3>. QED  BY <2>2, <2>3, <3>1 DEF Goto, shared, history, Provider, Ref
  <2>. QED  BY <2>4, <2>5
<1>13. CASE Finish(r)
  BY <1>1, <1>13 DEF Finish, EmptyCode
<1>. QED  BY <1>4, <1>5, <1>6, <1>7, <1>8, <1>9, <1>10, <1>11, <1>12, <1>13 DEF Step

\* The initial state satisfies the invariant.
LEMMA InitIInv ==
  ASSUME Init
  PROVE  IInv
<1>1. TypeOK
  BY InitTyped
<1>2. ASSUME NEW r \in Requests PROVE Local(r)
  <2>1. /\ pc[r] = "idle" /\ pos[r] = 1 /\ skipped[r] = {} /\ list[r] = <<>> /\ code[r] = "none"
    BY <1>2 DEF Init
  <2>2. query[r].refs \in Seq(Pairs)
    BY <1>1, <1>2, RefsAreTyped DEF TypeOK
  <2>3. Passed(r) = {} /\ Len(list[r]) = 0
    BY <2>1, <2>2 DEF Passed
  <2>4. Bracketed(r) /\ SeenAgrees(r) /\ Collected(r) /\ Kept(r) /\ Told(r)
    BY <2>1, <2>3 DEF Bracketed, SeenAgrees, Collected, Kept, Told
  <2>5. NothingMissed(r) /\ ReasonsHold(r)
    BY <2>1, <2>2, <2>3 DEF NothingMissed, ReasonsHold
  <2>. QED  BY <2>4, <2>5 DEF Local
<1>. QED  BY <1>1, <1>2 DEF IInv

\* Windows may open and end at any time.
LEMMA WindowChangesIInv ==
  ASSUME IInv, WindowChanges
  PROVE  IInv'
<1>. USE DEF IInv
<1>1. /\ UNCHANGED <<catalog, local, known>> /\ changes' = changes + 1 /\ changes < MaxChanges
      /\ always' = [q \in Requests |-> always[q] \ closed']
      /\ ever' = [q \in Requests |-> ever[q] \cup (Pairs \ closed')]
      /\ closed' \subseteq Names \X Models
  BY DEF WindowChanges, TypeOK
<1>2. TypeOK'
  BY <1>1, ResolutionAssumption DEF TypeOK, local, Provider, Ref
<1>3. ASSUME NEW q \in Requests PROVE Local(q)'
  BY <1>1, OthersKeep DEF local
<1>. QED  BY <1>2, <1>3

\* Every step keeps the invariant.
LEMMA NextIInv ==
  ASSUME Strategy = "first_available", IInv, [Next]_vars
  PROVE  IInv'
<1>1. CASE WindowChanges
  BY <1>1, WindowChangesIInv
<1>2. ASSUME NEW r \in Requests, Step(r) PROVE IInv'
  <2>1. TypeOK'
    BY <1>2, StepTyped DEF IInv
  <2>2. Local(r)'
    BY <1>2, ResolveKeeps, VisitKeeps, RefreshKeeps, DiscoveryFailsKeeps, NotListedKeeps,
       UnsupportedKeeps, InWindowKeeps, AcceptKeeps, FinishKeeps DEF Step
  <2>. QED  BY <1>2, <2>1, <2>2, StepFrame
<1>3. CASE UNCHANGED vars
  <2>1. TypeOK'
    BY <1>3 DEF IInv, vars, shared, local, history, TypeOK, Provider, Ref
  <2>2. UNCHANGED <<shared, local, history>> /\ UNCHANGED <<catalog, closed, known, always, ever>>
    BY <1>3 DEF vars, shared, history
  <2>3. ASSUME NEW q \in Requests PROVE Local(q)'
    <3>1. pc[q] # "idle" => always[q] \cap closed = {} /\ Pairs \ closed \subseteq ever[q]
      BY DEF IInv, Local, Bracketed
    <3>. QED  BY <2>2, <3>1, OthersKeep DEF IInv, local
  <2>. QED  BY <2>1, <2>3 DEF IInv
<1>. QED  BY <1>1, <1>2, <1>3 DEF Next

-----------------------------------------------------------------------------

\* Resolve never reads past the references of its request.
THEOREM TypeCorrect == Spec => []TypeOK
<1>1. Init => TypeOK
  BY InitTyped
<1>2. TypeOK /\ [Next]_vars => TypeOK'
  <2>. SUFFICES ASSUME TypeOK, [Next]_vars PROVE TypeOK'
    OBVIOUS
  <2>1. CASE WindowChanges
    BY <2>1, ResolutionAssumption DEF WindowChanges, TypeOK, local, Provider, Ref
  <2>2. CASE UNCHANGED vars
    BY <2>2 DEF vars, shared, local, history, TypeOK, Provider, Ref
  <2>. QED  BY <2>1, <2>2, StepTyped DEF Next
<1>. QED  BY <1>1, <1>2, PTL DEF Spec

\* The inductive invariant, for aliases with the strategy first_available.
THEOREM Invariance ==
  ASSUME Strategy = "first_available"
  PROVE  Spec => []IInv
<1>1. Init => IInv
  BY InitIInv
<1>2. IInv /\ [Next]_vars => IInv'
  BY NextIInv
<1>. QED  BY <1>1, <1>2, PTL DEF Spec

\* Candidates returned are usable and in order: see CandidatesUsable.
THEOREM Usable ==
  ASSUME Strategy = "first_available"
  PROVE  Spec => []CandidatesUsable
<1>1. IInv => CandidatesUsable
  <2>. SUFFICES ASSUME IInv, NEW r \in Requests, code[r] = "ok"
                PROVE  /\ list[r] # <<>>
                       /\ \A k \in Picked(r) : /\ k \in Refs(r) /\ k[2] \in catalog[k[1]]
                                               /\ Suits(r, k) /\ k \in ever[r]
                       /\ \A i, j \in 1..Len(list[r]) : i < j =>
                            \E a, b \in 1..Len(query[r].refs) :
                              a < b /\ query[r].refs[a] = list[r][i] /\ query[r].refs[b] = list[r][j]
    BY DEF CandidatesUsable
  <2>1. Collected(r) /\ Told(r)
    BY DEF IInv, Local
  <2>2. list[r] # <<>>
    BY <2>1 DEF Told
  <2>3. \A k \in Picked(r) : /\ k \in Refs(r) /\ k[2] \in catalog[k[1]]
                           /\ Suits(r, k) /\ k \in ever[r]
    BY <2>1 DEF Collected, Picked
  <2>4. \A i, j \in 1..Len(list[r]) : i < j =>
          \E a, b \in 1..Len(query[r].refs) :
            a < b /\ query[r].refs[a] = list[r][i] /\ query[r].refs[b] = list[r][j]
    BY <2>1 DEF Collected, RefOf
  <2>. QED  BY <2>2, <2>3, <2>4
<1>. QED  BY <1>1, Invariance, PTL

\* No reference usable all the time is passed over: see NoneOverlooked.
THEOREM NoneMissed ==
  ASSUME Strategy = "first_available"
  PROVE  Spec => []NoneOverlooked
<1>1. IInv => NoneOverlooked
  BY DEF IInv, Local, Kept, NoneOverlooked, RefOf
<1>. QED  BY <1>1, Invariance, PTL

\* Error codes tell final from temporary: see ErrorCodesTell.
THEOREM CodesTell ==
  ASSUME Strategy = "first_available"
  PROVE  Spec => []ErrorCodesTell
<1>1. IInv => ErrorCodesTell
  BY DEF IInv, Local, Told, ErrorCodesTell
<1>. QED  BY <1>1, Invariance, PTL

\* Of several discoveries of one provider the first that found something stays.
THEOREM FirstDiscoveryStays == Spec => CatalogStable
<1>1. TypeOK /\ [Next]_vars =>
        [\A p \in Names : catalog[p] # {} => catalog'[p] = catalog[p]]_vars
  <2>. SUFFICES ASSUME TypeOK, [Next]_vars, NEW p \in Names, catalog[p] # {}
                PROVE  catalog'[p] = catalog[p]
    OBVIOUS
  <2>1. ASSUME NEW r \in Requests, Store(r) PROVE catalog'[p] = catalog[p]
    <3>1. Provider(r) \in Names /\ catalog \in [Names -> SUBSET Models]
      BY <2>1 DEF Store, TypeOK
    <3>. QED  BY <2>1, <3>1 DEF Store
  <2>2. ASSUME NEW r \in Requests, Step(r), ~Store(r) PROVE catalog' = catalog
    BY <2>2 DEF Step, shared, Resolve, Visit, Refresh, Discover, DiscoveryFails,
                NotListed, Unsupported, InWindow, Accept, Finish
  <2>3. CASE WindowChanges \/ UNCHANGED vars
    BY <2>3 DEF WindowChanges, vars, shared
  <2>. QED  BY <2>1, <2>2, <2>3 DEF Next
<1>. QED  BY <1>1, TypeCorrect, PTL DEF Spec, CatalogStable

=============================================================================
