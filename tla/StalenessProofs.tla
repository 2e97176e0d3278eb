--------------------------- MODULE StalenessProofs ---------------------------
(***************************************************************************)
(* Two components that keep behind a mutex what may have changed since:    *)
(* the cached token of the token command, and the cursors of the log       *)
(* viewer, which point into a file that others truncate and move.          *)
(***************************************************************************)
EXTENDS TokenCache, LogTail, SequenceTheorems, TLAPS

-----------------------------------------------------------------------------
(***************************************************************************)
(* The token cache: calls share a refresh and are never given a stale      *)
(* token, for any number of calls and any refresh window.                  *)
(***************************************************************************)

\* The cache holds the newest token, unless that came without an expiry.
CacheAgrees ==
  cached = IF runs = 0 \/ issued[runs].expiresAt = NoExpiry
           THEN Empty ELSE Cached(runs, issued[runs].expiresAt)

IssuedBefore == \A t \in 1..runs : issued[t].at <= now

\* A command runs only while no token is outside its refresh window; since only
\* its call can issue one, this stays true until it ends.
RunsForAReason ==
  \A c \in Callers : pc[c] = "running" =>
    \A t \in 1..runs : issued[t].expiresAt <= now + RefreshBefore

IInv ==
  TypeOK /\ CacheAgrees /\ IssuedBefore /\ RunsForAReason /\ RefreshShared /\ NeverStale

USE TokenAssumption

\* The initial state satisfies the invariant.
LEMMA InitIInv == Init => IInv
<1>. SUFFICES ASSUME Init PROVE IInv
  OBVIOUS
<1>1. TypeOK
  BY DEF Init, TypeOK, Empty, Cached, Failed, Result, NoToken, NoExpiry, Instants
<1>2. CacheAgrees /\ IssuedBefore /\ RunsForAReason /\ RefreshShared
  BY DEF Init, CacheAgrees, IssuedBefore, RunsForAReason, RefreshShared
<1>3. NeverStale
  BY DEF Init, NeverStale, Failed, Result, NoToken
<1>. QED  BY <1>1, <1>2, <1>3 DEF IInv

\* Instants are numbers.
LEMMA Numbers ==
  ASSUME TypeOK
  PROVE  /\ now \in Int /\ runs \in Nat /\ RefreshBefore \in Int
         /\ \A t \in 1..runs : issued[t].at \in Int /\ issued[t].expiresAt \in Int
BY SMTT(40) DEF TypeOK, Instants, NoExpiry

\* Nothing about tokens depends on the clock or on where calls are.
LEMMA TokensKept ==
  ASSUME IInv, UNCHANGED <<cached, runs, issued>>, now' = now \/ now' = now + 1,
         \A c \in Callers : pc'[c] = "running" =>
           pc[c] = "running" \/ \A t \in 1..runs : issued[t].expiresAt <= now + RefreshBefore,
         TypeOK', NeverStale'
  PROVE  IInv'
<1>0. TypeOK
  BY DEF IInv
<1>1. /\ now \in Int /\ runs \in Nat /\ RefreshBefore \in Int
      /\ \A t \in 1..runs : issued[t].at \in Int /\ issued[t].expiresAt \in Int
  BY <1>0, Numbers
<1>2. CacheAgrees' /\ RefreshShared'
  BY DEF IInv, CacheAgrees, RefreshShared
<1>3. IssuedBefore'
  BY <1>1 DEF IInv, IssuedBefore
<1>4. RunsForAReason'
  BY <1>1 DEF IInv, RunsForAReason
<1>. QED  BY <1>2, <1>3, <1>4 DEF IInv

\* Every step keeps the invariant.
LEMMA StepIInv == IInv /\ [Next]_vars => IInv'
<1>. SUFFICES ASSUME IInv, [Next]_vars PROVE IInv'
  OBVIOUS
<1>0. TypeOK
  BY DEF IInv
<1>1. ASSUME Tick PROVE IInv'
  <2>1. TypeOK'
    BY <1>0, <1>1, SMTT(40) DEF Tick, TypeOK
  <2>2. NeverStale'
    BY <1>1 DEF Tick, IInv, NeverStale
  <2>. QED  BY <1>1, <2>1, <2>2, TokensKept DEF Tick
<1>2. ASSUME NEW c \in Callers, Leave(c) PROVE IInv'
  <2>1. TypeOK'
    BY <1>0, <1>2 DEF Leave, TypeOK
  <2>2. NeverStale'
    BY <1>2 DEF Leave, IInv, NeverStale
  <2>. QED  BY <1>2, <2>1, <2>2, TokensKept DEF Leave
<1>3. ASSUME NEW c \in Callers, Call(c) PROVE IInv'
  <2>1. TypeOK'
    <3>1. CASE c \in gone
      <4>1. /\ pc' = [pc EXCEPT ![c] = "done"] /\ got' = [got EXCEPT ![c] = Failed]
            /\ holder' = holder /\ pc[c] = "idle"
            /\ UNCHANGED <<now, cached, gone, runs, issued>>
        BY <1>0, <1>3, <3>1 DEF Call, Return, Goto, TypeOK
      <4>2. got' \in [Callers -> [token : 0..runs, at : 0..MaxClock]]
        BY <1>0, <4>1 DEF TypeOK, Failed, Result, NoToken
      <4>. QED  BY <1>0, <4>1, <4>2 DEF TypeOK
    <3>2. CASE c \notin gone
      BY <1>0, <1>3, <3>2 DEF Call, Goto, TypeOK
    <3>. QED  BY <3>1, <3>2
  <2>2. NeverStale'
    <3>1. CASE c \in gone
      <4>1. issued' = issued /\ got' = [got EXCEPT ![c] = Failed]
        BY <1>3, <3>1 DEF Call, Return
      <4>2. got'[c].token = NoToken /\ \A d \in Callers \ {c} : got'[d] = got[d]
        BY <1>0, <4>1 DEF TypeOK, Failed, Result
      <4>. QED  BY <4>1, <4>2 DEF IInv, NeverStale
    <3>2. CASE c \notin gone
      BY <1>3, <3>2 DEF Call, IInv, NeverStale
    <3>. QED  BY <3>1, <3>2
  <2>3. \A d \in Callers : pc'[d] = "running" => pc[d] = "running"
    BY <1>0, <1>3 DEF Call, Return, Goto, TypeOK
  <2>. QED  BY <1>3, <2>1, <2>2, <2>3, TokensKept DEF Call
<1>4. ASSUME NEW c \in Callers, Lock(c) PROVE IInv'
  <2>1. TypeOK'
    BY <1>0, <1>4 DEF Lock, Goto, TypeOK
  <2>2. NeverStale'
    BY <1>4 DEF Lock, IInv, NeverStale
  <2>3. \A d \in Callers : pc'[d] = "running" => pc[d] = "running"
    BY <1>0, <1>4 DEF Lock, Goto, TypeOK
  <2>. QED  BY <1>4, <2>1, <2>2, <2>3, TokensKept DEF Lock
<1>5. ASSUME NEW c \in Callers, UseCached(c) PROVE IInv'
  <2>1. TypeOK'
    BY <1>0, <1>5 DEF UseCached, Return, Goto, TypeOK, Result
  <2>2. /\ runs # 0 /\ cached.token = runs /\ issued[runs].expiresAt = cached.expiresAt
        /\ issued[runs].expiresAt > now + RefreshBefore
    BY <1>5 DEF UseCached, Usable, IInv, CacheAgrees, Empty, Cached
  <2>3. NeverStale'
    <3>. SUFFICES ASSUME NEW d \in Callers, got'[d].token # NoToken
                  PROVE  /\ issued[got'[d].token].expiresAt # NoExpiry =>
                              issued[got'[d].token].expiresAt > got'[d].at
                         /\ issued[got'[d].token].by # d =>
                              issued[got'[d].token].expiresAt > got'[d].at + RefreshBefore
      BY <1>5 DEF NeverStale, UseCached
    <3>1. CASE d = c
      <4>1. got'[d] = Result(cached.token, now)
        BY <1>0, <1>5, <3>1 DEF UseCached, Return, TypeOK
      <4>2. now \in Nat /\ runs \in Nat /\ issued[runs].expiresAt \in Int
        BY <1>0, <2>2 DEF TypeOK, Instants, NoExpiry
      <4>. QED  BY <4>1, <4>2, <2>2 DEF Result
    <3>2. CASE d # c
      BY <1>0, <1>5, <3>2 DEF UseCached, Return, TypeOK, IInv, NeverStale
    <3>. QED  BY <3>1, <3>2
  <2>4. \A d \in Callers : pc'[d] = "running" => pc[d] = "running"
    BY <1>0, <1>5 DEF UseCached, Return, Goto, TypeOK
  <2>. QED  BY <1>5, <2>1, <2>3, <2>4, TokensKept DEF UseCached
<1>6. ASSUME NEW c \in Callers, RunCommand(c) PROVE IInv'
  <2>1. TypeOK'
    BY <1>0, <1>6 DEF RunCommand, Goto, TypeOK
  <2>2. NeverStale'
    BY <1>6 DEF RunCommand, IInv, NeverStale
  <2>3. ASSUME NEW t \in 1..runs PROVE issued[t].expiresAt <= now + RefreshBefore
    <3>1. /\ now \in Nat /\ runs \in Nat /\ issued[t].expiresAt \in Int
          /\ issued[runs].at \in Int /\ issued[runs].at <= now
      BY <1>0, <2>3, SMTT(40) DEF TypeOK, Instants, NoExpiry, IInv, IssuedBefore
    <3>2. CASE t = runs
      BY <1>6, <3>1, <3>2 DEF RunCommand, Usable, IInv, CacheAgrees, Empty, Cached, NoToken,
                              NoExpiry
    <3>3. CASE t # runs
      <4>1. issued[t].expiresAt <= issued[runs].at + RefreshBefore
        BY <3>1, <3>3 DEF IInv, RefreshShared
      <4>. QED  BY <3>1, <4>1
    <3>. QED  BY <3>2, <3>3
  <2>. QED  BY <1>6, <2>1, <2>2, <2>3, TokensKept DEF RunCommand
<1>7. ASSUME NEW c \in Callers, CommandFails(c) PROVE IInv'
  <2>1. TypeOK'
    BY <1>0, <1>7, SMTT(40) DEF CommandFails, Return, Goto, TypeOK, Failed, Result, NoToken
  <2>2. NeverStale'
    BY <1>0, <1>7 DEF CommandFails, Return, TypeOK, Failed, Result, IInv, NeverStale
  <2>3. \A d \in Callers : pc'[d] = "running" => pc[d] = "running"
    BY <1>0, <1>7 DEF CommandFails, Return, Goto, TypeOK
  <2>. QED  BY <1>7, <2>1, <2>2, <2>3, TokensKept DEF CommandFails
<1>8. ASSUME NEW c \in Callers, CommandSucceeds(c) PROVE IInv'
  <2>1. PICK e \in {NoExpiry} \cup {x \in Instants : x > now} :
          /\ issued' = [t \in 1..runs' |-> IF t = runs' THEN Issue(c, e) ELSE issued[t]]
          /\ cached' = IF e = NoExpiry THEN Empty ELSE Cached(runs', e)
    BY <1>8 DEF CommandSucceeds
  <2>2. /\ runs \in Nat /\ runs' = runs + 1 /\ now' = now /\ now \in 0..MaxClock
        /\ e \in {NoExpiry} \cup Instants /\ e \in Int /\ NoExpiry = -1
        /\ got' = [got EXCEPT ![c] = Result(runs', now)]
    BY <1>0, <1>8, <2>1 DEF CommandSucceeds, Return, TypeOK, Instants, NoExpiry
  <2>3. /\ issued'[runs'] = Issue(c, e)
        /\ \A t \in 1..runs : issued'[t] = issued[t] /\ t # runs'
    BY <2>1, <2>2
  <2>4. /\ \A d \in Callers : pc'[d] # "running"
        /\ holder' = Nobody /\ pc'[c] = "done"
        /\ pc' \in [Callers -> {"idle", "waiting", "checking", "running", "done"}]
        /\ \A d \in Callers : holder' = d <=> pc'[d] \in {"checking", "running"}
    BY <1>0, <1>8 DEF CommandSucceeds, Return, Goto, TypeOK
  <2>5. TypeOK'
    <3>1. issued' \in [1..runs' -> [by : Callers, at : 0..MaxClock,
                                    expiresAt : {NoExpiry} \cup Instants]]
      BY <1>0, <2>1, <2>2, SMTT(40) DEF TypeOK, Issue
    <3>2. cached' \in [token : 0..runs', expiresAt : {NoExpiry} \cup Instants]
      BY <2>1, <2>2 DEF Empty, Cached, NoToken
    <3>3. got' \in [Callers -> [token : 0..runs', at : 0..MaxClock]]
      BY <1>0, <2>2 DEF TypeOK, Result
    <3>4. gone' = gone /\ now' \in 0..MaxClock /\ runs' \in Nat
      BY <1>8, <2>2 DEF CommandSucceeds
    <3>. QED  BY <1>0, <2>4, <3>1, <3>2, <3>3, <3>4 DEF TypeOK
  <2>6. CacheAgrees'
    BY <2>1, <2>2, <2>3 DEF CacheAgrees, Issue
  <2>7. IssuedBefore'
    BY <2>2, <2>3 DEF IInv, IssuedBefore, Issue
  <2>8. RunsForAReason'
    BY <2>4 DEF RunsForAReason
  <2>9. RefreshShared'
    <3>. SUFFICES ASSUME NEW t \in 1..runs', NEW u \in 1..runs', t < u
                  PROVE  issued'[t].expiresAt <= issued'[u].at + RefreshBefore
      BY DEF RefreshShared
    <3>1. t \in 1..runs
      BY <2>2
    <3>2. CASE u = runs'
      <4>1. issued[t].expiresAt <= now + RefreshBefore
        BY <1>8, <3>1 DEF CommandSucceeds, IInv, RunsForAReason
      <4>. QED  BY <2>3, <3>1, <3>2, <4>1 DEF Issue
    <3>3. CASE u # runs'
      <4>1. u \in 1..runs
        BY <2>2, <3>3
      <4>. QED  BY <2>3, <3>1, <4>1 DEF IInv, RefreshShared
    <3>. QED  BY <3>2, <3>3
  <2>10. NeverStale'
    <3>. SUFFICES ASSUME NEW d \in Callers, got'[d].token # NoToken
                  PROVE  /\ issued'[got'[d].token].expiresAt # NoExpiry =>
                              issued'[got'[d].token].expiresAt > got'[d].at
                         /\ issued'[got'[d].token].by # d =>
                              issued'[got'[d].token].expiresAt > got'[d].at + RefreshBefore
      BY DEF NeverStale
    <3>1. CASE d = c
      <4>1. got'[d] = Result(runs', now)
        BY <1>0, <2>2, <3>1 DEF TypeOK
      <4>. QED  BY <2>1, <2>2, <2>3, <3>1, <4>1 DEF Result, Issue
    <3>2. CASE d # c
      <4>1. got'[d] = got[d] /\ got[d].token \in 1..runs
        BY <1>0, <2>2, <3>2 DEF TypeOK, NoToken
      <4>. QED  BY <2>3, <4>1 DEF IInv, NeverStale
    <3>. QED  BY <3>1, <3>2
  <2>. QED  BY <2>5, <2>6, <2>7, <2>8, <2>9, <2>10 DEF IInv
<1>9. CASE UNCHANGED vars
  <2>1. TypeOK'
    BY <1>0, <1>9 DEF vars, TypeOK
  <2>2. NeverStale'
    BY <1>9 DEF vars, IInv, NeverStale
  <2>. QED  BY <1>9, <2>1, <2>2, TokensKept DEF vars
<1>. QED  BY <1>1, <1>2, <1>3, <1>4, <1>5, <1>6, <1>7, <1>8, <1>9 DEF Next, Step

\* The steps of GetToken, and the end of its command, keep the invariant.
THEOREM Invariance == Spec => []IInv
<1>. QED  BY InitIInv, StepIInv, PTL DEF Spec

\* The mutex is held by the one call that looks at the cache or runs the command.
THEOREM TypeCorrect == Spec => []TypeOK
<1>1. IInv => TypeOK
  BY DEF IInv
<1>. QED  BY Invariance, <1>1, PTL

\* No token is issued while an earlier one is outside its refresh window.
THEOREM OneRefresh == Spec => []RefreshShared
<1>1. IInv => RefreshShared
  BY DEF IInv
<1>. QED  BY Invariance, <1>1, PTL

\* No call is given an expired token, nor another call's token inside its window.
THEOREM TokensFresh == Spec => []NeverStale
<1>1. IInv => NeverStale
  BY DEF IInv
<1>. QED  BY Invariance, <1>1, PTL

-----------------------------------------------------------------------------
(***************************************************************************)
(* The log viewer: a page shows the beginning of one content of the file,  *)
(* and starts over only for a reason, for any number of pages and inodes.  *)
(***************************************************************************)

USE LogAssumption

\* A content once gone from the path never returns: whatever is found there
\* later has a number of its own.
AtPath(content) == path # NoFile /\ disk[path].content = content

DiskOK ==
  /\ path # NoFile => disk[path].content # 0
  /\ \A i \in Inodes :
       /\ disk[i].torn => disk[i].lines < MaxLines /\ disk[i].content # 0
       /\ disk[i].lines > 0 => disk[i].content # 0
  /\ \A i, j \in Inodes : disk[i].content = disk[j].content /\ disk[i].content # 0 => i = j

\* What a cursor k says of its content.  As long as that content is at the path,
\* the reader that issued k has seen nothing else there.
Known(k) ==
  /\ k.offset = 0 => k.fingerprint = NoFingerprint
  /\ k.offset # 0 =>
       /\ k.fingerprint[2] = k.offset /\ k.fingerprint[1] # 0
       /\ \A i \in Inodes : disk[i].content = k.fingerprint[1] => k.offset <= disk[i].lines
       /\ k.id = id /\ AtPath(k.fingerprint[1]) => observed = path /\ gen = k.gen

\* Behind the check of the fingerprint.
Past == {"reading", "statting", "closing"}

\* What a request knows of the page it serves and of the file it has open.
RequestOK(b) ==
  /\ req[b].pc \in {"asked"} \cup Reading =>
       req[b].after = IF req[b].fresh THEN NoCursor ELSE cursor[b]
  /\ req[b].pc = "asked" => ~req[b].overtaken /\ req[b].lines = <<>>
  /\ req[b].pc \in Reading => observed = req[b].fd /\ disk[req[b].fd].content # 0
  /\ req[b].pc = "checking" =>
       /\ ~req[b].reset /\ ~req[b].fresh /\ req[b].lines = <<>>
       /\ req[b].offset = req[b].after.offset /\ req[b].offset # 0
  /\ req[b].pc \in Past /\ ~req[b].overtaken => req[b].offset <= disk[req[b].fd].lines
  /\ req[b].pc \in Reading /\ req[b].overtaken =>
       cursor[b].fingerprint[1] < disk[req[b].fd].content

\* What the page will show in front of the lines it is sent.
Again(b) == req[b].fresh \/ req[b].reset
Front(b) == IF Again(b) THEN <<>> ELSE shown[b]

\* The lines of a request follow those in front of them in one content.
LinesFit(b) ==
  (b \notin raced \/ Again(b)) /\ ~req[b].overtaken =>
    /\ req[b].pc \in Past =>
         Front(b) \o req[b].lines = Beginning(disk[req[b].fd].content, req[b].offset)
    /\ req[b].pc = "answered" =>
         Front(b) \o req[b].lines = Beginning(req[b].next.fingerprint[1], req[b].next.offset)

\* A page and its cursor agree.
CursorFits(b) ==
  b \notin raced => shown[b] = Beginning(cursor[b].fingerprint[1], cursor[b].offset)

\* A page is told to start over only if its content is gone.
ResetJustified(b) ==
  (/\ b \notin raced /\ req[b].pc \in Reading \cup {"answered"}
   /\ req[b].reset /\ ~req[b].fresh /\ cursor[b].offset # 0 /\ cursor[b].id = id)
  => ~AtPath(cursor[b].fingerprint[1])

PageOK(b) ==
  /\ Known(cursor[b]) /\ Known(req[b].next)
  /\ RequestOK(b) /\ LinesFit(b) /\ CursorFits(b) /\ ResetJustified(b)

LogIInv == LogTypeOK /\ DiskOK /\ \A b \in Pages : PageOK(b)

RequestRecords ==
  [pc : {"idle", "asked", "answered"} \cup Reading, after : Cursors,
   fresh : BOOLEAN, fd : Inodes \cup {NoFile}, reset : BOOLEAN,
   offset : Nat, lines : SomeLines, next : Cursors, overtaken : BOOLEAN]

\* A content begins with nothing.
LEMMA BeginningEmpty == \A c : Beginning(c, 0) = <<>>
<1>. TAKE c
<1>1. 1..0 = {}
  OBVIOUS
<1>2. Beginning(c, 0) = [i \in {} |-> <<c, i>>]
  BY <1>1 DEF Beginning
<1>. QED  BY <1>2

\* The beginning of a content, and the line behind it.
LEMMA BeginningGrows ==
  ASSUME NEW c, NEW n \in Nat
  PROVE  /\ Beginning(c, n) \in Seq({c} \X Nat) /\ Len(Beginning(c, n)) = n
         /\ Append(Beginning(c, n), <<c, n + 1>>) = Beginning(c, n + 1)
<1>1. Beginning(c, n) \in Seq({c} \X Nat) /\ Len(Beginning(c, n)) = n
  BY DEF Beginning
<1>2. \A i \in 1..n : Beginning(c, n)[i] = <<c, i>>
  BY DEF Beginning
<1>3. \A i \in 1..n + 1 : Beginning(c, n + 1)[i] = <<c, i>>
  BY DEF Beginning
<1>4. Beginning(c, n + 1) \in Seq({c} \X Nat) /\ Len(Beginning(c, n + 1)) = n + 1
  BY DEF Beginning
<1>. DEFINE s == Append(Beginning(c, n), <<c, n + 1>>)
<1>5. s \in Seq({c} \X Nat) /\ Len(s) = n + 1 /\ s[n + 1] = <<c, n + 1>>
      /\ \A i \in 1..n : s[i] = Beginning(c, n)[i]
  BY <1>1
<1>. HIDE DEF s
<1>6. \A i \in 1..n + 1 : s[i] = Beginning(c, n + 1)[i]
  <2>. TAKE i \in 1..n + 1
  <2>1. CASE i \in 1..n
    BY <1>2, <1>3, <1>5, <2>1
  <2>2. CASE i = n + 1
    BY <1>3, <1>5, <2>2
  <2>. QED  BY <2>1, <2>2
<1>7. s = Beginning(c, n + 1)
  BY <1>4, <1>5, <1>6, SeqEqual
<1>. QED  BY <1>1, <1>7 DEF s

\* A line appended behind a join.
LEMMA AppendConcat ==
  ASSUME NEW S, NEW s \in Seq(S), NEW t \in Seq(S), NEW e \in S
  PROVE  s \o Append(t, e) = Append(s \o t, e)
<1>1. Append(t, e) = t \o <<e>> /\ <<e>> \in Seq(S)
  OBVIOUS
<1>2. s \o t \in Seq(S)
  OBVIOUS
<1>3. Append(s \o t, e) = (s \o t) \o <<e>>
  BY <1>2
<1>. QED  BY <1>1, <1>3, ConcatAssociative, SMTT(40)

\* The type invariant over RequestRecords.
LogTypes ==
  /\ path \in Inodes \cup {NoFile}
  /\ disk \in [Inodes -> [content : 0..contents, lines : 0..MaxLines, torn : BOOLEAN]]
  /\ contents \in Nat /\ id \in Nat \ {0} /\ gen \in Nat
  /\ observed \in Inodes \cup {NoFile}
  /\ req \in [Pages -> RequestRecords]
  /\ cursor \in [Pages -> Cursors]
  /\ shown \in [Pages -> SomeLines]
  /\ raced \subseteq Pages
  /\ upsets \in 0..MaxUpsets
  /\ \A b \in Pages : (req[b].fd # NoFile) = (req[b].pc \in Reading)
  /\ \A b, c \in Pages : req[b].pc \in Reading /\ req[c].pc \in Reading => b = c

\* The types of the log viewer, with the records of requests taken apart.
LEMMA Records == (LogTypeOK <=> LogTypes) /\ (LogTypeOK' <=> LogTypes')
BY DEF LogTypeOK, LogTypes, RequestRecords

\* What is typed stays so when contents and readers become more.
LEMMA TypesGrow ==
  ASSUME contents \in Nat, contents' \in Nat, contents <= contents',
         id \in Nat, id' \in Nat, id <= id'
  PROVE  /\ Cursors \subseteq Cursors' /\ SomeLines \subseteq SomeLines'
         /\ RequestRecords \subseteq RequestRecords'
<1>1. 0..contents \subseteq 0..contents' /\ 0..id \subseteq 0..id'
      /\ 1..contents \subseteq 1..contents'
  OBVIOUS
<1>2. Fingerprints \subseteq Fingerprints'
  BY <1>1 DEF Fingerprints
<1>3. Cursors \subseteq Cursors'
  BY <1>1, <1>2 DEF Cursors
<1>4. (1..contents) \X (Nat \ {0}) \subseteq (1..contents') \X (Nat \ {0})
  BY <1>1
<1>5. SomeLines \subseteq SomeLines'
  BY <1>4, SeqMonotonic DEF SomeLines
<1>. QED  BY <1>3, <1>5 DEF RequestRecords

\* What every step but a restart does to the file and to what the reader has seen.
Onwards ==
  /\ id' = id /\ contents <= contents'
  /\ \A i \in Inodes : disk'[i].content <= contents =>
       disk'[i].content = disk[i].content /\ disk[i].lines <= disk'[i].lines
  /\ path' = path \/ path' = NoFile \/ disk'[path'].content > contents
  /\ path' = path /\ path # NoFile /\ observed = path => observed' = path /\ gen' = gen

\* A content at the path was at the path before: once gone it never returns.
LEMMA GoneStaysGone ==
  ASSUME LogTypeOK, LogTypeOK', Onwards
  PROVE  \A c \in 1..contents : AtPath(c)' => AtPath(c) /\ path' = path
<1>. SUFFICES ASSUME NEW c \in 1..contents, AtPath(c)' PROVE AtPath(c) /\ path' = path
  OBVIOUS
<1>1. path' # NoFile /\ path' \in Inodes /\ disk'[path'].content = c /\ contents \in Nat
  BY DEF AtPath, LogTypeOK
<1>2. ~(disk'[path'].content > contents)
  BY <1>1
<1>3. path' = path
  BY <1>1, <1>2 DEF Onwards
<1>4. disk'[path].content <= contents /\ path \in Inodes
  BY <1>1, <1>2, <1>3
<1>5. disk[path].content = c
  BY <1>1, <1>3, <1>4 DEF Onwards
<1>. QED  BY <1>1, <1>3, <1>5 DEF AtPath

\* What a cursor guarantees lasts as long as its content is at the path.
LEMMA KnownKept ==
  ASSUME LogTypeOK, LogTypeOK', Onwards
  PROVE  \A k \in Cursors : Known(k) => Known(k)'
<1>. SUFFICES ASSUME NEW k \in Cursors, Known(k), k.offset # 0 PROVE Known(k)'
  BY DEF Known
<1>. DEFINE c == k.fingerprint[1]
<1>1. c \in 1..contents /\ contents \in Nat /\ k.offset \in Nat
  BY DEF Known, Cursors, Fingerprints, LogTypeOK
<1>2. ASSUME NEW i \in Inodes, disk'[i].content = c PROVE k.offset <= disk'[i].lines
  <2>1. disk[i].content = c /\ disk[i].lines <= disk'[i].lines
    BY <1>1, <1>2 DEF Onwards
  <2>2. k.offset <= disk[i].lines
    BY <2>1 DEF Known
  <2>3. disk[i].lines \in Nat /\ disk'[i].lines \in Nat
    BY DEF LogTypeOK
  <2>. QED  BY <1>1, <2>1, <2>2, <2>3
<1>3. ASSUME k.id = id', AtPath(c)' PROVE observed' = path' /\ gen' = k.gen
  <2>1. AtPath(c) /\ path' = path
    BY <1>1, <1>3, GoneStaysGone
  <2>2. observed = path /\ gen = k.gen /\ path # NoFile
    BY <1>3, <2>1 DEF Known, Onwards, AtPath
  <2>. QED  BY <2>1, <2>2 DEF Onwards
<1>. QED  BY <1>2, <1>3 DEF Known

\* A step of page b and of the reader on its behalf.
LEMMA PageStep ==
  ASSUME LogIInv, LogTypeOK', Onwards, UNCHANGED <<path, disk, contents>>, NEW b \in Pages,
         \A c \in Pages \ {b} :
           /\ req'[c] = req[c] /\ cursor'[c] = cursor[c] /\ shown'[c] = shown[c]
           /\ c \in raced' <=> c \in raced,
         UNCHANGED observed \/ \A c \in Pages \ {b} : req[c].pc \notin Reading,
         PageOK(b)'
  PROVE  LogIInv'
<1>0. LogTypeOK /\ id' = id
  BY DEF LogIInv, Onwards
<1>1. ASSUME NEW c \in Pages, c # b PROVE PageOK(c)'
  <2>0. /\ req'[c] = req[c] /\ cursor'[c] = cursor[c] /\ shown'[c] = shown[c]
        /\ c \in raced' <=> c \in raced
        /\ PageOK(c) /\ cursor[c] \in Cursors /\ req[c].next \in Cursors
    BY <1>1 DEF LogIInv, LogTypeOK
  <2>1. Known(cursor[c])' /\ Known(req[c].next)'
    <3>1. Known(cursor[c]) /\ Known(req[c].next)
      BY <2>0 DEF PageOK
    <3>. QED  BY <1>0, <2>0, <3>1, KnownKept DEF Known, AtPath
  <2>2. RequestOK(c)'
    BY <1>1, <2>0 DEF PageOK, RequestOK
  <2>3. LinesFit(c)' /\ CursorFits(c)' /\ ResetJustified(c)'
    BY <1>0, <2>0 DEF PageOK, LinesFit, CursorFits, ResetJustified, Front, Again, AtPath
  <2>. QED  BY <2>1, <2>2, <2>3 DEF PageOK
<1>2. DiskOK'
  BY DEF LogIInv, DiskOK
<1>. QED  BY <1>1, <1>2 DEF LogIInv

\* The reader leaves pages alone.
LEMMA ReaderStep ==
  ASSUME LogIInv, LogTypeOK', Onwards, UNCHANGED <<path, disk, contents, cursor, shown, raced>>,
         NEW b \in Pages, \A c \in Pages \ {b} : req'[c] = req[c],
         UNCHANGED observed \/ \A c \in Pages \ {b} : req[c].pc \notin Reading,
         Known(req[b].next)', RequestOK(b)', LinesFit(b)', ResetJustified(b)'
  PROVE  LogIInv'
<1>1. Known(cursor[b]) /\ CursorFits(b) /\ cursor[b] \in Cursors /\ LogTypeOK
  BY DEF LogIInv, LogTypeOK, PageOK
<1>2. Known(cursor[b])'
  BY <1>1, KnownKept DEF Known, AtPath
<1>3. CursorFits(b)'
  BY <1>1 DEF CursorFits
<1>4. PageOK(b)'
  BY <1>2, <1>3 DEF PageOK
<1>. QED  BY <1>4, PageStep

\* While a page is served no other is.
LEMMA Alone ==
  ASSUME LogTypeOK, NEW b \in Pages, req[b].pc \in Reading \/ Unlocked
  PROVE  \A c \in Pages \ {b} : req[c].pc \notin Reading
BY DEF LogTypeOK, Unlocked

\* A page that has seen nothing is well formed.
LEMMA NothingTyped ==
  ASSUME LogTypeOK
  PROVE  /\ NoFingerprint \in Fingerprints /\ NoFingerprint[1] = 0
         /\ <<>> \in SomeLines /\ NoCursor \in Cursors
         /\ NoCursor.offset = 0 /\ NoCursor.id = 0
<1>1. contents \in Nat /\ id \in Nat
  BY DEF LogTypeOK
<1>2. 0 \in 0..contents /\ 0 \in 0..id
  BY <1>1
<1>3. NoFingerprint \in Fingerprints /\ NoFingerprint[1] = 0
  BY <1>2 DEF NoFingerprint, Fingerprints
<1>4. <<>> \in SomeLines
  BY DEF SomeLines
<1>5. NoCursor = [id |-> 0, gen |-> 0, offset |-> 0, fingerprint |-> NoFingerprint]
  BY DEF NoCursor, Cursor
<1>6. NoCursor \in Cursors
  BY <1>2, <1>3, <1>5 DEF Cursors
<1>. QED  BY <1>3, <1>4, <1>5, <1>6

\* A response that fits keeps the invariant.
LEMMA ResponseOK ==
  ASSUME LogIInv, Onwards, UNCHANGED <<path, disk, contents, cursor, shown, raced, upsets>>,
         NEW b \in Pages, req[b].pc \in {"asked"} \cup Reading,
         \A c \in Pages \ {b} : req[c].pc \notin Reading,
         NEW offset \in Nat, NEW fingerprint \in Fingerprints, NEW lines \in SomeLines,
         NEW reset \in BOOLEAN, Respond(b, offset, fingerprint, lines, reset),
         observed' \in Inodes \cup {NoFile}, gen' \in Nat,
         NEW k, k = Cursor(id, gen', offset, fingerprint), Known(k)',
         (b \notin raced \/ req[b].fresh \/ reset) /\ ~req[b].overtaken =>
           (IF req[b].fresh \/ reset THEN <<>> ELSE shown[b]) \o lines
             = Beginning(fingerprint[1], offset),
         (/\ b \notin raced /\ reset /\ ~req[b].fresh
          /\ cursor[b].offset # 0 /\ cursor[b].id = id) => ~AtPath(cursor[b].fingerprint[1])
  PROVE  LogIInv'
<1>0. LogTypeOK /\ id' = id
  BY DEF LogIInv, Onwards
<1>. DEFINE q == [NoRequest EXCEPT !.pc = "answered", !.lines = lines, !.reset = reset,
                                  !.next = k, !.fresh = req[b].fresh,
                                  !.overtaken = req[b].overtaken]
<1>1. req' = [req EXCEPT ![b] = q]
  BY Zenon DEF Respond
<1>2. k \in Cursors /\ k.fingerprint = fingerprint /\ k.offset = offset
  BY <1>0 DEF Cursor, Cursors, LogTypeOK
<1>3. NoCursor \in Cursors
  BY <1>0, NothingTyped
<1>4. q \in RequestRecords
  <2>1. NoRequest \in RequestRecords /\ req[b] \in RequestRecords
    BY <1>0, <1>3, NothingTyped, Records DEF NoRequest, RequestRecords, LogTypes
  <2>. QED  BY <1>2, <2>1 DEF RequestRecords
<1>5. /\ req'[b] = q /\ q.pc = "answered" /\ q.next = k /\ q.lines = lines /\ q.reset = reset
      /\ q.fresh = req[b].fresh /\ q.overtaken = req[b].overtaken /\ q.fd = NoFile
      /\ \A c \in Pages \ {b} : req'[c] = req[c]
      /\ "answered" \notin Reading /\ "answered" \notin Past
  <2>1. /\ q.pc = "answered" /\ q.next = k /\ q.lines = lines /\ q.reset = reset
        /\ q.fresh = req[b].fresh /\ q.overtaken = req[b].overtaken /\ q.fd = NoFile
    BY DEF NoRequest
  <2>. HIDE DEF q
  <2>2. req'[b] = q /\ \A c \in Pages \ {b} : req'[c] = req[c]
    BY <1>0, <1>1 DEF LogTypeOK
  <2>. QED  BY <2>1, <2>2 DEF Reading, Past
<1>6. LogTypeOK'
  <2>1. Cursors' = Cursors /\ SomeLines' = SomeLines /\ RequestRecords' = RequestRecords
    BY <1>0 DEF Cursors, SomeLines, Fingerprints, RequestRecords
  <2>2. req' \in [Pages -> RequestRecords]
    BY <1>0, <1>1, <1>4, Records DEF LogTypes
  <2>. HIDE DEF q
  <2>3. ASSUME NEW c \in Pages PROVE (req'[c].fd # NoFile) = (req'[c].pc \in Reading)
    <3>1. CASE c = b
      BY <1>5, <3>1
    <3>2. CASE c # b
      BY <1>0, <1>5, <3>2, Records, SMTT(40) DEF LogTypes
    <3>. QED  BY <3>1, <3>2
  <2>4. \A c \in Pages : req'[c].pc \notin Reading
    BY <1>5
  <2>. QED  BY <1>0, <2>1, <2>2, <2>3, <2>4, Records DEF LogTypes
<1>7. Known(req[b].next)'
  BY <1>5 DEF Known, AtPath
<1>8. RequestOK(b)'
  BY <1>5 DEF RequestOK
<1>9. LinesFit(b)'
  <2>. HIDE DEF q
  <2>1. raced' = raced /\ shown' = shown /\ (Again(b)' <=> req[b].fresh \/ reset)
    BY <1>5 DEF Again
  <2>2. Front(b)' = IF req[b].fresh \/ reset THEN <<>> ELSE shown[b]
    BY <2>1 DEF Front
  <2>3. /\ req'[b].pc \notin Past /\ req'[b].next.fingerprint = fingerprint
        /\ req'[b].next.offset = offset /\ req'[b].lines = lines
        /\ req'[b].overtaken = req[b].overtaken
    BY <1>2, <1>5
  <2>. QED  BY <2>1, <2>2, <2>3 DEF LinesFit
<1>10. ResetJustified(b)'
  BY <1>0, <1>5 DEF ResetJustified, AtPath
<1>. QED  BY <1>5, <1>6, <1>7, <1>8, <1>9, <1>10, ReaderStep

\* A response that starts over keeps the invariant.
LEMMA ResetOK ==
  ASSUME LogIInv, Onwards, UNCHANGED <<path, disk, contents, cursor, shown, raced, upsets>>,
         NEW b \in Pages, req[b].pc \in {"asked"} \cup Reading,
         \A c \in Pages \ {b} : req[c].pc \notin Reading,
         NEW reset \in BOOLEAN, Respond(b, 0, NoFingerprint, <<>>, reset),
         reset \/ req[b].fresh \/ b \in raced \/ shown[b] = <<>>,
         observed' \in Inodes \cup {NoFile}, gen' \in Nat,
         (/\ b \notin raced /\ reset /\ ~req[b].fresh
          /\ cursor[b].offset # 0 /\ cursor[b].id = id) => ~AtPath(cursor[b].fingerprint[1])
  PROVE  LogIInv'
<1>0. PICK k : k = Cursor(id, gen', 0, NoFingerprint)
  OBVIOUS
<1>1. LogTypeOK
  BY DEF LogIInv
<1>2. NoFingerprint \in Fingerprints /\ <<>> \in SomeLines /\ NoFingerprint[1] = 0
  BY <1>1, NothingTyped
<1>3. k.offset = 0 /\ k.fingerprint = NoFingerprint
  BY <1>0 DEF Cursor
<1>4. Known(k)'
  BY <1>3 DEF Known
<1>5. <<>> \o <<>> = <<>> /\ Beginning(NoFingerprint[1], 0) = <<>>
  BY BeginningEmpty
<1>6. (b \notin raced \/ req[b].fresh \/ reset) /\ ~req[b].overtaken =>
        (IF req[b].fresh \/ reset THEN <<>> ELSE shown[b]) \o <<>>
          = Beginning(NoFingerprint[1], 0)
  BY <1>5
<1>. QED  BY <1>0, <1>2, <1>4, <1>6, ResponseOK

-----------------------------------------------------------------------------

\* A step of whoever owns the file.  A request that reads a content that goes is
\* overtaken.
LEMMA FileStep ==
  ASSUME LogIInv, LogTypeOK', DiskOK', Onwards, UNCHANGED <<reader, page>>,
         \A c \in Pages :
           LET fd == req[c].fd
           IN  /\ req'[c] = [req[c] EXCEPT !.overtaken = req'[c].overtaken]
               /\ req[c].overtaken => req'[c].overtaken
               /\ ~req'[c].overtaken /\ fd # NoFile =>
                    disk'[fd].content = disk[fd].content /\ disk[fd].lines <= disk'[fd].lines
               /\ req'[c].overtaken /\ fd # NoFile =>
                    req[c].overtaken \/ disk'[fd].content > contents
               /\ fd = NoFile => req'[c] = req[c]
  PROVE  LogIInv'
<1>0. LogTypeOK /\ id' = id /\ observed' = observed /\ gen' = gen
      /\ cursor' = cursor /\ shown' = shown /\ raced' = raced
  BY DEF LogIInv, reader, page
<1>. SUFFICES ASSUME NEW c \in Pages PROVE PageOK(c)'
  BY DEF LogIInv
<1>. DEFINE fd == req[c].fd
<1>1. /\ PageOK(c) /\ cursor[c] \in Cursors /\ req[c].next \in Cursors
      /\ req[c] \in RequestRecords /\ contents \in Nat
  BY <1>0, Records DEF LogIInv, LogTypes, RequestRecords
<1>2. /\ req'[c].pc = req[c].pc /\ req'[c].after = req[c].after /\ req'[c].fresh = req[c].fresh
      /\ req'[c].fd = fd /\ req'[c].reset = req[c].reset /\ req'[c].offset = req[c].offset
      /\ req'[c].lines = req[c].lines /\ req'[c].next = req[c].next
      /\ req[c].overtaken => req'[c].overtaken
      /\ fd = NoFile => req'[c] = req[c]
  <2>1. req'[c] = [req[c] EXCEPT !.overtaken = req'[c].overtaken]
    OBVIOUS
  <2>. QED  BY <1>1, <2>1 DEF RequestRecords
<1>3. req[c].pc \in Reading <=> fd # NoFile
  BY <1>0 DEF LogTypeOK
<1>4. Past \subseteq Reading
  BY DEF Past, Reading
<1>5. ASSUME fd # NoFile
      PROVE  /\ fd \in Inodes /\ disk[fd].content \in 0..contents /\ disk'[fd].content \in Nat
             /\ disk'[fd].content <= contents => disk'[fd].content = disk[fd].content
             /\ disk[fd].lines \in Nat /\ disk'[fd].lines \in Nat
  <2>1. fd \in Inodes
    BY <1>1, <1>5 DEF RequestRecords
  <2>. QED  BY <1>0, <2>1 DEF LogTypeOK, Onwards
<1>6. Known(cursor[c])' /\ Known(req[c].next)'
  <2>1. Known(cursor[c]) /\ Known(req[c].next)
    BY <1>1 DEF PageOK
  <2>. QED  BY <1>0, <1>1, <1>2, <2>1, KnownKept DEF Known, AtPath
<1>7. RequestOK(c)'
  <2>0. RequestOK(c)
    BY <1>1 DEF PageOK
  <2>1. req[c].pc \in Reading => disk'[fd].content # 0
    BY <1>1, <1>3, <1>5, <2>0 DEF RequestOK
  <2>2. req[c].pc = "asked" => ~req'[c].overtaken
    BY <1>2, <1>3, <2>0 DEF RequestOK, Reading
  <2>3. req[c].pc \in Past /\ ~req'[c].overtaken => req[c].offset <= disk'[fd].lines
    <3>. SUFFICES ASSUME req[c].pc \in Past, ~req'[c].overtaken
                  PROVE  req[c].offset <= disk'[fd].lines
      OBVIOUS
    <3>1. req[c].offset <= disk[fd].lines /\ disk[fd].lines <= disk'[fd].lines
      BY <1>2, <1>3, <1>4, <2>0 DEF RequestOK
    <3>2. req[c].offset \in Nat
      BY <1>1 DEF RequestRecords
    <3>. QED  BY <1>3, <1>4, <1>5, <3>1, <3>2
  <2>4. req[c].pc \in Reading /\ req'[c].overtaken => cursor[c].fingerprint[1] < disk'[fd].content
    <3>. SUFFICES ASSUME req[c].pc \in Reading, req'[c].overtaken
                  PROVE  cursor[c].fingerprint[1] < disk'[fd].content
      OBVIOUS
    <3>1. cursor[c].fingerprint[1] \in 0..contents
      BY <1>1 DEF Cursors, Fingerprints
    <3>2. CASE disk'[fd].content > contents
      BY <1>1, <1>3, <1>5, <3>1, <3>2
    <3>3. CASE ~(disk'[fd].content > contents)
      <4>1. disk'[fd].content = disk[fd].content /\ req[c].overtaken
        <5>1. fd # NoFile /\ req[c].overtaken
          BY <1>3, <3>3
        <5>2. disk'[fd].content \in Nat /\ contents \in Nat
          BY <1>1, <1>5, <5>1
        <5>. QED  BY <1>5, <3>3, <5>1, <5>2
      <4>. QED  BY <2>0, <4>1 DEF RequestOK
    <3>. QED  BY <3>2, <3>3
  <2>. QED  BY <1>0, <1>2, <2>0, <2>1, <2>2, <2>3, <2>4 DEF RequestOK
<1>8. LinesFit(c)'
  <2>1. Front(c)' = Front(c) /\ (Again(c)' <=> Again(c))
    BY <1>0, <1>2 DEF Front, Again
  <2>2. req[c].pc \in Past /\ ~req'[c].overtaken => disk'[fd].content = disk[fd].content
    BY <1>3, <1>4
  <2>. QED  BY <1>0, <1>1, <1>2, <2>1, <2>2 DEF PageOK, LinesFit
<1>9. CursorFits(c)'
  BY <1>0, <1>1 DEF PageOK, CursorFits
<1>10. ResetJustified(c)'
  <2>1. cursor[c].offset # 0 => cursor[c].fingerprint[1] \in 1..contents
    BY <1>1 DEF PageOK, Known, Cursors, Fingerprints
  <2>2. cursor[c].offset # 0 /\ AtPath(cursor[c].fingerprint[1])' => AtPath(cursor[c].fingerprint[1])
    BY <1>0, <2>1, GoneStaysGone DEF AtPath
  <2>. QED  BY <1>0, <1>1, <1>2, <2>2 DEF PageOK, ResetJustified
<1>. QED  BY <1>6, <1>7, <1>8, <1>9, <1>10 DEF PageOK

\* Contents and lines are numbers.
LEMMA Numbered ==
  ASSUME LogTypeOK
  PROVE  /\ contents \in Nat /\ contents + 1 \in Nat /\ contents + 1 > contents
         /\ id \in Nat /\ contents <= contents /\ id <= id
         /\ \A i \in Inodes : /\ disk[i].content \in 0..contents /\ disk[i].lines \in Nat
                             /\ disk[i].content # contents + 1
                             /\ disk[i].lines <= disk[i].lines
                             /\ disk[i].lines <= disk[i].lines + 1
BY DEF LogTypeOK

\* A new file at the path keeps the invariant.
LEMMA CreateStep == ASSUME LogIInv, NEW i \in Inodes, Create(i) PROVE LogIInv'
<1>0. /\ LogTypeOK /\ path = NoFile /\ path' = i /\ contents' = contents + 1
      /\ contents \in Nat /\ contents + 1 > contents
      /\ req' = req /\ UNCHANGED <<reader, page, upsets>>
      /\ \A b \in Pages : req[b].fd # i
  BY Numbered DEF Create, LogIInv
<1>7. disk' = [disk EXCEPT ![i] = Holding(contents + 1, 0, FALSE)]
  BY DEF Create
<1>1. /\ disk'[i].content = contents + 1 /\ disk'[i].lines = 0 /\ ~disk'[i].torn
      /\ \A j \in Inodes : j # i => disk'[j] = disk[j]
  BY <1>0, <1>7 DEF Holding, LogTypeOK
<1>2. LogTypeOK'
  <2>1. Cursors \subseteq Cursors' /\ SomeLines \subseteq SomeLines'
        /\ RequestRecords \subseteq RequestRecords'
    BY <1>0, Numbered, TypesGrow DEF reader
  <2>2. disk' \in [Inodes -> [content : 0..contents', lines : 0..MaxLines, torn : BOOLEAN]]
    <3>1. 0..contents \subseteq 0..contents' /\ contents + 1 \in 0..contents' /\ 0 \in 0..MaxLines
      BY <1>0, Numbered
    <3>. QED  BY <1>0, <1>7, <3>1 DEF LogTypeOK, Holding
  <2>3. LogTypes
    BY <1>0, Records
  <2>4. req' \in [Pages -> RequestRecords'] /\ cursor' \in [Pages -> Cursors']
        /\ shown' \in [Pages -> SomeLines']
    BY <1>0, <2>1, <2>3 DEF LogTypes, page
  <2>5. LogTypes'
    BY <1>0, <2>2, <2>3, <2>4, Numbered DEF LogTypes, reader, page
  <2>. QED  BY <2>5, Records
<1>3. DiskOK'
  <2>0. DiskOK /\ i # NoFile
    BY DEF LogIInv
  <2>1. path' # NoFile => disk'[path'].content # 0
    BY <1>0, <1>1
  <2>2. ASSUME NEW j \in Inodes
        PROVE  /\ disk'[j].torn => disk'[j].lines < MaxLines /\ disk'[j].content # 0
               /\ disk'[j].lines > 0 => disk'[j].content # 0
    BY <1>1, <2>0 DEF DiskOK
  <2>3. ASSUME NEW j \in Inodes, NEW k \in Inodes,
               disk'[j].content = disk'[k].content, disk'[j].content # 0
        PROVE  j = k
    <3>1. \A m \in Inodes : m # i => disk'[m].content # contents + 1
      BY <1>0, <1>1, Numbered
    <3>2. CASE j = i \/ k = i
      BY <1>1, <2>3, <3>1, <3>2
    <3>3. CASE j # i /\ k # i
      BY <1>1, <2>0, <2>3, <3>3 DEF DiskOK
    <3>. QED  BY <3>2, <3>3
  <2>. QED  BY <2>1, <2>2, <2>3 DEF DiskOK
<1>4. Onwards
  <2>1. disk'[path'].content > contents /\ contents <= contents' /\ id' = id
    BY <1>0, <1>1 DEF reader
  <2>2. ASSUME NEW j \in Inodes, disk'[j].content <= contents
        PROVE  disk'[j].content = disk[j].content /\ disk[j].lines <= disk'[j].lines
    <3>1. j # i
      BY <1>0, <1>1, <2>2
    <3>. QED  BY <1>0, <1>1, <3>1, Numbered
  <2>. QED  BY <1>0, <2>1, <2>2 DEF Onwards
<1>5. ASSUME NEW c \in Pages, req[c].fd # NoFile
      PROVE  req[c].fd \in Inodes /\ disk'[req[c].fd] = disk[req[c].fd]
  BY <1>0, <1>1, <1>5, Records DEF LogTypes, RequestRecords
<1>6. \A c \in Pages : req[c] = [req[c] EXCEPT !.overtaken = req[c].overtaken]
  BY <1>0, Records DEF LogTypes, RequestRecords
<1>. QED  BY <1>0, <1>2, <1>3, <1>4, <1>5, <1>6, Numbered, FileStep

\* Lines are written to the file at the path.
LEMMA WriteStep ==
  ASSUME LogIInv, NEW i \in Inodes, path = i, NEW lines \in 0..MaxLines, NEW torn \in BOOLEAN,
         disk' = [disk EXCEPT ![i].lines = lines, ![i].torn = torn],
         disk[i].lines <= lines, torn => lines < MaxLines,
         UNCHANGED <<path, contents, reader, req, page, upsets>>
  PROVE  LogIInv'
<1>0. LogTypeOK /\ disk[i].content # 0
  BY DEF LogIInv, DiskOK
<1>1. /\ disk'[i].content = disk[i].content /\ disk'[i].lines = lines /\ disk'[i].torn = torn
      /\ \A j \in Inodes : j # i => disk'[j] = disk[j]
      /\ \A j \in Inodes : disk'[j].content = disk[j].content /\ disk[j].lines <= disk'[j].lines
  <2>1. /\ disk'[i].content = disk[i].content /\ disk'[i].lines = lines /\ disk'[i].torn = torn
        /\ \A j \in Inodes : j # i => disk'[j] = disk[j]
    BY <1>0 DEF LogTypeOK
  <2>. QED  BY <1>0, <2>1, Numbered
<1>2. LogTypeOK'
  <2>1. Cursors' = Cursors /\ SomeLines' = SomeLines /\ RequestRecords' = RequestRecords
    BY DEF Cursors, SomeLines, Fingerprints, RequestRecords, reader
  <2>2. disk' \in [Inodes -> [content : 0..contents', lines : 0..MaxLines, torn : BOOLEAN]]
    <3>1. /\ disk \in [Inodes -> [content : 0..contents, lines : 0..MaxLines, torn : BOOLEAN]]
          /\ disk' = [disk EXCEPT ![i] = [disk[i] EXCEPT !.lines = lines, !.torn = torn]]
      BY <1>0 DEF LogTypeOK
    <3>2. [disk[i] EXCEPT !.lines = lines, !.torn = torn]
            \in [content : 0..contents, lines : 0..MaxLines, torn : BOOLEAN]
      BY <3>1
    <3>. QED  BY <3>1, <3>2
  <2>. QED  BY <1>0, <2>1, <2>2, Records DEF LogTypes, reader, page
<1>3. DiskOK'
  <2>0. DiskOK
    BY DEF LogIInv
  <2>1. ASSUME NEW j \in Inodes
        PROVE  /\ disk'[j].torn => disk'[j].lines < MaxLines /\ disk'[j].content # 0
               /\ disk'[j].lines > 0 => disk'[j].content # 0
    <3>1. CASE j = i
      BY <1>0, <1>1, <3>1
    <3>2. CASE j # i
      BY <1>1, <2>0, <3>2 DEF DiskOK
    <3>. QED  BY <3>1, <3>2
  <2>2. path' = i /\ disk'[i].content # 0
    BY <1>0, <1>1
  <2>3. \A j, k \in Inodes : disk'[j].content = disk'[k].content /\ disk'[j].content # 0 => j = k
    <3>1. \A j, k \in Inodes : disk[j].content = disk[k].content /\ disk[j].content # 0 => j = k
      BY <2>0, Zenon DEF DiskOK
    <3>2. \A j \in Inodes : disk'[j].content = disk[j].content
      BY <1>1, Zenon
    <3>. QED  BY <3>1, <3>2, ZenonT(40)
  <2>. QED  BY <2>1, <2>2, <2>3 DEF DiskOK
<1>4. Onwards
  BY <1>0, <1>1, Numbered DEF Onwards, reader
<1>5. ASSUME NEW c \in Pages, req[c].fd # NoFile PROVE req[c].fd \in Inodes
  BY <1>0, <1>5, Records DEF LogTypes, RequestRecords
<1>6. \A c \in Pages : req[c] = [req[c] EXCEPT !.overtaken = req[c].overtaken]
  BY <1>0, Records DEF LogTypes, RequestRecords
<1>. QED  BY <1>1, <1>2, <1>3, <1>4, <1>5, <1>6, FileStep

\* A line written to the file keeps the invariant.
LEMMA LinesStep == ASSUME LogIInv, BeginLine \/ EndLine PROVE LogIInv'
<1>0. LogTypeOK /\ DiskOK /\ path \in Inodes /\ path # NoFile
  BY DEF LogIInv, LogTypeOK, BeginLine, EndLine
<1>1. disk[path] \in [content : 0..contents, lines : 0..MaxLines, torn : BOOLEAN]
  BY <1>0 DEF LogTypeOK
<1>2. CASE BeginLine
  <2>1. disk' = [disk EXCEPT ![path].lines = disk[path].lines, ![path].torn = TRUE]
    BY <1>0, <1>1, <1>2 DEF BeginLine, LogTypeOK
  <2>2. disk[path].lines \in 0..MaxLines /\ disk[path].lines < MaxLines
        /\ disk[path].lines <= disk[path].lines
    BY <1>1, <1>2 DEF BeginLine
  <2>. QED  BY <1>0, <1>2, <2>1, <2>2, WriteStep DEF BeginLine
<1>3. CASE EndLine
  <2>1. disk[path].lines < MaxLines
    BY <1>0, <1>3 DEF EndLine, DiskOK
  <2>2. disk[path].lines + 1 \in 0..MaxLines /\ disk[path].lines <= disk[path].lines + 1
    BY <1>1, <2>1
  <2>3. disk' = [disk EXCEPT ![path].lines = disk[path].lines + 1, ![path].torn = FALSE]
    BY <1>3 DEF EndLine
  <2>. QED  BY <1>0, <1>3, <2>2, <2>3, WriteStep DEF EndLine
<1>. QED  BY <1>2, <1>3

\* A file truncated in place keeps the invariant.
LEMMA TruncateStep == ASSUME LogIInv, Truncate PROVE LogIInv'
<1>0. /\ LogTypeOK /\ DiskOK /\ path \in Inodes /\ path # NoFile /\ path' = path
      /\ contents' = contents + 1 /\ contents \in Nat
      /\ contents + 1 > contents /\ contents + 1 # 0
      /\ upsets' \in 0..MaxUpsets /\ UNCHANGED <<reader, page>>
  BY Numbered DEF Truncate, LogIInv, LogTypeOK
<1>8. disk' = [disk EXCEPT ![path] = Holding(contents + 1, 0, FALSE)]
  BY DEF Truncate
<1>9. req' = [c \in Pages |-> [req[c] EXCEPT !.overtaken = @ \/ req[c].fd = path]]
  BY DEF Truncate
<1>1. /\ disk'[path].content = contents + 1 /\ disk'[path].lines = 0 /\ ~disk'[path].torn
      /\ \A j \in Inodes : j # path => disk'[j] = disk[j]
  BY <1>0, <1>8 DEF Holding, LogTypeOK
<1>2. ASSUME NEW c \in Pages
      PROVE  /\ req[c] \in RequestRecords
             /\ req'[c] = [req[c] EXCEPT !.overtaken = req'[c].overtaken]
             /\ req'[c].overtaken = (req[c].overtaken \/ req[c].fd = path)
             /\ req'[c].fd = req[c].fd /\ req'[c].pc = req[c].pc
             /\ req[c].fd = NoFile => req'[c] = req[c]
             /\ req'[c] \in RequestRecords
  <2>1. req[c] \in RequestRecords
    BY <1>0, Records DEF LogTypes
  <2>2. req'[c] = [req[c] EXCEPT !.overtaken = req[c].overtaken \/ req[c].fd = path]
    BY <1>0, <1>9, <2>1 DEF RequestRecords
  <2>. QED  BY <1>0, <1>9, <2>1, <2>2, ZenonT(40) DEF RequestRecords
<1>3. LogTypeOK'
  <2>1. Cursors \subseteq Cursors' /\ SomeLines \subseteq SomeLines'
        /\ RequestRecords \subseteq RequestRecords'
    BY <1>0, Numbered, TypesGrow DEF reader
  <2>2. disk' \in [Inodes -> [content : 0..contents', lines : 0..MaxLines, torn : BOOLEAN]]
    <3>1. 0..contents \subseteq 0..contents' /\ contents + 1 \in 0..contents' /\ 0 \in 0..MaxLines
      BY <1>0
    <3>. QED  BY <1>0, <1>8, <3>1 DEF LogTypeOK, Holding
  <2>3. LogTypes
    BY <1>0, Records
  <2>4. req' \in [Pages -> RequestRecords'] /\ cursor' \in [Pages -> Cursors']
        /\ shown' \in [Pages -> SomeLines']
    <3>1. \A c \in Pages : req'[c] \in RequestRecords'
      BY <1>2, <2>1
    <3>. QED  BY <1>0, <1>9, <2>1, <2>3, <3>1 DEF LogTypes, page
  <2>5. /\ \A b \in Pages : (req'[b].fd # NoFile) = (req'[b].pc \in Reading)
        /\ \A b, c \in Pages : req'[b].pc \in Reading /\ req'[c].pc \in Reading => b = c
    BY <1>2, <2>3 DEF LogTypes
  <2>6. LogTypes'
    BY <1>0, <2>2, <2>3, <2>4, <2>5 DEF LogTypes, reader, page
  <2>. QED  BY <2>6, Records
<1>4. DiskOK'
  <2>1. path' # NoFile => disk'[path'].content # 0
    BY <1>0, <1>1
  <2>2. ASSUME NEW j \in Inodes
        PROVE  /\ disk'[j].torn => disk'[j].lines < MaxLines /\ disk'[j].content # 0
               /\ disk'[j].lines > 0 => disk'[j].content # 0
    BY <1>0, <1>1 DEF DiskOK
  <2>3. ASSUME NEW j \in Inodes, NEW k \in Inodes,
               disk'[j].content = disk'[k].content, disk'[j].content # 0
        PROVE  j = k
    <3>1. \A m \in Inodes : m # path => disk'[m].content # contents + 1
      BY <1>0, <1>1, Numbered
    <3>2. CASE j = path \/ k = path
      BY <1>1, <2>3, <3>1, <3>2
    <3>3. CASE j # path /\ k # path
      BY <1>0, <1>1, <2>3, <3>3 DEF DiskOK
    <3>. QED  BY <3>2, <3>3
  <2>. QED  BY <2>1, <2>2, <2>3 DEF DiskOK
<1>5. Onwards
  <2>1. disk'[path].content > contents /\ contents <= contents' /\ id' = id
        /\ observed' = observed /\ gen' = gen
    BY <1>0, <1>1 DEF reader
  <2>2. ASSUME NEW j \in Inodes, disk'[j].content <= contents
        PROVE  disk'[j].content = disk[j].content /\ disk[j].lines <= disk'[j].lines
    <3>1. j # path
      BY <2>1, <2>2, <1>0, <1>1
    <3>. QED  BY <1>0, <1>1, <3>1, Numbered
  <2>. QED  BY <1>0, <2>1, <2>2 DEF Onwards
<1>6. ASSUME NEW c \in Pages, req[c].fd # NoFile
      PROVE  /\ ~req'[c].overtaken =>
                   /\ disk'[req[c].fd].content = disk[req[c].fd].content
                   /\ disk[req[c].fd].lines <= disk'[req[c].fd].lines
             /\ req'[c].overtaken =>
                   req[c].overtaken \/ disk'[req[c].fd].content > contents
  <2>1. req[c].fd \in Inodes
    BY <1>2, <1>6 DEF RequestRecords
  <2>2. CASE req[c].fd = path
    BY <1>0, <1>1, <1>2, <2>2
  <2>3. CASE req[c].fd # path
    <3>1. disk'[req[c].fd] = disk[req[c].fd] /\ (req'[c].overtaken <=> req[c].overtaken)
      BY <1>1, <1>2, <2>1, <2>3
    <3>. QED  BY <1>0, <2>1, <3>1, Numbered
  <2>. QED  BY <2>2, <2>3
<1>7. \A c \in Pages : req[c].overtaken => req'[c].overtaken
  BY <1>2
<1>. QED  BY <1>0, <1>2, <1>3, <1>4, <1>5, <1>6, <1>7, FileStep

\* A file moved or deleted keeps the invariant.
LEMMA VanishStep == ASSUME LogIInv, Vanish PROVE LogIInv'
<1>0. /\ LogTypeOK /\ DiskOK /\ path' = NoFile
      /\ upsets' \in 0..MaxUpsets /\ UNCHANGED <<disk, contents, reader, req, page>>
  BY DEF Vanish, LogIInv, LogTypeOK
<1>1. LogTypeOK'
  <2>1. Cursors' = Cursors /\ SomeLines' = SomeLines /\ RequestRecords' = RequestRecords
    BY <1>0 DEF Cursors, SomeLines, Fingerprints, RequestRecords, reader
  <2>. QED  BY <1>0, <2>1, Records DEF LogTypes, reader, page
<1>2. DiskOK'
  BY <1>0 DEF DiskOK
<1>3. Onwards
  BY <1>0, Numbered DEF Onwards, reader
<1>4. \A c \in Pages :
        /\ req[c] = [req[c] EXCEPT !.overtaken = req[c].overtaken]
        /\ req[c].fd # NoFile => req[c].fd \in Inodes
  BY <1>0, Records DEF LogTypes, RequestRecords
<1>. QED  BY <1>0, <1>1, <1>2, <1>3, <1>4, Numbered, FileStep

-----------------------------------------------------------------------------

\* A step of one request keeps the types.
LEMMA RequestTyped ==
  ASSUME LogTypeOK, UNCHANGED <<path, disk, contents, id, cursor, shown, raced, upsets>>,
         NEW b \in Pages, NEW q \in RequestRecords, req' = [req EXCEPT ![b] = q],
         observed' \in Inodes \cup {NoFile}, gen' \in Nat,
         (q.fd # NoFile) = (q.pc \in Reading),
         q.pc \in Reading => \A c \in Pages \ {b} : req[c].pc \notin Reading
  PROVE  LogTypeOK' /\ req'[b] = q /\ \A c \in Pages \ {b} : req'[c] = req[c]
<1>0. LogTypes
  BY Records
<1>1. req'[b] = q /\ \A c \in Pages \ {b} : req'[c] = req[c]
  BY <1>0 DEF LogTypes
<1>2. Cursors' = Cursors /\ SomeLines' = SomeLines /\ RequestRecords' = RequestRecords
  BY DEF Cursors, SomeLines, Fingerprints, RequestRecords
<1>3. req' \in [Pages -> RequestRecords]
  BY <1>0 DEF LogTypes
<1>4. ASSUME NEW c \in Pages PROVE (req'[c].fd # NoFile) = (req'[c].pc \in Reading)
  <2>1. CASE c = b
    BY <1>1, <2>1
  <2>2. CASE c # b
    BY <1>0, <1>1, <2>2 DEF LogTypes
  <2>. QED  BY <2>1, <2>2
<1>5. ASSUME NEW c \in Pages, NEW d \in Pages, req'[c].pc \in Reading, req'[d].pc \in Reading
      PROVE  c = d
  <2>1. CASE c = b \/ d = b
    BY <1>1, <1>5, <2>1
  <2>2. CASE c # b /\ d # b
    BY <1>0, <1>1, <1>5, <2>2 DEF LogTypes
  <2>. QED  BY <2>1, <2>2
<1>6. LogTypes'
  BY <1>0, <1>2, <1>3, <1>4, <1>5 DEF LogTypes
<1>. QED  BY <1>1, <1>6, Records

\* What the reader notes of the path is right, and a file seen again is the same.
LEMMA Noted ==
  ASSUME LogTypeOK, path' = path,
         (path # NoFile /\ Observe(path)) \/ (path = NoFile /\ MarkMissing)
  PROVE  /\ observed' = path /\ gen' \in Nat
         /\ path # NoFile /\ observed = path => gen' = gen
<1>1. gen \in Nat /\ gen + 1 \in Nat
  BY DEF LogTypeOK
<1>2. CASE path # NoFile /\ Observe(path)
  BY <1>1, <1>2 DEF Observe, Seen
<1>3. CASE path = NoFile /\ MarkMissing
  BY <1>1, <1>3 DEF MarkMissing
<1>. QED  BY <1>2, <1>3

\* The reader may note what is at the path.
LEMMA NotedOnwards ==
  ASSUME LogTypeOK, UNCHANGED <<path, disk, contents, id>>,
         \/ observed' = path /\ (path # NoFile /\ observed = path => gen' = gen)
         \/ UNCHANGED <<observed, gen>>
  PROVE  Onwards
BY Numbered DEF Onwards

\* The lines of a page whose cursor is at the beginning.
LEMMA NothingShown ==
  ASSUME LogIInv, NEW b \in Pages, b \notin raced, cursor[b].offset = 0
  PROVE  shown[b] = <<>>
BY BeginningEmpty DEF LogIInv, PageOK, CursorFits

\* A request that finds no file keeps the invariant.
LEMMA MissingStep == ASSUME LogIInv, NEW b \in Pages, Missing(b) PROVE LogIInv'
<1>0. /\ LogTypeOK /\ req[b].pc = "asked" /\ Unlocked /\ path = NoFile /\ MarkMissing
      /\ Respond(b, 0, NoFingerprint, <<>>, req[b].after # NoCursor)
      /\ UNCHANGED <<path, disk, contents, id, cursor, shown, raced, upsets>>
  BY DEF LogIInv, Missing, file, page
<1>1. observed' = path /\ gen' \in Nat /\ Onwards
  BY <1>0, Noted, NotedOnwards
<1>2. req[b].after = IF req[b].fresh THEN NoCursor ELSE cursor[b]
  BY <1>0 DEF LogIInv, PageOK, RequestOK
<1>3. (req[b].after # NoCursor) \/ req[b].fresh \/ b \in raced \/ shown[b] = <<>>
  BY <1>0, <1>2, NothingTyped, NothingShown
<1>4. ~AtPath(cursor[b].fingerprint[1])
  BY <1>0 DEF AtPath
<1>. QED  BY <1>0, <1>1, <1>3, <1>4, Alone, ResetOK

\* Opening the file keeps the invariant.
LEMMA OpenStep == ASSUME LogIInv, NEW b \in Pages, OpenLog(b) PROVE LogIInv'
<1>. DEFINE after == req[b].after
            stale == \/ after.id # id \/ after.gen # gen'
                     \/ after.offset > disk[path].lines
            place == IF stale THEN 0 ELSE after.offset
            label == IF stale \/ after.offset = 0 THEN "reading" ELSE "checking"
            reset == stale /\ after # NoCursor
            q == [req[b] EXCEPT !.pc = label, !.fd = path, !.reset = reset, !.offset = place]
<1>0. /\ LogTypeOK /\ DiskOK /\ req[b].pc = "asked" /\ Unlocked /\ path # NoFile /\ path \in Inodes
      /\ UNCHANGED <<path, disk, contents, id, cursor, shown, raced, upsets>>
      /\ Known(cursor[b]) /\ Known(req[b].next) /\ RequestOK(b)
      /\ cursor[b] \in Cursors /\ req[b] \in RequestRecords /\ after \in Cursors
      /\ req[b].next \in Cursors
  <2>1. LogTypeOK /\ LogTypes
    BY Records DEF LogIInv
  <2>2. req[b] \in RequestRecords /\ cursor[b] \in Cursors
    BY <2>1 DEF LogTypes
  <2>. QED  BY <2>1, <2>2 DEF OpenLog, LogIInv, LogTypeOK, RequestRecords, PageOK, file, page
<1>1. observed' = path /\ gen' \in Nat /\ (observed = path => gen' = gen) /\ Onwards
  <2>1. Observe(path)
    BY DEF OpenLog
  <2>. QED  BY <1>0, <2>1, Noted, NotedOnwards
<1>2. req' = [req EXCEPT ![b] = q]
  BY DEF OpenLog
<1>3. place \in Nat /\ label \in {"reading", "checking"} /\ reset \in BOOLEAN
  BY <1>0 DEF Cursors
<1>4. /\ q \in RequestRecords /\ q.pc = label /\ q.fd = path /\ q.reset = reset /\ q.offset = place
      /\ q.after = after /\ q.fresh = req[b].fresh /\ q.lines = req[b].lines
      /\ q.next = req[b].next /\ q.overtaken = req[b].overtaken
  <2>. HIDE DEF place, label, reset
  <2>. QED  BY <1>0, <1>3 DEF RequestRecords, Reading
<1>. HIDE DEF q
<1>5. /\ LogTypeOK' /\ req'[b] = q /\ \A c \in Pages \ {b} : req'[c] = req[c]
      /\ \A c \in Pages \ {b} : req[c].pc \notin Reading
  BY <1>0, <1>1, <1>2, <1>3, <1>4, Alone, RequestTyped DEF Reading
<1>6. after = (IF req[b].fresh THEN NoCursor ELSE cursor[b]) /\ req[b].lines = <<>>
      /\ ~req[b].overtaken
  BY <1>0 DEF RequestOK
<1>7. Known(req[b].next)'
  BY <1>0, <1>1, <1>4, <1>5, KnownKept DEF Known, AtPath
<1>8. RequestOK(b)'
  <2>1. disk[path].content # 0 /\ disk[path].lines \in Nat
    BY <1>0, Numbered DEF DiskOK
  <2>2. label = "checking" => ~reset /\ ~req[b].fresh /\ place = after.offset /\ place # 0
    BY <1>6, <1>0, NothingTyped
  <2>3. label = "reading" => place = 0
    OBVIOUS
  <2>. HIDE DEF label, place, reset
  <2>. QED  BY <1>0, <1>1, <1>3, <1>4, <1>5, <1>6, <2>1, <2>2, <2>3 DEF RequestOK, Past
<1>9. LinesFit(b)'
  <2>. SUFFICES ASSUME b \notin raced \/ req[b].fresh \/ reset, label = "reading"
                PROVE  Front(b)' \o <<>> = Beginning(disk[path].content, place)
    <3>1. label \in Past => label = "reading"
      BY <1>3 DEF Past
    <3>. HIDE DEF label, place, reset
    <3>2. /\ raced' = raced /\ disk' = disk /\ (Again(b)' <=> req[b].fresh \/ reset)
          /\ req'[b].pc = label /\ req'[b].fd = path /\ req'[b].lines = <<>>
          /\ req'[b].offset = place /\ label # "answered"
      BY <1>0, <1>3, <1>4, <1>5, <1>6 DEF Again
    <3>. QED  BY <3>1, <3>2 DEF LinesFit
  <2>1. place = 0
    OBVIOUS
  <2>2. CASE req[b].fresh \/ reset
    <3>1. Front(b)' = <<>>
      BY <1>4, <1>5, <2>2 DEF Front, Again
    <3>. QED  BY <2>1, <3>1, BeginningEmpty
  <2>3. CASE ~(req[b].fresh \/ reset)
    <3>1. cursor[b].offset = 0
      BY <1>0, <1>6, <2>3, NothingTyped
    <3>2. shown[b] = <<>>
      BY <2>3, <3>1, NothingShown
    <3>3. Front(b)' = <<>>
      BY <1>0, <1>4, <1>5, <2>3, <3>2 DEF Front, Again
    <3>. QED  BY <2>1, <3>3, BeginningEmpty
  <2>. QED  BY <2>2, <2>3
<1>10. ResetJustified(b)'
  <2>. SUFFICES ASSUME reset, ~req[b].fresh, cursor[b].offset # 0, cursor[b].id = id,
                       AtPath(cursor[b].fingerprint[1])
                PROVE  FALSE
    BY <1>0, <1>4, <1>5 DEF ResetJustified, AtPath
  <2>1. /\ observed = path /\ gen = cursor[b].gen /\ cursor[b].offset <= disk[path].lines
        /\ after = cursor[b]
    BY <1>0, <1>6 DEF Known, AtPath
  <2>2. cursor[b].offset \in Nat /\ disk[path].lines \in Nat
    BY <1>0, Numbered DEF Cursors
  <2>. QED  BY <1>1, <2>1, <2>2
<1>. QED  BY <1>0, <1>1, <1>5, <1>7, <1>8, <1>9, <1>10, ReaderStep

\* A step of page b that keeps what the reader has seen and the file it has open.
LEMMA ReadingStep ==
  ASSUME LogIInv, UNCHANGED <<path, disk, contents, id, observed, gen, cursor, shown, raced, upsets>>,
         NEW b \in Pages, req[b].pc \in Reading,
         NEW label \in Past, NEW reset \in BOOLEAN, NEW offset \in Nat, NEW lines \in SomeLines,
         req' = [req EXCEPT ![b] = [req[b] EXCEPT !.pc = label, !.reset = reset,
                                                  !.offset = offset, !.lines = lines]],
         ~req[b].overtaken => offset <= disk[req[b].fd].lines,
         (b \notin raced \/ req[b].fresh \/ reset) /\ ~req[b].overtaken =>
           (IF req[b].fresh \/ reset THEN <<>> ELSE shown[b]) \o lines
             = Beginning(disk[req[b].fd].content, offset),
         (/\ b \notin raced /\ reset /\ ~req[b].fresh
          /\ cursor[b].offset # 0 /\ cursor[b].id = id) => ~AtPath(cursor[b].fingerprint[1])
  PROVE  LogIInv'
<1>. DEFINE q == [req[b] EXCEPT !.pc = label, !.reset = reset, !.offset = offset, !.lines = lines]
<1>0. /\ LogTypeOK /\ Known(req[b].next) /\ RequestOK(b)
      /\ req[b] \in RequestRecords /\ req[b].next \in Cursors /\ req[b].fd # NoFile
  <2>1. LogTypeOK /\ LogTypes
    BY Records DEF LogIInv
  <2>2. req[b] \in RequestRecords /\ req[b].fd # NoFile
    BY <2>1 DEF LogTypes
  <2>. QED  BY <2>1, <2>2 DEF LogIInv, RequestRecords, PageOK
<1>1. label \in Reading /\ label \notin {"asked", "answered", "checking"}
  BY DEF Reading, Past
<1>2. /\ q \in RequestRecords /\ q.pc = label /\ q.reset = reset /\ q.offset = offset /\ q.lines = lines
      /\ q.after = req[b].after /\ q.fresh = req[b].fresh /\ q.fd = req[b].fd
      /\ q.next = req[b].next /\ q.overtaken = req[b].overtaken
  BY <1>0, <1>1 DEF RequestRecords
<1>3. req' = [req EXCEPT ![b] = q]
  OBVIOUS
<1>. HIDE DEF q
<1>4. \A c \in Pages \ {b} : req[c].pc \notin Reading
  BY <1>0, Alone
<1>5. observed' \in Inodes \cup {NoFile} /\ gen' \in Nat
  BY <1>0 DEF LogTypeOK
<1>6. LogTypeOK' /\ req'[b] = q /\ \A c \in Pages \ {b} : req'[c] = req[c]
  BY <1>0, <1>1, <1>2, <1>3, <1>4, <1>5, RequestTyped, ZenonT(40)
<1>7. Onwards
  BY <1>0, NotedOnwards
<1>8. Known(req[b].next)'
  BY <1>0, <1>2, <1>6, <1>7, KnownKept DEF Known, AtPath
<1>9. RequestOK(b)'
  BY <1>0, <1>1, <1>2, <1>6 DEF RequestOK
<1>10. LinesFit(b)'
  <2>1. raced' = raced /\ disk' = disk /\ (Again(b)' <=> req[b].fresh \/ reset)
    BY <1>2, <1>6 DEF Again
  <2>2. Front(b)' = IF req[b].fresh \/ reset THEN <<>> ELSE shown[b]
    BY <2>1 DEF Front
  <2>. QED  BY <1>1, <1>2, <1>6, <2>1, <2>2 DEF LinesFit
<1>11. ResetJustified(b)'
  BY <1>2, <1>6 DEF ResetJustified, AtPath
<1>. QED  BY <1>4, <1>6, <1>7, <1>8, <1>9, <1>10, <1>11, ReaderStep

\* What a request that has a file open knows.
LEMMA Serving ==
  ASSUME LogIInv, NEW b \in Pages, req[b].pc \in Reading
  PROVE  /\ LogTypeOK /\ req[b] \in RequestRecords /\ req[b].fd \in Inodes
         /\ disk[req[b].fd].content \in 1..contents /\ disk[req[b].fd].lines \in Nat
         /\ observed = req[b].fd /\ cursor[b] \in Cursors
         /\ req[b].after = (IF req[b].fresh THEN NoCursor ELSE cursor[b])
         /\ Known(cursor[b]) /\ RequestOK(b) /\ LinesFit(b) /\ CursorFits(b) /\ ResetJustified(b)
         /\ \A c \in Pages \ {b} : req[c].pc \notin Reading
<1>1. LogTypeOK /\ LogTypes
  BY Records DEF LogIInv
<1>2. req[b] \in RequestRecords /\ req[b].fd # NoFile /\ cursor[b] \in Cursors
  BY <1>1 DEF LogTypes
<1>3. req[b].fd \in Inodes
  BY <1>2 DEF RequestRecords
<1>4. PageOK(b)
  BY DEF LogIInv
<1>5. disk[req[b].fd].content # 0 /\ observed = req[b].fd
      /\ req[b].after = (IF req[b].fresh THEN NoCursor ELSE cursor[b])
  BY <1>4 DEF PageOK, RequestOK
<1>6. disk[req[b].fd].content \in 1..contents /\ disk[req[b].fd].lines \in Nat
  BY <1>1, <1>3, <1>5, Numbered
<1>. QED  BY <1>1, <1>2, <1>3, <1>4, <1>5, <1>6, Alone DEF PageOK

\* A file behind whose back a cursor's content still is at the path is that content.
LEMMA SameContent ==
  ASSUME LogIInv, NEW b \in Pages, req[b].pc \in Reading,
         cursor[b].offset # 0, cursor[b].id = id, AtPath(cursor[b].fingerprint[1])
  PROVE  /\ path = req[b].fd /\ disk[req[b].fd].content = cursor[b].fingerprint[1]
         /\ cursor[b].offset <= disk[req[b].fd].lines /\ ~req[b].overtaken
<1>1. /\ observed = path /\ observed = req[b].fd
      /\ disk[path].content = cursor[b].fingerprint[1]
  BY Serving DEF Known, AtPath
<1>2. cursor[b].offset <= disk[req[b].fd].lines
  BY <1>1, Serving DEF Known
<1>3. ~req[b].overtaken
  <2>1. disk[req[b].fd].content \in Nat
    BY Serving
  <2>. QED  BY <1>1, <2>1, Serving DEF RequestOK
<1>. QED  BY <1>1, <1>2, <1>3

\* The fingerprint of a file is that of a cursor only if the file holds what the
\* cursor stands for.
LEMMA CheckStep == ASSUME LogIInv, NEW b \in Pages, CheckFingerprint(b) PROVE LogIInv'
<1>. DEFINE fd == req[b].fd
            same == /\ req[b].offset <= disk[fd].lines
                    /\ Fingerprint(fd, req[b].offset) = req[b].after.fingerprint
            place == IF same THEN req[b].offset ELSE 0
<1>0. /\ req[b].pc = "checking" /\ req[b].pc \in Reading
      /\ UNCHANGED <<path, disk, contents, id, observed, gen, cursor, shown, raced, upsets>>
  BY DEF CheckFingerprint, Reading, file, reader, page
<1>1. /\ req[b] \in RequestRecords /\ disk[fd].lines \in Nat /\ cursor[b] \in Cursors
      /\ ~req[b].reset /\ ~req[b].fresh /\ req[b].lines = <<>>
      /\ req[b].offset = cursor[b].offset /\ cursor[b].offset # 0
      /\ req[b].after = cursor[b] /\ Known(cursor[b]) /\ CursorFits(b)
  BY <1>0, Serving DEF RequestOK
<1>2. place \in Nat /\ req[b].lines \in SomeLines
  <2>1. req[b].offset \in Nat /\ req[b].lines \in SomeLines
    BY <1>1 DEF RequestRecords
  <2>. HIDE DEF same
  <2>. QED  BY <2>1
<1>3. req' = [req EXCEPT ![b] = [req[b] EXCEPT !.pc = "reading", !.reset = ~same, !.offset = place]]
  BY DEF CheckFingerprint
<1>4. req' = [req EXCEPT ![b] = [req[b] EXCEPT !.pc = "reading", !.reset = ~same,
                                               !.offset = place, !.lines = req[b].lines]]
  <2>. HIDE DEF same, place
  <2>1. [req[b] EXCEPT !.pc = "reading", !.reset = ~same, !.offset = place]
        = [req[b] EXCEPT !.pc = "reading", !.reset = ~same, !.offset = place, !.lines = req[b].lines]
    BY <1>1 DEF RequestRecords
  <2>. QED  BY <1>3, <2>1
<1>5. "reading" \in Past
  BY DEF Past
<1>6. place <= disk[fd].lines
  BY <1>1
<1>7. (b \notin raced \/ req[b].fresh \/ ~same) =>
        (IF req[b].fresh \/ ~same THEN <<>> ELSE shown[b]) \o req[b].lines
          = Beginning(disk[fd].content, place)
  <2>1. CASE same /\ b \notin raced
    <3>1. cursor[b].fingerprint[1] = disk[fd].content /\ place = cursor[b].offset
      BY <1>1, <2>1 DEF Fingerprint
    <3>2. shown[b] = Beginning(disk[fd].content, place) /\ shown[b] \in Seq({disk[fd].content} \X Nat)
      <4>1. cursor[b].offset \in Nat
        BY <1>1 DEF Cursors
      <4>2. shown[b] = Beginning(cursor[b].fingerprint[1], cursor[b].offset)
        BY <1>1, <2>1 DEF CursorFits
      <4>. HIDE DEF same, place
      <4>3. shown[b] = Beginning(disk[fd].content, cursor[b].offset)
        BY <3>1, <4>2
      <4>. QED  BY <3>1, <4>1, <4>3, BeginningGrows, ZenonT(40)
    <3>. HIDE DEF same, place
    <3>3. shown[b] \o <<>> = shown[b]
      BY <3>2
    <3>. QED  BY <1>1, <2>1, <3>2, <3>3
  <2>2. CASE ~same
    <3>1. place = 0 /\ Beginning(disk[fd].content, 0) = <<>>
      BY <2>2, BeginningEmpty
    <3>. HIDE DEF same, place
    <3>. QED  BY <1>1, <2>2, <3>1
  <2>3. CASE same /\ b \in raced
    <3>. HIDE DEF same, place
    <3>. QED  BY <1>1, <2>3
  <2>. QED  BY <2>1, <2>2, <2>3
<1>8. ~same /\ cursor[b].id = id => ~AtPath(cursor[b].fingerprint[1])
  <2>. SUFFICES ASSUME cursor[b].id = id, AtPath(cursor[b].fingerprint[1]) PROVE same
    OBVIOUS
  <2>1. disk[fd].content = cursor[b].fingerprint[1] /\ cursor[b].offset <= disk[fd].lines
    BY <1>0, <1>1, SameContent
  <2>2. cursor[b].fingerprint = <<disk[fd].content, cursor[b].offset>>
    <3>1. cursor[b].fingerprint[2] = cursor[b].offset /\ cursor[b].fingerprint \in (0..contents) \X Nat
      BY <1>1 DEF Known, Cursors, Fingerprints
    <3>. QED  BY <2>1, <3>1
  <2>. QED  BY <1>1, <2>1, <2>2 DEF Fingerprint
<1>. HIDE DEF same, place
<1>. QED  BY <1>0, <1>2, <1>4, <1>5, <1>6, <1>7, <1>8, ReadingStep

\* Reading a line keeps the invariant.
LEMMA ReadStep == ASSUME LogIInv, NEW b \in Pages, ReadLine(b) PROVE LogIInv'
<1>. DEFINE fd == req[b].fd
            c == disk[fd].content
            n == req[b].offset
            S == (1..contents) \X (Nat \ {0})
            front == IF req[b].fresh \/ req[b].reset THEN <<>> ELSE shown[b]
<1>0. /\ req[b].pc = "reading" /\ req[b].pc \in Reading /\ n < disk[fd].lines
      /\ UNCHANGED <<path, disk, contents, id, observed, gen, cursor, shown, raced, upsets>>
  BY DEF ReadLine, More, Reading, file, reader, page
<1>1. /\ req[b] \in RequestRecords /\ disk[fd].lines \in Nat /\ c \in 1..contents
      /\ n \in Nat /\ req[b].lines \in Seq(S) /\ req[b].reset \in BOOLEAN
      /\ shown[b] \in Seq(S) /\ LinesFit(b) /\ ResetJustified(b)
  <2>1. req[b] \in RequestRecords /\ LogTypeOK
    BY <1>0, Serving
  <2>2. shown[b] \in SomeLines
    BY <2>1 DEF LogTypeOK
  <2>. QED  BY <1>0, <2>1, <2>2, Serving DEF RequestRecords, SomeLines
<1>2. n + 1 \in Nat /\ n + 1 <= disk[fd].lines /\ <<c, n + 1>> \in S
  BY <1>0, <1>1, SMTT(40)
<1>3. Append(req[b].lines, <<c, n + 1>>) \in SomeLines
  BY <1>1, <1>2 DEF SomeLines
<1>4. req' = [req EXCEPT ![b].offset = n + 1, ![b].lines = Append(req[b].lines, <<c, n + 1>>)]
  BY <1>1 DEF ReadLine, RequestRecords
<1>5. req' = [req EXCEPT ![b] = [req[b] EXCEPT !.pc = "reading", !.reset = req[b].reset, !.offset = n + 1,
                                               !.lines = Append(req[b].lines, <<c, n + 1>>)]]
  <2>1. req \in [Pages -> RequestRecords]
    BY <1>0, Serving, Records DEF LogTypes
  <2>. QED  BY <1>0, <1>1, <1>4, <2>1 DEF RequestRecords
<1>6. "reading" \in Past
  BY DEF Past
<1>7. (b \notin raced \/ req[b].fresh \/ req[b].reset) /\ ~req[b].overtaken =>
        front \o Append(req[b].lines, <<c, n + 1>>) = Beginning(c, n + 1)
  <2>. SUFFICES ASSUME b \notin raced \/ req[b].fresh \/ req[b].reset, ~req[b].overtaken
                PROVE  front \o Append(req[b].lines, <<c, n + 1>>) = Beginning(c, n + 1)
    OBVIOUS
  <2>1. front \o req[b].lines = Beginning(c, n)
    BY <1>0, <1>1, <1>6 DEF LinesFit, Front, Again
  <2>2. front \in Seq(S)
    BY <1>1
  <2>. HIDE DEF front, S, c, n
  <2>3. front \o Append(req[b].lines, <<c, n + 1>>) = Append(front \o req[b].lines, <<c, n + 1>>)
    <3>1. \A s, t \in Seq(S) : \A e \in S : s \o Append(t, e) = Append(s \o t, e)
      BY AppendConcat
    <3>. QED  BY <1>1, <1>2, <2>2, <3>1, Zenon
  <2>. QED  BY <1>1, <2>1, <2>3, BeginningGrows
<1>8. (/\ b \notin raced /\ req[b].reset /\ ~req[b].fresh
       /\ cursor[b].offset # 0 /\ cursor[b].id = id) => ~AtPath(cursor[b].fingerprint[1])
  BY <1>0, <1>1 DEF ResetJustified
<1>. QED  BY <1>0, <1>1, <1>2, <1>3, <1>5, <1>6, <1>7, <1>8, ReadingStep, ZenonT(40)

\* The request goes on, and nothing else changes.
Goes(b, label) == req' = [req EXCEPT ![b].pc = label]

\* A request that goes on from one step to the next keeps the invariant.
LEMMA AdvanceStep ==
  ASSUME LogIInv, UNCHANGED <<path, disk, contents, id, observed, gen, cursor, shown, raced, upsets>>,
         NEW b \in Pages, req[b].pc \in Past, NEW label \in Past, Goes(b, label)
  PROVE  LogIInv'
<1>0. req[b].pc \in Reading
  BY DEF Past, Reading
<1>1. /\ LogTypeOK /\ req[b] \in RequestRecords
      /\ LinesFit(b) /\ ResetJustified(b) /\ RequestOK(b)
  BY <1>0, Serving
<1>2. req[b].offset \in Nat /\ req[b].lines \in SomeLines /\ req[b].reset \in BOOLEAN
  BY <1>1 DEF RequestRecords
<1>3. req' = [req EXCEPT ![b] = [req[b] EXCEPT !.pc = label, !.reset = req[b].reset,
                                  !.offset = req[b].offset, !.lines = req[b].lines]]
  <2>1. req \in [Pages -> RequestRecords]
    BY <1>1, Records DEF LogTypes
  <2>. QED  BY <2>1 DEF Goes, RequestRecords
<1>4. ~req[b].overtaken => req[b].offset <= disk[req[b].fd].lines
  BY <1>1 DEF RequestOK
<1>5. (b \notin raced \/ req[b].fresh \/ req[b].reset) /\ ~req[b].overtaken =>
        (IF req[b].fresh \/ req[b].reset THEN <<>> ELSE shown[b]) \o req[b].lines
          = Beginning(disk[req[b].fd].content, req[b].offset)
  BY <1>1 DEF LinesFit, Front, Again
<1>6. (/\ b \notin raced /\ req[b].reset /\ ~req[b].fresh
       /\ cursor[b].offset # 0 /\ cursor[b].id = id) => ~AtPath(cursor[b].fingerprint[1])
  BY <1>0, <1>1 DEF ResetJustified
<1>. QED  BY <1>0, <1>2, <1>3, <1>4, <1>5, <1>6, ReadingStep

\* The end of the lines to read keeps the invariant.
LEMMA ReadEndsStep == ASSUME LogIInv, NEW b \in Pages, ReadEnds(b) PROVE LogIInv'
<1>1. /\ UNCHANGED <<path, disk, contents, id, observed, gen, cursor, shown, raced, upsets>>
      /\ req[b].pc \in Past /\ "statting" \in Past
      /\ Goes(b, "statting")
  BY DEF Goes, ReadEnds, Past, file, reader, page
<1>. QED  BY <1>1, AdvanceStep

\* Looking at the path again keeps the invariant.
LEMMA StatStep == ASSUME LogIInv, NEW b \in Pages, StatPath(b) PROVE LogIInv'
<1>0. /\ req[b].pc = "statting" /\ req[b].pc \in Reading /\ req[b].pc \in Past
      /\ UNCHANGED <<path, disk, contents, id, cursor, shown, raced, upsets>>
  BY DEF StatPath, Reading, Past, file, page
<1>1. LogTypeOK /\ \A c \in Pages \ {b} : req[c].pc \notin Reading
  BY <1>0, Serving
<1>2. CASE path # req[b].fd /\ RespondReset(b)
           /\ ((path # NoFile /\ Observe(path)) \/ (path = NoFile /\ MarkMissing))
  <2>1. observed' = path /\ gen' \in Nat /\ Onwards /\ path \in Inodes \cup {NoFile}
    <3>1. observed' = path /\ gen' \in Nat /\ (path # NoFile /\ observed = path => gen' = gen)
      BY <1>0, <1>1, <1>2, Noted
    <3>. QED  BY <1>0, <1>1, <3>1, NotedOnwards DEF LogTypeOK
  <2>2. (cursor[b].offset # 0 /\ cursor[b].id = id) => ~AtPath(cursor[b].fingerprint[1])
    BY <1>0, <1>2, SameContent
  <2>3. Respond(b, 0, NoFingerprint, <<>>, TRUE)
    BY <1>2 DEF RespondReset
  <2>. QED  BY <1>0, <1>1, <2>1, <2>2, <2>3, ResetOK
<1>3. CASE Goes(b, "closing") /\ UNCHANGED <<observed, gen>>
  BY <1>0, <1>3, AdvanceStep DEF Past
<1>4. path = NoFile => path # req[b].fd
  BY <1>0, Serving
<1>. QED  BY <1>2, <1>3, <1>4 DEF StatPath, Goes

\* Closing the file, with the response, keeps the invariant.
LEMMA CloseStep == ASSUME LogIInv, NEW b \in Pages, Close(b) PROVE LogIInv'
<1>. DEFINE fd == req[b].fd
            c == disk[fd].content
            n == req[b].offset
<1>0. /\ req[b].pc = "closing" /\ req[b].pc \in Reading /\ req[b].pc \in Past
      /\ UNCHANGED <<path, disk, contents, id, observed, gen, cursor, shown, raced, upsets>>
  BY DEF Close, Reading, Past, file, page
<1>1. /\ LogTypeOK /\ DiskOK /\ req[b] \in RequestRecords /\ fd \in Inodes
      /\ c \in 1..contents /\ observed = fd
      /\ RequestOK(b) /\ LinesFit(b) /\ ResetJustified(b)
      /\ \A d \in Pages \ {b} : req[d].pc \notin Reading
  BY <1>0, Serving DEF LogIInv
<1>2. /\ n \in Nat /\ req[b].lines \in SomeLines /\ req[b].reset \in BOOLEAN
      /\ observed' \in Inodes \cup {NoFile} /\ gen' \in Nat /\ Onwards
  BY <1>0, <1>1, NotedOnwards DEF RequestRecords, LogTypeOK
<1>3. CASE n <= disk[fd].lines /\ Respond(b, n, Fingerprint(fd, n), req[b].lines, req[b].reset)
  <2>1. PICK fingerprint, reset, lines :
          fingerprint = Fingerprint(fd, n) /\ reset = req[b].reset /\ lines = req[b].lines
    OBVIOUS
  <2>2. PICK k : k = Cursor(id, gen', n, fingerprint)
    OBVIOUS
  <2>3. k.id = id /\ k.gen = gen' /\ k.offset = n /\ k.fingerprint = fingerprint
    BY <2>2 DEF Cursor
  <2>4. /\ n = 0 => fingerprint = NoFingerprint
        /\ n # 0 => fingerprint = <<c, n>> /\ fingerprint[1] = c /\ fingerprint[2] = n
    BY <2>1 DEF Fingerprint
  <2>5. fingerprint \in Fingerprints
    <3>1. c \in 0..contents
      BY <1>1
    <3>. QED  BY <1>1, <1>2, <2>4, <3>1, NothingTyped DEF Fingerprints
  <2>6. Known(k)'
    <3>1. \A i \in Inodes : disk[i].content = c => i = fd
      BY <1>1 DEF DiskOK
    <3>2. AtPath(c) => path = fd
      BY <1>1, <3>1 DEF AtPath, LogTypeOK
    <3>3. c # 0
      BY <1>1
    <3>. QED  BY <1>0, <1>1, <1>3, <2>3, <2>4, <3>1, <3>2, <3>3 DEF Known, AtPath
  <2>7. (b \notin raced \/ req[b].fresh \/ reset) /\ ~req[b].overtaken =>
          (IF req[b].fresh \/ reset THEN <<>> ELSE shown[b]) \o lines
            = Beginning(fingerprint[1], n)
    <3>1. Beginning(c, n) = Beginning(fingerprint[1], n)
      BY <2>4, BeginningEmpty
    <3>. QED  BY <1>0, <1>1, <2>1, <3>1 DEF LinesFit, Front, Again
  <2>8. (/\ b \notin raced /\ reset /\ ~req[b].fresh
         /\ cursor[b].offset # 0 /\ cursor[b].id = id) => ~AtPath(cursor[b].fingerprint[1])
    BY <1>0, <1>1, <2>1 DEF ResetJustified
  <2>9. Respond(b, n, fingerprint, lines, reset)
    BY <1>3, <2>1
  <2>10. lines \in SomeLines /\ reset \in BOOLEAN
    BY <1>2, <2>1
  <2>. HIDE DEF n
  <2>. QED  BY <1>0, <1>1, <1>2, <2>2, <2>5, <2>6, <2>7, <2>8, <2>9, <2>10, ResponseOK
<1>4. CASE ~(n <= disk[fd].lines) /\ RespondReset(b)
  <2>1. req[b].overtaken
    BY <1>0, <1>1, <1>4 DEF RequestOK
  <2>2. (cursor[b].offset # 0 /\ cursor[b].id = id) => ~AtPath(cursor[b].fingerprint[1])
    BY <1>0, <2>1, SameContent
  <2>3. Respond(b, 0, NoFingerprint, <<>>, TRUE)
    BY <1>4 DEF RespondReset
  <2>. QED  BY <1>0, <1>1, <1>2, <2>2, <2>3, ResetOK
<1>. QED  BY <1>3, <1>4 DEF Close

-----------------------------------------------------------------------------

\* A request that does not run is well formed.
LEMMA NewRequest ==
  ASSUME LogTypeOK
  PROVE  /\ NoRequest \in RequestRecords /\ NoRequest.fd = NoFile /\ NoRequest.pc = "idle"
         /\ NoRequest.next.offset = 0 /\ NoRequest.next.fingerprint = NoFingerprint
         /\ NoRequest.lines = <<>> /\ ~NoRequest.overtaken
<1>1. NoCursor.fingerprint = NoFingerprint /\ NoCursor.offset = 0
  BY DEF NoCursor, Cursor
<1>. QED  BY <1>1, NothingTyped DEF NoRequest, RequestRecords

\* A page that asks keeps the invariant.
LEMMA AskStep == ASSUME LogIInv, NEW b \in Pages, NEW fresh \in BOOLEAN, Ask(b, fresh) PROVE LogIInv'
<1>. DEFINE k == IF fresh THEN NoCursor ELSE cursor[b]
            q == [NoRequest EXCEPT !.pc = "asked", !.fresh = fresh, !.after = k]
<1>0. /\ LogTypeOK /\ LogTypes
      /\ UNCHANGED <<path, disk, contents, id, observed, gen, cursor, shown, raced, upsets>>
  BY Records DEF LogIInv, Ask, file, reader, page
<1>1. req' = [req EXCEPT ![b] = q]
  BY DEF Ask
<1>2. k \in Cursors
  BY <1>0, NothingTyped DEF LogTypes
<1>3. /\ q \in RequestRecords /\ q.pc = "asked" /\ q.fresh = fresh /\ q.after = k
      /\ q.fd = NoFile /\ q.lines = <<>> /\ ~q.overtaken /\ q.next = NoRequest.next
  <2>. HIDE DEF k
  <2>. QED  BY <1>0, <1>2, NewRequest DEF RequestRecords
<1>. HIDE DEF q
<1>4. "asked" \notin Reading /\ "asked" \notin Past
  BY DEF Reading, Past
<1>5. observed' \in Inodes \cup {NoFile} /\ gen' \in Nat /\ Onwards
  BY <1>0, NotedOnwards DEF LogTypes
<1>6. LogTypeOK' /\ req'[b] = q /\ \A c \in Pages \ {b} : req'[c] = req[c]
  <2>1. q.pc \notin Reading /\ (q.fd # NoFile) = (q.pc \in Reading)
    BY <1>3, <1>4
  <2>. QED  BY <1>0, <1>1, <1>3, <1>5, <2>1, RequestTyped
<1>7. Known(req[b].next)'
  BY <1>0, <1>3, <1>6, NewRequest DEF Known
<1>8. RequestOK(b)'
  BY <1>0, <1>3, <1>4, <1>6 DEF RequestOK
<1>9. LinesFit(b)' /\ ResetJustified(b)'
  BY <1>3, <1>4, <1>6 DEF LinesFit, ResetJustified
<1>. QED  BY <1>0, <1>5, <1>6, <1>7, <1>8, <1>9, ReaderStep

\* A page without a request has nothing to know of it.
LEMMA Idle ==
  ASSUME LogTypeOK, NEW b \in Pages, req'[b] = NoRequest
  PROVE  /\ Known(req[b].next)' /\ RequestOK(b)' /\ LinesFit(b)' /\ ResetJustified(b)'
         /\ req'[b].pc \notin Reading /\ req'[b].fd = NoFile
BY NewRequest DEF Known, RequestOK, LinesFit, ResetJustified, Reading, Past

\* A lost response keeps the invariant.
LEMMA LoseStep == ASSUME LogIInv, NEW b \in Pages, Lose(b) PROVE LogIInv'
<1>0. /\ LogTypeOK /\ req' = [req EXCEPT ![b] = NoRequest]
      /\ UNCHANGED <<path, disk, contents, id, observed, gen, cursor, shown, raced, upsets>>
  BY DEF LogIInv, Lose, file, reader, page
<1>1. observed' \in Inodes \cup {NoFile} /\ gen' \in Nat /\ Onwards
  BY <1>0, NotedOnwards DEF LogTypeOK
<1>2. LogTypeOK' /\ req'[b] = NoRequest /\ \A c \in Pages \ {b} : req'[c] = req[c]
  <2>1. PICK q : q = NoRequest
    OBVIOUS
  <2>2. /\ q \in RequestRecords /\ q.pc \notin Reading /\ (q.fd # NoFile) = (q.pc \in Reading)
        /\ req' = [req EXCEPT ![b] = q]
    BY <1>0, <2>1, NewRequest DEF Reading
  <2>. QED  BY <1>0, <1>1, <2>1, <2>2, RequestTyped
<1>. QED  BY <1>0, <1>1, <1>2, Idle, ReaderStep

\* The lines are added to those in front of them, and the cursor goes with them.
LEMMA DeliverStep == ASSUME LogIInv, NEW b \in Pages, Deliver(b) PROVE LogIInv'
<1>. DEFINE again == req[b].fresh \/ req[b].reset
            lines == IF again THEN req[b].lines ELSE shown[b] \o req[b].lines
<1>0. /\ LogTypeOK /\ LogTypes /\ PageOK(b) /\ req[b].pc = "answered"
      /\ req' = [req EXCEPT ![b] = NoRequest]
      /\ cursor' = [cursor EXCEPT ![b] = req[b].next]
      /\ shown' = [shown EXCEPT ![b] = lines]
      /\ raced' = IF req[b].overtaken THEN raced \cup {b} ELSE IF again THEN raced \ {b} ELSE raced
      /\ UNCHANGED <<path, disk, contents, id, observed, gen, upsets>>
  BY Records DEF LogIInv, Deliver, file, reader
<1>1. /\ req[b] \in RequestRecords /\ req[b].next \in Cursors /\ req[b].lines \in SomeLines
      /\ shown[b] \in SomeLines
  BY <1>0 DEF LogTypes, RequestRecords
<1>2. lines \in SomeLines
  BY <1>1 DEF SomeLines
<1>3. req' \in [Pages -> RequestRecords] /\ req'[b] = NoRequest
      /\ \A c \in Pages \ {b} : req'[c] = req[c]
  BY <1>0, NewRequest DEF LogTypes
<1>4. cursor' \in [Pages -> Cursors] /\ cursor'[b] = req[b].next
      /\ \A c \in Pages \ {b} : cursor'[c] = cursor[c]
  BY <1>0, <1>1 DEF LogTypes
<1>. HIDE DEF lines
<1>5. shown' \in [Pages -> SomeLines] /\ shown'[b] = lines
      /\ \A c \in Pages \ {b} : shown'[c] = shown[c]
  BY <1>0, <1>2 DEF LogTypes
<1>6. raced' \subseteq Pages /\ \A c \in Pages \ {b} : c \in raced' <=> c \in raced
  BY <1>0 DEF LogTypes
<1>7. LogTypeOK'
  <2>1. Cursors' = Cursors /\ SomeLines' = SomeLines /\ RequestRecords' = RequestRecords
    BY <1>0 DEF Cursors, SomeLines, Fingerprints, RequestRecords
  <2>2. \A c \in Pages : (req'[c].fd # NoFile) = (req'[c].pc \in Reading)
    BY <1>0, <1>3, Idle DEF LogTypes
  <2>3. \A c, d \in Pages : req'[c].pc \in Reading /\ req'[d].pc \in Reading => c = d
    BY <1>0, <1>3, Idle DEF LogTypes
  <2>. QED  BY <1>0, <1>3, <1>4, <1>5, <1>6, <2>1, <2>2, <2>3, Records DEF LogTypes
<1>8. Onwards
  BY <1>0, NotedOnwards
<1>9. Known(cursor[b])'
  <2>1. Known(req[b].next)
    BY <1>0 DEF PageOK
  <2>. QED  BY <1>0, <1>4, <2>1 DEF Known, AtPath
<1>10. CursorFits(b)'
  <2>. SUFFICES ASSUME b \notin raced'
                PROVE  lines = Beginning(req[b].next.fingerprint[1], req[b].next.offset)
    BY <1>4, <1>5 DEF CursorFits
  <2>1. ~req[b].overtaken /\ (again \/ b \notin raced)
    BY <1>0
  <2>2. Front(b) \o req[b].lines = Beginning(req[b].next.fingerprint[1], req[b].next.offset)
    BY <1>0, <2>1 DEF PageOK, LinesFit, Again
  <2>3. lines = Front(b) \o req[b].lines
    <3>1. <<>> \o req[b].lines = req[b].lines
      BY <1>1 DEF SomeLines
    <3>. QED  BY <3>1 DEF lines, Front, Again
  <2>. QED  BY <2>2, <2>3
<1>11. PageOK(b)'
  BY <1>0, <1>3, <1>9, <1>10, Idle DEF PageOK
<1>. QED  BY <1>0, <1>3, <1>4, <1>5, <1>6, <1>7, <1>8, <1>11, PageStep

\* A new reader trusts no cursor of an earlier one.
LEMMA RestartStep == ASSUME LogIInv, Restart PROVE LogIInv'
<1>0. /\ LogTypeOK /\ LogTypes /\ id' = id + 1 /\ id \in Nat /\ contents \in Nat
      /\ observed' = NoFile /\ gen' = 0 /\ req' = [b \in Pages |-> NoRequest]
      /\ UNCHANGED <<path, disk, contents, cursor, shown, raced, upsets>>
  BY Records DEF LogIInv, LogTypes, Restart, file, page
<1>1. /\ Cursors \subseteq Cursors' /\ SomeLines \subseteq SomeLines'
      /\ RequestRecords \subseteq RequestRecords'
  BY <1>0, TypesGrow
<1>2. \A b \in Pages : req'[b] = NoRequest
  BY <1>0
<1>3. NoRequest \in RequestRecords
  BY <1>0, NewRequest
<1>4. LogTypeOK'
  <2>1. req' \in [Pages -> RequestRecords'] /\ cursor' \in [Pages -> Cursors']
        /\ shown' \in [Pages -> SomeLines']
    BY <1>0, <1>1, <1>3 DEF LogTypes
  <2>2. \A b \in Pages : req'[b].pc \notin Reading /\ req'[b].fd = NoFile
    BY <1>0, <1>2, Idle
  <2>. QED  BY <1>0, <2>1, <2>2, Records DEF LogTypes
<1>5. ASSUME NEW b \in Pages PROVE PageOK(b)'
  <2>1. Known(cursor[b]) /\ CursorFits(b)
    BY DEF LogIInv, PageOK
  <2>2. cursor[b].id # id'
    BY <1>0 DEF LogTypes, Cursors
  <2>3. Known(cursor[b])'
    BY <1>0, <2>1, <2>2 DEF Known, AtPath
  <2>4. CursorFits(b)'
    BY <1>0, <2>1 DEF CursorFits
  <2>. QED  BY <1>0, <1>2, <2>3, <2>4, Idle DEF PageOK
<1>6. DiskOK'
  BY <1>0 DEF LogIInv, DiskOK
<1>. QED  BY <1>4, <1>5, <1>6 DEF LogIInv

-----------------------------------------------------------------------------

\* The initial state satisfies the invariant.
LEMMA LogInitIInv == LogInit => LogIInv
<1>. SUFFICES ASSUME LogInit PROVE LogIInv
  OBVIOUS
<1>0. /\ path = NoFile /\ disk = [i \in Inodes |-> Holding(0, 0, FALSE)] /\ contents = 0
      /\ id = 1 /\ observed = NoFile /\ gen = 0 /\ req = [b \in Pages |-> NoRequest]
      /\ cursor = [b \in Pages |-> NoCursor] /\ shown = [b \in Pages |-> <<>>]
      /\ raced = {} /\ upsets = 0
  BY DEF LogInit
<1>1. NoCursor \in Cursors /\ NoCursor.offset = 0 /\ NoCursor.fingerprint = NoFingerprint
  BY <1>0 DEF NoCursor, NoFingerprint, Cursor, Cursors, Fingerprints
<1>2. <<>> \in SomeLines
  BY DEF SomeLines
<1>3. NoRequest \in RequestRecords /\ NoRequest.pc = "idle" /\ NoRequest.fd = NoFile
      /\ NoRequest.next = NoCursor
  BY <1>1, <1>2 DEF NoRequest, RequestRecords
<1>4. \A i \in Inodes : disk[i].content = 0 /\ disk[i].lines = 0 /\ ~disk[i].torn
  BY <1>0 DEF Holding
<1>5. disk \in [Inodes -> [content : 0..contents, lines : 0..MaxLines, torn : BOOLEAN]]
  BY <1>0 DEF Holding
<1>6. \A b \in Pages : req[b] = NoRequest /\ cursor[b] = NoCursor /\ shown[b] = <<>>
  BY <1>0
<1>7. LogTypeOK
  <2>1. req \in [Pages -> RequestRecords] /\ cursor \in [Pages -> Cursors]
        /\ shown \in [Pages -> SomeLines]
    BY <1>0, <1>1, <1>2, <1>3
  <2>2. \A b \in Pages : req[b].pc \notin Reading /\ req[b].fd = NoFile
    BY <1>3, <1>6 DEF Reading
  <2>3. upsets \in 0..MaxUpsets /\ contents \in Nat /\ id \in Nat \ {0} /\ gen \in Nat
        /\ raced \subseteq Pages
    BY <1>0
  <2>4. path = NoFile /\ observed = NoFile
    BY <1>0
  <2>. QED  BY <1>5, <2>1, <2>2, <2>3, <2>4, Records DEF LogTypes
<1>8. DiskOK
  <2>1. path = NoFile
    BY <1>0
  <2>. QED  BY <1>4, <2>1 DEF DiskOK
<1>9. ASSUME NEW b \in Pages PROVE PageOK(b)
  <2>1. Known(cursor[b]) /\ Known(req[b].next)
    BY <1>1, <1>3, <1>6 DEF Known
  <2>2. RequestOK(b) /\ LinesFit(b) /\ ResetJustified(b)
    BY <1>3, <1>6 DEF RequestOK, LinesFit, ResetJustified, Reading, Past
  <2>3. CursorFits(b)
    BY <1>1, <1>6, BeginningEmpty DEF CursorFits
  <2>. QED  BY <2>1, <2>2, <2>3 DEF PageOK
<1>. QED  BY <1>7, <1>8, <1>9 DEF LogIInv

\* Every step keeps the invariant.
LEMMA LogStepIInv == LogIInv /\ [LogNext]_logVars => LogIInv'
<1>. SUFFICES ASSUME LogIInv, [LogNext]_logVars PROVE LogIInv'
  OBVIOUS
<1>1. ASSUME FileSteps PROVE LogIInv'
  BY <1>1, CreateStep, LinesStep, TruncateStep, VanishStep DEF FileSteps
<1>2. ASSUME NEW b \in Pages, Serve(b) PROVE LogIInv'
  BY <1>2, MissingStep, OpenStep, CheckStep, ReadStep, ReadEndsStep, StatStep, CloseStep
     DEF Serve
<1>3. ASSUME NEW b \in Pages, NEW fresh \in BOOLEAN, Ask(b, fresh) PROVE LogIInv'
  BY <1>3, AskStep
<1>4. ASSUME NEW b \in Pages, Deliver(b) \/ Lose(b) PROVE LogIInv'
  BY <1>4, DeliverStep, LoseStep
<1>5. ASSUME Restart PROVE LogIInv'
  BY <1>5, RestartStep
<1>6. ASSUME UNCHANGED logVars PROVE LogIInv'
  <2>0. UNCHANGED <<path, disk, contents, id, observed, gen, req, cursor, shown, raced, upsets>>
    BY <1>6 DEF logVars, file, reader, page
  <2>1. Cursors' = Cursors /\ SomeLines' = SomeLines /\ RequestRecords' = RequestRecords
    BY <2>0 DEF Cursors, SomeLines, Fingerprints, RequestRecords
  <2>2. LogTypeOK'
    BY <2>0, <2>1, Records DEF LogIInv, LogTypes
  <2>3. DiskOK'
    BY <2>0 DEF LogIInv, DiskOK
  <2>4. ASSUME NEW b \in Pages PROVE PageOK(b)'
    BY <2>0 DEF LogIInv, PageOK, Known, AtPath, RequestOK, LinesFit, Front, Again,
                CursorFits, ResetJustified
  <2>. QED  BY <2>2, <2>3, <2>4 DEF LogIInv
<1>. QED  BY <1>1, <1>2, <1>3, <1>4, <1>5, <1>6 DEF LogNext

\* The invariant of the log viewer holds in every state.
LEMMA LogInvariance == LogSpec => []LogIInv
BY LogInitIInv, LogStepIInv, PTL DEF LogSpec

\* The reader of the request log (readLinesSince) serves one request at a time and
\* closes what it opened, and cursors never name a reader, a content or a
\* generation that is still to come.
THEOREM LogTypeCorrect == LogSpec => []LogTypeOK
<1>1. LogIInv => LogTypeOK
  BY DEF LogIInv
<1>. QED  BY <1>1, LogInvariance, PTL

\* What a page of the log viewer shows is the beginning of one content of the file,
\* whatever the file, the reader and the other pages do between its requests
\* (observe, fingerprintBefore and openFingerprint in readLinesSince, loadLogs).
THEOREM PageShowsBeginning == LogSpec => []ShownIsBeginning
<1>1. LogIInv => ShownIsBeginning
  <2>. SUFFICES ASSUME LogIInv, NEW b \in Pages \ raced
                PROVE  \E content \in 0..contents : shown[b] = Beginning(content, Len(shown[b]))
    BY DEF ShownIsBeginning
  <2>1. shown[b] = Beginning(cursor[b].fingerprint[1], cursor[b].offset)
    BY DEF LogIInv, PageOK, CursorFits
  <2>2. cursor[b].fingerprint[1] \in 0..contents /\ cursor[b].offset \in Nat
    BY DEF LogIInv, LogTypeOK, Cursors, Fingerprints
  <2>3. Len(shown[b]) = cursor[b].offset
    BY <2>1, <2>2, BeginningGrows, ZenonT(40)
  <2>. QED  BY <2>1, <2>2, <2>3
<1>. QED  BY <1>1, LogInvariance, PTL

\* readLinesSince tells a page to start over only when what the page shows has gone
\* from the path or the proxy has been restarted.
THEOREM StartsOverForAReason == LogSpec => ResetsForAReason
<1>1. ASSUME LogIInv, NEW b \in Pages, req[b].pc = "answered", req[b].reset, ~req[b].fresh,
             shown[b] # <<>>, b \notin raced, cursor[b].id = id
      PROVE  path = NoFile \/ disk[path].content # shown[b][1][1]
  <2>1. shown[b] = Beginning(cursor[b].fingerprint[1], cursor[b].offset) /\ ResetJustified(b)
    BY <1>1 DEF LogIInv, PageOK, CursorFits
  <2>2. cursor[b].offset \in Nat /\ cursor[b].offset # 0
    BY <1>1, NothingShown DEF LogIInv, LogTypeOK, Cursors
  <2>3. shown[b][1] = <<cursor[b].fingerprint[1], 1>>
    BY <2>1, <2>2 DEF Beginning
  <2>4. ~AtPath(cursor[b].fingerprint[1])
    BY <1>1, <2>1, <2>2 DEF ResetJustified
  <2>. QED  BY <2>3, <2>4 DEF AtPath
<1>2. LogIInv => [\A b \in Pages :
                   /\ req[b].pc = "answered" /\ req[b].reset /\ ~req[b].fresh
                   /\ req'[b].pc # "answered" /\ shown[b] # <<>> /\ b \notin raced /\ cursor[b].id = id
                   => path = NoFile \/ disk[path].content # shown[b][1][1]]_logVars
  BY <1>1
<1>. QED  BY <1>2, LogInvariance, PTL DEF ResetsForAReason

=============================================================================
