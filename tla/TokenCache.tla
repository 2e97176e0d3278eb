----------------------------- MODULE TokenCache -----------------------------
(***************************************************************************)
(* AccessTokenCommandSource.Token (internal/auth/token_source.go): every   *)
(* upstream call of a provider asks the same source for a token; the first *)
(* one runs the command under the lock, the others wait and share what it  *)
(* returned as long as it is not about to expire.                          *)
(*                                                                         *)
(* A token is the number of the command run that issued it.                *)
(***************************************************************************)
EXTENDS Integers

CONSTANTS
  Callers,         \* calls of Token, each with a context of its own
  RefreshBefore,   \* refreshBefore
  Nobody,          \* not a caller
  MaxClock         \* bound: the clock stops here

\* The constructor makes a negative window zero.
ASSUME TokenAssumption ==
  /\ RefreshBefore \in Nat
  /\ Nobody \notin Callers
  /\ MaxClock \in Nat

VARIABLES
  now,
  holder,    \* who holds the mutex
  cached,    \* the cached token
  pc,        \* where each call is
  gone,      \* contexts that are cancelled
  got,       \* what each call returned
  runs,      \* commands that have issued a token
  issued     \* history: for each token who ran its command, when, and its expiry

vars == <<now, holder, cached, pc, gone, got, runs, issued>>

NoToken  == 0
NoExpiry == -1   \* the zero time.Time

\* When commands are given to expire; later than any clock plus any window.
Instants == 0..MaxClock + RefreshBefore + 1

Cached(token, expiresAt) == [token |-> token, expiresAt |-> expiresAt]
Empty == Cached(NoToken, NoExpiry)

Issue(c, expiresAt) == [by |-> c, at |-> now, expiresAt |-> expiresAt]

Result(token, at) == [token |-> token, at |-> at]
Failed == Result(NoToken, 0)

\* Mutant of Usable: the window is on the wrong side of the expiry.
UsableTooLong ==
  cached.token # NoToken /\ cached.expiresAt + RefreshBefore > now

\* expiresAt.After(now().Add(refreshBefore)); the zero time is never after.
Usable ==
  cached.token # NoToken /\ cached.expiresAt > now + RefreshBefore

-----------------------------------------------------------------------------

Init ==
  /\ now = 0
  /\ holder = Nobody
  /\ cached = Empty
  /\ pc = [c \in Callers |-> "idle"]
  /\ gone = {}
  /\ got = [c \in Callers |-> Failed]
  /\ runs = 0
  /\ issued = [t \in {} |-> Empty]

Goto(c, label) == pc' = [pc EXCEPT ![c] = label]

\* return; a call that holds the mutex releases it.
Return(c, result) ==
  /\ Goto(c, "done")
  /\ got' = [got EXCEPT ![c] = result]
  /\ holder' = IF holder = c THEN Nobody ELSE holder

Tick ==
  /\ now < MaxClock
  /\ now' = now + 1
  /\ UNCHANGED <<holder, cached, pc, gone, got, runs, issued>>

\* The request a token is for is cancelled.
Leave(c) ==
  /\ pc[c] # "done"
  /\ gone' = gone \cup {c}
  /\ UNCHANGED <<now, holder, cached, pc, got, runs, issued>>

\* The context is looked at once, before the call waits for the mutex.
Call(c) ==
  /\ pc[c] = "idle"
  /\ IF c \in gone THEN Return(c, Failed)
     ELSE Goto(c, "waiting") /\ UNCHANGED <<holder, got>>
  /\ UNCHANGED <<now, cached, gone, runs, issued>>

\* Mutant of Lock: there is no mutex.
LockAlways(c) ==
  /\ pc[c] = "waiting"
  /\ holder' = c
  /\ Goto(c, "checking")
  /\ UNCHANGED <<now, cached, gone, got, runs, issued>>

Lock(c) ==
  /\ pc[c] = "waiting"
  /\ holder = Nobody
  /\ holder' = c
  /\ Goto(c, "checking")
  /\ UNCHANGED <<now, cached, gone, got, runs, issued>>

UseCached(c) ==
  /\ pc[c] = "checking"
  /\ Usable
  /\ Return(c, Result(cached.token, now))
  /\ UNCHANGED <<now, cached, gone, runs, issued>>

RunCommand(c) ==
  /\ pc[c] = "checking"
  /\ ~Usable
  /\ Goto(c, "running")
  /\ UNCHANGED <<now, holder, cached, gone, got, runs, issued>>

\* Mutant of CommandSucceeds: it returns without the deferred Unlock.
CommandSucceedsLocked(c) ==
  /\ pc[c] = "running"
  /\ runs' = runs + 1
  /\ \E expiresAt \in {NoExpiry} \cup {e \in Instants : e > now} :
       /\ issued' = [t \in 1..runs' |->
                       IF t = runs' THEN Issue(c, expiresAt) ELSE issued[t]]
       /\ cached' = IF expiresAt = NoExpiry THEN Empty ELSE Cached(runs', expiresAt)
  /\ Goto(c, "done")
  /\ got' = [got EXCEPT ![c] = Result(runs', now)]
  /\ UNCHANGED <<now, gone, holder>>

\* The command prints a token, which is cached if it says when it expires.
CommandSucceeds(c) ==
  /\ pc[c] = "running"
  /\ runs' = runs + 1
  /\ \E expiresAt \in {NoExpiry} \cup {e \in Instants : e > now} :
       /\ issued' = [t \in 1..runs' |->
                       IF t = runs' THEN Issue(c, expiresAt) ELSE issued[t]]
       /\ cached' = IF expiresAt = NoExpiry THEN Empty ELSE Cached(runs', expiresAt)
  /\ Return(c, Result(runs', now))
  /\ UNCHANGED <<now, gone>>

\* Mutant of CommandFails: the call goes back for another try.
CommandFailsRetries(c) ==
  /\ pc[c] = "running"
  /\ Goto(c, "checking")
  /\ UNCHANGED <<now, holder, cached, gone, got, runs, issued>>

\* It fails, is killed with the context of the call that runs it, prints
\* something else, or a token that has expired.
CommandFails(c) ==
  /\ pc[c] = "running"
  /\ Return(c, Failed)
  /\ UNCHANGED <<now, cached, gone, runs, issued>>

-----------------------------------------------------------------------------

Step(c) ==
  \/ Call(c) \/ Lock(c) \/ UseCached(c)
  \/ RunCommand(c) \/ CommandSucceeds(c) \/ CommandFails(c)

Next ==
  \/ Tick
  \/ \E c \in Callers : Leave(c) \/ Step(c)

\* A goroutine that can run is scheduled, and the command ends; nothing in the
\* code bounds how long it takes.
Fairness == \A c \in Callers : WF_vars(Step(c))

Spec == Init /\ [][Next]_vars /\ Fairness

-----------------------------------------------------------------------------

\* Type invariant; the mutex is held by the one call that is behind it.
TypeOK ==
  /\ now \in 0..MaxClock
  /\ runs \in Nat
  /\ cached \in [token : 0..runs, expiresAt : {NoExpiry} \cup Instants]
  /\ pc \in [Callers -> {"idle", "waiting", "checking", "running", "done"}]
  /\ gone \subseteq Callers
  /\ got \in [Callers -> [token : 0..runs, at : 0..MaxClock]]
  /\ issued \in [1..runs -> [by : Callers, at : 0..MaxClock,
                           expiresAt : {NoExpiry} \cup Instants]]
  /\ holder \in Callers \cup {Nobody}
  /\ \A c \in Callers : holder = c <=> pc[c] \in {"checking", "running"}

\* No call is given a token that has expired; one that another call's command
\* issued is given out only outside its refresh window, and never if it came
\* without an expiry.
NeverStale ==
  \A c \in Callers : got[c].token # NoToken =>
    LET token == issued[got[c].token]
    IN  /\ token.expiresAt # NoExpiry => token.expiresAt > got[c].at
        /\ token.by # c => token.expiresAt > got[c].at + RefreshBefore

\* Calls share a refresh: no command issues a token while an earlier one is
\* outside its refresh window, however many calls arrive together and whichever
\* of them leave.
RefreshShared ==
  \A t, u \in 1..runs : t < u =>
    issued[t].expiresAt <= issued[u].at + RefreshBefore

\* A call ends, also one that waits for the mutex behind a failing command.
EveryCallEnds == \A c \in Callers : pc[c] = "waiting" ~> pc[c] = "done"

=============================================================================
