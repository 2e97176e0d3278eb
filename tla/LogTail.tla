------------------------------- MODULE LogTail -------------------------------
(***************************************************************************)
(* The log viewer (internal/api/ui.go): pages that poll the request log,   *)
(* the reader behind them, which turns a cursor into the lines after it,   *)
(* and the file, which grows, is truncated in place, moved away or         *)
(* deleted, and created again, perhaps with the same inode.                *)
(*                                                                         *)
(* Every time the file is created or truncated a new content begins.  A    *)
(* line is its content and its place there; offsets count lines, since     *)
(* the reader stops at ends of lines only.                                 *)
(***************************************************************************)
EXTENDS Integers, Sequences

CONSTANTS
  Pages,         \* browser pages
  Inodes,        \* what os.SameFile compares
  NoFile,        \* not an inode
  PageLimit,     \* maxLines
  MaxLines,      \* bound: lines of one content
  MaxUpsets,     \* bound: truncations, moves and deletions
  MaxRestarts    \* bound: restarts of the proxy

ASSUME LogAssumption ==
  /\ NoFile \notin Inodes
  /\ PageLimit \in Nat \ {0}
  /\ {MaxLines, MaxUpsets, MaxRestarts} \subseteq Nat

VARIABLES
  path,      \* the inode the configured path leads to, or NoFile
  disk,      \* what each inode holds
  contents,  \* contents begun so far
  id,        \* readerID
  observed,  \* fileInfo: the inode last seen at the path, or NoFile
  gen,       \* generation
  req,       \* the request of each page
  cursor,    \* logCursor of each page
  shown,     \* the lines each page shows
  raced,     \* history: pages that show lines read around a truncation
  upsets     \* truncations, moves and deletions so far

file   == <<path, disk, contents>>
reader == <<id, observed, gen>>
page   == <<cursor, shown, raced>>
logVars   == <<file, reader, req, page, upsets>>

\* Complete lines, and perhaps the beginning of another.
Holding(content, lines, torn) == [content |-> content, lines |-> lines, torn |-> torn]

\* The hash of the first and the last bytes before the offset.  It tells one
\* content from another, because a record begins with its time and request id.
NoFingerprint == <<0, 0>>
Fingerprint(i, offset) ==
  IF offset = 0 THEN NoFingerprint ELSE <<disk[i].content, offset>>

Cursor(readerID, generation, offset, fingerprint) ==
  [id |-> readerID, gen |-> generation, offset |-> offset, fingerprint |-> fingerprint]

\* "0", or no parameter at all.
NoCursor == Cursor(0, 0, 0, NoFingerprint)

\* A request: the cursor it sends, whether the user asked for a fresh start, the
\* variables of readLinesSince, the cursor of the response, and as history
\* whether the file was truncated while it was open.
NoRequest ==
  [pc |-> "idle", after |-> NoCursor, fresh |-> FALSE, fd |-> NoFile, reset |-> FALSE,
   offset |-> 0, lines |-> <<>>, next |-> NoCursor, overtaken |-> FALSE]

Reading == {"checking", "reading", "statting", "closing"}

-----------------------------------------------------------------------------
(***************************************************************************)
(* The file.                                                               *)
(***************************************************************************)

\* The logger opens with O_CREATE, or a rotation leaves an empty file.  An inode
\* that a request has open is not used again.
Create(i) ==
  /\ path = NoFile
  /\ \A b \in Pages : req[b].fd # i
  /\ path' = i
  /\ contents' = contents + 1
  /\ disk' = [disk EXCEPT ![i] = Holding(contents + 1, 0, FALSE)]
  /\ UNCHANGED <<reader, req, page, upsets>>

\* A record is written; for a moment only its beginning may be there.
BeginLine ==
  /\ path # NoFile
  /\ disk[path].lines < MaxLines
  /\ ~disk[path].torn
  /\ disk' = [disk EXCEPT ![path].torn = TRUE]
  /\ UNCHANGED <<path, contents, reader, req, page, upsets>>

EndLine ==
  /\ path # NoFile
  /\ disk[path].torn
  /\ disk' = [disk EXCEPT ![path].lines = @ + 1, ![path].torn = FALSE]
  /\ UNCHANGED <<path, contents, reader, req, page, upsets>>

\* Emptied in place, as copytruncate does or a program that rewrites it.  An
\* empty file stays as it is.
Truncate ==
  /\ path # NoFile
  /\ disk[path].lines > 0 \/ disk[path].torn
  /\ upsets < MaxUpsets
  /\ upsets' = upsets + 1
  /\ contents' = contents + 1
  /\ disk' = [disk EXCEPT ![path] = Holding(contents + 1, 0, FALSE)]
  /\ req' = [b \in Pages |-> [req[b] EXCEPT !.overtaken = @ \/ req[b].fd = path]]
  /\ UNCHANGED <<path, reader, page>>

\* Moved away or deleted.
Vanish ==
  /\ path # NoFile
  /\ upsets < MaxUpsets
  /\ upsets' = upsets + 1
  /\ path' = NoFile
  /\ UNCHANGED <<disk, contents, reader, req, page>>

-----------------------------------------------------------------------------
(***************************************************************************)
(* The reader.  It holds its mutex from OpenLog to the response.           *)
(***************************************************************************)

Unlocked == \A b \in Pages : req[b].pc \notin Reading

\* Mutant of Seen: the FileInfo values are compared, not the files.
SeenAnew(i) == gen + 1

\* observe: the generation while i is at the path.
Seen(i) ==
  IF observed = NoFile THEN (IF gen = 0 THEN 1 ELSE gen)
  ELSE IF observed # i THEN gen + 1 ELSE gen

Observe(i) == observed' = i /\ gen' = Seen(i)

MarkMissing ==
  /\ observed' = NoFile
  /\ gen' = IF observed # NoFile THEN gen + 1 ELSE gen

\* Mutant of Respond: the file stays open.
RespondOpen(b, offset, fingerprint, lines, reset) ==
  req' = [req EXCEPT ![b] =
            [@ EXCEPT !.pc = "answered", !.lines = lines, !.reset = reset,
                      !.next = Cursor(id, gen', offset, fingerprint)]]

\* The response of b, and the file is closed.  encodeCursor always names the
\* reader and the generation it has by then.
Respond(b, offset, fingerprint, lines, reset) ==
  req' = [req EXCEPT ![b] =
            [NoRequest EXCEPT !.pc = "answered", !.lines = lines, !.reset = reset,
                              !.next = Cursor(id, gen', offset, fingerprint),
                              !.fresh = req[b].fresh,
                              !.overtaken = req[b].overtaken]]

\* Nothing to show: the page starts over.
RespondReset(b) == Respond(b, 0, NoFingerprint, <<>>, TRUE)

\* Mutant of Missing: a missing file is a file without new lines.
MissingUnnoticed(b) ==
  /\ req[b].pc = "asked" /\ Unlocked
  /\ path = NoFile
  /\ MarkMissing
  /\ Respond(b, req[b].after.offset, req[b].after.fingerprint, <<>>, FALSE)
  /\ UNCHANGED <<file, id, page, upsets>>

Missing(b) ==
  /\ req[b].pc = "asked" /\ Unlocked
  /\ path = NoFile
  /\ MarkMissing
  /\ Respond(b, 0, NoFingerprint, <<>>, req[b].after # NoCursor)
  /\ UNCHANGED <<file, id, page, upsets>>

\* Open and Stat.  A cursor of another reader or generation, or one beyond the
\* size of the file, starts over.
OpenLog(b) ==
  /\ req[b].pc = "asked" /\ Unlocked
  /\ path # NoFile
  /\ Observe(path)
  /\ LET after == req[b].after
         stale == \/ after.id # id \/ after.gen # gen'
                  \/ after.offset > disk[path].lines
     IN  req' = [req EXCEPT ![b] =
                   [@ EXCEPT !.pc     = IF stale \/ after.offset = 0 THEN "reading" ELSE "checking",
                             !.fd     = path,
                             !.reset  = stale /\ after # NoCursor,
                             !.offset = IF stale THEN 0 ELSE after.offset]]
  /\ UNCHANGED <<file, id, page, upsets>>

\* Mutant of CheckFingerprint: the size and the generation are enough.
TrustCursor(b) ==
  /\ req[b].pc = "checking"
  /\ req' = [req EXCEPT ![b].pc = "reading"]
  /\ UNCHANGED <<file, reader, page, upsets>>

\* What stands before the offset must be what stood there; io.EOF if the file
\* has become shorter since.
CheckFingerprint(b) ==
  /\ req[b].pc = "checking"
  /\ LET same == /\ req[b].offset <= disk[req[b].fd].lines
                 /\ Fingerprint(req[b].fd, req[b].offset) = req[b].after.fingerprint
     IN  req' = [req EXCEPT ![b] =
                   [@ EXCEPT !.pc     = "reading",
                             !.reset  = ~same,
                             !.offset = IF same THEN req[b].offset ELSE 0]]
  /\ UNCHANGED <<file, reader, page, upsets>>

More(b) ==
  /\ Len(req[b].lines) < PageLimit
  /\ req[b].offset < disk[req[b].fd].lines

ReadLine(b) ==
  /\ req[b].pc = "reading"
  /\ More(b)
  /\ req' = [req EXCEPT ![b].offset = @ + 1,
                        ![b].lines = Append(@, <<disk[req[b].fd].content, req[b].offset + 1>>)]
  /\ UNCHANGED <<file, reader, page, upsets>>

\* The page is full, or there is no further complete line.
ReadEnds(b) ==
  /\ req[b].pc = "reading"
  /\ ~More(b)
  /\ req' = [req EXCEPT ![b].pc = "statting"]
  /\ UNCHANGED <<file, reader, page, upsets>>

\* Is the file that was read still the one at the path?
StatPath(b) ==
  /\ req[b].pc = "statting"
  /\ \/ path = NoFile /\ MarkMissing /\ RespondReset(b)
     \/ path \notin {NoFile, req[b].fd} /\ Observe(path) /\ RespondReset(b)
     \/ path = req[b].fd /\ req' = [req EXCEPT ![b].pc = "closing"] /\ UNCHANGED <<observed, gen>>
  /\ UNCHANGED <<file, id, page, upsets>>

\* The fingerprint of the next cursor; io.EOF if the file has become shorter.
Close(b) ==
  /\ req[b].pc = "closing"
  /\ UNCHANGED <<observed, gen>>
  /\ IF req[b].offset <= disk[req[b].fd].lines
     THEN Respond(b, req[b].offset, Fingerprint(req[b].fd, req[b].offset), req[b].lines, req[b].reset)
     ELSE RespondReset(b)
  /\ UNCHANGED <<file, id, page, upsets>>

-----------------------------------------------------------------------------
(***************************************************************************)
(* The pages.                                                              *)
(***************************************************************************)

\* loadLogs, by the timer or, for a fresh start, by the button; one at a time.
Ask(b, fresh) ==
  /\ req[b].pc = "idle"
  /\ req' = [req EXCEPT ![b] =
               [NoRequest EXCEPT !.pc = "asked", !.fresh = fresh,
                                 !.after = IF fresh THEN NoCursor ELSE cursor[b]]]
  /\ UNCHANGED <<file, reader, page, upsets>>

Deliver(b) ==
  /\ req[b].pc = "answered"
  /\ LET again == req[b].fresh \/ req[b].reset
     IN  /\ shown' = [shown EXCEPT ![b] = IF again THEN req[b].lines ELSE @ \o req[b].lines]
         /\ raced' = IF req[b].overtaken THEN raced \cup {b}
                     ELSE IF again THEN raced \ {b} ELSE raced
  /\ cursor' = [cursor EXCEPT ![b] = req[b].next]
  /\ req' = [req EXCEPT ![b] = NoRequest]
  /\ UNCHANGED <<file, reader, upsets>>

\* The response is lost or an error: fetch throws and the page stays as it is.
Lose(b) ==
  /\ req[b].pc = "answered"
  /\ req' = [req EXCEPT ![b] = NoRequest]
  /\ UNCHANGED <<file, reader, page, upsets>>

\* The proxy starts again, with a new readerID; pages stay open.
Restart ==
  /\ id <= MaxRestarts
  /\ id' = id + 1
  /\ observed' = NoFile
  /\ gen' = 0
  /\ req' = [b \in Pages |-> NoRequest]
  /\ UNCHANGED <<file, page, upsets>>

-----------------------------------------------------------------------------

LogInit ==
  /\ path = NoFile
  /\ disk = [i \in Inodes |-> Holding(0, 0, FALSE)]
  /\ contents = 0
  /\ id = 1
  /\ observed = NoFile
  /\ gen = 0
  /\ req = [b \in Pages |-> NoRequest]
  /\ cursor = [b \in Pages |-> NoCursor]
  /\ shown = [b \in Pages |-> <<>>]
  /\ raced = {}
  /\ upsets = 0

Serve(b) ==
  \/ Missing(b) \/ OpenLog(b) \/ CheckFingerprint(b)
  \/ ReadLine(b) \/ ReadEnds(b) \/ StatPath(b) \/ Close(b)

FileSteps == (\E i \in Inodes : Create(i)) \/ BeginLine \/ EndLine \/ Truncate \/ Vanish

LogNext ==
  \/ FileSteps
  \/ \E b \in Pages :
       \/ \E fresh \in BOOLEAN : Ask(b, fresh)
       \/ Serve(b) \/ Deliver(b) \/ Lose(b)
  \/ Restart

\* The timer of a page asks again and again, a goroutine that can run is
\* scheduled, a mutex is handed to those who wait, and a page that keeps asking
\* gets a response now and then.  The file owes nothing.
LogFairness ==
  \A b \in Pages :
    /\ WF_logVars(Ask(b, FALSE))
    /\ SF_logVars(Serve(b))
    /\ SF_logVars(Deliver(b))

LogSpec == LogInit /\ [][LogNext]_logVars /\ LogFairness

-----------------------------------------------------------------------------

Fingerprints == (0..contents) \X Nat
Cursors == [id : 0..id, gen : Nat, offset : Nat, fingerprint : Fingerprints]
SomeLines == Seq((1..contents) \X (Nat \ {0}))

\* Type invariant; one request reads at a time, and only while it reads it has
\* the file open.
LogTypeOK ==
  /\ path \in Inodes \cup {NoFile}
  /\ disk \in [Inodes -> [content : 0..contents, lines : 0..MaxLines, torn : BOOLEAN]]
  /\ contents \in Nat /\ id \in Nat \ {0} /\ gen \in Nat
  /\ observed \in Inodes \cup {NoFile}
  /\ req \in [Pages -> [pc : {"idle", "asked", "answered"} \cup Reading, after : Cursors,
                        fresh : BOOLEAN, fd : Inodes \cup {NoFile}, reset : BOOLEAN,
                        offset : Nat, lines : SomeLines, next : Cursors, overtaken : BOOLEAN]]
  /\ cursor \in [Pages -> Cursors]
  /\ shown \in [Pages -> SomeLines]
  /\ raced \subseteq Pages
  /\ upsets \in 0..MaxUpsets
  /\ \A b \in Pages : (req[b].fd # NoFile) = (req[b].pc \in Reading)
  /\ \A b, c \in Pages : req[b].pc \in Reading /\ req[c].pc \in Reading => b = c

\* The first n lines of a content.
Beginning(content, n) == [i \in 1..n |-> <<content, i>>]

\* What a page shows is the beginning of one content of the file: no line is
\* skipped, shown twice or mixed with lines of another content, whatever is
\* truncated, moved, deleted, lost or restarted between its requests.  The
\* exception is a truncation during a read, if the file grows back at once.
ShownIsBeginning ==
  \A b \in Pages \ raced :
    \E content \in 0..contents : shown[b] = Beginning(content, Len(shown[b]))

\* A page only starts over when what it shows has gone from the path, or the
\* proxy has been restarted: growth and other pages do not clear it.
ResetsForAReason ==
  [][\A b \in Pages :
       /\ req[b].pc = "answered" /\ req[b].reset /\ ~req[b].fresh
       /\ req'[b].pc # "answered" /\ shown[b] # <<>> /\ b \notin raced /\ cursor[b].id = id
       => path = NoFile \/ disk[path].content # shown[b][1][1]]_logVars

\* A page that polls comes to show every complete line of the file, and nothing
\* else, if the file is left alone and nobody keeps asking for a fresh start.
UpToDate(b) ==
  shown[b] = IF path = NoFile THEN <<>>
             ELSE Beginning(disk[path].content, disk[path].lines)

CatchesUp ==
  <>[](\A b \in Pages : ~req[b].fresh) => <>[](\A b \in Pages \ raced : UpToDate(b))

=============================================================================
