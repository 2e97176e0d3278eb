--------------------------------- MODULE Jsonc ---------------------------------
(***************************************************************************)
(* internal/config/jsonc.go: stripJSONComments, on texts of the characters *)
(* it tells apart.                                                         *)
(***************************************************************************)
EXTENDS Integers, SequencesExt, FiniteSetsExt

Symbols == {"quote", "backslash", "slash", "star", "newline", "space", "other"}

TrimSpace(in) ==
  LET solid == {i \in DOMAIN in : in[i] \notin {"newline", "space"}}
  IN  IF solid = {} THEN <<>> ELSE SubSeq(in, Min(solid), Max(solid))

Follow(in, i, first, second) == i < Len(in) /\ in[i] = first /\ in[i + 1] = second

\* Positions behind a string, a line comment and a block comment that begin at i.
StringEnd(in, i) ==
  LET end[j \in 1..Len(in) + 1] ==
        IF j > Len(in) THEN j
        ELSE IF in[j] = "backslash" /\ j < Len(in) THEN end[j + 2]
        ELSE IF in[j] = "quote" THEN j + 1
        ELSE end[j + 1]
  IN  end[i + 1]

LineEnd(in, i) == Min({j \in i + 2..Len(in) : in[j] = "newline"} \cup {Len(in) + 1})

\* Mutant of BlockEnd: the star that opens a comment may close it.
BlockEndEarly(in, i) ==
  Min({j + 2 : j \in {k \in i + 1..Len(in) : Follow(in, k, "star", "slash")}}
        \cup {Len(in) + 1})

BlockEnd(in, i) ==
  Min({j + 2 : j \in {k \in i + 2..Len(in) : Follow(in, k, "star", "slash")}}
        \cup {Len(in) + 1})

\* A string is copied, a comment becomes a space.
StripFrom(in) ==
  LET strip[i \in 1..Len(in) + 1] ==
        IF i > Len(in) THEN <<>>
        ELSE IF in[i] = "quote"
             THEN SubSeq(in, i, StringEnd(in, i) - 1) \o strip[StringEnd(in, i)]
        ELSE IF Follow(in, i, "slash", "slash") THEN <<"space">> \o strip[LineEnd(in, i)]
        ELSE IF Follow(in, i, "slash", "star") THEN <<"space">> \o strip[BlockEnd(in, i)]
        ELSE <<in[i]>> \o strip[i + 1]
  IN  strip[1]

StripJSONComments(in) == StripFrom(TrimSpace(in))

-----------------------------------------------------------------------------
(***************************************************************************)
(* What the comment of the function says, one character at a time and      *)
(* without looking ahead.  A slash is held back until the next character   *)
(* tells what it begins.                                                   *)
(***************************************************************************)

Scan(scan, c) ==
  LET go(mode, written) == [mode |-> mode, out |-> scan.out \o written]
  IN  CASE scan.mode = "code" ->
             CASE c = "quote" -> go("string", <<c>>)
               [] c = "slash" -> go("slash", <<>>)
               [] OTHER -> go("code", <<c>>)
        [] scan.mode = "slash" ->
             CASE c = "slash" -> go("line", <<"space">>)
               [] c = "star" -> go("block", <<"space">>)
               [] c = "quote" -> go("string", <<"slash", c>>)
               [] OTHER -> go("code", <<"slash", c>>)
        [] scan.mode = "string" ->
             CASE c = "quote" -> go("code", <<c>>)
               [] c = "backslash" -> go("escape", <<c>>)
               [] OTHER -> go("string", <<c>>)
        [] scan.mode = "escape" -> go("string", <<c>>)
        [] scan.mode = "line" -> IF c = "newline" THEN go("code", <<c>>) ELSE scan
        [] scan.mode = "block" -> IF c = "star" THEN go("star", <<>>) ELSE scan
        [] scan.mode = "star" ->
             CASE c = "slash" -> go("code", <<>>)
               [] c = "star" -> scan
               [] OTHER -> go("block", <<>>)

WithoutComments(in) ==
  LET scan == FoldLeft(Scan, [mode |-> "code", out |-> <<>>], in)
  IN  IF scan.mode = "slash" THEN Append(scan.out, "slash") ELSE scan.out

=============================================================================
