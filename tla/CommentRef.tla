----------------------------- MODULE CommentRef -----------------------------
(***************************************************************************)
(* Reference for the comment scanner: C comment syntax, one line at a     *)
(* time, carrying the lexer state across lines.  Besides whether a line   *)
(* holds nothing but comment and blanks, it flags the block comments the  *)
(* header style of lheader.py does not use: one not opened by "/**", and  *)
(* the empty comment "/**/".                                               *)
(***************************************************************************)
EXTENDS Naturals, Sequences, SequencesExt

\* Lexer states: in code, after a "/" in code, in a // comment, after
\* "/*", after "/**", inside a block comment, after a "*" inside one.
RefStates == {"code", "slash", "line", "open", "open2", "block", "bstar"}

InBlock == {"open", "open2", "block", "bstar"}

\* r: [st, code: a code character seen, cmt: inside or after a comment
\* opener, odd: a block comment not in the header style]
RefChar(r, c) ==
  LET go(t) == [r EXCEPT !.st = t]
      s == r.st
  IN
  CASE s = "code"  -> IF c = "/" THEN go("slash")
                      ELSE IF c = " " THEN r
                      ELSE [go("code") EXCEPT !.code = TRUE]
    [] s = "slash" -> IF c \in {"/", "*"}
                      THEN [go(IF c = "/" THEN "line" ELSE "open")
                              EXCEPT !.cmt = TRUE]
                      ELSE [go("code") EXCEPT !.code = TRUE]
    [] s = "line"  -> r
    [] s = "open"  -> IF c = "*" THEN go("open2")
                      ELSE [go("block") EXCEPT !.odd = TRUE]
    [] s = "open2" -> IF c = "/" THEN [go("code") EXCEPT !.odd = TRUE]
                      ELSE IF c = "*" THEN go("bstar") ELSE go("block")
    [] s = "block" -> IF c = "*" THEN go("bstar") ELSE r
    [] s = "bstar" -> IF c = "/" THEN go("code")
                      ELSE IF c = "*" THEN r ELSE go("block")

\* The lexer over one line, from "code" or "block", the states a line
\* can begin in.  The end of the line ends a // comment, makes a pending
\* "/" code, leaves "/*" not followed by "*", and is a character inside a
\* block comment.
RefLine(st, line) ==
  LET r == FoldLeft(RefChar, [st |-> st, code |-> FALSE, odd |-> FALSE,
                              cmt |-> st = "block"], line)
  IN  [st |-> IF r.st \in InBlock THEN "block" ELSE "code",
       odd |-> r.odd \/ r.st = "open",
       comment_only |-> r.cmt /\ ~r.code /\ r.st # "slash"]

=============================================================================
