--------------------------- MODULE CommentScanner ---------------------------
(***************************************************************************)
(* src/scripts/lheader.py: reads source lines from stdin and reports each  *)
(* as "Header" while the leading comment header lasts.  is_comment runs a  *)
(* per-character automaton over the stripped line; two globals carry      *)
(* state from one line to the next: in_multiline_comment and the          *)
(* still_header latch of is_comment_header.                                *)
(*                                                                         *)
(* A line is a sequence of characters; "x" stands for every character     *)
(* other than "/", "*" and a blank, all of which the automaton treats     *)
(* alike.  The current_comment buffer and the stderr trace only feed the  *)
(* debugging output and are left out.                                      *)
(***************************************************************************)
EXTENDS Naturals, Sequences, SequencesExt, FiniteSetsExt

CONSTANTS
  Lines,     \* the lines stdin may deliver
  MaxLines   \* bound on the number of lines read

Chars == {"/", "*", " ", "x"}

ASSUME Lines \subseteq Seq(Chars) /\ MaxLines \in Nat

\* The automaton's states (lines 30-36).
OUT_OF_COMMENT == 1
START_SLASH == 2
START_FIRST_AST == 3
IN_SIMPLE_COMMENT == 4
IN_ML_COMMENT == 5
END_AST == 6
LINE_START == 10

VARIABLES
  in_multiline_comment,  \* global of line 56
  still_header,          \* global of line 148
  nread                  \* lines read from stdin so far

scanner_vars == <<in_multiline_comment, still_header, nread>>

\* line.lstrip().rstrip()
Strip(l) ==
  LET kept == {k \in DOMAIN l : l[k] # " "}
  IN  IF kept = {} THEN <<>> ELSE SubSeq(l, Min(kept), Max(kept))

\* One iteration of "for c in line" of is_comment, on the record of state,
\* comment_found and in_multiline_comment.
CharStep(st, c) ==
  LET s == st.state
      to(t) == [st EXCEPT !.state = t]
  IN
  IF c = "/" THEN
    CASE s = START_SLASH -> [to(IN_SIMPLE_COMMENT) EXCEPT !.found = TRUE]
      [] s = END_AST     -> [to(LINE_START) EXCEPT !.ml = FALSE]
      [] s \in {OUT_OF_COMMENT, START_FIRST_AST, LINE_START} -> to(START_SLASH)
      [] OTHER           -> st
  ELSE IF c = "*" THEN
    \* lines 99-100 turn IN_ML_COMMENT into END_AST before the elif chain
    CASE s \in {IN_ML_COMMENT, END_AST} -> to(END_AST)
      [] s = START_SLASH     -> to(START_FIRST_AST)
      [] s = START_FIRST_AST -> [to(IN_ML_COMMENT) EXCEPT !.found = TRUE,
                                                          !.ml = TRUE]
      [] s = LINE_START      -> to(OUT_OF_COMMENT)
      [] OTHER               -> st
  ELSE
    CASE s \in {LINE_START, START_SLASH, START_FIRST_AST} -> to(OUT_OF_COMMENT)
      [] s = END_AST -> to(IN_ML_COMMENT)
      [] OTHER       -> st

\* The automaton after the whole line, started from in_multiline_comment.
ScanLine(line, ml) ==
  FoldLeft(CharStep,
           [state |-> IF ml THEN IN_ML_COMMENT ELSE LINE_START,
            found |-> ml, ml |-> ml],
           line)

\* Mutant: the return value leaves out LINE_START.
IsCommentResult_no_line_start(st) ==
  st.found /\ st.state \in {IN_SIMPLE_COMMENT, IN_ML_COMMENT, END_AST}

\* is_comment's return value for the automaton's final record.
IsCommentResult(st) ==
  st.found /\ st.state \in {IN_SIMPLE_COMMENT, IN_ML_COMMENT, END_AST,
                            LINE_START}

ScannerInit ==
  /\ in_multiline_comment = FALSE
  /\ still_header = TRUE
  /\ nread = 0

\* One iteration of "for line in stdin": is_comment_header(line).  Once
\* still_header is FALSE it returns at once and is_comment is not called.
ReadLine(line) ==
  /\ nread < MaxLines
  /\ nread' = nread + 1
  /\ IF still_header
     THEN LET st == ScanLine(Strip(line), in_multiline_comment)
          IN  /\ in_multiline_comment' = st.ml
              /\ still_header' = IsCommentResult(st)
     ELSE UNCHANGED <<in_multiline_comment, still_header>>

ScannerNext == \E line \in Lines : ReadLine(line)

=============================================================================
