---------------------------- MODULE CommentHeader ----------------------------
(***************************************************************************)
(* lheader.py run side by side with the C lexer of CommentRef on the same *)
(* lines.  The reference variables only observe the input; the properties *)
(* compare what the script reports with what the lines are.               *)
(***************************************************************************)
EXTENDS CommentScanner, CommentRef

VARIABLES
  ref_st,            \* lexer state at the end of the lines read
  ref_comment_only,  \* every line read is inside or opens a comment and
                     \* holds no code
  ref_odd            \* a block comment not in the header style was read

vars == <<scanner_vars, ref_st, ref_comment_only, ref_odd>>

Init ==
  /\ ScannerInit
  /\ ref_st = "code"
  /\ ref_comment_only = TRUE
  /\ ref_odd = FALSE

Next ==
  \E line \in Lines :
    /\ ReadLine(line)
    /\ LET r == RefLine(ref_st, line)
       IN  /\ ref_st' = r.st
           /\ ref_comment_only' = (ref_comment_only /\ r.comment_only)
           /\ ref_odd' = (ref_odd \/ r.odd)

\* stdin ends after any line: every prefix of the input is a run.
Spec == Init /\ [][Next]_vars

-----------------------------------------------------------------------------
(* Properties                                                              *)

\* A header written in the style lheader.py expects (// lines, and block
\* comments opened by "/**" that are not the empty "/**/") is reported
\* as header line by line: is_comment, started from in_multiline_comment
\* carried over from the previous line, accepts each of its lines, so the
\* still_header latch of is_comment_header stays set.
HeaderStyleRecognised ==
  ref_comment_only /\ ~ref_odd => still_header

\* Every line reported as header holds nothing but comment: the header
\* ends at the first line with code on it.
NoCodeInHeader ==
  still_header => ref_comment_only

=============================================================================
