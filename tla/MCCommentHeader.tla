--------------------------- MODULE MCCommentHeader ---------------------------
(***************************************************************************)
(* Every line of up to five characters over "/", "*", blank and "x" (any  *)
(* other character), up to eight lines: enough for "/***/", "/**/",       *)
(* "x//" and block comments that span several lines.                      *)
(***************************************************************************)
EXTENDS CommentHeader

MCLines == BoundedSeq(Chars, 5)

=============================================================================
