----------------------------- MODULE MCReviewDesk ---------------------------
(***************************************************************************)
(* Two requests at once, and every kind of answer.                         *)
(***************************************************************************)
EXTENDS ReviewDesk, MCAnswers

=============================================================================
