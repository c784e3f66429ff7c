--------------------------- MODULE MCQuizSession ---------------------------
(* Small instances of QuizSession. *)
EXTENDS QuizSession, TLC

(* Every question but the first is published. *)
FirstIsDraft == {Question \ {1}}
============================================================================
