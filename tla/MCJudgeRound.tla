---------------------------- MODULE MCJudgeRound ----------------------------
(* Instances of JudgeRound: one process where faults are many, two where     *)
(* what one does to the other is the question.                               *)
EXTENDS JudgeRound
=============================================================================
