-------------------------------- MODULE MCExam --------------------------------
(* Exam with one multiple-choice question and one short text. *)
EXTENDS Exam

MCTypes == <<"multiple", "short_text">>
=============================================================================
