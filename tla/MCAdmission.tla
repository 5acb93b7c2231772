---------------------------- MODULE MCAdmission ----------------------------
(* Admission with a window of two seconds.                                 *)
EXTENDS Admission

MCDelays == <<1, 2>>
MCOffsets == {0}
=============================================================================
