------------------------------ MODULE MCIntake -------------------------------
(* TLC instance of Intake: a submission and a subscription for one URL. *)
EXTENDS Intake

CONSTANTS p1, f1
=============================================================================
