---------------------------- MODULE MCAdmission ----------------------------
(* Letflow.Admission on two callers, two tenants and a budget of two slots: *)
(* enough for one tenant to hold the whole budget before the other is       *)
(* tracked, and for a slot to outlive the epoch it was taken in.            *)
EXTENDS Admission
=============================================================================
