---------------------------- MODULE MCDashboard ----------------------------
(* The instances of Dashboard that TLC checks; the constants are given     *)
(* values in the configurations.                                           *)
EXTENDS Dashboard

=============================================================================
