---------------------------- MODULE MCTelemetry ----------------------------
(* Instances of Telemetry for TLC: all sockets come from one address.      *)
EXTENDS Telemetry

MCAddressOf == [s \in Sockets |-> "client"]

=============================================================================
