--------------------------- MODULE MCScanService ---------------------------
(* Instances of ScanService for TLC. *)
EXTENDS ScanService

NoFaults == {}
MemoryFaults == {"error", "kill"}
KillOnly == {"kill"}
SaveAndError == {"save", "error"}
AllFaults == {"error", "save", "kill"}
=============================================================================
