--------------------------- MODULE MCAppIdMonitor ---------------------------
(* Instances of AppIdMonitor for TLC.                                      *)
EXTENDS AppIdMonitor

=============================================================================
