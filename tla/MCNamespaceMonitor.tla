------------------------- MODULE MCNamespaceMonitor -------------------------
(* Instances of NamespaceMonitor for TLC.                                  *)
EXTENDS NamespaceMonitor

=============================================================================
