----------------------------- MODULE MCSelfProbe -----------------------------
(* SelfProbe with small numbers, given in the configuration.               *)
EXTENDS SelfProbe
==============================================================================
