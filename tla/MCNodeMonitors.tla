---------------------------- MODULE MCNodeMonitors ----------------------------
(* NodeMonitors with small numbers, given in the configuration.            *)
EXTENDS NodeMonitors
===============================================================================
